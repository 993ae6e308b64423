# A TLA+ model of muse-acp

muse-acp is an adapter process. On one side it speaks ACP (the Agent Client
Protocol) to an editor over its own stdin and stdout; on the other it owns one or
more Muse host processes and speaks MSP (the Muse session protocol) to them over
pipes. It turns editor requests (`session/prompt`, `session/cancel`, ...) into host
commands, and host events (turns, approvals, questions, items) into editor
notifications and requests. Hosts keep sessions durably; the adapter keeps only
what is in flight, and has to survive a host that exits at any moment.

Paths below are under `src/`: `crates/muse-msp-client/src/client.rs` is the
reusable connection crate, `src/main.rs`, `src/fold.rs` and `src/bridge.rs` most of the adapter.

## Inventory

| Component | State it keeps | Operations | Talks to | What is hard | What makes it correct |
|---|---|---|---|---|---|
| MSP client connection (`client.rs`) | `Core::pending`, `Core::writer`, the write channel, two pipes, the child or a terminate hook | `start_request`, `wait`, `cancel`, `close`, drop, `reader_loop`, `write_loop`, `host_closed` | host over pipes, embedder over an event channel | five threads and two bounded pipes; write timeout against a late write; loss of the host | one verdict per request, no caller left waiting, nothing runs after its failure was reported |
| Approvals (`main.rs`, `acp.rs`) | `pending_perm`, `perm_queue`, `approval_seen`, `approval_resolved`, `approval_reviewing` | `open_approval`, `complete_permission`, `complete_permission_feedback`, `pop_queued_approval`, `reconcile_pending`, `approval/*` events | host, editor prompts and forms, auto-review, stop | reissues, multi-stage requirements, answers to withdrawn prompts, restart between answer and acknowledgement | each open approval is before somebody, each is decided once, none is approved without consent |
| Auto-review (`main.rs`, `reviewer.rs`) | `ReviewState`: queue, active job, session, text, retries, deadline | `enqueue_review`, `start_next_review`, reviewer events, expiry, reset and recycling of the host | a separate memory-only host, the approvals | late events of replaced hosts, deadline, exits | the verdict belongs to the review, every review ends |
| Prompt turns (`main.rs`) | `in_flight`, `active_turn`, `pending_recap`, `pending_feedback`, `view_cursor` | `session/prompt` and its commands, steering, `session/cancel`, `$/cancel_request`, `session/close`, turn events, re-attachment | host view, editor | acks overtake events; five ways to settle a prompt; terminals lost in a crash | every prompt is answered once, Stop reaches what runs, the reported state is true |
| Hosts and restart (`hosts.rs`, `msp.rs`, `main.rs`) | generations, owners of sessions, restart budget | launch, restart, move a session between the main and the read-only host | everything above | spawn loops, work open on a session that moves | budget respected, no event of an old generation is applied |
| Session lifecycle (`main.rs`) | the session maps, pending deletes | new, load, resume, fork, close, delete, leave | hosts, editor | delete is acknowledged first and confirmed later | a deleted session is not resurrected |
| User input forms (`main.rs`) | `pending_ui`, `ui_seen`, `pending_feedback`, `DEVICE_LOGIN` | `userInput/*`, staged forms and their answers, reissue, `/feedback`, device login | host, editor | answers that cross a settlement or a reissue, refused answers, a host that dies in between | one form per open question, the host gets what the user confirmed, every command is answered once |
| Transcript fold (`fold.rs`, `main.rs`) | cursors, roles of items, streamed text, terminals, rows that wait for an anchor | item and turn events, `view/gap` and its refill, re-attachment, replay of history | host view, editor | duplicated, missing and late events; four ways for one event to arrive | the transcript neither repeats nor loses anything, an item settles once |
| Subagents (`fold.rs`, `main.rs`) | state and generation of each child, transcripts being read | item reports of a child, `drill_down_subagent_child`, control of a child | host, editor, reader threads | a thread's result against the next report of the child | one announcement and one end per generation, the client ends with the truth |
| Background tasks and workflows (`fold.rs`, `main.rs`) | announced tasks, their states, listed workflow runs | item reports, completions, `task/list`, reconciliation, stop | host, editor | a task has two names; ends lost in a crash or a gap | no ended task is shown running, no run is offered beside its successor |
| Editor tools (`bridge.rs`) | tokens, cancel generations, running calls, cards | connections, `tools/call` of four tools, cancel, time limits | Muse over HTTP, editor, fold | a thread per connection, an editor that never answers, terminals to release | every call ends, nothing runs behind it, a card shows its own call |
| Editor connection (`editor.rs`, `acp.rs`) | `Shared::responders`, `Shared::sealed` | hold, respond, withdraw, `fail_unanswered` | loop, deadline | answer against settlement | one response per request |
| Shutdown (`shutdown.rs`, `main.rs`, `msp.rs`) | `DISCONNECTED`, `EXPIRING`, `HOSTS`, settings views | end of input, deadline and its threads, settlement, forced stop | everything | the loop is stuck in a host command | the process ends, open requests are answered, no host is left |
| Modes and options, handshake, exit classification, method wrappers, JSON and diff, configuration import, packaging | little or none | pure or file I/O | | | unit-testable |

The adapter has **one loop thread** that reads one channel fed by the editor's
reader and by the reader threads of all hosts. A handler of that thread may block
in a host command. Events that arrive meanwhile wait; the host does not. So the
adapter's modules treat a handler as atomic only up to the host commands whose
answer it uses afterwards, and cut it there (variable `loop`, `loopAt` in AutoReview). The connection crate
is truly multi-threaded, and there one step is one critical section or one blocking
call. Shutdown, EditorTools and Subagents have threads of their own beside the loop and
are cut the same way, at locks released and results awaited.

`PROJECT.json` lists all components with their status, the hazards at their lines
with the properties that watch them, and for each definition the source lines it
stands for.

## Modules

`MC*` modules only fix the constants of a component for TLC. Every bound on the
environment is a named constant and appears in a guard of an environment action
(`MaxCrashes`, `MaxRare`, `EventCap`, ...). Some proof modules extend two components, to
name the properties of both; the components concerned therefore prefix the usual names
(`TasksInit`, `ShutdownSpec`, `ReviewTypeOK`, ...). Two bounds of Hosts also stop steps of
the code: `MaxProcs`, past which nothing is launched, and `MaxNow`, past which the
clock that `RestartBudget::admit` reads does not go.

### MspClient

| Variable | Code |
|---|---|
| `pc` | where each caller, closer and the reader thread is |
| `pending`, `reply`, `result` | keys of `Core::pending`; what each reply channel holds; what `start_request(..)?.wait()` returned |
| `writer`, `end` | `Core::writer` is `Some`; `Core::end`: an owned process, or a custom transport whose terminate hook is still there or taken |
| `wq`, `wstate`, `wcur`, `wresult` | the write channel, `write_loop`, and the result channels |
| `stdin`, `stdout`, `alive`, `got`, `answered` | the pipes and the host behind them (external) |
| `forward`, `listening`, `closedSent` | the event channel to the embedder |
| `held` | waiters a thread has drained from the map and not woken yet |

`Register`, `CloneSender`, `Enqueue`, `Written`, `WriteTimeout`, `Terminate`,
`RunHook`, `Unregister` are `start_request` and `send_raw`; `TakeWriter`,
`DrainPending`, `WakeHeld`, `StopChild` are `fail_pending`, `host_closed` and
`close`; `Receive`, `ReplyTimeout`, `Expire`, `Cancel` are `wait` and `cancel`;
`Writer*` is `write_loop`; `ReadFrame`, `SendEvent`, `ReadEof`, `SendClosed` are
`reader_loop`. A request id has exactly one caller thread, so both share a name.
`ReplyTimeout` deadlines may fire at any time. Frames are abstracted to their kind.

### RequestContract

What an embedder may rely on: a request starts, is read by the host at most once, and
returns at most once as answered, unwritten or unknown; *answered* only if the host has
read it, *unwritten* only if it has not and never will, so the command may be sent again.
MspClient implements it (`KeepsContract`) under the mapping `served <- got` and `fate` =
new before the caller starts, open while it is anywhere in `start_request` or `wait`, and
after that the class of its verdict: a result is *answered*, a broken pipe *unwritten*,
timeouts, cancellation and a lost connection *unknown*.

### Approvals

`hstage`, `hdone` are the host's truth: the requirement an approval has reached and
whether it is terminal. `events` is the unread part of the event stream. `pending`,
`queue`, `seen`, `resolved`, `unread`, `reviewing` are the fields of the session;
the queue holds an approval once (`WithoutRow` takes it out before it is put back); `asks`
records every request sent to the editor and whether it is still live; `sent` counts `approval/decide` commands per requirement. `open_approval` is cut at its
`view/page` read and its decision (`OpenResolved` ... `OpenNoChoices`,
`SendDecision`); `CompletePermission` and `CompleteFeedback` take any answer to any
request ever sent, so late and duplicated answers are included. `Restart`,
`RestartFails` and `ReconcileRow` are the recovery path. Choices are the five classes
the adapter tells apart.

### AutoReview

`queue`, `active`, `session`, `hostSessions`, `text`, `retries`, `turn`, `deadline`
are `ReviewState`; an approval is queued once, so dropping it removes one entry. `slot`
is the generation of the current reviewer host, `chan` the
events of all its generations. `start_next_review` is cut at launch, `session/start`
and `turn/start`. `outcome` records what became of each job. The text of a message is
its class: an allowing verdict, a denying one, or none; `text.of` is a ghost that
remembers the review whose message it was.

### Turns

`turns`, `view`, `sent` are the host: its turns, the events the loop has not read,
and how many of those are already sent (a crash cuts off the rest, and a later
re-attachment replays it). `inFlight`, `active`, `recap`, `feedback`, `ahead` are
`in_flight`, `active_turn`, `pending_recap`, `pending_feedback` and the distance of
`view_cursor`. Each kind of `session/prompt` is an action; `Resume`, `Reattach` and
`RestartFails` are `restart_durable_host` as far as one session sees it.
`inFlight` holds one entry per turn, as the map does; `answers` counts responses to each
prompt. Under ACP v1 a prompt is answered when it
settles, under v2 when it is accepted, after which `shown` is the last state update.

### Hosts

| Variable | Code |
|---|---|
| `durable` | `handshake().restartable()` |
| `proc`, `out` | every process launched, numbered by its generation (`HostTag`), and its unread events |
| `slot`, `owner` | `Hosts::main` and `Hosts::read_only`; `Hosts::owners` |
| `open`, `mode`, `busy` | the `Sessions` map, `session_mode`, and whether a session has unfinished work |
| `pending` | `DELETES`, with the process each delete was sent to |
| `saved`, `disk`, `loaded` | the mode store that all adapters share; Muse's store; which process holds a session |
| `admitted`, `now` | the times `RestartBudget` admitted a restart, one budget per kind |
| `home`, `lost`, `retired` | observations: who started a session, which open ones could not be opened again after a restart or a failed move, which processes a move shut down |

`NewSession`, `LoadSession`, `ForkSession`, `Prompt`, `CloseSession`, `DeleteSession`,
`RelabelMode` and `MoveSession` are handlers of `handle_acp`, with `place_session` and
`Hosts::route` in each; `ReadOnlyClosed` and `MainClosed` are the `Closed` arm of the
loop, `DeleteCompleted` and `DeleteFailed` are `session/deleteCompleted`. Handlers are
atomic, except `restart_durable_host` (`Relaunch`, `Attach`, `AttachDone`,
`RelaunchFails`) and `move_session` (`MoveSession`, then a restart of the source, then
`MoveOpens` or `MoveRefused` and `MoveReturns`), which are cut at every host command
because a host may exit between two of them. Only `admit` reads the clock, so the clock
moves when it does. The end of a session's work is read in one step with its event.
Exits, moves, deletes and mode changes by another adapter are counted together by
`rare`. When the adapter ends its memory is reset and the stores remain.

### Transcript

`log` is the host's view, an event's cursor its index; `view` is the rest of the events
this host will produce. `hole` is where live delivery stopped (`HostDrop`), announced as
`view/gap` once delivery goes on. `s` is the session with its fold: `cursor`, `seen` and
`twins` are the cursor bookkeeping of `handle_msp`; `role`, `streamed`, `done`, `held`,
`cut`, `terminals`, `monitors` are fields of `SessionFold`; `rows` and `text` are what the
editor has been sent. Each handler of the fold is an operator on `s` (`OnItemSnapshot`,
`OnItemDelta`, `CompleteItem` with its kinds, `Deferring`, `FlushAnchors`,
`TurnCompleted`), and `ReadEvent`, `ReadGap` with `WalkPage`, `Reattach` with `Suffix`, and
`Load` are the four ways to reach it. Deltas are ephemeral: they have a cursor, and no page
returns them. `excused` marks losses that no page or suffix can bring back: a refill or a
re-attachment that failed. The texts are piece numbers; the views a host may produce are a
constant, constrained by `WellFormed`.

### Subagents

One child session: all tables of the code are keyed by the child. `life` and `item` are the
host's truth, `wire` its reports; `fold` the owner's fold, as far as it is about the child;
`loop` the main loop inside `handle_msp`, cut where the session lock is released before
the lines are sent; `reads` the `drill_down_subagent_child` threads, one per generation;
`sent` what the client has received. `air` chooses between the two dialects.

### Tasks

`host`, `away`, `rev` and `from` are the host's tasks, of which those in `away` have left
their turn for the background, `log` its reports. `fold` has, per task, the
fields `announced_tasks`, `async_task_states`, `async_task_msp_ids` and the client's panel,
under both names a task can have: its own and its item's. `listed` and `gone` are
`workflow_children` and `superseded_workflows`. `DeliverPastGap` and `RefillGap` are the
out-of-order path; `Resume`, `Reconcile`, `ReattachView`, `SeedTaskInventory` and `Abandon`
are the steps of a restart; `Load` folds the history from nothing. `told` remembers by which
way the fold learned of an end: an item of the view, or the history of a resume or load.

### UserInput

`hostQ` and `hostGot` are the host's user inputs and the answers it settled them with,
`wire` and `replies` what the loop has not read from the host and from the editor. `ui`,
`seen`, `feedback` and `login` are the fields of the code; `forms` are all forms ever sent.
`CompleteElicitation` is cut into its cases (`StaleReply`, `DeclineQuestion`,
`RejectAnswer`, `AnswerQuestion` with `Submit` and `ReissueRejected`); the command in it may
be admitted, refused or lost with the host. A host that is resumed asks its open questions
again in any order (`Orders`), before or without the settlements it had not delivered, which
keep theirs. An answer is the id of the form it was given on.

### Shutdown

`table` and `sealed` are `Shared` of `editor.rs`, `queue` what the loop has not read, `loop`
where the loop is; it may stay in a host command for ever. `armed`, `expiring`, `worker` and
`stopper` are the deadline and the two threads of `expire`; `registry` and `regLock` are
`HOSTS` and its mutex; `host` and `view` the processes and their settings views.
`RegisterLock`, `RegisterPush` and `Registered` are `register_host` and the check for an
expiring deadline after it; `WorkerSeals`, `WorkerDrains` and `SettleDrain` are the two halves
of `fail_unanswered` on either thread. Hosts are numbered in the order they are spawned
(`IsNext`).

### EditorTools

`call` is the thread of each `tools/call`: its session, tool, the cancel generation it
captured, the editor request it waits for (`step`) and why it is winding down. `ask` is
what the editor makes of that request: it may answer, fail, ignore it, or still act on one
that was withdrawn. `running` and `flags` are `RUNNING` and the flags behind it, `idle` the
kept connections that hold a slot, `term` the editor's terminals, `cards` the bounded
`CARDS`. `Receives`, `Aborts` and `TimesOut` are the three ways out of `request_blocking`, in
the order the code polls; `AfterStep` is what each tool does next. All calls of a tool name
one file or command, the case in which cards can be confused.

## Runs

| Run | Bounds | Shows |
|---|---|---|
| `MspClient` | 1 request, reader, writer, 1 closer, a pipe of 1 frame, 1 frame of noise, an owned child or a custom transport | `NoStrandedWaiter`: a request registered behind the shutdown always has a drain coming; `OneSettler`, `SettlesOnce`: reply, cancel, drain and deadline never settle a request twice; `NoLateDelivery`: what failed with a write timeout is not read afterwards; `DeathSettles`: once the host is gone every started request returns; `KeepsContract`: the refinement of RequestContract |
| `Approvals` | a guided approval of a child, one without a rejection, one without choices, of which two come up; 2 requirements each, policy on one, 2 unread events, 1 of reissue, exit or auto-review toggle; a history that may fail | `NoneForgotten`: no open approval is with nobody; `DecidedOnce`; `NoApprovalWithoutConsent`; `OnePrompt`: no orphan request on the user's screen; `ResolvedNeverReopens` |
| `AutoReview` | 2 jobs, 2 messages or exits, 2 sessions per host, 1 retry | `VerdictIsOwn`: a decision comes from a message of its own review; `NoGhostDecision`: a resolved approval is never allowed, and denied only when the reviewing host exits; `EveryReviewSettles` |
| `Turns` | 2 prompts, 3 turns, 3 unread events, 1 steer, 1 crash, ACP v1 and v2 | `AnsweredOnce`, `NoHangingPrompt`, `StopReachesAll`, `IdleMeansDone` |
| `Hosts` | 2 sessions, one left by an earlier adapter; 3 modes, 3 processes, 3 rare steps, 1 restart per window of 1 | `ModeIsEnforced`: no host without the restriction holds a read-only session; `NoLeakedHost`, `OpenIsHeld`: an open session with work is held by its owner's process, and so is an idle one unless it could not be opened again; `CrashFailsDeletes`, `MovesInterruptNothing` |
| `Transcript` | 5 views of 6 items, an output budget of 1, pages of 2, lag of 2, 2 faults of which 1 crash, v1 and v2 | `NoRepeat`, `SettlesOnce`, `NothingLost`, `AnchorOrder` |
| `Subagents` | 5 reports, 3 generations, 2 transcript items, both dialects | `OneEndPerGeneration`, `ClientHasTheTruth` |
| `Tasks` | 2 tasks of any kind, 4 reports, 1 crash, 1 load | `NoStuckTask`, `NoTwoGenerations` |
| `UserInput` | 2 user inputs of 2 and 1 questions, 3 forms, 2 commands, 2 unread messages, 1 crash | `FormForEveryQuestion`, `AnswersAreTheUsers`, `EveryCommandAnsweredOnce` |
| `Shutdown` | 2 requests, 2 hosts | `EveryRequestAnswered`, `NoHostOutlivesUs`, `StuckLoopStillExits` |
| `EditorTools` | 2 calls, 1 session, 4 tools, 1 connection, 1 card, 1 cancel | `CardIsOwn`: calls one after the other on one connection; `NoRunawayTerminal`: a call that was given a terminal ends past its release; `EveryCallEnds` |
| `ApprovalsQueue` | an approval without a reject-like choice and two others, no restart | finding: `QueueIsShown` is violated |

Two more configurations are kept for use by hand. `TasksChain` (3 workflow runs, 6 reports, 1
load) checks `NoTwoGenerations` where a run that replaced another is replaced in turn, which
a theorem covers for chains of any length. `TranscriptAnchor` (1 view of 2 items, no faults) shows the
counterexample of `RowAfterItsAnchor`, described under the observations.

Every module also defines `TypeOK`; it holds in the configuration of the module's run and
is not one of the run's properties.

Why the bounds are enough. A race in the client is about one request and the threads that
reach it, the caller, the reader, the writer and a closer; two callers were also checked for
the safety properties, and the theorems cover any number. One frame of pipe capacity makes
every write able to block and to be the one that fills the pipe. An approval interferes
with one that is displayed and one that is queued; two requirements give every
superseding; more events only repeat older ones. Two rare steps with one unread event were
also checked. A review is disturbed by its predecessor only, through one session, one host
or one queued event, hence two jobs. Turns need one running, one queued and one that no
prompt owns, hence three. Sessions disturb each other by sharing a host, hence two of them;
three processes are the two hosts and one replacement, and three rare steps let a host exit
during a move or while a delete waits. `Max` and `Window` of 1 make the second exit in a
window the one that is refused. The views of Transcript put each kind of item, each
terminal state and the anchor before and after its row; two faults let a hole be followed by
a crash, a replay or another hole, which is what overlaps a refill with a suffix. Five
reports take a child through an end, a resumption and a second end, with one report
repeated. Four reports take a task to the background and to an end beside another, or a
workflow to its successor; a run between two others needs three runs and six reports, which
`TasksChain` gives to workflows alone. Three forms allow a reissue behind two questions. One card and
one connection make the limits of EditorTools bind in each run of two calls. With them two calls
are never in flight at once and have one session, so the run shows `CardIsOwn` for what a finished
call leaves to the next one; calls at once and several sessions are more than a run with
liveness can hold, and are covered by `CardIsOwnHolds` alone.

Deadlock is checked in `Hosts`, whose loop can always take a step until the adapter
has ended (`Ended`). It is off in the other runs: each of those models may come to
rest when the bounded environment has nothing more to ask. That nothing is *stuck* is what
`NoStrandedWaiter`, `NoneForgotten`, `NoHangingPrompt`, `NothingLost`,
`FormForEveryQuestion` and the liveness properties say. Symmetry is used for
interchangeable prompts and tasks, in runs without liveness only.

### Fairness

`MspClient!FairSpec` assumes weak fairness of the client's own threads and that the
write timer fires (`recv_timeout` with a finite timeout). Nothing is assumed of the
host, of the embedder, or of a request's own deadline: the code falls back to no
deadline when the addition overflows. `AutoReview!FairSpec` assumes that the loop
runs, and strong fairness of the deadline check: `recv_timeout` with an elapsed
deadline still returns queued messages first, so the check is enabled again and again
between messages, and it is taken only because the channel is drained now and then.
A reviewer that floods the loop without pause is outside that assumption (listed as a
hazard without a property). Nothing is assumed of the reviewer host.
`Shutdown!Spec` assumes weak fairness of the deadline thread alone, whose waits are all
bounded: not of the loop, not of the connection, not of a host. `EditorTools!FairSpec` assumes weak
fairness of each call's thread, whose every wait has a time limit and a poll
interval, and nothing of the editor.

## Findings

* **`ApprovalsQueue`** (`main.rs:13980`): a comment on the queue of permissions says that a
  second approval waits there and that the adapter will "display it when the current one
  settles" (`main.rs:13478`). When the user dismisses a permission that offers nothing
  reject-like, `complete_permission` takes it, stops the owner's work and returns without
  `pop_queued_approval`; an approval of another owner behind it, which nothing stopped,
  stays queued and is shown to nobody until the next event that pops the queue.

Observations that no run states. Some are kept as definitions next to the properties, under
the name given, for whoever wants to see the counterexample.

* Approvals. Popping an approval that has resolved, has no choices or goes to the reviewer
  also leaves the queue behind it undisplayed until the next event, as does a guidance form
  dropped at the end of a turn. A decision sent while the host was dying is lost: after the
  restart the approval is listed again and dropped as one in `approval_seen` (`main.rs:13483`,
  against the comment at 13385). `NoneForgotten` is therefore about a host that was not
  lost, and counts an approval in the queue as kept.
* AutoReview. When the reviewer host exits during a review, the job is denied but
  `ReviewState.session` survives (`main.rs:4485`), and the next review asks for a turn in a
  session of a dead host (`SessionIsOwn`; `docs/auto-review.md:80`). The same arm denies
  without asking whether the approval has resolved (`main.rs:4487`); `NoGhostDecision` excepts
  exactly that step, and no other decision than that denial.
* Turns. A `/recap` prompt that is open when the host exits is settled when re-attachment
  fails and forgotten when it succeeds (`main.rs:4026`, `RecapOwed`). `reconcile_in_flight`
  answers "cancelled" for a turn whose terminal is in the suffix about to be replayed; stop
  reasons are not told apart here. In v2, ending an open feedback form by `session/cancel`
  reports idle while turns are in flight (`main.rs:15942`): `IdleMeansDone` excepts that step, and
  says of it that a running host has just been told to stop each of them. `turn/completed`
  reports idle while a recap is held, and a session steered into a turn that no prompt owns
  may stay "running" after a restart that skipped its terminal. A turn whose `turn/start` timed
  out but was admitted and queued is not among the stop targets until it starts;
  `StopReachesAll` is about running turns.
* MspClient. With a custom transport the terminate hook is called after its lock is
  released, so a second timed-out writer may return before the transport is terminated
  (`client.rs:679`); `NoLateDelivery` excepts the time until the hook runs.
  `MspEvent::Closed` is sent before the drained senders are dropped (`client.rs:755`), so an
  embedder may see the event before its requests have failed.
* Hosts. `move_session` shuts a host down and replaces it without
  `fail_pending_deletes_for`; the outcome of a `session/delete` waiting there comes from a
  replaced process and is dropped (`main.rs:4428`), so the request is answered only if a
  later process of that kind exits. `CrashFailsDeletes` excepts processes a move shut down.
  `session/delete` of a read-only session that this adapter has not opened goes to the main
  host; the event that refuses it makes the main host its owner (`learn_event_owner`), so the
  next load opens it there in the default mode although the store says read-only.
  `ModeIsEnforced` holds: the mode shown is the one in force. An idle session that cannot be
  opened again after a restart or a failed move stays open and nobody holds it. The editor
  hears nothing of it: `abandon_session_work` has no prompt to fail (`main.rs:14425`), the failure is
  only logged (`main.rs:4200`, `main.rs:3746`), and the host refuses its next prompt, unless the
  session is loaded before. `OpenIsHeld` excepts exactly these idle sessions; one with unfinished work
  is never among them, because its work is failed when it is abandoned. If the relaunch of the main
  host fails during a move, its exit, when read, decides whether the adapter ends. Closing a
  lost read-only session may launch a read-only host only to send it `session/leave`. Two
  adapters that save modes at the same time may lose one of the entries (`modes.rs:63`).
* Transcript. A second crash while the suffix of the first is being replayed moves the
  cursor past events not folded (`main.rs:3565`): `NothingLost` is for one crash. A row that
  waits for an anchor which itself waited stays held when that one settles, until the turn
  ends, because the rows released with an anchor release no others (`fold.rs:3570`); `NothingLost` excepts
  it. In a replay an anchored message never waits, and the row of a chain is released before
  the row it is anchored to (`fold.rs:2793`): `AnchorOrder` is about other kinds of item whose
  anchor has no anchor of its own. "The host names the anchor so the row renders after their
  rows" (`fold.rs:3003`), and an anchor counts as seen when "its rows exist, which a started
  item already satisfies" (`fold.rs:3010`); but a message or a thought is in `items` from its
  start, before any text of it is shown, so a row anchored to a reply that has only started is not
  deferred (`fold.rs:3014`) and the reply's text comes after it (`RowAfterItsAnchor`,
  violated under `TranscriptAnchor.cfg`). For anchors of the kinds whose start shows a
  row the comment is right, and `AnchorOrder` says so. A
  turn's end can be folded before an event of the turn that a refill brings
  (`EndedTurnIsOver`), and a reply settled from a suffix may lack pieces that were only ever
  deltas (`CompletedIsTruth`). `session/load` of a live session can repeat text.
* Subagents. The thread sends a transcript after it has released the session lock, so a
  terminal state handled in between overtakes it (`EndsAtTerminal`, against
  `docs/acp-extensions.md:78`).
* Tasks. A late report of an ended run can list it again (`EndedIsNotListed`, against the
  comment at `fold.rs:546`). Ends of seeded tasks and of workflows are not taken from the
  history of a resume, and a task known from `task/list` only never settles.
* UserInput. A decline the host never received leaves its question without a form
  (`NoHangingQuestion`, against `docs/event-compatibility.md:69`). The terminal of a cancelled
  login flow answers the login that follows it (`LoginEndsWithItsFlow`, `main.rs:2274`), and
  `DEVICE_LOGIN` is not cleared when the host dies. `complete_elicitation` reports "running"
  while other forms are open. A user input of an unknown owner is logged as cancelled, and no
  cancellation is sent.
* Shutdown. A request held after the seal is not answered (`EveryOpenRequestAnswered`, against
  the comment of `fail_unanswered`). The loop's exit may precede the deadline's force-stop
  (`ForceStopOwnsTheView`, `DeadlineStopsHosts`), and a settlement returns at once when the
  other thread has sealed the table but not yet drained it.
* EditorTools. `previous_text` takes any error of its read for an absent file, that of a
  cancelled wait among them (`bridge.rs:1111`), so a write cancelled while it reads the old
  text is sent all the same (`README.md:708` says cancel fails the call). The mode of
  the session is read when a call starts (`bridge.rs:1038`) and may
  have changed when it writes; an edit is a read followed by a write; a withdrawn
  `terminal/create` may leave a terminal that nobody releases; without call ids, cards of the
  same tool can be confused within a session; a restarted host may reuse a key of `RUNNING`.

## Proofs

Every theorem holds for any value of the constants its module's assumption allows: any
sets of requests, approvals, prompts, sessions or calls, any bound on queues, crashes, restarts
and retries. The assumptions say only that a bound is a natural number (positive where
the code's constant is), that a placeholder such as `"none"` is not a member of a set, that
the threads of a client are distinct, that an offer maps approvals to choices
(`ThreadsAssumption`, `ShutdownAssumption`, `TurnsAssumption`, `AutoReviewAssumption`,
`ApprovalsAssumption`, `EditorToolsAssumption`, `HostsAssumption`, `UserInputAssumption`,
`TasksAssumption`, `BoundsAssumption` of Subagents, `TranscriptAssumption`), that
the modes are the adapter's own, that the user inputs are finitely many, and that in the view
a host produces an item starts once, streams its deltas in order and completes at
most once (`ViewsAssumption`). TLC
evaluates each of them. Each component also has its types as a theorem (`TypeCorrect`, or
`TasksTypeCorrect`, `ShutdownTypeCorrect`, `ReviewTypeCorrect` where a module proves about two
components), on which the rest is built. The inductive invariants were first checked by TLC on the bounds of the runs.

### ClientAndTasksProofs: the client

* `NeverStranded` (`NoStrandedWaiter`): the writer is taken before the map is drained, so
  whoever finds the writer gone after registering either failed its own lookup or is
  still to be drained. Inductive with the types alone.
* `OneSettlerHolds`, `RepliesSettleOnce` (`OneSettler`, `SettlesOnce`): a caller never sits at
  a label of `close` or `host_closed` (`CallerRoles`), so each step that settles a request
  removes it from the one place it is in; who writes a reply channel holds the request.
* `NoLateDeliveryHolds`: past `terminate()`, and once a write timeout was returned, the host is
  dead or another thread has taken the terminate hook and is about to call it
  (`TerminatedIsDead`); a dead host reads nothing.
* `RefusedNeverRunsHolds`: a frame is in one place (channel, writer, pipe, host) or nowhere, and
  a request that got a broken pipe is nowhere (`OneFrame`).
* `ContractIsKept` (`KeepsContract`): the safety of RequestContract, step by step, under the
  mapping the run checks. From `OneFrame`, and from `RealAnswers`: a reply that is a
  result, wherever it is on its way, answers a request the host has read.

### ClientAndTasksProofs: the tasks

* `NothingStaysRunning` (`NoStuckTask`): a task shown running is announced and not settled, and
  is known under one name until its end (`FoldInv`); an end the fold was told of leaves
  nothing open, and is the host's (`FoldsInv`). What a report says of an end, of the
  background and of the run it resumes stays true (`LogInv`), and with no death and no second
  load the view has told each end up to where it is read (`ToldInv`).
* `OneGenerationListed` (`NoTwoGenerations`): a run that was superseded is not listed, and is
  superseded as soon as its successor is listed (`ListInv`). The proof covers chains of any
  length; its first attempt showed that a replay of the history must also take out the runs
  in the middle of a chain, which a model of two runs could not tell (`TasksChain`).

### TurnsProofs

* `AnsweredOnceHolds`: an open prompt is in exactly one of `in_flight`, `pending_recap` and
  `pending_feedback`, with the answers its protocol version gives at acceptance, and every
  other prompt was answered (`OneHolder`).
* `NoHangingPromptHolds`, `StopReachesAllHolds`: what the loop believes agrees with the host up
  to the events it has yet to read. A prompt in flight waits for a turn the host still
  has or for an unread end (`Awaited`); the running turn is the active one, or in flight, or
  its start is unread (`Followed`); both need the order of the host's events (`HostOrder`),
  and both are relative to the head of the snapshot while a re-attachment is under way.
* `IdleMeansDoneHolds`: from the guards of each step and, for the stop of an open feedback
  form, from the interrupts the same step sends.

### SubagentsAndReviewProofs: the auto-review

* `VerdictIsOwnHolds`: the session of the active review was started for it on the process in
  use, and a session left over from a process that is gone is never of the process in
  use (`SessionOf`), so late text of another review has another turn or generation.
* `NoGhostDecisionHolds`, `SettledOnceHolds`: an approval is queued, being started or under
  review, in one place, and not settled (`OneReview`). What is settled after the approval is
  known to have resolved is dropped, or the denial of the arm that reads the host's exit.

### TranscriptProofs

A handler of the fold runs other handlers in loops: over the rows an anchor releases, over
a page, over a history. So the proof first gives each handler a relation between the session
before and after it (`Eff`, `Shown`, `Releases`, `Streams`, `Handles`, `HandlesAll`), proves
that the relations compose, and carries them through each loop by looking at the first
element where they would fail (`Least`, `StaysIn`). What holds of the session at every
point between two handlers is `Good`, also within a replay:

* `Shape` of the rows: nothing but the mark follows a final row, and a row that may come once
  does. `ItemOK`: what the fold knows of an item agrees with its rows; an item has its
  final row or exit only if it is `done`, and an item that is done has no role, shell or
  terminal. Gives `SettlesOnceHolds`.
* `TextOK`: the pieces shown of an item increase, and an item with text that is not done has
  streamed, so that its completion sends nothing again. With `LiveGood`, every delta in the
  pipe either is of a settled item or continues the text shown, and the deltas of an item
  are in order. That holds through a hole, because no page returns a delta, and through a
  crash, because the pipe only loses its end; a replay starts from an empty pipe. Gives
  `NoRepeatHolds`.
* `RowsOK`: the final row of an anchored item is after the anchor's first row or a turn ended
  between them. It needs `HeldOK`: a row is held only until its anchor is done, unless
  the anchor waited too. Gives `AnchorOrderHolds`, for rows other than messages and anchors
  that show a row when they start and have no anchor of their own.

`NothingLostHolds` says that until the second crash nothing is lost; no constant is
restricted. Its invariant is `Complete`:

* `Trust`: a completion whose cursor is in `seen` or `twins`, or which the current refill has
  passed or delivered, belongs to an item that is settled (`Honest`, `WalkDone`). So an event
  that is refused as old was folded.
* `OpenComing`: unless a loss is excused, every completion in the log whose item is not
  settled is on its way: in the pipe, in a hole or a bracket that will be refilled, in the rest
  of the refill, or in the suffix a re-attachment asks for. While the process is down the
  suffix begins after the last cursor in the pipe (`ReadTo`). With nothing on its way,
  that is the property.
* `Early`: until the first crash the deliveries are in the order of their cursors, a bracket next to
  the event that closes it, and what is on its way is ahead of the session's cursor
  (`PendingAhead`), also of the one that a refill will restore (`EndWalk`). Without it, a crash
  could leave a suffix that begins after an event nobody has handled. After a re-attachment
  the cursor is at the head while the suffix is still in the pipe: `Early` is
  over, and with it the promise for a second crash.

### ApprovalsProofs

* `OnePromptHolds`: the requests behind the pending permission are the ones sent for it
  (`AskOf`), and the queue has one row for an approval (`OneRow`).
* `NoApprovalWithoutConsentHolds`: by `AskOf`, an answer that is accepted is an answer to the
  prompt that showed this approval at this requirement.
* `DecidedOnceHolds`: a requirement is before the user, with the reviewer, being decided or
  decided, one of them at a time, and remembered in `approval_seen` (`OneTaker`).
* `ResolvedNeverReopensHolds`: a decision of the policy is about to be sent only for an
  approval not known to be resolved (`PolicyFresh`).
* `NoneForgottenHolds`: while the turn works, each open approval is in somebody's hands at
  the requirement it has reached, or is unread, arriving or queued and not yet seen
  (`Accounted`). That needs the requirements of an approval to reach the loop in their order
  until the host exits (`InOrder`) and what the adapter was told to be true (`Truth`).

### ThreadsProofs: the shutdown

* `EveryRequestAnsweredHolds`: whoever takes a responder out of the table answers it, and past
  the seal and its drain only requests that came late are left there (`Answered`), for
  whichever of the two threads seals (`Control`).
* `NoHostOutlivesUsHolds`: a host that runs is being launched by the loop or registered
  (`Watched`); a registered host is dead, or still to be stopped: by the loop before the
  deadline expires, by the deadline until it has looked at the registry (`Accounted`). What
  remains when the process is gone is a host that was being launched when the deadline ended
  the process, or one that a deadline which found the registry locked passed over.

### ThreadsProofs: the editor's tools

* `CardIsOwnHolds`: what is kept for a card is of a call that ran, under its session and
  tool (`Kept`); `take_card_content` matches on both.
* `NoRunawayTerminalHolds`: for each step of a call, what the editor has done for it so far
  (`Errand`): only a call of the terminal tool makes a terminal, and one that did ends only
  past its release, which the editor carried out, failed or ignored.

### HostsProofs

One invariant, because each part rests on the others:

* `Tracked`: every process that is not dead is in the slot of its kind, a slot is free
  before a launch, and an exit is unread unless its restart has begun. Gives
  `NoLeakedHostHolds`.
* `Holders`: only a process that is not dead holds a session. `Answerable`: an unread outcome
  is of a delete that waits for this process, and a delete waits for a current process
  that is not being replaced or for one a move shut down. Gives `CrashFailsDeletesHolds`.
* `Placement`: an open session belongs to the host that enforces its mode; a session that
  moves is held by nobody and has changed its owner but not its mode. Gives
  `ModeIsEnforcedHolds`; with the guard of `move_session` on the work of every session of
  the host, `MovesInterruptNothingHolds`.
* `Kept`: a session that is not lost is held, or its loss is unread, or the loop has yet to
  attach it. `Abandoned`: one that is lost has no work and no host, and neither has one that
  is still to be attached a host. Together they give `OpenIsHeldHolds`.

### UserInputProofs

* `AnswersAreTheUsersHolds`: the form of an open user input is about the question after the
  confirmed ones, and these are answers on forms about the questions before it, each sent
  after the one before (`Answering`). A refused answer is not among them because the walk
  that is shown again carries the old ones.
* `EveryCommandAnsweredOnceHolds`: a command that waits is named by the one offer of its kind,
  no command by two (`Offering`).
* `FormForEveryQuestionHolds`: a live form is the current one of its user input and unanswered,
  and the current form of an open one is live or its answer is on the way (`Screen`);
  what the host says of a question is unread until the loop has acted on it (`Heard`). With
  nothing on its way the property is what is left of the two.

### SubagentsAndReviewProofs: the subagents

* `OneEndHolds` (`OneEndPerGeneration`): the end of a generation is in exactly one place: sent,
  among the lines the loop or the generation's thread is about to send, or held for that
  thread (`EndInv`), and it is somewhere just when the fold has left the generation or has
  its state. The announcement precedes every other line (`SpawnInv`, `OrderInv`), because a
  thread exists only for a generation whose announcement was sent (`ReadInv`).
* `TruthArrives` (`ClientHasTheTruth`): the reports on the wire follow each other from the one
  last handled to the host's state (`WireInv`), the fold is the last handled one's
  (`LoopInv`), and in the RFD dialect the last line that tells a state tells the fold's
  (`RfdInv`).

### Only model-checked

* Liveness: `DeathSettles`, `EveryReviewSettles`, `StuckLoopStillExits`, `EveryCallEnds`. The
  prover does not handle fairness.
* What `ApprovalsQueue` and `TranscriptAnchor` refute, each by a counterexample on a small
  instance.

## Not modelled

* Text and layout (titles, cards, diffs, JSON), hashing: algorithms over characters without
  state that two parties share.
* In the transcript: plans, usage and title facts, file-change reports, reminder cards, the
  monitor inbox, `items`-shaped pages, a gap without its bracket, and empty cursors.
* Model and reasoning selectors, which mirror what the host reports; version negotiation and
  exit classification, which are tables; the typed translation between ACP v1 and v2.
* Configuration import, MCP configuration and packaging: file I/O and scripts.
* Nested subagents and the children of a workflow, which use the same tables one level down.
* Signals and exit codes of the adapter.
