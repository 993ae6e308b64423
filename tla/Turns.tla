-------------------------------- MODULE Turns --------------------------------
(***************************************************************************)
(* The prompts of one ACP session (main.rs): session/prompt and the turns  *)
(* it starts or queues, protocol commands, /recap and /feedback, steering, *)
(* session/cancel, $/cancel_request and session/close, the host's turn     *)
(* events, and the re-attachment of the session after a host restart.      *)
(*                                                                         *)
(* The host keeps a durable view of the session.  `view` is the part the   *)
(* loop has not read yet; a crash cuts off what was not sent.  Handlers of *)
(* the one loop thread are atomic: events that arrive during a host        *)
(* command wait until the handler returns.  Only the re-attachment is cut  *)
(* after its session/resume, whose answer is used after further commands.  *)
(* The host and the editor are external.  Approvals are the module         *)
(* Approvals; a prompt they hold back is one of the refusals here.  Why a  *)
(* turn ended (the stop reason) is not told apart.                         *)
(***************************************************************************)
EXTENDS Naturals, Sequences

CONSTANTS
    Prompts,       \* session/prompt requests, each sent once
    Versions,      \* ACP versions the editor may negotiate, of {1, 2}
    ViewCap,       \* bound: events the loop is behind the host
    MaxTurns, MaxSteers, MaxCrashes   \* bounds on the environment

ASSUME TurnsAssumption ==
    /\ "none" \notin Prompts
    /\ Versions \subseteq {1, 2} /\ Versions # {}
    /\ ViewCap \in Nat /\ MaxTurns \in Nat /\ MaxSteers \in Nat /\ MaxCrashes \in Nat

VARIABLES
    ver,               \* negotiated_ver
    turns, view, sent, \* the host: its turns, unread events, how many of them it sent
    told, retract,     \* turns told to stop; those that may be taken back
    hrecaps,           \* recaps the host owes a completion
    up, crashes, steers,
    loop, snap,        \* the loop: the handler running, session/resume's answer
    session,           \* "live", "detached" after a failed restart, "closed"
    ahead,             \* unread events that AcpSession::view_cursor is already past
    inFlight, active,  \* in_flight, active_turn (0: None)
    recap, feedback,   \* pending_recap, pending_feedback
    asked, answers,    \* prompts sent by the editor, responses sent to each
    shown              \* the last v2 state update

hostVars == <<turns, view, sent, told, retract, hrecaps, up, crashes>>
sessionVars == <<session, ahead, inFlight, active, recap, feedback>>
vars == <<ver, hostVars, steers, loop, snap, sessionVars, asked, answers, shown>>

Running == {t \in DOMAIN turns : turns[t] = "running"}
Queued == {t \in DOMAIN turns : turns[t] = "queued"}
\* A turn has one entry at most, so the Vec of them is a set.
InFlight == [turn : 1..MaxTurns, req : Prompts \cup {"none"}, queued : BOOLEAN]
Reqs(es) == {e.req : e \in es}
Tracked(t) == \E e \in inFlight : e.turn = t
Events == [m : {"started", "completed", "unqueued", "retracted", "declined"}, t : 1..MaxTurns]
NoSnap == [known |-> {}, active |-> 0, head |-> 0, after |-> 0]

HostOK ==
    /\ turns \in Seq({"queued", "running", "retracted", "ended"}) /\ Len(turns) <= MaxTurns
    /\ view \in Seq(Events) /\ sent \in 0..Len(view)
    /\ told \subseteq DOMAIN turns /\ retract \subseteq told
    /\ hrecaps \subseteq Prompts /\ up \in BOOLEAN /\ crashes \in Nat

LoopOK ==
    /\ ver \in Versions /\ steers \in Nat /\ loop \in {"idle", "attach"}
    /\ snap \in [known : SUBSET (1..MaxTurns), active : 0..MaxTurns, head : Nat, after : Nat]
    /\ session \in {"live", "detached", "closed"} /\ ahead \in 0..Len(view)

PromptsOK ==
    /\ inFlight \subseteq InFlight /\ active \in 0..MaxTurns
    /\ recap \in Prompts \cup {"none"} /\ feedback \in Prompts \cup {"none"}
    /\ asked \subseteq Prompts /\ answers \in [Prompts -> Nat]
    /\ shown \in {"idle", "running", "requires_action"}

TypeOK == HostOK /\ LoopOK /\ PromptsOK

Init ==
    /\ ver \in Versions
    /\ turns = <<>> /\ view = <<>> /\ sent = 0 /\ told = {} /\ retract = {}
    /\ hrecaps = {} /\ up = TRUE /\ crashes = 0 /\ steers = 0
    /\ loop = "idle" /\ snap = NoSnap
    /\ session = "live" /\ ahead = 0 /\ inFlight = {} /\ active = 0
    /\ recap = "none" /\ feedback = "none"
    /\ asked = {} /\ answers = [q \in Prompts |-> 0] /\ shown = "idle"
-----------------------------------------------------------------------------
(* What the editor is told                                                 *)

\* A response to each of these requests; a turn without a request has none.
Respond(reqs) == answers' = [q \in Prompts |-> answers[q] + (IF q \in reqs THEN 1 ELSE 0)]
\* v1 answers a prompt when it settles, v2 when it is accepted.
RespondV1(reqs) == Respond(IF ver = 1 THEN reqs ELSE {})
RespondV2(reqs) == Respond(IF ver = 2 THEN reqs ELSE {})
\* send_state, in v2 only.
State(s) == shown' = IF ver = 2 THEN s ELSE shown
Busy == active # 0 \/ inFlight # {}
\* The command is done, not the session.
Rest == IF Busy THEN "running" ELSE "idle"
-----------------------------------------------------------------------------
(* The host's part in a command, external                                  *)

\* An event of the session's view; a running host sends it.
Emit(e) ==
    /\ Len(view) < ViewCap
    /\ view' = Append(view, e) /\ sent' = IF up THEN sent + 1 ELSE sent
Idle == Running \cup Queued = {}
NewTurn == Len(turns) + 1
\* turn/start: the host starts the turn, or queues it behind what it has.
Admit ==
    /\ up /\ session = "live" /\ NewTurn <= MaxTurns
    /\ turns' = Append(turns, IF Idle THEN "running" ELSE "queued")
    /\ IF Idle THEN Emit([m |-> "started", t |-> NewTurn]) ELSE UNCHANGED <<view, sent>>
    /\ UNCHANGED <<told, retract, hrecaps, up, crashes>>
-----------------------------------------------------------------------------
(* session/prompt                                                          *)

Prompt(q) ==
    /\ loop = "idle" /\ session # "closed" /\ q \notin asked
    /\ asked' = asked \cup {q}
Track(t, q, queued) ==
    inFlight' = inFlight \cup {[turn |-> t, req |-> q, queued |-> queued]}

\* turn/start was acknowledged.
PromptTurn(q) ==
    /\ Prompt(q) /\ Admit
    /\ Track(NewTurn, q, ~Idle)
    /\ active' = IF Idle THEN NewTurn ELSE active
    /\ RespondV2({q}) /\ State("running")
    /\ UNCHANGED <<ver, steers, loop, snap, session, ahead, recap, feedback>>

\* A block that cannot be sent, or nothing at all to send: refused before the host
\* hears of it.
PromptUnreadable(q) ==
    /\ Prompt(q)
    /\ Respond({q})
    /\ UNCHANGED <<ver, hostVars, steers, loop, snap, sessionVars, shown>>

\* An approval is pending, the host refused or did not answer in time, a second
\* recap or form: the prompt fails.  A host that did not answer in
\* time may have admitted the turn all the same.
PromptRefused(q) ==
    /\ Prompt(q)
    /\ Respond({q})
    /\ Admit \/ UNCHANGED hostVars
    /\ UNCHANGED <<ver, steers, loop, snap, sessionVars, shown>>

\* /compact, a bare /plan, /rename and the like settle at once.
PromptCommand(q) ==
    /\ Prompt(q)
    /\ Respond({q}) /\ State(Rest)
    /\ UNCHANGED <<ver, hostVars, steers, loop, snap, sessionVars>>

\* The goal turn the ack names is not one the session already follows.
FreshGoalTurn(t) == active # t /\ ~Tracked(t)

\* A goal verb: the ack names the turn it woke, or the one already running.
PromptGoal(q) ==
    /\ Prompt(q) /\ up /\ session = "live"
    /\ \E t \in 1..MaxTurns :
       /\ IF Idle THEN t = NewTurn /\ Admit ELSE t \in Running /\ UNCHANGED hostVars
       /\ IF FreshGoalTurn(t)
          THEN Track(t, q, FALSE) /\ active' = t /\ RespondV2({q}) /\ State("running")
          ELSE Respond({q}) /\ State(Rest) /\ UNCHANGED <<inFlight, active>>
    /\ UNCHANGED <<ver, steers, loop, snap, session, ahead, recap, feedback>>

\* start_recap: the prompt stays open until recap/completed.
PromptRecap(q) ==
    /\ Prompt(q) /\ up /\ session = "live" /\ recap = "none"
    /\ recap' = q /\ hrecaps' = hrecaps \cup {q}
    /\ RespondV2({q}) /\ State("running")
    /\ UNCHANGED <<ver, turns, view, sent, told, retract, up, crashes, steers, loop, snap,
                   session, ahead, inFlight, active, feedback>>

\* start_feedback with forms: the prompt stays open until the form is answered.
PromptFeedback(q) ==
    /\ Prompt(q) /\ feedback = "none"
    /\ feedback' = q
    /\ State("requires_action")
    /\ UNCHANGED <<ver, hostVars, steers, loop, snap, session, ahead, inFlight,
                   active, recap, answers>>

\* complete_feedback: sent, declined, or not delivered, the command is done.
FeedbackAnswered ==
    /\ loop = "idle" /\ feedback # "none"
    /\ Respond({feedback}) /\ feedback' = "none"
    /\ State(Rest)
    /\ UNCHANGED <<ver, hostVars, steers, loop, snap, session, ahead, inFlight,
                   active, recap, asked>>
-----------------------------------------------------------------------------
(* Steering, cancellation and closing                                      *)

\* _session/steering: turn/steer into the active turn, or turn/start with ifBusy
\* steer.  The ack names the turn that took the input.
Steer ==
    /\ loop = "idle" /\ session = "live" /\ up /\ steers < MaxSteers
    /\ steers' = steers + 1
    /\ \/ /\ active = 0 /\ Idle /\ Admit             \* startedNewTurn
          /\ active' = NewTurn /\ Track(NewTurn, "none", FALSE)
       \/ /\ \E t \in Running : active' = t          \* injected
          /\ UNCHANGED <<hostVars, inFlight>>
    /\ State("running")
    /\ UNCHANGED <<ver, loop, snap, session, ahead, recap, feedback, asked, answers>>

\* session_stop_targets: the prompts' turns, and the running one nobody owns.
StopTargets == {e.turn : e \in inFlight} \cup ({active} \ {0})

\* The interrupts that reach a running host; a terminal turn rejects its own.
Interrupt ==
    /\ told' = IF up THEN told \cup (StopTargets \cap (Running \cup Queued)) ELSE told
    /\ UNCHANGED <<turns, view, sent, hrecaps, up, crashes>>

\* session/cancel: the recap and the form settle here, turns by their own events.
SessionCancel ==
    /\ loop = "idle" /\ session # "closed"
    /\ Interrupt
    /\ retract' = retract \cup (told' \cap {e.turn : e \in inFlight})
    /\ Respond({feedback} \cup (IF ver = 1 THEN {recap} ELSE {}))
    /\ recap' = "none" /\ feedback' = "none"
    /\ IF feedback # "none" THEN State("idle")
       ELSE IF recap # "none" THEN State(Rest) ELSE UNCHANGED shown
    /\ UNCHANGED <<ver, steers, loop, snap, session, ahead, inFlight, active, asked>>

\* $/cancel_request for a prompt: turn/unqueue when its turn has not launched; the
\* host refuses when it has by now.
CancelPending(q) ==
    /\ loop = "idle" /\ up /\ session = "live"
    /\ \E e \in inFlight :
       /\ e.req = q /\ e.queued /\ e.turn \in Queued
       /\ turns' = [turns EXCEPT ![e.turn] = "ended"]
       /\ Emit([m |-> "unqueued", t |-> e.turn])
    /\ UNCHANGED <<ver, told, retract, hrecaps, up, crashes, steers, loop, snap,
                   sessionVars, asked, answers, shown>>

\* session/close: cancel_session_turns, then drop_acp_session.
CloseSession ==
    /\ loop = "idle" /\ session # "closed"
    /\ Interrupt /\ UNCHANGED retract
    /\ session' = "closed" /\ inFlight' = {} /\ active' = 0
    /\ recap' = "none" /\ feedback' = "none"
    /\ Respond({feedback} \cup
               (IF ver = 1 THEN {recap} \cup Reqs(inFlight) ELSE {}))
    /\ IF inFlight # {} \/ {recap, feedback} # {"none"} THEN State("idle")
       ELSE UNCHANGED shown
    /\ UNCHANGED <<ver, steers, loop, snap, ahead, asked>>
-----------------------------------------------------------------------------
(* Events of the host                                                      *)

Event == Head(view)
\* The cursor follows every event.
CursorFollows == ahead' = 0
\* The loop reads the next event.
Take(m) ==
    /\ loop = "idle" /\ session = "live" /\ sent > 0 /\ Event.m = m
    /\ view' = Tail(view) /\ sent' = sent - 1 /\ CursorFollows
    /\ UNCHANGED <<ver, turns, told, retract, hrecaps, up, crashes, steers, loop, snap,
                   session, recap, feedback, asked>>

\* The prompt of turn t and what is left in flight without it.
Others(t) == {e \in inFlight : e.turn # t}
ReqOf(t) == Reqs(inFlight \ Others(t))
\* Prompts in flight, of which turn t runs and waits in no queue any more.
Launched(es, t) == {[e EXCEPT !.queued = @ /\ e.turn # t] : e \in es}
\* Mutant: whatever ended, the session has no running turn.
EndsActiveAny(t) == 0
\* A turn that ends is no longer the running one.
EndsActive(t) == IF active = t THEN 0 ELSE active
\* Mutants: the entry is looked up and kept, or dropped without an answer.
SettleKeeps(t) == UNCHANGED inFlight /\ RespondV1(ReqOf(t))
SettleSilently(t) == inFlight' = Others(t) /\ UNCHANGED answers
\* The prompt of turn t settles, exactly once because its entry is removed.
Settle(t) == inFlight' = Others(t) /\ RespondV1(ReqOf(t))
\* Mutant: idle after every turn.
RestOfIdle(t) == "idle"
\* The state after turn t ended.
RestOf(t) == IF Others(t) = {} THEN "idle" ELSE "running"

\* turn/started.
TurnStarted ==
    /\ Take("started")
    /\ active' = Event.t
    /\ inFlight' = Launched(inFlight, Event.t)
    /\ UNCHANGED <<answers, shown>>

\* turn/completed, of a turn some prompt owns or of any other.
TurnCompleted ==
    /\ Take("completed")
    /\ active' = EndsActive(Event.t)
    /\ Settle(Event.t)
    /\ State(RestOf(Event.t))

\* turn/unqueued: the turn never runs.
TurnUnqueued ==
    /\ Take("unqueued")
    /\ Settle(Event.t)
    /\ IF Tracked(Event.t) /\ Others(Event.t) = {} THEN State("idle") ELSE UNCHANGED shown
    /\ UNCHANGED active

\* turn/retracted accepted: final.
TurnRetracted ==
    /\ Take("retracted")
    /\ active' = EndsActive(Event.t)
    /\ Settle(Event.t)
    /\ IF Tracked(Event.t) /\ Others(Event.t) = {} THEN State("idle") ELSE UNCHANGED shown

\* turn/retracted declined: a notice; the terminal settles the prompt.
TurnDeclined ==
    /\ Take("declined")
    /\ UNCHANGED <<active, inFlight, answers, shown>>

\* recap/completed, whatever its outcome; one the session no longer waits for is
\* ignored.
RecapCompleted(q) ==
    /\ loop = "idle" /\ session = "live" /\ up /\ q \in hrecaps
    /\ hrecaps' = hrecaps \ {q}
    /\ IF recap = q
       THEN recap' = "none" /\ RespondV1({q}) /\ State(Rest)
       ELSE UNCHANGED <<recap, answers, shown>>
    /\ UNCHANGED <<ver, turns, view, sent, told, retract, up, crashes, steers, loop, snap,
                   session, ahead, inFlight, active, feedback, asked>>
-----------------------------------------------------------------------------
(* The host exited: restart_durable_host                                   *)

\* session/resume on the replacement; a session that never finished a turn may be
\* unknown there and is started again, without its turns.  adopt_reattached takes
\* over its answer.
Resume ==
    /\ loop = "idle" /\ session = "live" /\ ~up /\ sent = 0
    /\ up' = TRUE /\ sent' = Len(view)
    /\ \/ /\ snap' = [known |-> Running \cup Queued,
                      active |-> IF Running = {} THEN 0 ELSE CHOOSE t \in Running : TRUE,
                      head |-> Len(view), after |-> ahead]
          /\ UNCHANGED turns
       \/ /\ \A t \in DOMAIN turns : turns[t] \in {"queued", "running"}
          /\ turns' = [t \in DOMAIN turns |-> "ended"]
          /\ snap' = [known |-> {}, active |-> 0, head |-> Len(view), after |-> Len(view)]
    /\ active' = snap'.active /\ ahead' = Len(view)
    /\ loop' = "attach"
    /\ UNCHANGED <<ver, view, told, retract, hrecaps, crashes, steers, session, inFlight,
                   recap, feedback, asked, answers, shown>>

\* reconcile_in_flight: the turns the resumed host still has.
Known == snap.known

\* The view past its first n events is on its way to the loop.
Follow(n) ==
    /\ view' = SubSeq(view, n + 1, Len(view))
    /\ sent' = IF sent > n THEN sent - n ELSE 0
\* reattach_view replays what was missed, or follows from the resumed head; then
\* reconcile_in_flight settles the prompts whose turns are gone.
Reattach ==
    /\ loop = "attach"
    /\ loop' = "idle" /\ snap' = NoSnap
    /\ \/ up /\ Follow(snap.after) /\ ahead' = Len(view')
       \/ Follow(snap.head) /\ ahead' = 0
    /\ LET kept == {e \in inFlight : e.turn \in Known}
           gone == inFlight \ kept IN
       /\ inFlight' = Launched(kept, snap.active)
       /\ RespondV1(Reqs(gone))
       /\ IF gone # {} /\ kept = {} THEN State("idle") ELSE UNCHANGED shown
    /\ UNCHANGED <<ver, turns, told, retract, hrecaps, up, crashes, steers, session, active,
                   recap, feedback, asked>>

\* No replacement, or it cannot re-attach the session: abandon_session_work.
RestartFails ==
    /\ loop = "idle" /\ session = "live" /\ ~up /\ sent = 0
    /\ session' = "detached"
    /\ inFlight' = {} /\ active' = 0 /\ recap' = "none"
    /\ RespondV1(Reqs(inFlight) \cup {recap})
    /\ IF inFlight # {} \/ recap # "none" THEN State("idle") ELSE UNCHANGED shown
    /\ UNCHANGED <<ver, hostVars, steers, loop, snap, ahead, feedback, asked>>
-----------------------------------------------------------------------------
(* The host, external                                                      *)

adapterVars == <<ver, steers, loop, snap, sessionVars, asked, answers, shown>>
HostTurn(t, st, m) ==
    /\ turns' = [turns EXCEPT ![t] = st]
    /\ told' = told \ (IF st = "ended" THEN {t} ELSE {})
    /\ retract' = retract \cap told'
    /\ Emit([m |-> m, t |-> t])
    /\ UNCHANGED <<hrecaps, up, crashes, adapterVars>>

\* The next queued turn starts, or fails to launch.
HostLaunches(t) ==
    /\ up /\ Running = {} /\ t \in Queued /\ \A u \in Queued : t <= u
    /\ HostTurn(t, "running", "started") \/ HostTurn(t, "ended", "completed")

\* A goal continuation, or another client's turn.
HostStarts ==
    /\ Idle /\ Admit
    /\ UNCHANGED adapterVars

\* A terminal; while the host is down it is the one its recovery records.
HostEnds(t) ==
    /\ t \in Running
    /\ HostTurn(t, "ended", "completed")

\* What an interrupt does: a queued turn is dropped, a running one that has said
\* nothing yet is taken back, or is not.
HostStops(t) ==
    /\ up /\ t \in told
    /\ \/ t \in Queued /\ \E m \in {"unqueued", "completed"} : HostTurn(t, "ended", m)
       \/ t \in Running \cap retract /\ HostTurn(t, "retracted", "retracted")
       \/ /\ t \in Running \cap retract
          /\ Emit([m |-> "declined", t |-> t]) /\ retract' = retract \ {t}
          /\ UNCHANGED <<turns, told, hrecaps, up, crashes, adapterVars>>
       \/ turns[t] = "retracted" /\ HostTurn(t, "ended", "completed")

HostCrash ==
    /\ up /\ crashes < MaxCrashes
    /\ up' = FALSE /\ crashes' = crashes + 1
    /\ sent' \in 0..sent
    /\ told' = {} /\ retract' = {} /\ hrecaps' = {}
    /\ UNCHANGED <<turns, view, adapterVars>>
-----------------------------------------------------------------------------
Editor ==
    \/ \E q \in Prompts :
          \/ PromptTurn(q) \/ PromptUnreadable(q) \/ PromptRefused(q) \/ PromptCommand(q) \/ PromptGoal(q)
          \/ PromptRecap(q) \/ PromptFeedback(q) \/ CancelPending(q)
    \/ FeedbackAnswered \/ Steer \/ SessionCancel \/ CloseSession
Loop ==
    \/ TurnStarted \/ TurnCompleted \/ TurnUnqueued \/ TurnRetracted \/ TurnDeclined
    \/ \E q \in Prompts : RecapCompleted(q)
    \/ Resume \/ Reattach \/ RestartFails
Host ==
    \/ \E t \in DOMAIN turns :
          HostLaunches(t) \/ HostStops(t) \/ HostEnds(t)
    \/ HostStarts \/ HostCrash

Next == Editor \/ Loop \/ Host
Spec == Init /\ [][Next]_vars
-----------------------------------------------------------------------------
(* Properties                                                              *)

\* The loop has read everything a running host sent it.
CaughtUp == loop = "idle" /\ session = "live" /\ up /\ sent = 0

\* Every prompt is answered at most once, however its turn ends: by a terminal,
\* an unqueue, a retract and its late terminal, a stop, a restart or a close.
AnsweredOnce == \A q \in Prompts : answers[q] <= 1

\* No prompt hangs: once the loop has caught up, a prompt without an answer waits
\* for a turn the host still has, for a recap, or for the feedback form; nor does
\* a prompt of v2, answered when it was accepted, stay in flight without its turn.
NoHangingPrompt ==
    CaughtUp =>
        /\ \A q \in asked : answers[q] = 0 =>
              q \in {recap, feedback} \/ \E e \in inFlight : e.req = q
        /\ \A e \in inFlight : turns[e.turn] \in {"queued", "running"}

\* Stop reaches whatever runs: once the loop has caught up, the running turn is
\* among the stop targets, whoever started it and whatever restart or late event
\* came between.
StopReachesAll == CaughtUp => Running \subseteq StopTargets

\* A held recap is one the host still owes: "the held prompt must not outlive" it.
RecapOwed == (CaughtUp /\ recap # "none") => recap \in hrecaps

\* The session is reported idle only when no prompt is in flight.  Stopping an open
\* feedback form does not look (settle_feedback_cancelled): it may report idle with
\* turns in flight, but then has just told a running host to stop each of them.
IdleMeansDone ==
    [][(shown # "idle" /\ shown' = "idle") =>
          \/ inFlight' = {}
          \/ /\ feedback # "none" /\ feedback' = "none"
             /\ up => StopTargets \cap (Running \cup Queued) \subseteq told']_vars

=============================================================================
