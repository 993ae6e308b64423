------------------------------- MODULE Tasks -------------------------------
(***************************************************************************)
(* The background work of a session, from fold.rs and main.rs: tool calls  *)
(* moved to the background, user shells and workflows.  The fold shows     *)
(* each as an AIR async task and keeps the list of live workflow runs the  *)
(* editor may control.  The host reports its items on the session's view;  *)
(* a report can be lost and refilled late (view/gap), the host can die and *)
(* be resumed (adopt_reattached), and the editor can load the session      *)
(* again, which folds the history from nothing.                            *)
(*                                                                         *)
(* A task has two names: its own (the call id, the shell card's id or the  *)
(* workflow run id), under which its item events announce it, and the host *)
(* item id, under which task/list seeds it.                                *)
(***************************************************************************)
EXTENDS Naturals, Sequences, FiniteSets

CONSTANTS Tasks,
          MaxReports,   \* reports on the view
          MaxCrashes,   \* host deaths
          MaxLoads      \* session/load calls of the editor

ASSUME TasksAssumption ==
  /\ "none" \notin Tasks
  /\ MaxReports \in Nat /\ MaxCrashes \in Nat /\ MaxLoads \in Nat

VARIABLES
  kind,     \* what each task is
  host,     \* the host's state of each task
  away,     \* the tasks whose item says it runs in the background
  rev,      \* the revision of each task's item
  from,     \* resumeFromRunId of each workflow
  log,      \* the durable view of the session
  pos,      \* how much of it the main loop has handled
  gap,      \* a report the view skipped and will refill (0: none)
  cursor,   \* view_cursor: where a re-attach starts
  phase,    \* live, or the step of a re-attach the main loop is in
  fold,     \* per task: what the fold knows and the client's panel shows
  listed,   \* workflow_children: the revision listed of a run (0: not listed)
  gone,     \* superseded_workflows
  told,     \* how this fold was told of each task's end
  crashes, loads

taskVars == <<kind, host, away, rev, from, log>>
foldVars == <<fold, listed, gone, told>>
tasksVars == <<kind, host, away, rev, from, log, pos, gap, cursor, phase, fold, listed,
          gone, told, crashes, loads>>

Kinds == {"tool", "shell", "workflow"}
Keys == {"own", "item"}
None == "none"
Running == {"fg", "bg", "paused"}
Ended == {"completed", "failed", "stopped"}

----------------------------------------------------------------------------
(* The fold of one task, fold.rs.                                          *)

Blank == [ann   |-> {},                         \* announced_tasks
          state |-> [k \in Keys |-> None],      \* async_task_states
          msp   |-> {},                         \* async_task_msp_ids
          role  |-> FALSE,                      \* the item is in `items`
          card  |-> FALSE,                      \* backgrounded_cards
          done  |-> FALSE,                      \* the item is in `done`
          shown |-> [k \in Keys |-> None]]      \* the client's panel

AsyncTaskIdFor(f) == IF f.msp = {} THEN "own" ELSE CHOOSE k \in f.msp : TRUE

Announce(f, k) ==
  [f EXCEPT !.msp = @ \cup {k},
            !.ann = @ \cup {k},
            !.shown[k] = IF k \in f.ann THEN @ ELSE "running"]

AnnounceWorkflow(f) ==
  [f EXCEPT !.ann = @ \cup {"own"},
            !.shown["own"] = IF "own" \in f.ann THEN @ ELSE "running"]

AsyncTaskStateOnce(f, k, st) ==
  IF st \notin Ended \/ f.state[k] = st THEN f
  ELSE [f EXCEPT !.state[k] = st, !.shown[k] = st]

EmitAsyncTaskState(f, k, st) ==
  IF st \notin Ended THEN f
  ELSE AsyncTaskStateOnce([f EXCEPT !.msp = @ \ {k}], k, st)

AnnounceAndEmit(f, st) ==
  LET k == AsyncTaskIdFor(f) IN EmitAsyncTaskState(Announce(f, k), k, st)

\* A tool call is background work once the host or the fold says so.
ToolTask(f, st, bg) ==
  IF bg \/ "own" \in f.ann \/ f.card
  THEN AnnounceAndEmit([f EXCEPT !.card = TRUE], st)
  ELSE f

\* on_item_snapshot and complete_item: an ended item is folded once, and one
\* that replayed history ends announces no task.
OnItem(f, knd, st, bg, replaying) ==
  LET end  == st \in Ended
      seen == IF end THEN [f EXCEPT !.done = TRUE, !.role = FALSE]
              ELSE [f EXCEPT !.role = TRUE]
  IN  IF f.done THEN f
      ELSE IF end /\ replaying THEN seen
      ELSE CASE knd = "tool"     -> ToolTask(seen, st, bg)
             [] knd = "shell"    -> AnnounceAndEmit(seen, st)
             [] knd = "workflow" -> AsyncTaskStateOnce(AnnounceWorkflow(seen), "own", st)

\* A backgroundTerminalCompletion settles the call it names only if nothing
\* else did; a seeded task is found through the call's item.
SettleBackgroundCompletion(f, st) ==
  LET k == IF "own" \in f.ann THEN "own" ELSE AsyncTaskIdFor(f)
  IN  IF ("own" \in f.ann \/ f.role) /\ k \in f.ann /\ f.state[k] = None
      THEN AsyncTaskStateOnce(f, k, st)
      ELSE f

SeedAsyncTask(f) ==
  IF "item" \in f.ann \/ f.state["item"] # None \/ f.msp # {} THEN f
  ELSE [f EXCEPT !.msp = @ \cup {"item"}, !.ann = @ \cup {"item"},
                 !.shown["item"] = "running"]

\* The tasks of an abandoned session end with an unknown outcome.
DisconnectTasks(f) ==
  LET open == {k \in f.ann : f.state[k] = None}
  IN  [f EXCEPT !.state = [k \in Keys |-> IF k \in open THEN "failed" ELSE @[k]],
                !.shown = [k \in Keys |-> IF k \in open THEN "failed" ELSE @[k]]]

----------------------------------------------------------------------------
(* The list of live workflow runs, observe_workflow.                       *)

\* Mutant: a late report of a resumed run lists it again.
ObserveUnguarded(l, r) ==
  IF r.st \in Ended THEN [l EXCEPT !.rev[r.task] = 0]
  ELSE [l EXCEPT !.rev = [t \in Tasks |-> IF t = r.task THEN r.rev
                                          ELSE IF t = r.from THEN 0 ELSE @[t]]]

ObserveWorkflow(l, r) ==
  LET superseded == {r.from} \ {None, r.task}
      dropped    == [rev  |-> [t \in Tasks |-> IF t \in superseded THEN 0 ELSE l.rev[t]],
                     gone |-> l.gone \cup superseded]
  IN  IF r.task \in l.gone THEN l
      ELSE IF r.st \in Ended THEN [l EXCEPT !.rev[r.task] = 0]
      ELSE IF r.from = None /\ l.rev[r.task] > r.rev THEN dropped
      ELSE [dropped EXCEPT !.rev[r.task] = r.rev]

Listing == [rev |-> listed, gone |-> gone]

Observe(r) ==
  LET l == IF kind[r.task] = "workflow" /\ r.what = "item"
           THEN ObserveWorkflow(Listing, r) ELSE Listing
  IN  listed' = l.rev /\ gone' = l.gone

----------------------------------------------------------------------------
(* The host (external).                                                    *)

TasksInit ==
  /\ kind \in [Tasks -> Kinds]
  /\ host = [t \in Tasks |-> None]
  /\ away = {}
  /\ rev = [t \in Tasks |-> 0]
  /\ from = [t \in Tasks |-> None]
  /\ log = <<>> /\ pos = 0 /\ gap = 0 /\ cursor = 0
  /\ phase = "live"
  /\ fold = [t \in Tasks |-> Blank]
  /\ listed = [t \in Tasks |-> 0] /\ gone = {}
  /\ told = [t \in Tasks |-> None]
  /\ crashes = 0 /\ loads = 0

Report(t, what) ==
  [task |-> t, what |-> what, st |-> host'[t], bg |-> t \in away',
   rev |-> rev'[t], from |-> from'[t]]

Starts(t) == IF kind[t] = "tool" THEN {"fg", "bg"} ELSE {"bg"}

Follows(t) ==
  CASE host[t] = None     -> Starts(t)
    [] host[t] = "fg"     -> {"bg", "completed"}
    [] host[t] = "bg"     -> Ended \cup (IF kind[t] = "workflow" THEN {"paused"} ELSE {})
    [] host[t] = "paused" -> {"bg", "stopped"}
    [] OTHER              -> {}

\* A task moves on and its item is reported; a run resumed under its own id
\* starts its revisions again.  A finished background call is also reported by
\* a backgroundTerminalCompletion (hosts from 1.4.12 on; others send none).
Moves(t, next) ==
  /\ next \in Follows(t)
  /\ Len(log) < MaxReports
  /\ host' = [host EXCEPT ![t] = next]
  /\ away' = IF next = "bg" THEN away \cup {t} ELSE away
  /\ LET resumed == host[t] = "paused" /\ next = "bg"
     IN  /\ rev' = [rev EXCEPT ![t] = IF resumed THEN 1 ELSE @ + 1]
         /\ from' = IF resumed THEN [from EXCEPT ![t] = t] ELSE from
  /\ \/ log' = Append(log, Report(t, "item"))
     \/ /\ kind[t] = "tool" /\ host[t] = "bg" /\ Len(log) + 2 <= MaxReports
        /\ log' = log \o <<Report(t, "item"), Report(t, "completion")>>

HostMoves(t) ==
  /\ phase \notin {"dead", "closed"}
  /\ \E next \in Running \cup Ended : Moves(t, next)
  /\ UNCHANGED <<kind, pos, gap, cursor, phase, foldVars, crashes, loads>>

\* A paused run is resumed as another run, which supersedes it.
HostResumesAs(t, u) ==
  /\ phase \notin {"dead", "closed"}
  /\ kind[t] = "workflow" /\ kind[u] = "workflow"
  /\ host[t] = "paused" /\ host[u] = None
  /\ Len(log) < MaxReports
  /\ host' = [host EXCEPT ![t] = "replaced", ![u] = "bg"]
  /\ away' = away \cup {u}
  /\ rev' = [rev EXCEPT ![u] = 1]
  /\ from' = [from EXCEPT ![u] = t]
  /\ log' = Append(log, Report(u, "item"))
  /\ UNCHANGED <<kind, pos, gap, cursor, phase, foldVars, crashes, loads>>

----------------------------------------------------------------------------
(* handle_msp: one report of the view.                                     *)

Handle(r) ==
  /\ fold' = [fold EXCEPT ![r.task] =
       IF r.what = "item" THEN OnItem(@, kind[r.task], r.st, r.bg, FALSE)
       ELSE SettleBackgroundCompletion(@, r.st)]
  /\ Observe(r)
  /\ told' = IF r.st \in Ended /\ r.what = "item" THEN [told EXCEPT ![r.task] = "view"] ELSE told

Deliver ==
  /\ phase = "live" /\ gap = 0 /\ pos < Len(log)
  /\ Handle(log[pos + 1])
  /\ pos' = pos + 1
  /\ cursor' = pos + 1
  /\ UNCHANGED <<taskVars, gap, phase, crashes, loads>>

\* The view drops one report under pressure, delivers the next, and then says
\* so; the adapter reads the missing one back.
DeliverPastGap ==
  /\ phase = "live" /\ gap = 0 /\ pos + 2 <= Len(log)
  /\ Handle(log[pos + 2])
  /\ gap' = pos + 1
  /\ pos' = pos + 2
  /\ cursor' = pos + 2
  /\ UNCHANGED <<taskVars, phase, crashes, loads>>

RefillGap ==
  /\ phase = "live" /\ gap # 0
  /\ Handle(log[gap])
  /\ gap' = 0
  /\ UNCHANGED <<taskVars, pos, cursor, phase, crashes, loads>>

----------------------------------------------------------------------------
(* Host death and re-attach, adopt_reattached.                             *)

Crash ==
  /\ phase = "live" /\ crashes < MaxCrashes
  /\ crashes' = crashes + 1
  /\ phase' = "dead"
  /\ pos' = cursor /\ gap' = 0
  /\ UNCHANGED <<taskVars, cursor, foldVars, loads>>

\* The restarted host resumes the session.
Resume ==
  /\ phase = "dead"
  /\ phase' = "resumed"
  /\ UNCHANGED <<taskVars, pos, gap, cursor, foldVars, crashes, loads>>

\* The session is given up: disconnect_tasks.
Abandon ==
  /\ phase = "dead"
  /\ phase' = "closed"
  /\ fold' = [t \in Tasks |-> DisconnectTasks(fold[t])]
  /\ UNCHANGED <<taskVars, pos, gap, cursor, listed, gone, told, crashes, loads>>

Completion(t) == \E i \in DOMAIN log : log[i].task = t /\ log[i].what = "completion"

\* Mutant: the history of a resume announces tasks and settles none.
ReconcileRunningOnly(f, t, replayed) ==
  IF host[t] = "bg" /\ kind[t] # "workflow" /\ (~replayed \/ ~f.role)
  THEN OnItem(f, kind[t], host[t], TRUE, FALSE) ELSE f

\* reconcile_active_tasks on one item of the resume result.  Only a task that
\* was announced under its own name takes its end from there.
ReconcileItem(f, t, replayed) ==
  IF ~(kind[t] = "shell" \/ (kind[t] = "tool" /\ t \in away)) \/ host[t] = None
  THEN f
  ELSE IF host[t] \in Ended
       THEN IF "own" \in f.ann THEN OnItem(f, kind[t], host[t], TRUE, FALSE) ELSE f
       ELSE IF ~replayed \/ ~f.role THEN OnItem(f, kind[t], host[t], TRUE, FALSE)
            ELSE f

ReconcileActiveTasks(f, t, replayed) ==
  LET r == ReconcileItem(f, t, replayed)
  IN  IF Completion(t) THEN SettleBackgroundCompletion(r, host[t]) ELSE r

\* What a history tells of ends: a resume those it takes, a replay all of them.
ToldByHistory(taken) ==
  [t \in Tasks |-> IF t \in taken /\ host[t] \in Ended /\ told[t] = None
                   THEN "history" ELSE told[t]]

Taken ==
  {t \in Tasks : /\ "own" \in fold[t].ann
                 /\ kind[t] = "shell" \/ (kind[t] = "tool" /\ t \in away)}

\* The resume result carries the item fold, or none at all.
Reconcile ==
  /\ phase = "resumed"
  /\ phase' = "reattach"
  /\ cursor' = Len(log)
  /\ \/ /\ fold' = [t \in Tasks |-> ReconcileActiveTasks(fold[t], t, FALSE)]
        /\ listed' = listed /\ gone' = gone
        /\ told' = ToldByHistory(Taken)
     \/ UNCHANGED foldVars
  /\ UNCHANGED <<taskVars, pos, gap, crashes, loads>>

\* view/subscribe after the last cursor: the suffix follows, or (it failed)
\* only what comes after the resume's head.
ReattachView ==
  /\ phase = "reattach"
  /\ phase' = "seed"
  /\ \/ pos' = pos /\ cursor' = Len(log)
     \/ pos' = cursor /\ cursor' = cursor
  /\ UNCHANGED <<taskVars, gap, foldVars, crashes, loads>>

\* task/list names the running tool and shell tasks; the call may fail.
\* Foreground calls are listed too, and skipped.
SeedTaskInventory ==
  /\ phase = "seed"
  /\ phase' = "live"
  /\ \/ fold' = [t \in Tasks |-> IF kind[t] \in {"tool", "shell"} /\ host[t] = "bg"
                                 THEN SeedAsyncTask(fold[t]) ELSE fold[t]]
     \/ UNCHANGED fold
  /\ UNCHANGED <<taskVars, pos, gap, cursor, listed, gone, told, crashes, loads>>

\* session/load of a live session: a fresh fold replays the history, if the
\* host sent it, and the editor's panel starts again.  Reports that were
\* already queued still follow.
Replayed(t) ==
  IF host[t] = None THEN Blank
  ELSE ReconcileActiveTasks(OnItem(Blank, kind[t], host[t], t \in away, TRUE), t, TRUE)

\* The history holds each run's last item: a run is superseded only by one
\* whose item has not ended.
InFlight(t) == host[t] \in Running \cup {"replaced"}

ReplayedGone == {t \in Tasks : \E u \in Tasks \ {t} : from[u] = t /\ InFlight(u)}

ReplayedListing ==
  [t \in Tasks |-> IF kind[t] = "workflow" /\ InFlight(t) /\ t \notin ReplayedGone
                   THEN rev[t] ELSE 0]

Load ==
  /\ phase = "live" /\ loads < MaxLoads
  /\ loads' = loads + 1
  /\ phase' = "seed"
  /\ \/ /\ fold' = [t \in Tasks |-> Replayed(t)]
        /\ listed' = ReplayedListing
        /\ gone' = ReplayedGone
        /\ told' = ToldByHistory(Tasks)
     \/ /\ fold' = [t \in Tasks |-> Blank]
        /\ listed' = [t \in Tasks |-> 0] /\ gone' = {}
        /\ told' = [t \in Tasks |-> None]
  /\ UNCHANGED <<taskVars, pos, gap, cursor, crashes>>

----------------------------------------------------------------------------
(* The editor's stops.                                                     *)

\* _air/.../stop: a task already settled or unknown is not stopped; otherwise
\* one host command, and the task's own report settles it.
StopAsyncTask(t, k) ==
  /\ phase = "live"
  /\ fold[t].state[k] = None
  /\ k \in fold[t].msp \/ (kind[t] = "workflow" /\ k = "own" /\ k \in fold[t].ann)
  /\ Moves(t, "stopped")
  /\ UNCHANGED <<kind, pos, gap, cursor, phase, foldVars, crashes, loads>>

\* session/cancel: task/stopAll names no task, so it also reaches those the
\* fold does not know of; the host stops one after the other.
StopAllBackgroundTasks(t) ==
  /\ phase = "live"
  /\ host[t] \in {"bg", "paused"}
  /\ Moves(t, "stopped")
  /\ UNCHANGED <<kind, pos, gap, cursor, phase, foldVars, crashes, loads>>

TasksNext ==
  \/ \E t \in Tasks : HostMoves(t) \/ StopAllBackgroundTasks(t)
  \/ \E t, u \in Tasks : HostResumesAs(t, u)
  \/ Deliver \/ DeliverPastGap \/ RefillGap
  \/ Crash \/ Resume \/ Abandon \/ Reconcile \/ ReattachView \/ SeedTaskInventory
  \/ Load
  \/ \E t \in Tasks, k \in Keys : StopAsyncTask(t, k)

TasksSpec == TasksInit /\ [][TasksNext]_tasksVars

----------------------------------------------------------------------------
(* Properties.                                                             *)

HostStates == Running \cup Ended \cup {None, "replaced"}

TaskFolds == [ann   : SUBSET Keys,
              state : [Keys -> Ended \cup {None}],
              msp   : SUBSET Keys,
              role  : BOOLEAN,
              card  : BOOLEAN,
              done  : BOOLEAN,
              shown : [Keys -> Ended \cup {None, "running"}]]

Reports == [task : Tasks, what : {"item", "completion"}, st : HostStates,
            bg : BOOLEAN, rev : Nat, from : Tasks \cup {None}]

TasksTypeOK ==
  /\ kind \in [Tasks -> Kinds] /\ host \in [Tasks -> HostStates]
  /\ away \subseteq Tasks /\ rev \in [Tasks -> Nat]
  /\ from \in [Tasks -> Tasks \cup {None}] /\ log \in Seq(Reports)
  /\ pos \in 0 .. Len(log) /\ gap \in 0 .. pos /\ cursor \in 0 .. Len(log)
  /\ phase \in {"live", "dead", "resumed", "reattach", "seed", "closed"}
  /\ fold \in [Tasks -> TaskFolds]
  /\ listed \in [Tasks -> Nat] /\ gone \subseteq Tasks
  /\ told \in [Tasks -> {None, "view", "history"}]
  /\ crashes \in Nat /\ loads \in Nat

Quiet == phase = "live" /\ gap = 0 /\ pos = Len(log)

\* The client's panel shows no task running of whose end the fold was told: by
\* the view, by the history of a resume (reconcile_active_tasks takes an end
\* from there only for a tool call or shell it announced under its own name),
\* or by a replay; whatever an older report, refilled late, says of it.  With
\* no host death and no second load the view tells every end, and an abandoned
\* session shows no task running.
NoStuckTask ==
  \A t \in Tasks, k \in Keys : fold[t].shown[k] = "running" =>
    /\ host[t] \in Ended => told[t] = None
    /\ Quiet /\ crashes = 0 /\ loads = 0 => host[t] \notin Ended
    /\ phase # "closed"

\* A run is never offered for control beside the run that resumed it, however
\* late a report of the earlier one arrives.
NoTwoGenerations ==
  \A t, u \in Tasks : from[u] = t /\ t # u => listed[t] = 0 \/ listed[u] = 0

\* fold.rs:546: "A terminal item (or a completed delivery) drops the run, and
\* an older revision never replaces a newer one."
EndedIsNotListed ==
  Quiet => \A t \in Tasks : host[t] \in Ended /\ told[t] = "view" => listed[t] = 0
=============================================================================
