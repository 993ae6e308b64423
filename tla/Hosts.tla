-------------------------------- MODULE Hosts --------------------------------
(***************************************************************************)
(* The Muse processes that serve the user's sessions (hosts.rs) and how    *)
(* the one loop thread places sessions on them (main.rs, modes.rs): the    *)
(* main host and the read-only host, which process owns which session, the *)
(* mode store shared by all adapters, restarts within a budget, the move   *)
(* of a session between the hosts, and session/delete, whose outcome       *)
(* arrives as an event.                                                    *)
(*                                                                         *)
(* Processes are numbered in the order of launch: the number is the        *)
(* generation of HostTag.  Each has a queue of events the loop has not     *)
(* read.  A handler is one step, except restart and move, which are cut at *)
(* every host command, because a host may exit between two of them.  The   *)
(* hosts and the editor are external: a host holds a session for as long   *)
(* as it lives, may refuse any command and exit at any moment.  The        *)
(* reviewer host is the module AutoReview.                                 *)
(***************************************************************************)
EXTENDS Naturals, Sequences, FiniteSets

CONSTANTS
    Sessions, Old,      \* session ids; those an earlier adapter left on disk
    Modes,              \* session modes the editor offers
    Max, Window,        \* RestartBudget::MAX, RestartBudget::WINDOW
    MaxProcs, MaxRare, MaxNow   \* bounds: processes, rare steps, the clock

Kinds == {"main", "ro"}

ASSUME HostsAssumption ==
    /\ Old \subseteq Sessions /\ "none" \notin Sessions
    /\ {"default", "readOnly"} \subseteq Modes /\ Modes \subseteq {"default", "readOnly", "plan"}
    /\ {Max, Window, MaxProcs} \subseteq Nat \ {0}
    /\ {MaxRare, MaxNow} \subseteq Nat

VARIABLES
    durable,            \* handshake().restartable()
    proc, out,          \* the processes launched so far, the unread events of each
    slot,               \* Hosts::main, Hosts::read_only (0: None)
    owner,              \* Hosts::owners ("none": not recorded)
    open, mode, busy,   \* the Sessions map, session_mode, sessions with unfinished work
    saved, disk,        \* the mode store; Muse's own store: "none", "fresh" until the first
                        \* turn, "kept", "erased"
    loaded, home,       \* the process that holds a session, the one that started it (0: none)
    lost,               \* ghost: open sessions whose last attempt to open again failed
    pending,            \* DELETES: the process a session's delete was sent to (0: none)
    admitted, now,      \* times of every restart RestartBudget admitted; the clock
    loop,               \* what the loop thread is doing
    retired,            \* processes shut down to release a session
    rare                \* how many exits, moves, deletes and saves elsewhere happened

procVars == <<proc, out, slot, loaded>>
sessionVars == <<owner, open, mode, busy, saved, disk, home, lost, pending>>
vars == <<durable, procVars, sessionVars, admitted, now, loop, retired, rare>>

Idle == [at |-> "idle", kind |-> "main", todo |-> {}, moving |-> "none", target |-> "default"]
Gone == [Idle EXCEPT !.at = "gone"]
Ready == loop = Idle
Events == [m : {"closed"}] \cup [m : {"deleted", "kept"}, s : Sessions]

Processes == [kind : Kinds, st : {"up", "exited", "dead"}]
ProcsOK ==
    /\ proc \in Seq(Processes)
    /\ out \in Seq(Seq(Events)) /\ Len(out) = Len(proc)
    /\ slot \in [main : DOMAIN proc, ro : DOMAIN proc \cup {0}]
    /\ {loaded, home, pending} \subseteq [Sessions -> DOMAIN proc \cup {0}]
    /\ retired \subseteq DOMAIN proc
SessionsOK ==
    /\ owner \in [Sessions -> Kinds \cup {"none"}]
    /\ open \subseteq Sessions /\ busy \subseteq open /\ lost \subseteq open
    /\ mode \in [Sessions -> Modes] /\ saved \in [Sessions -> Modes]
    /\ disk \in [Sessions -> {"none", "fresh", "kept", "erased"}]
LoopOK ==
    /\ durable \in BOOLEAN /\ rare \in 0..MaxRare
    /\ admitted \in [Kinds -> Seq(0..MaxNow)] /\ now \in 0..MaxNow
    /\ loop \in [at : {"idle", "launch", "attach", "open", "back", "gone"}, kind : Kinds,
                 todo : SUBSET open, moving : Sessions \cup {"none"}, target : Modes]

TypeOK == ProcsOK /\ SessionsOK /\ LoopOK

Init ==
    /\ durable \in BOOLEAN
    /\ proc = <<[kind |-> "main", st |-> "up"]>> /\ out = << <<>> >>
    /\ slot = [main |-> 1, ro |-> 0]
    /\ owner = [s \in Sessions |-> "none"]
    /\ open = {} /\ busy = {} /\ lost = {} /\ retired = {}
    /\ mode = [s \in Sessions |-> "default"]
    /\ saved \in {f \in [Sessions -> Modes] : \A s \in Sessions \ Old : f[s] = "default"}
    /\ disk = [s \in Sessions |-> IF s \in Old THEN "kept" ELSE "none"]
    /\ loaded = [s \in Sessions |-> 0] /\ home = loaded /\ pending = loaded
    /\ admitted = [k \in Kinds |-> <<>>] /\ now = 0
    /\ loop = Idle
    /\ rare = 0

-----------------------------------------------------------------------------
(* Processes *)

\* A step of a kind that happens only so often
Rare == rare < MaxRare /\ rare' = rare + 1

IsCurrent(p) == slot[proc[p].kind] = p

\* launch_process and replace: a new current process of this kind
Launch(k, p) ==
    /\ Len(proc) < MaxProcs /\ p = Len(proc) + 1
    /\ proc' = Append(proc, [kind |-> k, st |-> "up"])
    /\ out' = Append(out, <<>>)
    /\ slot' = [slot EXCEPT ![k] = p]

\* MspHost::shutdown: the process is gone and holds nothing; its connection ends.
Stopped(P) == [p \in DOMAIN proc |-> IF p \in P THEN [proc[p] EXCEPT !.st = "dead"] ELSE proc[p]]
StoppedOut(P) ==
    [p \in DOMAIN out |-> IF p \in P /\ proc[p].st = "up" THEN Append(out[p], [m |-> "closed"])
                                                          ELSE out[p]]
Released(P) == [s \in Sessions |-> IF loaded[s] \in P THEN 0 ELSE loaded[s]]

\* Hosts::shutdown: every current process
Current == {slot[k] : k \in Kinds} \ {0}

Owner(s) == IF owner[s] = "none" THEN "main" ELSE owner[s]
Owned(k) == {s \in open : Owner(s) = k}

\* Hosts::route and read_only_host: the owner's process, a read-only one started
\* when there is none
Routed(k, p) ==
    \/ slot[k] # 0 /\ p = slot[k] /\ UNCHANGED <<proc, out, slot>>
    \/ k = "ro" /\ slot[k] = 0 /\ Launch(k, p)

\* The read-only host does not start.
Unrouted(k) == slot[k] = 0 /\ UNCHANGED <<proc, out, slot>>

\* A host answers, and opens a session no other process holds.
Answers(p) == proc'[p].st = "up"
Opens(s, p) == Answers(p) /\ loaded[s] \in {0, p} /\ loaded' = [loaded EXCEPT ![s] = p]

\* reattach_session: a session that Muse has not saved is started again under its id.
Reattached(s, p) ==
    /\ Opens(s, p)
    /\ disk' = [disk EXCEPT ![s] = IF @ = "kept" THEN @ ELSE "fresh"]
    /\ home' = [home EXCEPT ![s] = IF disk[s] = "kept" THEN @ ELSE p]

-----------------------------------------------------------------------------
(* Modes *)

HostForMode(m) == IF m = "default" THEN "main" ELSE "ro"

\* Mutant: the saved mode is shown whatever the host enforces.
ModeAsSaved(m, k) == m

\* mode_on_host: a mode that needs the other host gives way to what the host enforces.
ModeOn(m, k) ==
    IF HostForMode(m) = k THEN m ELSE IF k = "ro" THEN "readOnly" ELSE "default"

\* The mode a session is opened in, and place_session: the host it is opened on.
Remembered(s) == IF s \in open THEN mode[s] ELSE saved[s]
Placed(s) ==
    IF HostForMode(Remembered(s)) = "ro" /\ owner[s] = "none" THEN "ro" ELSE owner[s]
PlacedKind(s) == IF Placed(s) = "none" THEN "main" ELSE Placed(s)

-----------------------------------------------------------------------------
(* Requests of the editor *)

\* A session Muse can open: one it saved, or one a host still holds
Exists(s) == disk[s] = "kept" \/ (disk[s] = "fresh" /\ loaded[s] # 0)

NewSession(s) ==
    /\ Ready /\ disk[s] = "none" /\ proc[slot.main].st = "up"
    /\ open' = open \cup {s} /\ disk' = [disk EXCEPT ![s] = "fresh"]
    /\ mode' = [mode EXCEPT ![s] = "default"]
    /\ loaded' = [loaded EXCEPT ![s] = slot.main] /\ home' = [home EXCEPT ![s] = slot.main]
    /\ UNCHANGED <<durable, proc, out, slot, owner, busy, saved, lost, pending, admitted, now,
                   loop, retired, rare>>

\* session/load and session/resume; a session that is open keeps its mode.  A
\* refusal leaves the session where place_session put it.
LoadSession(s) ==
    /\ Ready /\ Exists(s)
    /\ owner' = [owner EXCEPT ![s] = Placed(s)]
    /\ \E p \in 1..MaxProcs :
        /\ Routed(PlacedKind(s), p)
        /\ \/ /\ Opens(s, p)
              /\ open' = open \cup {s} /\ lost' = lost \ {s}
              /\ mode' = [mode EXCEPT ![s] = IF s \in open THEN @
                                             ELSE ModeOn(saved[s], PlacedKind(s))]
           \/ UNCHANGED <<loaded, open, lost, mode>>
    /\ UNCHANGED <<durable, busy, saved, disk, home, pending, admitted, now, loop, retired, rare>>

\* session/fork, and _session/sideChat, which leaves the new session to be opened
\* by a later load, as a fork does whose workspace does not match
ForkSession(s, n) ==
    /\ Ready /\ Exists(s) /\ disk[n] = "none"
    /\ \E p \in 1..MaxProcs :
        /\ Routed(PlacedKind(s), p)
        /\ \/ /\ Opens(n, p) /\ loaded[s] \in {0, p}
              /\ disk' = [disk EXCEPT ![n] = "kept"] /\ home' = [home EXCEPT ![n] = p]
              /\ owner' = [owner EXCEPT ![s] = Placed(s), ![n] = PlacedKind(s)]
              /\ saved' = [saved EXCEPT ![n] = ModeOn(Remembered(s), PlacedKind(s))]
              /\ \/ /\ open' = open \cup {n}
                    /\ mode' = [mode EXCEPT ![n] = ModeOn(Remembered(s), PlacedKind(s))]
                 \/ UNCHANGED <<open, mode>>
           \/ /\ owner' = [owner EXCEPT ![s] = Placed(s)]
              /\ UNCHANGED <<loaded, disk, home, saved, open, mode>>
    /\ UNCHANGED <<durable, busy, lost, pending, admitted, now, loop, retired, rare>>

\* session/prompt: a turn starts where the session is loaded
Prompt(s) ==
    /\ Ready /\ s \in open
    /\ \E p \in 1..MaxProcs :
        /\ Routed(Owner(s), p)
        /\ IF loaded[s] = p /\ Answers(p)
           THEN busy' = busy \cup {s} /\ disk' = [disk EXCEPT ![s] = "kept"]
           ELSE UNCHANGED <<busy, disk>>
    /\ UNCHANGED <<durable, loaded, owner, open, mode, saved, home, lost, pending, admitted, now,
                   loop, retired, rare>>

\* drop_acp_session: the record goes, with its mode and its work
Dropped(S) ==
    /\ open' = open \ S /\ busy' = busy \ S /\ lost' = lost \ S
    /\ mode' = [s \in Sessions |-> IF s \in S THEN "default" ELSE mode[s]]

\* session/close, and the session/leave that follows it to the owner: a host that
\* knows it releases the session
CloseSession(s) ==
    /\ Ready /\ s \in open
    /\ Dropped({s})
    /\ \/ Unrouted(Owner(s)) /\ UNCHANGED loaded
       \/ \E p \in 1..MaxProcs :
            /\ Routed(Owner(s), p)
            /\ \/ UNCHANGED loaded
               \/ loaded[s] = p /\ Answers(p) /\ loaded' = [loaded EXCEPT ![s] = 0]
    /\ UNCHANGED <<durable, owner, saved, disk, home, pending, admitted, now, loop,
                   retired, rare>>

\* forget_deleted_session
Forget(s) ==
    /\ Dropped({s})
    /\ owner' = [owner EXCEPT ![s] = "none"]
    /\ saved' = [saved EXCEPT ![s] = "default"]

\* session/delete: a second one joins the first; an admitted one is answered by
\* session/deleteCompleted, a refused one at once
DeleteSession(s) ==
    /\ Ready /\ disk[s] # "none" /\ pending[s] = 0
    /\ Rare
    /\ \E p \in 1..MaxProcs :
        /\ Routed(Owner(s), p)
        /\ \/ /\ Answers(p) /\ Exists(s)
              /\ pending' = [pending EXCEPT ![s] = p]
              /\ UNCHANGED <<open, mode, busy, lost, owner, saved>>
           \/ /\ Answers(p) /\ ~Exists(s) /\ Forget(s) /\ UNCHANGED pending
    /\ UNCHANGED <<durable, loaded, disk, home, admitted, now, loop, retired>>

\* The adapter ends: what waits is failed, then Hosts::shutdown and exit.  What it
\* kept in memory is gone; the mode store and Muse's own store remain.
EndAdapter ==
    /\ proc' = Stopped(Current) /\ loaded' = Released(Current)
    /\ out' = [p \in DOMAIN out |-> <<>>]
    /\ Dropped(open)
    /\ pending' = [s \in Sessions |-> 0] /\ owner' = [s \in Sessions |-> "none"]
    /\ admitted' = [k \in Kinds |-> <<>>]
    /\ loop' = Gone
    /\ UNCHANGED <<durable, slot, saved, disk, home, now, retired, rare>>

EditorGone == Ready /\ EndAdapter

-----------------------------------------------------------------------------
(* Changing a session's mode: switch_session_mode, move_session *)

\* Mutant: only this session is looked at.
OwnWork(s) == busy \cap {s}

\* move_session refuses while this session or another on its host works.
WorkOn(s) == busy \cap Owned(Owner(s))

\* The mode is one the host enforces already: nothing moves.
RelabelMode(s, m) ==
    /\ Ready /\ s \in open /\ mode[s] # m /\ HostForMode(m) = Owner(s)
    /\ mode' = [mode EXCEPT ![s] = m] /\ saved' = [saved EXCEPT ![s] = m]
    /\ UNCHANGED <<durable, procVars, owner, open, busy, disk, home, lost, pending, admitted, now,
                   loop, retired, rare>>

\* The destination is started, then the source is shut down.
MoveSession(s, m) ==
    /\ Ready /\ s \in open /\ HostForMode(m) # Owner(s)
    /\ durable /\ WorkOn(s) = {} /\ Rare
    /\ LET src == Owner(s)
           old == {slot[src]} \ {0}
           others == Owned(src) \ {s}
           starts == src = "main" /\ slot.ro = 0
       IN  /\ starts => Len(proc) < MaxProcs
           /\ proc' = Stopped(old) \o (IF starts THEN <<[kind |-> "ro", st |-> "up"]>> ELSE <<>>)
           /\ out' = StoppedOut(old) \o (IF starts THEN << <<>> >> ELSE <<>>)
           /\ loaded' = Released(old) /\ retired' = retired \cup old
           /\ IF src = "main" \/ others # {}
              THEN /\ slot' = IF starts THEN [slot EXCEPT !.ro = Len(proc) + 1] ELSE slot
                   /\ loop' = [at |-> "launch", kind |-> src, todo |-> others, moving |-> s,
                               target |-> m]
                   /\ UNCHANGED owner
              ELSE /\ slot' = [slot EXCEPT !.ro = 0]
                   /\ owner' = [owner EXCEPT ![s] = "main"]
                   /\ loop' = [at |-> "open", kind |-> src, todo |-> {}, moving |-> s,
                               target |-> m]
    /\ UNCHANGED <<durable, open, mode, busy, saved, disk, home, lost, pending, admitted, now>>

\* reattach_session at the destination, then the new mode is set and saved
MoveOpens ==
    /\ loop.at = "open"
    /\ LET s == loop.moving
       IN  /\ \E p \in 1..MaxProcs : Routed(Owner(s), p) /\ Reattached(s, p)
           /\ mode' = [mode EXCEPT ![s] = loop.target]
           /\ saved' = [saved EXCEPT ![s] = loop.target]
           /\ lost' = lost \ {s}
    /\ loop' = Idle
    /\ UNCHANGED <<durable, owner, open, busy, pending, admitted, now, retired, rare>>

\* The destination refuses the session, which goes back to its source.
OwnerBack(s) == [owner EXCEPT ![s] = loop.kind]
MoveRefused ==
    /\ loop.at = "open"
    /\ \E p \in 1..MaxProcs : Routed(Owner(loop.moving), p)
    /\ owner' = OwnerBack(loop.moving)
    /\ loop' = [loop EXCEPT !.at = "back"]
    /\ UNCHANGED <<durable, loaded, open, mode, busy, saved, disk, home, lost, pending, admitted, now,
                   retired, rare>>

MoveReturns ==
    /\ loop.at = "back"
    /\ \/ /\ Unrouted(Owner(loop.moving)) \/ \E p \in 1..MaxProcs : Routed(Owner(loop.moving), p)
          /\ lost' = lost \cup {loop.moving} /\ UNCHANGED <<loaded, disk, home>>
       \/ \E p \in 1..MaxProcs :
            /\ Routed(Owner(loop.moving), p) /\ Reattached(loop.moving, p)
            /\ lost' = lost \ {loop.moving}
    /\ loop' = Idle
    /\ UNCHANGED <<durable, owner, open, mode, busy, saved, pending, admitted, now, retired, rare>>

-----------------------------------------------------------------------------
(* restart_durable_host, after an exit (moving = "none") or within a move *)

\* Mutant: only sessions with a turn to deliver.
AttachBusy(k, s) == Owned(k) \cap busy

\* The sessions to attach are those the host owned when the restart began.
AttachList(k, s) == Owned(k) \ {s}

Relaunch ==
    /\ loop.at = "launch"
    /\ \E p \in 1..MaxProcs : Launch(loop.kind, p)
    /\ loop' = [loop EXCEPT !.at = "attach", !.todo = AttachList(loop.kind, loop.moving)]
    /\ UNCHANGED <<durable, loaded, sessionVars, admitted, now, retired, rare>>

\* One session of the list: the turn that ran may still run (reconcile_in_flight); a
\* session that cannot be attached is abandoned.  Its work is settled, which tells the
\* editor only if a prompt was in flight (fail_in_flight); otherwise the log alone says so.
Attach(s) ==
    /\ loop.at = "attach" /\ s \in loop.todo
    /\ UNCHANGED <<proc, out, slot>>
    /\ \/ /\ Reattached(s, slot[loop.kind])
          /\ busy' \in {busy, busy \ {s}} /\ lost' = lost \ {s}
       \/ busy' = busy \ {s} /\ lost' = lost \cup {s} /\ UNCHANGED <<loaded, disk, home>>
    /\ loop' = [loop EXCEPT !.todo = @ \ {s}]
    /\ UNCHANGED <<durable, owner, open, mode, saved, pending, admitted, now, retired, rare>>

AttachDone ==
    /\ loop.at = "attach" /\ loop.todo = {}
    /\ IF loop.moving = "none"
       THEN loop' = Idle /\ UNCHANGED owner
       ELSE /\ owner' = [owner EXCEPT ![loop.moving] = HostForMode(loop.target)]
            /\ loop' = [loop EXCEPT !.at = "open"]
    /\ UNCHANGED <<durable, procVars, open, mode, busy, saved, disk, home, lost, pending, admitted, now,
                   retired, rare>>

\* The read-only host cannot be restarted: recover_read_only_host forgets it and
\* abandons its sessions in the same way.
AbandonReadOnly ==
    /\ slot' = [slot EXCEPT !.ro = 0]
    /\ busy' = busy \ Owned("ro") /\ lost' = lost \cup Owned("ro")
    /\ loop' = Idle

RelaunchFails ==
    /\ loop.at = "launch"
    /\ \/ /\ loop.moving # "none" /\ loop' = Idle
          /\ UNCHANGED <<durable, procVars, sessionVars, admitted, now, retired, rare>>
       \/ /\ loop.moving = "none" /\ loop.kind = "ro" /\ AbandonReadOnly
          /\ UNCHANGED <<durable, proc, out, loaded, owner, open, mode, saved, disk, home, pending,
                         admitted, now, retired, rare>>
       \/ loop.moving = "none" /\ loop.kind = "main" /\ EndAdapter

\* RestartBudget::admit: fewer than MAX restarts in the last WINDOW.  Only admit
\* reads the clock, so time passes when it does.
Recent(k, t) == {i \in DOMAIN admitted[k] : t - admitted[k][i] < Window}
Spent(k, t) == Cardinality(Recent(k, t)) >= Max
Admit(k) ==
    \E t \in now..MaxNow :
        /\ ~Spent(k, t)
        /\ now' = t /\ admitted' = [admitted EXCEPT ![k] = Append(@, t)]

-----------------------------------------------------------------------------
(* Events of the hosts, read by the loop *)

Reads(p, m) ==
    /\ Ready /\ out[p] # <<>> /\ Head(out[p]).m = m
Taken(p) == [out EXCEPT ![p] = Tail(@)]

\* learn_event_owner
Learned(s, p) == [owner EXCEPT ![s] = IF @ = "none" THEN proc[p].kind ELSE @]

\* Events of a process that was replaced are dropped.
DropStale(p) ==
    /\ Ready /\ out[p] # <<>> /\ ~IsCurrent(p)
    /\ out' = [out EXCEPT ![p] = <<>>]
    /\ UNCHANGED <<durable, proc, slot, loaded, sessionVars, admitted, now, loop, retired, rare>>

\* The last event of a session's work, read in the order the host sent it
TurnEnds(s) ==
    LET p == loaded[s] IN
    /\ Ready /\ s \in busy /\ p # 0 /\ IsCurrent(p) /\ proc[p].st = "up" /\ out[p] = <<>>
    /\ owner' = Learned(s, p) /\ busy' = busy \ {s}
    /\ UNCHANGED <<durable, procVars, open, mode, saved, disk, home, lost, pending, admitted, now,
                   loop, retired, rare>>

\* session/deleteCompleted with the outcome completed
DeleteCompleted(p) ==
    /\ Reads(p, "deleted") /\ IsCurrent(p)
    /\ out' = Taken(p) /\ Forget(Head(out[p]).s)
    /\ pending' = [pending EXCEPT ![Head(out[p]).s] = 0]
    /\ UNCHANGED <<durable, proc, slot, loaded, disk, home, admitted, now, loop, retired, rare>>

\* session/deleteCompleted with the outcome failed; a session that the host does not
\* list (session_absent_on_host) is forgotten all the same
DeleteFailed(p) ==
    /\ Reads(p, "kept") /\ IsCurrent(p)
    /\ LET s == Head(out[p]).s
       IN  /\ pending' = [pending EXCEPT ![s] = 0]
           /\ \/ owner' = Learned(s, p) /\ UNCHANGED <<open, mode, busy, lost, saved>>
              \/ ~Exists(s) /\ Forget(s)
    /\ out' = Taken(p)
    /\ UNCHANGED <<durable, proc, slot, loaded, disk, home, admitted, now, loop, retired, rare>>

\* Mutant: they are left to the restarted host.
KeepDeletes(k) == pending

\* fail_pending_deletes_for
FailDeletes(k) ==
    [s \in Sessions |-> IF pending[s] # 0 /\ proc[pending[s]].kind = k THEN 0 ELSE pending[s]]

\* Mutant: the process is only reaped.
ReapedOnly(p) == {}

\* What the loop does with the process whose connection ended: reap and shutdown
Reaped(p) == {p}

\* recover_read_only_host
ReadOnlyClosed(p) ==
    /\ Reads(p, "closed") /\ IsCurrent(p) /\ proc[p].kind = "ro"
    /\ proc' = Stopped(Reaped(p)) /\ loaded' = Released(Reaped(p)) /\ out' = Taken(p)
    /\ pending' = FailDeletes("ro")
    /\ \/ /\ Owned("ro") = {}
          /\ slot' = [slot EXCEPT !.ro = 0] /\ UNCHANGED <<busy, lost, loop, admitted, now>>
       \/ /\ Owned("ro") # {} /\ durable /\ Admit("ro")
          /\ loop' = [Idle EXCEPT !.at = "launch", !.kind = "ro"] /\ UNCHANGED <<slot, busy, lost>>
       \/ /\ Owned("ro") # {} /\ (~durable \/ Spent("ro", now))
          /\ AbandonReadOnly /\ UNCHANGED <<admitted, now>>
    /\ UNCHANGED <<durable, owner, open, mode, saved, disk, home, retired, rare>>

\* The main host is gone: restart it, or end the adapter when the exit is not
\* retryable, the sessions are not durable, or the budget is spent.
MainClosed(p) ==
    /\ Reads(p, "closed") /\ IsCurrent(p) /\ proc[p].kind = "main"
    /\ \/ /\ durable /\ Admit("main")
          /\ proc' = Stopped(Reaped(p)) /\ loaded' = Released(Reaped(p)) /\ out' = Taken(p)
          /\ pending' = FailDeletes("main")
          /\ loop' = [Idle EXCEPT !.at = "launch"]
          /\ UNCHANGED <<durable, slot, owner, open, mode, busy, saved, disk, home, lost, retired, rare>>
       \/ EndAdapter

-----------------------------------------------------------------------------
(* The hosts and other adapters *)

Tells(p, e) == out' = [out EXCEPT ![p] = Append(@, e)]
Told(p) == {out[p][i] : i \in DOMAIN out[p]}

\* The connection to a host ends; its process may linger until it is shut down.
HostExits(p) ==
    /\ proc[p].st = "up" /\ Rare
    /\ proc' = [proc EXCEPT ![p].st = "exited"] /\ Tells(p, [m |-> "closed"])
    /\ UNCHANGED <<durable, slot, loaded, sessionVars, admitted, now, loop, retired>>

\* The outcome of a delete: a session that this process started is erased, or it is
\* kept
HostDeletes(s) ==
    LET p == pending[s] IN
    /\ p # 0 /\ proc[p].st = "up"
    /\ {[m |-> "deleted", s |-> s], [m |-> "kept", s |-> s]} \cap Told(p) = {}
    /\ \/ /\ home[s] = p /\ loaded[s] \in {0, p} /\ Tells(p, [m |-> "deleted", s |-> s])
          /\ disk' = [disk EXCEPT ![s] = "erased"] /\ loaded' = [loaded EXCEPT ![s] = 0]
       \/ Tells(p, [m |-> "kept", s |-> s]) /\ UNCHANGED <<disk, loaded>>
    /\ UNCHANGED <<durable, proc, slot, home, owner, open, mode, busy, saved, lost, pending, admitted,
                   now, loop, retired, rare>>

\* Another adapter changes the mode of a session it opened.
OtherSaves(s, m) ==
    /\ Rare /\ s \notin open /\ loaded[s] = 0 /\ disk[s] = "kept" /\ saved[s] # m
    /\ saved' = [saved EXCEPT ![s] = m]
    /\ UNCHANGED <<durable, procVars, owner, open, mode, busy, disk, home, lost, pending, admitted, now,
                   loop, retired>>

Editor ==
    \/ \E s \in Sessions : \/ NewSession(s) \/ LoadSession(s) \/ Prompt(s) \/ CloseSession(s)
                           \/ DeleteSession(s)
                           \/ \E n \in Sessions : ForkSession(s, n)
                           \/ \E m \in Modes : RelabelMode(s, m) \/ MoveSession(s, m)
    \/ EditorGone
Restart == Relaunch \/ RelaunchFails \/ AttachDone \/ \E s \in Sessions : Attach(s)
Move == MoveOpens \/ MoveRefused \/ MoveReturns
Event ==
    \/ \E p \in DOMAIN proc : \/ DropStale(p) \/ DeleteCompleted(p) \/ DeleteFailed(p)
                              \/ ReadOnlyClosed(p) \/ MainClosed(p)
    \/ \E s \in Sessions : TurnEnds(s)
Environment ==
    \/ \E p \in DOMAIN proc : HostExits(p)
    \/ \E s \in Sessions : \/ HostDeletes(s)
                           \/ \E m \in Modes : OtherSaves(s, m)

Ended == loop.at = "gone" /\ UNCHANGED vars

Next == Editor \/ Restart \/ Move \/ Event \/ Ended \/ (loop.at # "gone" /\ Environment)
Spec == Init /\ [][Next]_vars

-----------------------------------------------------------------------------
(* What must hold *)

\* A session is held only by a host that enforces its mode: read-only and plan
\* sessions by the read-only host, others by the main host, also while one moves,
\* fails to move, or is opened again with a mode saved by another adapter.
ModeIsEnforced ==
    \A s \in open : loaded[s] # 0 => proc[loaded[s]].kind = HostForMode(mode[s])

\* Every process that still runs is one Hosts::shutdown will stop: no launch,
\* restart or move loses track of one, and none outlives the adapter.
NoLeakedHost ==
    \A p \in DOMAIN proc : proc[p].st # "dead" => IsCurrent(p) /\ loop.at # "gone"

\* When the loop is idle, an open session is held by the current process of its
\* owner, or an event that the loop has yet to read says that the process exited or
\* the session was deleted.  The exception is an idle session that a restart or a
\* failed move could not open again: it stays open and nobody holds it, and unless
\* that failed a mode change or a prompt, the editor is not told (abandon_session_work).
\* A session with unfinished work is no exception: what it waited for was settled when
\* it was abandoned, and until it is opened again no turn starts.
OpenIsHeld ==
    Ready => \A s \in busy \cup (open \ lost) :
        LET p == slot[Owner(s)]
        IN  /\ p # 0
            /\ \/ loaded[s] = p
               \/ [m |-> "closed"] \in Told(p) \/ [m |-> "deleted", s |-> s] \in Told(p)

\* A delete never waits for a process that exited by itself: the command died with
\* it, and is failed.  A process shut down by a move is the exception: what waits for
\* it is answered only if a later process of its kind exits.
CrashFailsDeletes ==
    \A s \in Sessions : pending[s] # 0 => IsCurrent(pending[s]) \/ pending[s] \in retired

\* A host that works is never shut down, except when the adapter ends: a move is
\* refused while a session works on the host it restarts.
MovesInterruptNothing ==
    [][\A p \in DOMAIN proc :
        proc[p].st = "up" /\ proc'[p].st = "dead" /\ loop'.at # "gone"
            => \A s \in busy : loaded[s] # p]_vars
=============================================================================
