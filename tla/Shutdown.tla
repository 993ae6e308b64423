------------------------------- MODULE Shutdown -------------------------------
(***************************************************************************)
(* How the adapter ends: the table of unanswered editor requests           *)
(* (editor.rs), the shutdown deadline (shutdown.rs), the loop of main and  *)
(* the processes and settings views it leaves to clean up (msp.rs).        *)
(*                                                                         *)
(* Three threads share the state.  The connection holds each request's     *)
(* responder and queues the request; the loop answers requests, launches   *)
(* and stops hosts, and may be stuck in a host command for ever; the       *)
(* deadline, armed by the end of input and around every cleanup, answers   *)
(* what is open, stops the hosts and exits the process.  What a request    *)
(* asks is abstracted: it is answered at once, later (a prompt in flight), *)
(* or after a host was launched for it.                                    *)
(***************************************************************************)
EXTENDS Naturals, Sequences, FiniteSets

CONSTANTS Requests,   \* ids of the editor's requests
          MaxHosts    \* bound: hosts launched

ASSUME ShutdownAssumption == MaxHosts \in Nat

HostIds == 1 .. MaxHosts
Nil == 0

VARIABLES
  stdin,      \* "open", "eof" (the reader saw it), "closed" (the SDK did)
  table,      \* Shared::responders
  queue,      \* what the loop has not read
  loop,       \* what the loop thread is doing
  inFlight,   \* requests the loop answers later
  answers,    \* how often each request was answered
  sealed,     \* Shared::sealed
  armed,      \* DISCONNECTED: the disconnect deadline is running
  expiring,   \* EXPIRING
  worker,     \* expire's settle thread
  stopper,    \* expire's force-stop thread
  registry,   \* HOSTS
  regLock,    \* the loop holds the HOSTS mutex
  current,    \* the hosts of Hosts
  host, view, \* each host process; whether its settings view exists
  exited,     \* the process is gone
  gone,       \* the transport failed: nothing can be written
  late,       \* ghost: requests held after the seal
  missed      \* ghost: the deadline found the registry locked

connVars == <<stdin, table, queue, gone, late>>
hostVars == <<registry, regLock, current, host, view>>
deadlineVars == <<armed, expiring, worker, stopper, missed>>
shutdownVars == <<connVars, hostVars, deadlineVars, loop, inFlight, answers, sealed, exited>>

Step(place, id, h, next) == [at |-> place, id |-> id, h |-> h, next |-> next]
At(place) == Step(place, Nil, Nil, "recv")

ShutdownInit ==
  /\ stdin = "open" /\ table = {} /\ queue = <<>>
  /\ loop = At("recv")
  /\ inFlight = {} /\ answers = [r \in Requests |-> 0]
  /\ sealed = FALSE /\ armed = FALSE /\ expiring = FALSE
  /\ worker = "none" /\ stopper = "none"
  /\ registry = {} /\ regLock = FALSE /\ current = {}
  /\ host = [h \in HostIds |-> "none"] /\ view = [h \in HostIds |-> FALSE]
  /\ exited = FALSE /\ gone = FALSE /\ late = {} /\ missed = FALSE

----------------------------------------------------------------------------
(* The connection thread.                                                  *)

Message(kind, what) == [kind |-> kind, what |-> what]
Arrived == {r \in Requests : r \in table \/ answers[r] > 0 \/ r \in late}

\* hold, then the sink: the responder waits in the table before the loop can
\* see the request.  Lines read before the end of input are still worked off.
Hold(r) ==
  /\ ~exited /\ stdin # "closed" /\ r \notin Arrived
  /\ table' = table \cup {r}
  /\ late' = IF sealed THEN late \cup {r} ELSE late
  /\ queue' = Append(queue, Message("request", r))
  /\ UNCHANGED <<stdin, gone, hostVars, deadlineVars, loop, inFlight, answers, sealed, exited>>

\* Mutant: the end of input does not arm the deadline.
DisconnectLater == UNCHANGED armed
Disconnect == armed' = TRUE

\* read_stdin: on_eof arms the deadline before the SDK has worked off its lines.
Eof ==
  /\ ~exited /\ stdin = "open"
  /\ stdin' = "eof"
  /\ Disconnect
  /\ UNCHANGED <<table, queue, gone, late, hostVars, expiring, worker, stopper, missed,
                 loop, inFlight, answers, sealed, exited>>

OnClose ==
  /\ ~exited /\ stdin = "eof"
  /\ stdin' = "closed"
  /\ queue' = Append(queue, Message("closed", Nil))
  /\ UNCHANGED <<table, gone, late, hostVars, deadlineVars, loop, inFlight, answers, sealed, exited>>

\* serve ended with an error: no more writes, and the loop is told.
TransportFails ==
  /\ ~exited /\ stdin # "closed"
  /\ stdin' = "closed" /\ gone' = TRUE /\ sealed' = TRUE /\ armed' = TRUE
  /\ queue' = Append(queue, Message("closed", Nil))
  /\ UNCHANGED <<table, late, hostVars, expiring, worker, stopper, missed, loop, inFlight,
                 answers, exited>>

----------------------------------------------------------------------------
(* Answers.                                                                *)

Running(place) == ~exited /\ loop.at = place

\* send_response, send_rpc_error: nothing once the deadline expires or the
\* connection is sealed; the request is then left to fail_unanswered.
Respond(r, next) ==
  loop' = IF expiring \/ sealed THEN [loop EXCEPT !.at = next]
          ELSE Step("remove", r, loop.h, next)

\* take_responder: the seal was checked before; the table is read under its lock.
TakeResponder ==
  /\ Running("remove")
  /\ table' = table \ {loop.id}
  /\ answers' = IF loop.id \in table THEN [answers EXCEPT ![loop.id] = @ + 1] ELSE answers
  /\ loop' = [loop EXCEPT !.at = loop.next]
  /\ UNCHANGED <<stdin, queue, gone, late, hostVars, deadlineVars, inFlight, sealed, exited>>

\* Mutant: only what the loop had reached is failed.
DrainPending == /\ answers' = [r \in Requests |-> IF r \in inFlight \cap table THEN answers[r] + 1 ELSE answers[r]]
                /\ table' = table \ inFlight

\* fail_unanswered, past the seal: every responder left gets an error.
Drain == /\ answers' = [r \in Requests |-> IF r \in table THEN answers[r] + 1 ELSE answers[r]]
         /\ table' = {}

----------------------------------------------------------------------------
(* Hosts.                                                                  *)

KillHost(hs) == host' = [h \in HostIds |-> IF h \in hs THEN "stopped" ELSE host[h]]
TakeViews(hs) == view' = [h \in HostIds |-> view[h] /\ h \notin hs]

\* MspHost::force_stop: kill the child and remove its view.
ForceStop(hs) == KillHost(hs) /\ TakeViews(hs)

\* MspHost::shutdown, reap: once the deadline expires, the view is force_stop's.
StopHost(hs) == KillHost(hs) /\ TakeViews(IF expiring THEN {} ELSE hs)

\* A host launched now gets the next number; no launch once the deadline expired.
CanLaunch == \E h \in HostIds : host[h] = "none"
IsNext(h) == host[h] = "none" /\ \A k \in 1 .. h - 1 : host[k] # "none"
LaunchFailed == [loop EXCEPT !.at = IF loop.next = "handle" THEN "handle" ELSE "failAll"]

Launch ==
  /\ Running("launch")
  /\ IF expiring THEN loop' = LaunchFailed
     ELSE loop' = [loop EXCEPT !.at = "spawn"]
  /\ UNCHANGED <<connVars, hostVars, deadlineVars, inFlight, answers, sealed, exited>>

Spawn ==
  /\ Running("spawn")
  /\ \/ \E h \in HostIds :
          /\ IsNext(h)
          /\ host' = [host EXCEPT ![h] = "up"]
          /\ \E has \in BOOLEAN : view' = [view EXCEPT ![h] = has]
          /\ loop' = Step("lock", loop.id, h, loop.next)
     \/ loop' = LaunchFailed /\ UNCHANGED <<host, view>>
  /\ UNCHANGED <<connVars, registry, regLock, current, deadlineVars, inFlight, answers, sealed, exited>>

\* register_host: push under the lock, then look at the deadline.
RegisterLock ==
  /\ Running("lock")
  /\ regLock' = TRUE
  /\ loop' = [loop EXCEPT !.at = "push"]
  /\ UNCHANGED <<connVars, registry, current, host, view, deadlineVars, inFlight, answers, sealed, exited>>

RegisterPush ==
  /\ Running("push")
  /\ registry' = registry \cup {loop.h}
  /\ regLock' = FALSE
  /\ loop' = [loop EXCEPT !.at = "registered"]
  /\ UNCHANGED <<connVars, current, host, view, deadlineVars, inFlight, answers, sealed, exited>>

\* Mutant: a host is registered behind the deadline's back.
RegisteredAnyway ==
  /\ Running("registered")
  /\ current' = current \cup {loop.h}
  /\ loop' = [loop EXCEPT !.at = loop.next]
  /\ UNCHANGED <<connVars, host, view, registry, regLock, deadlineVars, inFlight, answers, sealed, exited>>

Registered ==
  /\ Running("registered")
  /\ IF expiring
     THEN /\ ForceStop({loop.h})
          /\ loop' = LaunchFailed
          /\ UNCHANGED current
     ELSE /\ current' = current \cup {loop.h}
          /\ loop' = [loop EXCEPT !.at = loop.next]
          /\ UNCHANGED <<host, view>>
  /\ UNCHANGED <<connVars, registry, regLock, deadlineVars, inFlight, answers, sealed, exited>>

\* A host process exits (external); the reader tells the loop.
HostDies(h) ==
  /\ ~exited /\ h \in current /\ host[h] = "up"
  /\ KillHost({h})
  /\ queue' = Append(queue, Message("hostClosed", h))
  /\ UNCHANGED <<stdin, table, gone, late, registry, regLock, current, view, deadlineVars,
                 loop, inFlight, answers, sealed, exited>>

----------------------------------------------------------------------------
(* The loop of main.                                                       *)

Take(kind) ==
  /\ Running("recv") /\ queue # <<>>
  /\ Head(queue).kind = kind
  /\ queue' = Tail(queue)

\* Any message after the deadline expired ends the process.
RecvExpiring ==
  /\ Running("recv") /\ queue # <<>> /\ expiring
  /\ queue' = Tail(queue)
  /\ loop' = [At("settle") EXCEPT !.next = "force"]
  /\ UNCHANGED <<stdin, table, gone, late, hostVars, deadlineVars, inFlight, answers, sealed, exited>>

RecvRequest ==
  /\ ~expiring /\ Take("request")
  /\ loop' = [At("handle") EXCEPT !.id = Head(queue).what]
  /\ UNCHANGED <<stdin, table, gone, late, hostVars, deadlineVars, inFlight, answers, sealed, exited>>

\* The editor is gone: fail the prompts, settle the rest, stop the hosts, exit.
RecvClosed ==
  /\ ~expiring /\ Take("closed")
  /\ loop' = At("failAll")
  /\ UNCHANGED <<stdin, table, gone, late, hostVars, deadlineVars, inFlight, answers, sealed, exited>>

RecvHostClosed ==
  /\ ~expiring /\ Take("hostClosed")
  /\ loop' = [At("reap") EXCEPT !.h = Head(queue).what]
  /\ UNCHANGED <<stdin, table, gone, late, hostVars, deadlineVars, inFlight, answers, sealed, exited>>

\* handle_acp: answer, keep the request for later, or launch a host for it.
\* The loop may also stay here: a host command has no bound of its own.
Handle ==
  /\ Running("handle")
  /\ \/ Respond(loop.id, "recv") /\ UNCHANGED inFlight
     \/ /\ current # {}
        /\ inFlight' = inFlight \cup {loop.id}
        /\ loop' = At("recv")
     \/ /\ CanLaunch
        /\ loop' = Step("launch", loop.id, loop.h, "handle")
        /\ UNCHANGED inFlight
  /\ UNCHANGED <<connVars, hostVars, deadlineVars, answers, sealed, exited>>

\* The terminal of a prompt in flight.
FinishPrompt(r) ==
  /\ Running("recv") /\ r \in inFlight /\ ~expiring
  /\ inFlight' = inFlight \ {r}
  /\ Respond(r, "recv")
  /\ UNCHANGED <<connVars, hostVars, deadlineVars, answers, sealed, exited>>

\* The main host exited: reap it, then restart it or end.
Reap ==
  /\ Running("reap")
  /\ StopHost({loop.h})
  /\ current' = current \ {loop.h}
  /\ loop' \in {At("failAll"), IF expiring THEN At("recv") ELSE At("launch")}
  /\ UNCHANGED <<connVars, registry, regLock, deadlineVars, inFlight, answers, sealed, exited>>

\* fail_all_with_message, one prompt at a time.
FailAll ==
  /\ Running("failAll")
  /\ \/ \E r \in inFlight : inFlight' = inFlight \ {r} /\ Respond(r, "failAll")
     \/ inFlight = {} /\ loop' = At("settle") /\ UNCHANGED inFlight
  /\ UNCHANGED <<connVars, hostVars, deadlineVars, answers, sealed, exited>>

AfterSettle == IF loop.next = "force" THEN "force" ELSE "stop"

\* fail_unanswered on the loop: whoever seals first drains.
Settle ==
  /\ Running("settle")
  /\ sealed' = TRUE
  /\ loop' = [loop EXCEPT !.at = IF sealed THEN AfterSettle ELSE "drain"]
  /\ UNCHANGED <<connVars, hostVars, deadlineVars, inFlight, answers, exited>>

SettleDrain ==
  /\ Running("drain")
  /\ Drain
  /\ loop' = [loop EXCEPT !.at = AfterSettle]
  /\ UNCHANGED <<stdin, queue, gone, late, hostVars, deadlineVars, inFlight, sealed, exited>>

StopHosts ==
  /\ Running("stop") /\ StopHost(current)
  /\ loop' = [loop EXCEPT !.at = "exit"]
  /\ UNCHANGED <<connVars, registry, regLock, current, deadlineVars, inFlight, answers, sealed, exited>>

ForceStopHosts ==
  /\ Running("force") /\ ForceStop(current)
  /\ loop' = [loop EXCEPT !.at = "exit"]
  /\ UNCHANGED <<connVars, registry, regLock, current, deadlineVars, inFlight, answers, sealed, exited>>

\* shutdown::exit.  The loop does not wait for the deadline's own threads.
Exit ==
  /\ Running("exit")
  /\ exited' = TRUE
  /\ UNCHANGED <<connVars, hostVars, deadlineVars, loop, inFlight, answers, sealed>>

----------------------------------------------------------------------------
(* The deadline.                                                           *)

\* Steps the loop takes under a Deadline of its own.
Guarded == {"failAll", "settle", "drain", "stop", "reap"}

Expire ==
  /\ ~exited /\ ~expiring
  /\ armed \/ loop.at \in Guarded
  /\ expiring' = TRUE /\ worker' = "settle" /\ stopper' = "collect"
  /\ UNCHANGED <<connVars, hostVars, armed, missed, loop, inFlight, answers, sealed, exited>>

WorkerSeals ==
  /\ ~exited /\ worker = "settle"
  /\ sealed' = TRUE
  /\ worker' = IF sealed THEN "done" ELSE "drain"
  /\ UNCHANGED <<connVars, hostVars, armed, expiring, stopper, missed, loop, inFlight, answers, exited>>

WorkerDrains ==
  /\ ~exited /\ worker = "drain"
  /\ Drain
  /\ worker' = "done"
  /\ UNCHANGED <<stdin, queue, gone, late, hostVars, armed, expiring, stopper, missed, loop,
                 inFlight, sealed, exited>>

\* try_lock: a registry somebody holds is taken for an empty one.
StopperRuns ==
  /\ ~exited /\ stopper = "collect"
  /\ IF regLock THEN missed' = TRUE /\ UNCHANGED <<host, view>>
     ELSE ForceStop(registry) /\ UNCHANGED missed
  /\ stopper' = "done"
  /\ UNCHANGED <<connVars, registry, regLock, current, armed, expiring, worker, loop, inFlight,
                 answers, sealed, exited>>

\* Both threads get their grace, which is long for work in memory.
ExpireExits ==
  /\ ~exited /\ worker = "done" /\ stopper = "done"
  /\ exited' = TRUE
  /\ UNCHANGED <<connVars, hostVars, deadlineVars, loop, inFlight, answers, sealed>>

----------------------------------------------------------------------------
Connection == (\E r \in Requests : Hold(r)) \/ Eof \/ OnClose \/ TransportFails

Loop == TakeResponder \/ Launch \/ Spawn \/ RegisterLock \/ RegisterPush \/ Registered
        \/ RecvExpiring \/ RecvRequest \/ RecvClosed \/ RecvHostClosed \/ Handle
        \/ (\E r \in Requests : FinishPrompt(r))
        \/ Reap \/ FailAll \/ Settle \/ SettleDrain \/ StopHosts \/ ForceStopHosts \/ Exit

Deadline == Expire \/ WorkerSeals \/ WorkerDrains \/ StopperRuns \/ ExpireExits

ShutdownNext == Connection \/ Loop \/ Deadline \/ \E h \in HostIds : HostDies(h)

\* The deadline's threads wait for nothing, so time takes them through.  The
\* loop is under no fairness at all: it may be stuck for ever.
ShutdownSpec == ShutdownInit /\ [][ShutdownNext]_shutdownVars /\ WF_shutdownVars(Deadline)

----------------------------------------------------------------------------
(* Properties.                                                             *)

Places == {"recv", "handle", "remove", "launch", "spawn", "lock", "push", "registered",
           "reap", "failAll", "settle", "drain", "stop", "force", "exit"}
Messages == [kind : {"request"}, what : Requests] \cup [kind : {"closed"}, what : {Nil}]
            \cup [kind : {"hostClosed"}, what : HostIds]

ConnOK ==
  /\ stdin \in {"open", "eof", "closed"} /\ queue \in Seq(Messages)
  /\ table \subseteq Requests /\ late \subseteq Requests
  /\ inFlight \subseteq Requests /\ answers \in [Requests -> Nat]

LoopOK ==
  /\ loop \in [at : Places, id : Requests \cup {Nil}, h : HostIds \cup {Nil},
               next : {"recv", "handle", "failAll", "force"}]
  /\ loop.at \in {"handle", "remove"} \/ loop.next = "handle" => loop.id \in Requests
  /\ loop.at \in {"lock", "push", "registered"} => loop.h \in HostIds

HostOK ==
  /\ registry \subseteq HostIds /\ current \subseteq HostIds
  /\ host \in [HostIds -> {"none", "up", "stopped"}] /\ view \in [HostIds -> BOOLEAN]

FlagsOK ==
  /\ sealed \in BOOLEAN /\ armed \in BOOLEAN /\ expiring \in BOOLEAN /\ regLock \in BOOLEAN
  /\ exited \in BOOLEAN /\ gone \in BOOLEAN /\ missed \in BOOLEAN
  /\ worker \in {"none", "settle", "drain", "done"} /\ stopper \in {"none", "collect", "done"}

ShutdownTypeOK == ConnOK /\ LoopOK /\ HostOK /\ FlagsOK

\* No request is answered twice, whichever of the loop, its settlement and the
\* deadline gets to it, and when the process is gone every request the
\* connection held before the seal was answered, the ones the loop never
\* reached included (Editor::fail_unanswered).  The exception is a process
\* that exits between the two halves of a settlement by the other thread.
EveryRequestAnswered ==
  /\ \A r \in Requests : answers[r] <= 1
  /\ exited /\ ~gone /\ worker # "drain" /\ loop.at # "drain" => table \subseteq late

\* The loop has started this host and not yet looked at the deadline again.
Launching(h) == loop.at \in {"lock", "push", "registered"} /\ loop.h = h

\* No host outlives the adapter, whichever of the loop and the deadline ends the
\* process (register_host, force_stop, shutdown).  A host process still runs only if the
\* deadline ended the process while the loop was launching that host, or after it found
\* the registry locked.  A settings view is left behind only in these cases and by a
\* loop that exits before the deadline has looked or when it found the registry locked.
NoHostOutlivesUs ==
  exited => \A h \in HostIds :
    /\ host[h] = "up" => Launching(h) \/ (missed /\ loop.at # "exit")
    /\ view[h] => Launching(h) \/ missed \/ stopper = "collect"

\* main.rs: "a loop stuck on a host command still exits".  Once input ended the
\* process ends, whatever the loop does.
StuckLoopStillExits == stdin # "open" ~> exited

\* editor.rs, fail_unanswered: "the client gets an answer for every request,
\* even ones the main loop never reached."
EveryOpenRequestAnswered == exited /\ ~gone => table = {}

\* msp.rs, MspHost::shutdown: "Once the deadline is expiring, `force_stop` owns
\* the view: it runs before `process::exit`".
ForceStopOwnsTheView ==
  exited /\ loop.at = "exit" => \A h \in current : ~view[h]

\* shutdown.rs, register_host: "Records a running host, so an expired deadline
\* stops it."
DeadlineStopsHosts == exited => \A h \in registry : host[h] = "stopped"
==============================================================================
