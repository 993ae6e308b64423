------------------------------ MODULE MspClient ------------------------------
(***************************************************************************)
(* One MSP connection of the muse-msp-client crate (client.rs): caller     *)
(* threads that start requests and wait for replies, the writer thread     *)
(* that owns the host's stdin, the reader thread that owns its stdout, and *)
(* threads that close the client.  The host behind the two pipes is an     *)
(* external process: it may answer, emit notifications and server          *)
(* requests, stall, or exit at any moment.                                 *)
(*                                                                         *)
(* One step is one critical section or one blocking call of the code.  A   *)
(* request id is used by one caller thread only (next_id.fetch_add), so    *)
(* the thread and its request share one name.                              *)
(***************************************************************************)
EXTENDS Naturals, Sequences

CONSTANTS
    Reqs,         \* request ids, each with the thread that started it
    Reader,       \* the thread running reader_loop
    Closers,      \* threads that call close() (or the background drop)
    PipeCap,      \* frames each OS pipe holds before a write blocks
    MaxNoise      \* bound on frames the host sends that answer nothing

ASSUME ThreadsAssumption ==
    /\ Reader \notin Reqs \cup Closers
    /\ Reqs \cap Closers = {}
    /\ PipeCap \in Nat \ {0}
    /\ MaxNoise \in Nat

Threads == Reqs \cup Closers \cup {Reader}
\* The threads that call send_raw, and so own at most one frame to write.
Senders == Reqs \cup {Reader}

VARIABLES
    pc,           \* where each thread is in the code
    pending,      \* keys of Core::pending
    reply,        \* what the receiver of each reply channel would see
    result,       \* what start_request(..)?.wait() returned to the caller
    writer,       \* Core::writer is Some
    end,          \* Core::end: a process, a custom transport with its terminate hook, or without
    wq, wstate, wcur, wresult,  \* the writer thread, its channel, its answers
    stdin, stdout, alive,       \* the two pipes and the process behind them
    got, answered, noise,       \* requests the host read, answered; other frames
    forward,      \* the server request in the reader's hand becomes an event
    listening,    \* the receiver of the event channel exists
    closedSent,   \* MspEvent::Closed events sent
    held          \* waiters a thread drained and has not woken yet

callerVars == <<pending, reply, result>>
writerVars == <<wq, wstate, wcur, wresult>>
eventVars  == <<forward, listening, closedSent>>
hostVars   == <<stdin, stdout, alive, got, answered, noise>>
vars == <<pc, callerVars, writer, end, writerVars, hostVars, eventVars, held>>

\* Labels of send_raw after the sender was cloned: the local clone keeps the
\* writer thread's channel connected until send_raw returns.
HasSender == {"enqueue", "awaitWrite", "wtTake", "wtTerminate", "wtHook",
              "wtDrain", "wtSend"}
\* Labels at which a thread has taken `writer` and will still drain `pending`.
DrainDue == {"wtTerminate", "wtHook", "wtDrain", "clDrain", "hcDrain"}
CallerLabels == HasSender \cup {"idle", "send", "failed", "waiting", "expired", "done"}
Labels == CallerLabels \cup DrainDue \cup
          {"read", "event", "hcTake", "hcEvent", "hcDrop", "clTake", "clSend", "clWait", "stopped"}
Replies == {"open", "result", "closed", "cancelled", "dropped"}
Results == {"none", "result", "closed", "cancelled", "dropped", "timeout",
            "brokenPipe", "writeTimeout"}
OutFrames == [kind : {"resp"}, id : Reqs] \cup
             [kind : {"note", "ask", "noMethod", "stray", "tooLarge"}]

TypeOK ==
    /\ pc \in [Threads -> Labels]
    /\ pending \subseteq Reqs
    /\ reply \in [Reqs -> Replies]
    /\ result \in [Reqs -> Results]
    /\ writer \in BOOLEAN /\ end \in {"process", "hook", "taken"}
    /\ wq \in Seq(Senders)
    /\ wstate \in {"recv", "writing", "drain", "break", "stopped"}
    /\ wcur \in Senders
    /\ wresult \in [Senders -> {"none", "ok", "err"}]
    /\ stdin \in Seq(Senders) /\ stdout \in Seq(OutFrames)
    /\ alive \in BOOLEAN
    /\ got \subseteq Reqs /\ answered \subseteq Reqs
    /\ noise \in Nat /\ closedSent \in Nat
    /\ forward \in BOOLEAN /\ listening \in BOOLEAN
    /\ held \in [Threads -> SUBSET Reqs]

Init ==
    /\ pc = [t \in Threads |-> IF t = Reader THEN "read" ELSE "idle"]
    /\ pending = {}
    /\ reply = [r \in Reqs |-> "open"]
    /\ result = [r \in Reqs |-> "none"]
    /\ writer = TRUE /\ end \in {"process", "hook"}
    /\ wq = <<>> /\ wstate = "recv" /\ wcur = Reader
    /\ wresult = [t \in Senders |-> "none"]
    /\ stdin = <<>> /\ stdout = <<>> /\ alive = TRUE
    /\ got = {} /\ answered = {} /\ noise = 0
    /\ forward = TRUE /\ listening = TRUE /\ closedSent = 0
    /\ held = [t \in Threads |-> {}]

Goto(t, label) == pc' = [pc EXCEPT ![t] = label]
-----------------------------------------------------------------------------
(* start_request and send_raw                                              *)

\* start_request: the waiter is registered before the frame is sent.
Register(r) ==
    /\ pc[r] = "idle"
    /\ pending' = pending \cup {r}
    /\ Goto(r, "send")
    /\ UNCHANGED <<reply, result, writer, end, writerVars, hostVars, eventVars, held>>

\* send_raw fails (label "failed" removes the key and returns MspError::Write);
\* the reader ignores a failed acknowledgement.
SendFailed(t, why) ==
    IF t = Reader
    THEN Goto(t, "event") /\ UNCHANGED result
    ELSE Goto(t, "failed") /\ result' = [result EXCEPT ![t] = why]

\* send_raw clones the sender under the writer lock.
CloneSender(t) ==
    /\ pc[t] = "send"
    /\ IF writer THEN Goto(t, "enqueue") /\ UNCHANGED result
                 ELSE SendFailed(t, "brokenPipe")
    /\ UNCHANGED <<pending, reply, writer, end, writerVars, hostVars, eventVars, held>>

\* sender.send(WriteRequest): refused once the writer thread dropped its end.
Enqueue(t) ==
    /\ pc[t] = "enqueue"
    /\ IF wstate = "stopped"
       THEN SendFailed(t, "brokenPipe") /\ UNCHANGED <<wq, wresult>>
       ELSE /\ wq' = Append(wq, t)
            /\ wresult' = [wresult EXCEPT ![t] = "none"]
            /\ Goto(t, "awaitWrite")
            /\ UNCHANGED result
    /\ UNCHANGED <<pending, reply, writer, end, wstate, wcur, hostVars, eventVars, held>>

\* result_rx.recv_timeout: the writer thread's verdict, or write_timeout.
Written(t) ==
    /\ pc[t] = "awaitWrite"
    /\ \/ /\ wresult[t] = "ok"
          /\ Goto(t, IF t = Reader THEN "event" ELSE "waiting")
          /\ UNCHANGED result
       \/ /\ wresult[t] = "err"
          /\ SendFailed(t, "brokenPipe")
    /\ UNCHANGED <<pending, reply, writer, end, writerVars, hostVars, eventVars, held>>

\* Mutant: the timeout is reported like a refused write, the frame left queued.
WriteTimeoutRefuses(t) ==
    /\ pc[t] = "awaitWrite" /\ wresult[t] = "none"
    /\ SendFailed(t, "brokenPipe")
    /\ UNCHANGED <<pending, reply, writer, end, writerVars, hostVars, eventVars, held>>

WriteTimeout(t) ==
    /\ pc[t] = "awaitWrite" /\ wresult[t] = "none"
    /\ Goto(t, "wtTake")
    /\ UNCHANGED <<callerVars, writer, end, writerVars, hostVars, eventVars, held>>

\* terminate(): an owned child is killed and reaped under its lock; a custom
\* transport's hook is taken out under its lock and called after the unlock.
Terminate(t) ==
    /\ pc[t] = "wtTerminate"
    /\ \/ end = "process" /\ Goto(t, "wtDrain") /\ alive' = FALSE /\ UNCHANGED end
       \/ end = "hook" /\ Goto(t, "wtHook") /\ end' = "taken" /\ UNCHANGED alive
       \/ end = "taken" /\ Goto(t, "wtDrain") /\ UNCHANGED <<end, alive>>
    /\ UNCHANGED <<callerVars, writer, writerVars, stdin, stdout, got, answered,
                   noise, eventVars, held>>

RunHook(t) ==
    /\ pc[t] = "wtHook"
    /\ alive' = FALSE
    /\ Goto(t, "wtDrain")
    /\ UNCHANGED <<callerVars, writer, end, writerVars, stdin, stdout, got,
                   answered, noise, eventVars, held>>

\* remove_pending, then start_request returns Err(MspError::Write).
Unregister(r) ==
    /\ pc[r] = "failed"
    /\ pending' = pending \ {r}
    /\ Goto(r, "done")
    /\ UNCHANGED <<reply, result, writer, end, writerVars, hostVars, eventVars, held>>
-----------------------------------------------------------------------------
(* fail_pending, host_closed and close                                     *)

\* Mutants: host_closed leaves the waiters; a write timeout spares the transport.
AfterTakeNoDrain(l) == IF l = "wtTake" THEN "wtTerminate"
                       ELSE IF l = "clTake" THEN "clDrain" ELSE "hcEvent"
AfterTakeSpares(l) == IF l = "wtTake" THEN "wtDrain"
                      ELSE IF l = "clTake" THEN "clDrain" ELSE "hcDrain"

\* fail_pending after a write timeout (wt) or in close (cl), and host_closed (hc)
\* all take the writer, then drain.
AfterTake(l) == IF l = "wtTake" THEN "wtTerminate"
                ELSE IF l = "clTake" THEN "clDrain" ELSE "hcDrain"
AfterDrain(l) == IF l = "wtDrain" THEN "wtSend"
                 ELSE IF l = "clDrain" THEN "clSend" ELSE "hcEvent"

\* writer.lock().take(): from here on every new request is refused.
TakeWriter(t) ==
    /\ pc[t] \in {"wtTake", "clTake", "hcTake"}
    /\ writer' = FALSE
    /\ Goto(t, AfterTake(pc[t]))
    /\ UNCHANGED <<callerVars, end, writerVars, hostVars, eventVars, held>>

\* pending.lock().drain(): from here on this thread holds the senders.
DrainPending(t) ==
    /\ pc[t] \in {"wtDrain", "clDrain", "hcDrain"}
    /\ pending' = {}
    /\ held' = [held EXCEPT ![t] = pending]
    /\ Goto(t, AfterDrain(pc[t]))
    /\ UNCHANGED <<reply, result, writer, end, writerVars, hostVars, eventVars>>

\* fail_pending sends Reply::Closed, host_closed drops the senders when it ends.
\* Then send_raw reports the timeout, the reader thread stops, and close() goes on
\* to the child (a custom transport has none).
WakeHeld(t) ==
    /\ pc[t] \in {"wtSend", "clSend", "hcDrop"}
    /\ LET verdict == IF pc[t] = "hcDrop" THEN "dropped" ELSE "closed" IN
       reply' = [r \in Reqs |-> IF r \in held[t] THEN verdict ELSE reply[r]]
    /\ held' = [held EXCEPT ![t] = {}]
    /\ IF pc[t] = "wtSend"
       THEN SendFailed(t, "writeTimeout")
       ELSE /\ Goto(t, IF end = "process" /\ pc[t] = "clSend" THEN "clWait"
                       ELSE IF t = Reader THEN "stopped" ELSE "done")
            /\ UNCHANGED result
    /\ UNCHANGED <<pending, writer, end, writerVars, hostVars, eventVars>>

StartClose(c) ==
    /\ pc[c] = "idle"
    /\ Goto(c, "clTake")
    /\ UNCHANGED <<callerVars, writer, end, writerVars, hostVars, eventVars, held>>

\* close() polls the child: it exited by itself, or it is killed after grace.
StopChild(t) ==
    /\ pc[t] = "clWait"
    /\ alive' = FALSE
    /\ Goto(t, IF t = Reader THEN "stopped" ELSE "done")
    /\ UNCHANGED <<callerVars, writer, end, writerVars, stdin, stdout, got,
                   answered, noise, eventVars, held>>
-----------------------------------------------------------------------------
(* PendingRequest::wait and RequestHandle::cancel                          *)

\* Receive the reply, or see the sender dropped (MspError::HostClosed).
Receive(r) ==
    /\ pc[r] = "waiting" /\ reply[r] # "open"
    /\ result' = [result EXCEPT ![r] = reply[r]]
    /\ Goto(r, "done")
    /\ UNCHANGED <<pending, reply, writer, end, writerVars, hostVars, eventVars, held>>

ReplyTimeout(r) ==
    /\ pc[r] = "waiting" /\ reply[r] = "open"
    /\ Goto(r, "expired")
    /\ UNCHANGED <<callerVars, writer, end, writerVars, hostVars, eventVars, held>>

Expire(r) ==
    /\ pc[r] = "expired"
    /\ pending' = pending \ {r}
    /\ result' = [result EXCEPT ![r] = "timeout"]
    /\ Goto(r, "done")
    /\ UNCHANGED <<reply, writer, end, writerVars, hostVars, eventVars, held>>

\* Mutant: cancel looks its waiter up instead of removing it.
CancelKeepsKey(r) ==
    /\ pc[r] \in {"waiting", "expired"} /\ r \in pending
    /\ reply' = [reply EXCEPT ![r] = "cancelled"]
    /\ UNCHANGED <<pc, pending, result, writer, end, writerVars, hostVars, eventVars, held>>

\* cancel() returns true; a cancel that finds no waiter changes nothing.
Cancel(r) ==
    /\ pc[r] \in {"waiting", "expired"} /\ r \in pending
    /\ pending' = pending \ {r}
    /\ reply' = [reply EXCEPT ![r] = "cancelled"]
    /\ UNCHANGED <<pc, result, writer, end, writerVars, hostVars, eventVars, held>>
-----------------------------------------------------------------------------
(* write_loop                                                              *)

WriterRecv ==
    /\ wstate = "recv" /\ wq # <<>>
    /\ wcur' = Head(wq) /\ wq' = Tail(wq)
    /\ wstate' = "writing"
    /\ UNCHANGED <<pc, callerVars, writer, end, wresult, hostVars, eventVars, held>>

\* writeln + flush: waits for room in the pipe, fails once the peer is gone.
WriterWrite ==
    /\ wstate = "writing"
    /\ \/ /\ alive /\ Len(stdin) < PipeCap
          /\ stdin' = Append(stdin, wcur)
          /\ wresult' = [wresult EXCEPT ![wcur] = "ok"]
          /\ wstate' = "recv"
       \/ /\ ~alive
          /\ wresult' = [wresult EXCEPT ![wcur] = "err"]
          /\ wstate' = "drain"
          /\ UNCHANGED stdin
    /\ UNCHANGED <<pc, callerVars, writer, end, wq, wcur, stdout, alive, got,
                   answered, noise, eventVars, held>>

FailQueued == [t \in Senders |-> IF \E i \in DOMAIN wq : wq[i] = t
                                 THEN "err" ELSE wresult[t]]

\* After a failed write: answer every queued frame, then drop the receiver.
\* A frame queued between the two sees its result channel disconnected.
WriterDrain ==
    /\ wstate \in {"drain", "break"}
    /\ wresult' = FailQueued
    /\ wq' = <<>>
    /\ wstate' = IF wstate = "drain" THEN "break" ELSE "stopped"
    /\ UNCHANGED <<pc, callerVars, writer, end, wcur, hostVars, eventVars, held>>

\* recv fails when no sender is left; the thread ends and drops stdin.
WriterEnd ==
    /\ wstate = "recv" /\ wq = <<>>
    /\ ~writer /\ \A t \in Senders : pc[t] \notin HasSender
    /\ wstate' = "stopped"
    /\ UNCHANGED <<pc, callerVars, writer, end, wq, wcur, wresult, hostVars,
                   eventVars, held>>
-----------------------------------------------------------------------------
(* reader_loop                                                             *)

\* A response goes to the waiter of its id, and is ignored when there is none.
Delivered(id) == [r \in Reqs |-> IF r = id /\ r \in pending THEN "result" ELSE reply[r]]

ReadFrame ==
    /\ pc[Reader] = "read" /\ stdout # <<>>
    /\ stdout' = Tail(stdout)
    /\ LET f == Head(stdout) IN
       /\ IF f.kind = "resp"
          THEN pending' = pending \ {f.id} /\ reply' = Delivered(f.id)
          ELSE UNCHANGED <<pending, reply>>
       /\ Goto(Reader, CASE f.kind = "note"     -> "event"
                         [] f.kind \in {"ask", "noMethod"} -> "send"
                         [] f.kind = "tooLarge" -> "hcTake"
                         [] OTHER               -> "read")
       /\ forward' = (f.kind # "noMethod")
    /\ UNCHANGED <<result, writer, end, writerVars, stdin, alive, got, answered,
                   noise, listening, closedSent, held>>

\* events.send: a missing consumer makes the reader close the connection.  A
\* method without a configured mode was answered and is not forwarded.
SendEvent ==
    /\ pc[Reader] = "event"
    /\ Goto(Reader, IF listening \/ ~forward THEN "read" ELSE "clTake")
    /\ UNCHANGED <<callerVars, writer, end, writerVars, hostVars, eventVars, held>>

ReadEof ==
    /\ pc[Reader] = "read" /\ stdout = <<>> /\ ~alive
    /\ Goto(Reader, "hcTake")
    /\ UNCHANGED <<callerVars, writer, end, writerVars, hostVars, eventVars, held>>

\* host_closed sends MspEvent::Closed before it lets go of the drained senders.
SendClosed ==
    /\ pc[Reader] = "hcEvent"
    /\ closedSent' = closedSent + 1
    /\ Goto(Reader, "hcDrop")
    /\ UNCHANGED <<callerVars, writer, end, writerVars, hostVars, forward,
                   listening, held>>

\* The embedder drops the event receiver.
DropEvents ==
    /\ listening
    /\ listening' = FALSE
    /\ UNCHANGED <<pc, callerVars, writer, end, writerVars, hostVars, forward,
                   closedSent, held>>
-----------------------------------------------------------------------------
(* The host process, external                                              *)

\* It reads a frame: a request it now owes an answer, or an acknowledgement.
HostRead ==
    /\ alive /\ stdin # <<>>
    /\ stdin' = Tail(stdin)
    /\ got' = got \cup ({Head(stdin)} \cap Reqs)
    /\ UNCHANGED <<pc, callerVars, writer, end, writerVars, stdout, alive,
                   answered, noise, eventVars, held>>

HostAnswer(r) ==
    /\ alive /\ r \in got \ answered /\ Len(stdout) < PipeCap
    /\ stdout' = Append(stdout, [kind |-> "resp", id |-> r])
    /\ answered' = answered \cup {r}
    /\ UNCHANGED <<pc, callerVars, writer, end, writerVars, stdin, alive, got,
                   noise, eventVars, held>>

HostEmit(k) ==
    /\ alive /\ noise < MaxNoise /\ Len(stdout) < PipeCap
    /\ stdout' = Append(stdout, [kind |-> k])
    /\ noise' = noise + 1
    /\ UNCHANGED <<pc, callerVars, writer, end, writerVars, stdin, alive, got,
                   answered, eventVars, held>>

HostExit ==
    /\ alive
    /\ alive' = FALSE
    /\ UNCHANGED <<pc, callerVars, writer, end, writerVars, stdin, stdout, got,
                   answered, noise, eventVars, held>>
-----------------------------------------------------------------------------
Send(t) == CloneSender(t) \/ Enqueue(t) \/ Written(t) \/ Terminate(t) \/ RunHook(t)
Fail(t) == TakeWriter(t) \/ DrainPending(t) \/ WakeHeld(t) \/ StopChild(t)
Settle(r) == Unregister(r) \/ Receive(r) \/ Expire(r)
Writer == WriterRecv \/ WriterWrite \/ WriterDrain \/ WriterEnd
Read == ReadFrame \/ SendEvent \/ ReadEof \/ SendClosed
Host ==
    \/ HostRead \/ HostExit
    \/ \E r \in Reqs : HostAnswer(r)
    \/ \E k \in {"note", "ask", "noMethod", "stray", "tooLarge"} : HostEmit(k)

Next ==
    \/ \E r \in Reqs : Register(r) \/ Settle(r) \/ ReplyTimeout(r) \/ Cancel(r)
    \/ \E t \in Senders : Send(t) \/ WriteTimeout(t)
    \/ \E t \in Threads : Fail(t)
    \/ \E c \in Closers : StartClose(c)
    \/ Writer \/ Read \/ DropEvents \/ Host

\* Every thread of the client keeps running and the write timer fires.  Nothing
\* is assumed of the host, of the embedder, or of a request's own deadline,
\* which may be too large to represent and then never fires.
Fairness ==
    /\ \A r \in Reqs : WF_vars(Settle(r))
    /\ \A t \in Senders : WF_vars(Send(t)) /\ WF_vars(WriteTimeout(t))
    /\ \A t \in Threads : WF_vars(Fail(t))
    /\ WF_vars(Writer) /\ WF_vars(Read)

Spec == Init /\ [][Next]_vars
FairSpec == Spec /\ Fairness
-----------------------------------------------------------------------------
(* Properties                                                              *)

\* A request past its sender lookup that is still registered while the writer
\* is gone has a drain coming: fail_pending and host_closed take `writer` before
\* they drain, so no request slips in behind the drain and waits on a dead
\* connection (client.rs, "Reject new requests before draining waiters").
NoStrandedWaiter ==
    \A r \in Reqs :
        (~writer /\ r \in pending /\ pc[r] \in {"enqueue", "awaitWrite", "waiting"})
            => \E t \in Threads : pc[t] \in DrainDue

\* A reply channel gets one verdict: whoever removes the key from `pending`
\* (the response, cancel, or a drain) is the only one who may settle it.
SettlesOnce ==
    [][\A r \in Reqs : reply[r] # "open" => reply'[r] = reply[r]]_vars

\* A thread has taken the terminate hook and not called it yet.
HookRunning == \E t \in Threads : pc[t] = "wtHook"

\* Once start_request has reported a write timeout the host never acts on that
\* frame any more: the transport is terminated before the error is returned.
\* The hook of a custom transport is called after its lock is released, so there
\* another thread may still be about to call it.
NoLateDelivery ==
    [][\A r \in Reqs : (pc[r] = "done" /\ result[r] = "writeTimeout" /\ r \in got')
                          => r \in got \/ HookRunning]_vars

\* A request refused with a broken pipe never reaches the host, so its command
\* can be sent again without running twice.
RefusedNeverRuns ==
    \A r \in Reqs : result[r] = "brokenPipe" =>
        r \notin got /\ \A i \in DOMAIN stdin : stdin[i] # r

\* At any moment at most one party can still settle a started request: the map
\* entry, or the one thread that drained it and has not woken it yet.  A settled
\* or returned request is in neither, so `pending` does not leak either.
OneSettler ==
    /\ \A r \in pending : reply[r] = "open" /\ pc[r] \notin {"idle", "done"}
    /\ \A t \in Threads : \A r \in held[t] :
           /\ reply[r] = "open" /\ r \notin pending /\ pc[r] # "idle"
           /\ \A u \in Threads : r \in held[u] => u = t
    /\ \A r \in Reqs : pc[r] = "idle" => reply[r] = "open"

\* What a caller knows of its request once the call returned: a broken pipe says
\* that the frame was not written; a write timeout, a deadline, a cancel and a lost
\* connection leave open whether the host ran it.
FateOf(verdict) ==
    CASE verdict = "result"     -> "answered"
      [] verdict = "brokenPipe" -> "unwritten"
      [] OTHER                  -> "unknown"

Contract == INSTANCE RequestContract WITH
    fate <- [r \in Reqs |-> IF pc[r] = "idle" THEN "new"
                            ELSE IF pc[r] = "done" THEN FateOf(result[r]) ELSE "open"],
    served <- got

\* The client keeps the contract of a request: callers, writer, reader and closing
\* threads together implement the abstract specification, whichever of them, the
\* clock or the host gets to a request first.
KeepsContract == Contract!Spec

\* A caller never outlives its host: when the process is gone, every request
\* that was started returns, even one that has no deadline of its own.
DeathSettles ==
    \A r \in Reqs : (~alive /\ pc[r] # "idle") ~> pc[r] = "done"
=============================================================================
