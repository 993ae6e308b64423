------------------------- MODULE ClientAndTasksProofs -------------------------
(* Theorems about MspClient, for any number of callers and closers and any    *)
(* pipe capacity, and then about Tasks, for any set of tasks and any number   *)
(* of reports, host deaths and loads.                                         *)
EXTENDS MspClient, Tasks, TLAPS

USE ThreadsAssumption DEF Threads, Senders, Goto, SendFailed

\* Appending an element of S to a sequence over S gives a sequence over S (the
\* writer channel and the stdin pipe grow this way).
LEMMA AppendType ==
    ASSUME NEW S, NEW s \in Seq(S), NEW x \in S
    PROVE  Append(s, x) \in Seq(S)
OBVIOUS

\* Every variable keeps its type in every reachable state.
THEOREM TypeCorrect == Spec => []TypeOK
<1>1. Init => TypeOK
  BY DEF Init, TypeOK, Labels, CallerLabels, HasSender, DrainDue,
      Replies, Results
<1>2. TypeOK /\ [Next]_vars => TypeOK'
  <2> SUFFICES ASSUME TypeOK, [Next]_vars PROVE TypeOK'
    OBVIOUS
  <2> USE DEF TypeOK, Labels, CallerLabels, HasSender, DrainDue,
      Replies, Results
  <2>1. ASSUME NEW r \in Reqs,
               Register(r) \/ Settle(r) \/ ReplyTimeout(r) \/ Cancel(r)
        PROVE  TypeOK'
    <3>1. CASE Register(r)
      BY <3>1 DEF Register, writerVars, hostVars, eventVars
    <3>7. CASE Unregister(r)
      BY <3>7 DEF Unregister, writerVars, hostVars, eventVars
    <3>2. CASE Receive(r)
      BY <3>2 DEF Receive, writerVars, hostVars, eventVars
    <3>3. CASE Expire(r)
      BY <3>3 DEF Expire, writerVars, hostVars, eventVars
    <3>4. CASE ReplyTimeout(r)
      BY <3>4 DEF ReplyTimeout, callerVars, writerVars, hostVars, eventVars
    <3>5. CASE Cancel(r)
      BY <3>5 DEF Cancel, writerVars, hostVars, eventVars
    <3>8. QED
      BY <2>1, <3>1, <3>2, <3>3, <3>4, <3>5, <3>7 DEF Settle
  <2>2. ASSUME NEW t \in Senders, Send(t) \/ WriteTimeout(t) PROVE TypeOK'
    <3>1. CASE CloneSender(t)
      <4>1. CASE writer
        BY <3>1, <4>1 DEF CloneSender, writerVars, hostVars, eventVars
      <4>2. CASE ~writer
        BY ZenonT(40), <3>1, <4>2 DEF CloneSender, writerVars, hostVars, eventVars
      <4>3. QED
        BY <4>1, <4>2
    <3>2. CASE Enqueue(t)
      <4>1. CASE wstate = "stopped"
        BY ZenonT(40), <3>2, <4>1 DEF Enqueue, hostVars, eventVars
      <4>2. CASE wstate # "stopped"
        <5>1. wq' \in Seq(Senders)
          <6>1. wq \in Seq(Senders) /\ wq' = Append(wq, t)
            BY <3>2, <4>2 DEF Enqueue
          <6>2. QED
            BY <6>1, <2>2, AppendType
        <5>2. wresult' \in [Senders -> {"none", "ok", "err"}]
          BY <3>2, <4>2 DEF Enqueue
        <5>3. QED
          BY <3>2, <4>2, <5>1, <5>2 DEF Enqueue, hostVars, eventVars
      <4>3. QED
        BY <4>1, <4>2
    <3>3. CASE Written(t)
      <4>1. CASE wresult[t] = "ok"
        BY <3>3, <4>1 DEF Written, writerVars, hostVars, eventVars
      <4>2. CASE wresult[t] = "err"
        BY ZenonT(40), <3>3, <4>2 DEF Written, writerVars, hostVars, eventVars
      <4>3. QED
        BY <3>3, <4>1, <4>2 DEF Written
    <3>4. CASE Terminate(t)
      BY ZenonT(40), <3>4 DEF Terminate, writerVars, callerVars, eventVars
    <3>5. CASE RunHook(t)
      BY <3>5 DEF RunHook, writerVars, callerVars, eventVars
    <3>6. CASE WriteTimeout(t)
      BY <3>6 DEF WriteTimeout, writerVars, callerVars, hostVars, eventVars
    <3>7. QED
      BY <2>2, <3>1, <3>2, <3>3, <3>4, <3>5, <3>6 DEF Send
  <2>3. ASSUME NEW t \in Threads, Fail(t) PROVE TypeOK'
    <3>1. CASE TakeWriter(t)
      BY <3>1 DEF TakeWriter, AfterTake, callerVars, writerVars, hostVars, eventVars
    <3>2. CASE DrainPending(t)
      BY <3>2 DEF DrainPending, AfterDrain, writerVars, hostVars, eventVars
    <3>3. CASE WakeHeld(t)
      <4>1. /\ reply' \in [Reqs -> Replies]
            /\ held' \in [Threads -> SUBSET Reqs]
        BY <3>3 DEF WakeHeld
      <4>2. pc' \in [Threads -> Labels] /\ result' \in [Reqs -> Results]
        <5>1. CASE pc[t] = "wtSend"
          BY <3>3, <5>1 DEF WakeHeld
        <5>2. CASE pc[t] # "wtSend"
          BY <3>3, <5>2 DEF WakeHeld
        <5>3. QED
          BY <5>1, <5>2
      <4>3. QED
        BY <3>3, <4>1, <4>2 DEF WakeHeld, writerVars, hostVars, eventVars
    <3>4. CASE StopChild(t)
      BY <3>4 DEF StopChild, callerVars, writerVars, eventVars
    <3>5. QED
      BY <2>3, <3>1, <3>2, <3>3, <3>4 DEF Fail
  <2>4. CASE \E c \in Closers : StartClose(c)
    BY <2>4 DEF StartClose, callerVars, writerVars, hostVars, eventVars
  <2>5. CASE Writer
    <3>1. CASE WriterRecv
      BY <3>1 DEF WriterRecv, callerVars, hostVars, eventVars
    <3>2. CASE WriterWrite
      <4>1. stdin' \in Seq(Senders)
        <5>1. stdin \in Seq(Senders) /\ wcur \in Senders
          OBVIOUS
        <5>2. stdin' = Append(stdin, wcur) \/ stdin' = stdin
          BY <3>2 DEF WriterWrite
        <5>3. Append(stdin, wcur) \in Seq(Senders)
          BY <5>1, AppendType
        <5>4. QED
          BY <5>1, <5>2, <5>3
      <4>2. wresult' \in [Senders -> {"none", "ok", "err"}]
        BY <3>2 DEF WriterWrite
      <4>3. QED
        BY <3>2, <4>1, <4>2 DEF WriterWrite, callerVars, eventVars
    <3>3. CASE WriterDrain
      BY <3>3 DEF WriterDrain, FailQueued, callerVars, hostVars, eventVars
    <3>4. CASE WriterEnd
      BY <3>4 DEF WriterEnd, callerVars, hostVars, eventVars
    <3>5. QED
      BY <2>5, <3>1, <3>2, <3>3, <3>4 DEF Writer
  <2>6. CASE Read
    <3>1. CASE ReadFrame
      BY <3>1 DEF ReadFrame, Delivered, writerVars, OutFrames
    <3>2. CASE SendEvent \/ ReadEof \/ SendClosed
      BY <3>2 DEF SendEvent, ReadEof, SendClosed, callerVars, writerVars, hostVars,
                  eventVars
    <3>3. QED
      BY <2>6, <3>1, <3>2 DEF Read
  <2>7. CASE DropEvents
    BY <2>7 DEF DropEvents, callerVars, writerVars, hostVars
  <2>8. CASE Host
    <3>1. CASE HostRead
      BY <3>1 DEF HostRead, callerVars, writerVars, eventVars
    <3>2. CASE HostExit
      BY <3>2 DEF HostExit, callerVars, writerVars, eventVars
    <3>3. CASE \E r \in Reqs : HostAnswer(r)
      BY <3>3 DEF HostAnswer, OutFrames, callerVars, writerVars, eventVars
    <3>4. CASE \E k \in {"note", "ask", "noMethod", "stray", "tooLarge"} : HostEmit(k)
      BY <3>4 DEF HostEmit, OutFrames, callerVars, writerVars, eventVars
    <3>5. QED
      BY <2>8, <3>1, <3>2, <3>3, <3>4 DEF Host
  <2>9. CASE UNCHANGED vars
    BY <2>9 DEF vars, callerVars, writerVars, hostVars, eventVars
  <2>10. QED
    BY <2>1, <2>2, <2>3, <2>4, <2>5, <2>6, <2>7, <2>8, <2>9 DEF Next
<1>3. QED
  BY <1>1, <1>2, PTL DEF Spec
-----------------------------------------------------------------------------
\* While the writer is gone, a registered request past its sender lookup has a
\* drain coming (fail_pending and host_closed: take, then drain).
THEOREM NeverStranded == Spec => []NoStrandedWaiter
<1>1. Init => NoStrandedWaiter
  BY DEF Init, NoStrandedWaiter
<1>2. TypeOK /\ NoStrandedWaiter /\ [Next]_vars => NoStrandedWaiter'
  <2> SUFFICES ASSUME TypeOK, NoStrandedWaiter, [Next]_vars,
                      NEW r \in Reqs,
                      ~writer', r \in pending',
                      pc'[r] \in {"enqueue", "awaitWrite", "waiting"}
               PROVE  \E t \in Threads : pc'[t] \in DrainDue
    BY DEF NoStrandedWaiter
  <2> USE DEF TypeOK, DrainDue
  <2> DEFINE Underway == {"enqueue", "awaitWrite", "waiting"}
             Kept == /\ ~writer /\ r \in pending /\ pc[r] \in Underway
                     /\ \A u \in Threads : pc[u] \in DrainDue => pc'[u] \in DrainDue
  \* A step that keeps the hypotheses and every due drain keeps the conclusion.
  <2>1. Kept => \E t \in Threads : pc'[t] \in DrainDue
    BY DEF NoStrandedWaiter
  <2>2. ASSUME NEW q \in Reqs,
               Register(q) \/ Settle(q) \/ ReplyTimeout(q) \/ Cancel(q)
        PROVE  Kept
    <3>1. CASE Register(q)
      BY <3>1 DEF Register
    <3>2. CASE Unregister(q)
      BY <3>2 DEF Unregister
    <3>3. CASE Receive(q)
      BY <3>3 DEF Receive
    <3>4. CASE Expire(q)
      BY <3>4 DEF Expire
    <3>5. CASE ReplyTimeout(q)
      BY <3>5 DEF ReplyTimeout, callerVars
    <3>6. CASE Cancel(q)
      BY <3>6 DEF Cancel
    <3>7. QED
      BY <2>2, <3>1, <3>2, <3>3, <3>4, <3>5, <3>6 DEF Settle
  <2>3. ASSUME NEW t \in Senders, Send(t) \/ WriteTimeout(t) PROVE Kept
    <3>1. CASE CloneSender(t)
      BY <3>1 DEF CloneSender
    <3>2. CASE Enqueue(t)
      BY <3>2 DEF Enqueue
    <3>3. CASE Written(t)
      BY <3>3 DEF Written
    <3>4. CASE Terminate(t)
      BY <3>4 DEF Terminate, callerVars
    <3>5. CASE RunHook(t)
      BY <3>5 DEF RunHook, callerVars
    <3>6. CASE WriteTimeout(t)
      BY <3>6 DEF WriteTimeout, callerVars
    <3>7. QED
      BY <2>3, <3>1, <3>2, <3>3, <3>4, <3>5, <3>6 DEF Send
  \* Taking the writer makes a drain due.
  <2>4. ASSUME NEW t \in Threads, TakeWriter(t)
        PROVE  \E u \in Threads : pc'[u] \in DrainDue
    BY <2>4 DEF TakeWriter, AfterTake
  \* Draining leaves nothing registered.
  <2>5. ASSUME NEW t \in Threads, DrainPending(t) PROVE FALSE
    BY <2>5 DEF DrainPending
  <2>6. ASSUME NEW t \in Threads, WakeHeld(t) \/ StopChild(t) PROVE Kept
    BY <2>6 DEF WakeHeld, StopChild, callerVars
  <2>7. CASE \E c \in Closers : StartClose(c)
    <3>1. Kept
      BY <2>7 DEF StartClose, callerVars
    <3>2. QED
      BY <2>1, <3>1
  <2>8. CASE Writer \/ DropEvents \/ Host \/ UNCHANGED vars
    <3>1. UNCHANGED <<pc, pending, writer>>
      BY <2>8 DEF Writer, WriterRecv, WriterWrite, WriterDrain, WriterEnd, DropEvents,
                  Host, HostRead, HostExit, HostAnswer, HostEmit, vars, callerVars
    <3>2. QED
      BY <2>1, <3>1
  <2>9. CASE Read
    <3>1. Kept
      BY <2>9 DEF Read, ReadFrame, Delivered, SendEvent, ReadEof, SendClosed, callerVars
    <3>2. QED
      BY <2>1, <3>1
  <2>10. QED
    BY <2>1, <2>2, <2>3, <2>4, <2>5, <2>6, <2>7, <2>8, <2>9 DEF Next, Fail
<1>3. QED
  BY <1>1, <1>2, TypeCorrect, PTL DEF Spec
-----------------------------------------------------------------------------
\* A caller thread never runs close(), host_closed or the reader loop.
CallersStayCallers == \A r \in Reqs : pc[r] \in CallerLabels

\* Every step of a caller leads to a label of a caller.
LEMMA CallerRoles == Spec => []CallersStayCallers
<1>1. Init => CallersStayCallers
  BY DEF Init, CallersStayCallers, CallerLabels
<1>2. TypeOK /\ CallersStayCallers /\ [Next]_vars => CallersStayCallers'
  <2> SUFFICES ASSUME TypeOK, CallersStayCallers, [Next]_vars, NEW r \in Reqs
               PROVE  pc'[r] \in CallerLabels
    BY DEF CallersStayCallers
  <2>1. pc \in [Threads -> Labels] /\ pc[r] \in CallerLabels
    BY DEF TypeOK, CallersStayCallers
  <2> USE DEF CallerLabels, HasSender
  <2>2. ASSUME NEW q \in Reqs,
               Register(q) \/ Settle(q) \/ ReplyTimeout(q) \/ Cancel(q)
        PROVE  pc'[r] \in CallerLabels
    BY <2>1, <2>2 DEF Register, Settle, Unregister, Receive, Expire, ReplyTimeout, Cancel
  <2>3. ASSUME NEW t \in Senders, Send(t) \/ WriteTimeout(t)
        PROVE  pc'[r] \in CallerLabels
    BY <2>1, <2>3 DEF Send, CloneSender, Enqueue, Written, Terminate, RunHook,
                      WriteTimeout
  <2>4. ASSUME NEW t \in Threads, Fail(t) PROVE pc'[r] \in CallerLabels
    BY <2>1, <2>4 DEF Fail, TakeWriter, AfterTake, DrainPending, AfterDrain, WakeHeld,
                      StopChild
  <2>5. CASE \E c \in Closers : StartClose(c)
    BY <2>1, <2>5 DEF StartClose
  <2>6. CASE Read
    BY <2>1, <2>6 DEF Read, ReadFrame, Delivered, SendEvent, ReadEof, SendClosed
  <2>7. CASE Writer \/ DropEvents \/ Host \/ UNCHANGED vars
    BY <2>1, <2>7 DEF Writer, WriterRecv, WriterWrite, WriterDrain, WriterEnd,
                      DropEvents, Host, HostRead, HostExit, HostAnswer, HostEmit, vars
  <2>8. QED
    BY <2>2, <2>3, <2>4, <2>5, <2>6, <2>7 DEF Next
<1>3. QED
  BY <1>1, <1>2, TypeCorrect, PTL DEF Spec

\* Every registered or drained request has exactly one party left to settle it.
THEOREM OneSettlerHolds == Spec => []OneSettler
<1>1. Init => OneSettler
  BY DEF Init, OneSettler
<1>2. TypeOK /\ CallersStayCallers /\ OneSettler /\ [Next]_vars => OneSettler'
  <2> SUFFICES ASSUME TypeOK, CallersStayCallers, OneSettler, [Next]_vars
               PROVE  OneSettler'
    OBVIOUS
  <2> USE DEF TypeOK, OneSettler
  <2>1. ASSUME NEW q \in Reqs,
               Register(q) \/ Settle(q) \/ ReplyTimeout(q) \/ Cancel(q)
        PROVE  OneSettler'
    <3>1. CASE Register(q)
      BY <3>1 DEF Register
    <3>2. CASE Unregister(q)
      BY <3>2 DEF Unregister
    <3>3. CASE Receive(q)
      BY <3>3 DEF Receive
    <3>4. CASE Expire(q)
      BY <3>4 DEF Expire
    <3>5. CASE ReplyTimeout(q)
      BY <3>5 DEF ReplyTimeout, callerVars
    <3>6. CASE Cancel(q)
      BY <3>6 DEF Cancel
    <3>7. QED
      BY <2>1, <3>1, <3>2, <3>3, <3>4, <3>5, <3>6 DEF Settle
  <2>2. ASSUME NEW t \in Senders, Send(t) \/ WriteTimeout(t) PROVE OneSettler'
    <3>1. CASE CloneSender(t)
      BY <3>1 DEF CloneSender
    <3>2. CASE Enqueue(t)
      BY <3>2 DEF Enqueue
    <3>3. CASE Written(t)
      BY <3>3 DEF Written
    <3>4. CASE Terminate(t)
      BY <3>4 DEF Terminate, callerVars
    <3>5. CASE RunHook(t)
      BY <3>5 DEF RunHook, callerVars
    <3>6. CASE WriteTimeout(t)
      BY <3>6 DEF WriteTimeout, callerVars
    <3>7. QED
      BY <2>2, <3>1, <3>2, <3>3, <3>4, <3>5, <3>6 DEF Send
  <2>3. ASSUME NEW t \in Threads, Fail(t) PROVE OneSettler'
    \* No thread that fails waiters is an idle caller, before or after the step.
    <3>1. CASE TakeWriter(t)
      <4>1. \A r \in Reqs : pc'[r] \in {"idle", "done"} => pc[r] = pc'[r]
        BY <3>1 DEF TakeWriter, AfterTake
      <4>2. \A r \in Reqs : pc[r] = "idle" => pc'[r] = "idle"
        BY <3>1 DEF TakeWriter
      <4>3. UNCHANGED <<pending, reply, held>>
        BY <3>1 DEF TakeWriter, callerVars
      <4>4. QED
        BY <4>1, <4>2, <4>3
    <3>2. CASE DrainPending(t)
      <4>1. /\ pending' = {}
            /\ \A r \in Reqs : pc'[r] = "idle" => pc[r] = "idle"
        BY <3>2 DEF DrainPending, AfterDrain
      <4>2. /\ reply' = reply
            /\ \A u \in Threads : held'[u] = IF u = t THEN pending ELSE held[u]
        BY <3>2 DEF DrainPending
      <4>3. QED
        BY <4>1, <4>2
    <3>3. CASE WakeHeld(t)
      <4>1. /\ pending' = pending
            /\ \A r \in Reqs : r \notin held[t] => reply'[r] = reply[r]
            /\ \A u \in Threads : held'[u] = IF u = t THEN {} ELSE held[u]
        BY <3>3 DEF WakeHeld
      <4>2. ASSUME NEW r \in Reqs, pc'[r] \in {"idle", "done"}
            PROVE  pc[r] = pc'[r]
        <5>1. CASE r # t
          BY <3>3, <5>1 DEF WakeHeld
        <5>2. CASE r = t
          <6>1. pc[t] = "wtSend"
            BY <3>3, <5>2 DEF WakeHeld, CallersStayCallers, CallerLabels, HasSender
          <6>2. QED
            BY <3>3, <4>2, <5>2, <6>1 DEF WakeHeld
        <5>3. QED
          BY <5>1, <5>2
      <4>3. QED
        BY <4>1, <4>2
    <3>4. CASE StopChild(t)
      BY <3>4 DEF StopChild, callerVars, CallersStayCallers, CallerLabels, HasSender
    <3>5. QED
      BY <2>3, <3>1, <3>2, <3>3, <3>4 DEF Fail
  <2>4. CASE \E c \in Closers : StartClose(c)
    BY <2>4 DEF StartClose, callerVars
  <2>5. CASE Read
    <3>1. CASE ReadFrame
      <4>1. pending' \subseteq pending /\ held' = held
        BY <3>1 DEF ReadFrame, Delivered
      <4>2. \A r \in Reqs : pc'[r] = pc[r]
        BY <3>1 DEF ReadFrame, Delivered
      <4>3. \A r \in Reqs : reply'[r] # reply[r] => r \in pending /\ r \notin pending'
        BY <3>1 DEF ReadFrame, Delivered
      <4>4. QED
        BY <4>1, <4>2, <4>3
    <3>2. CASE SendEvent \/ ReadEof \/ SendClosed
      BY <3>2 DEF SendEvent, ReadEof, SendClosed, callerVars
    <3>3. QED
      BY <2>5, <3>1, <3>2 DEF Read
  <2>6. CASE Writer \/ DropEvents \/ Host \/ UNCHANGED vars
    <3>1. UNCHANGED <<pc, pending, reply, held>>
      BY <2>6 DEF Writer, WriterRecv, WriterWrite, WriterDrain, WriterEnd, DropEvents,
                  Host, HostRead, HostExit, HostAnswer, HostEmit, vars, callerVars
    <3>2. QED
      BY <3>1
  <2>7. QED
    BY <2>1, <2>2, <2>3, <2>4, <2>5, <2>6 DEF Next
<1>3. QED
  BY <1>1, <1>2, TypeCorrect, CallerRoles, PTL DEF Spec

\* A reply channel is settled at most once, whichever of the response, cancel,
\* and the drains come in whichever order.
THEOREM RepliesSettleOnce == Spec => SettlesOnce
<1>1. TypeOK /\ OneSettler /\ [Next]_vars
        => [\A r \in Reqs : reply[r] # "open" => reply'[r] = reply[r]]_vars
  <2> SUFFICES ASSUME TypeOK, OneSettler, [Next]_vars,
                      NEW r \in Reqs, reply[r] # "open"
               PROVE  reply'[r] = reply[r]
    OBVIOUS
  <2> USE DEF TypeOK, OneSettler
  <2>1. r \notin pending /\ \A t \in Threads : r \notin held[t]
    OBVIOUS
  <2>2. ASSUME NEW q \in Reqs,
               Register(q) \/ Settle(q) \/ ReplyTimeout(q) \/ Cancel(q)
        PROVE  reply'[r] = reply[r]
    BY <2>1, <2>2 DEF Register, Settle, Unregister, Receive, Expire, ReplyTimeout,
                      Cancel, callerVars
  <2>3. ASSUME NEW t \in Senders, Send(t) \/ WriteTimeout(t)
        PROVE  reply'[r] = reply[r]
    BY <2>3 DEF Send, CloneSender, Enqueue, Written, Terminate, RunHook,
                WriteTimeout, callerVars
  <2>4. ASSUME NEW t \in Threads, Fail(t) PROVE reply'[r] = reply[r]
    BY <2>1, <2>4 DEF Fail, TakeWriter, DrainPending, WakeHeld, StopChild, callerVars
  <2>5. CASE \E c \in Closers : StartClose(c)
    BY <2>5 DEF StartClose, callerVars
  <2>6. CASE Read
    BY <2>1, <2>6 DEF Read, ReadFrame, Delivered, SendEvent, ReadEof, SendClosed, callerVars
  <2>7. CASE Writer \/ DropEvents \/ Host \/ UNCHANGED vars
    BY <2>7 DEF Writer, WriterRecv, WriterWrite, WriterDrain, WriterEnd, DropEvents,
                Host, HostRead, HostExit, HostAnswer, HostEmit, vars, callerVars
  <2>8. QED
    BY <2>2, <2>3, <2>4, <2>5, <2>6, <2>7 DEF Next
<1>2. QED
  BY <1>1, TypeCorrect, OneSettlerHolds, PTL DEF Spec, SettlesOnce
-----------------------------------------------------------------------------
\* Strengthening for NoLateDelivery: past terminate() the host is dead, or the
\* thread that took the terminate hook is about to call it.
TerminatedIsDead ==
    /\ end = "taken" => ~alive \/ HookRunning
    /\ \A t \in Threads : pc[t] \in {"wtDrain", "wtSend"} => ~alive \/ HookRunning
    /\ \A r \in Reqs : result[r] = "writeTimeout" => ~alive \/ HookRunning

\* A write timeout is reported only after the process was killed, or the hook of
\* the custom transport taken.
LEMMA TerminateKills == Spec => []TerminatedIsDead
<1>1. Init => TerminatedIsDead
  BY DEF Init, TerminatedIsDead
<1>2. TypeOK /\ TerminatedIsDead /\ [Next]_vars => TerminatedIsDead'
  <2> SUFFICES ASSUME TypeOK, TerminatedIsDead, [Next]_vars PROVE TerminatedIsDead'
    OBVIOUS
  <2>1. /\ pc \in [Threads -> Labels]
        /\ result \in [Reqs -> Results] /\ reply \in [Reqs -> Replies]
    BY DEF TypeOK
  <2> USE DEF TerminatedIsDead, HookRunning, Replies
  <2>2. ASSUME NEW q \in Reqs,
               Register(q) \/ Settle(q) \/ ReplyTimeout(q) \/ Cancel(q)
        PROVE  TerminatedIsDead'
    BY <2>1, <2>2 DEF Register, Settle, Unregister, Receive, Expire, ReplyTimeout,
                      Cancel, callerVars, hostVars
  <2>3. ASSUME NEW t \in Senders, Send(t) \/ WriteTimeout(t) PROVE TerminatedIsDead'
    <3>1. CASE CloneSender(t)
      BY <2>1, <3>1 DEF CloneSender, hostVars
    <3>2. CASE Enqueue(t)
      BY <2>1, <3>2 DEF Enqueue, hostVars
    <3>3. CASE Written(t)
      BY <2>1, <3>3 DEF Written, hostVars
    <3>4. CASE Terminate(t)
      BY <2>1, <3>4 DEF Terminate, callerVars
    <3>5. CASE RunHook(t)
      BY <3>5 DEF RunHook
    <3>6. CASE WriteTimeout(t)
      BY <2>1, <3>6 DEF WriteTimeout, callerVars, hostVars
    <3>7. QED
      BY <2>3, <3>1, <3>2, <3>3, <3>4, <3>5, <3>6 DEF Send
  <2>4. ASSUME NEW t \in Threads, Fail(t) PROVE TerminatedIsDead'
    <3>1. CASE TakeWriter(t)
      BY <2>1, <3>1 DEF TakeWriter, AfterTake, callerVars, hostVars
    <3>2. CASE DrainPending(t)
      BY <2>1, <3>2 DEF DrainPending, AfterDrain, hostVars
    <3>3. CASE WakeHeld(t)
      BY <2>1, <3>3 DEF WakeHeld, hostVars
    <3>4. CASE StopChild(t)
      BY <2>1, <3>4 DEF StopChild, callerVars
    <3>5. QED
      BY <2>4, <3>1, <3>2, <3>3, <3>4 DEF Fail
  <2>5. CASE \E c \in Closers : StartClose(c)
    BY <2>1, <2>5 DEF StartClose, callerVars, hostVars
  <2>6. CASE Read
    BY <2>1, <2>6 DEF Read, ReadFrame, Delivered, SendEvent, ReadEof, SendClosed, callerVars,
                      hostVars
  <2>7. CASE Writer \/ DropEvents \/ Host \/ UNCHANGED vars
    <3>1. CASE HostExit
      BY <3>1 DEF HostExit
    <3>2. CASE ~HostExit
      <4>1. UNCHANGED <<pc, result, alive, end>>
        BY <2>7, <3>2 DEF Writer, WriterRecv, WriterWrite, WriterDrain, WriterEnd,
           DropEvents, Host, HostRead, HostAnswer, HostEmit, vars, callerVars, hostVars
      <4>2. QED
        BY <4>1
    <3>3. QED
      BY <3>1, <3>2
  <2>8. QED
    BY <2>2, <2>3, <2>4, <2>5, <2>6, <2>7 DEF Next
<1>3. QED
  BY <1>1, <1>2, TypeCorrect, PTL DEF Spec

\* A command whose write timed out never runs after its caller was told so,
\* unless a thread has yet to call the hook that ends a custom transport.
THEOREM NoLateDeliveryHolds == Spec => NoLateDelivery
<1>1. TerminatedIsDead /\ [Next]_vars
        => [\A r \in Reqs : (pc[r] = "done" /\ result[r] = "writeTimeout" /\ r \in got')
                               => r \in got \/ HookRunning]_vars
  <2> SUFFICES ASSUME TerminatedIsDead, [Next]_vars, NEW r \in Reqs,
                      result[r] = "writeTimeout", ~HookRunning
               PROVE  got' = got
    OBVIOUS
  <2>1. ~HostRead
    BY DEF HostRead, TerminatedIsDead
  <2>2. QED
    BY <2>1 DEF Next, Register, Settle, Unregister, Receive, Expire, ReplyTimeout,
         Cancel, Send, CloneSender, Enqueue, Written, Terminate, RunHook, WriteTimeout,
         Fail, TakeWriter, DrainPending, WakeHeld, StopChild, StartClose,
         Writer, WriterRecv, WriterWrite, WriterDrain, WriterEnd, DropEvents,
         Read, ReadFrame, Delivered, SendEvent, ReadEof, SendClosed,
         Host, HostExit, HostAnswer, HostEmit, vars, hostVars
<1>2. QED
  BY <1>1, TerminateKills, PTL DEF Spec, NoLateDelivery
-----------------------------------------------------------------------------
\* Where the frame of a request is: queued for the writer thread, in its hand, in
\* the pipe, or with the host.
Among(q, x) == \E i \in DOMAIN q : q[i] = x
Once(q, x) == \A i, j \in DOMAIN q : q[i] = x /\ q[j] = x => i = j
InHand(r) == wstate = "writing" /\ wcur = r
Away(r) == Among(stdin, r) \/ r \in got
Nowhere(r) == ~Among(wq, r) /\ ~InHand(r) /\ ~Away(r)

\* Strengthening for RefusedNeverRuns: a frame is in one place, once, and the
\* writer reports an error only for a frame it will never write.
OneFrame ==
    /\ \A r \in Reqs : pc[r] \in {"idle", "send", "enqueue"} => Nowhere(r)
    /\ \A r \in Reqs : pc[r] = "awaitWrite" /\ wresult[r] = "err" => Nowhere(r)
    /\ \A r \in Reqs : result[r] = "brokenPipe" => Nowhere(r) /\ pc[r] \in {"failed", "done"}
    /\ \A r \in Reqs : Among(wq, r) => ~InHand(r)
    /\ \A r \in Reqs : Among(wq, r) \/ InHand(r) => ~Away(r)
    /\ \A r \in Reqs : Once(wq, r)

\* A result is one the host gave: it has read the request of every response.
RealAnswers ==
    /\ answered \subseteq got
    /\ \A i \in DOMAIN stdout : stdout[i].kind = "resp" => stdout[i].id \in got
    /\ \A r \in Reqs : reply[r] = "result" \/ result[r] = "result" => r \in got
LEMMA AmongAppend ==
    ASSUME NEW S, NEW s \in Seq(S), NEW x \in S, NEW y
    PROVE  Among(Append(s, x), y) <=> Among(s, y) \/ y = x
<1>1. /\ Len(Append(s, x)) = Len(s) + 1 /\ Len(s) \in Nat
      /\ DOMAIN Append(s, x) = 1 .. Len(s) + 1 /\ DOMAIN s = 1 .. Len(s)
      /\ \A i \in 1 .. Len(s) : Append(s, x)[i] = s[i]
      /\ Append(s, x)[Len(s) + 1] = x
  OBVIOUS
<1>2. QED
  BY <1>1 DEF Among

LEMMA AmongTail ==
    ASSUME NEW S, NEW s \in Seq(S), s # <<>>, NEW y
    PROVE  /\ Among(s, y) <=> Among(Tail(s), y) \/ y = Head(s)
           /\ Tail(s) \in Seq(S) /\ Head(s) \in S
<1>1. /\ Len(s) \in Nat /\ Len(s) > 0 /\ DOMAIN s = 1 .. Len(s)
      /\ Tail(s) \in Seq(S) /\ Len(Tail(s)) = Len(s) - 1
      /\ DOMAIN Tail(s) = 1 .. Len(s) - 1
      /\ \A i \in 1 .. Len(s) - 1 : Tail(s)[i] = s[i + 1]
      /\ Head(s) = s[1] /\ Head(s) \in S
  OBVIOUS
<1>2. Among(s, y) => Among(Tail(s), y) \/ y = Head(s)
  <2> SUFFICES ASSUME NEW i \in 1 .. Len(s), s[i] = y, i # 1 PROVE Among(Tail(s), y)
    BY <1>1 DEF Among
  <2>1. i - 1 \in 1 .. Len(s) - 1 /\ Tail(s)[i - 1] = s[i]
    BY <1>1
  <2>2. QED
    BY <1>1, <2>1 DEF Among
<1>3. Among(Tail(s), y) => Among(s, y)
  <2> SUFFICES ASSUME NEW i \in 1 .. Len(s) - 1, s[i + 1] = y PROVE Among(s, y)
    BY <1>1 DEF Among
  <2>1. i + 1 \in DOMAIN s
    BY <1>1
  <2>2. QED
    BY <2>1 DEF Among
<1>4. Among(s, Head(s))
  BY <1>1 DEF Among
<1>5. QED
  BY <1>1, <1>2, <1>3, <1>4
LEMMA OnceAppend ==
    ASSUME NEW S, NEW s \in Seq(S), NEW x \in S, NEW y, Once(s, y), x = y => ~Among(s, y)
    PROVE  Once(Append(s, x), y)
<1>1. /\ Len(s) \in Nat /\ DOMAIN s = 1 .. Len(s)
      /\ DOMAIN Append(s, x) = 1 .. Len(s) + 1
      /\ \A i \in 1 .. Len(s) : Append(s, x)[i] = s[i]
      /\ Append(s, x)[Len(s) + 1] = x
  OBVIOUS
<1>2. QED
  BY <1>1 DEF Once, Among

LEMMA OnceTail ==
    ASSUME NEW S, NEW s \in Seq(S), s # <<>>, NEW y, Once(s, y)
    PROVE  /\ Once(Tail(s), y)
           /\ y = Head(s) => ~Among(Tail(s), y)
<1>1. /\ Len(s) \in Nat /\ Len(s) > 0 /\ DOMAIN s = 1 .. Len(s)
      /\ DOMAIN Tail(s) = 1 .. Len(s) - 1
      /\ \A i \in 1 .. Len(s) - 1 : Tail(s)[i] = s[i + 1]
      /\ Head(s) = s[1]
  OBVIOUS
<1>2. \A i \in 1 .. Len(s) - 1 : i + 1 \in DOMAIN s /\ 1 \in DOMAIN s
  BY <1>1
<1>3. Once(Tail(s), y)
  <2> SUFFICES ASSUME NEW i \in 1 .. Len(s) - 1, NEW j \in 1 .. Len(s) - 1,
                      s[i + 1] = y, s[j + 1] = y
               PROVE  i = j
    BY <1>1 DEF Once
  <2>1. i + 1 = j + 1
    BY <1>2 DEF Once
  <2>2. QED
    BY <2>1
<1>4. ASSUME y = Head(s), NEW i \in 1 .. Len(s) - 1, s[i + 1] = y PROVE FALSE
  <2>1. i + 1 = 1
    BY <1>1, <1>2, <1>4 DEF Once
  <2>2. QED
    BY <2>1
<1>5. QED
  BY <1>1, <1>3, <1>4 DEF Among

LEMMA FrameInOnePlace == Spec => []OneFrame
<1>1. Init => OneFrame
  BY DEF Init, OneFrame, Nowhere, Among, Once, InHand, Away
<1>2. TypeOK /\ OneFrame /\ [Next]_vars => OneFrame'
  <2> SUFFICES ASSUME TypeOK, OneFrame, [Next]_vars PROVE OneFrame'
    OBVIOUS
  <2> USE DEF OneFrame, Nowhere, InHand, Away
  <2>1. /\ pc \in [Threads -> Labels] /\ result \in [Reqs -> Results]
        /\ wq \in Seq(Senders) /\ stdin \in Seq(Senders) /\ wcur \in Senders
        /\ wresult \in [Senders -> {"none", "ok", "err"}] /\ reply \in [Reqs -> Replies]
    BY DEF TypeOK
  <2>2. ASSUME NEW q \in Reqs,
               Register(q) \/ Settle(q) \/ ReplyTimeout(q) \/ Cancel(q)
        PROVE  OneFrame'
    BY <2>1, <2>2 DEF Register, Settle, Unregister, Receive, Expire, ReplyTimeout,
         Cancel, callerVars, writerVars, hostVars, Among, Once, Replies
  <2>3. ASSUME NEW t \in Senders, Send(t) \/ WriteTimeout(t) PROVE OneFrame'
    <3>1. CASE CloneSender(t)
      BY <2>1, <3>1 DEF CloneSender, writerVars, hostVars, Among, Once
    <3>2. CASE Enqueue(t)
      <4>1. CASE wstate = "stopped"
        BY <2>1, <3>2, <4>1 DEF Enqueue, writerVars, hostVars, Among, Once
      <4>2. CASE wstate # "stopped"
        <5>1. /\ wq' = Append(wq, t) /\ UNCHANGED <<wstate, wcur, stdin, got, result>>
              /\ wresult' = [wresult EXCEPT ![t] = "none"]
              /\ pc[t] = "enqueue" /\ pc' = [pc EXCEPT ![t] = "awaitWrite"]
          BY <3>2, <4>2 DEF Enqueue, hostVars
        <5>2. \A r \in Reqs : (Among(wq', r) <=> Among(wq, r) \/ r = t) /\ Once(wq', r)
          BY <2>1, <5>1, AmongAppend, OnceAppend
        <5>3. \A r \in Reqs : Among(stdin', r) <=> Among(stdin, r)
          BY <5>1
        <5>4. QED
          BY <2>1, <5>1, <5>2, <5>3
      <4>3. QED
        BY <4>1, <4>2
    <3>3. CASE Written(t)
      BY SMTT(30), <2>1, <3>3 DEF Written, writerVars, hostVars, Among, Once
    <3>4. CASE Terminate(t) \/ RunHook(t) \/ WriteTimeout(t)
      <4>1. UNCHANGED <<result, wq, wstate, wcur, wresult, stdin, got>>
        BY <3>4 DEF Terminate, RunHook, WriteTimeout, callerVars, writerVars, hostVars
      <4>2. \A r \in Reqs : /\ pc'[r] # pc[r] => pc'[r] \in {"wtTake", "wtHook", "wtDrain"}
                            /\ pc[r] \in {"failed", "done"} => pc'[r] = pc[r]
        BY <2>1, <3>4 DEF Terminate, RunHook, WriteTimeout
      <4>3. QED
        BY <2>1, <4>1, <4>2
    <3>5. QED
      BY <2>3, <3>1, <3>2, <3>3, <3>4 DEF Send
  <2>4. ASSUME NEW t \in Threads, Fail(t) PROVE OneFrame'
    <3>1. UNCHANGED <<wq, wstate, wcur, wresult, stdin, got>>
      BY <2>4 DEF Fail, TakeWriter, DrainPending, WakeHeld, StopChild, writerVars, hostVars
    <3>2. \A r \in Reqs : pc'[r] \in {"idle", "send", "enqueue", "awaitWrite"} => pc[r] = pc'[r]
      BY <2>1, <2>4 DEF Fail, TakeWriter, AfterTake, DrainPending, AfterDrain, WakeHeld, StopChild
    <3>3. \A r \in Reqs : /\ result'[r] = "brokenPipe" => result[r] = "brokenPipe"
                          /\ pc[r] \in {"failed", "done"} => pc'[r] = pc[r]
      BY <2>1, <2>4 DEF Fail, TakeWriter, AfterTake, DrainPending, WakeHeld, StopChild,
                        callerVars
    <3>4. QED
      BY <2>1, <3>1, <3>2, <3>3
  <2>5. CASE \E c \in Closers : StartClose(c)
    BY <2>1, <2>5 DEF StartClose, callerVars, writerVars, hostVars, Among, Once
  <2>6. CASE Writer
    <3>1. UNCHANGED <<pc, result, got>>
      BY <2>6 DEF Writer, WriterRecv, WriterWrite, WriterDrain, WriterEnd, callerVars, hostVars
    <3>2. CASE WriterRecv
      <4>1. /\ wq # <<>> /\ wcur' = Head(wq) /\ wq' = Tail(wq) /\ wstate = "recv"
            /\ wstate' = "writing" /\ UNCHANGED <<wresult, stdin>>
        BY <3>2 DEF WriterRecv, hostVars
      <4>2. \A r \in Reqs : /\ Among(wq, r) <=> Among(wq', r) \/ r = wcur'
                            /\ Once(wq', r) /\ (r = wcur' => ~Among(wq', r))
        BY <2>1, <4>1, AmongTail, OnceTail
      <4>3. QED
        BY <3>1, <4>1, <4>2
    <3>3. CASE WriterWrite
      <4>1. /\ wstate = "writing" /\ wstate' # "writing" /\ UNCHANGED <<wq, wcur>>
            /\ \A r \in Reqs : r # wcur => wresult'[r] = wresult[r]
        BY <2>1, <3>3 DEF WriterWrite
      <4>2. CASE alive
        <5>1. stdin' = Append(stdin, wcur) /\ wresult' = [wresult EXCEPT ![wcur] = "ok"]
          BY <3>3, <4>2 DEF WriterWrite
        <5>2. \A r \in Reqs : Among(stdin', r) <=> Among(stdin, r) \/ r = wcur
          BY <2>1, <5>1, AmongAppend
        <5>3. QED
          BY <2>1, <3>1, <4>1, <5>1, <5>2
      <4>3. CASE ~alive
        <5>1. stdin' = stdin /\ wresult' = [wresult EXCEPT ![wcur] = "err"]
          BY <3>3, <4>3 DEF WriterWrite
        <5>2. QED
          BY <2>1, <3>1, <4>1, <5>1
      <4>4. QED
        BY <2>1, <4>2, <4>3 DEF TypeOK
    <3>4. CASE WriterDrain
      <4>1. /\ wstate # "writing" /\ wstate' # "writing" /\ wq' = <<>> /\ UNCHANGED <<wcur, stdin>>
            /\ \A r \in Reqs : wresult'[r] = IF Among(wq, r) THEN "err" ELSE wresult[r]
        BY <2>1, <3>4 DEF WriterDrain, FailQueued, Among, hostVars
      <4>2. \A r \in Reqs : ~Among(wq', r) /\ Once(wq', r)
        BY <4>1 DEF Among, Once
      <4>3. QED
        BY <2>1, <3>1, <4>1, <4>2
    <3>5. CASE WriterEnd
      BY <3>1, <3>5 DEF WriterEnd, hostVars, Among, Once
    <3>6. QED
      BY <2>6, <3>2, <3>3, <3>4, <3>5 DEF Writer
  <2>7. CASE HostRead
    <3>1. /\ stdin # <<>> /\ stdin' = Tail(stdin) /\ got' = got \cup ({Head(stdin)} \cap Reqs)
          /\ UNCHANGED <<pc, result, wq, wstate, wcur, wresult>>
      BY <2>7 DEF HostRead, callerVars, writerVars
    <3>2. \A r \in Reqs : Among(stdin, r) <=> Among(stdin', r) \/ r = Head(stdin)
      BY <2>1, <3>1, AmongTail
    <3>3. \A r \in Reqs : Away(r)' <=> Away(r)
      BY <3>1, <3>2
    <3>4. \A r \in Reqs : /\ Among(wq', r) <=> Among(wq, r)
                          /\ InHand(r)' <=> InHand(r)
                          /\ Once(wq', r) <=> Once(wq, r)
      BY <3>1
    <3>5. QED
      BY <3>1, <3>3, <3>4
  <2>8. CASE Read \/ DropEvents \/ UNCHANGED vars \/ (Host /\ ~HostRead)
    <3>1. UNCHANGED <<result, wq, wstate, wcur, wresult, stdin, got>>
      BY <2>8 DEF Read, ReadFrame, Delivered, SendEvent, ReadEof, SendClosed, DropEvents, vars,
                  Host, HostExit, HostAnswer, HostEmit, callerVars, writerVars, hostVars
    <3>2. \A r \in Reqs : pc'[r] = pc[r]
      BY <2>1, <2>8 DEF Read, ReadFrame, Delivered, SendEvent, ReadEof, SendClosed, DropEvents,
                  vars, Host, HostExit, HostAnswer, HostEmit
    <3>3. QED
      BY <2>1, <3>1, <3>2
  <2>9. QED
    BY <2>2, <2>3, <2>4, <2>5, <2>6, <2>7, <2>8 DEF Next, Host
<1>3. QED
  BY <1>1, <1>2, TypeCorrect, PTL DEF Spec

\* A request reported as not written was not read by the host and is not on the
\* way to it, whatever the writer thread, the clock and the host do.
THEOREM RefusedNeverRunsHolds == Spec => []RefusedNeverRuns
<1>1. OneFrame => RefusedNeverRuns
  BY DEF OneFrame, Nowhere, Away, Among, RefusedNeverRuns
<1>2. QED
  BY <1>1, FrameInOnePlace, PTL
-----------------------------------------------------------------------------
(* The contract of a request, step by step.                                 *)

LEMMA AnswersAreReal == Spec => []RealAnswers
<1>1. Init => RealAnswers
  BY DEF Init, RealAnswers
<1>2. TypeOK /\ RealAnswers /\ [Next]_vars => RealAnswers'
  <2> SUFFICES ASSUME TypeOK, RealAnswers, [Next]_vars PROVE RealAnswers'
    OBVIOUS
  <2> USE DEF RealAnswers
  <2>1. /\ reply \in [Reqs -> Replies] /\ result \in [Reqs -> Results]
        /\ stdout \in Seq(OutFrames) /\ got \subseteq Reqs /\ pending \subseteq Reqs
    BY DEF TypeOK
  <2>2. ASSUME NEW q \in Reqs,
               Register(q) \/ Settle(q) \/ ReplyTimeout(q) \/ Cancel(q)
        PROVE  RealAnswers'
    <3>1. UNCHANGED <<stdout, got, answered>>
      BY <2>2 DEF Register, Settle, Unregister, Receive, Expire, ReplyTimeout, Cancel,
                  callerVars, hostVars
    <3>2. \A r \in Reqs : /\ reply'[r] = "result" => reply[r] = "result"
                          /\ result'[r] = "result" => result[r] = "result" \/ reply[r] = "result"
      BY <2>1, <2>2 DEF Register, Settle, Unregister, Receive, Expire, ReplyTimeout, Cancel,
                        callerVars
    <3>3. QED
      BY <3>1, <3>2
  <2>3. CASE \/ \E t \in Threads : Fail(t)
             \/ \E t \in Senders : Send(t) \/ WriteTimeout(t)
    <3>1. UNCHANGED <<stdout, got, answered>>
      BY <2>3 DEF Fail, TakeWriter, DrainPending, WakeHeld, StopChild, Send, CloneSender,
                  Enqueue, Written, Terminate, RunHook, WriteTimeout, callerVars, hostVars
    <3>2. \A r \in Reqs : reply'[r] = "result" => reply[r] = "result"
      BY <2>1, <2>3 DEF Fail, TakeWriter, DrainPending, WakeHeld, StopChild, Send, CloneSender,
                        Enqueue, Written, Terminate, RunHook, WriteTimeout, callerVars
    <3>3. \A r \in Reqs : result'[r] = "result" => result[r] = "result"
      BY <2>1, <2>3 DEF Fail, TakeWriter, DrainPending, WakeHeld, StopChild, Send, CloneSender,
                        Enqueue, Written, Terminate, RunHook, WriteTimeout, callerVars
    <3>4. QED
      BY <3>1, <3>2, <3>3
  <2>4. CASE ReadFrame
    <3>1. /\ stdout # <<>> /\ stdout' = Tail(stdout) /\ UNCHANGED <<result, got, answered>>
      BY <2>4 DEF ReadFrame
    <3>2. /\ Len(stdout) \in Nat /\ Len(stdout) > 0 /\ DOMAIN stdout = 1 .. Len(stdout)
          /\ DOMAIN Tail(stdout) = 1 .. Len(stdout) - 1 /\ Head(stdout) = stdout[1]
          /\ \A i \in 1 .. Len(stdout) - 1 : Tail(stdout)[i] = stdout[i + 1]
      BY <2>1, <3>1
    <3>3. \A i \in DOMAIN stdout' : i + 1 \in DOMAIN stdout /\ stdout'[i] = stdout[i + 1]
      BY <3>1, <3>2
    <3>4. \A r \in Reqs : reply'[r] = "result" => reply[r] = "result" \/ r \in got
      <4>1. CASE Head(stdout).kind = "resp"
        <5>1. Head(stdout).id \in got
          BY <3>2, <4>1
        <5>2. reply' = Delivered(Head(stdout).id)
          BY <2>4, <4>1 DEF ReadFrame
        <5>3. QED
          BY <2>1, <5>1, <5>2 DEF Delivered
      <4>2. CASE Head(stdout).kind # "resp"
        BY <2>4, <4>2 DEF ReadFrame
      <4>3. QED
        BY <4>1, <4>2
    <3>5. QED
      BY <3>1, <3>3, <3>4
  <2>5. CASE HostRead
    BY <2>5 DEF HostRead, callerVars
  <2>6. ASSUME NEW r \in Reqs, HostAnswer(r) PROVE RealAnswers'
    <3>1. /\ r \in got /\ answered' = answered \cup {r} /\ UNCHANGED <<reply, result, got>>
          /\ stdout' = Append(stdout, [kind |-> "resp", id |-> r])
      BY <2>6 DEF HostAnswer, callerVars
    <3>2. \A i \in DOMAIN stdout' :
             (i \in DOMAIN stdout /\ stdout'[i] = stdout[i]) \/ stdout'[i] = [kind |-> "resp", id |-> r]
      BY <2>1, <3>1 DEF OutFrames
    <3>3. QED
      BY <3>1, <3>2
  <2>7. ASSUME NEW k \in {"note", "ask", "noMethod", "stray", "tooLarge"}, HostEmit(k)
        PROVE  RealAnswers'
    <3>1. /\ UNCHANGED <<reply, result, got, answered>>
          /\ stdout' = Append(stdout, [kind |-> k])
      BY <2>7 DEF HostEmit, callerVars
    <3>2. \A i \in DOMAIN stdout' :
             (i \in DOMAIN stdout /\ stdout'[i] = stdout[i]) \/ stdout'[i] = [kind |-> k]
      BY <2>1, <3>1 DEF OutFrames
    <3>3. QED
      BY <3>1, <3>2
  <2>8. CASE \/ \E c \in Closers : StartClose(c)
             \/ Writer \/ DropEvents \/ SendEvent \/ ReadEof \/ SendClosed \/ HostExit
             \/ UNCHANGED vars
    <3>1. UNCHANGED <<reply, result, got, answered, stdout>>
      BY <2>8 DEF StartClose, Writer, WriterRecv, WriterWrite, WriterDrain, WriterEnd,
           DropEvents, SendEvent, ReadEof, SendClosed, HostExit, vars, callerVars, hostVars
    <3>2. QED
      BY <3>1
  <2>9. QED
    BY <2>2, <2>3, <2>4, <2>5, <2>6, <2>7, <2>8 DEF Next, Read, Host
<1>3. QED
  BY <1>1, <1>2, TypeCorrect, PTL DEF Spec

\* What the contract sees of a request.
Fate(r) == IF pc[r] = "idle" THEN "new"
           ELSE IF pc[r] = "done" THEN FateOf(result[r]) ELSE "open"

\* The client implements the contract of a request: it starts once, returns once,
\* "answered" only when the host read it and "unwritten" only when it never will.
THEOREM ContractIsKept == Spec => KeepsContract
<1> USE DEF Fate, FateOf
<1>1. Init => Contract!Init
  BY DEF Init, Contract!Init
<1>2. TypeOK /\ CallersStayCallers /\ OneFrame /\ RealAnswers /\ [Next]_vars
        => [Contract!Next]_<<[r \in Reqs |-> Fate(r)], got>>
  <2> SUFFICES ASSUME TypeOK, CallersStayCallers, OneFrame, RealAnswers, [Next]_vars
               PROVE  [Contract!Next]_<<[r \in Reqs |-> Fate(r)], got>>
    OBVIOUS
  <2>1. /\ pc \in [Threads -> Labels] /\ result \in [Reqs -> Results]
        /\ reply \in [Reqs -> Replies] /\ stdin \in Seq(Senders)
    BY DEF TypeOK
  \* A step that neither starts, ends nor serves a request is invisible.
  <2>2. ASSUME got' = got,
               \A r \in Reqs :
                 /\ pc[r] \in {"idle", "done"} \/ pc'[r] \in {"idle", "done"} => pc'[r] = pc[r]
                 /\ pc[r] = "done" => result'[r] = result[r]
        PROVE  UNCHANGED <<[r \in Reqs |-> Fate(r)], got>>
    <3>1. \A r \in Reqs : Fate(r)' = Fate(r)
      BY <2>2
    <3>2. QED
      BY <2>2, <3>1
  \* A step that ends one request returns its verdict.
  <2>3. ASSUME NEW q \in Reqs, got' = got, pc[q] \notin {"idle", "done"},
               pc' = [pc EXCEPT ![q] = "done"],
               \A r \in Reqs \ {q} : result'[r] = result[r],
               result'[q] = "result" => q \in got,
               result'[q] = "brokenPipe" => q \notin got
        PROVE  Contract!Next
    <3> SUFFICES ASSUME NEW v, v = FateOf(result'[q]) PROVE Contract!Next
      OBVIOUS
    <3>1. /\ [r \in Reqs |-> Fate(r)'] = [[r \in Reqs |-> Fate(r)] EXCEPT ![q] = v]
          /\ Fate(q) = "open"
      BY <2>1, <2>3
    <3>2. v \in Contract!Returned /\ (v = "answered" => q \in got) /\ (v = "unwritten" => q \notin got)
      BY <2>3 DEF Contract!Returned
    <3>3. Contract!Return(q, v)
      BY <2>3, <3>1, <3>2 DEF Contract!Return
    <3>4. QED
      BY <3>2, <3>3 DEF Contract!Next
  <2>4. ASSUME NEW q \in Reqs, Register(q) PROVE Contract!Next
    <3>1. /\ [r \in Reqs |-> Fate(r)'] = [[r \in Reqs |-> Fate(r)] EXCEPT ![q] = "open"]
          /\ Fate(q) = "new" /\ got' = got
      BY <2>1, <2>4 DEF Register, hostVars
    <3>2. Contract!Start(q)
      BY <3>1 DEF Contract!Start
    <3>3. QED
      BY <3>2 DEF Contract!Next
  <2>5. ASSUME NEW q \in Reqs, Settle(q) PROVE Contract!Next
    <3>1. CASE Unregister(q)
      <4>1. UNCHANGED <<result, got>> /\ pc[q] = "failed" /\ pc' = [pc EXCEPT ![q] = "done"]
        BY <3>1 DEF Unregister, hostVars
      <4>2. QED
        BY <2>3, <4>1 DEF RealAnswers, OneFrame, Nowhere, Away
    <3>2. CASE Receive(q)
      <4>1. /\ pc[q] = "waiting" /\ pc' = [pc EXCEPT ![q] = "done"] /\ got' = got
            /\ result' = [result EXCEPT ![q] = reply[q]]
        BY <3>2 DEF Receive, hostVars
      <4>2. result'[q] = reply[q] /\ \A r \in Reqs \ {q} : result'[r] = result[r]
        BY <2>1, <4>1
      <4>3. reply[q] # "brokenPipe"
        BY <2>1 DEF Replies
      <4>4. QED
        BY <2>3, <4>1, <4>2, <4>3 DEF RealAnswers
    <3>3. CASE Expire(q)
      <4>1. /\ pc[q] = "expired" /\ pc' = [pc EXCEPT ![q] = "done"] /\ got' = got
            /\ result' = [result EXCEPT ![q] = "timeout"]
        BY <3>3 DEF Expire, hostVars
      <4>2. QED
        BY <2>1, <2>3, <4>1
    <3>4. QED
      BY <2>5, <3>1, <3>2, <3>3 DEF Settle
  <2>6. CASE HostRead
    <3>1. /\ stdin # <<>> /\ got' = got \cup ({Head(stdin)} \cap Reqs) /\ UNCHANGED <<pc, result>>
      BY <2>6 DEF HostRead, callerVars
    <3>2. \A r \in Reqs : Fate(r)' = Fate(r)
      BY <3>1
    <3>3. CASE Head(stdin) \in Reqs \ got
      <4>1. Among(stdin, Head(stdin))
        BY <2>1, <3>1, AmongTail
      <4>2. Fate(Head(stdin)) \in {"open", "unknown"}
        BY <3>3, <4>1 DEF OneFrame, Nowhere, Away, RealAnswers
      <4>3. Contract!Serve(Head(stdin))
        BY <3>1, <3>2, <3>3, <4>2 DEF Contract!Serve
      <4>4. QED
        BY <3>3, <4>3 DEF Contract!Next
    <3>4. CASE Head(stdin) \notin Reqs \ got
      <4>1. got' = got
        BY <3>1, <3>4
      <4>2. QED
        BY <3>2, <4>1
    <3>5. QED
      BY <3>3, <3>4
  <2>7. ASSUME NEW t \in Threads, Fail(t)
        PROVE  UNCHANGED <<[r \in Reqs |-> Fate(r)], got>>
    <3>1. got' = got
      BY <2>7 DEF Fail, TakeWriter, DrainPending, WakeHeld, StopChild, hostVars
    <3>2. ASSUME NEW r \in Reqs
          PROVE  /\ pc[r] \in {"idle", "done"} \/ pc'[r] \in {"idle", "done"} => pc'[r] = pc[r]
                 /\ pc[r] = "done" => result'[r] = result[r]
      <4>1. pc[r] \in CallerLabels
        BY DEF CallersStayCallers
      <4>2. QED
        BY <2>1, <2>7, <4>1 DEF Fail, TakeWriter, AfterTake, DrainPending, AfterDrain, WakeHeld,
             StopChild, callerVars, CallerLabels, HasSender
    <3>3. QED
      BY <2>2, <3>1, <3>2
  <2>8. CASE \/ \E q \in Reqs : ReplyTimeout(q) \/ Cancel(q)
             \/ \E t \in Senders : Send(t) \/ WriteTimeout(t)
    <3>1. got' = got
      BY <2>8 DEF ReplyTimeout, Cancel, Send, CloneSender, Enqueue, Written, Terminate, RunHook,
                  WriteTimeout, hostVars
    <3>2. ASSUME NEW r \in Reqs
          PROVE  /\ pc[r] \in {"idle", "done"} \/ pc'[r] \in {"idle", "done"} => pc'[r] = pc[r]
                 /\ pc[r] = "done" => result'[r] = result[r]
      BY <2>1, <2>8 DEF ReplyTimeout, Cancel, Send, CloneSender, Enqueue, Written, Terminate,
                        RunHook, WriteTimeout, callerVars
    <3>3. QED
      BY <2>2, <3>1, <3>2
  <2>9. CASE \/ \E c \in Closers : StartClose(c)
             \/ Writer \/ Read \/ DropEvents \/ UNCHANGED vars \/ (Host /\ ~HostRead)
    <3>1. UNCHANGED <<result, got>>
      BY <2>9 DEF StartClose, Writer, WriterRecv, WriterWrite, WriterDrain, WriterEnd, Read,
           ReadFrame, Delivered, SendEvent, ReadEof, SendClosed, DropEvents, vars, Host,
           HostExit, HostAnswer, HostEmit, callerVars, hostVars
    <3>2. \A r \in Reqs : pc'[r] = pc[r]
      BY <2>1, <2>9 DEF StartClose, Writer, WriterRecv, WriterWrite, WriterDrain, WriterEnd,
           Read, ReadFrame, Delivered, SendEvent, ReadEof, SendClosed, DropEvents, vars, Host,
           HostExit, HostAnswer, HostEmit
    <3>3. QED
      BY <2>2, <3>1, <3>2
  <2>10. QED
    BY <2>4, <2>5, <2>6, <2>7, <2>8, <2>9 DEF Next, Host
<1>3. QED
  BY <1>1, <1>2, TypeCorrect, CallerRoles, FrameInOnePlace, AnswersAreReal, PTL
     DEF Spec, KeepsContract, Contract!Spec

HIDE ThreadsAssumption DEF Threads, Senders, Goto, SendFailed

----------------------------------------------------------------------------
(* Tasks.                                                                   *)

USE TasksAssumption

----------------------------------------------------------------------------
(* The fold of one task.                                                   *)

\* What the fold keeps of a task: what the panel shows as running is announced
\* and not settled, a tool call or shell is announced under one name, whose
\* item the fold knows until its end, and an ended item leaves nothing open.
FoldInv(f, knd) ==
  /\ f \in TaskFolds
  /\ \A k \in Keys : f.shown[k] = "running" => k \in f.ann /\ f.state[k] = None
  /\ \A k \in Keys : f.state[k] # None => k \in f.ann
  /\ knd = "workflow" => f.ann \subseteq {"own"} /\ f.msp = {}
  /\ knd # "workflow" => /\ "own" \notin f.ann \/ "item" \notin f.ann
                         /\ f.msp \subseteq f.ann
                         /\ ~f.done => f.msp = f.ann
  /\ f.done => \A k \in f.ann : f.state[k] # None

LEMMA BlankOK ==
    ASSUME NEW knd \in Kinds
    PROVE  FoldInv(Blank, knd) /\ ~Blank.done
BY DEF FoldInv, Blank, TaskFolds, Keys, None, Ended

\* An item's report announces its task under the name it has, if any, and an
\* ended one settles it.
LEMMA AnnounceAndEmitOK ==
    ASSUME NEW knd \in Kinds \ {"workflow"}, NEW st \in HostStates,
           NEW f, FoldInv(f, knd), ~f.done,
           NEW g \in TaskFolds, g.ann = f.ann, g.msp = f.msp, g.state = f.state,
           g.shown = f.shown, g.done <=> st \in Ended
    PROVE  /\ FoldInv(AnnounceAndEmit(g, st), knd)
           /\ AnnounceAndEmit(g, st).done <=> st \in Ended
<1> DEFINE k == AsyncTaskIdFor(g)
           a == Announce(g, k)
           h == AnnounceAndEmit(g, st)
<1>1. /\ f \in TaskFolds /\ g.msp = g.ann /\ g.ann \subseteq Keys
      /\ "own" \notin g.ann \/ "item" \notin g.ann
  BY DEF FoldInv, TaskFolds
<1>2. k \in Keys /\ g.ann \subseteq {k}
  BY <1>1 DEF AsyncTaskIdFor, Keys
<1>3. /\ a \in TaskFolds /\ a.ann = {k} /\ a.msp = {k} /\ a.state = g.state
      /\ a.done = g.done
      /\ a.shown = [g.shown EXCEPT ![k] = IF k \in g.ann THEN @ ELSE "running"]
  BY <1>1, <1>2 DEF Announce, TaskFolds
<1>4. /\ \A j \in Keys : a.shown[j] = "running" => j \in a.ann /\ a.state[j] = None
      /\ \A j \in Keys : a.state[j] # None => j \in a.ann
  BY <1>1, <1>2, <1>3 DEF FoldInv, TaskFolds
<1>5. CASE st \notin Ended
  <2>1. h = a
    BY <1>5 DEF AnnounceAndEmit, EmitAsyncTaskState
  <2>2. QED
    BY <1>2, <1>3, <1>4, <1>5, <2>1 DEF FoldInv, Keys
<1>6. CASE st \in Ended
  <2> DEFINE b == [a EXCEPT !.msp = @ \ {k}]
  <2>1. /\ b \in TaskFolds /\ b.ann = {k} /\ b.msp = {} /\ b.state = a.state
        /\ b.shown = a.shown /\ b.done
    BY <1>3, <1>6 DEF TaskFolds
  <2>7. FoldInv(h, knd) /\ h.done => /\ FoldInv(AnnounceAndEmit(g, st), knd)
                                     /\ AnnounceAndEmit(g, st).done <=> st \in Ended
    BY <1>6
  <2>2. h = AsyncTaskStateOnce(b, k, st)
    BY <1>6 DEF AnnounceAndEmit, EmitAsyncTaskState
  <2> HIDE DEF k, a, h, b
  <2>3. st # None /\ st # "running"
    BY <1>6 DEF Ended, None
  <2>4. CASE b.state[k] = st
    <3>1. h = b
      BY <2>2, <2>4 DEF AsyncTaskStateOnce
    <3>2. QED
      BY <1>2, <1>3, <1>4, <2>1, <2>3, <2>4, <2>7, <3>1 DEF FoldInv
  <2>5. CASE b.state[k] # st
    <3>1. h = [b EXCEPT !.state[k] = st, !.shown[k] = st]
      BY <1>6, <2>2, <2>5 DEF AsyncTaskStateOnce
    <3>2. /\ h \in TaskFolds /\ h.ann = {k} /\ h.msp = {} /\ h.done
          /\ h.state = [b.state EXCEPT ![k] = st]
          /\ h.shown = [b.shown EXCEPT ![k] = st]
      BY <1>2, <1>6, <2>1, <3>1 DEF TaskFolds
    <3>3. \A j \in Keys : j # k => h.state[j] = None /\ h.shown[j] # "running"
      BY <1>2, <1>3, <1>4, <2>1, <3>2 DEF TaskFolds
    <3>4. h.state[k] = st /\ h.shown[k] = st
      BY <1>2, <2>1, <3>2 DEF TaskFolds
    <3>5. QED
      BY <1>2, <2>3, <2>7, <3>2, <3>3, <3>4 DEF FoldInv
  <2>6. QED
    BY <2>4, <2>5
<1>7. QED
  BY <1>5, <1>6

\* A report of an item keeps the fold's invariant, and one that ended is done.
LEMMA OnItemOK ==
    ASSUME NEW knd \in Kinds, NEW st \in HostStates, NEW f, FoldInv(f, knd),
           NEW bg \in BOOLEAN, NEW replaying \in BOOLEAN,
           replaying => f = Blank,
           knd = "tool" /\ st \in Ended /\ f.ann # {} => bg
    PROVE  /\ FoldInv(OnItem(f, knd, st, bg, replaying), knd)
           /\ OnItem(f, knd, st, bg, replaying).done <=> f.done \/ st \in Ended
<1>0. f \in TaskFolds
  BY DEF FoldInv
<1>1. CASE f.done
  <2>1. OnItem(f, knd, st, bg, replaying) = f
    BY <1>1 DEF OnItem
  <2>2. QED
    BY <1>1, <2>1
<1>2. CASE ~f.done
  <2> DEFINE seen == IF st \in Ended THEN [f EXCEPT !.done = TRUE, !.role = FALSE]
                     ELSE [f EXCEPT !.role = TRUE]
             h == OnItem(f, knd, st, bg, replaying)
             carded == [seen EXCEPT !.card = TRUE]
             a == AnnounceWorkflow(seen)
  <2>1. /\ seen \in TaskFolds /\ seen.ann = f.ann /\ seen.msp = f.msp
        /\ seen.state = f.state /\ seen.shown = f.shown /\ (seen.done <=> st \in Ended)
    BY <1>0, <1>2 DEF TaskFolds
  <2>2. st \in Ended /\ replaying => h = seen
    BY <1>2 DEF OnItem
  <2>3. ~(st \in Ended /\ replaying) /\ knd = "shell" => h = AnnounceAndEmit(seen, st)
    BY <1>2 DEF OnItem
  <2>4. ~(st \in Ended /\ replaying) /\ knd = "tool"
        => h = IF bg \/ "own" \in seen.ann \/ seen.card
               THEN AnnounceAndEmit(carded, st) ELSE seen
    BY <1>2 DEF OnItem, ToolTask
  <2>5. ~(st \in Ended /\ replaying) /\ knd = "workflow"
        => h = AsyncTaskStateOnce(a, "own", st)
    BY <1>2 DEF OnItem
  <2>6. a = [seen EXCEPT !.ann = @ \cup {"own"},
                         !.shown["own"] = IF "own" \in seen.ann THEN @ ELSE "running"]
    BY DEF AnnounceWorkflow
  <2>7. /\ carded \in TaskFolds /\ carded.ann = seen.ann /\ carded.msp = seen.msp
        /\ carded.state = seen.state /\ carded.shown = seen.shown
        /\ carded.done = seen.done
    BY <2>1 DEF TaskFolds
  <2> SUFFICES /\ FoldInv(h, knd)
               /\ h.done <=> st \in Ended
    BY <1>2
  <2> HIDE DEF seen, h, carded, a
  <2>8. ~f.done /\ (replaying => f.ann = {})
    BY <1>2 DEF Blank
  <2>9. CASE st \in Ended /\ replaying
    BY <2>1, <2>2, <2>8, <2>9 DEF FoldInv
  <2>10. CASE ~(st \in Ended /\ replaying) /\ knd = "shell"
    BY <2>1, <2>3, <2>8, <2>10, AnnounceAndEmitOK
  <2>11. CASE ~(st \in Ended /\ replaying) /\ knd = "tool"
    <3>1. CASE bg \/ "own" \in seen.ann \/ seen.card
      <4>1. /\ knd \in Kinds \ {"workflow"} /\ carded.ann = f.ann /\ carded.msp = f.msp
            /\ carded.state = f.state /\ carded.shown = f.shown
            /\ carded.done <=> st \in Ended
        BY <2>1, <2>7, <2>11
      <4>2. /\ FoldInv(AnnounceAndEmit(carded, st), knd)
            /\ AnnounceAndEmit(carded, st).done <=> st \in Ended
        BY <2>7, <2>8, <4>1, AnnounceAndEmitOK
      <4>3. h = AnnounceAndEmit(carded, st)
        BY <2>4, <2>11, <3>1
      <4>4. QED
        BY <4>2, <4>3
    <3>2. CASE ~(bg \/ "own" \in seen.ann \/ seen.card)
      <4>1. h = seen
        BY <2>4, <2>11, <3>2
      <4>2. st \in Ended => f.ann = {}
        BY <2>11, <3>2
      <4>3. QED
        BY <2>1, <2>8, <2>11, <4>1, <4>2 DEF FoldInv
    <3>3. QED
      BY <3>1, <3>2
  <2>12. CASE ~(st \in Ended /\ replaying) /\ knd = "workflow"
    <3>1. f.ann \subseteq {"own"} /\ f.msp = {}
      BY <2>12 DEF FoldInv
    <3>2. /\ a \in TaskFolds /\ a.ann = {"own"} /\ a.msp = {} /\ a.state = f.state
          /\ (a.done <=> st \in Ended)
          /\ a.shown = [f.shown EXCEPT !["own"] = IF "own" \in f.ann THEN @ ELSE "running"]
      BY <2>1, <2>6, <3>1 DEF TaskFolds, Keys
    <3>3. /\ \A j \in Keys : a.shown[j] = "running" => j \in a.ann /\ a.state[j] = None
          /\ \A j \in Keys : a.state[j] # None => j \in a.ann
      BY <1>0, <3>1, <3>2 DEF FoldInv, TaskFolds, Keys
    <3>4. CASE st \notin Ended \/ a.state["own"] = st
      <4>1. h = a
        BY <2>5, <2>12, <3>4 DEF AsyncTaskStateOnce
      <4>2. st \in Ended => a.state["own"] # None
        BY <3>4 DEF Ended, None
      <4>3. QED
        BY <2>12, <3>2, <3>3, <4>1, <4>2 DEF FoldInv
    <3>5. CASE st \in Ended /\ a.state["own"] # st
      <4>1. h = [a EXCEPT !.state["own"] = st, !.shown["own"] = st]
        BY <2>5, <2>12, <3>5 DEF AsyncTaskStateOnce
      <4>2. /\ h \in TaskFolds /\ h.ann = {"own"} /\ h.msp = {} /\ h.done
            /\ h.state = [a.state EXCEPT !["own"] = st]
            /\ h.shown = [a.shown EXCEPT !["own"] = st]
        <5>1. "own" \in Keys /\ st \in Ended
          BY <3>5 DEF Keys
        <5>2. QED
          BY <3>2, <4>1, <5>1 DEF TaskFolds
      <4>3. h.state["own"] = st /\ h.shown["own"] = st /\ st # None /\ st # "running"
        BY <3>2, <3>5, <4>2 DEF TaskFolds, Keys, Ended, None
      <4>4. h.state["item"] = None /\ h.shown["item"] # "running"
        BY <3>2, <3>3, <4>2 DEF TaskFolds, Keys
      <4>5. QED
        BY <2>12, <3>5, <4>2, <4>3, <4>4 DEF FoldInv, Keys
    <3>6. QED
      BY <3>4, <3>5
  <2>13. QED
    BY <2>9, <2>10, <2>11, <2>12 DEF Kinds
<1>3. QED
  BY <1>1, <1>2

\* What a report adds to a tool call's names: none unless it is background work.
LEMMA OnItemAnnounces ==
    ASSUME NEW st \in HostStates, NEW f \in TaskFolds,
           NEW bg \in BOOLEAN, NEW replaying \in BOOLEAN,
           f.ann = {}, ~f.card, ~bg
    PROVE  /\ OnItem(f, "tool", st, bg, replaying).ann = {}
           /\ ~OnItem(f, "tool", st, bg, replaying).card
<1> DEFINE seen == IF st \in Ended THEN [f EXCEPT !.done = TRUE, !.role = FALSE]
                   ELSE [f EXCEPT !.role = TRUE]
<1>1. seen.ann = {} /\ ~seen.card
  BY DEF TaskFolds
<1>2. OnItem(f, "tool", st, bg, replaying) \in {f, seen}
  BY <1>1 DEF OnItem, ToolTask
<1>3. QED
  BY <1>1, <1>2

\* A completion settles a task at most once and announces none.
LEMMA SettleOK ==
    ASSUME NEW knd \in Kinds, NEW st \in HostStates, NEW f, FoldInv(f, knd)
    PROVE  LET h == SettleBackgroundCompletion(f, st)
           IN  FoldInv(h, knd) /\ h.done = f.done /\ h.ann = f.ann /\ h.card = f.card
<1> DEFINE h == SettleBackgroundCompletion(f, st)
           k == IF "own" \in f.ann THEN "own" ELSE AsyncTaskIdFor(f)
<1>1. f \in TaskFolds
  BY DEF FoldInv
<1>2. CASE h = f
  BY <1>2
<1>3. CASE h # f
  <2>1. /\ k \in f.ann /\ f.state[k] = None /\ st \in Ended
        /\ h = [f EXCEPT !.state[k] = st, !.shown[k] = st]
    BY <1>3 DEF SettleBackgroundCompletion, AsyncTaskStateOnce
  <2> HIDE DEF k, h
  <2>2. k \in Keys /\ st # None /\ st # "running"
    BY <1>1, <2>1 DEF TaskFolds, Ended, None
  <2>3. /\ h \in TaskFolds /\ h.ann = f.ann /\ h.msp = f.msp /\ h.done = f.done
        /\ h.card = f.card
        /\ h.state = [f.state EXCEPT ![k] = st] /\ h.shown = [f.shown EXCEPT ![k] = st]
    BY <1>1, <2>1, <2>2 DEF TaskFolds
  <2>4. /\ \A j \in Keys : j # k => h.state[j] = f.state[j] /\ h.shown[j] = f.shown[j]
        /\ h.state[k] = st /\ h.shown[k] = st
    BY <1>1, <2>2, <2>3 DEF TaskFolds
  <2>5. FoldInv(h, knd)
    BY <1>1, <2>1, <2>2, <2>3, <2>4 DEF FoldInv, TaskFolds
  <2>6. QED
    BY <2>3, <2>5 DEF h
<1>4. QED
  BY <1>2, <1>3

\* task/list seeds a task the fold does not know.
LEMMA SeedOK ==
    ASSUME NEW knd \in Kinds \ {"workflow"}, NEW f, FoldInv(f, knd), ~f.done
    PROVE  LET h == SeedAsyncTask(f) IN FoldInv(h, knd) /\ h.done = f.done
<1>1. f \in TaskFolds
  BY DEF FoldInv
<1>2. CASE "item" \in f.ann \/ f.state["item"] # None \/ f.msp # {}
  BY <1>2 DEF SeedAsyncTask
<1>3. CASE ~("item" \in f.ann \/ f.state["item"] # None \/ f.msp # {})
  <2> DEFINE h == SeedAsyncTask(f)
  <2>1. f.ann = {} /\ f.msp = {}
    BY <1>3 DEF FoldInv
  <2>2. h = [f EXCEPT !.msp = @ \cup {"item"}, !.ann = @ \cup {"item"},
                      !.shown["item"] = "running"]
    BY <1>3 DEF SeedAsyncTask
  <2> HIDE DEF h
  <2>3. /\ h \in TaskFolds /\ h.ann = {"item"} /\ h.msp = {"item"} /\ h.done = f.done
        /\ h.state = f.state /\ h.shown = [f.shown EXCEPT !["item"] = "running"]
    BY <1>1, <2>1, <2>2 DEF TaskFolds, Keys
  <2>4. /\ h.shown["own"] = f.shown["own"] /\ h.state["item"] = None
    BY <1>1, <1>3, <2>3 DEF TaskFolds, Keys
  <2>5. QED
    BY <1>1, <2>1, <2>3, <2>4 DEF FoldInv, Keys, h
<1>4. QED
  BY <1>2, <1>3

\* An abandoned session's tasks are all settled.
LEMMA DisconnectOK ==
    ASSUME NEW knd \in Kinds, NEW f, FoldInv(f, knd)
    PROVE  LET h == DisconnectTasks(f)
           IN  /\ FoldInv(h, knd) /\ h.done = f.done /\ h.ann = f.ann /\ h.card = f.card
               /\ \A k \in Keys : h.shown[k] # "running"
<1> DEFINE h == DisconnectTasks(f)
           open == {k \in f.ann : f.state[k] = None}
           state == [k \in Keys |-> IF k \in open THEN "failed" ELSE f.state[k]]
           shown == [k \in Keys |-> IF k \in open THEN "failed" ELSE f.shown[k]]
<1>1. f \in TaskFolds
  BY DEF FoldInv
<1>2. h = [f EXCEPT !.state = state, !.shown = shown]
  BY DEF DisconnectTasks
<1>3. /\ state \in [Keys -> Ended \cup {None}]
      /\ shown \in [Keys -> Ended \cup {None, "running"}]
  BY <1>1 DEF TaskFolds, Ended
<1>4. /\ \A k \in Keys : shown[k] # "running"
      /\ \A k \in Keys : state[k] # None => k \in f.ann
      /\ \A k \in f.ann : state[k] # None
  BY <1>1 DEF FoldInv, TaskFolds, Ended, None
<1> HIDE DEF state, shown, h
<1>5. /\ h \in TaskFolds /\ h.ann = f.ann /\ h.msp = f.msp /\ h.done = f.done
      /\ h.card = f.card /\ h.state = state /\ h.shown = shown
  BY <1>1, <1>2, <1>3 DEF TaskFolds
<1>6. QED
  BY <1>4, <1>5 DEF FoldInv, h

----------------------------------------------------------------------------
(* The invariant.                                                          *)

\* Every task's fold, against what the host has of the task.
TaskInv(f, t) ==
  /\ FoldInv(f, kind[t])
  /\ f.done => host[t] \in Ended
  /\ kind[t] = "tool" /\ (f.ann # {} \/ f.card) => t \in away

FoldsInv == \A t \in Tasks : TaskInv(fold[t], t) /\ (told[t] # None => fold[t].done)

\* What a report says stays true of its task: an end is final, and a run is
\* resumed under its own id or supersedes one other run, once.
ReportInv(r) ==
  /\ host[r.task] # None
  /\ r.st \in Ended => host[r.task] = r.st
  /\ r.bg => r.task \in away
  /\ r.st \in Ended /\ r.task \in away => r.bg
  /\ r.from = from[r.task] \/ from[r.task] = r.task

LogInv ==
  /\ \A i \in 1 .. Len(log) : ReportInv(log[i])
  /\ \A t \in Tasks : host[t] = "bg" => t \in away

\* Before any host death and second load, every handled end was told, and
\* every end is reported.
ToldInv ==
  crashes = 0 /\ loads = 0 =>
    /\ phase = "live"
    /\ \A i \in 1 .. pos : i # gap /\ log[i].what = "item" /\ log[i].st \in Ended
                           => told[log[i].task] # None
    /\ \A t \in Tasks : host[t] \in Ended =>
         \E i \in 1 .. Len(log) : log[i].task = t /\ log[i].what = "item" /\ log[i].st = host[t]

\* A run that another superseded is not listed, and is superseded as soon as
\* the other is listed.
ListInv ==
  /\ \A t \in gone : listed[t] = 0
  /\ \A t \in Tasks : host[t] = None => listed[t] = 0
  /\ \A t, u \in Tasks : from[u] = t /\ t # u /\ listed[u] # 0 => t \in gone

\* A closed session shows no task running, and a dead host's view has no gap.
PhaseInv ==
  /\ phase = "closed" => \A t \in Tasks, k \in Keys : fold[t].shown[k] # "running"
  /\ phase \in {"dead", "resumed", "reattach"} => gap = 0

IInv == TasksTypeOK /\ FoldsInv /\ LogInv /\ ToldInv /\ ListInv /\ PhaseInv

\* A resume's item of a task keeps its fold's invariant; an end it takes is done.
LEMMA ReconcileItemOK ==
    ASSUME TasksTypeOK, LogInv, NEW t \in Tasks, NEW f, TaskInv(f, t), NEW replayed \in BOOLEAN
    PROVE  /\ TaskInv(ReconcileItem(f, t, replayed), t)
           /\ f.done => ReconcileItem(f, t, replayed).done
           /\ /\ host[t] \in Ended /\ "own" \in f.ann
              /\ kind[t] = "shell" \/ (kind[t] = "tool" /\ t \in away)
              => ReconcileItem(f, t, replayed).done
<1> DEFINE h == ReconcileItem(f, t, replayed)
           o == OnItem(f, kind[t], host[t], TRUE, FALSE)
<1>1. kind[t] \in Kinds /\ host[t] \in HostStates /\ FoldInv(f, kind[t])
  BY DEF TasksTypeOK, TaskInv
<1>2. FoldInv(o, kind[t]) /\ (o.done <=> f.done \/ host[t] \in Ended)
  BY <1>1, OnItemOK
<1>3. h = f \/ (h = o /\ (kind[t] = "shell" \/ (kind[t] = "tool" /\ t \in away)))
  BY DEF ReconcileItem
<1>4. /\ host[t] \in Ended /\ "own" \in f.ann
      /\ kind[t] = "shell" \/ (kind[t] = "tool" /\ t \in away)
      => h = o
  BY DEF ReconcileItem, Ended, None
<1>5. TaskInv(h, t)
  BY <1>1, <1>2, <1>3 DEF TaskInv
<1>6. QED
  BY <1>2, <1>3, <1>4, <1>5

LEMMA ReconcileOK ==
    ASSUME TasksTypeOK, LogInv, NEW t \in Tasks, NEW f, TaskInv(f, t), NEW replayed \in BOOLEAN
    PROVE  /\ TaskInv(ReconcileActiveTasks(f, t, replayed), t)
           /\ f.done => ReconcileActiveTasks(f, t, replayed).done
           /\ /\ host[t] \in Ended /\ "own" \in f.ann
              /\ kind[t] = "shell" \/ (kind[t] = "tool" /\ t \in away)
              => ReconcileActiveTasks(f, t, replayed).done
<1> DEFINE r == ReconcileItem(f, t, replayed)
           h == ReconcileActiveTasks(f, t, replayed)
           s == SettleBackgroundCompletion(r, host[t])
<1>1. TaskInv(r, t)
  BY ReconcileItemOK
<1>2. kind[t] \in Kinds /\ host[t] \in HostStates /\ FoldInv(r, kind[t])
  BY <1>1 DEF TasksTypeOK, TaskInv
<1>3. FoldInv(s, kind[t]) /\ s.done = r.done /\ s.ann = r.ann /\ s.card = r.card
  BY <1>2, SettleOK
<1>4. h = r \/ h = s
  BY DEF ReconcileActiveTasks
<1>5. TaskInv(h, t) /\ h.done = r.done
  BY <1>1, <1>3, <1>4 DEF TaskInv
<1>6. QED
  BY <1>5, ReconcileItemOK

\* A handled report keeps the folds, the told ends and the list of runs.
LEMMA HandleOK ==
    ASSUME TasksTypeOK, FoldsInv, LogInv, ListInv, NEW i \in 1 .. Len(log), Handle(log[i]),
           UNCHANGED taskVars
    PROVE  /\ FoldsInv' /\ ListInv'
           /\ fold' \in [Tasks -> TaskFolds]
           /\ listed' \in [Tasks -> Nat] /\ gone' \subseteq Tasks
           /\ told' \in [Tasks -> {None, "view", "history"}]
           /\ \A t \in Tasks : told[t] # None => told'[t] # None
           /\ log[i].what = "item" /\ log[i].st \in Ended => told'[log[i].task] # None
<1> DEFINE r == log[i]
           t == r.task
           f == fold[t]
           h == IF r.what = "item" THEN OnItem(f, kind[t], r.st, r.bg, FALSE)
                ELSE SettleBackgroundCompletion(f, r.st)
<1>1. r \in Reports /\ ReportInv(r)
  BY DEF TasksTypeOK, LogInv
<1>2. /\ t \in Tasks /\ r.st \in HostStates /\ r.bg \in BOOLEAN /\ kind[t] \in Kinds
      /\ TaskInv(f, t) /\ FoldInv(f, kind[t]) /\ f \in TaskFolds
      /\ r.what \in {"item", "completion"} /\ r.rev \in Nat /\ r.from \in Tasks \cup {None}
  BY <1>1 DEF TasksTypeOK, FoldsInv, TaskInv, FoldInv, Reports
<1>3. /\ FoldInv(h, kind[t])
      /\ h.done => f.done \/ r.st \in Ended
      /\ f.done => h.done
      /\ r.what = "item" /\ r.st \in Ended => h.done
      /\ kind[t] = "tool" /\ (h.ann # {} \/ h.card) => t \in away
  <2>1. CASE r.what = "item"
    <3>1. kind[t] = "tool" /\ r.st \in Ended /\ f.ann # {} => r.bg
      BY <1>1, <1>2 DEF ReportInv, TaskInv
    <3>2. FoldInv(h, kind[t]) /\ (h.done <=> f.done \/ r.st \in Ended)
      BY <1>2, <2>1, <3>1, OnItemOK
    <3>3. kind[t] = "tool" /\ (h.ann # {} \/ h.card) => t \in away
      <4>1. SUFFICES ASSUME kind[t] = "tool", t \notin away PROVE h.ann = {} /\ ~h.card
        OBVIOUS
      <4>2. f.ann = {} /\ ~f.card /\ ~r.bg
        BY <1>1, <1>2, <4>1 DEF TaskInv, ReportInv
      <4>3. QED
        BY <1>2, <2>1, <4>1, <4>2, OnItemAnnounces
    <3>4. QED
      BY <3>2, <3>3
  <2>2. CASE r.what # "item"
    <3>1. FoldInv(h, kind[t]) /\ h.done = f.done /\ h.ann = f.ann /\ h.card = f.card
      BY <1>2, <2>2, SettleOK
    <3>2. QED
      BY <1>2, <2>2, <3>1 DEF TaskInv
  <2>3. QED
    BY <2>1, <2>2
<1>4. fold' = [fold EXCEPT ![t] = h]
  BY DEF Handle
<1>5. told' = IF r.st \in Ended /\ r.what = "item" THEN [told EXCEPT ![t] = "view"] ELSE told
  BY DEF Handle
<1> HIDE DEF h
<1>6. UNCHANGED <<kind, host, away, from>>
  BY DEF taskVars
<1>7. h \in TaskFolds /\ (h.done => host[t] \in Ended) /\ TaskInv(h, t)
  BY <1>1, <1>2, <1>3 DEF FoldInv, ReportInv, TaskInv
<1>8. ASSUME NEW u \in Tasks PROVE TaskInv(fold[u], u)' /\ (told'[u] # None => fold'[u].done)
  <2>1. TaskInv(fold[u], u) /\ (told[u] # None => fold[u].done)
    BY DEF FoldsInv
  <2>2. CASE u = t
    <3>1. fold'[u] = h
      BY <1>2, <1>4, <2>2 DEF TasksTypeOK
    <3>2. TaskInv(fold[u], u)'
      BY <1>6, <1>7, <2>2, <3>1 DEF TaskInv, FoldInv
    <3>3. told'[u] # None => told[u] # None \/ (r.st \in Ended /\ r.what = "item")
      BY <1>5
    <3>4. QED
      BY <1>3, <2>1, <2>2, <3>1, <3>2, <3>3
  <2>3. CASE u # t
    <3>1. fold'[u] = fold[u] /\ told'[u] = told[u]
      BY <1>2, <1>4, <1>5, <2>3 DEF TasksTypeOK
    <3>2. QED
      BY <1>6, <2>1, <3>1 DEF TaskInv, FoldInv
  <2>4. QED
    BY <2>2, <2>3
<1>9. ListInv' /\ listed' \in [Tasks -> Nat] /\ gone' \subseteq Tasks
  <2>1. CASE ~(kind[t] = "workflow" /\ r.what = "item")
    BY <1>6, <2>1 DEF Handle, Observe, Listing, ListInv, TasksTypeOK
  <2>2. CASE kind[t] = "workflow" /\ r.what = "item"
    <3> DEFINE sup == {r.from} \ {None, t}
               dr == [u \in Tasks |-> IF u \in sup THEN 0 ELSE listed[u]]
    <3>1. listed' = ObserveWorkflow(Listing, r).rev /\ gone' = ObserveWorkflow(Listing, r).gone
      BY <2>2 DEF Handle, Observe
    <3>2. Listing.rev = listed /\ Listing.gone = gone
      BY DEF Listing
    <3>3. \/ listed' = listed /\ gone' = gone
          \/ listed' = [listed EXCEPT ![t] = 0] /\ gone' = gone
          \/ listed' = dr /\ gone' = gone \cup sup /\ r.from = None
          \/ listed' = [dr EXCEPT ![t] = r.rev] /\ gone' = gone \cup sup /\ t \notin gone
      BY <3>1, <3>2 DEF ObserveWorkflow, Listing
    <3>4. sup \subseteq Tasks /\ t \notin sup /\ dr \in [Tasks -> Nat]
      BY <1>2 DEF TasksTypeOK
    <3>10. \A u \in Tasks : dr[u] = IF u \in sup THEN 0 ELSE listed[u]
      OBVIOUS
    <3>11. /\ listed \in [Tasks -> Nat] /\ gone \subseteq Tasks /\ t \in Tasks /\ r.rev \in Nat
           /\ \A u \in gone : listed[u] = 0
      BY <1>2 DEF TasksTypeOK, ListInv
    <3> HIDE DEF sup, dr, t, r
    <3>5. /\ listed' \in [Tasks -> Nat] /\ gone' \subseteq Tasks /\ gone \subseteq gone'
          /\ \A u \in Tasks : listed'[u] = 0 \/ listed'[u] = listed[u] \/ u = t
      BY <3>3, <3>4, <3>10, <3>11
    <3>6. \A u \in gone' : listed'[u] = 0
      BY <3>3, <3>4, <3>10, <3>11
    <3>7. \A u \in Tasks : host'[u] = None => listed'[u] = 0
      BY <1>1, <1>6, <3>5 DEF ListInv, ReportInv, t
    <3>8. ASSUME NEW u \in Tasks, NEW v \in Tasks, from'[v] = u, u # v, listed'[v] # 0
          PROVE  u \in gone'
      <4>1. CASE listed[v] # 0
        BY <1>6, <3>5, <3>8, <4>1 DEF ListInv
      <4>2. CASE listed[v] = 0
        <5>1. v = t /\ gone' = gone \cup sup
          BY <3>3, <3>4, <3>8, <3>10, <3>11, <4>2
        <5>2. r.from = u
          BY <1>1, <1>6, <3>8, <5>1 DEF ReportInv, t
        <5>3. u # None
          BY <3>8 DEF None, TasksAssumption
        <5>4. QED
          BY <3>8, <5>1, <5>2, <5>3 DEF sup
      <4>3. QED
        BY <4>1, <4>2
    <3>9. QED
      BY <3>5, <3>6, <3>7, <3>8 DEF ListInv
  <2>3. QED
    BY <2>1, <2>2
<1>10. /\ fold' \in [Tasks -> TaskFolds]
       /\ told' \in [Tasks -> {None, "view", "history"}]
       /\ \A u \in Tasks : told[u] # None => told'[u] # None
       /\ r.what = "item" /\ r.st \in Ended => told'[t] # None
  BY <1>2, <1>4, <1>5, <1>7 DEF TasksTypeOK, None
<1>11. QED
  BY <1>8, <1>9, <1>10 DEF FoldsInv

LEMMA InitOK == TasksInit => IInv
<1> SUFFICES ASSUME TasksInit PROVE IInv
  OBVIOUS
<1>1. /\ log = <<>> /\ Len(log) = 0 /\ log \in Seq(Reports) /\ gone = {} /\ phase = "live"
      /\ kind \in [Tasks -> Kinds] /\ pos = 0 /\ gap = 0
      /\ host = [t \in Tasks |-> None] /\ listed = [t \in Tasks |-> 0]
      /\ told = [t \in Tasks |-> None] /\ fold = [t \in Tasks |-> Blank]
  BY DEF TasksInit
<1>2. \A t \in Tasks : FoldInv(fold[t], kind[t]) /\ ~fold[t].done
  BY <1>1, BlankOK
<1>3. TasksTypeOK
  BY <1>1, <1>2 DEF TasksInit, TasksTypeOK, HostStates, FoldInv
<1>4. FoldsInv
  BY <1>1, <1>2 DEF FoldsInv, TaskInv, Blank
<1>5. LogInv /\ ToldInv /\ ListInv /\ PhaseInv
  BY <1>1 DEF LogInv, ToldInv, ListInv, PhaseInv, None, Ended
<1>6. QED
  BY <1>3, <1>4, <1>5 DEF IInv

\* What a step of the host appends to the view.
LEMMA MovesLog ==
    ASSUME TasksTypeOK, NEW t \in Tasks, NEW next \in HostStates, Moves(t, next)
    PROVE  /\ host' \in [Tasks -> HostStates] /\ away' \subseteq Tasks
           /\ rev' \in [Tasks -> Nat] /\ from' \in [Tasks -> Tasks \cup {None}]
           /\ log' \in Seq(Reports) /\ Len(log') > Len(log)
           /\ \A i \in 1 .. Len(log) : log'[i] = log[i]
           /\ \A i \in 1 .. Len(log') : i > Len(log) =>
                /\ log'[i].task = t /\ log'[i].st = next /\ log'[i].from = from'[t]
                /\ log'[i].bg <=> t \in away'
           /\ log'[Len(log) + 1].what = "item"
<1> DEFINE r == Report(t, "item")
           c == Report(t, "completion")
<1>1. /\ host' = [host EXCEPT ![t] = next]
      /\ away' = IF next = "bg" THEN away \cup {t} ELSE away
      /\ \/ log' = Append(log, r)
         \/ log' = log \o <<r, c>>
      /\ rev' = [rev EXCEPT ![t] = IF host[t] = "paused" /\ next = "bg" THEN 1 ELSE @ + 1]
      /\ from' = IF host[t] = "paused" /\ next = "bg" THEN [from EXCEPT ![t] = t] ELSE from
  BY DEF Moves
<1>2. /\ host' \in [Tasks -> HostStates] /\ away' \subseteq Tasks
      /\ rev' \in [Tasks -> Nat] /\ from' \in [Tasks -> Tasks \cup {None}]
      /\ host'[t] = next
  BY <1>1 DEF TasksTypeOK
<1>3. ASSUME NEW w \in {"item", "completion"}
      PROVE  /\ Report(t, w) \in Reports /\ Report(t, w).task = t /\ Report(t, w).st = next
             /\ Report(t, w).from = from'[t] /\ Report(t, w).what = w
             /\ Report(t, w).bg <=> t \in away'
  <2>1. rev'[t] \in Nat /\ from'[t] \in Tasks \cup {None}
    BY <1>2
  <2>2. CASE t \in away'
    <3>1. Report(t, w) = [task |-> t, what |-> w, st |-> next, bg |-> TRUE,
                          rev |-> rev'[t], from |-> from'[t]]
      BY <1>2, <2>2 DEF Report
    <3>2. QED
      BY <2>1, <2>2, <3>1 DEF Reports
  <2>3. CASE t \notin away'
    <3>1. Report(t, w) = [task |-> t, what |-> w, st |-> next, bg |-> FALSE,
                          rev |-> rev'[t], from |-> from'[t]]
      <4>1. (t \in away') = FALSE
        BY <2>3
      <4>2. QED
        BY <1>2, <4>1 DEF Report
    <3>2. QED
      BY <2>1, <2>3, <3>1 DEF Reports
  <2>4. QED
    BY <2>2, <2>3
<1>4. /\ r \in Reports /\ r.task = t /\ r.st = next /\ r.from = from'[t] /\ r.what = "item"
      /\ r.bg <=> t \in away'
  BY <1>3
<1>5. /\ c \in Reports /\ c.task = t /\ c.st = next /\ c.from = from'[t]
      /\ c.bg <=> t \in away'
  BY <1>3
<1> HIDE DEF r, c
<1>6. log \in Seq(Reports) /\ Len(log) \in Nat
  BY DEF TasksTypeOK
<1>7. CASE log' = Append(log, r)
  <2>1. log' \in Seq(Reports) /\ Len(log') = Len(log) + 1
    BY <1>4, <1>6, <1>7
  <2>2. /\ \A i \in 1 .. Len(log) : log'[i] = log[i]
        /\ log'[Len(log) + 1] = r
    BY <1>4, <1>6, <1>7
  <2>3. \A i \in 1 .. Len(log') : i > Len(log) => log'[i] = r
    BY <1>6, <2>1, <2>2
  <2>4. ASSUME NEW i \in 1 .. Len(log'), i > Len(log)
        PROVE  /\ log'[i].task = t /\ log'[i].st = next /\ log'[i].from = from'[t]
               /\ log'[i].bg <=> t \in away'
    BY <1>4, <2>3, <2>4
  <2>5. Len(log') > Len(log) /\ log'[Len(log) + 1].what = "item"
    BY <1>4, <1>6, <2>1, <2>2
  <2>6. QED
    BY <1>2, <2>1, <2>2, <2>4, <2>5
<1>8. CASE log' = log \o <<r, c>>
  <2>1. log' \in Seq(Reports) /\ Len(log') = Len(log) + 2
    BY <1>4, <1>5, <1>6, <1>8
  <2>2. /\ \A i \in 1 .. Len(log) : log'[i] = log[i]
        /\ log'[Len(log) + 1] = r /\ log'[Len(log) + 2] = c
    BY <1>4, <1>5, <1>6, <1>8
  <2>3. \A i \in 1 .. Len(log') : i > Len(log) => log'[i] = r \/ log'[i] = c
    BY <1>6, <2>1, <2>2
  <2>4. ASSUME NEW i \in 1 .. Len(log'), i > Len(log)
        PROVE  /\ log'[i].task = t /\ log'[i].st = next /\ log'[i].from = from'[t]
               /\ log'[i].bg <=> t \in away'
    BY <1>4, <1>5, <2>3, <2>4
  <2>5. Len(log') > Len(log) /\ log'[Len(log) + 1].what = "item"
    BY <1>4, <1>6, <2>1, <2>2
  <2>6. QED
    BY <1>2, <2>1, <2>2, <2>4, <2>5
<1>9. QED
  BY <1>1, <1>7, <1>8

\* A step of the host leaves the adapter alone and reports what it did.
LEMMA MovesOK ==
    ASSUME IInv, NEW t \in Tasks, NEW next \in HostStates, Moves(t, next),
           UNCHANGED <<kind, pos, gap, cursor, phase, foldVars, crashes, loads>>
    PROVE  IInv'
<1> DEFINE n == Len(log)
<1>1. /\ TasksTypeOK /\ FoldsInv /\ LogInv /\ ToldInv /\ ListInv /\ PhaseInv
      /\ UNCHANGED <<kind, pos, gap, cursor, phase, fold, listed, gone, told, crashes, loads>>
  BY DEF IInv, foldVars
<1>2. /\ host[t] \notin Ended /\ next # None
      /\ host' = [host EXCEPT ![t] = next]
      /\ away' = IF next = "bg" THEN away \cup {t} ELSE away
      /\ from' = from \/ from' = [from EXCEPT ![t] = t]
  BY DEF Moves, Follows, Starts, Ended, None
<1>3. /\ host' \in [Tasks -> HostStates] /\ away' \subseteq Tasks
      /\ rev' \in [Tasks -> Nat] /\ from' \in [Tasks -> Tasks \cup {None}]
      /\ log' \in Seq(Reports) /\ Len(log') > n
      /\ \A i \in 1 .. n : log'[i] = log[i]
      /\ \A i \in 1 .. Len(log') : i > n =>
           /\ log'[i].task = t /\ log'[i].st = next /\ log'[i].from = from'[t]
           /\ log'[i].bg <=> t \in away'
      /\ log'[n + 1].what = "item"
  BY <1>1, MovesLog
<1>4. n \in Nat /\ Len(log') \in Nat /\ \A i \in 1 .. n : log[i] \in Reports
  BY <1>1, <1>3 DEF TasksTypeOK
<1>5. /\ \A u \in Tasks : u # t => host'[u] = host[u] /\ (u \in away' <=> u \in away)
                                  /\ from'[u] = from[u]
      /\ host'[t] = next /\ away \subseteq away' /\ (from'[t] = from[t] \/ from'[t] = t)
      /\ next = "bg" => t \in away'
  BY <1>1, <1>2 DEF TasksTypeOK
<1>6. TasksTypeOK'
  BY <1>1, <1>3, <1>4 DEF TasksTypeOK
<1>7. FoldsInv'
  <2>1. ASSUME NEW u \in Tasks
        PROVE  TaskInv(fold[u], u)' /\ (told'[u] # None => fold'[u].done)
    <3>1. TaskInv(fold[u], u) /\ (told[u] # None => fold[u].done)
      BY <1>1 DEF FoldsInv
    <3>2. FoldInv(fold[u], kind[u])'
      BY <1>1, <3>1 DEF TaskInv
    <3>3. /\ fold[u].done => host'[u] \in Ended
          /\ kind[u] = "tool" /\ (fold[u].ann # {} \/ fold[u].card) => u \in away'
      BY <1>2, <1>5, <3>1 DEF TaskInv
    <3>4. QED
      BY <1>1, <3>1, <3>2, <3>3 DEF TaskInv
  <2>2. QED
    BY <2>1 DEF FoldsInv
<1>8. LogInv'
  <2>1. ASSUME NEW i \in 1 .. Len(log') PROVE ReportInv(log[i])'
    <3>1. CASE i \in 1 .. n
      <4> DEFINE r == log[i]
      <4>1. r \in Reports /\ ReportInv(r) /\ log'[i] = r
        BY <1>1, <1>3, <1>4, <3>1 DEF LogInv
      <4>2. r.task \in Tasks
        BY <4>1 DEF Reports
      <4> HIDE DEF r
      <4>3. /\ host'[r.task] # None
            /\ r.st \in Ended => host'[r.task] = r.st
            /\ r.bg => r.task \in away'
            /\ r.st \in Ended /\ r.task \in away' => r.bg
            /\ r.from = from'[r.task] \/ from'[r.task] = r.task
        BY <1>2, <1>5, <4>1, <4>2 DEF ReportInv
      <4>4. QED
        BY <4>1, <4>3 DEF ReportInv
    <3>2. CASE i > n
      BY <1>2, <1>3, <1>5, <3>2 DEF ReportInv
    <3>3. QED
      BY <1>4, <3>1, <3>2
  <2>2. \A u \in Tasks : host'[u] = "bg" => u \in away'
    BY <1>1, <1>5 DEF LogInv
  <2>3. QED
    BY <2>1, <2>2 DEF LogInv
<1>9. ToldInv'
  <2> SUFFICES ASSUME crashes = 0, loads = 0
               PROVE  /\ phase = "live"
                      /\ \A i \in 1 .. pos : i # gap /\ log'[i].what = "item" /\ log'[i].st \in Ended
                                             => told[log'[i].task] # None
                      /\ \A u \in Tasks : host'[u] \in Ended =>
                           \E i \in 1 .. Len(log') : /\ log'[i].task = u /\ log'[i].what = "item"
                                                     /\ log'[i].st = host'[u]
    BY <1>1 DEF ToldInv
  <2>1. /\ phase = "live"
        /\ \A i \in 1 .. pos : i # gap /\ log[i].what = "item" /\ log[i].st \in Ended
                               => told[log[i].task] # None
        /\ \A u \in Tasks : host[u] \in Ended =>
             \E i \in 1 .. n : log[i].task = u /\ log[i].what = "item" /\ log[i].st = host[u]
    BY <1>1 DEF ToldInv
  <2>2. pos \in 0 .. n
    BY <1>1 DEF TasksTypeOK
  <2>3. \A i \in 1 .. pos : log'[i] = log[i]
    BY <1>3, <1>4, <2>2
  <2>4. ASSUME NEW u \in Tasks, host'[u] \in Ended
        PROVE  \E i \in 1 .. Len(log') : /\ log'[i].task = u /\ log'[i].what = "item"
                                         /\ log'[i].st = host'[u]
    <3>1. CASE u = t
      <4>1. n + 1 \in 1 .. Len(log') /\ n + 1 > n
        BY <1>3, <1>4
      <4>2. QED
        BY <1>3, <1>5, <3>1, <4>1
    <3>2. CASE u # t
      <4>1. PICK i \in 1 .. n : log[i].task = u /\ log[i].what = "item" /\ log[i].st = host[u]
        BY <1>5, <2>1, <2>4, <3>2
      <4>2. i \in 1 .. Len(log') /\ log'[i] = log[i]
        BY <1>3, <1>4
      <4>3. QED
        BY <1>5, <3>2, <4>1, <4>2
    <3>3. QED
      BY <3>1, <3>2
  <2>5. QED
    BY <2>1, <2>3, <2>4
<1>10. ListInv'
  <2>1. \A u \in Tasks : host'[u] = None => host[u] = None
    BY <1>2, <1>5
  <2>2. \A v, u \in Tasks : from'[u] = v /\ v # u => from[u] = v
    BY <1>5
  <2>3. QED
    BY <1>1, <2>1, <2>2 DEF ListInv
<1>11. PhaseInv'
  BY <1>1 DEF PhaseInv
<1>12. QED
  BY <1>6, <1>7, <1>8, <1>9, <1>10, <1>11 DEF IInv

\* A run resumed as another: the new one was never reported, nor listed.
LEMMA ResumesAsOK ==
    ASSUME IInv, NEW t \in Tasks, NEW u \in Tasks, HostResumesAs(t, u)
    PROVE  IInv'
<1> DEFINE n == Len(log)
           r == Report(u, "item")
<1>1. /\ TasksTypeOK /\ FoldsInv /\ LogInv /\ ToldInv /\ ListInv /\ PhaseInv
      /\ UNCHANGED <<kind, pos, gap, cursor, phase, fold, listed, gone, told, crashes, loads>>
  BY DEF IInv, foldVars, HostResumesAs
<1>2. /\ host[t] = "paused" /\ host[u] = None /\ t # u
      /\ host' = [host EXCEPT ![t] = "replaced", ![u] = "bg"]
      /\ away' = away \cup {u}
      /\ rev' = [rev EXCEPT ![u] = 1] /\ from' = [from EXCEPT ![u] = t]
      /\ log' = Append(log, r)
  BY DEF HostResumesAs, None
<1>3. /\ host' \in [Tasks -> HostStates] /\ away' \subseteq Tasks
      /\ rev' \in [Tasks -> Nat] /\ from' \in [Tasks -> Tasks \cup {None}]
      /\ host'[t] = "replaced" /\ host'[u] = "bg" /\ from'[u] = t /\ rev'[u] = 1
      /\ \A v \in Tasks : v # u => from'[v] = from[v] /\ (v \in away' <=> v \in away)
      /\ \A v \in Tasks \ {t, u} : host'[v] = host[v]
      /\ u \in away'
  BY <1>1, <1>2 DEF TasksTypeOK, HostStates, Running
<1>4. r \in Reports /\ r.task = u /\ r.st = "bg" /\ r.bg /\ r.from = t
  <2>1. (u \in away') = TRUE
    BY <1>3
  <2>2. r = [task |-> u, what |-> "item", st |-> "bg", bg |-> TRUE, rev |-> 1, from |-> t]
    BY <1>3, <2>1 DEF Report
  <2>3. "bg" \in HostStates /\ 1 \in Nat
    BY DEF HostStates, Running
  <2> HIDE DEF r
  <2>4. QED
    BY <2>2, <2>3 DEF Reports
<1> HIDE DEF r
<1>5. log \in Seq(Reports) /\ n \in Nat
  BY <1>1 DEF TasksTypeOK
<1>6. /\ log' \in Seq(Reports) /\ Len(log') = n + 1
      /\ \A i \in 1 .. n : log'[i] = log[i] /\ log[i] \in Reports
      /\ log'[n + 1] = r
  BY <1>2, <1>4, <1>5
<1>7. TasksTypeOK'
  BY <1>1, <1>3, <1>5, <1>6 DEF TasksTypeOK
<1>8. host[t] \notin Ended /\ host[u] \notin Ended /\ "bg" \notin Ended /\ "bg" # None
      /\ "replaced" # None
  BY <1>2 DEF Ended, None
<1>9. FoldsInv'
  <2>1. ASSUME NEW v \in Tasks
        PROVE  TaskInv(fold[v], v)' /\ (told'[v] # None => fold'[v].done)
    <3>1. TaskInv(fold[v], v) /\ (told[v] # None => fold[v].done)
      BY <1>1 DEF FoldsInv
    <3>2. FoldInv(fold[v], kind[v])'
      BY <1>1, <3>1 DEF TaskInv
    <3>3. /\ fold[v].done => host'[v] \in Ended
          /\ kind[v] = "tool" /\ (fold[v].ann # {} \/ fold[v].card) => v \in away'
      BY <1>3, <1>8, <3>1 DEF TaskInv
    <3>4. QED
      BY <1>1, <3>1, <3>2, <3>3 DEF TaskInv
  <2>2. QED
    BY <2>1 DEF FoldsInv
<1>10. LogInv'
  <2>1. ASSUME NEW i \in 1 .. Len(log') PROVE ReportInv(log[i])'
    <3>1. CASE i \in 1 .. n
      <4> DEFINE q == log[i]
      <4>1. q \in Reports /\ ReportInv(q) /\ log'[i] = q
        BY <1>1, <1>6, <3>1 DEF LogInv
      <4>2. q.task \in Tasks /\ q.task # u
        BY <1>2, <4>1 DEF Reports, ReportInv
      <4> HIDE DEF q
      <4>3. /\ host'[q.task] # None
            /\ q.st \in Ended => host'[q.task] = q.st
            /\ q.bg => q.task \in away'
            /\ q.st \in Ended /\ q.task \in away' => q.bg
            /\ q.from = from'[q.task] \/ from'[q.task] = q.task
        BY <1>3, <1>8, <4>1, <4>2 DEF ReportInv
      <4>4. QED
        BY <4>1, <4>3 DEF ReportInv
    <3>2. CASE i = n + 1
      <4>1. log'[i] = r
        BY <1>6, <3>2
      <4>2. QED
        BY <1>3, <1>4, <1>8, <4>1 DEF ReportInv
    <3>3. QED
      BY <1>5, <1>6, <3>1, <3>2
  <2>2. \A v \in Tasks : host'[v] = "bg" => v \in away'
    BY <1>1, <1>3 DEF LogInv
  <2>3. QED
    BY <2>1, <2>2 DEF LogInv
<1>11. ToldInv'
  <2>1. pos \in 0 .. n
    BY <1>1 DEF TasksTypeOK
  <2>2. \A i \in 1 .. pos : log'[i] = log[i]
    BY <1>5, <1>6, <2>1
  <2>3. \A i \in 1 .. n : i \in 1 .. Len(log')
    BY <1>5, <1>6
  <2>4. \A v \in Tasks : host'[v] \in Ended => host[v] = host'[v]
    BY <1>3, <1>8, "replaced" \notin Ended DEF Ended
  <2>5. ASSUME crashes = 0, loads = 0, NEW v \in Tasks, host'[v] \in Ended
        PROVE  \E i \in 1 .. Len(log') : /\ log'[i].task = v /\ log'[i].what = "item"
                                         /\ log'[i].st = host'[v]
    <3>1. PICK i \in 1 .. n : log[i].task = v /\ log[i].what = "item" /\ log[i].st = host[v]
      BY <1>1, <2>4, <2>5 DEF ToldInv
    <3>2. QED
      BY <1>6, <2>3, <2>4, <2>5, <3>1
  <2>6. QED
    BY <1>1, <2>2, <2>5 DEF ToldInv
<1>12. ListInv'
  <2>1. \A v \in Tasks : host'[v] = None => host[v] = None
    BY <1>3, <1>8
  <2>2. \A w, v \in Tasks : from'[v] = w /\ v # u => from[v] = w
    BY <1>3
  <2>3. listed[u] = 0
    BY <1>1, <1>2 DEF ListInv
  <2>4. QED
    BY <1>1, <2>1, <2>2, <2>3 DEF ListInv
<1>13. PhaseInv'
  BY <1>1 DEF PhaseInv
<1>14. QED
  BY <1>7, <1>9, <1>10, <1>11, <1>12, <1>13 DEF IInv

\* Whether in order, past a gap or refilled, a report is handled once.
LEMMA DeliveryOK ==
    ASSUME IInv, Deliver \/ DeliverPastGap \/ RefillGap
    PROVE  IInv'
<1> DEFINE n == Len(log)
           i == IF gap' # 0 THEN pos + 2 ELSE IF gap # 0 THEN gap ELSE pos + 1
<1>1. /\ TasksTypeOK /\ FoldsInv /\ LogInv /\ ToldInv /\ ListInv /\ PhaseInv
      /\ UNCHANGED <<kind, host, away, rev, from, log, phase, crashes, loads>>
      /\ UNCHANGED taskVars /\ phase = "live"
  BY DEF IInv, taskVars, Deliver, DeliverPastGap, RefillGap
<1>2. n \in Nat /\ pos \in 0 .. n /\ gap \in 0 .. pos /\ cursor \in 0 .. n
  BY <1>1 DEF TasksTypeOK
<1>3. /\ i \in 1 .. n /\ Handle(log[i])
      /\ pos' \in 0 .. n /\ gap' \in 0 .. pos' /\ cursor' \in 0 .. n
      /\ \A j \in 1 .. pos' : j # gap' => (j \in 1 .. pos /\ j # gap) \/ j = i
  <2>1. CASE Deliver
    BY <1>2, <2>1 DEF Deliver
  <2>2. CASE DeliverPastGap
    BY <1>2, <2>2 DEF DeliverPastGap
  <2>3. CASE RefillGap
    BY <1>2, <2>3 DEF RefillGap
  <2>4. QED
    BY <2>1, <2>2, <2>3
<1> HIDE DEF i
<1>4. /\ FoldsInv' /\ ListInv'
      /\ fold' \in [Tasks -> TaskFolds]
      /\ listed' \in [Tasks -> Nat] /\ gone' \subseteq Tasks
      /\ told' \in [Tasks -> {None, "view", "history"}]
      /\ \A t \in Tasks : told[t] # None => told'[t] # None
      /\ log[i].what = "item" /\ log[i].st \in Ended => told'[log[i].task] # None
  BY <1>1, <1>3, HandleOK
<1>5. TasksTypeOK'
  BY <1>1, <1>3, <1>4 DEF TasksTypeOK
<1>6. LogInv'
  BY <1>1 DEF LogInv, ReportInv
<1>7. ToldInv'
  <2>1. ASSUME crashes = 0, loads = 0, NEW j \in 1 .. pos', j # gap',
               log[j].what = "item", log[j].st \in Ended
        PROVE  told'[log[j].task] # None
    <3>1. CASE j = i
      BY <1>4, <2>1, <3>1
    <3>2. CASE j \in 1 .. pos /\ j # gap
      <4>1. told[log[j].task] # None
        BY <1>1, <2>1, <3>2 DEF ToldInv
      <4>2. log[j].task \in Tasks
        <5>1. j \in 1 .. n
          BY <1>2, <3>2
        <5>2. log[j] \in Reports
          BY <1>1, <5>1 DEF TasksTypeOK
        <5>3. QED
          BY <5>2 DEF Reports
      <4>3. QED
        BY <1>4, <4>1, <4>2
    <3>3. QED
      BY <1>3, <2>1, <3>1, <3>2
  <2>2. QED
    BY <1>1, <2>1 DEF ToldInv
<1>8. PhaseInv'
  BY <1>1 DEF PhaseInv
<1>9. QED
  BY <1>4, <1>5, <1>6, <1>7, <1>8 DEF IInv

\* The tasks of an abandoned session are settled.
LEMMA AbandonOK == IInv /\ Abandon => IInv'
<1> SUFFICES ASSUME IInv, Abandon PROVE IInv'
  OBVIOUS
<1>1. /\ TasksTypeOK /\ FoldsInv /\ LogInv /\ ToldInv /\ ListInv /\ PhaseInv
      /\ UNCHANGED <<kind, host, away, rev, from, log, pos, gap, cursor, listed, gone, told,
                     crashes, loads>>
      /\ phase = "dead" /\ phase' = "closed"
      /\ fold' = [t \in Tasks |-> DisconnectTasks(fold[t])]
  BY DEF IInv, taskVars, Abandon
<1>2. ASSUME NEW t \in Tasks
      PROVE  /\ FoldInv(fold'[t], kind[t]) /\ fold'[t].done = fold[t].done
             /\ fold'[t].ann = fold[t].ann /\ fold'[t].card = fold[t].card
             /\ \A k \in Keys : fold'[t].shown[k] # "running"
  <2>1. fold'[t] = DisconnectTasks(fold[t]) /\ FoldInv(fold[t], kind[t]) /\ kind[t] \in Kinds
    BY <1>1 DEF FoldsInv, TaskInv, TasksTypeOK
  <2>2. QED
    BY <2>1, DisconnectOK
<1>3. TasksTypeOK'
  <2>1. fold' \in [Tasks -> TaskFolds]
    <3>1. \A t \in Tasks : DisconnectTasks(fold[t]) \in TaskFolds
      BY <1>1, <1>2 DEF FoldInv
    <3>2. QED
      BY <1>1, <3>1
  <2>2. QED
    BY <1>1, <2>1 DEF TasksTypeOK
<1>4. FoldsInv'
  BY <1>1, <1>2 DEF FoldsInv, TaskInv
<1>5. LogInv' /\ ListInv' /\ ToldInv'
  BY <1>1 DEF LogInv, ReportInv, ListInv, ToldInv
<1>6. PhaseInv'
  BY <1>1, <1>2 DEF PhaseInv
<1>7. QED
  BY <1>3, <1>4, <1>5, <1>6 DEF IInv

\* A resume takes the ends of the tasks it names, and settles those.
LEMMA ReconcileStepOK == IInv /\ Reconcile => IInv'
<1> SUFFICES ASSUME IInv, Reconcile PROVE IInv'
  OBVIOUS
<1>1. /\ TasksTypeOK /\ FoldsInv /\ LogInv /\ ToldInv /\ ListInv /\ PhaseInv
      /\ UNCHANGED <<kind, host, away, rev, from, log, pos, gap, crashes, loads, listed, gone>>
      /\ phase = "resumed" /\ phase' = "reattach" /\ cursor' = Len(log)
  BY DEF IInv, taskVars, foldVars, Reconcile
<1>2. ~(crashes = 0 /\ loads = 0)
  BY <1>1 DEF ToldInv
<1>3. LogInv' /\ ListInv' /\ ToldInv' /\ PhaseInv'
  BY <1>1, <1>2 DEF LogInv, ReportInv, ListInv, ToldInv, PhaseInv
<1>4. CASE UNCHANGED foldVars
  BY <1>1, <1>3, <1>4 DEF IInv, TasksTypeOK, FoldsInv, TaskInv, FoldInv, foldVars
<1>5. CASE /\ fold' = [t \in Tasks |-> ReconcileActiveTasks(fold[t], t, FALSE)]
           /\ told' = ToldByHistory(Taken)
  <2>1. ASSUME NEW t \in Tasks
        PROVE  /\ TaskInv(fold'[t], t) /\ fold'[t] \in TaskFolds
               /\ told'[t] \in {None, "view", "history"}
               /\ told'[t] # None => fold'[t].done
    <3>1. fold'[t] = ReconcileActiveTasks(fold[t], t, FALSE) /\ TaskInv(fold[t], t)
          /\ (told[t] # None => fold[t].done) /\ told[t] \in {None, "view", "history"}
      BY <1>1, <1>5 DEF FoldsInv, TasksTypeOK
    <3>2. told'[t] = IF t \in Taken /\ host[t] \in Ended /\ told[t] = None
                     THEN "history" ELSE told[t]
      BY <1>5 DEF ToldByHistory
    <3>3. /\ TaskInv(fold'[t], t)
          /\ fold[t].done => fold'[t].done
          /\ /\ host[t] \in Ended /\ "own" \in fold[t].ann
             /\ kind[t] = "shell" \/ (kind[t] = "tool" /\ t \in away)
             => fold'[t].done
      BY <1>1, <3>1, ReconcileOK
    <3>4. QED
      BY <3>1, <3>2, <3>3 DEF Taken, TaskInv, FoldInv
  <2>2. FoldsInv'
    BY <1>1, <2>1 DEF FoldsInv, TaskInv
  <2>3. fold' \in [Tasks -> TaskFolds] /\ told' \in [Tasks -> {None, "view", "history"}]
    <3>1. DOMAIN fold' = Tasks /\ fold' = [t \in Tasks |-> fold'[t]]
      BY <1>5
    <3>2. DOMAIN told' = Tasks /\ told' = [t \in Tasks |-> told'[t]]
      BY <1>5 DEF ToldByHistory
    <3>3. QED
      BY <2>1, <3>1, <3>2
  <2>4. TasksTypeOK'
    BY <1>1, <2>3 DEF TasksTypeOK
  <2>5. QED
    BY <1>3, <2>2, <2>4 DEF IInv
<1>6. QED
  BY <1>4, <1>5 DEF Reconcile

LEMMA SeedStepOK == IInv /\ SeedTaskInventory => IInv'
<1> SUFFICES ASSUME IInv, SeedTaskInventory PROVE IInv'
  OBVIOUS
<1>1. /\ TasksTypeOK /\ FoldsInv /\ LogInv /\ ToldInv /\ ListInv /\ PhaseInv
      /\ UNCHANGED <<kind, host, away, rev, from, log, pos, gap, cursor, listed, gone, told,
                     crashes, loads>>
      /\ phase = "seed" /\ phase' = "live"
  BY DEF IInv, taskVars, SeedTaskInventory
<1>2. ~(crashes = 0 /\ loads = 0)
  BY <1>1 DEF ToldInv
<1>3. LogInv' /\ ListInv' /\ ToldInv' /\ PhaseInv'
  BY <1>1, <1>2 DEF LogInv, ReportInv, ListInv, ToldInv, PhaseInv
<1>4. CASE UNCHANGED fold
  BY <1>1, <1>3, <1>4 DEF IInv, TasksTypeOK, FoldsInv, TaskInv, FoldInv
<1>5. CASE fold' = [t \in Tasks |-> IF kind[t] \in {"tool", "shell"} /\ host[t] = "bg"
                                   THEN SeedAsyncTask(fold[t]) ELSE fold[t]]
  <2>1. ASSUME NEW t \in Tasks
        PROVE  TaskInv(fold'[t], t) /\ fold'[t].done = fold[t].done /\ fold'[t] \in TaskFolds
    <3>1. TaskInv(fold[t], t) /\ kind[t] \in Kinds
      BY <1>1 DEF FoldsInv, TasksTypeOK
    <3>2. CASE kind[t] \in {"tool", "shell"} /\ host[t] = "bg"
      <4>1. fold'[t] = SeedAsyncTask(fold[t]) /\ t \in away
        BY <1>1, <1>5, <3>2 DEF LogInv
      <4>2. ~fold[t].done /\ FoldInv(fold[t], kind[t]) /\ kind[t] \in Kinds \ {"workflow"}
        BY <3>1, <3>2 DEF TaskInv, Ended
      <4>3. FoldInv(fold'[t], kind[t]) /\ fold'[t].done = fold[t].done
        BY <4>1, <4>2, SeedOK
      <4>4. QED
        BY <4>1, <4>2, <4>3 DEF TaskInv, FoldInv
    <3>3. CASE ~(kind[t] \in {"tool", "shell"} /\ host[t] = "bg")
      BY <1>5, <3>1, <3>3 DEF TaskInv, FoldInv
    <3>4. QED
      BY <3>2, <3>3
  <2>2. FoldsInv'
    BY <1>1, <2>1 DEF FoldsInv, TaskInv
  <2>3. fold' \in [Tasks -> TaskFolds]
    <3>1. DOMAIN fold' = Tasks /\ fold' = [t \in Tasks |-> fold'[t]]
      BY <1>5
    <3>2. QED
      BY <2>1, <3>1
  <2>4. TasksTypeOK'
    BY <1>1, <2>3 DEF TasksTypeOK
  <2>5. QED
    BY <1>3, <2>2, <2>4 DEF IInv
<1>6. QED
  BY <1>4, <1>5 DEF SeedTaskInventory

\* A load starts from nothing, and a replayed end leaves nothing open.
LEMMA LoadOK == IInv /\ Load => IInv'
<1> SUFFICES ASSUME IInv, Load PROVE IInv'
  OBVIOUS
<1>1. /\ TasksTypeOK /\ FoldsInv /\ LogInv /\ ToldInv /\ ListInv /\ PhaseInv
      /\ UNCHANGED <<kind, host, away, rev, from, log, pos, gap, cursor, crashes>>
      /\ phase = "live" /\ phase' = "seed" /\ loads' = loads + 1 /\ loads \in Nat
  BY DEF IInv, taskVars, Load, TasksTypeOK
<1>2. LogInv' /\ ToldInv' /\ PhaseInv'
  BY <1>1 DEF LogInv, ReportInv, ToldInv, PhaseInv
<1>3. CASE /\ fold' = [t \in Tasks |-> Replayed(t)]
           /\ listed' = ReplayedListing
           /\ gone' = ReplayedGone
           /\ told' = ToldByHistory(Tasks)
  <2>1. ASSUME NEW t \in Tasks
        PROVE  /\ TaskInv(fold'[t], t) /\ fold'[t] \in TaskFolds
               /\ told'[t] \in {None, "view", "history"}
               /\ told'[t] # None => fold'[t].done
    <3>1. /\ kind[t] \in Kinds /\ host[t] \in HostStates
          /\ FoldInv(Blank, kind[t]) /\ ~Blank.done /\ Blank.ann = {} /\ ~Blank.card
      BY <1>1, BlankOK DEF TasksTypeOK, Blank
    <3>2. told[t] # None => host[t] \in Ended
      BY <1>1 DEF FoldsInv, TaskInv
    <3>3. told'[t] = IF host[t] \in Ended /\ told[t] = None THEN "history" ELSE told[t]
      BY <1>3 DEF ToldByHistory
    <3>4. CASE host[t] = None
      <4>1. fold'[t] = Blank /\ told'[t] = None
        BY <1>3, <3>2, <3>3, <3>4 DEF Replayed, Ended, None
      <4>2. QED
        BY <3>1, <4>1 DEF TaskInv, FoldInv
    <3>5. CASE host[t] # None
      <4> DEFINE bg == t \in away
                 o == OnItem(Blank, kind[t], host[t], bg, TRUE)
      <4>1. fold'[t] = ReconcileActiveTasks(o, t, TRUE)
        BY <1>3, <3>5 DEF Replayed
      <4>2. bg \in BOOLEAN /\ TRUE \in BOOLEAN
        OBVIOUS
      <4>3. FoldInv(o, kind[t]) /\ (o.done <=> host[t] \in Ended)
        BY <3>1, <4>2, OnItemOK
      <4>4. kind[t] = "tool" /\ (o.ann # {} \/ o.card) => t \in away
        <5>1. SUFFICES ASSUME kind[t] = "tool", ~bg PROVE o.ann = {} /\ ~o.card
          OBVIOUS
        <5>2. Blank \in TaskFolds
          BY <3>1 DEF FoldInv
        <5>3. QED
          BY <3>1, <4>2, <5>1, <5>2, OnItemAnnounces
      <4> HIDE DEF o
      <4>5. TaskInv(o, t)
        BY <4>3, <4>4 DEF TaskInv
      <4>6. TaskInv(fold'[t], t) /\ (o.done => fold'[t].done)
        BY <1>1, <4>1, <4>5, ReconcileOK
      <4>7. told'[t] # None => host[t] \in Ended
        BY <3>2, <3>3
      <4>8. told[t] \in {None, "view", "history"}
        BY <1>1 DEF TasksTypeOK
      <4>9. QED
        BY <3>3, <4>3, <4>6, <4>7, <4>8 DEF TaskInv, FoldInv
    <3>6. QED
      BY <3>4, <3>5
  <2>2. FoldsInv'
    BY <1>1, <2>1 DEF FoldsInv, TaskInv
  <2>3. /\ fold' \in [Tasks -> TaskFolds] /\ told' \in [Tasks -> {None, "view", "history"}]
        /\ listed' \in [Tasks -> Nat] /\ gone' \subseteq Tasks
    <3>1. DOMAIN fold' = Tasks /\ fold' = [t \in Tasks |-> fold'[t]]
      BY <1>3
    <3>2. DOMAIN told' = Tasks /\ told' = [t \in Tasks |-> told'[t]]
      BY <1>3 DEF ToldByHistory
    <3>3. listed' \in [Tasks -> Nat] /\ gone' \subseteq Tasks
      BY <1>1, <1>3 DEF ReplayedListing, ReplayedGone, TasksTypeOK
    <3>4. QED
      BY <2>1, <3>1, <3>2, <3>3
  <2>4. TasksTypeOK'
    BY <1>1, <2>3 DEF TasksTypeOK
  <2>5. ListInv'
    BY <1>1, <1>3 DEF ListInv, ReplayedListing, ReplayedGone, InFlight, Running, None
  <2>6. QED
    BY <1>2, <2>2, <2>4, <2>5 DEF IInv
<1>4. CASE /\ fold' = [t \in Tasks |-> Blank]
           /\ listed' = [t \in Tasks |-> 0] /\ gone' = {}
           /\ told' = [t \in Tasks |-> None]
  <2>1. ASSUME NEW t \in Tasks
        PROVE  /\ FoldInv(Blank, kind[t]) /\ ~Blank.done /\ Blank.ann = {} /\ ~Blank.card
               /\ Blank \in TaskFolds
    BY <1>1, BlankOK DEF TasksTypeOK, Blank, FoldInv
  <2>2. FoldsInv'
    BY <1>1, <1>4, <2>1 DEF FoldsInv, TaskInv
  <2>3. TasksTypeOK'
    <3>1. fold' \in [Tasks -> TaskFolds]
      BY <1>4, <2>1
    <3>2. QED
      BY <1>1, <1>4, <3>1 DEF TasksTypeOK
  <2>4. ListInv'
    BY <1>4 DEF ListInv
  <2>5. QED
    BY <1>2, <2>2, <2>3, <2>4 DEF IInv
<1>5. QED
  BY <1>3, <1>4 DEF Load

\* A death, a resume and a re-attach move positions only.
LEMMA ReattachOK == IInv /\ (Crash \/ Resume \/ ReattachView) => IInv'
<1> SUFFICES ASSUME IInv, Crash \/ Resume \/ ReattachView PROVE IInv'
  OBVIOUS
<1>1. /\ TasksTypeOK /\ FoldsInv /\ LogInv /\ ToldInv /\ ListInv /\ PhaseInv
      /\ UNCHANGED <<kind, host, away, rev, from, log, fold, listed, gone, told, loads>>
      /\ phase' \in {"dead", "resumed", "seed"}
  BY DEF IInv, taskVars, foldVars, Crash, Resume, ReattachView
<1>2. /\ pos' \in 0 .. Len(log) /\ gap' \in 0 .. pos' /\ cursor' \in 0 .. Len(log)
      /\ crashes' \in Nat /\ ~(crashes' = 0 /\ loads = 0)
      /\ phase' \in {"dead", "resumed", "reattach"} => gap' = 0
  <2>1. /\ Len(log) \in Nat /\ pos \in 0 .. Len(log) /\ gap \in 0 .. pos
        /\ cursor \in 0 .. Len(log) /\ crashes \in Nat
        /\ phase # "live" => ~(crashes = 0 /\ loads = 0)
        /\ phase \in {"dead", "resumed", "reattach"} => gap = 0
    BY <1>1 DEF TasksTypeOK, ToldInv, PhaseInv
  <2>2. CASE Crash
    BY <2>1, <2>2 DEF Crash
  <2>3. CASE Resume
    BY <2>1, <2>3 DEF Resume
  <2>4. CASE ReattachView
    <3>1. gap' = 0 /\ crashes' = crashes /\ ~(crashes = 0 /\ loads = 0) /\ phase' = "seed"
      BY <2>1, <2>4 DEF ReattachView
    <3>2. (pos' = pos /\ cursor' = Len(log)) \/ (pos' = cursor /\ cursor' = cursor)
      BY <2>4 DEF ReattachView
    <3>3. QED
      BY <2>1, <3>1, <3>2
  <2>5. QED
    BY <2>2, <2>3, <2>4
<1>3. TasksTypeOK'
  BY <1>1, <1>2 DEF TasksTypeOK
<1>4. FoldsInv' /\ LogInv' /\ ToldInv' /\ ListInv' /\ PhaseInv'
  BY <1>1, <1>2 DEF FoldsInv, TaskInv, FoldInv, LogInv, ReportInv, ToldInv, ListInv, PhaseInv
<1>5. QED
  BY <1>3, <1>4 DEF IInv

----------------------------------------------------------------------------
(* The theorems.                                                           *)

LEMMA StepOK == IInv /\ [TasksNext]_tasksVars => IInv'
<1> SUFFICES ASSUME IInv, [TasksNext]_tasksVars PROVE IInv'
  OBVIOUS
<1>1. ASSUME NEW t \in Tasks, HostMoves(t) PROVE IInv'
  <2>1. PICK next \in Running \cup Ended : Moves(t, next)
    BY <1>1 DEF HostMoves
  <2>2. next \in HostStates /\ UNCHANGED <<kind, pos, gap, cursor, phase, foldVars, crashes, loads>>
    BY <1>1 DEF HostMoves, HostStates
  <2>3. QED
    BY <2>1, <2>2, MovesOK
<1>2. ASSUME NEW t \in Tasks, \/ StopAllBackgroundTasks(t)
                             \/ \E k \in Keys : StopAsyncTask(t, k)
      PROVE  IInv'
  <2>1. /\ Moves(t, "stopped") /\ "stopped" \in HostStates
        /\ UNCHANGED <<kind, pos, gap, cursor, phase, foldVars, crashes, loads>>
    BY <1>2 DEF StopAllBackgroundTasks, StopAsyncTask, HostStates, Ended
  <2>2. QED
    BY <2>1, MovesOK
<1>3. CASE UNCHANGED tasksVars
  BY <1>3 DEF tasksVars, IInv, TasksTypeOK, FoldsInv, TaskInv, FoldInv, LogInv, ReportInv, ToldInv,
              ListInv, PhaseInv
<1>4. QED
  BY <1>1, <1>2, <1>3, ResumesAsOK, DeliveryOK, AbandonOK, ReconcileStepOK, SeedStepOK,
     LoadOK, ReattachOK DEF TasksNext

THEOREM Invariant == TasksSpec => []IInv
<1>1. TasksInit => IInv
  BY InitOK
<1>2. IInv /\ [TasksNext]_tasksVars => IInv'
  BY StepOK
<1>3. QED
  BY <1>1, <1>2, PTL DEF TasksSpec

\* Every reachable state is well typed.
THEOREM TasksTypeCorrect == TasksSpec => []TasksTypeOK
<1>1. IInv => TasksTypeOK
  BY DEF IInv
<1>2. QED
  BY <1>1, Invariant, PTL

\* Once the fold was told of a task's end, by the view, by the history of a
\* resume or by a replay, the client's panel does not show it running, whatever
\* report of it is refilled late.
THEOREM NothingStaysRunning == TasksSpec => []NoStuckTask
<1>1. ASSUME IInv PROVE NoStuckTask
  <2>1. SUFFICES ASSUME NEW t \in Tasks, NEW k \in Keys, fold[t].shown[k] = "running"
                 PROVE  /\ told[t] = None
                        /\ Quiet /\ crashes = 0 /\ loads = 0 => host[t] \notin Ended
                        /\ phase # "closed"
    BY DEF NoStuckTask
  <2>2. ~fold[t].done
    BY <1>1, <2>1 DEF IInv, FoldsInv, TaskInv, FoldInv
  <2>3. told[t] = None
    BY <1>1, <2>2 DEF IInv, FoldsInv
  <2>4. ASSUME Quiet, crashes = 0, loads = 0, host[t] \in Ended PROVE FALSE
    <3>1. PICK i \in 1 .. Len(log) :
            log[i].task = t /\ log[i].what = "item" /\ log[i].st = host[t]
      BY <1>1, <2>4 DEF IInv, ToldInv
    <3>2. i \in 1 .. pos /\ i # gap /\ log[i].st \in Ended
      BY <2>4, <3>1 DEF Quiet
    <3>3. told[log[i].task] # None
      BY <1>1, <2>4, <3>1, <3>2 DEF IInv, ToldInv
    <3>4. QED
      BY <2>3, <3>1, <3>3
  <2>5. phase # "closed"
    BY <1>1, <2>1 DEF IInv, PhaseInv
  <2>6. QED
    BY <2>3, <2>4, <2>5
<1>2. QED
  BY <1>1, Invariant, PTL

\* A run is never listed beside the run that resumed it.
THEOREM OneGenerationListed == TasksSpec => []NoTwoGenerations
<1>1. IInv => NoTwoGenerations
  BY DEF IInv, ListInv, NoTwoGenerations
<1>2. QED
  BY <1>1, Invariant, PTL
==============================================================================
