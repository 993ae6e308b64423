----------------------------- MODULE AutoReview ------------------------------
(***************************************************************************)
(* Auto-review (main.rs, ReviewState): approvals handed to a memory-only   *)
(* reviewer host, one review at a time.  Each review is a fresh session on *)
(* that host and a turn that must end in a verdict, with follow-up turns   *)
(* when it does not, a deadline, and a host that is launched on first use, *)
(* recycled, reset after a failure, and may exit at any moment.            *)
(*                                                                         *)
(* The loop is one thread; start_next_review and a verdict follow-up are   *)
(* cut at their host commands (`loopAt`), because the reviewer host runs   *)
(* meanwhile.  Its events carry the generation of the process and are read *)
(* in order from `chan`.  The reviewer host is external.                   *)
(***************************************************************************)
EXTENDS Naturals, Sequences, SequencesExt

CONSTANTS
    Jobs,            \* approvals that ask for a review
    SessionsPerHost, \* reviewer::SESSIONS_PER_HOST
    VerdictRetries,  \* reviewer::VERDICT_RETRIES
    NoReject,        \* jobs whose approval offers no reject-like choice
    NoOnce,          \* jobs whose approval offers no once-scoped approval
    MaxActs          \* bound on the messages and exits of reviewer hosts

ASSUME AutoReviewAssumption ==
    /\ SessionsPerHost \in Nat \ {0}
    /\ VerdictRetries \in Nat /\ MaxActs \in Nat
    /\ NoReject \subseteq Jobs /\ NoOnce \subseteq Jobs
    /\ "none" \notin Jobs

VARIABLES
    loopAt, job, sess, how,     \* the handler running and its locals
    queue, active, session, hostSessions,        \* ReviewState
    text, retries, turn, deadline,
    slot,                       \* generation of the current reviewer host, or 0
    launched, alive,            \* generations launched, processes running
    sessions, turns,            \* reviewer sessions and turns, by id
    chan, acts,
    hres, resolved,             \* approvals terminal at the host, and known so
    asked, outcome              \* jobs enqueued, and what became of each

reviewState == <<queue, active, session, hostSessions, text, retries, turn, deadline>>
reviewerVars == <<launched, alive, sessions, turns, chan, acts>>
reviewVars == <<loopAt, job, sess, how, reviewState, slot, reviewerVars, hres, resolved, asked, outcome>>

Verdicts == {"allow", "deny"}
Classes == Verdicts \cup {"vague"}
NoText == [class |-> "vague", of |-> "none"]
Events ==
    [m : {"message"}, gen : Nat, sid : Nat, class : Classes] \cup
    [m : {"completed"}, gen : Nat, sid : Nat, turn : Nat, ok : BOOLEAN] \cup
    [m : {"foreground"}, gen : Nat, sid : Nat, turn : Nat] \cup
    [m : {"closed"}, gen : Nat]

LoopOK ==
    /\ loopAt \in {"idle", "start", "launch", "session", "turn", "retry", "settle"}
    /\ job \in Jobs \cup {"none"} /\ sess \in Nat
    /\ how \in {"none", "completed", "failed"}
    /\ slot \in Nat

ReviewOK ==
    /\ queue \in Seq(Jobs) /\ active \in Jobs \cup {"none"}
    /\ session \in Nat /\ hostSessions \in Nat
    /\ text \in [class : Classes, of : Jobs \cup {"none"}]
    /\ retries \in Nat /\ turn \in Nat /\ deadline \in BOOLEAN

HostOK ==
    /\ launched \in Nat /\ alive \subseteq 1..launched
    /\ sessions \in Seq([gen : Nat, of : Jobs])
    /\ turns \in Seq([sid : Nat, of : Jobs, st : {"run", "fg", "end"}])
    /\ chan \in Seq(Events) /\ acts \in Nat

JobsOK ==
    /\ hres \subseteq Jobs /\ resolved \subseteq hres /\ asked \subseteq Jobs
    /\ outcome \in [Jobs -> {"none", "allow", "deny", "failClosed", "dropped"}]

ReviewTypeOK == LoopOK /\ ReviewOK /\ HostOK /\ JobsOK

ReviewInit ==
    /\ loopAt = "idle" /\ job = "none" /\ sess = 0 /\ how = "none"
    /\ queue = <<>> /\ active = "none" /\ session = 0 /\ hostSessions = 0
    /\ text = NoText /\ retries = 0 /\ turn = 0 /\ deadline = FALSE
    /\ slot = 0 /\ launched = 0 /\ alive = {}
    /\ sessions = <<>> /\ turns = <<>> /\ chan = <<>> /\ acts = 0
    /\ hres = {} /\ resolved = {} /\ asked = {}
    /\ outcome = [j \in Jobs |-> "none"]

Gen(sid) == sessions[sid].gen
\* A process that ends sends Closed after everything it sent before.
Ends(g) == alive' = alive \ {g} /\ chan' = Append(chan, [m |-> "closed", gen |-> g])
-----------------------------------------------------------------------------
(* Settling a job                                                          *)

\* deny_review_job: the host's own reject choice, else fail closed.
Denial(j) == IF j \in NoReject THEN "failClosed" ELSE "deny"
Deny(j) == outcome' = [outcome EXCEPT ![j] = Denial(j)]
\* Mutant: the verdict is applied to an approval that resolved meanwhile.
DenyAnyway(j) == Deny(j)
\* deny unless the approval resolved while the reviewer turn ran.
DenyUnlessResolved(j) ==
    outcome' = [outcome EXCEPT ![j] = IF j \in resolved THEN "dropped" ELSE Denial(j)]

\* reset_reviewer_host: stop the process, forget its session.
Reset ==
    /\ slot' = 0 /\ session' = 0 /\ hostSessions' = 0
    /\ IF slot \in alive THEN Ends(slot) ELSE UNCHANGED <<alive, chan>>
-----------------------------------------------------------------------------
(* enqueue_review and start_next_review                                    *)

\* approval_seen admits a requirement once.
EnqueueReview(j) ==
    /\ loopAt = "idle" /\ j \notin asked \cup resolved
    /\ asked' = asked \cup {j}
    /\ queue' = Append(queue, j)
    /\ loopAt' = "start"
    /\ UNCHANGED <<job, sess, how, active, session, hostSessions, text, retries, turn,
                   deadline, slot, reviewerVars, hres, resolved, outcome>>

\* The process has held its share of reviews.
HostSpent == hostSessions >= SessionsPerHost

StartNextReview ==
    /\ loopAt = "start"
    /\ IF active # "none" \/ queue = <<>>
       THEN /\ loopAt' = "idle"
            /\ UNCHANGED <<job, sess, queue, session, hostSessions, slot, alive, chan>>
       ELSE /\ job' = Head(queue) /\ queue' = Tail(queue)
            /\ sess' = session
            /\ IF HostSpent THEN Reset
               ELSE UNCHANGED <<slot, session, hostSessions, alive, chan>>
            /\ loopAt' = "launch"
    /\ UNCHANGED <<how, active, text, retries, turn, deadline, launched, sessions, turns,
                   acts, hres, resolved, asked, outcome>>

\* Hosts::reviewer_host: the current process, dead or not, or a new one.
LaunchReviewer ==
    /\ loopAt = "launch"
    /\ \/ slot # 0 /\ loopAt' = "session" /\ UNCHANGED <<slot, launched, alive, outcome>>
       \/ /\ slot = 0
          /\ launched' = launched + 1 /\ slot' = launched' /\ alive' = alive \cup {launched'}
          /\ loopAt' = "session" /\ UNCHANGED outcome
       \/ /\ slot = 0 /\ Deny(job) /\ loopAt' = "start"
          /\ UNCHANGED <<slot, launched, alive>>
    /\ UNCHANGED <<job, sess, how, reviewState, sessions, turns, chan, acts,
                   hres, resolved, asked>>

\* session/start, unless a reviewer session was at hand.
StartSession ==
    /\ loopAt = "session"
    /\ \/ sess # 0 /\ loopAt' = "turn" /\ UNCHANGED <<sess, session, hostSessions, sessions, outcome>>
       \/ /\ sess = 0 /\ slot \in alive
          /\ sessions' = Append(sessions, [gen |-> slot, of |-> job])
          /\ session' = Len(sessions') /\ sess' = session'
          /\ hostSessions' = hostSessions + 1
          /\ loopAt' = "turn" /\ UNCHANGED outcome
       \/ /\ sess = 0 /\ Deny(job) /\ loopAt' = "start"
          /\ UNCHANGED <<sess, session, hostSessions, sessions>>
    /\ UNCHANGED <<job, how, queue, active, text, retries, turn, deadline, slot, launched,
                   alive, turns, chan, acts, hres, resolved, asked>>

\* A host starts a turn only in a session it holds.
CanStartTurn(s) == slot \in alive /\ Gen(s) = slot
NewTurn(s, j) == turns' = Append(turns, [sid |-> s, of |-> j, st |-> "run"])

\* Mutant: the review starts without a deadline.
ActivateUntimed(j) ==
    /\ active' = j /\ text' = NoText /\ retries' = 0
    /\ turn' = Len(turns') /\ UNCHANGED deadline
\* The review is running, and can expire.
Activate(j) ==
    /\ active' = j /\ text' = NoText /\ retries' = 0
    /\ turn' = Len(turns') /\ deadline' = TRUE

\* turn/start with the review prompt.
StartTurn ==
    /\ loopAt = "turn"
    /\ \/ /\ CanStartTurn(sess) /\ NewTurn(sess, job)
          /\ Activate(job)
          /\ loopAt' = "idle"
          /\ UNCHANGED <<session, hostSessions, slot, alive, chan, outcome>>
       \/ /\ Deny(job) /\ Reset
          /\ loopAt' = "start"
          /\ UNCHANGED <<active, text, retries, turn, deadline, turns>>
    /\ UNCHANGED <<job, sess, how, queue, launched, sessions, acts, hres,
                   resolved, asked>>
-----------------------------------------------------------------------------
(* handle_review_event                                                     *)

Event == Head(chan)
\* The loop takes an event; one from a replaced process is dropped.
Take(m) == loopAt = "idle" /\ chan # <<>> /\ Event.m = m
Current == slot = Event.gen
\* Mutant: any session of the host.
ThisHost == Current
\* A finished review's session, or another turn of this one.
ThisReview == Current /\ session = Event.sid
ThisTurn == ThisReview /\ (turn = 0 \/ turn = Event.turn)
Drop == chan' = Tail(chan) /\ UNCHANGED <<loopAt, job, sess, how, reviewState, slot, launched,
            alive, sessions, turns, acts, hres, resolved, asked, outcome>>

\* item/delta and item/completed of an agent message: the latest one counts.
ReviewerMessage ==
    /\ Take("message")
    /\ IF ThisReview /\ active # "none"
       THEN /\ text' = [class |-> Event.class, of |-> sessions[Event.sid].of]
            /\ chan' = Tail(chan)
            /\ UNCHANGED <<loopAt, job, sess, how, queue, active, session, hostSessions, retries,
                           turn, deadline, slot, launched, alive, sessions, turns, acts, hres, resolved, asked, outcome>>
       ELSE Drop

\* turn/completed: ask again when the reply has no verdict, else settle.
ReviewerCompleted ==
    /\ Take("completed")
    /\ IF ThisTurn
       THEN /\ how' = IF Event.ok THEN "completed" ELSE "failed"
            /\ IF Event.ok /\ active # "none" /\ retries < VerdictRetries
                  /\ text.class \notin Verdicts
               THEN retries' = retries + 1 /\ turn' = 0 /\ loopAt' = "retry"
               ELSE UNCHANGED <<retries, turn>> /\ loopAt' = "settle"
            /\ chan' = Tail(chan)
            /\ UNCHANGED <<job, sess, queue, active, session, hostSessions, text, deadline,
                           slot, launched, alive, sessions, turns, acts, hres,
                           resolved, asked, outcome>>
       ELSE Drop

\* turn/foregroundCompleted: a verdict settles at once, anything else waits.
ReviewerForeground ==
    /\ Take("foreground")
    /\ IF ThisTurn /\ active # "none" /\ text.class \in Verdicts
       THEN /\ how' = "completed" /\ loopAt' = "settle"
            /\ chan' = Tail(chan)
            /\ UNCHANGED <<job, sess, reviewState, slot, launched, alive, sessions, turns,
                           acts, hres, resolved, asked, outcome>>
       ELSE Drop

\* retry_review_for_verdict: a follow-up turn in the review's own session.
RetryForVerdict ==
    /\ loopAt = "retry"
    /\ \/ /\ CanStartTurn(session) /\ NewTurn(session, active)
          /\ turn' = Len(turns') /\ loopAt' = "idle"
       \/ loopAt' = "settle" /\ UNCHANGED <<turn, turns>>
    /\ UNCHANGED <<job, sess, how, queue, active, session, hostSessions, text, retries,
                   deadline, slot, launched, alive, sessions, chan, acts, hres,
                   resolved, asked, outcome>>

\* What finish_review makes of the reply, and whether it resets the host.
Finished(j) ==
    IF j \in resolved THEN "dropped"
    ELSE IF text.class = "allow" /\ j \notin NoOnce THEN "allow"
    ELSE Denial(j)
Resets(j) == how = "failed" \/ (j \notin resolved /\ text.class \notin Verdicts)

\* The session is spent; the process stays for the next review.
ForgetSession == session' = 0 /\ UNCHANGED <<hostSessions, slot, alive, chan>>

\* The active review is taken: finish_review or fail_review_turn.
SettleReview ==
    /\ loopAt = "settle"
    /\ active' = "none" /\ deadline' = FALSE /\ text' = NoText
    /\ IF active = "none"
       THEN loopAt' = "idle" /\ ForgetSession /\ UNCHANGED outcome
       ELSE /\ IF how = "completed"
               THEN outcome' = [outcome EXCEPT ![active] = Finished(active)]
               ELSE DenyUnlessResolved(active)
            /\ IF Resets(active) THEN Reset ELSE ForgetSession
            /\ loopAt' = "start"
    /\ how' = "none"
    /\ UNCHANGED <<job, sess, queue, retries, turn, launched, sessions, turns, acts, hres, resolved, asked>>

\* expire_review_deadline: the reviewer turn never ended.  recv_timeout reports
\* the timeout only when no message is waiting.
ExpireDeadline ==
    /\ loopAt = "idle" /\ chan = <<>> /\ deadline /\ active # "none"
    /\ deadline' = FALSE /\ active' = "none"
    /\ DenyUnlessResolved(active)
    /\ Reset
    /\ loopAt' = "start"
    /\ UNCHANGED <<job, sess, how, queue, text, retries, turn, launched, sessions, turns,
                   acts, hres, resolved, asked>>

\* MspEvent::Closed of the reviewer host, in the main loop.
ReviewerClosed ==
    /\ Take("closed")
    /\ IF Current
       THEN /\ slot' = 0 /\ deadline' = FALSE /\ active' = "none"
            /\ IF active = "none" THEN UNCHANGED <<loopAt, outcome>>
               ELSE Deny(active) /\ loopAt' = "start"
            /\ chan' = Tail(chan)
            /\ UNCHANGED <<job, sess, how, queue, session, hostSessions, text, retries, turn,
                           launched, alive, sessions, turns, acts, hres, resolved,
                           asked>>
       ELSE Drop

\* drop_queued_review: a job that has not started is dropped.  A requirement is
\* queued once.
DropQueued(j) ==
    \/ /\ \E i \in DOMAIN queue : queue[i] = j /\ queue' = RemoveAt(queue, i)
       /\ outcome' = [outcome EXCEPT ![j] = "dropped"]
    \/ (\A i \in DOMAIN queue : queue[i] # j) /\ UNCHANGED <<queue, outcome>>

\* approval/resolved on the main host: drop_queued_review.
ApprovalResolved(j) ==
    /\ loopAt = "idle" /\ j \in hres \ resolved
    /\ resolved' = resolved \cup {j}
    /\ DropQueued(j)
    /\ UNCHANGED <<loopAt, job, sess, how, active, session, hostSessions, text, retries, turn,
                   deadline, slot, reviewerVars, hres, asked>>
-----------------------------------------------------------------------------
(* The hosts, external                                                     *)

localVars == <<loopAt, job, sess, how, reviewState, slot, resolved, asked, outcome>>
Running(t) == turns[t].st # "end" /\ Gen(turns[t].sid) \in alive

HostMessage(t, c) ==
    /\ Running(t) /\ acts < MaxActs
    /\ acts' = acts + 1
    /\ chan' = Append(chan, [m |-> "message", gen |-> Gen(turns[t].sid),
                             sid |-> turns[t].sid, class |-> c])
    /\ UNCHANGED <<localVars, launched, alive, sessions, turns, hres>>

HostForeground(t) ==
    /\ Running(t) /\ turns[t].st = "run"
    /\ turns' = [turns EXCEPT ![t].st = "fg"]
    /\ chan' = Append(chan, [m |-> "foreground", gen |-> Gen(turns[t].sid),
                             sid |-> turns[t].sid, turn |-> t])
    /\ UNCHANGED <<localVars, launched, alive, sessions, acts, hres>>

HostCompletes(t, ok) ==
    /\ Running(t)
    /\ turns' = [turns EXCEPT ![t].st = "end"]
    /\ chan' = Append(chan, [m |-> "completed", gen |-> Gen(turns[t].sid),
                             sid |-> turns[t].sid, turn |-> t, ok |-> ok])
    /\ UNCHANGED <<localVars, launched, alive, sessions, acts, hres>>

HostExits(g) ==
    /\ g \in alive /\ acts < MaxActs
    /\ acts' = acts + 1
    /\ Ends(g)
    /\ UNCHANGED <<localVars, launched, sessions, turns, hres>>

\* The approval is decided elsewhere, or its turn ends.
HostResolves(j) ==
    /\ j \in asked \ hres
    /\ hres' = hres \cup {j}
    /\ UNCHANGED <<localVars, reviewerVars>>
-----------------------------------------------------------------------------
Loop ==
    \/ StartNextReview \/ LaunchReviewer \/ StartSession \/ StartTurn
    \/ ReviewerMessage \/ ReviewerCompleted \/ ReviewerForeground \/ ReviewerClosed
    \/ RetryForVerdict \/ SettleReview
Host ==
    \/ \E t \in DOMAIN turns :
          \/ \E c \in Classes : HostMessage(t, c)
          \/ HostForeground(t)
          \/ \E ok \in BOOLEAN : HostCompletes(t, ok)
    \/ \E g \in alive : HostExits(g)
    \/ \E j \in Jobs : HostResolves(j)

ReviewNext ==
    \/ Loop \/ ExpireDeadline \/ Host
    \/ \E j \in Jobs : EnqueueReview(j) \/ ApprovalResolved(j)

\* The loop runs, and recv_timeout wakes it when the deadline passes.  Nothing is
\* assumed of the reviewer host.
Fairness == WF_reviewVars(Loop) /\ SF_reviewVars(ExpireDeadline)
ReviewSpec == ReviewInit /\ [][ReviewNext]_reviewVars
ReviewFairSpec == ReviewSpec /\ Fairness
-----------------------------------------------------------------------------
(* Properties                                                              *)

\* The verdict at hand is a message of the active review's own session: a late
\* event of an earlier review, host or turn never settles another approval.
VerdictIsOwn ==
    (active # "none" /\ text.class \in Verdicts) => text.of = active

\* Every review starts a fresh session: a turn is only asked for in the session
\* this review started, so none inherits an earlier review's history.
SessionIsOwn == loopAt = "turn" => sessions[sess].of = job

\* The next event says that the current reviewer host exited.
ReviewerExits == chan # <<>> /\ Event.m = "closed" /\ Current

\* A verdict, a failed turn or an expired deadline that comes after the approval
\* resolved is discarded: an approval known to be terminal is never allowed, and is
\* denied only if the host that reviews it exits, which does not look (main.rs, the
\* Closed arm).
NoGhostDecision ==
    [][\A j \in resolved : outcome'[j] # outcome[j] =>
          \/ outcome'[j] = "dropped"
          \/ j = active /\ outcome'[j] = Denial(j) /\ ReviewerExits]_reviewVars

\* Every approval handed to the reviewer is settled, whatever the reviewer does.
EveryReviewSettles ==
    \A j \in Jobs : j \in asked ~> outcome[j] # "none"
=============================================================================
