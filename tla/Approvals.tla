------------------------------ MODULE Approvals ------------------------------
(***************************************************************************)
(* The permission path of one ACP session (main.rs): approvals the Muse    *)
(* host opens, the single prompt the editor shows, the queue behind it,    *)
(* the optional guidance form, adapter policy, auto-review jobs, and the   *)
(* reconciliation after a host restart.                                    *)
(*                                                                         *)
(* The adapter's loop is one thread, but it blocks in host commands and    *)
(* the host goes on meanwhile, so a handler is cut at its host commands:   *)
(* `loop` says where the running handler is.  Host events reach the loop   *)
(* in order through `events`; an editor answer may arrive at any time, and *)
(* more than once.  The host and the editor are external.                  *)
(***************************************************************************)
EXTENDS Naturals, Sequences, SequencesExt, FiniteSets

CONSTANTS
    Apps,          \* approvals, each an (MSP session id, approval id) pair
    Child,         \* those opened by a child stream
    Offers,        \* availableChoices of each approval, as choice classes
    Policy,        \* requirements MUSE_ACP_ALLOW_COMMAND_PREFIXES matches
    Stages,        \* requirements an approval may go through
    ElicitForm,    \* the client renders forms (ELICIT_FORM)
    FreshSession,  \* session/new; FALSE for a resumed one with history
    HistoryFails,  \* view/page may fail while the host is up
    EventCap,      \* bound: events the loop is behind the host
    MaxOpen,       \* bound: approvals of Apps that come up in one behaviour
    MaxRare        \* bound: reissues, host exits and auto-review toggles

\* once and always approve, with scope "once" or a standing one; reject and
\* guided are reject-like, guided accepts feedback; other is an unknown decision.
ChoiceClasses == {"once", "always", "reject", "guided", "other"}
Approving == {"once", "always"}
RejectLike == {"reject", "guided"}
\* approve_once_choice: what policy and the reviewer may approve with.
OnceScoped == {"once"}

ASSUME ApprovalsAssumption ==
    /\ Child \subseteq Apps /\ Policy \subseteq [a : Apps, stage : 1..Stages]
    /\ Offers \in [Apps -> SUBSET ChoiceClasses]
    /\ Stages \in Nat \ {0}
    /\ ElicitForm \in BOOLEAN /\ FreshSession \in BOOLEAN /\ HistoryFails \in BOOLEAN
    /\ EventCap \in Nat /\ MaxOpen \in Nat /\ MaxRare \in Nat

VARIABLES
    hstage, hdone, up,        \* the host: requirement reached (0: not opened),
                              \* terminal approvals, process running
    stopping, turnOver,       \* owners ("root", "child") told to stop; turn ended
    events,                   \* what the host sent and the loop has not read
    reissues, crashes, toggles,
    loop, cur, rows,          \* the handler running, its parameters, listPending
    pending, queue,           \* AcpSession::pending_perm, perm_queue
    seen, resolved, unread,   \* approval_seen, approval_resolved, history owed
    reviewing,                \* approval_reviewing rows
    autoReview, jobs,         \* auto_review, jobs handed to the reviewer
    attached,                 \* the session survived the last restart
    asks,                     \* requests sent to the editor, by request id
    sent                      \* approval/decide commands sent, by requirement

hostVars  == <<hstage, hdone, up, stopping, turnOver, events, reissues, crashes>>
boardVars == <<pending, queue, seen, asks>>
vars == <<hostVars, toggles, loop, cur, rows, boardVars, resolved, unread,
          reviewing, autoReview, jobs, attached, sent>>

Rare == reissues + crashes + toggles
Keys == [a : Apps, stage : 1..Stages]
Owner(a) == IF a \in Child THEN "child" ELSE "root"
Open(a) == hstage[a] > 0 /\ a \notin hdone
None == [ask |-> 0]
NoForm == [ask |-> 0]
Idle == [by |-> "nobody"]
\* The request the editor shows for a permission: its form once one was opened.
ShownAsk(p) == IF p.form = NoForm THEN p.ask ELSE p.form.ask
Displayed(a) == pending # None /\ pending.a = a
Queued(a) == \E i \in DOMAIN queue : queue[i].a = a

\* What the session may show, and the parameters of the handlers cut in two.
Perms == [ask : Nat \ {0}, a : Apps, stage : 1..Stages,
          form : {NoForm} \cup [ask : Nat \ {0}, choice : ChoiceClasses]]
Openings == [by : {"open"}, a : Apps, stage : 1..Stages]
Decisions == [by : {"user", "policy", "review"}, a : Apps, stage : 1..Stages,
              choice : ChoiceClasses, ask : Nat, pick : ChoiceClasses \cup {"none"}]
Happenings == [m : {"open", "reviewing"}, a : Apps, stage : 1..Stages]
              \cup [m : {"resolved"}, a : Apps, stage : {0}] \cup [m : {"turnDone"}]
Requests == [kind : {"permission", "form"}, a : Apps, stage : 1..Stages, live : BOOLEAN]

HostOK ==
    /\ hstage \in [Apps -> 0..Stages] /\ hdone \subseteq Apps /\ up \in BOOLEAN
    /\ stopping \subseteq {"root", "child"} /\ turnOver \in BOOLEAN
    /\ events \in Seq(Happenings)
    /\ reissues \in Nat /\ crashes \in Nat /\ toggles \in Nat
LoopOK ==
    /\ loop \in {"idle", "open", "decide", "pop", "reconcile"}
    /\ rows \subseteq {a \in Apps : hstage[a] > 0}
    /\ loop = "open" => cur \in Openings
    /\ loop = "decide" => cur \in Decisions
BoardOK ==
    /\ pending # None => pending \in Perms
    /\ queue \in Seq(Keys)
    /\ seen \subseteq Keys
    /\ asks \in Seq(Requests)
MemoryOK ==
    /\ resolved \subseteq Apps /\ unread \in BOOLEAN /\ reviewing \subseteq Apps
    /\ autoReview \in BOOLEAN /\ jobs \subseteq Keys /\ attached \in BOOLEAN
    /\ sent \in [Keys -> Nat]

TypeOK == HostOK /\ LoopOK /\ BoardOK /\ MemoryOK

Init ==
    /\ hdone \in {h \in SUBSET Apps : Cardinality(h) < IF FreshSession THEN 1 ELSE MaxOpen}
    /\ hstage = [a \in Apps |-> IF a \in hdone THEN 1 ELSE 0]
    /\ up = TRUE /\ stopping = {} /\ turnOver = FALSE /\ events = <<>>
    /\ reissues = 0 /\ crashes = 0 /\ toggles = 0
    /\ loop = "idle" /\ cur = Idle /\ rows = {}
    /\ pending = None /\ queue = <<>>
    /\ seen = {} /\ resolved = {} /\ unread = ~FreshSession
    /\ reviewing = {}
    /\ autoReview \in BOOLEAN
    /\ jobs = {} /\ attached = TRUE
    /\ asks = <<>> /\ sent = [k \in Keys |-> 0]

\* The running handler is done; reconcile_pending has its other rows to go.
Return == loop' = (IF rows = {} THEN "idle" ELSE "reconcile") /\ cur' = Idle
\* `$/cancel_request` for, or an answer to, the editor request q.
Settle(q) == [asks EXCEPT ![q].live = FALSE]
\* Mutant: the prompt's form is overlooked.
WithdrawnPermission == Settle(pending.ask)
\* The displayed permission is withdrawn, whichever request shows it.
Withdrawn == Settle(ShownAsk(pending))
\* perm_queue without the row of an approval, which is queued once.
WithoutRow(a) ==
    IF Queued(a)
    THEN RemoveAt(queue, CHOOSE i \in DOMAIN queue : queue[i].a = a)
    ELSE queue
Ask(board, kind, a, s) == Append(board, [kind |-> kind, a |-> a, stage |-> s, live |-> TRUE])
-----------------------------------------------------------------------------
(* open_approval                                                           *)

\* learn_resolved_approvals: what the history read leaves in approval_resolved
\* and whether it is still owed.  A read that stops short keeps what it saw.
Learnt ==
    IF ~unread THEN {<<resolved, FALSE>>}
    ELSE (IF up THEN {<<resolved \cup hdone, FALSE>>} ELSE {})
         \cup (IF up /\ HistoryFails THEN {<<resolved \cup h, TRUE>> : h \in SUBSET hdone}
               ELSE IF up THEN {} ELSE {<<resolved, TRUE>>})

\* What every path through open_approval does first.
Opening ==
    /\ loop = "open"
    /\ \E l \in Learnt : resolved' = l[1] /\ unread' = l[2]
    /\ reviewing' = reviewing \ {cur.a}
Key == [a |-> cur.a, stage |-> cur.stage]
ByPolicy == Key \in Policy /\ Offers[cur.a] \cap OnceScoped # {}
ByReview == ~ByPolicy /\ autoReview /\ Offers[cur.a] # {}
\* Mutant: the terminal set is not consulted.
PromptingResolved == Opening /\ ~ByPolicy /\ ~ByReview
Prompting == Opening /\ cur.a \notin resolved' /\ ~ByPolicy /\ ~ByReview

\* A terminal approval never reopens.
OpenResolved ==
    /\ Opening /\ cur.a \in resolved'
    /\ Return
    /\ UNCHANGED <<hostVars, toggles, rows, boardVars, autoReview, jobs, attached, sent>>

\* Adapter policy answers an eligible approval before the editor sees it.
OpenByPolicy ==
    /\ Opening /\ cur.a \notin resolved' /\ ByPolicy
    /\ IF Key \in seen
       THEN Return /\ UNCHANGED seen
       ELSE /\ seen' = seen \cup {Key}
            /\ loop' = "decide"
            /\ \E c \in Offers[cur.a] \cap OnceScoped :
                  cur' = [by |-> "policy", a |-> cur.a, stage |-> cur.stage,
                          choice |-> c, ask |-> 0, pick |-> "none"]
    /\ UNCHANGED <<hostVars, toggles, rows, pending, queue, asks, autoReview, jobs,
                   attached, sent>>

\* enqueue_review: the reviewer takes the approval.
OpenForReview ==
    /\ Opening /\ cur.a \notin resolved' /\ ByReview
    /\ seen' = seen \cup {Key}
    /\ jobs' = IF Key \in seen THEN jobs ELSE jobs \cup {Key}
    /\ Return
    /\ UNCHANGED <<hostVars, toggles, rows, pending, queue, asks, autoReview,
                   attached, sent>>

Superseded == Displayed(cur.a) /\ pending.stage # cur.stage /\ Key \notin seen
\* Mutants: what was already asked is forgotten; only one approval at a time.
DuplicateUnseen ==
    \/ Displayed(cur.a) /\ pending.stage = cur.stage
    \/ \E i \in DOMAIN queue : queue[i] = Key
DuplicateWhenBusy == Key \in seen \/ pending # None
\* This requirement was already asked, or is displayed or queued.
Duplicate ==
    \/ Key \in seen
    \/ Displayed(cur.a) /\ pending.stage = cur.stage
    \/ \E i \in DOMAIN queue : queue[i] = Key
\* The permission left when the one of an older requirement was withdrawn.
KeptPerm == IF Superseded THEN None ELSE pending
KeptAsks == IF Superseded THEN Withdrawn ELSE asks
\* perm_queue without this approval's row for an older requirement.
KeptQueue == WithoutRow(cur.a)

OpenDuplicate ==
    /\ Prompting /\ Duplicate
    /\ pending' = KeptPerm /\ asks' = KeptAsks
    /\ Return
    /\ UNCHANGED <<hostVars, toggles, rows, queue, seen, autoReview, jobs, attached, sent>>

\* A second approval waits behind the one the client is deciding on.
OpenQueued ==
    /\ Prompting /\ ~Duplicate /\ KeptPerm # None
    /\ queue' = Append(KeptQueue, Key)
    /\ Return
    /\ UNCHANGED <<hostVars, toggles, rows, pending, seen, asks, autoReview, jobs,
                   attached, sent>>

OpenPrompt ==
    /\ Prompting /\ ~Duplicate /\ KeptPerm = None /\ Offers[cur.a] # {}
    /\ queue' = KeptQueue
    /\ seen' = seen \cup {Key}
    /\ asks' = Ask(KeptAsks, "permission", cur.a, cur.stage)
    /\ pending' = [ask |-> Len(asks) + 1, a |-> cur.a, stage |-> cur.stage,
                   form |-> NoForm]
    /\ Return
    /\ UNCHANGED <<hostVars, toggles, rows, autoReview, jobs, attached, sent>>

\* fail_closed_owner_work: stop the child, or the session's turns, that asked.
\* The child may be unknown or not stoppable, and the host may be gone.
FailClosed(a) ==
    /\ \/ up /\ stopping' = stopping \cup {Owner(a)}
       \/ (~up \/ a \in Child) /\ UNCHANGED stopping
    /\ UNCHANGED <<hstage, hdone, up, turnOver, events, reissues, crashes>>

\* Nothing the client could answer: fail closed.
OpenNoChoices ==
    /\ Prompting /\ ~Duplicate /\ KeptPerm = None /\ Offers[cur.a] = {}
    /\ queue' = KeptQueue
    /\ seen' = seen \cup {Key}
    /\ pending' = None /\ asks' = KeptAsks
    /\ FailClosed(cur.a)
    /\ Return
    /\ UNCHANGED <<toggles, rows, autoReview, jobs, attached, sent>>
-----------------------------------------------------------------------------
(* send_permission_decision and pop_queued_approval                        *)

\* approval/decide: the host admits a decision on the current requirement.  An
\* approval may leave further requirements open; a failed decide changes nothing.
\* Either way the permission is settled for the client.
SendDecision ==
    /\ loop = "decide"
    /\ sent' = [sent EXCEPT ![Key] = @ + 1]
    /\ \/ /\ up /\ Open(cur.a) /\ hstage[cur.a] = cur.stage
          /\ \/ /\ hdone' = hdone \cup {cur.a} /\ UNCHANGED hstage
                /\ events' = Append(events, [m |-> "resolved", a |-> cur.a, stage |-> 0])
             \/ /\ cur.choice \in Approving /\ cur.stage < Stages
                /\ hstage' = [hstage EXCEPT ![cur.a] = cur.stage + 1]
                /\ events' = Append(events, [m |-> "open", a |-> cur.a,
                                             stage |-> cur.stage + 1])
                /\ UNCHANGED hdone
       \/ /\ ~(up /\ Open(cur.a) /\ hstage[cur.a] = cur.stage)
          /\ UNCHANGED <<hstage, hdone, events>>
    /\ loop' = "pop" /\ cur' = Idle
    /\ UNCHANGED <<up, stopping, turnOver, reissues, crashes, toggles, rows, boardVars,
                   resolved, unread, reviewing, autoReview, jobs, attached>>

PopQueued ==
    /\ loop = "pop"
    /\ IF pending = None /\ queue # <<>>
       THEN /\ cur' = [by |-> "open", a |-> Head(queue).a, stage |-> Head(queue).stage]
            /\ queue' = Tail(queue)
            /\ loop' = "open"
       ELSE Return /\ UNCHANGED queue
    /\ UNCHANGED <<hostVars, toggles, rows, pending, seen, asks, resolved, unread,
                   reviewing, autoReview, jobs, attached, sent>>
-----------------------------------------------------------------------------
(* Answers of the editor                                                   *)

\* p is the permission taken, c the choice sent, pick what the client selected.
Decide(p, c, q, pick) ==
    /\ loop' = "decide"
    /\ cur' = [by |-> "user", a |-> p.a, stage |-> p.stage, choice |-> c, ask |-> q,
               pick |-> pick]

\* Mutant: a reply settles whatever permission is pending.
UnawaitedAny(p, q) == p = None \/ p.form # NoForm
\* The reply to q is not the one the pending permission p waits for.
Unawaited(p, q) == p = None \/ p.ask # q \/ p.form # NoForm

\* The permission stays pending with its choice while the form is open.
OfferPermissionFeedback(p, q, choice) ==
    /\ asks' = Ask(Settle(q), "form", p.a, p.stage)
    /\ pending' = [p EXCEPT !.form = [ask |-> Len(asks) + 1, choice |-> choice]]

\* complete_permission for the reply to request q: an explicit selection of an
\* offered choice, or anything else.  A request that is no longer the pending one,
\* and a repeated reply once the form is open, are ignored.
CompletePermission(q, choice) ==
    /\ loop = "idle" /\ asks[q].kind = "permission"
    /\ choice \in Offers[asks[q].a] \cup {"none"}
    /\ LET p == pending IN
       IF Unawaited(p, q)
       THEN asks' = Settle(q) /\ UNCHANGED <<loop, cur, pending, hostVars>>
       ELSE \/ /\ choice = "guided" /\ ElicitForm
               /\ OfferPermissionFeedback(p, q, choice)
               /\ UNCHANGED <<loop, cur, hostVars>>
            \/ /\ choice # "none" /\ ~(choice = "guided" /\ ElicitForm)
               /\ asks' = Settle(q) /\ pending' = None
               /\ Decide(p, choice, q, choice)
               /\ UNCHANGED hostVars
            \/ /\ choice = "none"                    \* fallback_deny
               /\ asks' = Settle(q) /\ pending' = None
               /\ \E c \in Offers[p.a] \cap RejectLike : Decide(p, c, q, choice)
               /\ UNCHANGED hostVars
            \/ /\ choice = "none" /\ Offers[p.a] \cap RejectLike = {}
               /\ asks' = Settle(q) /\ pending' = None
               /\ FailClosed(p.a)
               /\ UNCHANGED <<loop, cur>>
    /\ UNCHANGED <<toggles, rows, queue, seen, resolved, unread, reviewing, autoReview,
                   jobs, attached, sent>>

\* complete_permission_feedback: any reply to the form sends the rejection chosen
\* before, with or without guidance.
CompleteFeedback(q) ==
    /\ loop = "idle" /\ asks[q].kind = "form"
    /\ asks' = Settle(q)
    /\ IF pending # None /\ pending.form.ask = q
       THEN /\ Decide(pending, pending.form.choice, pending.ask, pending.form.choice)
            /\ pending' = None
       ELSE UNCHANGED <<loop, cur, pending>>
    /\ UNCHANGED <<hostVars, toggles, rows, queue, seen, resolved, unread, reviewing,
                   autoReview, jobs, attached, sent>>

\* invalidate_pending_approval(None, feedback_only): the form becomes stale.
DropForm ==
    IF pending # None /\ pending.form # NoForm
    THEN pending' = None /\ asks' = Settle(pending.form.ask)
    ELSE UNCHANGED <<pending, asks>>

\* session/cancel: interrupt the turns, then end the form.
SessionCancel ==
    /\ loop = "idle"
    /\ stopping' = IF up /\ ~turnOver THEN stopping \cup {"root"} ELSE stopping
    /\ DropForm
    /\ UNCHANGED <<hstage, hdone, up, turnOver, events, reissues, crashes, toggles, loop, cur,
                   rows, queue, seen, resolved, unread, reviewing, autoReview, jobs,
                   attached, sent>>

\* session/set_config_option autoReview.
ToggleAutoReview ==
    /\ loop = "idle" /\ Rare < MaxRare
    /\ autoReview' = ~autoReview /\ toggles' = toggles + 1
    /\ UNCHANGED <<hostVars, loop, cur, rows, boardVars, resolved, unread, reviewing,
                   jobs, attached, sent>>
-----------------------------------------------------------------------------
(* Events of the host                                                      *)

Event == Head(events)
Take(m) == loop = "idle" /\ events # <<>> /\ Event.m = m /\ events' = Tail(events)
hostButEvents == <<hstage, hdone, up, stopping, turnOver, reissues, crashes>>

\* approval/requested, approval/updated and a reissued approval/request.
EventOpen ==
    /\ Take("open")
    /\ loop' = "open"
    /\ cur' = [by |-> "open", a |-> Event.a, stage |-> Event.stage]
    /\ UNCHANGED <<hostButEvents, toggles, rows, boardVars, resolved, unread,
                   reviewing, autoReview, jobs, attached, sent>>

\* approval/resolved: remember it, drop its twins, withdraw its prompt.  A job
\* the reviewer has not started is dropped; a running one is not.
EventResolved ==
    /\ Take("resolved")
    /\ LET a == Event.a IN
       /\ reviewing' = reviewing \ {a}
       /\ resolved' = resolved \cup {a}
       /\ queue' = WithoutRow(a)
       /\ \E running \in {{}} \cup {{j} : j \in jobs} :
             jobs' = {j \in jobs : j.a # a \/ j \in running}
       /\ IF Displayed(a)
          THEN /\ pending' = None
               /\ asks' = Withdrawn
               /\ loop' = "pop"
          ELSE UNCHANGED <<pending, asks, loop>>
    /\ UNCHANGED <<hostButEvents, toggles, cur, rows, seen, unread, autoReview,
                   attached, sent>>

\* approval/reviewing: an activity row, never a prompt or a decision.
EventReviewing ==
    /\ Take("reviewing")
    /\ \E l \in Learnt :
       /\ resolved' = l[1] /\ unread' = l[2]
       /\ reviewing' = IF Event.a \in l[1] \/ Displayed(Event.a) \/ Queued(Event.a)
                       THEN reviewing ELSE reviewing \cup {Event.a}
    /\ UNCHANGED <<hostButEvents, toggles, loop, cur, rows, boardVars, autoReview,
                   jobs, attached, sent>>

\* turn/completed: the turn's review rows and an open form go.
EventTurnDone ==
    /\ Take("turnDone")
    /\ reviewing' = reviewing \cap Child
    /\ DropForm
    /\ UNCHANGED <<hostButEvents, toggles, loop, cur, rows, queue, seen, resolved,
                   unread, autoReview, jobs, attached, sent>>

\* finish_review, fail_review_turn, expire_review_deadline and a review that could
\* not start, as this session sees them: a verdict on an approval that resolved
\* meanwhile is discarded (a failed start does not look); an allow needs a
\* once-scoped choice, a deny a reject-like one, else fail closed.
ReviewEnds(j) ==
    /\ loop = "idle" /\ j \in jobs
    /\ jobs' = jobs \ {j}
    /\ \/ j.a \in resolved /\ UNCHANGED <<loop, cur, hostVars>>
       \/ /\ \E c \in Offers[j.a] \cap (OnceScoped \cup RejectLike) :
                /\ c \in OnceScoped => j.a \notin resolved
                /\ loop' = "decide"
                /\ cur' = [by |-> "review", a |-> j.a, stage |-> j.stage,
                           choice |-> c, ask |-> 0, pick |-> "none"]
          /\ UNCHANGED hostVars
       \/ /\ Offers[j.a] \cap RejectLike = {}
          /\ FailClosed(j.a)
          /\ UNCHANGED <<loop, cur>>
    /\ UNCHANGED <<toggles, rows, boardVars, resolved, unread, reviewing, autoReview,
                   attached, sent>>
-----------------------------------------------------------------------------
(* restart_durable_host and reconcile_pending                              *)

\* The loop sees the host exit after its last event.  The replacement re-attaches
\* the session and lists what is pending; the projection can hold approvals that
\* are already resolved.
Restart ==
    /\ loop = "idle" /\ ~up /\ events = <<>> /\ attached
    /\ up' = TRUE
    /\ \E stale \in SUBSET {a \in hdone : hstage[a] > 0} :
          rows' = {a \in Apps : Open(a)} \cup stale
    /\ loop' = IF rows' = {} THEN "idle" ELSE "reconcile"
    /\ UNCHANGED <<hstage, hdone, stopping, turnOver, events, reissues, crashes, toggles,
                   cur, boardVars, resolved, unread, reviewing, autoReview, jobs, attached, sent>>

\* abandon_session_work: the replacement could not re-attach the session.
RestartFails ==
    /\ loop = "idle" /\ ~up /\ events = <<>> /\ attached
    /\ attached' = FALSE
    /\ pending' = None /\ queue' = <<>>
    /\ asks' = IF pending = None THEN asks ELSE Withdrawn
    /\ UNCHANGED <<hostVars, toggles, loop, cur, rows, seen, resolved, unread,
                   reviewing, autoReview, jobs, sent>>

\* One row of the pull: resolved, displayed or queued already, or opened.
ReconcileRow(a) ==
    /\ loop = "reconcile" /\ a \in rows
    /\ rows' = rows \ {a}
    /\ \E l \in Learnt :
       /\ resolved' = l[1] /\ unread' = l[2]
       /\ IF a \in l[1] \/ Displayed(a) \/ Queued(a)
          THEN loop' = (IF rows' = {} THEN "idle" ELSE "reconcile") /\ UNCHANGED cur
          ELSE /\ loop' = "open"
               /\ cur' = [by |-> "open", a |-> a, stage |-> hstage[a]]
    /\ UNCHANGED <<hostVars, toggles, boardVars, reviewing, autoReview, jobs, attached, sent>>
-----------------------------------------------------------------------------
(* The host, external                                                      *)

Emit(e) == Len(events) < EventCap /\ events' = Append(events, e)
loopVars == <<loop, cur, rows, boardVars, resolved, unread, reviewing, autoReview,
              jobs, attached, sent, toggles>>

HostRequest(a) ==
    /\ up /\ attached /\ hstage[a] = 0 /\ Owner(a) \notin stopping
    /\ Cardinality({b \in Apps : hstage[b] > 0}) < MaxOpen
    /\ turnOver => a \in Child
    /\ hstage' = [hstage EXCEPT ![a] = 1]
    /\ Emit([m |-> "open", a |-> a, stage |-> 1])
    /\ UNCHANGED <<hdone, up, stopping, turnOver, reissues, crashes, loopVars>>

\* Decided elsewhere: another client, the host's own reviewer, or a stop.
HostResolve(a) ==
    /\ up /\ attached /\ Open(a)
    /\ \/ /\ hdone' = hdone \cup {a} /\ UNCHANGED hstage
          /\ Emit([m |-> "resolved", a |-> a, stage |-> 0])
       \/ /\ hstage[a] < Stages
          /\ hstage' = [hstage EXCEPT ![a] = @ + 1] /\ UNCHANGED hdone
          /\ Emit([m |-> "open", a |-> a, stage |-> hstage[a] + 1])
    /\ UNCHANGED <<up, stopping, turnOver, reissues, crashes, loopVars>>

\* A reissue or a native-review notice; a stale projection reissues even an
\* approval that is terminal.
HostReissue(a, m) ==
    /\ up /\ attached /\ hstage[a] > 0 /\ Rare < MaxRare
    /\ reissues' = reissues + 1
    /\ Emit([m |-> m, a |-> a, stage |-> hstage[a]])
    /\ UNCHANGED <<hstage, hdone, up, stopping, turnOver, crashes, loopVars>>

HostTurnEnds ==
    /\ up /\ attached /\ ~turnOver
    /\ \A a \in Apps : Open(a) => a \in Child
    /\ turnOver' = TRUE
    /\ Emit([m |-> "turnDone"])
    /\ UNCHANGED <<hstage, hdone, up, stopping, reissues, crashes, loopVars>>

HostCrash ==
    /\ up /\ Rare < MaxRare
    /\ up' = FALSE /\ crashes' = crashes + 1 /\ stopping' = {}
    /\ UNCHANGED <<hstage, hdone, turnOver, events, reissues, loopVars>>
-----------------------------------------------------------------------------
OpenApproval ==
    \/ OpenResolved \/ OpenByPolicy \/ OpenForReview \/ OpenDuplicate
    \/ OpenQueued \/ OpenPrompt \/ OpenNoChoices
Editor ==
    \/ \E q \in DOMAIN asks :
          \/ \E c \in ChoiceClasses \cup {"none"} : CompletePermission(q, c)
          \/ CompleteFeedback(q)
    \/ SessionCancel \/ ToggleAutoReview
Events == EventOpen \/ EventResolved \/ EventReviewing \/ EventTurnDone
Recovery == Restart \/ RestartFails \/ \E a \in Apps : ReconcileRow(a)
Host ==
    \/ \E a \in Apps : HostRequest(a) \/ HostResolve(a)
                       \/ \E m \in {"open", "reviewing"} : HostReissue(a, m)
    \/ HostTurnEnds \/ HostCrash

Next ==
    \/ OpenApproval \/ SendDecision \/ PopQueued
    \/ Editor \/ Events \/ Recovery \/ Host
    \/ \E j \in jobs : ReviewEnds(j)

Spec == Init /\ [][Next]_vars
-----------------------------------------------------------------------------
(* Properties                                                              *)

\* An approving decision is the user's own selection, made on the prompt that
\* showed this approval at this requirement; policy and auto-review only ever
\* grant a single action.  No late or repeated answer approves anything else.
NoApprovalWithoutConsent ==
    (loop = "decide" /\ cur.choice \in Approving) =>
        IF cur.by = "user"
        THEN /\ cur.choice = cur.pick
             /\ asks[cur.ask].a = cur.a /\ asks[cur.ask].stage = cur.stage
        ELSE cur.choice = "once"

\* However often the host reissues a requirement, and whichever of prompt,
\* policy and reviewer takes it, it is decided at most once.
DecidedOnce ==
    \A k \in Keys : sent[k] <= 1

\* The editor shows no orphan: a request that is neither answered nor cancelled
\* is the one the session's pending permission waits for.
OnePrompt ==
    \A q \in DOMAIN asks : asks[q].live =>
        pending # None /\ ShownAsk(pending) = q

\* A terminal approval never reopens, however stale the copy that reissues it:
\* no prompt, no review job and no policy decision for one already resolved.
ResolvedNeverReopens ==
    [][\A a \in resolved :
          /\ \A q \in DOMAIN asks' \ DOMAIN asks :
                asks'[q].kind = "permission" => asks'[q].a # a
          /\ \A j \in jobs' \ jobs : j.a # a
          /\ (loop' = "decide" /\ cur'.by = "policy") => cur'.a # a]_vars

\* The approval is before the user, waits behind the prompt that is, or is with
\* the reviewer, at the requirement the host has reached.
Current(a) == [a |-> a, stage |-> hstage[a]]
Kept(a) ==
    \/ Displayed(a) /\ pending.stage = hstage[a]
    \/ \E i \in DOMAIN queue : queue[i] = Current(a)
    \/ Current(a) \in jobs
\* Nobody could refuse it, and stopping a child may not have reached the child.
Refusable(a) == a \notin Child \/ Offers[a] \cap RejectLike # {}

\* While the turn that asks is at work, its host was not lost and nothing was
\* stopped, no open approval is forgotten: whatever order reissues, later
\* requirements, verdicts and decisions made elsewhere come in, the loop holds it
\* on the prompt, in the queue or with the reviewer once it has caught up
\* (open_approval, "Never leaves an approval silently unresolved").
NoneForgotten ==
    (up /\ loop = "idle" /\ events = <<>> /\ stopping = {} /\ ~turnOver /\ crashes = 0) =>
        \A a \in Apps : Open(a) /\ Refusable(a) => Kept(a)

\* main.rs:13478, where a second approval is queued: "display it when the current
\* one settles".  The code does not keep it: a dismissed prompt without a reject-like
\* choice stops its owner and returns without popping the queue.
QueueIsShown ==
    (up /\ attached /\ loop = "idle" /\ events = <<>> /\ jobs = {}) =>
        \A i \in DOMAIN queue :
            Open(queue[i].a) /\ Owner(queue[i].a) \notin stopping => pending # None
=============================================================================
