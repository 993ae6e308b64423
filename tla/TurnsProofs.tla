----------------------------- MODULE TurnsProofs -----------------------------
(* Theorems about Turns, for any number of prompts, turns and crashes.      *)
EXTENDS Turns, SequenceTheorems, TLAPS

USE TurnsAssumption

\* What an accepted prompt has been answered so far.
Accepted == IF ver = 1 THEN 0 ELSE 1

\* A prompt that is open is open in one place, and has the answers its version
\* gives at acceptance; every other prompt was answered once.
OneHolder ==
  /\ \A q \in Prompts : q \notin asked => answers[q] = 0
  /\ \A q \in asked : answers[q] <= 1
  /\ \A q \in asked : answers[q] = 0 => q \in {recap, feedback} \/ \E e \in inFlight : e.req = q
  /\ \A e \in inFlight : e.req # "none" =>
       /\ e.req \in asked /\ answers[e.req] = Accepted
       /\ e.req \notin {recap, feedback}
       /\ \A f \in inFlight : f.req = e.req => f = e
  /\ \A e, f \in inFlight : e.turn = f.turn => e = f
  /\ recap # "none" => recap \in asked /\ answers[recap] = Accepted /\ recap # feedback
  /\ feedback # "none" => feedback \in asked /\ answers[feedback] = 0

\* A prompt in flight has a turn the host once admitted.
Admitted == \A e \in inFlight : e.turn \in DOMAIN turns

Live(t) == t \in DOMAIN turns /\ turns[t] \in {"queued", "running"}
Ends == {"completed", "unqueued", "retracted"}
\* The loop has yet to read, past the first n events, that turn t ended.
EndAfter(n, t) == \E i \in DOMAIN view : i > n /\ view[i].t = t /\ view[i].m \in Ends

\* The order of the host's events: a turn that may still run has not ended in the
\* view, one turn runs at a time, and the last start in the view is the running one's.
HostOrder ==
  /\ \A t, u \in Running : t = u
  /\ \A i \in DOMAIN view : view[i].t \in DOMAIN turns
  /\ \A i \in DOMAIN view : Live(view[i].t) => view[i].m \notin Ends
  /\ \A t \in Running : \A i \in DOMAIN view :
       view[i].m = "started" /\ view[i].t # t =>
         \E j \in DOMAIN view : j > i /\ view[j] = [m |-> "started", t |-> t]
  /\ up => sent = Len(view)
  /\ loop = "attach" => session = "live" /\ snap.after <= snap.head /\ snap.head <= Len(view)

\* A prompt in flight waits for a turn the host still has, or for an end the loop
\* has yet to read; a re-attachment keeps the prompts of the turns it knows.
Awaited ==
  /\ session # "live" => inFlight = {}
  /\ loop = "idle" => \A e \in inFlight : Live(e.turn) \/ EndAfter(0, e.turn)
  /\ loop = "attach" => \A e \in inFlight : 
       e.turn \in snap.known => Live(e.turn) \/ EndAfter(snap.head, e.turn)

\* The loop follows the running turn, or has yet to read that it started.
Followed ==
  session = "live" =>
    \A t \in Running :
      \/ \E i \in DOMAIN view : view[i] = [m |-> "started", t |-> t]
                                /\ i > IF loop = "attach" THEN snap.head ELSE 0
      \/ active = t
      \/ loop = "idle" /\ Tracked(t)
-----------------------------------------------------------------------------
(* The host's view.                                                         *)

\* The host adds an event at the end of the view, and changes nothing before it.
LEMMA EmitAppends ==
    ASSUME HostOK, NEW e \in Events, Emit(e)
    PROVE  /\ view' \in Seq(Events) /\ Len(view') = Len(view) + 1 /\ sent' \in 0..Len(view')
           /\ DOMAIN view' = 1 .. Len(view) + 1 /\ DOMAIN view = 1 .. Len(view)
           /\ \A i \in DOMAIN view : view'[i] = view[i]
           /\ view'[Len(view) + 1] = e
           /\ (up /\ sent = Len(view)) => sent' = Len(view')
<1>1. view \in Seq(Events) /\ sent \in 0..Len(view) /\ view' = Append(view, e)
      /\ sent' = (IF up THEN sent + 1 ELSE sent) /\ up \in BOOLEAN
  BY DEF HostOK, Emit
<1>2. Len(view) \in Nat /\ DOMAIN view = 1 .. Len(view)
  BY <1>1
<1>3. /\ view' \in Seq(Events) /\ Len(view') = Len(view) + 1
      /\ \A i \in DOMAIN view : view'[i] = view[i]
      /\ view'[Len(view) + 1] = e
  BY <1>1, <1>2
<1>4. sent' \in 0..Len(view') /\ ((up /\ sent = Len(view)) => sent' = Len(view'))
  <2>1. sent \in 0..Len(view) /\ (sent' = sent + 1 \/ (~up /\ sent' = sent))
    <3>1. up => sent' = sent + 1
      BY DEF Emit
    <3>2. ~up => sent' = sent
      BY DEF Emit
    <3>3. sent \in 0..Len(view)
      BY DEF HostOK
    <3>4. QED
      BY <3>1, <3>2, <3>3
  <2>2. \A n, k, l, j \in Nat : n \in 0..k /\ l = k + 1 /\ (j = n + 1 \/ j = n) => j \in 0..l
    OBVIOUS
  <2>3. sent \in Nat /\ sent' \in Nat /\ Len(view') \in Nat
    BY <1>2, <1>3, <2>1
  <2>4. sent' \in 0..Len(view')
    BY <1>2, <1>3, <2>1, <2>2, <2>3
  <2>5. QED
    BY <1>3, <2>1, <2>4
<1>5. DOMAIN view' = 1 .. Len(view')
  BY <1>3
<1>6. QED
  BY <1>2, <1>3, <1>4, <1>5

\* The loop takes the first event.
LEMMA TakeDrops ==
    ASSUME HostOK, NEW m, Take(m)
    PROVE  /\ view # <<>> /\ view' \in Seq(Events) /\ Len(view') = Len(view) - 1
           /\ sent' \in 0..Len(view') /\ Event \in Events /\ Event = view[1] /\ Event.m = m
           /\ Len(view) \in Nat /\ Len(view) > 0
           /\ DOMAIN view' = 1 .. Len(view) - 1 /\ DOMAIN view = 1 .. Len(view)
           /\ \A i \in DOMAIN view' : view'[i] = view[i + 1]
<1>1. view \in Seq(Events) /\ sent \in 0..Len(view) /\ sent > 0 /\ view' = Tail(view)
      /\ sent' = sent - 1 /\ Event.m = m
  BY DEF HostOK, Take
<1>2. Len(view) \in Nat /\ Len(view) > 0 /\ DOMAIN view = 1 .. Len(view)
  BY <1>1
<1>3. view # <<>> /\ Event = view[1] /\ Event \in Events
  BY <1>1, <1>2 DEF Event
<1>4. /\ view' \in Seq(Events) /\ Len(view') = Len(view) - 1
      /\ DOMAIN view' = 1 .. Len(view) - 1
      /\ \A i \in 1 .. Len(view) - 1 : view'[i] = view[i + 1]
  BY <1>1, <1>2, <1>3
<1>5. QED
  BY <1>1, <1>2, <1>3, <1>4

\* A re-attachment drops the first n events of the view.
LEMMA FollowDrops ==
    ASSUME HostOK, NEW n \in Nat, n <= Len(view), Follow(n)
    PROVE  /\ view' \in Seq(Events) /\ Len(view') = Len(view) - n /\ sent' \in 0..Len(view')
           /\ DOMAIN view' = 1 .. Len(view) - n /\ DOMAIN view = 1 .. Len(view)
           /\ Len(view) \in Nat
           /\ \A i \in DOMAIN view' : view'[i] = view[i + n]
           /\ sent = Len(view) => sent' = Len(view')
<1>1. view \in Seq(Events) /\ sent \in 0..Len(view) /\ view' = SubSeq(view, n + 1, Len(view))
      /\ sent' = IF sent > n THEN sent - n ELSE 0
  BY DEF HostOK, Follow
<1>2. Len(view) \in Nat /\ DOMAIN view = 1 .. Len(view)
  BY <1>1
<1>3. /\ view' \in Seq(Events) /\ Len(view') = Len(view) - n
      /\ DOMAIN view' = 1 .. Len(view) - n
      /\ \A i \in 1 .. Len(view) - n : view'[i] = view[i + n]
  <2>1. \A i \in n + 1 .. Len(view) : view[i] \in Events
    BY <1>1, <1>2, ElementOfSeq
  <2>2. n + 1 \in Int /\ Len(view) \in Int
    BY <1>2
  <2>3. /\ view' \in Seq(Events)
        /\ Len(view') = IF n + 1 <= Len(view) THEN Len(view) - (n + 1) + 1 ELSE 0
        /\ \A i \in 1 .. Len(view) - (n + 1) + 1 : view'[i] = view[n + 1 + i - 1]
    BY <1>1, <2>1, <2>2, SubSeqProperties
  <2>4. Len(view') = Len(view) - n
    <3>1. \A k \in Nat : n <= k => (IF n + 1 <= k THEN k - (n + 1) + 1 ELSE 0) = k - n
      OBVIOUS
    <3>2. QED
      BY <1>2, <2>3, <3>1
  <2>5. DOMAIN view' = 1 .. Len(view) - n
    <3>1. DOMAIN view' = 1 .. Len(view')
      BY <2>3, LenProperties
    <3>2. QED
      BY <2>4, <3>1
  <2>6. \A i \in 1 .. Len(view) - n : i \in 1 .. Len(view) - (n + 1) + 1 /\ n + 1 + i - 1 = i + n
    BY <1>2
  <2>7. QED
    BY <2>3, <2>4, <2>5, <2>6
<1>4. sent' \in 0..Len(view') /\ (sent = Len(view) => sent' = Len(view'))
  <2>1. \A k, l, j \in Nat : k \in 0..l /\ j = (IF k > n THEN k - n ELSE 0) /\ n <= l
                             => j \in 0..l - n /\ (k = l => j = l - n)
    OBVIOUS
  <2>2. sent \in Nat /\ sent' \in Nat
    BY <1>1, <1>2
  <2>3. QED
    BY <1>1, <1>2, <1>3, <2>1, <2>2
<1>5. QED
  BY <1>1, <1>2, <1>3, <1>4
LEMMA FollowKeepsType ==
    ASSUME HostOK, NEW n \in Nat, Follow(n)
    PROVE  view' \in Seq(Events) /\ sent' \in 0..Len(view')
<1>1. view \in Seq(Events) /\ Len(view) \in Nat /\ sent \in 0..Len(view)
  BY DEF HostOK
<1>2. CASE n <= Len(view)
  BY <1>2, FollowDrops
<1>3. CASE n > Len(view)
  <2>1. view' = <<>>
    BY <1>1, <1>3, SubSeqEmpty DEF Follow
  <2>2. sent' = 0
    BY <1>1, <1>3 DEF Follow
  <2>3. QED
    BY <2>1, <2>2
<1>4. QED
  BY <1>1, <1>2, <1>3

\* The host admits a turn: a new number, and a start in the view if it was idle.
LEMMA AdmitAppends ==
    ASSUME HostOK, Admit
    PROVE  /\ NewTurn \in 1..MaxTurns /\ NewTurn \notin DOMAIN turns
           /\ turns' \in Seq({"queued", "running", "retracted", "ended"})
           /\ Len(turns') = NewTurn /\ DOMAIN turns' = DOMAIN turns \cup {NewTurn}
           /\ DOMAIN turns = 1 .. Len(turns)
           /\ \A t \in DOMAIN turns : turns'[t] = turns[t]
           /\ turns'[NewTurn] = IF Idle THEN "running" ELSE "queued"
           /\ [m |-> "started", t |-> NewTurn] \in Events
<1>1. turns \in Seq({"queued", "running", "retracted", "ended"}) /\ NewTurn <= MaxTurns
      /\ turns' = Append(turns, IF Idle THEN "running" ELSE "queued")
  BY DEF HostOK, Admit
<1>2. Len(turns) \in Nat /\ DOMAIN turns = 1 .. Len(turns) /\ NewTurn = Len(turns) + 1
  BY <1>1 DEF NewTurn
<1> DEFINE st == IF Idle THEN "running" ELSE "queued"
<1>3. st \in {"queued", "running", "retracted", "ended"}
  OBVIOUS
<1> HIDE DEF st
<1>4. turns' = Append(turns, st)
  BY <1>1 DEF st
<1>5. /\ turns' \in Seq({"queued", "running", "retracted", "ended"}) /\ Len(turns') = Len(turns) + 1
      /\ \A i \in 1 .. Len(turns) : turns'[i] = turns[i]
      /\ turns'[Len(turns) + 1] = st
  BY <1>1, <1>2, <1>3, <1>4
<1>6. DOMAIN turns' = 1 .. Len(turns) + 1
  BY <1>5
<1>7. [m |-> "started", t |-> NewTurn] \in Events
  BY <1>1, <1>2 DEF Events
<1>8. QED
  BY <1>1, <1>2, <1>5, <1>6, <1>7 DEF st

LEMMA AdmitKeepsType ==
    ASSUME HostOK, Admit
    PROVE  HostOK' /\ Len(view) <= Len(view')
<1>1. DOMAIN turns \subseteq DOMAIN turns' /\ Len(turns') <= MaxTurns
  BY AdmitAppends
<1>2. UNCHANGED <<told, retract, hrecaps, up, crashes>>
  BY DEF Admit
<1>3. view' \in Seq(Events) /\ sent' \in 0..Len(view') /\ Len(view) <= Len(view')
  <2>1. CASE Idle
    <3>1. Emit([m |-> "started", t |-> NewTurn])
      BY <2>1 DEF Admit
    <3>2. QED
      BY <3>1, AdmitAppends, EmitAppends DEF HostOK
  <2>2. CASE ~Idle
    BY <2>2 DEF Admit, HostOK
  <2>3. QED
    BY <2>1, <2>2
<1>4. QED
  BY <1>1, <1>2, <1>3, AdmitAppends DEF HostOK

\* A turn of the host changes its state, and says so in the view.
LEMMA HostTurnMoves ==
    ASSUME HostOK, NEW t \in DOMAIN turns, NEW st \in {"running", "retracted", "ended"},
           NEW m \in {"started", "completed", "unqueued", "retracted", "declined"},
           HostTurn(t, st, m)
    PROVE  /\ Emit([m |-> m, t |-> t]) /\ [m |-> m, t |-> t] \in Events
           /\ turns' = [turns EXCEPT ![t] = st] /\ DOMAIN turns' = DOMAIN turns
           /\ turns' \in Seq({"queued", "running", "retracted", "ended"})
           /\ Len(turns') = Len(turns)
           /\ UNCHANGED <<hrecaps, up, crashes, adapterVars>>
<1>1. DOMAIN turns = 1 .. Len(turns) /\ Len(turns) \in Nat /\ Len(turns) <= MaxTurns
  BY DEF HostOK
<1>2. [m |-> m, t |-> t] \in Events
  BY <1>1 DEF Events
<1>3. turns' = [turns EXCEPT ![t] = st] /\ turns' \in Seq({"queued", "running", "retracted", "ended"})
      /\ Len(turns') = Len(turns) /\ DOMAIN turns' = DOMAIN turns
  BY DEF HostTurn, HostOK
<1>4. QED
  BY <1>2, <1>3 DEF HostTurn

LEMMA HostTurnKeepsType ==
    ASSUME HostOK, NEW t \in DOMAIN turns, NEW st \in {"running", "retracted", "ended"},
           NEW m \in {"started", "completed", "unqueued", "retracted", "declined"},
           HostTurn(t, st, m)
    PROVE  HostOK' /\ Len(view) <= Len(view')
<1>1. told' \subseteq DOMAIN turns' /\ retract' \subseteq told'
  BY HostTurnMoves DEF HostTurn, HostOK
<1>2. [m |-> m, t |-> t] \in Events /\ Emit([m |-> m, t |-> t])
  BY HostTurnMoves
<1>3. view' \in Seq(Events) /\ sent' \in 0..Len(view') /\ Len(view') = Len(view) + 1
  BY <1>2, EmitAppends
<1>4. Len(view) \in Nat
  BY DEF HostOK
<1>5. turns' \in Seq({"queued", "running", "retracted", "ended"}) /\ Len(turns') <= MaxTurns
  BY HostTurnMoves DEF HostOK
<1>6. hrecaps' \subseteq Prompts /\ up' \in BOOLEAN /\ crashes' \in Nat
  BY HostTurnMoves DEF HostOK
<1>7. QED
  BY <1>1, <1>3, <1>4, <1>5, <1>6 DEF HostOK
\* The steps that may admit a turn and touch nothing else of the host.
Admits == \/ \E q \in Prompts : PromptTurn(q) \/ PromptRefused(q) \/ PromptGoal(q)
          \/ Steer \/ HostStarts
\* The steps of the loop that read an event.
Reads == TurnStarted \/ TurnCompleted \/ TurnUnqueued \/ TurnRetracted \/ TurnDeclined
\* The steps of the host that change one turn.
Moves(t) == HostLaunches(t) \/ HostStops(t) \/ HostEnds(t)
\* The steps the host has no part in.
Aside == \/ \E q \in Prompts : PromptUnreadable(q) \/ PromptCommand(q) \/ PromptFeedback(q)
         \/ FeedbackAnswered \/ RestartFails \/ UNCHANGED vars

LEMMA AdmitsOrNot ==
    ASSUME Admits
    PROVE  Admit \/ UNCHANGED hostVars
BY DEF Admits, PromptTurn, PromptRefused, PromptGoal, Steer, HostStarts

LEMMA ReadsTake ==
    ASSUME Reads
    PROVE  \E m \in {"started", "completed", "unqueued", "retracted", "declined"} : Take(m)
BY DEF Reads, TurnStarted, TurnCompleted, TurnUnqueued, TurnRetracted, TurnDeclined

LEMMA AsideLeavesHost ==
    ASSUME Aside
    PROVE  UNCHANGED hostVars
BY DEF Aside, PromptUnreadable, PromptCommand, PromptFeedback, FeedbackAnswered, RestartFails,
       vars, hostVars

\* What the host's steps do to one turn: it moves on, or a retract is declined.
LEMMA MovesTurn ==
    ASSUME HostOK, NEW t \in DOMAIN turns, Moves(t)
    PROVE  \/ \E st \in {"running", "retracted", "ended"},
                 m \in {"started", "completed", "unqueued", "retracted", "declined"} :
                HostTurn(t, st, m)
           \/ /\ Emit([m |-> "declined", t |-> t]) /\ retract' = retract \ {t}
              /\ UNCHANGED <<turns, told, hrecaps, up, crashes, adapterVars>>
BY DEF Moves, HostLaunches, HostStops, HostEnds

LEMMA HostType ==
    ASSUME TypeOK, [Next]_vars
    PROVE  HostOK'
<1> HostOK
  BY DEF TypeOK
<1>1. CASE Admits
  <2>1. CASE Admit
    BY <2>1, AdmitKeepsType
  <2>2. CASE UNCHANGED hostVars
    BY <2>2 DEF hostVars, HostOK
  <2>3. QED
    BY <1>1, <2>1, <2>2, AdmitsOrNot
<1>2. CASE Reads
  <2>1. PICK m \in {"started", "completed", "unqueued", "retracted", "declined"} : Take(m)
    BY <1>2, ReadsTake
  <2>2. view' \in Seq(Events) /\ sent' \in 0..Len(view')
    BY <2>1, TakeDrops
  <2>3. UNCHANGED <<turns, told, retract, hrecaps, up, crashes>>
    BY <2>1 DEF Take
  <2>4. QED
    BY <2>2, <2>3 DEF HostOK
<1>3. CASE \E t \in DOMAIN turns : Moves(t)
  <2>1. PICK t \in DOMAIN turns : Moves(t)
    BY <1>3
  <2>2. CASE \E st \in {"running", "retracted", "ended"},
                m \in {"started", "completed", "unqueued", "retracted", "declined"} :
               HostTurn(t, st, m)
    BY <2>2, HostTurnKeepsType
  <2>3. CASE /\ Emit([m |-> "declined", t |-> t]) /\ retract' = retract \ {t}
             /\ UNCHANGED <<turns, told, hrecaps, up, crashes, adapterVars>>
    <3>1. [m |-> "declined", t |-> t] \in Events
      BY DEF HostOK, Events
    <3>2. view' \in Seq(Events) /\ sent' \in 0..Len(view')
      BY <2>3, <3>1, EmitAppends
    <3>3. QED
      BY <2>3, <3>2 DEF HostOK
  <2>4. QED
    BY <2>1, <2>2, <2>3, MovesTurn
<1>4. CASE Aside
  BY <1>4, AsideLeavesHost DEF hostVars, HostOK
<1>5. CASE \E q \in Prompts : PromptRecap(q) \/ RecapCompleted(q)
  BY <1>5 DEF PromptRecap, RecapCompleted, HostOK
<1>6. CASE SessionCancel \/ CloseSession
  <2>1. told \subseteq told' /\ told' \subseteq DOMAIN turns
        /\ UNCHANGED <<turns, view, sent, hrecaps, up, crashes>>
    <3>1. Running \cup Queued \subseteq DOMAIN turns
      BY DEF Running, Queued
    <3>2. QED
      BY <1>6, <3>1 DEF SessionCancel, CloseSession, Interrupt, HostOK
  <2>2. retract' \subseteq told'
    BY <1>6, <2>1 DEF SessionCancel, CloseSession, HostOK
  <2>3. QED
    BY <2>1, <2>2 DEF HostOK
<1>7. CASE \E q \in Prompts : CancelPending(q)
  <2>1. PICK q \in Prompts : CancelPending(q)
    BY <1>7
  <2>2. PICK e \in inFlight : /\ e.turn \in Queued
                              /\ turns' = [turns EXCEPT ![e.turn] = "ended"]
                              /\ Emit([m |-> "unqueued", t |-> e.turn])
    BY <2>1 DEF CancelPending
  <2>3. e.turn \in DOMAIN turns /\ DOMAIN turns = 1 .. Len(turns) /\ Len(turns) \in Nat
    BY <2>2 DEF Queued, HostOK
  <2>4. [m |-> "unqueued", t |-> e.turn] \in Events
    BY <2>3 DEF HostOK, Events
  <2>5. view' \in Seq(Events) /\ sent' \in 0..Len(view')
    BY <2>2, <2>4, EmitAppends
  <2>6. turns' \in Seq({"queued", "running", "retracted", "ended"}) /\ Len(turns') = Len(turns)
        /\ DOMAIN turns' = DOMAIN turns
    BY <2>2, <2>3 DEF HostOK
  <2>7. UNCHANGED <<told, retract, hrecaps, up, crashes>>
    BY <2>1 DEF CancelPending
  <2>8. QED
    BY <2>5, <2>6, <2>7 DEF HostOK
<1>8. CASE Resume
  <2>1. turns' \in Seq({"queued", "running", "retracted", "ended"}) /\ Len(turns') = Len(turns)
        /\ DOMAIN turns' = DOMAIN turns
    <3>1. CASE turns' = turns
      BY <3>1 DEF HostOK
    <3>2. CASE turns' = [t \in DOMAIN turns |-> "ended"]
      BY <3>2 DEF HostOK
    <3>3. QED
      BY <1>8, <3>1, <3>2 DEF Resume
  <2>2. sent' = Len(view) /\ up' = TRUE /\ UNCHANGED <<view, told, retract, hrecaps, crashes>>
    BY <1>8 DEF Resume
  <2>3. QED
    BY <2>1, <2>2 DEF HostOK
<1>9. CASE Reattach
  <2>1. PICK n \in Nat : Follow(n)
    BY <1>9 DEF Reattach, TypeOK, LoopOK
  <2>2. view' \in Seq(Events) /\ sent' \in 0..Len(view')
    BY <2>1, FollowKeepsType
  <2>3. UNCHANGED <<turns, told, retract, hrecaps, up, crashes>>
    BY <1>9 DEF Reattach
  <2>4. QED
    BY <2>2, <2>3 DEF HostOK
<1>10. CASE HostCrash
  <2>1. /\ sent' \in 0..sent /\ up' = FALSE /\ crashes' = crashes + 1 /\ told' = {}
        /\ retract' = {} /\ hrecaps' = {} /\ UNCHANGED <<turns, view>>
    BY <1>10 DEF HostCrash
  <2>2. sent' \in 0..Len(view')
    BY <2>1 DEF HostOK
  <2>3. told' \subseteq DOMAIN turns' /\ retract' \subseteq told' /\ hrecaps' \subseteq Prompts
    BY <2>1
  <2>4. up' \in BOOLEAN /\ crashes' \in Nat
    <3>1. crashes \in Nat /\ crashes' = crashes + 1
      BY <2>1 DEF HostOK
    <3>2. crashes' \in Nat
      BY <3>1
    <3>3. up' \in BOOLEAN
      BY <2>1
    <3>4. QED
      BY <3>2, <3>3
  <2>5. turns' \in Seq({"queued", "running", "retracted", "ended"}) /\ Len(turns') <= MaxTurns
        /\ view' \in Seq(Events)
    BY <2>1 DEF HostOK
  <2>6. QED
    BY <2>2, <2>3, <2>4, <2>5 DEF HostOK
<1>11. QED
  BY <1>1, <1>2, <1>3, <1>4, <1>5, <1>6, <1>7, <1>8, <1>9, <1>10
     DEF Next, Editor, Loop, Host, Admits, Reads, Moves, Aside
LEMMA LoopType ==
    ASSUME TypeOK, [Next]_vars
    PROVE  LoopOK'
<1> HostOK /\ LoopOK
  BY DEF TypeOK
<1>1. Len(view) \in Nat /\ ahead \in 0..Len(view)
  BY DEF HostOK, LoopOK
<1>2. CASE Admits
  <2>1. Len(view) <= Len(view') /\ Len(view') \in Nat
    <3>1. CASE Admit
      BY <3>1, AdmitKeepsType DEF HostOK
    <3>2. CASE UNCHANGED hostVars
      BY <1>1, <3>2 DEF hostVars
    <3>3. QED
      BY <1>2, <3>1, <3>2, AdmitsOrNot
  <2>2. UNCHANGED <<ver, loop, snap, session, ahead>> /\ (steers' = steers \/ steers' = steers + 1)
    BY <1>2 DEF Admits, PromptTurn, PromptRefused, PromptGoal, Steer, HostStarts, adapterVars,
                sessionVars
  <2>3. QED
    BY <1>1, <2>1, <2>2 DEF LoopOK
<1>3. CASE Reads
  <2>1. PICK m \in {"started", "completed", "unqueued", "retracted", "declined"} : Take(m)
    BY <1>3, ReadsTake
  <2>2. ahead' = 0 /\ UNCHANGED <<ver, steers, loop, snap, session>>
    BY <2>1 DEF Take, CursorFollows
  <2>3. Len(view') \in Nat
    BY <2>1, TakeDrops
  <2>4. QED
    BY <2>2, <2>3 DEF LoopOK
<1>4. CASE \/ \E t \in DOMAIN turns : Moves(t)
           \/ \E q \in Prompts : CancelPending(q)
  <2>1. Len(view) <= Len(view')
    <3>1. PICK e \in Events : Emit(e)
      <4>1. CASE \E t \in DOMAIN turns : Moves(t)
        <5>1. PICK t \in DOMAIN turns : Moves(t)
          BY <4>1
        <5>2. [m |-> "declined", t |-> t] \in Events
          BY DEF HostOK, Events
        <5>3. QED
          BY <5>1, <5>2, MovesTurn, HostTurnMoves
      <4>2. CASE \E q \in Prompts : CancelPending(q)
        <5>1. PICK e \in inFlight : e.turn \in Queued /\ Emit([m |-> "unqueued", t |-> e.turn])
          BY <4>2 DEF CancelPending
        <5>2. [m |-> "unqueued", t |-> e.turn] \in Events
          BY <5>1 DEF HostOK, Events, Queued
        <5>3. QED
          BY <5>1, <5>2
      <4>3. QED
        BY <1>4, <4>1, <4>2
    <3>2. QED
      BY <1>1, <3>1, EmitAppends
  <2>2. UNCHANGED <<ver, steers, loop, snap, session, ahead>>
    BY <1>4, MovesTurn, HostTurnMoves DEF CancelPending, adapterVars, sessionVars
  <2>3. Len(view') \in Nat
    BY HostType DEF HostOK
  <2>4. QED
    BY <1>1, <2>1, <2>2, <2>3 DEF LoopOK
<1>5. CASE \/ Aside \/ SessionCancel \/ CloseSession \/ HostCrash
           \/ \E q \in Prompts : PromptRecap(q) \/ RecapCompleted(q)
  <2>1. UNCHANGED <<view, ver, steers, loop, snap, ahead>>
    BY <1>5 DEF Aside, PromptUnreadable, PromptCommand, PromptFeedback, FeedbackAnswered,
         RestartFails, SessionCancel, CloseSession, Interrupt, HostCrash, PromptRecap,
         RecapCompleted, vars, hostVars, sessionVars, adapterVars
  <2>2. session' \in {session, "detached", "closed"}
    BY <1>5 DEF Aside, PromptUnreadable, PromptCommand, PromptFeedback, FeedbackAnswered,
         RestartFails, SessionCancel, CloseSession, Interrupt, HostCrash, PromptRecap,
         RecapCompleted, vars, hostVars, sessionVars, adapterVars
  <2>3. QED
    BY <2>1, <2>2 DEF LoopOK
<1>6. CASE Resume
  <2>1. snap' \in [known : SUBSET (1..MaxTurns), active : 0..MaxTurns, head : Nat, after : Nat]
    <3>1. Running \cup Queued \subseteq 1..MaxTurns
      BY DEF Running, Queued, HostOK
    <3>2. Running # {} => (CHOOSE t \in Running : TRUE) \in 1..MaxTurns
      BY <3>1
    <3>3. 0 \in 0..MaxTurns /\ 1..MaxTurns \subseteq 0..MaxTurns
      OBVIOUS
    <3>4. QED
      BY <1>1, <1>6, <3>1, <3>2, <3>3 DEF Resume
  <2>2. UNCHANGED <<ver, steers, session, view>> /\ loop' = "attach" /\ ahead' = Len(view)
    BY <1>6 DEF Resume
  <2>3. QED
    BY <1>1, <2>1, <2>2 DEF LoopOK
<1>7. CASE Reattach
  <2>1. ahead' \in {0, Len(view')} /\ snap' = NoSnap /\ loop' = "idle"
        /\ UNCHANGED <<ver, steers, session>>
    BY <1>7 DEF Reattach
  <2>2. Len(view') \in Nat
    BY HostType DEF HostOK
  <2>3. NoSnap \in [known : SUBSET (1..MaxTurns), active : 0..MaxTurns, head : Nat, after : Nat]
    BY DEF NoSnap
  <2>4. QED
    BY <2>1, <2>2, <2>3 DEF LoopOK
<1>8. QED
  BY <1>2, <1>3, <1>4, <1>5, <1>6, <1>7
     DEF Next, Editor, Loop, Host, Admits, Reads, Moves, Aside
LEMMA PromptsType ==
    ASSUME TypeOK, [Next]_vars
    PROVE  PromptsOK'
<1> PromptsOK /\ HostOK
  BY DEF TypeOK
<1>1. DOMAIN turns \subseteq 1..MaxTurns /\ Running \subseteq 1..MaxTurns
      /\ 0 \in 0..MaxTurns /\ 1..MaxTurns \subseteq 0..MaxTurns
  BY DEF HostOK, Running
<1>2. answers' \in [Prompts -> Nat]
  <2>1. ASSUME NEW S, Respond(S) PROVE answers' \in [Prompts -> Nat]
    BY <2>1 DEF Respond, PromptsOK
  <2>2. answers' = answers \/ \E S : Respond(S)
    BY DEF Next, Editor, Loop, Host, PromptTurn, PromptUnreadable, PromptRefused, PromptCommand,
       PromptGoal, PromptRecap, PromptFeedback, CancelPending, FeedbackAnswered, Steer,
       SessionCancel, CloseSession, TurnStarted, TurnCompleted, TurnUnqueued, TurnRetracted,
       TurnDeclined, RecapCompleted, Resume, Reattach, RestartFails, HostLaunches, HostStops,
       HostEnds, HostTurn, HostStarts, HostCrash, adapterVars, vars, RespondV1, RespondV2, Settle
  <2>3. QED
    BY <2>1, <2>2 DEF PromptsOK
<1>3. shown' \in {"idle", "running", "requires_action"}
  BY DEF PromptsOK, Next, Editor, Loop, Host, PromptTurn, PromptUnreadable, PromptRefused,
     PromptCommand, PromptGoal, PromptRecap, PromptFeedback, CancelPending, FeedbackAnswered,
     Steer, SessionCancel, CloseSession, TurnStarted, TurnCompleted, TurnUnqueued, TurnRetracted,
     TurnDeclined, RecapCompleted, Resume, Reattach, RestartFails, HostLaunches, HostStops,
     HostEnds, HostTurn, HostStarts, HostCrash, adapterVars, vars, State, Rest, RestOf
<1>4. inFlight' \subseteq InFlight
  <2>1. ASSUME NEW t \in 1..MaxTurns, NEW q \in Prompts \cup {"none"}, NEW b \in BOOLEAN,
               Track(t, q, b)
        PROVE  inFlight' \subseteq InFlight
    BY <2>1 DEF Track, InFlight, PromptsOK
  <2>2. CASE \E q \in Prompts : PromptTurn(q) \/ PromptGoal(q)
    <3>1. PICK q \in Prompts : PromptTurn(q) \/ PromptGoal(q)
      BY <2>2
    <3>2. CASE inFlight' = inFlight
      BY <3>2 DEF PromptsOK
    <3>3. CASE inFlight' # inFlight
      <4>1. (~Idle) \in BOOLEAN
        OBVIOUS
      <4>2. CASE PromptTurn(q)
        <5>1. NewTurn \in 1..MaxTurns
          BY <4>2, AdmitAppends DEF PromptTurn
        <5>2. QED
          BY <2>1, <4>1, <4>2, <5>1 DEF PromptTurn
      <4>3. CASE PromptGoal(q)
        BY <2>1, <3>3, <4>3 DEF PromptGoal
      <4>4. QED
        BY <3>1, <4>2, <4>3
    <3>4. QED
      BY <3>2, <3>3
  <2>3. CASE Steer
    <3>1. CASE inFlight' = inFlight
      BY <3>1 DEF PromptsOK
    <3>2. CASE Admit /\ Track(NewTurn, "none", FALSE)
      BY <2>1, <3>2, AdmitAppends
    <3>3. QED
      BY <2>3, <3>1, <3>2 DEF Steer
  <2>4. CASE TurnStarted
    BY ZenonT(40), <2>4 DEF TurnStarted, PromptsOK, InFlight, Launched
  <2>5. CASE Reattach
    <3>1. inFlight' = {[e EXCEPT !.queued = @ /\ e.turn # snap.active] :
                         e \in {f \in inFlight : f.turn \in Known}}
      BY <2>5 DEF Reattach, Launched
    <3>2. \A e \in inFlight : [e EXCEPT !.queued = @ /\ e.turn # snap.active] \in InFlight
      BY DEF PromptsOK, InFlight
    <3>3. QED
      BY <3>1, <3>2
  <2>6. ASSUME ~Steer, ~TurnStarted, ~Reattach, ~\E q \in Prompts : PromptTurn(q) \/ PromptGoal(q)
        PROVE  inFlight' \subseteq inFlight
    BY <2>6 DEF Next, Editor, Loop, Host, PromptUnreadable, PromptRefused,
       PromptCommand, PromptRecap, PromptFeedback, CancelPending, FeedbackAnswered,
       SessionCancel, CloseSession, TurnCompleted, TurnUnqueued, TurnRetracted,
       TurnDeclined, RecapCompleted, Resume, RestartFails, HostLaunches, HostStops,
       HostEnds, HostTurn, HostStarts, HostCrash, adapterVars, sessionVars, vars, Settle, Others
  <2>7. QED
    BY <2>2, <2>3, <2>4, <2>5, <2>6 DEF PromptsOK
<1>5. active' \in 0..MaxTurns
  <2>1. CASE \E q \in Prompts : PromptTurn(q) \/ PromptGoal(q)
    BY <1>1, <2>1, AdmitAppends DEF PromptTurn, PromptGoal, PromptsOK
  <2>2. CASE Steer
    BY <1>1, <2>2, AdmitAppends DEF Steer
  <2>3. CASE Resume
    <3>1. snap'.active \in 0..MaxTurns
      BY <2>3, LoopType DEF LoopOK
    <3>2. QED
      BY <2>3, <3>1 DEF Resume
  <2>4. CASE TurnStarted
    <3>1. Event \in Events
      BY <2>4, TakeDrops DEF TurnStarted
    <3>2. Event.t \in 1..MaxTurns
      BY <3>1 DEF Events
    <3>3. QED
      BY <1>1, <2>4, <3>2 DEF TurnStarted
  <2>5. ASSUME ~Steer, ~Resume, ~TurnStarted, ~\E q \in Prompts : PromptTurn(q) \/ PromptGoal(q)
        PROVE  active' \in {0, active}
    BY <2>5 DEF Next, Editor, Loop, Host, PromptUnreadable, PromptRefused,
       PromptCommand, PromptRecap, PromptFeedback, CancelPending, FeedbackAnswered,
       SessionCancel, CloseSession, TurnCompleted, TurnUnqueued, TurnRetracted,
       TurnDeclined, RecapCompleted, Reattach, RestartFails, HostLaunches, HostStops,
       HostEnds, HostTurn, HostStarts, HostCrash, adapterVars, sessionVars, vars, EndsActive
  <2>6. QED
    BY <1>1, <2>1, <2>2, <2>3, <2>4, <2>5 DEF PromptsOK
<1>6. /\ recap' \in Prompts \cup {"none"} /\ feedback' \in Prompts \cup {"none"}
      /\ asked' \subseteq Prompts
  BY DEF PromptsOK, Prompt, Next, Editor, Loop, Host, PromptTurn, PromptUnreadable, PromptRefused,
     PromptCommand, PromptGoal, PromptRecap, PromptFeedback, CancelPending, FeedbackAnswered,
     Steer, SessionCancel, CloseSession, TurnStarted, TurnCompleted, TurnUnqueued, TurnRetracted,
     TurnDeclined, Take, RecapCompleted, Resume, Reattach, RestartFails, HostLaunches, HostStops,
     HostEnds, HostTurn, HostStarts, HostCrash, adapterVars, sessionVars, vars
<1>7. QED
  BY <1>2, <1>3, <1>4, <1>5, <1>6 DEF PromptsOK

\* Every variable keeps its type in every reachable state.
THEOREM TypeCorrect == Spec => []TypeOK
<1>1. Init => TypeOK
  BY DEF Init, TypeOK, HostOK, LoopOK, PromptsOK, NoSnap
<1>2. TypeOK /\ [Next]_vars => TypeOK'
  BY HostType, LoopType, PromptsType DEF TypeOK
<1>3. QED
  BY <1>1, <1>2, PTL DEF Spec
-----------------------------------------------------------------------------
(* Every prompt is answered once.                                           *)

LEMMA AdmittedHolds == Spec => []Admitted
<1>1. Init => Admitted
  BY DEF Init, Admitted
<1>2. TypeOK /\ Admitted /\ [Next]_vars => Admitted'
  <2> SUFFICES ASSUME TypeOK, Admitted, [Next]_vars PROVE Admitted'
    OBVIOUS
  <2> HostOK
    BY DEF TypeOK
  <2> USE DEF Admitted
  <2>1. DOMAIN turns \subseteq DOMAIN turns'
    <3>1. CASE Admits
      BY <3>1, AdmitsOrNot, AdmitAppends DEF hostVars
    <3>2. CASE \E t \in DOMAIN turns : Moves(t)
      BY <3>2, MovesTurn, HostTurnMoves
    <3>3. ASSUME ~Admits, ~\E t \in DOMAIN turns : Moves(t)
          PROVE  DOMAIN turns \subseteq DOMAIN turns'
      BY <3>3 DEF Admits, Moves, Next, Editor, Loop, Host, PromptUnreadable, PromptCommand,
         PromptRecap, PromptFeedback, CancelPending, FeedbackAnswered, SessionCancel, CloseSession,
         Interrupt, TurnStarted, TurnCompleted, TurnUnqueued, TurnRetracted, TurnDeclined, Take,
         RecapCompleted, Resume, Reattach, RestartFails, HostCrash, hostVars, vars
    <3>4. QED
      BY <3>1, <3>2, <3>3
  <2>2. CASE \E q \in Prompts : PromptTurn(q)
    BY <2>1, <2>2, AdmitAppends DEF PromptTurn, Track
  <2>3. CASE \E q \in Prompts : PromptGoal(q)
    BY <2>1, <2>3, AdmitAppends DEF PromptGoal, Track, Running
  <2>4. CASE Steer
    BY <2>1, <2>4, AdmitAppends DEF Steer, Track
  <2>5. CASE TurnStarted \/ Reattach
    <3>1. \A e \in inFlight' : \E f \in inFlight : e.turn = f.turn
      BY <2>5 DEF TurnStarted, Reattach, Launched, TypeOK, PromptsOK, InFlight
    <3>2. QED
      BY <2>1, <3>1
  <2>6. ASSUME ~Steer, ~TurnStarted, ~Reattach, ~\E q \in Prompts : PromptTurn(q) \/ PromptGoal(q)
        PROVE  inFlight' \subseteq inFlight
    BY <2>6 DEF Next, Editor, Loop, Host, PromptUnreadable, PromptRefused,
       PromptCommand, PromptRecap, PromptFeedback, CancelPending, FeedbackAnswered,
       SessionCancel, CloseSession, TurnCompleted, TurnUnqueued, TurnRetracted,
       TurnDeclined, RecapCompleted, Resume, RestartFails, HostLaunches, HostStops,
       HostEnds, HostTurn, HostStarts, HostCrash, adapterVars, sessionVars, vars, Settle, Others
  <2>7. QED
    BY <2>1, <2>2, <2>3, <2>4, <2>5, <2>6
<1>3. QED
  BY <1>1, <1>2, TypeCorrect, PTL DEF Spec

\* What a response does to the count of each prompt.
LEMMA AnswersAfter ==
    ASSUME PromptsOK, NEW S, Respond(S), NEW q \in Prompts
    PROVE  answers'[q] = IF q \in S THEN answers[q] + 1 ELSE answers[q]
BY DEF Respond, PromptsOK

LEMMA AnswersAfterV1 ==
    ASSUME PromptsOK, NEW G, RespondV1(Reqs(G)), NEW q \in Prompts
    PROVE  answers'[q] = IF ver = 1 /\ \E e \in G : e.req = q THEN answers[q] + 1 ELSE answers[q]
<1>1. CASE ver = 1
  <2>1. Respond({e.req : e \in G})
    BY <1>1 DEF RespondV1, Reqs
  <2>2. q \in {e.req : e \in G} <=> \E e \in G : e.req = q
    OBVIOUS
  <2>3. QED
    BY <1>1, <2>1, <2>2, AnswersAfter
<1>2. CASE ver # 1
  <2>1. Respond({})
    BY <1>2 DEF RespondV1
  <2>2. QED
    BY <1>2, <2>1, AnswersAfter
<1>3. QED
  BY <1>1, <1>2

\* Entries that only lose their place in the host's queue keep turn and request.
LEMMA Relabelled ==
    ASSUME PromptsOK, OneHolder, NEW K \in SUBSET inFlight, NEW t,
           inFlight' = Launched(K, t)
    PROVE  /\ \A d \in inFlight' : \E e \in K : e.turn = d.turn /\ e.req = d.req
           /\ \A e \in K : \E d \in inFlight' : d.turn = e.turn /\ d.req = e.req
           /\ \A d, e \in inFlight' : d.turn = e.turn => d = e
<1>1. \A e \in K : /\ [e EXCEPT !.queued = @ /\ e.turn # t].turn = e.turn
                   /\ [e EXCEPT !.queued = @ /\ e.turn # t].req = e.req
  BY DEF PromptsOK, InFlight
<1>2. /\ \A d \in inFlight' : \E e \in K : d = [e EXCEPT !.queued = @ /\ e.turn # t]
      /\ \A e \in K : [e EXCEPT !.queued = @ /\ e.turn # t] \in inFlight'
  BY DEF Launched
<1>3. ASSUME NEW c \in inFlight', NEW d \in inFlight', c.turn = d.turn PROVE c = d
  <2>1. PICK e \in K : c = [e EXCEPT !.queued = @ /\ e.turn # t]
    BY <1>2
  <2>2. PICK f \in K : d = [f EXCEPT !.queued = @ /\ f.turn # t]
    BY <1>2
  <2>3. e.turn = f.turn
    BY <1>1, <1>3, <2>1, <2>2
  <2>4. e = f
    BY <2>3 DEF OneHolder
  <2>5. QED
    BY <2>1, <2>2, <2>4
<1>4. ASSUME NEW d \in inFlight' PROVE \E e \in K : e.turn = d.turn /\ e.req = d.req
  <2>1. PICK e \in K : d = [e EXCEPT !.queued = @ /\ e.turn # t]
    BY <1>2
  <2>2. QED
    BY <1>1, <2>1
<1>5. ASSUME NEW e \in K PROVE \E d \in inFlight' : d.turn = e.turn /\ d.req = e.req
  BY <1>1, <1>2
<1>6. QED
  BY <1>3, <1>4, <1>5

\* Prompts stop being open where they are answered: G leaves the entries, and the
\* recap and the form may be given up.
LEMMA Settling ==
    ASSUME PromptsOK, OneHolder, PromptsOK', ver' = ver, asked' = asked, NEW G \in SUBSET inFlight,
           recap' \in {recap, "none"}, feedback' \in {feedback, "none"},
           \A e \in inFlight' : \E f \in inFlight \ G : f.turn = e.turn /\ f.req = e.req,
           \A f \in inFlight \ G : \E e \in inFlight' : e.req = f.req,
           \A e, f \in inFlight' : e.turn = f.turn => e = f,
           \A q \in Prompts :
             answers'[q] = IF \/ q = feedback /\ feedback' # feedback
                              \/ ver = 1 /\ q = recap /\ recap' # recap
                              \/ ver = 1 /\ \E e \in G : e.req = q
                           THEN answers[q] + 1 ELSE answers[q]
    PROVE  OneHolder'
<1> answers \in [Prompts -> Nat] /\ asked \subseteq Prompts /\ inFlight \subseteq InFlight
    /\ inFlight' \subseteq InFlight
  BY DEF PromptsOK
<1> USE DEF OneHolder, Accepted
<1>1. \A q \in Prompts : q \notin asked => answers'[q] = 0
  BY DEF InFlight
<1>2. \A q \in asked : answers'[q] <= 1
  BY DEF InFlight
<1>3. \A q \in asked : answers'[q] = 0 => q \in {recap', feedback'} \/ \E e \in inFlight' : e.req = q
  BY DEF InFlight
<1>4. ASSUME NEW e \in inFlight', e.req # "none"
      PROVE  /\ e.req \in asked /\ answers'[e.req] = Accepted
             /\ e.req \notin {recap', feedback'}
             /\ \A f \in inFlight' : f.req = e.req => f = e
  <2>1. PICK d \in inFlight \ G : d.turn = e.turn /\ d.req = e.req
    OBVIOUS
  <2>2. d.req \in asked /\ d.req \in Prompts /\ answers[d.req] = Accepted /\ d.req \notin {recap, feedback}
    BY <1>4, <2>1
  <2>3. ~\E f \in G : f.req = d.req
    BY <1>4, <2>1
  <2>4. answers'[e.req] = Accepted
    BY <2>1, <2>2, <2>3
  <2>5. \A f \in inFlight' : f.req = e.req => f.turn = d.turn
    BY <1>4, <2>1
  <2>6. e.req \notin {recap', feedback'}
    BY <1>4, <2>1, <2>2
  <2>7. QED
    BY <2>1, <2>2, <2>4, <2>5, <2>6
<1>5. recap' # "none" => recap' \in asked /\ answers'[recap'] = Accepted /\ recap' # feedback'
  BY DEF InFlight
<1>6. feedback' # "none" => feedback' \in asked /\ answers'[feedback'] = 0
  BY DEF InFlight
<1>7. QED
  BY <1>1, <1>2, <1>3, <1>4, <1>5, <1>6
\* No turn settles: only the recap and the form may be given up.
LEMMA SettlingNoTurn ==
    ASSUME PromptsOK, OneHolder, PromptsOK', ver' = ver, asked' = asked, inFlight' = inFlight,
           recap' \in {recap, "none"}, feedback' \in {feedback, "none"},
           \A q \in Prompts :
             answers'[q] = IF \/ q = feedback /\ feedback' # feedback
                              \/ ver = 1 /\ q = recap /\ recap' # recap
                           THEN answers[q] + 1 ELSE answers[q]
    PROVE  OneHolder'
<1>1. {} \in SUBSET inFlight /\ inFlight \ {} = inFlight
  OBVIOUS
<1>2. \A e, f \in inFlight' : e.turn = f.turn => e = f
  BY DEF OneHolder
<1>3. \A q \in Prompts :
        answers'[q] = IF \/ q = feedback /\ feedback' # feedback
                         \/ ver = 1 /\ q = recap /\ recap' # recap
                         \/ ver = 1 /\ \E e \in {} : e.req = q
                      THEN answers[q] + 1 ELSE answers[q]
  OBVIOUS
<1>4. /\ \A e \in inFlight' : \E f \in inFlight \ {} : f.turn = e.turn /\ f.req = e.req
      /\ \A f \in inFlight \ {} : \E e \in inFlight' : e.req = f.req
  OBVIOUS
<1>5. QED
  BY <1>1, <1>2, <1>3, <1>4, Settling

\* A prompt is taken in: answered and done, or held in one place.
LEMMA Asking ==
    ASSUME PromptsOK, OneHolder, ver' = ver, NEW q \in Prompts, q \notin asked,
           asked' = asked \cup {q},
           \A p \in Prompts \ {q} : answers'[p] = answers[p],
           \/ answers'[q] = 1 /\ UNCHANGED <<inFlight, recap, feedback>>
           \/ /\ answers'[q] = Accepted /\ UNCHANGED <<recap, feedback>>
              /\ \E e \in InFlight : /\ inFlight' = inFlight \cup {e} /\ e.req = q
                                     /\ \A f \in inFlight : f.turn # e.turn
           \/ /\ answers'[q] = Accepted /\ recap = "none" /\ recap' = q
              /\ UNCHANGED <<inFlight, feedback>>
           \/ /\ answers'[q] = 0 /\ feedback = "none" /\ feedback' = q
              /\ UNCHANGED <<inFlight, recap>>
    PROVE  OneHolder'
<1> answers \in [Prompts -> Nat] /\ asked \subseteq Prompts /\ inFlight \subseteq InFlight
    /\ Accepted' = Accepted /\ Accepted \in {0, 1}
  BY DEF PromptsOK, Accepted
<1>1. /\ \A e \in inFlight : e.req # q
      /\ recap # q /\ feedback # q /\ q # "none"
  BY DEF OneHolder
<1> USE DEF OneHolder
<1>2. CASE answers'[q] = 1 /\ UNCHANGED <<inFlight, recap, feedback>>
  BY <1>1, <1>2
<1>3. ASSUME answers'[q] = Accepted, UNCHANGED <<recap, feedback>>, NEW e \in InFlight,
             inFlight' = inFlight \cup {e}, e.req = q, \A f \in inFlight : f.turn # e.turn
      PROVE  OneHolder'
  BY <1>1, <1>3
<1>4. CASE /\ answers'[q] = Accepted /\ recap = "none" /\ recap' = q
           /\ UNCHANGED <<inFlight, feedback>>
  BY <1>1, <1>4
<1>5. CASE /\ answers'[q] = 0 /\ feedback = "none" /\ feedback' = q
           /\ UNCHANGED <<inFlight, recap>>
  BY <1>1, <1>5
<1>6. QED
  BY <1>2, <1>3, <1>4, <1>5

LEMMA OneHolderHolds == Spec => []OneHolder
<1>1. Init => OneHolder
  BY DEF Init, OneHolder
<1>2. TypeOK /\ TypeOK' /\ Admitted /\ OneHolder /\ [Next]_vars => OneHolder'
  <2> SUFFICES ASSUME TypeOK, TypeOK', Admitted, OneHolder, [Next]_vars PROVE OneHolder'
    OBVIOUS
  <2> HostOK /\ PromptsOK /\ PromptsOK' /\ ver \in {1, 2}
    BY DEF TypeOK, LoopOK
  <2> "none" \notin Prompts
    OBVIOUS
  <2>1. ASSUME NEW q \in Prompts,
               PromptUnreadable(q) \/ PromptRefused(q) \/ PromptCommand(q)
        PROVE  OneHolder'
    <3>1. /\ Respond({q}) /\ q \notin asked /\ asked' = asked \cup {q}
          /\ UNCHANGED <<ver, inFlight, recap, feedback>>
      BY <2>1 DEF PromptUnreadable, PromptRefused, PromptCommand, Prompt, sessionVars
    <3>2. answers'[q] = 1 /\ \A p \in Prompts \ {q} : answers'[p] = answers[p]
      BY <3>1, AnswersAfter DEF OneHolder
    <3>3. QED
      BY <3>1, <3>2, Asking
  <2>2. ASSUME NEW q \in Prompts, PromptTurn(q) PROVE OneHolder'
    <3>1. /\ RespondV2({q}) /\ q \notin asked /\ asked' = asked \cup {q}
          /\ UNCHANGED <<ver, recap, feedback>> /\ Track(NewTurn, q, ~Idle) /\ Admit
      BY <2>2 DEF PromptTurn, Prompt
    <3>2. answers'[q] = Accepted /\ \A p \in Prompts \ {q} : answers'[p] = answers[p]
      BY <3>1, AnswersAfter DEF OneHolder, RespondV2, Accepted
    <3> DEFINE e == [turn |-> NewTurn, req |-> q, queued |-> ~Idle]
    <3>3. inFlight' = inFlight \cup {e} /\ e.req = q /\ \A f \in inFlight : f.turn # e.turn
      BY <3>1, AdmitAppends DEF Track, Admitted
    <3>4. e \in InFlight
      BY <3>1, AdmitAppends DEF InFlight
    <3>5. QED
      BY <3>1, <3>2, <3>3, <3>4, Asking
  <2>3. ASSUME NEW q \in Prompts, PromptGoal(q) PROVE OneHolder'
    <3>1. q \notin asked /\ asked' = asked \cup {q} /\ UNCHANGED <<ver, recap, feedback>>
      BY <2>3 DEF PromptGoal, Prompt
    <3>2. CASE Respond({q}) /\ inFlight' = inFlight
      <4>1. answers'[q] = 1 /\ \A p \in Prompts \ {q} : answers'[p] = answers[p]
        BY <3>1, <3>2, AnswersAfter DEF OneHolder
      <4>2. QED
        BY <3>1, <3>2, <4>1, Asking
    <3>3. ASSUME NEW t \in 1..MaxTurns, FreshGoalTurn(t), Track(t, q, FALSE), RespondV2({q})
          PROVE  OneHolder'
      <4>1. answers'[q] = Accepted /\ \A p \in Prompts \ {q} : answers'[p] = answers[p]
        BY <3>1, <3>3, AnswersAfter DEF OneHolder, RespondV2, Accepted
      <4> DEFINE e == [turn |-> t, req |-> q, queued |-> FALSE]
      <4>2. inFlight' = inFlight \cup {e} /\ e.req = q /\ \A f \in inFlight : f.turn # e.turn
        BY <3>3 DEF Track, FreshGoalTurn, Tracked
      <4>3. e \in InFlight
        BY DEF InFlight
      <4>4. QED
        BY <3>1, <4>1, <4>2, <4>3, Asking
    <3>4. QED
      BY <2>3, <3>2, <3>3 DEF PromptGoal
  <2>4. ASSUME NEW q \in Prompts, PromptRecap(q) PROVE OneHolder'
    <3>1. /\ q \notin asked /\ asked' = asked \cup {q} /\ recap = "none" /\ recap' = q
          /\ RespondV2({q}) /\ UNCHANGED <<ver, inFlight, feedback>>
      BY <2>4 DEF PromptRecap, Prompt
    <3>2. answers'[q] = Accepted /\ \A p \in Prompts \ {q} : answers'[p] = answers[p]
      BY <3>1, AnswersAfter DEF OneHolder, RespondV2, Accepted
    <3>3. QED
      BY <3>1, <3>2, Asking
  <2>5. ASSUME NEW q \in Prompts, PromptFeedback(q) PROVE OneHolder'
    <3>1. /\ q \notin asked /\ asked' = asked \cup {q} /\ feedback = "none" /\ feedback' = q
          /\ UNCHANGED <<ver, inFlight, recap, answers>>
      BY <2>5 DEF PromptFeedback, Prompt
    <3>2. QED
      BY <3>1, Asking DEF OneHolder
  <2>6. CASE Steer
    <3>1. UNCHANGED <<ver, recap, feedback, asked, answers>>
      BY <2>6 DEF Steer
    <3>2. CASE inFlight' = inFlight
      BY <3>1, <3>2 DEF OneHolder, Accepted
    <3>3. CASE Admit /\ Track(NewTurn, "none", FALSE)
      <4> DEFINE e == [turn |-> NewTurn, req |-> "none", queued |-> FALSE]
      <4>1. inFlight' = inFlight \cup {e} /\ e.req = "none" /\ \A f \in inFlight : f.turn # e.turn
        BY <3>3, AdmitAppends DEF Track, Admitted
      <4> HIDE DEF e
      <4>2. asked \subseteq Prompts
        BY DEF PromptsOK
      <4>3. QED
        BY <3>1, <4>1, <4>2 DEF OneHolder, Accepted
    <3>4. QED
      BY <2>6, <3>2, <3>3 DEF Steer
  <2>7. CASE FeedbackAnswered
    <3>1. Respond({feedback}) /\ feedback' = "none" /\ UNCHANGED <<ver, inFlight, recap, asked>>
          /\ feedback # "none"
      BY <2>7 DEF FeedbackAnswered
    <3>2. \A q \in Prompts : answers'[q] = IF q = feedback THEN answers[q] + 1 ELSE answers[q]
      BY <3>1, AnswersAfter
    <3>3. QED
      BY <3>1, <3>2, SettlingNoTurn
  <2>8. CASE SessionCancel
    <3>1. /\ Respond({feedback} \cup (IF ver = 1 THEN {recap} ELSE {}))
          /\ recap' = "none" /\ feedback' = "none" /\ UNCHANGED <<ver, inFlight, asked>>
      BY <2>8 DEF SessionCancel
    <3>2. \A q \in Prompts : answers'[q] = IF q = feedback \/ (ver = 1 /\ q = recap)
                                           THEN answers[q] + 1 ELSE answers[q]
      BY <3>1, AnswersAfter
    <3>3. QED
      BY <3>1, <3>2, SettlingNoTurn
  <2>9. CASE CloseSession
    <3>1. /\ Respond({feedback} \cup
                     (IF ver = 1 THEN {recap} \cup Reqs(inFlight) ELSE {}))
          /\ recap' = "none" /\ feedback' = "none" /\ inFlight' = {} /\ UNCHANGED <<ver, asked>>
      BY <2>9 DEF CloseSession
    <3>2. \A q \in Prompts : answers'[q] = IF q = feedback \/ (ver = 1 /\ q = recap)
                                              \/ (ver = 1 /\ \E e \in inFlight : e.req = q)
                                           THEN answers[q] + 1 ELSE answers[q]
      BY <3>1, AnswersAfter DEF Reqs
    <3>3. QED
      BY <3>1, <3>2, Settling
  <2>10. CASE RestartFails
    <3>1. /\ RespondV1(Reqs(inFlight) \cup {recap})
          /\ recap' = "none" /\ inFlight' = {} /\ UNCHANGED <<ver, asked, feedback>>
      BY <2>10 DEF RestartFails
    <3>2. \A q \in Prompts : answers'[q] = IF \/ ver = 1 /\ q = recap
                                              \/ ver = 1 /\ \E e \in inFlight : e.req = q
                                           THEN answers[q] + 1 ELSE answers[q]
      BY <3>1, AnswersAfter DEF RespondV1, Reqs
    <3>3. QED
      BY <3>1, <3>2, Settling
  <2>11. ASSUME NEW q \in Prompts, RecapCompleted(q) PROVE OneHolder'
    <3>1. UNCHANGED <<ver, asked, feedback, inFlight>>
      BY <2>11 DEF RecapCompleted
    <3>2. CASE recap = q
      <4>1. recap' = "none" /\ RespondV1({q})
        BY <2>11, <3>2 DEF RecapCompleted
      <4>2. \A p \in Prompts : answers'[p] = IF ver = 1 /\ p = recap THEN answers[p] + 1 ELSE answers[p]
        BY <3>2, <4>1, AnswersAfter DEF RespondV1
      <4>3. QED
        BY <3>1, <3>2, <4>1, <4>2, SettlingNoTurn
    <3>3. CASE recap # q
      <4>1. UNCHANGED <<recap, answers>>
        BY <2>11, <3>3 DEF RecapCompleted
      <4>2. QED
        BY <3>1, <4>1 DEF OneHolder, Accepted
    <3>4. QED
      BY <3>2, <3>3
  <2>12. CASE TurnCompleted \/ TurnUnqueued \/ TurnRetracted
    <3>1. Settle(Event.t) /\ UNCHANGED <<ver, asked, recap, feedback>>
      BY <2>12 DEF TurnCompleted, TurnUnqueued, TurnRetracted, Take
    <3> DEFINE G == inFlight \ Others(Event.t)
    <3>2. inFlight' = inFlight \ G /\ G \in SUBSET inFlight
      BY <3>1 DEF Settle, Others
    <3>3. \A q \in Prompts : answers'[q] = IF ver = 1 /\ \E e \in G : e.req = q
                                           THEN answers[q] + 1 ELSE answers[q]
      BY <3>1, AnswersAfterV1 DEF Settle, ReqOf
    <3>4. \A e, f \in inFlight : e.turn = f.turn => e = f
      BY DEF OneHolder
    <3> HIDE DEF G
    <3>5. QED
      BY <3>1, <3>2, <3>3, <3>4, Settling
  <2>13. CASE TurnStarted
    <3>1. /\ inFlight' = Launched(inFlight, Event.t)
          /\ UNCHANGED <<ver, asked, recap, feedback, answers>>
      BY <2>13 DEF TurnStarted, Take
    <3>2. inFlight \in SUBSET inFlight /\ {} \in SUBSET inFlight /\ inFlight \ {} = inFlight
      OBVIOUS
    <3>3. /\ \A d \in inFlight' : \E e \in inFlight : e.turn = d.turn /\ e.req = d.req
          /\ \A e \in inFlight : \E d \in inFlight' : d.turn = e.turn /\ d.req = e.req
          /\ \A d, e \in inFlight' : d.turn = e.turn => d = e
      BY <3>1, <3>2, Relabelled
    <3>4. \A q \in Prompts : answers'[q] = IF ver = 1 /\ \E e \in {} : e.req = q
                                           THEN answers[q] + 1 ELSE answers[q]
      BY <3>1
    <3>5. /\ \A d \in inFlight' : \E e \in inFlight \ {} : e.turn = d.turn /\ e.req = d.req
          /\ \A e \in inFlight \ {} : \E d \in inFlight' : d.req = e.req
      BY <3>2, <3>3
    <3>6. /\ \A d, e \in inFlight' : d.turn = e.turn => d = e
          /\ recap' \in {recap, "none"} /\ feedback' \in {feedback, "none"}
          /\ recap' = recap /\ feedback' = feedback /\ ver' = ver /\ asked' = asked
      BY <3>1, <3>3
    <3> QED
      BY <3>2, <3>4, <3>5, <3>6, Settling
  <2>14. CASE Reattach
    <3> DEFINE K == {e \in inFlight : e.turn \in Known}
               G == inFlight \ K
    <3>1. /\ inFlight' = Launched(K, snap.active)
          /\ RespondV1(Reqs(G))
          /\ UNCHANGED <<ver, asked, recap, feedback>>
      BY <2>14 DEF Reattach
    <3>2. K \in SUBSET inFlight /\ G \in SUBSET inFlight /\ K = inFlight \ G
      OBVIOUS
    <3> HIDE DEF K, G
    <3>3. /\ \A d \in inFlight' : \E e \in K : e.turn = d.turn /\ e.req = d.req
          /\ \A e \in K : \E d \in inFlight' : d.turn = e.turn /\ d.req = e.req
          /\ \A d, e \in inFlight' : d.turn = e.turn => d = e
      BY <3>1, <3>2, Relabelled
    <3>4. \A q \in Prompts : answers'[q] = IF ver = 1 /\ \E e \in G : e.req = q
                                           THEN answers[q] + 1 ELSE answers[q]
      BY <3>1, AnswersAfterV1
    <3>5. /\ \A d \in inFlight' : \E e \in inFlight \ G : e.turn = d.turn /\ e.req = d.req
          /\ \A e \in inFlight \ G : \E d \in inFlight' : d.req = e.req
      BY <3>2, <3>3
    <3>6. /\ \A d, e \in inFlight' : d.turn = e.turn => d = e
          /\ recap' \in {recap, "none"} /\ feedback' \in {feedback, "none"}
          /\ recap' = recap /\ feedback' = feedback /\ ver' = ver /\ asked' = asked
      BY <3>1, <3>3
    <3> QED
      BY <3>2, <3>4, <3>5, <3>6, Settling
  <2>15. CASE \/ \E q \in Prompts : CancelPending(q)
              \/ TurnDeclined \/ Resume \/ Host \/ UNCHANGED vars
    <3>1. UNCHANGED <<ver, asked, recap, feedback, inFlight, answers>>
      BY <2>15 DEF CancelPending, TurnDeclined, Take, Resume, Host, HostLaunches, HostStops,
         HostEnds, HostTurn, HostStarts, HostCrash, adapterVars, sessionVars, vars
    <3>2. QED
      BY <3>1 DEF OneHolder, Accepted
  <2>16. QED
    BY <2>1, <2>2, <2>3, <2>4, <2>5, <2>6, <2>7, <2>8, <2>9, <2>10, <2>11, <2>12, <2>13, <2>14,
       <2>15 DEF Next, Editor, Loop
<1>3. QED
  BY <1>1, <1>2, TypeCorrect, AdmittedHolds, PTL DEF Spec

\* No prompt is answered twice, however its turn ends: by its terminal, an unqueue,
\* a retract, a stop, a restart or a close.
THEOREM AnsweredOnceHolds == Spec => []AnsweredOnce
<1>1. TypeOK /\ OneHolder => AnsweredOnce
  <2> SUFFICES ASSUME OneHolder, NEW q \in Prompts PROVE answers[q] <= 1
    BY DEF AnsweredOnce
  <2>1. CASE q \in asked
    BY <2>1 DEF OneHolder
  <2>2. CASE q \notin asked
    BY <2>2 DEF OneHolder
  <2>3. QED
    BY <2>1, <2>2
<1>2. QED
  BY <1>1, TypeCorrect, OneHolderHolds, PTL
-----------------------------------------------------------------------------
(* The host's view and the session agree.                                   *)

Agreement == HostOrder /\ Awaited /\ Followed
StartOf(t) == [m |-> "started", t |-> t]

\* An event is added to the view.
LEMMA EmitKeeps ==
    ASSUME TypeOK, Agreement, NEW e \in Events, Emit(e),
           UNCHANGED <<up, loop, snap, session>>,
           DOMAIN turns \subseteq DOMAIN turns', e.t \in DOMAIN turns',
           \A t \in DOMAIN turns : Live(t)' => Live(t),
           \A t \in DOMAIN turns : Live(t) /\ ~Live(t)' => e.t = t /\ e.m \in Ends,
           e.m \in Ends => ~Live(e.t)',
           \A t, u \in Running' : t = u,
           \A t \in Running' \ Running : e = StartOf(t),
           e.m = "started" => Running' \subseteq {e.t},
           inFlight \subseteq inFlight',
           \A f \in inFlight' \ inFlight : loop = "idle" /\ session = "live" /\ Live(f.turn)',
           \A t \in Running \cap Running' : active' \in {active, t}
    PROVE  Agreement'
<1> HostOK /\ LoopOK
  BY DEF TypeOK
<1> USE DEF StartOf, EndAfter
<1>1. /\ Len(view) \in Nat /\ Len(view') = Len(view) + 1
      /\ DOMAIN view' = 1 .. Len(view) + 1 /\ DOMAIN view = 1 .. Len(view)
      /\ \A i \in DOMAIN view : view'[i] = view[i]
      /\ view'[Len(view) + 1] = e
      /\ (up /\ sent = Len(view)) => sent' = Len(view')
  BY EmitAppends DEF HostOK
<1>2. HostOrder'
  <2> HostOrder
    BY DEF Agreement
  <2>1. \A i \in DOMAIN view' : view'[i].t \in DOMAIN turns'
    BY <1>1 DEF HostOrder
  <2>2. \A i \in DOMAIN view' : Live(view[i].t)' => view'[i].m \notin Ends
    BY <1>1 DEF HostOrder, Live
  <2>3. ASSUME NEW t \in Running', NEW i \in DOMAIN view',
               view'[i].m = "started", view'[i].t # t
        PROVE  \E j \in DOMAIN view' : j > i /\ view'[j] = StartOf(t)
    <3>1. CASE i = Len(view) + 1
      BY <1>1, <2>3, <3>1
    <3>2. CASE i # Len(view) + 1 /\ t \in Running
      <4>1. i \in DOMAIN view /\ view[i] = view'[i]
        BY <1>1, <3>2
      <4>2. PICK j \in DOMAIN view : j > i /\ view[j] = StartOf(t)
        BY <2>3, <3>2, <4>1 DEF HostOrder
      <4>3. j \in DOMAIN view' /\ view'[j] = StartOf(t)
        BY <1>1, <4>2
      <4>4. QED
        BY <4>2, <4>3
    <3>3. CASE i # Len(view) + 1 /\ t \notin Running
      <4>1. e = StartOf(t) /\ Len(view) + 1 \in DOMAIN view' /\ Len(view) + 1 > i
        BY <1>1, <3>3
      <4>2. QED
        BY <1>1, <4>1
    <3>4. QED
      BY <3>1, <3>2, <3>3
  <2>4. up' => sent' = Len(view')
    BY <1>1 DEF HostOrder
  <2>5. loop' = "attach" => session' = "live" /\ snap'.after <= snap'.head /\ snap'.head <= Len(view')
    <3>1. snap.head \in Nat /\ snap.after \in Nat
      BY DEF LoopOK
    <3>2. \A k, l \in Nat : k <= l => k <= l + 1
      OBVIOUS
    <3>3. QED
      BY <1>1, <3>1, <3>2 DEF HostOrder
  <2>6. QED
    BY <2>1, <2>2, <2>3, <2>4, <2>5 DEF HostOrder
<1>3. ASSUME NEW n \in Nat, n <= Len(view), NEW t \in DOMAIN turns, Live(t) \/ EndAfter(n, t)
      PROVE  Live(t)' \/ EndAfter(n, t)'
  <2>1. CASE Live(t)
    <3>1. CASE Live(t)'
      BY <3>1
    <3>2. CASE ~Live(t)'
      <4>1. view'[Len(view) + 1].t = t /\ view'[Len(view) + 1].m \in Ends
            /\ Len(view) + 1 \in DOMAIN view' /\ Len(view) + 1 > n
        BY <1>1, <1>3, <2>1, <3>2
      <4>2. QED
        BY <4>1 DEF EndAfter
    <3>3. QED
      BY <3>1, <3>2
  <2>2. CASE EndAfter(n, t)
    BY <1>1, <2>2 DEF EndAfter
  <2>3. QED
    BY <1>3, <2>1, <2>2
<1>4. Awaited'
  <2> Awaited /\ HostOrder
    BY DEF Agreement
  <2>1. \A t : EndAfter(0, t) \/ EndAfter(snap.head, t) => t \in DOMAIN turns
    BY DEF EndAfter, HostOrder
  <2>2. session' # "live" => inFlight' = {}
    BY DEF Awaited
  <2>3. ASSUME loop' = "idle", NEW f \in inFlight' PROVE Live(f.turn)' \/ EndAfter(0, f.turn)'
    <3>1. CASE f \in inFlight
      <4>1. Live(f.turn) \/ EndAfter(0, f.turn)
        BY <2>3, <3>1 DEF Awaited
      <4>2. f.turn \in DOMAIN turns
        BY <2>1, <4>1 DEF Live
      <4>3. 0 \in Nat /\ 0 <= Len(view)
        BY <1>1
      <4>4. QED
        BY <1>3, <4>1, <4>2, <4>3
    <3>2. CASE f \notin inFlight
      BY <2>3, <3>2
    <3>3. QED
      BY <3>1, <3>2
  <2>4. ASSUME loop' = "attach", NEW f \in inFlight', f.turn \in snap'.known
        PROVE  Live(f.turn)' \/ EndAfter(snap.head, f.turn)'
    <3>1. f \in inFlight /\ snap' = snap
      BY <2>4
    <3>2. Live(f.turn) \/ EndAfter(snap.head, f.turn)
      BY <2>4, <3>1 DEF Awaited
    <3>3. f.turn \in DOMAIN turns
      BY <2>1, <3>2 DEF Live
    <3>4. snap.head \in Nat /\ snap.head <= Len(view)
      BY <2>4 DEF LoopOK, HostOrder
    <3>5. QED
      BY <1>3, <3>1, <3>2, <3>3, <3>4
  <2>5. QED
    BY <2>2, <2>3, <2>4 DEF Awaited
<1>5. Followed'
  <2> Followed
    BY DEF Agreement
  <2> DEFINE h == IF loop = "attach" THEN snap.head ELSE 0
  <2>1. h \in Nat /\ h <= Len(view) /\ h' = h
    BY <1>1 DEF LoopOK, HostOrder, Agreement
  <2> SUFFICES ASSUME session = "live", NEW t \in Running'
               PROVE  \/ \E i \in DOMAIN view' : view'[i] = StartOf(t) /\ i > h'
                      \/ active' = t
                      \/ loop' = "idle" /\ Tracked(t)'
    BY DEF Followed
  <2>2. CASE t \notin Running
    <3>1. e = StartOf(t) /\ Len(view) + 1 \in DOMAIN view' /\ Len(view) + 1 > h'
      BY <1>1, <2>1, <2>2
    <3>2. QED
      BY <1>1, <3>1
  <2>3. CASE t \in Running
    <3>1. CASE \E i \in DOMAIN view : view[i] = StartOf(t) /\ i > h
      BY <1>1, <2>1, <3>1
    <3>2. CASE active = t
      BY <2>3, <3>2
    <3>3. CASE loop = "idle" /\ Tracked(t)
      BY <3>3 DEF Tracked
    <3>4. QED
      BY <2>3, <3>1, <3>2, <3>3 DEF Followed
  <2>4. QED
    BY <2>2, <2>3
<1>6. QED
  BY <1>2, <1>4, <1>5 DEF Agreement
\* Nothing happens to the view: at most a queued turn is admitted.
LEMMA QuietKeeps ==
    ASSUME TypeOK, Agreement, UNCHANGED <<view, sent, up, loop, snap, session>>,
           DOMAIN turns \subseteq DOMAIN turns',
           \A t \in DOMAIN turns : Live(t)' <=> Live(t),
           Running' \subseteq Running,
           inFlight \subseteq inFlight',
           \A f \in inFlight' \ inFlight : loop = "idle" /\ session = "live" /\ Live(f.turn)',
           \A t \in Running' : active' \in {active, t}
    PROVE  Agreement'
<1> USE DEF StartOf, EndAfter
<1>1. HostOrder'
  BY DEF Agreement, HostOrder
<1>2. Awaited'
  <2>1. \A f \in inFlight : Live(f.turn) => Live(f.turn)'
    BY DEF Live
  <2>2. QED
    BY <2>1 DEF Agreement, Awaited
<1>3. Followed'
  BY DEF Agreement, Followed, Tracked
<1>4. QED
  BY <1>1, <1>2, <1>3 DEF Agreement

\* The loop reads an event.
LEMMA TakeKeeps ==
    ASSUME TypeOK, Agreement, NEW m \in {"started", "completed", "unqueued", "retracted", "declined"},
           Take(m),
           \A f \in inFlight' : \E g \in inFlight : f.turn = g.turn /\ (m \in Ends => f.turn # Event.t),
           \A g \in inFlight : \/ m \in Ends /\ g.turn = Event.t
                               \/ \E f \in inFlight' : f.turn = g.turn,
           m = "started" => active' = Event.t,
           m # "started" => active' = active \/ (m \in Ends /\ active = Event.t)
    PROVE  Agreement'
<1> HostOK
  BY DEF TypeOK
<1> USE DEF StartOf, EndAfter
<1>1. /\ Event = view[1] /\ Event.m = m /\ Len(view) \in Nat /\ Len(view) > 0
      /\ Len(view') = Len(view) - 1
      /\ DOMAIN view' = 1 .. Len(view) - 1 /\ DOMAIN view = 1 .. Len(view)
      /\ \A i \in DOMAIN view' : view'[i] = view[i + 1]
  BY TakeDrops
<1>2. loop = "idle" /\ session = "live" /\ sent' = sent - 1
      /\ UNCHANGED <<turns, up, loop, snap, session>>
  BY DEF Take
<1>3. /\ \A i \in DOMAIN view' : i + 1 \in DOMAIN view /\ i + 1 > 1
      /\ \A i \in DOMAIN view : i > 1 => i - 1 \in DOMAIN view' /\ view'[i - 1] = view[i] /\ i - 1 > 0
      /\ 1 \in DOMAIN view
  BY <1>1
<1>4. Running' = Running /\ \A t : Live(t)' <=> Live(t)
  BY <1>2 DEF Running, Live
<1>5. HostOrder'
  <2> HostOrder
    BY DEF Agreement
  <2>1. /\ \A t, u \in Running' : t = u
        /\ \A i \in DOMAIN view' : view'[i].t \in DOMAIN turns'
        /\ \A i \in DOMAIN view' : Live(view[i].t)' => view'[i].m \notin Ends
    BY <1>1, <1>2, <1>3, <1>4 DEF HostOrder, Live
  <2>2. ASSUME NEW t \in Running', NEW i \in DOMAIN view',
               view'[i].m = "started", view'[i].t # t
        PROVE  \E j \in DOMAIN view' : j > i /\ view'[j] = StartOf(t)
    <3>1. i + 1 \in DOMAIN view /\ view[i + 1] = view'[i]
      BY <1>1, <1>3
    <3>2. PICK j \in DOMAIN view : j > i + 1 /\ view[j] = StartOf(t)
      BY <1>4, <2>2, <3>1 DEF HostOrder
    <3>3. i \in Int /\ j \in Int /\ i >= 1
      BY <1>1
    <3>4. j > 1 /\ j - 1 > i
      BY <3>2, <3>3
    <3>5. QED
      BY <1>3, <3>2, <3>4
  <2>3. (up' => sent' = Len(view')) /\ loop' # "attach"
    BY <1>1, <1>2 DEF HostOrder
  <2>4. QED
    BY <2>1, <2>2, <2>3 DEF HostOrder
<1>6. Awaited'
  <2>1. ASSUME NEW f \in inFlight' PROVE Live(f.turn)' \/ EndAfter(0, f.turn)'
    <3>1. PICK g \in inFlight : f.turn = g.turn /\ (m \in Ends => f.turn # Event.t)
      OBVIOUS
    <3>2. CASE Live(f.turn)
      BY <1>4, <3>2
    <3>3. ASSUME NEW i \in DOMAIN view, view[i].t = f.turn, view[i].m \in Ends
          PROVE  EndAfter(0, f.turn)'
      <4>1. i \in Int /\ i >= 1 /\ i # 1
        BY <1>1, <3>1, <3>3
      <4>2. i > 1
        BY <4>1
      <4>3. QED
        BY <1>3, <3>3, <4>2
    <3>4. QED
      BY <1>2, <3>1, <3>2, <3>3 DEF Agreement, Awaited
  <2>2. session' = "live" /\ loop' = "idle"
    BY <1>2
  <2>3. (session' # "live" => inFlight' = {}) /\ loop' # "attach"
    BY <2>2
  <2>4. QED
    BY <2>1, <2>3 DEF Awaited
<1>7. Followed'
  <2> HostOrder /\ Followed
    BY DEF Agreement
  <2> SUFFICES ASSUME NEW t \in Running
               PROVE  \/ \E i \in DOMAIN view' : view'[i] = StartOf(t) /\ i > 0
                      \/ active' = t \/ Tracked(t)'
    BY <1>2, <1>4 DEF Followed
  <2>0. Live(t)
    BY DEF Live, Running
  <2>1. ASSUME NEW i \in DOMAIN view, view[i] = StartOf(t), i # 1
        PROVE  \E j \in DOMAIN view' : view'[j] = StartOf(t) /\ j > 0
    <3>1. i > 1
      BY <1>1, <2>1
    <3>2. QED
      BY <1>3, <2>1, <3>1
  <2>2. CASE m = "started"
    <3>1. CASE Event.t = t
      BY <2>2, <3>1
    <3>2. CASE Event.t # t
      <4>1. PICK j \in DOMAIN view : j > 1 /\ view[j] = StartOf(t)
        BY <1>1, <1>3, <2>2, <3>2 DEF HostOrder
      <4>2. QED
        BY <2>1, <4>1
    <3>3. QED
      BY <3>1, <3>2
  <2>3. CASE m # "started"
    <3>1. m \in Ends => Event.t # t
      BY <1>1, <1>3, <2>0 DEF HostOrder
    <3>2. CASE \E i \in DOMAIN view : view[i] = StartOf(t) /\ i > 0
      <4>1. view[1] # StartOf(t)
        BY <1>1, <2>3
      <4>2. QED
        BY <2>1, <3>2, <4>1
    <3>3. CASE active = t
      BY <2>3, <3>1, <3>3
    <3>4. CASE Tracked(t)
      BY <3>1, <3>4 DEF Tracked
    <3>5. QED
      BY <1>2, <3>2, <3>3, <3>4 DEF Followed
  <2>4. QED
    BY <2>2, <2>3
<1>8. QED
  BY <1>5, <1>6, <1>7 DEF Agreement
LEMMA AgreementHolds == Spec => []Agreement
<1>1. Init => Agreement
  BY DEF Init, Agreement, HostOrder, Awaited, Followed, Running, Live
<1>2. TypeOK /\ Admitted /\ Agreement /\ [Next]_vars => Agreement'
  <2> SUFFICES ASSUME TypeOK, Admitted, Agreement, [Next]_vars PROVE Agreement'
    OBVIOUS
  <2> HostOK /\ LoopOK /\ PromptsOK
    BY DEF TypeOK
  <2>0. \A t \in DOMAIN turns : t \in 1..MaxTurns
    BY DEF HostOK
  \* A turn the host admits.
  <2>1. ASSUME Admit, UNCHANGED <<loop, snap, session>>, inFlight \subseteq inFlight',
               \A f \in inFlight' \ inFlight : loop = "idle" /\ session = "live" /\ f.turn = NewTurn,
               Idle => active' \in {active, NewTurn}, ~Idle => active' = active
        PROVE  Agreement'
    <3>0. PICK n \in 1..MaxTurns : n = NewTurn
      BY <2>1, AdmitAppends
    <3>1. /\ n \notin DOMAIN turns
          /\ DOMAIN turns' = DOMAIN turns \cup {n}
          /\ \A t \in DOMAIN turns : turns'[t] = turns[t]
          /\ turns'[n] = IF Idle THEN "running" ELSE "queued"
          /\ StartOf(n) \in Events
      BY <2>1, <3>0, AdmitAppends DEF StartOf
    <3>2. Live(n)' /\ (\A t \in DOMAIN turns : Live(t)' <=> Live(t)) /\ DOMAIN turns \subseteq DOMAIN turns'
      BY <3>1 DEF Live
    <3>3. up' = up /\ \A f \in inFlight' \ inFlight : loop = "idle" /\ session = "live" /\ Live(f.turn)'
      BY <2>1, <3>0, <3>2 DEF Admit
    <3>4. CASE Idle
      <4>1. Emit(StartOf(n))
        BY <2>1, <3>0, <3>4 DEF Admit, StartOf
      <4>2. Running = {} /\ Running' = {n}
        BY <3>1, <3>4 DEF Idle, Running, Queued
      <4>3. StartOf(n).t = n /\ StartOf(n).m \notin Ends /\ n \in DOMAIN turns'
        BY <3>1 DEF StartOf, Ends
      <4>4. QED
        BY <2>1, <3>1, <3>2, <3>3, <4>1, <4>2, <4>3, EmitKeeps
    <3>5. CASE ~Idle
      <4>1. UNCHANGED <<view, sent, up, loop, snap, session>>
        BY <2>1, <3>3, <3>5 DEF Admit
      <4>2. Running' \subseteq Running
        BY <3>1, <3>5 DEF Running
      <4>3. \A t \in Running' : active' \in {active, t}
        BY <2>1, <3>5
      <4>4. QED
        BY <2>1, <3>2, <3>3, <4>1, <4>2, <4>3, QuietKeeps
    <3>6. QED
      BY <3>4, <3>5
  \* The host and the session are where they were.
  <2>2. ASSUME UNCHANGED <<turns, view, sent, up, loop, snap, session>>,
               inFlight \subseteq inFlight',
               \A f \in inFlight' \ inFlight : loop = "idle" /\ session = "live" /\ f.turn \in Running,
               active' = active \/ active' \in Running
        PROVE  Agreement'
    <3>1. Running' = Running /\ \A t : Live(t)' <=> Live(t)
      BY <2>2 DEF Running, Live
    <3>2. \A t \in Running : Live(t)
      BY DEF Running, Live
    <3>3. \A t, u \in Running : t = u
      BY DEF Agreement, HostOrder
    <3>4. QED
      BY <2>2, <3>1, <3>2, <3>3, QuietKeeps
  <2>3. CASE \E q \in Prompts : PromptTurn(q)
    BY <2>1, <2>3 DEF PromptTurn, Prompt, Admit, Track
  <2>4. ASSUME NEW q \in Prompts, PromptGoal(q) PROVE Agreement'
    <3>1. loop = "idle" /\ session = "live" /\ UNCHANGED <<loop, snap, session>>
      BY <2>4 DEF PromptGoal, Prompt
    <3>2. PICK t \in 1..MaxTurns :
             /\ IF Idle THEN t = NewTurn /\ Admit ELSE t \in Running /\ UNCHANGED hostVars
             /\ IF FreshGoalTurn(t)
                THEN Track(t, q, FALSE) /\ active' = t /\ RespondV2({q}) /\ State("running")
                ELSE Respond({q}) /\ State(Rest) /\ UNCHANGED <<inFlight, active>>
      BY <2>4 DEF PromptGoal
    <3>3. /\ inFlight \subseteq inFlight' /\ \A f \in inFlight' \ inFlight : f.turn = t
          /\ active' \in {active, t}
      BY <3>2 DEF Track
    <3>4. CASE Idle
      BY <2>1, <3>1, <3>2, <3>3, <3>4
    <3>5. CASE ~Idle
      BY <2>2, <3>1, <3>2, <3>3, <3>5 DEF hostVars
    <3>6. QED
      BY <3>4, <3>5
  <2>5. CASE Steer
    <3>1. loop = "idle" /\ session = "live" /\ UNCHANGED <<loop, snap, session>>
      BY <2>5 DEF Steer
    <3>2. CASE Idle /\ Admit /\ active' = NewTurn /\ Track(NewTurn, "none", FALSE)
      BY <2>1, <3>1, <3>2 DEF Track
    <3>3. CASE (\E t \in Running : active' = t) /\ UNCHANGED <<hostVars, inFlight>>
      BY <2>2, <3>1, <3>3 DEF hostVars
    <3>4. QED
      BY <2>5, <3>2, <3>3 DEF Steer
  <2>6. CASE (\E q \in Prompts : PromptRefused(q)) \/ HostStarts
    <3>1. UNCHANGED <<loop, snap, session, inFlight, active>>
      BY <2>6 DEF PromptRefused, HostStarts, sessionVars, adapterVars
    <3>2. CASE Admit
      BY <2>1, <3>1, <3>2
    <3>3. CASE UNCHANGED hostVars
      BY <2>2, <3>1, <3>3 DEF hostVars
    <3>4. QED
      BY <2>6, <3>2, <3>3 DEF PromptRefused, HostStarts
  <2>7. CASE \/ \E q \in Prompts : \/ PromptUnreadable(q) \/ PromptCommand(q) \/ PromptRecap(q)
                                   \/ PromptFeedback(q) \/ RecapCompleted(q)
             \/ FeedbackAnswered \/ SessionCancel \/ UNCHANGED vars
    <3>1. UNCHANGED <<turns, view, sent, up, loop, snap, session, inFlight, active>>
      BY <2>7 DEF PromptUnreadable, PromptCommand, PromptRecap, PromptFeedback, RecapCompleted,
         FeedbackAnswered, SessionCancel, Interrupt, vars, hostVars, sessionVars
    <3>2. QED
      BY <2>2, <3>1
  <2>8. CASE CloseSession \/ RestartFails
    <3>1. /\ loop = "idle" /\ session' # "live" /\ inFlight' = {}
          /\ UNCHANGED <<turns, view, sent, up, loop, snap>>
      BY <2>8 DEF CloseSession, RestartFails, Interrupt, hostVars
    <3>2. HostOrder'
      BY <3>1 DEF Agreement, HostOrder, Running, Live
    <3>3. QED
      BY <3>1, <3>2 DEF Agreement, Awaited, Followed
  <2>9. CASE HostCrash
    <3>1. UNCHANGED <<turns, view, loop, snap, session, inFlight, active>> /\ ~up'
      BY <2>9 DEF HostCrash, adapterVars, sessionVars
    <3>2. HostOrder'
      BY <3>1 DEF Agreement, HostOrder, Running, Live
    <3>3. Awaited' /\ Followed'
      BY <3>1 DEF Agreement, Awaited, Followed, Running, Live, EndAfter, Tracked
    <3>4. QED
      BY <3>2, <3>3 DEF Agreement
  <2>10. ASSUME NEW q \in Prompts, CancelPending(q) PROVE Agreement'
    <3>1. PICK f \in inFlight : /\ f.turn \in Queued
                                /\ turns' = [turns EXCEPT ![f.turn] = "ended"]
                                /\ Emit([m |-> "unqueued", t |-> f.turn])
      BY <2>10 DEF CancelPending
    <3>2. PICK t \in DOMAIN turns : t = f.turn /\ turns[t] = "queued"
      BY <3>1 DEF Queued
    <3>3. PICK e \in Events : e.m = "unqueued" /\ e.t = t /\ Emit(e)
      BY <2>0, <3>1, <3>2 DEF Events
    <3>4. /\ DOMAIN turns' = DOMAIN turns /\ turns'[t] = "ended"
          /\ \A u \in DOMAIN turns : u # t => turns'[u] = turns[u]
      BY <3>1, <3>2 DEF HostOK
    <3>5. (\A u : Live(u)' => Live(u)) /\ ~Live(t)' /\ \A u : Live(u) /\ ~Live(u)' => u = t
      BY <3>4 DEF Live
    <3>6. Running' = Running
      BY <3>2, <3>4 DEF Running
    <3>7. UNCHANGED <<up, loop, snap, session, inFlight, active>>
      BY <2>10 DEF CancelPending, sessionVars
    <3>8. \A u, v \in Running : u = v
      BY DEF Agreement, HostOrder
    <3>9. e.m \in Ends /\ e.m # "started"
      BY <3>3 DEF Ends
    <3>10. QED
      BY <3>3, <3>4, <3>5, <3>6, <3>7, <3>8, <3>9, EmitKeeps
  <2>11. CASE TurnStarted
    <3>1. Take("started") /\ active' = Event.t /\ inFlight' = Launched(inFlight, Event.t)
      BY <2>11 DEF TurnStarted
    <3>2. "started" \notin Ends
      BY DEF Ends
    <3>3. \A f \in inFlight' : \E g \in inFlight : f.turn = g.turn
      BY <3>1 DEF Launched, PromptsOK, InFlight
    <3>4. \A g \in inFlight : \E f \in inFlight' : f.turn = g.turn
      <4>1. ASSUME NEW g \in inFlight PROVE \E f \in inFlight' : f.turn = g.turn
        <5>1. [g EXCEPT !.queued = @ /\ g.turn # Event.t] \in inFlight'
          BY <3>1 DEF Launched
        <5>2. [g EXCEPT !.queued = @ /\ g.turn # Event.t].turn = g.turn
          BY DEF PromptsOK, InFlight
        <5>3. QED
          BY <5>1, <5>2
      <4>2. QED
        BY <4>1
    <3>5. QED
      BY <3>1, <3>2, <3>3, <3>4, TakeKeeps
  \* The loop reads an end, or that a retract was declined.
  <2>12. ASSUME NEW m \in {"completed", "unqueued", "retracted"}, Take(m),
                inFlight' = Others(Event.t), active' = active \/ active' = EndsActive(Event.t)
         PROVE  Agreement'
    <3>1. m \in Ends /\ m # "started"
      BY DEF Ends
    <3>2. \A f \in inFlight' : f \in inFlight /\ f.turn # Event.t
      BY <2>12 DEF Others
    <3>3. \A g \in inFlight : g.turn = Event.t \/ g \in inFlight'
      BY <2>12 DEF Others
    <3>4. active' = active \/ active = Event.t
      BY <2>12 DEF EndsActive
    <3>5. m \in {"started", "completed", "unqueued", "retracted", "declined"}
      OBVIOUS
    <3>6. QED
      BY <2>12, <3>1, <3>2, <3>3, <3>4, <3>5, TakeKeeps
  <2>13. CASE TurnCompleted
    BY <2>12, <2>13 DEF TurnCompleted, Settle
  <2>14. CASE TurnUnqueued
    BY <2>12, <2>14 DEF TurnUnqueued, Settle
  <2>15. CASE TurnRetracted
    BY <2>12, <2>15 DEF TurnRetracted, Settle
  <2>16. CASE TurnDeclined
    <3>1. Take("declined") /\ UNCHANGED <<active, inFlight>> /\ "declined" \notin Ends
      BY <2>16 DEF TurnDeclined, Ends
    <3>2. QED
      BY <3>1, TakeKeeps
  \* A turn of the host moves on.
  <2>17. ASSUME NEW t \in DOMAIN turns, NEW st \in {"running", "retracted", "ended"},
                NEW m \in {"started", "completed", "unqueued", "retracted", "declined"},
                HostTurn(t, st, m),
                \/ st = "running" /\ m = "started" /\ Running = {} /\ t \in Queued
                \/ st # "running" /\ m \in Ends
         PROVE  Agreement'
    <3>1. /\ [m |-> m, t |-> t] \in Events /\ Emit([m |-> m, t |-> t])
          /\ turns' = [turns EXCEPT ![t] = st] /\ DOMAIN turns' = DOMAIN turns
          /\ UNCHANGED <<up, loop, snap, session, inFlight, active>>
      BY <2>17, HostTurnMoves DEF adapterVars, sessionVars
    <3>2. turns'[t] = st /\ \A u \in DOMAIN turns : u # t => turns'[u] = turns[u]
      BY <3>1 DEF HostOK
    <3>3. PICK e \in Events : e.m = m /\ e.t = t /\ Emit(e) /\ e = [m |-> m, t |-> t]
      BY <3>1
    <3>4. \A u, v \in Running : u = v
      BY DEF Agreement, HostOrder
    <3>5. CASE st = "running" /\ m = "started" /\ Running = {} /\ t \in Queued
      <4>1. Running' = {t} /\ \A u : Live(u)' <=> Live(u)
        BY <3>1, <3>2, <3>5 DEF Running, Queued, Live
      <4>2. e = StartOf(t) /\ e.m \notin Ends
        BY <3>3, <3>5 DEF StartOf, Ends
      <4>3. QED
        BY <3>1, <3>3, <3>5, <4>1, <4>2, EmitKeeps
    <3>6. CASE st # "running" /\ m \in Ends
      <4>1. ~Live(t)' /\ (\A u \in DOMAIN turns : Live(u)' => Live(u))
            /\ \A u \in DOMAIN turns : Live(u) /\ ~Live(u)' => u = t
        BY <3>1, <3>2, <3>6 DEF Live
      <4>2. Running' \subseteq Running
        BY <3>1, <3>2, <3>6 DEF Running
      <4>3. e.m \in Ends /\ e.m # "started"
        BY <3>3, <3>6 DEF Ends
      <4>4. QED
        BY <3>1, <3>3, <3>4, <4>1, <4>2, <4>3, EmitKeeps
    <3>7. QED
      BY <2>17, <3>5, <3>6
  <2>18. ASSUME NEW t \in DOMAIN turns, HostLaunches(t) PROVE Agreement'
    <3>1. Running = {} /\ t \in Queued
          /\ (HostTurn(t, "running", "started") \/ HostTurn(t, "ended", "completed"))
      BY <2>18 DEF HostLaunches
    <3>2. QED
      BY <2>17, <3>1 DEF Ends
  <2>19. ASSUME NEW t \in DOMAIN turns, HostEnds(t) PROVE Agreement'
    <3>1. HostTurn(t, "ended", "completed")
      BY <2>19 DEF HostEnds
    <3>2. QED
      BY <2>17, <3>1 DEF Ends
  <2>20. ASSUME NEW t \in DOMAIN turns, HostStops(t) PROVE Agreement'
    <3>1. CASE \E m \in {"unqueued", "completed"} : HostTurn(t, "ended", m)
      BY <2>17, <3>1 DEF Ends
    <3>2. CASE HostTurn(t, "retracted", "retracted")
      BY <2>17, <3>2 DEF Ends
    <3>3. CASE HostTurn(t, "ended", "completed")
      BY <2>17, <3>3 DEF Ends
    <3>4. CASE /\ t \in Running
               /\ Emit([m |-> "declined", t |-> t]) /\ retract' = retract \ {t}
               /\ UNCHANGED <<turns, told, hrecaps, up, crashes, adapterVars>>
      <4>1. PICK e \in Events : e.m = "declined" /\ e.t = t /\ Emit(e)
        BY <2>0, <3>4 DEF Events
      <4>2. UNCHANGED <<turns, up, loop, snap, session, inFlight, active>>
        BY <3>4 DEF adapterVars, sessionVars
      <4>3. Running' = Running /\ \A u : Live(u)' <=> Live(u)
        BY <4>2 DEF Running, Live
      <4>4. \A u, v \in Running : u = v
        BY DEF Agreement, HostOrder
      <4>5. e.m \notin Ends /\ e.m # "started"
        BY <4>1 DEF Ends
      <4>6. QED
        BY <4>1, <4>2, <4>3, <4>4, <4>5, EmitKeeps
    <3>5. QED
      BY <2>20, <3>1, <3>2, <3>3, <3>4 DEF HostStops
  \* session/resume: what the host told before the loop asked is behind it.
  <2>21. CASE Resume
    <3>1. /\ loop = "idle" /\ session = "live" /\ sent' = Len(view) /\ loop' = "attach"
          /\ UNCHANGED <<view, session, inFlight>> /\ active' = snap'.active
      BY <2>21 DEF Resume
    <3>2. \A t, u \in Running : t = u
      BY DEF Agreement, HostOrder
    <3>3. Len(view) \in Nat /\ ahead \in Nat /\ ahead <= Len(view)
      BY DEF HostOK, LoopOK
    <3>4. CASE /\ snap' = [known |-> Running \cup Queued,
                           active |-> IF Running = {} THEN 0 ELSE CHOOSE t \in Running : TRUE,
                           head |-> Len(view), after |-> ahead]
               /\ UNCHANGED turns
      <4>1. /\ snap'.known = Running \cup Queued /\ snap'.head = Len(view) /\ snap'.after = ahead
            /\ snap'.active = IF Running = {} THEN 0 ELSE CHOOSE t \in Running : TRUE
        BY <3>4
      <4>2. \A t \in Running : snap'.active = t
        <5>1. Running # {} => snap'.active \in Running
          BY <4>1
        <5>2. QED
          BY <3>2, <5>1
      <4>3. Running' = Running /\ \A t : Live(t)' <=> Live(t)
        BY <3>4 DEF Running, Live
      <4>4. HostOrder'
        BY <3>1, <3>3, <3>4, <4>1, <4>3 DEF Agreement, HostOrder, Live
      <4>5. Awaited'
        <5>1. \A t \in Running \cup Queued : Live(t)
          BY DEF Live, Running, Queued
        <5>2. QED
          BY <3>1, <4>1, <4>3, <5>1 DEF Awaited
      <4>6. Followed'
        BY <3>1, <4>2, <4>3 DEF Followed
      <4>7. QED
        BY <4>4, <4>5, <4>6 DEF Agreement
    <3>5. CASE /\ turns' = [t \in DOMAIN turns |-> "ended"]
               /\ snap' = [known |-> {}, active |-> 0, head |-> Len(view), after |-> Len(view)]
      <4>1. snap'.known = {} /\ snap'.head = Len(view) /\ snap'.after = Len(view)
        BY <3>5
      <4>2. DOMAIN turns' = DOMAIN turns /\ \A t \in DOMAIN turns : turns'[t] = "ended"
        BY <3>5
      <4>3. Running' = {} /\ \A t : ~Live(t)'
        BY <4>2 DEF Running, Live
      <4>4. HostOrder'
        BY <3>1, <3>3, <4>1, <4>2, <4>3 DEF Agreement, HostOrder, Live
      <4>5. Awaited' /\ Followed'
        BY <3>1, <4>1, <4>3 DEF Awaited, Followed, Agreement
      <4>6. QED
        BY <4>4, <4>5 DEF Agreement
    <3>6. QED
      BY <2>21, <3>4, <3>5 DEF Resume
  \* The view is followed again, and prompts whose turns are gone are settled.
  <2>22. CASE Reattach
    <3>1. /\ loop = "attach" /\ loop' = "idle" /\ UNCHANGED <<turns, up, session, active>>
          /\ inFlight' = Launched({e \in inFlight : e.turn \in Known}, snap.active)
      BY <2>22 DEF Reattach
    <3>2. PICK n \in Nat : n <= snap.head /\ Follow(n)
      <4>1. snap.after \in Nat /\ snap.head \in Nat /\ snap.after <= snap.head
        BY <3>1 DEF LoopOK, Agreement, HostOrder
      <4>2. Follow(snap.after) \/ Follow(snap.head)
        BY <2>22 DEF Reattach
      <4>3. QED
        BY <4>1, <4>2
    <3>3. session = "live" /\ snap.head \in Nat /\ snap.head <= Len(view) /\ n <= Len(view)
      <4>1. Len(view) \in Nat /\ snap.head \in Nat /\ snap.head <= Len(view) /\ session = "live"
        BY <3>1 DEF HostOK, LoopOK, Agreement, HostOrder
      <4>2. QED
        BY <3>2, <4>1
    <3>4. /\ Len(view') = Len(view) - n
          /\ DOMAIN view' = 1 .. Len(view) - n /\ DOMAIN view = 1 .. Len(view)
          /\ Len(view) \in Nat
          /\ \A i \in DOMAIN view' : view'[i] = view[i + n]
          /\ sent = Len(view) => sent' = Len(view')
      BY <3>2, <3>3, FollowDrops
    <3>5. /\ \A i \in DOMAIN view' : i + n \in DOMAIN view /\ i \in Nat
          /\ \A i \in DOMAIN view : i \in Nat /\
                (i > n => i - n \in DOMAIN view' /\ view'[i - n] = view[i] /\ i - n > 0)
      BY <3>4
    <3>6. Running' = Running /\ \A t : Live(t)' <=> Live(t)
      BY <3>1 DEF Running, Live
    <3>7. HostOrder'
      <4> HostOrder
        BY DEF Agreement
      <4>1. /\ \A t, u \in Running' : t = u
            /\ \A i \in DOMAIN view' : view'[i].t \in DOMAIN turns'
            /\ \A i \in DOMAIN view' : Live(view[i].t)' => view'[i].m \notin Ends
        BY <3>1, <3>4, <3>5, <3>6 DEF HostOrder, Live
      <4>2. ASSUME NEW t \in Running', NEW i \in DOMAIN view',
                   view'[i].m = "started", view'[i].t # t
            PROVE  \E j \in DOMAIN view' : j > i /\ view'[j] = StartOf(t)
        <5>1. i + n \in DOMAIN view /\ view[i + n] = view'[i]
          BY <3>4, <3>5
        <5>2. PICK j \in DOMAIN view : j > i + n /\ view[j] = StartOf(t)
          BY <3>6, <4>2, <5>1 DEF HostOrder, StartOf
        <5>3. i \in Nat /\ j \in Nat
          BY <3>5
        <5>4. j > n /\ j - n > i
          BY <5>2, <5>3
        <5>5. QED
          BY <3>5, <5>2, <5>4
      <4>3. (up' => sent' = Len(view')) /\ loop' # "attach"
        BY <3>1, <3>4 DEF HostOrder
      <4>4. QED
        BY <4>1, <4>2, <4>3 DEF HostOrder, StartOf
    <3>8. Awaited'
      <4>1. ASSUME NEW f \in inFlight' PROVE Live(f.turn)' \/ EndAfter(0, f.turn)'
        <5>1. PICK g \in inFlight : f.turn = g.turn /\ g.turn \in snap.known
          BY <3>1 DEF Launched, Known, PromptsOK, InFlight
        <5>2. CASE Live(f.turn)
          BY <3>6, <5>2
        <5>3. ASSUME NEW i \in DOMAIN view, i > snap.head, view[i].t = f.turn, view[i].m \in Ends
              PROVE  EndAfter(0, f.turn)'
          <6>1. i > n
            BY <3>2, <3>3, <3>5, <5>3
          <6>2. QED
            BY <3>5, <5>3, <6>1 DEF EndAfter
        <5>4. QED
          BY <3>1, <5>1, <5>2, <5>3 DEF Agreement, Awaited, EndAfter
      <4>2. (session' # "live" => inFlight' = {}) /\ loop' # "attach"
        BY <3>1, <3>3
      <4>3. QED
        BY <4>1, <4>2 DEF Awaited
    <3>9. Followed'
      <4>1. ASSUME NEW t \in Running
            PROVE  active = t \/ \E i \in DOMAIN view' : view'[i] = StartOf(t) /\ i > 0
        <5>1. CASE active = t
          BY <5>1
        <5>2. ASSUME NEW i \in DOMAIN view, view[i] = StartOf(t), i > snap.head
              PROVE  \E j \in DOMAIN view' : view'[j] = StartOf(t) /\ j > 0
          <6>1. i > n
            BY <3>2, <3>3, <3>5, <5>2
          <6>2. QED
            BY <3>5, <5>2, <6>1
        <5>3. QED
          BY <3>1, <3>3, <5>1, <5>2 DEF Agreement, Followed, StartOf
      <4>2. loop' = "idle" /\ active' = active
        BY <3>1
      <4>3. QED
        BY <3>6, <4>1, <4>2 DEF Followed, StartOf
    <3>10. QED
      BY <3>7, <3>8, <3>9 DEF Agreement
  <2>23. QED
    BY <2>3, <2>4, <2>5, <2>6, <2>7, <2>8, <2>9, <2>10, <2>11, <2>13, <2>14, <2>15, <2>16,
       <2>18, <2>19, <2>20, <2>21, <2>22 DEF Next, Editor, Loop, Host
<1>3. QED
  BY <1>1, <1>2, TypeCorrect, AdmittedHolds, PTL DEF Spec

\* NoHangingPrompt (main.rs, in_flight and its settling): once the loop has caught up, a
\* prompt without an answer waits for a turn the host still has, a recap or a form.
THEOREM NoHangingPromptHolds == Spec => []NoHangingPrompt
<1>1. TypeOK /\ OneHolder /\ Agreement => NoHangingPrompt
  <2> SUFFICES ASSUME TypeOK, OneHolder, Agreement, CaughtUp
               PROVE  /\ \A q \in asked : answers[q] = 0 =>
                            q \in {recap, feedback} \/ \E e \in inFlight : e.req = q
                      /\ \A e \in inFlight : turns[e.turn] \in {"queued", "running"}
    BY DEF NoHangingPrompt
  <2>1. loop = "idle" /\ DOMAIN view = {}
    BY DEF CaughtUp, Agreement, HostOrder, TypeOK, HostOK
  <2>2. \A e \in inFlight : turns[e.turn] \in {"queued", "running"}
    BY <2>1 DEF Agreement, Awaited, EndAfter, Live
  <2>3. QED
    BY <2>2 DEF OneHolder
<1>2. QED
  BY <1>1, TypeCorrect, OneHolderHolds, AgreementHolds, PTL

\* StopReachesAll (session_stop_targets): once the loop has caught up, the running turn is
\* among the turns session/cancel and session/close interrupt.
THEOREM StopReachesAllHolds == Spec => []StopReachesAll
<1>1. TypeOK /\ Agreement => StopReachesAll
  <2> SUFFICES ASSUME TypeOK, Agreement, CaughtUp, NEW t \in Running PROVE t \in StopTargets
    BY DEF StopReachesAll
  <2>1. loop = "idle" /\ session = "live" /\ DOMAIN view = {}
    BY DEF CaughtUp, Agreement, HostOrder, TypeOK, HostOK
  <2>2. active = t \/ Tracked(t)
    BY <2>1 DEF Agreement, Followed
  <2>3. t # 0
    BY DEF Running, TypeOK, HostOK
  <2>4. QED
    BY <2>2, <2>3 DEF StopTargets, Tracked
<1>2. QED
  BY <1>1, TypeCorrect, AgreementHolds, PTL

\* IdleMeansDone (send_state and the settling of prompts): the session is reported idle
\* only when no prompt is in flight, or because an open feedback form was stopped, which
\* has just told a running host to stop every turn in flight.
THEOREM IdleMeansDoneHolds == Spec => IdleMeansDone
<1> DEFINE Done == (shown # "idle" /\ shown' = "idle") =>
                      \/ inFlight' = {}
                      \/ /\ feedback # "none" /\ feedback' = "none"
                         /\ up => StopTargets \cap (Running \cup Queued) \subseteq told'
<1>1. [Next]_vars => [Done]_vars
  <2> SUFFICES ASSUME Next PROVE Done
    BY DEF vars
  <2> USE DEF State
  <2>1. Rest = "idle" => inFlight = {}
    BY DEF Rest, Busy
  <2>2. \A t : RestOf(t) = "idle" => Others(t) = {}
    BY DEF RestOf
  <2>3. ASSUME NEW q \in Prompts,
               \/ PromptTurn(q) \/ PromptUnreadable(q) \/ PromptRefused(q) \/ PromptCommand(q)
               \/ PromptRecap(q) \/ PromptFeedback(q) \/ CancelPending(q)
        PROVE  Done
    BY <2>1, <2>3 DEF PromptTurn, PromptUnreadable, PromptRefused, PromptCommand, PromptRecap,
       PromptFeedback, CancelPending, sessionVars
  <2>4. ASSUME NEW q \in Prompts, PromptGoal(q) PROVE Done
    <3>1. PICK t \in 1..MaxTurns : IF FreshGoalTurn(t) THEN State("running")
                                   ELSE State(Rest) /\ UNCHANGED <<inFlight, active>>
      BY <2>4 DEF PromptGoal
    <3>2. CASE FreshGoalTurn(t)
      BY <3>1, <3>2
    <3>3. CASE ~FreshGoalTurn(t)
      <4>1. shown' \in {shown, Rest} /\ inFlight' = inFlight
        BY <3>1, <3>3
      <4>2. QED
        BY <2>1, <4>1
    <3>4. QED
      BY <3>2, <3>3
  <2>5. CASE FeedbackAnswered \/ Steer
    BY <2>1, <2>5 DEF FeedbackAnswered, Steer
  <2>6. CASE SessionCancel
    <3>1. CASE feedback # "none"
      BY <2>6, <3>1 DEF SessionCancel, Interrupt
    <3>2. CASE feedback = "none"
      BY <2>1, <2>6, <3>2 DEF SessionCancel
    <3>3. QED
      BY <3>1, <3>2
  <2>7. CASE CloseSession \/ RestartFails
    BY <2>7 DEF CloseSession, RestartFails
  <2>8. CASE TurnCompleted
    BY <2>2, <2>8 DEF TurnCompleted, Settle
  <2>9. CASE TurnUnqueued \/ TurnRetracted
    BY <2>9 DEF TurnUnqueued, TurnRetracted, Settle
  <2>10. CASE TurnStarted \/ TurnDeclined \/ Resume
    BY <2>10 DEF TurnStarted, TurnDeclined, Resume
  <2>11. ASSUME NEW q \in Prompts, RecapCompleted(q) PROVE Done
    BY <2>1, <2>11 DEF RecapCompleted
  <2>12. CASE Reattach
    BY <2>12 DEF Reattach, Launched
  <2>13. CASE Host
    BY <2>13 DEF Host, HostLaunches, HostStops, HostEnds, HostTurn, HostStarts, HostCrash, adapterVars
  <2>14. QED
    BY <2>3, <2>4, <2>5, <2>6, <2>7, <2>8, <2>9, <2>10, <2>11, <2>12, <2>13
       DEF Next, Editor, Loop
<1>2. QED
  BY <1>1, PTL DEF Spec, IdleMeansDone
=============================================================================
