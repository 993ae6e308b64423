--------------------------- MODULE ApprovalsProofs ---------------------------
(* Theorems about Approvals, for any approvals, offers, policy, number of    *)
(* requirements and amount of host activity.                                 *)
EXTENDS Approvals, SequenceTheorems, TLAPS

USE ApprovalsAssumption

\* The requests behind the pending permission are the ones sent for it.
AskOf ==
    pending # None =>
        /\ pending.ask \in DOMAIN asks
        /\ asks[pending.ask].kind = "permission"
        /\ asks[pending.ask].a = pending.a /\ asks[pending.ask].stage = pending.stage
        /\ pending.form # NoForm => /\ pending.form.ask \in DOMAIN asks
                                    /\ asks[pending.form.ask].kind = "form"
                                    /\ pending.form.choice = "guided"
-----------------------------------------------------------------------------
(* The parts of the steps.                                                   *)

LEMMA Elements ==
    ASSUME NEW S, NEW s \in Seq(S)
    PROVE  Len(s) \in Nat /\ DOMAIN s = 1 .. Len(s) /\ \A i \in DOMAIN s : s[i] \in S
OBVIOUS

LEMMA Boards ==
    ASSUME BoardOK
    PROVE  /\ Len(asks) \in Nat /\ DOMAIN asks = 1 .. Len(asks)
           /\ \A q \in DOMAIN asks : asks[q] \in Requests
           /\ Len(queue) \in Nat /\ DOMAIN queue = 1 .. Len(queue)
           /\ \A i \in DOMAIN queue : queue[i] \in Keys
           /\ pending # None => /\ pending.ask \in Nat \ {0} /\ pending.a \in Apps
                                /\ pending.stage \in 1..Stages
                                /\ pending.form # NoForm =>
                                     /\ pending.form.ask \in Nat \ {0}
                                     /\ pending.form.choice \in ChoiceClasses
<1>1. asks \in Seq(Requests) /\ queue \in Seq(Keys)
  BY DEF BoardOK
<1>2. /\ Len(asks) \in Nat /\ DOMAIN asks = 1 .. Len(asks)
      /\ \A q \in DOMAIN asks : asks[q] \in Requests
  BY <1>1, Elements
<1>3. /\ Len(queue) \in Nat /\ DOMAIN queue = 1 .. Len(queue)
      /\ \A i \in DOMAIN queue : queue[i] \in Keys
  BY <1>1, Elements
<1>4. ASSUME pending # None
      PROVE  /\ pending.ask \in Nat \ {0} /\ pending.a \in Apps
             /\ pending.stage \in 1..Stages
             /\ pending.form # NoForm => /\ pending.form.ask \in Nat \ {0}
                                         /\ pending.form.choice \in ChoiceClasses
  <2>1. pending \in Perms
    BY <1>4 DEF BoardOK
  <2>2. QED
    BY <2>1 DEF Perms
<1>5. QED
  BY <1>2, <1>3, <1>4

\* A request that was sent is settled: nothing else about the board changes.
LEMMA Settled ==
    ASSUME BoardOK, NEW q \in DOMAIN asks
    PROVE  /\ Settle(q) \in Seq(Requests) /\ DOMAIN Settle(q) = DOMAIN asks
           /\ Len(Settle(q)) = Len(asks)
           /\ \A r \in DOMAIN asks : r # q => Settle(q)[r] = asks[r]
           /\ ~Settle(q)[q].live
           /\ \A r \in DOMAIN asks : /\ Settle(q)[r].kind = asks[r].kind
                                     /\ Settle(q)[r].a = asks[r].a
                                     /\ Settle(q)[r].stage = asks[r].stage
<1> DEFINE e == [asks[q] EXCEPT !.live = FALSE]
<1>1. asks \in Seq(Requests) /\ asks[q] \in Requests /\ DOMAIN asks = 1 .. Len(asks)
  BY Boards DEF BoardOK
<1>2. /\ e \in Requests /\ e.live = FALSE /\ e.kind = asks[q].kind
      /\ e.a = asks[q].a /\ e.stage = asks[q].stage
  BY <1>1 DEF Requests
<1>3. Settle(q) = [asks EXCEPT ![q] = e]
  BY DEF Settle
<1> HIDE DEF e
<1>4. /\ [asks EXCEPT ![q] = e] \in Seq(Requests) /\ Len([asks EXCEPT ![q] = e]) = Len(asks)
      /\ \A r \in 1 .. Len(asks) : [asks EXCEPT ![q] = e][r] = IF r = q THEN e ELSE asks[r]
  BY <1>1, <1>2, ExceptSeq
<1>5. QED
  BY <1>1, <1>2, <1>3, <1>4

\* A request is sent.
LEMMA Asked ==
    ASSUME NEW board \in Seq(Requests), NEW kind \in {"permission", "form"}, NEW a \in Apps,
           NEW s \in 1..Stages, NEW n \in Nat, DOMAIN board = 1 .. n,
           NEW new, new = Ask(board, kind, a, s)
    PROVE  /\ new \in Seq(Requests) /\ DOMAIN new = 1 .. n + 1
           /\ \A r \in 1 .. n : new[r] = board[r]
           /\ new[n + 1].kind = kind /\ new[n + 1].a = a /\ new[n + 1].stage = s
<1> DEFINE e == [kind |-> kind, a |-> a, stage |-> s, live |-> TRUE]
<1>1. e \in Requests /\ e.kind = kind /\ e.a = a /\ e.stage = s
  BY DEF Requests
<1>2. new = Append(board, e)
  BY DEF Ask
<1> HIDE DEF e
<1>3. Len(board) = n /\ board \in Seq(Requests)
  <2>1. Len(board) \in Nat /\ DOMAIN board = 1 .. Len(board)
    BY Elements
  <2>2. QED
    BY <2>1
<1>4. /\ new \in Seq(Requests) /\ Len(new) = n + 1
      /\ \A r \in 1 .. n : new[r] = board[r]
      /\ new[n + 1] = e
  BY <1>1, <1>2, <1>3
<1>5. DOMAIN new = 1 .. n + 1
  BY <1>4
<1>6. QED
  BY <1>1, <1>4, <1>5

\* The request on the user's screen exists.
LEMMA ShownExists ==
    ASSUME BoardOK, AskOf, pending # None
    PROVE  ShownAsk(pending) \in DOMAIN asks
BY DEF AskOf, ShownAsk

\* What the history read may leave.
LEMMA LearntIsTrue ==
    ASSUME HostOK, MemoryOK, NEW l \in Learnt
    PROVE  /\ l[1] \subseteq Apps /\ l[2] \in BOOLEAN
           /\ resolved \subseteq l[1] /\ l[1] \subseteq resolved \cup hdone
<1>1. resolved \subseteq Apps /\ hdone \subseteq Apps /\ unread \in BOOLEAN
  BY DEF HostOK, MemoryOK
<1>2. PICK h \in SUBSET hdone, owed \in BOOLEAN : l = <<resolved \cup h, owed>>
  <2>1. CASE l = <<resolved, FALSE>> \/ l = <<resolved, TRUE>>
    <3>1. {} \in SUBSET hdone /\ resolved \cup {} = resolved
      OBVIOUS
    <3>2. QED
      BY <2>1, <3>1
  <2>2. CASE l = <<resolved \cup hdone, FALSE>>
    BY <2>2
  <2>3. CASE \E h \in SUBSET hdone : l = <<resolved \cup h, TRUE>>
    BY <2>3
  <2>4. QED
    BY <2>1, <2>2, <2>3 DEF Learnt
<1>3. l[1] = resolved \cup h /\ l[2] = owed
  BY <1>2
<1>4. QED
  BY <1>1, <1>2, <1>3

LEMMA Opens ==
    ASSUME TypeOK, Opening
    PROVE  /\ loop = "open" /\ cur.a \in Apps /\ cur.stage \in 1..Stages /\ Key \in Keys
           /\ resolved' \subseteq Apps /\ unread' \in BOOLEAN /\ reviewing' \subseteq Apps
           /\ resolved \subseteq resolved' /\ resolved' \subseteq resolved \cup hdone
<1>1. HostOK /\ MemoryOK /\ loop = "open" /\ cur \in Openings
  BY DEF TypeOK, LoopOK, Opening
<1>2. cur.a \in Apps /\ cur.stage \in 1..Stages
  BY <1>1 DEF Openings
<1>3. PICK l \in Learnt : resolved' = l[1] /\ unread' = l[2]
  BY DEF Opening
<1>4. reviewing' \subseteq Apps
  BY <1>1 DEF Opening, MemoryOK
<1>5. QED
  BY <1>1, <1>2, <1>3, <1>4, LearntIsTrue DEF Key, Keys

\* The loop takes the first event.
LEMMA Taken ==
    ASSUME HostOK, NEW m, Take(m)
    PROVE  /\ loop = "idle" /\ Event \in Happenings /\ Event.m = m
           /\ events # <<>> /\ events' \in Seq(Happenings)
           /\ Event = events[1] /\ 1 \in DOMAIN events
           /\ DOMAIN events' = 1 .. Len(events) - 1 /\ DOMAIN events = 1 .. Len(events)
           /\ Len(events) \in Nat
           /\ \A i \in DOMAIN events' : i + 1 \in DOMAIN events /\ events'[i] = events[i + 1]
<1>1. events \in Seq(Happenings) /\ events # <<>> /\ events' = Tail(events)
  BY DEF HostOK, Take
<1>2. /\ Len(events) \in Nat /\ DOMAIN events = 1 .. Len(events) /\ Len(events) > 0
      /\ \A i \in DOMAIN events : events[i] \in Happenings
  BY <1>1
<1>3. /\ Head(events) = events[1] /\ Tail(events) \in Seq(Happenings)
      /\ DOMAIN Tail(events) = 1 .. Len(events) - 1
      /\ \A i \in 1 .. Len(events) - 1 : Tail(events)[i] = events[i + 1]
  BY <1>1
<1>4. QED
  BY <1>1, <1>2, <1>3 DEF Take, Event

\* The host adds an event.
LEMMA Emitted ==
    ASSUME HostOK, NEW e \in Happenings
    PROVE  /\ Append(events, e) \in Seq(Happenings)
           /\ Len(events) \in Nat /\ DOMAIN events = 1 .. Len(events)
           /\ DOMAIN Append(events, e) = 1 .. Len(events) + 1
           /\ \A i \in DOMAIN events : Append(events, e)[i] = events[i]
           /\ Append(events, e)[Len(events) + 1] = e
<1>1. events \in Seq(Happenings)
  BY DEF HostOK
<1>2. QED
  BY <1>1
\* The queue without its first row.
LEMMA QueueTail ==
    ASSUME BoardOK, queue # <<>>
    PROVE  /\ Head(queue) \in Keys /\ Tail(queue) \in Seq(Keys)
           /\ Head(queue) = queue[1] /\ 1 \in DOMAIN queue
           /\ \A i \in DOMAIN Tail(queue) : i + 1 \in DOMAIN queue /\ Tail(queue)[i] = queue[i + 1]
                                            /\ i \in Nat /\ i + 1 # 1
<1>1. queue \in Seq(Keys) /\ Len(queue) \in Nat /\ Len(queue) > 0 /\ DOMAIN queue = 1 .. Len(queue)
  BY DEF BoardOK
<1>2. /\ Head(queue) = queue[1] /\ Tail(queue) \in Seq(Keys) /\ DOMAIN Tail(queue) = 1 .. Len(queue) - 1
      /\ \A i \in 1 .. Len(queue) - 1 : Tail(queue)[i] = queue[i + 1]
  BY <1>1
<1>3. QED
  BY <1>1, <1>2

\* The queue without one of its rows: every other row keeps one place.
LEMMA QueueWithout ==
    ASSUME BoardOK, NEW n \in DOMAIN queue
    PROVE  /\ RemoveAt(queue, n) \in Seq(Keys)
           /\ DOMAIN RemoveAt(queue, n) = 1 .. Len(queue) - 1
           /\ \A i \in DOMAIN RemoveAt(queue, n) :
                /\ i \in Nat
                /\ i < n => i \in DOMAIN queue /\ RemoveAt(queue, n)[i] = queue[i]
                /\ i >= n => i + 1 \in DOMAIN queue /\ RemoveAt(queue, n)[i] = queue[i + 1]
<1> DEFINE a == SubSeq(queue, 1, n - 1)  b == SubSeq(queue, n + 1, Len(queue))
<1>1. /\ queue \in Seq(Keys) /\ Len(queue) \in Nat /\ DOMAIN queue = 1 .. Len(queue)
      /\ n \in Nat /\ n >= 1 /\ n <= Len(queue)
  BY DEF BoardOK
<1>2. /\ a \in Seq(Keys) /\ Len(a) = n - 1
      /\ \A i \in 1 .. n - 1 : a[i] = queue[i]
  <2>1. \A i \in 1 .. n - 1 : queue[i] \in Keys
    BY <1>1, ElementOfSeq
  <2>2. 1 \in Int /\ n - 1 \in Int
    BY <1>1
  <2>3. /\ a \in Seq(Keys) /\ Len(a) = (IF 1 <= n - 1 THEN n - 1 - 1 + 1 ELSE 0)
        /\ \A i \in 1 .. n - 1 - 1 + 1 : a[i] = queue[1 + i - 1]
    BY <2>1, <2>2, SubSeqProperties
  <2>4. \A k \in Nat : k >= 1 => (IF 1 <= k - 1 THEN k - 1 - 1 + 1 ELSE 0) = k - 1
    OBVIOUS
  <2>5. \A i \in 1 .. n - 1 : i \in 1 .. n - 1 - 1 + 1 /\ 1 + i - 1 = i
    BY <1>1
  <2>6. QED
    BY <1>1, <2>3, <2>3, <2>5
<1>3. /\ b \in Seq(Keys) /\ Len(b) = Len(queue) - n
      /\ \A i \in 1 .. Len(queue) - n : b[i] = queue[n + i]
  <2>1. \A i \in n + 1 .. Len(queue) : queue[i] \in Keys
    BY <1>1, ElementOfSeq
  <2>2. n + 1 \in Int /\ Len(queue) \in Int
    BY <1>1
  <2>3. /\ b \in Seq(Keys) /\ Len(b) = (IF n + 1 <= Len(queue) THEN Len(queue) - (n + 1) + 1 ELSE 0)
        /\ \A i \in 1 .. Len(queue) - (n + 1) + 1 : b[i] = queue[n + 1 + i - 1]
    BY <2>1, <2>2, SubSeqProperties
  <2>4. \A k, l \in Nat : k <= l => (IF k + 1 <= l THEN l - (k + 1) + 1 ELSE 0) = l - k
    OBVIOUS
  <2>5. \A i \in 1 .. Len(queue) - n : i \in 1 .. Len(queue) - (n + 1) + 1 /\ n + 1 + i - 1 = n + i
    BY <1>1
  <2>6. QED
    BY <1>1, <2>3, <2>3, <2>5
<1> DEFINE c == a \o b
<1> HIDE DEF a, b
<1>4. /\ c \in Seq(Keys) /\ Len(c) = Len(queue) - 1
      /\ \A i \in 1 .. Len(queue) - 1 : c[i] = IF i <= n - 1 THEN a[i] ELSE b[i - (n - 1)]
  <2>1. /\ c \in Seq(Keys) /\ Len(c) = Len(a) + Len(b)
        /\ \A i \in 1 .. Len(a) + Len(b) : c[i] = IF i <= Len(a) THEN a[i] ELSE b[i - Len(a)]
    BY <1>2, <1>3, ConcatProperties
  <2>2. Len(a) + Len(b) = Len(queue) - 1 /\ Len(a) = n - 1
    BY <1>1, <1>2, <1>3
  <2> HIDE DEF c
  <2>3. QED
    BY <2>1, <2>2
<1> HIDE DEF c
<1>5. DOMAIN c = 1 .. Len(queue) - 1
  BY <1>1, <1>4
<1>6. ASSUME NEW i \in 1 .. Len(queue) - 1
      PROVE  /\ i \in Nat
             /\ i < n => i \in DOMAIN queue /\ c[i] = queue[i]
             /\ i >= n => i + 1 \in DOMAIN queue /\ c[i] = queue[i + 1]
  <2>0. i \in Nat /\ n \in Nat /\ (i < n \/ i >= n) /\ ~(i < n /\ i >= n)
    BY <1>1
  <2>1. CASE i < n
    <3>1. i \in 1 .. n - 1 /\ i <= n - 1 /\ i \in 1 .. Len(queue)
      BY <1>1, <2>1
    <3>2. QED
      BY <1>1, <1>2, <1>4, <2>1, <3>1
  <2>2. CASE i >= n
    <3>1. i - (n - 1) \in 1 .. Len(queue) - n /\ n + (i - (n - 1)) = i + 1 /\ ~(i <= n - 1)
          /\ i + 1 \in 1 .. Len(queue)
      BY <1>1, <2>2
    <3>2. c[i] = b[i - (n - 1)] /\ b[i - (n - 1)] = queue[i + 1]
      BY <1>3, <1>4, <3>1
    <3>3. QED
      BY <1>1, <2>2, <3>1, <3>2
  <2>3. QED
    BY <2>0, <2>1, <2>2
<1>7. RemoveAt(queue, n) = c
  BY DEF RemoveAt, a, b, c
<1>8. QED
  BY <1>4, <1>5, <1>6, <1>7

\* An approval is queued once.
OneRow == \A i, j \in DOMAIN queue : queue[i].a = queue[j].a => i = j

\* The queue without an approval's row holds the other rows.
LEMMA RowGone ==
    ASSUME BoardOK, OneRow, NEW a
    PROVE  /\ WithoutRow(a) \in Seq(Keys)
           /\ \A i \in DOMAIN WithoutRow(a) :
                 /\ WithoutRow(a)[i].a # a
                 /\ \E j \in DOMAIN queue : WithoutRow(a)[i] = queue[j]
           /\ \A j \in DOMAIN queue : queue[j].a # a =>
                 \E i \in DOMAIN WithoutRow(a) : WithoutRow(a)[i] = queue[j]
           /\ \A i, j \in DOMAIN WithoutRow(a) : WithoutRow(a)[i].a = WithoutRow(a)[j].a => i = j
<1>1. queue \in Seq(Keys) /\ Len(queue) \in Nat /\ DOMAIN queue = 1 .. Len(queue)
  BY Boards DEF BoardOK
<1>2. CASE ~Queued(a)
  BY <1>1, <1>2 DEF WithoutRow, Queued, OneRow
<1>3. CASE Queued(a)
  <2> DEFINE n == CHOOSE i \in DOMAIN queue : queue[i].a = a
  <2>1. n \in DOMAIN queue /\ queue[n].a = a
    BY <1>3 DEF Queued
  <2>2. WithoutRow(a) = RemoveAt(queue, n)
    BY <1>3 DEF WithoutRow
  <2> HIDE DEF n
  <2> DEFINE w == RemoveAt(queue, n)
  <2>3. /\ w \in Seq(Keys) /\ DOMAIN w = 1 .. Len(queue) - 1
        /\ \A i \in DOMAIN w :
             /\ i \in Nat
             /\ i < n => i \in DOMAIN queue /\ w[i] = queue[i]
             /\ i >= n => i + 1 \in DOMAIN queue /\ w[i] = queue[i + 1]
    BY <2>1, QueueWithout
  <2> HIDE DEF w
  <2>5. n \in Nat
    BY <1>1, <2>1
  <2>6. ASSUME NEW i \in DOMAIN w
        PROVE  \E j \in DOMAIN queue : w[i] = queue[j] /\ j # n /\ ((j = i /\ i < n) \/ (j = i + 1 /\ i >= n))
    <3>1. i \in Nat /\ (i < n \/ i >= n)
      BY <2>3, <2>5
    <3>2. CASE i < n
      <4>1. i \in DOMAIN queue /\ w[i] = queue[i] /\ i # n
        BY <2>3, <2>5, <3>1, <3>2
      <4>2. QED
        BY <3>2, <4>1
    <3>3. CASE i >= n
      <4>1. i + 1 \in DOMAIN queue /\ w[i] = queue[i + 1] /\ i + 1 # n
        BY <2>3, <2>5, <3>1, <3>3
      <4>2. QED
        BY <3>3, <4>1
    <3>4. QED
      BY <3>1, <3>2, <3>3
  <2>7. \A i \in DOMAIN w : w[i].a # a /\ \E j \in DOMAIN queue : w[i] = queue[j]
    BY <2>1, <2>6 DEF OneRow
  <2>8. ASSUME NEW j \in DOMAIN queue, queue[j].a # a
        PROVE  \E i \in DOMAIN w : w[i] = queue[j]
    <3>1. j \in Nat /\ j # n /\ j >= 1 /\ j <= Len(queue) /\ n <= Len(queue) /\ n >= 1
      BY <1>1, <2>1, <2>8
    <3>2. CASE j < n
      <4>1. j \in DOMAIN w
        BY <1>1, <2>3, <2>5, <3>1, <3>2
      <4>2. QED
        BY <2>3, <3>2, <4>1
    <3>3. CASE j > n
      <4>1. j - 1 \in DOMAIN w /\ j - 1 >= n /\ (j - 1) + 1 = j
        BY <1>1, <2>3, <2>5, <3>1, <3>3
      <4>2. w[j - 1] = queue[(j - 1) + 1]
        BY <2>3, <4>1
      <4>3. QED
        BY <4>1, <4>2
    <3>4. QED
      BY <2>5, <3>1, <3>2, <3>3
  <2>9. ASSUME NEW i \in DOMAIN w, NEW j \in DOMAIN w, w[i].a = w[j].a
        PROVE  i = j
    <3>1. PICK k \in DOMAIN queue : w[i] = queue[k] /\ ((k = i /\ i < n) \/ (k = i + 1 /\ i >= n))
      BY <2>6
    <3>2. PICK l \in DOMAIN queue : w[j] = queue[l] /\ ((l = j /\ j < n) \/ (l = j + 1 /\ j >= n))
      BY <2>6
    <3>3. k = l
      BY <2>9, <3>1, <3>2 DEF OneRow
    <3>4. i \in Nat /\ j \in Nat
      BY <2>3
    <3>5. QED
      BY <2>5, <3>1, <3>2, <3>3, <3>4
  <2>10. QED
    BY <2>2, <2>3, <2>7, <2>8, <2>9 DEF w
<1>4. QED
  BY <1>2, <1>3
-----------------------------------------------------------------------------
(* Type correctness.                                                         *)

\* The loop's handlers that send the host nothing and take no event.
Quiet ==
    \/ OpenResolved \/ OpenByPolicy \/ OpenForReview \/ OpenDuplicate
    \/ OpenQueued \/ OpenPrompt \/ PopQueued \/ ToggleAutoReview \/ RestartFails
    \/ (\E a \in Apps : ReconcileRow(a)) \/ (\E q \in DOMAIN asks : CompleteFeedback(q))
\* Those that may stop the owner's work, and no other part of the host's state.
Stops ==
    \/ OpenNoChoices \/ SessionCancel \/ (\E j \in jobs : ReviewEnds(j))
    \/ \E q \in DOMAIN asks, c \in ChoiceClasses \cup {"none"} : CompletePermission(q, c)

LEMMA QuietHost ==
    ASSUME Quiet
    PROVE  UNCHANGED hostVars
BY DEF Quiet, OpenResolved, OpenByPolicy, OpenForReview, OpenDuplicate, OpenQueued, OpenPrompt,
       PopQueued, ToggleAutoReview, RestartFails, ReconcileRow, CompleteFeedback

LEMMA FailClosedStops ==
    ASSUME NEW a, FailClosed(a)
    PROVE  /\ UNCHANGED <<hstage, hdone, up, turnOver, events, reissues, crashes>>
           /\ stopping' = stopping \/ (up /\ stopping' = stopping \cup {Owner(a)})
           /\ stopping' = {} => a \in Child \/ ~up
BY DEF FailClosed

LEMMA StopsHost ==
    ASSUME Stops
    PROVE  /\ UNCHANGED <<hstage, hdone, up, turnOver, events, reissues, crashes>>
           /\ stopping' = stopping \/ stopping' = stopping \cup {"root"}
              \/ stopping' = stopping \cup {"child"}
<1>1. CASE OpenNoChoices
  BY <1>1, FailClosedStops DEF OpenNoChoices, Owner
<1>2. CASE SessionCancel
  BY <1>2 DEF SessionCancel
<1>3. ASSUME NEW j \in jobs, ReviewEnds(j)
      PROVE  UNCHANGED hostVars \/ FailClosed(j.a)
  BY <1>3 DEF ReviewEnds
<1>4. ASSUME NEW q \in DOMAIN asks, NEW c \in ChoiceClasses \cup {"none"}, CompletePermission(q, c)
      PROVE  UNCHANGED hostVars \/ FailClosed(pending.a)
  BY <1>4 DEF CompletePermission
<1>5. QED
  BY <1>1, <1>2, <1>3, <1>4, FailClosedStops DEF Stops, hostVars, Owner

LEMMA NextCases ==
    ASSUME Next
    PROVE  \/ Quiet \/ Stops \/ SendDecision
           \/ EventOpen \/ EventResolved \/ EventReviewing \/ EventTurnDone \/ Restart
           \/ (\E a \in Apps : HostRequest(a) \/ HostResolve(a)
                               \/ \E m \in {"open", "reviewing"} : HostReissue(a, m))
           \/ HostTurnEnds \/ HostCrash
BY DEF Next, OpenApproval, Editor, Events, Recovery, Host, Quiet, Stops

\* The decision on the current requirement takes effect on the host.
Takes == up /\ Open(cur.a) /\ hstage[cur.a] = cur.stage
LEMMA DecisionOnHost ==
    ASSUME TypeOK, SendDecision
    PROVE  /\ UNCHANGED <<up, stopping, turnOver, reissues, crashes, toggles>>
           /\ cur.a \in Apps /\ cur.stage \in 1..Stages
           /\ \/ /\ Takes /\ hdone' = hdone \cup {cur.a} /\ hstage' = hstage
                 /\ events' = Append(events, [m |-> "resolved", a |-> cur.a, stage |-> 0])
              \/ /\ Takes /\ hdone' = hdone /\ cur.stage + 1 \in 1..Stages
                 /\ hstage' = [hstage EXCEPT ![cur.a] = cur.stage + 1]
                 /\ events' = Append(events, [m |-> "open", a |-> cur.a, stage |-> cur.stage + 1])
              \/ ~Takes /\ UNCHANGED <<hstage, hdone, events>>
<1>1. cur.a \in Apps /\ cur.stage \in 1..Stages
  BY DEF TypeOK, LoopOK, SendDecision, Decisions
<1>2. cur.stage < Stages => cur.stage + 1 \in 1..Stages
  BY <1>1
<1>3. QED
  BY <1>1, <1>2 DEF SendDecision, Takes

LEMMA HappeningsOf ==
    ASSUME NEW a \in Apps, NEW s \in 1..Stages
    PROVE  /\ [m |-> "resolved", a |-> a, stage |-> 0] \in Happenings
           /\ [m |-> "open", a |-> a, stage |-> s] \in Happenings
           /\ [m |-> "reviewing", a |-> a, stage |-> s] \in Happenings
           /\ [m |-> "turnDone"] \in Happenings
BY DEF Happenings

\* Requirements only advance, and what is terminal stays terminal.
LEMMA HostTyped ==
    ASSUME TypeOK, Next
    PROVE  HostOK' /\ \A a \in Apps : hstage'[a] >= hstage[a]
<1> HostOK
  BY DEF TypeOK
<1>0. \A a \in Apps : hstage[a] \in 0..Stages /\ hstage[a] >= hstage[a]
  BY DEF HostOK
<1>1. CASE Quiet
  <2>1. UNCHANGED hostVars /\ toggles' \in Nat
    <3>1. CASE ToggleAutoReview
      BY <3>1, <1>1, QuietHost DEF ToggleAutoReview, HostOK
    <3>2. CASE Quiet /\ ~ToggleAutoReview
      <4>1. toggles' = toggles
        BY <3>2 DEF Quiet, OpenResolved, OpenByPolicy, OpenForReview, OpenDuplicate, OpenQueued,
           OpenPrompt, PopQueued, RestartFails, ReconcileRow, CompleteFeedback
      <4>2. QED
        BY <1>1, <4>1, QuietHost DEF HostOK
    <3>3. QED
      BY <1>1, <3>1, <3>2
  <2>2. QED
    BY <1>0, <2>1 DEF HostOK, hostVars
<1>2. CASE Stops
  <2>1. toggles' = toggles
    BY <1>2 DEF Stops, OpenNoChoices, SessionCancel, ReviewEnds, CompletePermission
  <2>2. QED
    BY <1>0, <1>2, <2>1, StopsHost DEF HostOK
<1>3. CASE SendDecision
  <2>1. events' \in Seq(Happenings) \/ events' = events
    BY <1>3, DecisionOnHost, Emitted, HappeningsOf
  <2>2. hstage' \in [Apps -> 0..Stages] /\ \A a \in Apps : hstage'[a] >= hstage[a]
    <3>1. CASE hstage' = hstage
      BY <1>0, <3>1 DEF HostOK
    <3>2. CASE /\ Takes /\ cur.stage + 1 \in 1..Stages
               /\ hstage' = [hstage EXCEPT ![cur.a] = cur.stage + 1]
      <4>1. cur.a \in Apps /\ cur.stage \in Nat /\ hstage[cur.a] = cur.stage
            /\ cur.stage + 1 \in 0..Stages
        BY <1>3, <3>2, DecisionOnHost DEF Takes
      <4>2. hstage' \in [Apps -> 0..Stages]
        BY <3>2, <4>1 DEF HostOK
      <4>3. \A a \in Apps : hstage'[a] = IF a = cur.a THEN cur.stage + 1 ELSE hstage[a]
        BY <3>2 DEF HostOK
      <4>4. QED
        BY <1>0, <4>1, <4>2, <4>3
    <3>3. QED
      BY <1>3, <3>1, <3>2, DecisionOnHost
  <2>3. hdone' \subseteq Apps
    BY <1>3, DecisionOnHost DEF HostOK
  <2>4. QED
    BY <1>3, <2>1, <2>2, <2>3, DecisionOnHost DEF HostOK
<1>4. CASE EventOpen \/ EventResolved \/ EventReviewing \/ EventTurnDone
  <2>1. events' \in Seq(Happenings)
    BY <1>4, Taken DEF EventOpen, EventResolved, EventReviewing, EventTurnDone
  <2>2. UNCHANGED <<hostButEvents, toggles>>
    BY <1>4 DEF EventOpen, EventResolved, EventReviewing, EventTurnDone
  <2>3. QED
    BY <1>0, <2>1, <2>2 DEF HostOK, hostButEvents
<1>5. CASE Restart
  BY <1>0, <1>5 DEF Restart, HostOK
<1>6. ASSUME NEW a \in Apps, HostRequest(a) \/ HostResolve(a)
                             \/ \E m \in {"open", "reviewing"} : HostReissue(a, m)
      PROVE  HostOK' /\ \A b \in Apps : hstage'[b] >= hstage[b]
  <2>1. UNCHANGED <<up, stopping, turnOver, crashes, toggles>> /\ reissues' \in Nat
    BY <1>6 DEF HostRequest, HostResolve, HostReissue, loopVars, HostOK
  <2>2. hdone' \subseteq Apps
    BY <1>6 DEF HostRequest, HostResolve, HostReissue, HostOK
  <2>3. CASE UNCHANGED hstage
    <3>1. events' \in Seq(Happenings)
      <4>1. CASE HostResolve(a)
        <5>1. events' = Append(events, [m |-> "resolved", a |-> a, stage |-> 0])
              \/ (hstage[a] < Stages /\ events' = Append(events, [m |-> "open", a |-> a, stage |-> hstage[a] + 1]))
          BY <4>1 DEF HostResolve, Emit
        <5>2. hstage[a] < Stages => hstage[a] + 1 \in 1..Stages
          BY <1>0
        <5>3. 1 \in 1..Stages
          OBVIOUS
        <5>4. QED
          BY <5>1, <5>2, <5>3, Emitted, HappeningsOf
      <4>2. CASE HostRequest(a)
        <5>1. events' = Append(events, [m |-> "open", a |-> a, stage |-> 1]) /\ 1 \in 1..Stages
          BY <4>2 DEF HostRequest, Emit
        <5>2. QED
          BY <5>1, Emitted, HappeningsOf
      <4>3. CASE \E m \in {"open", "reviewing"} : HostReissue(a, m)
        <5>1. hstage[a] \in 1..Stages
          BY <1>0, <4>3 DEF HostReissue
        <5>2. events' = Append(events, [m |-> "open", a |-> a, stage |-> hstage[a]])
              \/ events' = Append(events, [m |-> "reviewing", a |-> a, stage |-> hstage[a]])
          BY <4>3 DEF HostReissue, Emit
        <5>3. QED
          BY <5>1, <5>2, Emitted, HappeningsOf
      <4>4. QED
        BY <1>6, <4>1, <4>2, <4>3
    <3>2. QED
      BY <1>0, <2>1, <2>2, <2>3, <3>1 DEF HostOK
  <2>4. ASSUME NEW s \in 1..Stages, hstage' = [hstage EXCEPT ![a] = s], s = hstage[a] + 1,
               events' = Append(events, [m |-> "open", a |-> a, stage |-> s])
        PROVE  HostOK' /\ \A b \in Apps : hstage'[b] >= hstage[b]
    <3>1. hstage' \in [Apps -> 0..Stages] /\ \A b \in Apps : hstage'[b] = IF b = a THEN s ELSE hstage[b]
      BY <2>4 DEF HostOK
    <3>2. \A b \in Apps : hstage'[b] >= hstage[b]
      BY <1>0, <2>4, <3>1
    <3>3. events' \in Seq(Happenings)
      BY <2>4, Emitted, HappeningsOf
    <3>4. QED
      BY <2>1, <2>2, <3>1, <3>2, <3>3 DEF HostOK
  <2>5. HostRequest(a) => /\ hstage' = [hstage EXCEPT ![a] = 1] /\ 1 = hstage[a] + 1 /\ 1 \in 1..Stages
                          /\ events' = Append(events, [m |-> "open", a |-> a, stage |-> 1])
    BY <1>0 DEF HostRequest, Emit
  <2>6. HostResolve(a) => \/ UNCHANGED hstage
                          \/ /\ hstage' = [hstage EXCEPT ![a] = hstage[a] + 1] /\ hstage[a] + 1 \in 1..Stages
                             /\ events' = Append(events, [m |-> "open", a |-> a, stage |-> hstage[a] + 1])
    BY <1>0 DEF HostResolve, Emit
  <2>7. (\E m \in {"open", "reviewing"} : HostReissue(a, m)) => UNCHANGED hstage
    BY DEF HostReissue
  <2>8. QED
    BY <1>6, <2>3, <2>4, <2>5, <2>6, <2>7
<1>7. CASE HostTurnEnds
  <2>1. events' \in Seq(Happenings)
    <3>1. [m |-> "turnDone"] \in Happenings
      BY DEF Happenings
    <3>2. QED
      BY <1>7, <3>1, Emitted DEF HostTurnEnds, Emit
  <2>2. QED
    BY <1>0, <1>7, <2>1 DEF HostTurnEnds, HostOK, loopVars
<1>8. CASE HostCrash
  <2>1. crashes' = crashes + 1 /\ up' = FALSE /\ stopping' = {}
    BY <1>8 DEF HostCrash
  <2>4. crashes' \in Nat
    BY <2>1 DEF HostOK
  <2>5. up' \in BOOLEAN
    BY <2>1
  <2>2. UNCHANGED <<hstage, hdone, turnOver, events, reissues, toggles>>
    BY <1>8 DEF HostCrash, loopVars
  <2>3. QED
    BY <1>0, <2>1, <2>2, <2>4, <2>5 DEF HostOK
<1>9. QED
  BY <1>1, <1>2, <1>3, <1>4, <1>5, <1>6, <1>7, <1>8, NextCases

\* Steps of the host, and what they leave alone.
HostSteps ==
    \/ \E a \in Apps : HostRequest(a) \/ HostResolve(a)
                       \/ \E m \in {"open", "reviewing"} : HostReissue(a, m)
    \/ HostTurnEnds \/ HostCrash
LEMMA HostLeaves ==
    ASSUME HostSteps
    PROVE  UNCHANGED loopVars
BY DEF HostSteps, HostRequest, HostResolve, HostReissue, HostTurnEnds, HostCrash

\* What the editor's answer to a permission leads to.
LEMMA Completes ==
    ASSUME NEW q \in DOMAIN asks, NEW choice \in ChoiceClasses \cup {"none"},
           CompletePermission(q, choice)
    PROVE  /\ loop = "idle" /\ asks[q].kind = "permission"
           /\ UNCHANGED <<toggles, rows, queue, seen, resolved, unread, reviewing, autoReview,
                          jobs, attached, sent>>
           /\ \/ /\ Unawaited(pending, q)
                 /\ asks' = Settle(q) /\ UNCHANGED <<loop, cur, pending, hostVars>>
              \/ /\ ~Unawaited(pending, q) /\ choice = "guided" /\ choice \in Offers[asks[q].a]
                 /\ OfferPermissionFeedback(pending, q, choice)
                 /\ UNCHANGED <<loop, cur, hostVars>>
              \/ /\ ~Unawaited(pending, q) /\ asks' = Settle(q) /\ pending' = None
                 /\ UNCHANGED hostVars
                 /\ \E c \in ChoiceClasses :
                       /\ choice = c \/ (choice = "none" /\ c \in RejectLike)
                       /\ Decide(pending, c, q, choice)
              \/ /\ ~Unawaited(pending, q) /\ asks' = Settle(q) /\ pending' = None
                 /\ choice = "none" /\ Offers[pending.a] \cap RejectLike = {}
                 /\ FailClosed(pending.a) /\ UNCHANGED <<loop, cur>>
<1>1. /\ loop = "idle" /\ asks[q].kind = "permission"
      /\ UNCHANGED <<toggles, rows, queue, seen, resolved, unread, reviewing, autoReview,
                     jobs, attached, sent>>
      /\ choice \in Offers[asks[q].a] \cup {"none"}
  BY DEF CompletePermission
<1>2. CASE Unawaited(pending, q)
  BY <1>1, <1>2 DEF CompletePermission
<1>3. CASE ~Unawaited(pending, q)
  <2>1. \/ /\ choice = "guided" /\ ElicitForm
           /\ OfferPermissionFeedback(pending, q, choice)
           /\ UNCHANGED <<loop, cur, hostVars>>
        \/ /\ choice # "none" /\ asks' = Settle(q) /\ pending' = None
           /\ Decide(pending, choice, q, choice)
           /\ UNCHANGED hostVars
        \/ /\ choice = "none" /\ asks' = Settle(q) /\ pending' = None
           /\ \E c \in Offers[pending.a] \cap RejectLike : Decide(pending, c, q, choice)
           /\ UNCHANGED hostVars
        \/ /\ choice = "none" /\ Offers[pending.a] \cap RejectLike = {}
           /\ asks' = Settle(q) /\ pending' = None
           /\ FailClosed(pending.a)
           /\ UNCHANGED <<loop, cur>>
    BY <1>3 DEF CompletePermission
  <2>2. "guided" # "none"
    OBVIOUS
  <2>3. RejectLike \subseteq ChoiceClasses
    BY DEF RejectLike, ChoiceClasses
  <2>4. CASE /\ choice # "none" /\ asks' = Settle(q) /\ pending' = None
             /\ Decide(pending, choice, q, choice)
             /\ UNCHANGED hostVars
    BY <1>1, <1>3, <2>4
  <2>5. CASE /\ choice = "none" /\ asks' = Settle(q) /\ pending' = None
             /\ \E c \in Offers[pending.a] \cap RejectLike : Decide(pending, c, q, choice)
             /\ UNCHANGED hostVars
    BY <1>1, <1>3, <2>3, <2>5
  <2>6. QED
    BY <1>1, <1>3, <2>1, <2>2, <2>4, <2>5
<1>4. QED
  BY <1>2, <1>3

LEMMA LoopTyped ==
    ASSUME TypeOK, Next
    PROVE  LoopOK'
<1> LoopOK /\ HostOK /\ BoardOK /\ MemoryOK
  BY DEF TypeOK
<1>1. rows' \subseteq {a \in Apps : hstage[a] > 0}
  <2>1. CASE Restart
    BY <2>1 DEF Restart, HostOK, Open
  <2>2. CASE \E a \in Apps : ReconcileRow(a)
    BY <2>2 DEF ReconcileRow, LoopOK
  <2>3. CASE HostSteps
    BY <2>3, HostLeaves DEF loopVars, LoopOK
  <2>4. CASE \E q \in DOMAIN asks, c \in ChoiceClasses \cup {"none"} : CompletePermission(q, c)
    BY <2>4 DEF CompletePermission, LoopOK
  <2>5. CASE \/ OpenResolved \/ OpenByPolicy \/ OpenForReview \/ OpenDuplicate
             \/ OpenQueued \/ OpenPrompt \/ OpenNoChoices \/ SendDecision \/ PopQueued
             \/ ToggleAutoReview \/ RestartFails \/ SessionCancel
             \/ EventOpen \/ EventResolved \/ EventReviewing \/ EventTurnDone
             \/ (\E q \in DOMAIN asks : CompleteFeedback(q)) \/ (\E j \in jobs : ReviewEnds(j))
    <3>1. UNCHANGED rows
      BY <2>5 DEF OpenResolved, OpenByPolicy, OpenForReview, OpenDuplicate, OpenQueued, OpenPrompt,
         OpenNoChoices, SendDecision, PopQueued, ToggleAutoReview, RestartFails, SessionCancel,
         EventOpen, EventResolved, EventReviewing, EventTurnDone, CompleteFeedback, ReviewEnds
    <3>2. QED
      BY <3>1 DEF LoopOK
  <2>6. QED
    BY <2>1, <2>2, <2>3, <2>4, <2>5, NextCases DEF Quiet, Stops, HostSteps
<1>2. rows' \subseteq {a \in Apps : hstage'[a] > 0}
  <2>1. \A a \in Apps : hstage[a] \in Nat /\ hstage'[a] \in Nat /\ hstage'[a] >= hstage[a]
    BY HostTyped DEF HostOK
  <2>2. QED
    BY <1>1, <2>1
<1>3. /\ loop' \in {"idle", "open", "decide", "pop", "reconcile"}
      /\ loop' = "open" => cur' \in Openings
      /\ loop' = "decide" => cur' \in Decisions
  <2> DEFINE Goal == /\ loop' \in {"idle", "open", "decide", "pop", "reconcile"}
                     /\ loop' = "open" => cur' \in Openings
                     /\ loop' = "decide" => cur' \in Decisions
  <2>1. ASSUME Return PROVE Goal
    BY <2>1 DEF Return
  <2>2. ASSUME UNCHANGED <<loop, cur>> PROVE Goal
    BY <2>2 DEF LoopOK
  <2>3. CASE OpenResolved \/ OpenForReview \/ OpenDuplicate \/ OpenQueued \/ OpenPrompt \/ OpenNoChoices
    <3>1. Return
      BY <2>3 DEF OpenResolved, OpenForReview, OpenDuplicate, OpenQueued, OpenPrompt, OpenNoChoices
    <3>2. QED
      BY <2>1, <3>1
  <2>4. CASE OpenByPolicy
    <3>1. CASE Return
      BY <2>1, <3>1
    <3>2. CASE /\ loop' = "decide"
               /\ \E c \in Offers[cur.a] \cap OnceScoped :
                  cur' = [by |-> "policy", a |-> cur.a, stage |-> cur.stage,
                          choice |-> c, ask |-> 0, pick |-> "none"]
      <4>1. Opening
        BY <2>4 DEF OpenByPolicy
      <4>2. cur.a \in Apps /\ cur.stage \in 1..Stages
        BY <4>1, Opens
      <4>3. OnceScoped \subseteq ChoiceClasses
        BY DEF OnceScoped, ChoiceClasses
      <4>4. QED
        BY <3>2, <4>2, <4>3 DEF Decisions
    <3>3. QED
      BY <2>4, <3>1, <3>2 DEF OpenByPolicy
  <2>5. CASE SendDecision
    BY <2>5 DEF SendDecision
  <2>6. CASE PopQueued
    <3>1. CASE Return
      BY <2>1, <3>1
    <3>2. CASE /\ queue # <<>> /\ loop' = "open"
               /\ cur' = [by |-> "open", a |-> Head(queue).a, stage |-> Head(queue).stage]
      <4>1. Head(queue) \in Keys
        BY <3>2, QueueTail
      <4>2. QED
        BY <3>2, <4>1 DEF Openings, Keys
    <3>3. QED
      BY <2>6, <3>1, <3>2 DEF PopQueued
  <2>7. ASSUME NEW c \in ChoiceClasses, NEW pick \in ChoiceClasses \cup {"none"},
               NEW n \in Nat, pending # None, Decide(pending, c, n, pick)
        PROVE  Goal
    <3>1. pending.a \in Apps /\ pending.stage \in 1..Stages
      BY <2>7, Boards
    <3>2. QED
      BY <2>7, <3>1 DEF Decide, Decisions
  <2>8. ASSUME NEW q \in DOMAIN asks, NEW c \in ChoiceClasses \cup {"none"}, CompletePermission(q, c)
        PROVE  Goal
    <3>1. q \in Nat
      BY Boards
    <3>2. UNCHANGED <<loop, cur>> \/ (pending # None /\ \E d \in ChoiceClasses : Decide(pending, d, q, c))
      BY <2>8, Completes DEF Unawaited
    <3>3. QED
      BY <2>2, <2>7, <3>1, <3>2
  <2>9. ASSUME NEW q \in DOMAIN asks, CompleteFeedback(q) PROVE Goal
    <3>1. UNCHANGED <<loop, cur>> \/
          (/\ pending # None /\ pending.form.ask = q
           /\ Decide(pending, pending.form.choice, pending.ask, pending.form.choice))
      BY <2>9 DEF CompleteFeedback
    <3>2. CASE /\ pending # None /\ pending.form.ask = q
               /\ Decide(pending, pending.form.choice, pending.ask, pending.form.choice)
      <4>1. q \in Nat \ {0}
        BY Boards
      <4>2. pending.form # NoForm
        BY <3>2, <4>1 DEF NoForm
      <4>3. pending.form.choice \in ChoiceClasses /\ pending.ask \in Nat
        BY <3>2, <4>2, Boards
      <4>4. QED
        BY <2>7, <3>2, <4>3
    <3>3. QED
      BY <2>2, <3>1, <3>2
  <2>10. CASE ToggleAutoReview \/ RestartFails \/ SessionCancel \/ EventReviewing \/ EventTurnDone
    <3>1. UNCHANGED <<loop, cur>>
      BY <2>10 DEF ToggleAutoReview, RestartFails, SessionCancel, EventReviewing, EventTurnDone
    <3>2. QED
      BY <2>2, <3>1
  <2>11. CASE EventOpen
    <3>1. Event \in Happenings /\ Event.m = "open"
      BY <2>11, Taken DEF EventOpen
    <3>2. Event.a \in Apps /\ Event.stage \in 1..Stages
      BY <3>1 DEF Happenings
    <3>3. QED
      BY <2>11, <3>2 DEF EventOpen, Openings
  <2>12. CASE EventResolved
    BY <2>12 DEF EventResolved, Take
  <2>13. CASE Restart
    BY <2>13 DEF Restart
  <2>14. ASSUME NEW a \in Apps, ReconcileRow(a) PROVE Goal
    <3>1. a \in rows
      BY <2>14 DEF ReconcileRow
    <3>2. hstage[a] \in 1..Stages
      BY <3>1 DEF LoopOK, HostOK
    <3>3. loop' \in {"idle", "reconcile"}
          \/ (loop' = "open" /\ cur' = [by |-> "open", a |-> a, stage |-> hstage[a]])
      BY <2>14 DEF ReconcileRow
    <3>4. QED
      BY <3>2, <3>3 DEF Openings
  <2>15. CASE HostSteps
    BY <2>2, <2>15, HostLeaves DEF loopVars
  <2>16. ASSUME NEW j \in jobs, ReviewEnds(j) PROVE Goal
    <3>1. j.a \in Apps /\ j.stage \in 1..Stages
      BY DEF MemoryOK, Keys
    <3>2. UNCHANGED <<loop, cur>> \/
          (/\ loop' = "decide"
           /\ \E c \in OnceScoped \cup RejectLike :
                 cur' = [by |-> "review", a |-> j.a, stage |-> j.stage,
                         choice |-> c, ask |-> 0, pick |-> "none"])
      BY <2>16 DEF ReviewEnds
    <3>3. OnceScoped \cup RejectLike \subseteq ChoiceClasses
      BY DEF OnceScoped, RejectLike, ChoiceClasses
    <3>4. QED
      BY <2>2, <3>1, <3>2, <3>3 DEF Decisions
  <2>17. QED
    BY <2>3, <2>4, <2>5, <2>6, <2>8, <2>9, <2>10, <2>11, <2>12, <2>13, <2>14, <2>15, <2>16, NextCases
       DEF Quiet, Stops, HostSteps
<1>4. QED
  BY <1>2, <1>3 DEF LoopOK

\* The board after opening an approval.
LEMMA OpensBoard ==
    ASSUME BoardOK, AskOf, OneRow
    PROVE  /\ KeptQueue \in Seq(Keys) /\ KeptAsks \in Seq(Requests) /\ DOMAIN KeptAsks = DOMAIN asks
           /\ KeptPerm # None => KeptPerm = pending /\ KeptAsks = asks
<1>1. KeptQueue \in Seq(Keys)
  BY RowGone DEF KeptQueue
<1>2. CASE Superseded
  <2>1. pending # None
    BY <1>2 DEF Superseded, Displayed
  <2>2. KeptAsks = Settle(ShownAsk(pending)) /\ KeptPerm = None
    BY <1>2 DEF KeptAsks, KeptPerm, Withdrawn
  <2>3. QED
    BY <1>1, <2>1, <2>2, ShownExists, Settled
<1>3. CASE ~Superseded
  BY <1>1, <1>3 DEF KeptAsks, KeptPerm, BoardOK
<1>4. QED
  BY <1>2, <1>3

\* Ending an open form.
LEMMA DropsForm ==
    ASSUME BoardOK, AskOf, DropForm
    PROVE  \/ pending' = None /\ asks' \in Seq(Requests)
           \/ UNCHANGED <<pending, asks>>
<1>1. CASE pending # None /\ pending.form # NoForm
  <2>1. pending.form.ask \in DOMAIN asks
    BY <1>1 DEF AskOf
  <2>2. QED
    BY <1>1, <2>1, Settled DEF DropForm
<1>2. CASE ~(pending # None /\ pending.form # NoForm)
  BY <1>2 DEF DropForm
<1>3. QED
  BY <1>1, <1>2

LEMMA BoardTyped ==
    ASSUME TypeOK, AskOf, OneRow, Next
    PROVE  BoardOK'
<1> BoardOK /\ MemoryOK
  BY DEF TypeOK
<1>0. /\ pending # None => pending \in Perms
      /\ queue \in Seq(Keys) /\ seen \subseteq Keys /\ asks \in Seq(Requests)
  BY DEF BoardOK
<1>1. ASSUME UNCHANGED boardVars PROVE BoardOK'
  BY <1>0, <1>1 DEF boardVars, BoardOK
<1>2. ASSUME UNCHANGED seen, queue' \in Seq(Keys), asks' \in Seq(Requests), pending' \in {None, pending}
      PROVE  BoardOK'
  BY <1>0, <1>2 DEF BoardOK
<1>3. CASE OpenResolved \/ SendDecision \/ ToggleAutoReview \/ EventOpen \/ EventReviewing \/ Restart
           \/ (\E a \in Apps : ReconcileRow(a)) \/ (\E j \in jobs : ReviewEnds(j))
  <2>1. UNCHANGED boardVars
    BY <1>3 DEF OpenResolved, SendDecision, ToggleAutoReview, EventOpen, EventReviewing, Restart,
       ReconcileRow, ReviewEnds
  <2>2. QED
    BY <1>1, <2>1
<1>4. CASE HostSteps
  BY <1>1, <1>4, HostLeaves DEF loopVars
<1>5. CASE OpenByPolicy \/ OpenForReview
  <2>1. seen' \subseteq seen \cup {Key} /\ UNCHANGED <<pending, queue, asks>>
    BY <1>5 DEF OpenByPolicy, OpenForReview
  <2>2. Key \in Keys
    BY <1>5, Opens DEF OpenByPolicy, OpenForReview
  <2>3. QED
    BY <1>0, <2>1, <2>2 DEF BoardOK
<1>6. CASE OpenDuplicate
  <2>1. pending' = KeptPerm /\ asks' = KeptAsks /\ UNCHANGED <<queue, seen>>
    BY <1>6 DEF OpenDuplicate
  <2>2. pending' \in {None, pending}
    BY <2>1 DEF KeptPerm
  <2>3. QED
    BY <1>0, <1>2, <2>1, <2>2, OpensBoard
<1>7. CASE OpenQueued
  <2>1. queue' = Append(KeptQueue, Key) /\ UNCHANGED <<pending, seen, asks>>
    BY <1>7 DEF OpenQueued
  <2>2. Key \in Keys
    BY <1>7, Opens DEF OpenQueued, Prompting
  <2>3. queue' \in Seq(Keys)
    BY <2>1, <2>2, OpensBoard
  <2>4. QED
    BY <1>0, <1>2, <2>1, <2>3
<1>8. CASE OpenPrompt
  <2>1. /\ queue' = KeptQueue /\ seen' = seen \cup {Key}
        /\ asks' = Ask(KeptAsks, "permission", cur.a, cur.stage)
        /\ pending' = [ask |-> Len(asks) + 1, a |-> cur.a, stage |-> cur.stage, form |-> NoForm]
    BY <1>8 DEF OpenPrompt
  <2>2. Key \in Keys /\ cur.a \in Apps /\ cur.stage \in 1..Stages
    BY <1>8, Opens DEF OpenPrompt, Prompting
  <2>3. asks' \in Seq(Requests)
    <3>1. KeptAsks \in Seq(Requests) /\ DOMAIN KeptAsks = 1 .. Len(asks) /\ Len(asks) \in Nat
      BY OpensBoard, Boards
    <3>2. "permission" \in {"permission", "form"}
      OBVIOUS
    <3>3. QED
      BY <2>1, <2>2, <3>1, <3>2, Asked
  <2>4. pending' \in Perms
    <3>1. Len(asks) + 1 \in Nat \ {0}
      BY Boards
    <3>2. QED
      BY <2>1, <2>2, <3>1 DEF Perms
  <2>5. QED
    BY <1>0, <2>1, <2>2, <2>3, <2>4, OpensBoard DEF BoardOK
<1>9. CASE OpenNoChoices
  <2>1. /\ queue' = KeptQueue /\ seen' = seen \cup {Key}
        /\ asks' = KeptAsks /\ pending' = None
    BY <1>9 DEF OpenNoChoices
  <2>2. Key \in Keys
    BY <1>9, Opens DEF OpenNoChoices, Prompting
  <2>3. QED
    BY <1>0, <2>1, <2>2, OpensBoard DEF BoardOK
<1>10. CASE PopQueued
  <2>1. queue' \in Seq(Keys)
    BY <1>10, <1>0, QueueTail DEF PopQueued
  <2>2. QED
    BY <1>0, <1>2, <1>10, <2>1 DEF PopQueued
<1>11. ASSUME NEW q \in DOMAIN asks, NEW c \in ChoiceClasses \cup {"none"}, CompletePermission(q, c)
       PROVE  BoardOK'
  <2>1. CASE OfferPermissionFeedback(pending, q, c) /\ ~Unawaited(pending, q) /\ c = "guided"
    <3>1. /\ asks' = Ask(Settle(q), "form", pending.a, pending.stage)
          /\ pending' = [pending EXCEPT !.form = [ask |-> Len(asks) + 1, choice |-> c]]
      BY <2>1 DEF OfferPermissionFeedback
    <3>2. pending \in Perms /\ pending.a \in Apps /\ pending.stage \in 1..Stages
      BY <1>0, <2>1 DEF Unawaited, Perms
    <3>3. asks' \in Seq(Requests)
      BY <3>1, <3>2, Settled, Asked
    <3>4. [ask |-> Len(asks) + 1, choice |-> c] \in [ask : Nat \ {0}, choice : ChoiceClasses]
      BY <2>1, Boards DEF ChoiceClasses
    <3>5. pending' \in Perms
      BY <3>1, <3>2, <3>4 DEF Perms
    <3>6. QED
      BY <1>0, <1>11, <3>3, <3>5, Completes DEF BoardOK
  <2>2. CASE asks' = Settle(q) /\ pending' \in {None, pending}
    BY <1>0, <1>2, <1>11, <2>2, Settled, Completes
  <2>3. QED
    BY <1>11, <2>1, <2>2, Completes
<1>12. ASSUME NEW q \in DOMAIN asks, CompleteFeedback(q) PROVE BoardOK'
  <2>1. asks' = Settle(q) /\ UNCHANGED <<queue, seen>> /\ pending' \in {None, pending}
    BY <1>12 DEF CompleteFeedback
  <2>2. QED
    BY <1>0, <1>2, <2>1, Settled
<1>13. CASE SessionCancel \/ EventTurnDone
  <2>1. DropForm /\ UNCHANGED <<queue, seen>>
    BY <1>13 DEF SessionCancel, EventTurnDone
  <2>2. QED
    BY <1>0, <1>2, <2>1, DropsForm
<1>14. CASE EventResolved
  <2>1. queue' = WithoutRow(Event.a) /\ UNCHANGED seen
    BY <1>14 DEF EventResolved
  <2>2. (Displayed(Event.a) /\ pending' = None /\ asks' = Withdrawn) \/ UNCHANGED <<pending, asks>>
    BY <1>14 DEF EventResolved
  <2>3. asks' \in Seq(Requests) /\ pending' \in {None, pending}
    <3>1. CASE Displayed(Event.a) /\ pending' = None /\ asks' = Withdrawn
      BY <3>1, ShownExists, Settled DEF Displayed, Withdrawn
    <3>2. QED
      BY <1>0, <2>2, <3>1
  <2>4. QED
    BY <1>2, <2>1, <2>3, RowGone
<1>15. CASE RestartFails
  <2>1. /\ pending' = None /\ queue' = <<>> /\ UNCHANGED seen
        /\ asks' = IF pending = None THEN asks ELSE Withdrawn
    BY <1>15 DEF RestartFails
  <2>2. asks' \in Seq(Requests)
    BY <1>0, <2>1, ShownExists, Settled DEF Withdrawn
  <2>3. <<>> \in Seq(Keys)
    BY EmptySeq
  <2>4. QED
    BY <1>0, <1>2, <2>1, <2>2, <2>3
<1>16. QED
  BY <1>3, <1>4, <1>5, <1>6, <1>7, <1>8, <1>9, <1>10, <1>11, <1>12, <1>13, <1>14, <1>15, NextCases
     DEF Quiet, Stops, HostSteps

LEMMA MemoryTyped ==
    ASSUME TypeOK, Next
    PROVE  MemoryOK'
<1> MemoryOK /\ HostOK
  BY DEF TypeOK
<1>0. /\ resolved \subseteq Apps /\ unread \in BOOLEAN /\ reviewing \subseteq Apps
      /\ autoReview \in BOOLEAN /\ jobs \subseteq Keys /\ attached \in BOOLEAN /\ sent \in [Keys -> Nat]
  BY DEF MemoryOK
<1>1. ASSUME resolved' \subseteq Apps, unread' \in BOOLEAN, reviewing' \subseteq Apps,
             jobs' \subseteq Keys, UNCHANGED <<autoReview, attached, sent>>
      PROVE  MemoryOK'
  BY <1>0, <1>1 DEF MemoryOK
<1>2. CASE OpenResolved \/ OpenByPolicy \/ OpenForReview \/ OpenDuplicate \/ OpenQueued \/ OpenPrompt
           \/ OpenNoChoices
  <2>1. Opening /\ UNCHANGED <<autoReview, attached, sent>> /\ jobs' \subseteq jobs \cup {Key}
    BY <1>2 DEF OpenResolved, OpenByPolicy, OpenForReview, OpenDuplicate, OpenQueued, OpenPrompt,
       OpenNoChoices, Prompting
  <2>2. QED
    BY <1>0, <1>1, <2>1, Opens
<1>3. CASE SendDecision
  <2>1. Key \in Keys
    BY <1>3, DecisionOnHost DEF Key, Keys
  <2>2. sent' = [sent EXCEPT ![Key] = sent[Key] + 1]
        /\ UNCHANGED <<resolved, unread, reviewing, autoReview, jobs, attached>>
    BY <1>3 DEF SendDecision
  <2>3. sent' \in [Keys -> Nat]
    BY <1>0, <2>1, <2>2
  <2>4. QED
    BY <1>0, <2>2, <2>3 DEF MemoryOK
<1>4. CASE ToggleAutoReview
  <2>1. autoReview' = ~autoReview /\ UNCHANGED <<resolved, unread, reviewing, jobs, attached, sent>>
    BY <1>4 DEF ToggleAutoReview
  <2>2. autoReview' \in BOOLEAN
    BY <2>1
  <2>3. QED
    BY <1>0, <2>1, <2>2 DEF MemoryOK
<1>5. CASE \/ PopQueued \/ SessionCancel \/ EventOpen \/ Restart
           \/ (\E q \in DOMAIN asks : CompleteFeedback(q)) \/ HostSteps
           \/ \E q \in DOMAIN asks, c \in ChoiceClasses \cup {"none"} : CompletePermission(q, c)
  <2>1. UNCHANGED <<resolved, unread, reviewing, autoReview, jobs, attached, sent>>
    BY <1>5, HostLeaves, Completes
       DEF PopQueued, SessionCancel, EventOpen, Restart, CompleteFeedback, loopVars
  <2>2. QED
    BY <1>0, <2>1 DEF MemoryOK
<1>6. CASE RestartFails
  <2>1. attached' = FALSE /\ UNCHANGED <<resolved, unread, reviewing, autoReview, jobs, sent>>
    BY <1>6 DEF RestartFails
  <2>2. attached' \in BOOLEAN
    BY <2>1
  <2>3. QED
    BY <1>0, <2>1, <2>2 DEF MemoryOK
<1>7. CASE EventResolved
  <2>1. Event \in Happenings /\ Event.m = "resolved"
    BY <1>7, Taken DEF EventResolved
  <2>2. Event.a \in Apps
    BY <2>1 DEF Happenings
  <2>3. /\ resolved' = resolved \cup {Event.a} /\ reviewing' \subseteq reviewing /\ jobs' \subseteq jobs
        /\ UNCHANGED <<unread, autoReview, attached, sent>>
    BY <1>7 DEF EventResolved
  <2>4. QED
    BY <1>0, <1>1, <2>2, <2>3
<1>8. CASE EventReviewing
  <2>1. Event \in Happenings /\ Event.m = "reviewing"
    BY <1>8, Taken DEF EventReviewing
  <2>2. Event.a \in Apps
    BY <2>1 DEF Happenings
  <2>3. PICK l \in Learnt : resolved' = l[1] /\ unread' = l[2] /\ reviewing' \subseteq reviewing \cup {Event.a}
    BY <1>8 DEF EventReviewing
  <2>4. UNCHANGED <<autoReview, jobs, attached, sent>>
    BY <1>8 DEF EventReviewing
  <2>5. QED
    BY <1>0, <1>1, <2>2, <2>3, <2>4, LearntIsTrue
<1>9. CASE EventTurnDone
  <2>1. reviewing' \subseteq reviewing /\ UNCHANGED <<resolved, unread, autoReview, jobs, attached, sent>>
    BY <1>9 DEF EventTurnDone
  <2>2. QED
    BY <1>0, <1>1, <2>1
<1>10. ASSUME NEW a \in Apps, ReconcileRow(a) PROVE MemoryOK'
  <2>1. PICK l \in Learnt : resolved' = l[1] /\ unread' = l[2]
    BY <1>10 DEF ReconcileRow
  <2>2. UNCHANGED <<reviewing, autoReview, jobs, attached, sent>>
    BY <1>10 DEF ReconcileRow
  <2>3. QED
    BY <1>0, <1>1, <2>1, <2>2, LearntIsTrue
<1>11. ASSUME NEW j \in jobs, ReviewEnds(j) PROVE MemoryOK'
  <2>1. jobs' = jobs \ {j} /\ UNCHANGED <<resolved, unread, reviewing, autoReview, attached, sent>>
    BY <1>11 DEF ReviewEnds
  <2>2. QED
    BY <1>0, <1>1, <2>1
<1>12. QED
  BY <1>2, <1>3, <1>4, <1>5, <1>6, <1>7, <1>8, <1>9, <1>10, <1>11, NextCases DEF Quiet, Stops, HostSteps
-----------------------------------------------------------------------------
(* The requests on the editor's screen.                                      *)

LEMMA Withdraws ==
    ASSUME BoardOK, AskOf, OnePrompt, pending # None,
           asks' = Settle(ShownAsk(pending)), pending' = None
    PROVE  AskOf' /\ OnePrompt'
<1>1. ShownAsk(pending) \in DOMAIN asks
  BY ShownExists
<1>2. \A q \in DOMAIN asks' : ~asks'[q].live
  <2>1. DOMAIN asks' = DOMAIN asks
    BY <1>1, Settled
  <2>2. ~asks'[ShownAsk(pending)].live
    BY <1>1, Settled
  <2>3. \A q \in DOMAIN asks : q # ShownAsk(pending) => asks'[q] = asks[q] /\ ~asks[q].live
    BY <1>1, Settled DEF OnePrompt
  <2>4. QED
    BY <2>1, <2>2, <2>3
<1>3. QED
  BY <1>2 DEF AskOf, OnePrompt

LEMMA Answered ==
    ASSUME BoardOK, AskOf, OnePrompt, NEW q \in DOMAIN asks, asks' = Settle(q), pending' = pending
    PROVE  AskOf' /\ OnePrompt'
<1>1. /\ DOMAIN asks' = DOMAIN asks
      /\ \A r \in DOMAIN asks : /\ asks'[r].kind = asks[r].kind /\ asks'[r].a = asks[r].a
                                /\ asks'[r].stage = asks[r].stage
                                /\ asks'[r].live => asks[r].live
  <2>1. /\ \A r \in DOMAIN asks : r # q => asks'[r] = asks[r]
        /\ ~asks'[q].live
    BY Settled
  <2>2. QED
    BY <2>1, Settled
<1>2. AskOf'
  BY <1>1 DEF AskOf
<1>3. OnePrompt'
  BY <1>1 DEF OnePrompt
<1>4. QED
  BY <1>2, <1>3

LEMMA SameBoard ==
    ASSUME AskOf, OnePrompt, UNCHANGED <<pending, asks>>
    PROVE  AskOf' /\ OnePrompt'
BY DEF AskOf, OnePrompt

\* What was shown for an older requirement is withdrawn, or nothing changes.
LEMMA KeptBoard ==
    ASSUME BoardOK, AskOf, OnePrompt, asks' = KeptAsks, pending' = KeptPerm
    PROVE  AskOf' /\ OnePrompt'
<1>1. CASE Superseded
  <2>1. pending # None /\ asks' = Settle(ShownAsk(pending)) /\ pending' = None
    BY <1>1 DEF Superseded, Displayed, KeptAsks, KeptPerm, Withdrawn
  <2>2. QED
    BY <2>1, Withdraws
<1>2. CASE ~Superseded
  BY <1>2, SameBoard DEF KeptAsks, KeptPerm
<1>3. QED
  BY <1>1, <1>2

\* No request is left on the screen when the permission it belongs to is gone.
LEMMA KeptNothing ==
    ASSUME BoardOK, AskOf, OnePrompt, KeptPerm = None
    PROVE  \A q \in DOMAIN asks : KeptAsks \in Seq(Requests) /\ DOMAIN KeptAsks = DOMAIN asks /\ ~KeptAsks[q].live
<1>1. CASE Superseded
  <2>1. pending # None /\ KeptAsks = Settle(ShownAsk(pending))
    BY <1>1 DEF Superseded, Displayed, KeptAsks, Withdrawn
  <2>2. ShownAsk(pending) \in DOMAIN asks
    BY <2>1, ShownExists
  <2>3. KeptAsks \in Seq(Requests) /\ DOMAIN KeptAsks = DOMAIN asks
        /\ ~KeptAsks[ShownAsk(pending)].live
    BY <2>1, <2>2, Settled
  <2>4. \A q \in DOMAIN asks : q # ShownAsk(pending) => KeptAsks[q] = asks[q]
    BY <2>1, <2>2, Settled
  <2>5. QED
    BY <2>3, <2>4 DEF OnePrompt
<1>2. CASE ~Superseded
  BY <1>2 DEF KeptAsks, KeptPerm, OnePrompt, BoardOK
<1>3. QED
  BY <1>1, <1>2

LEMMA ScreenStep ==
    ASSUME TypeOK, AskOf, OnePrompt, OneRow, Next
    PROVE  AskOf' /\ OnePrompt'
<1> BoardOK /\ MemoryOK
  BY DEF TypeOK
<1>1. CASE \/ OpenResolved \/ OpenByPolicy \/ OpenForReview \/ OpenQueued \/ SendDecision
           \/ PopQueued \/ ToggleAutoReview \/ EventOpen \/ EventReviewing \/ Restart
           \/ (\E a \in Apps : ReconcileRow(a)) \/ (\E j \in jobs : ReviewEnds(j)) \/ HostSteps
  <2>1. UNCHANGED <<pending, asks>>
    BY <1>1, HostLeaves DEF OpenResolved, OpenByPolicy, OpenForReview, OpenQueued, SendDecision,
       PopQueued, ToggleAutoReview, EventOpen, EventReviewing, Restart, ReconcileRow, ReviewEnds,
       loopVars, boardVars
  <2>2. QED
    BY <2>1, SameBoard
<1>2. CASE OpenDuplicate
  BY <1>2, KeptBoard DEF OpenDuplicate
<1>3. CASE OpenNoChoices
  <2>1. asks' = KeptAsks /\ pending' = KeptPerm
    BY <1>3 DEF OpenNoChoices
  <2>2. QED
    BY <2>1, KeptBoard
<1>4. CASE OpenPrompt
  <2>1. /\ KeptPerm = None
        /\ asks' = Ask(KeptAsks, "permission", cur.a, cur.stage)
        /\ pending' = [ask |-> Len(asks) + 1, a |-> cur.a, stage |-> cur.stage, form |-> NoForm]
    BY <1>4 DEF OpenPrompt
  <2>2. cur.a \in Apps /\ cur.stage \in 1..Stages
    BY <1>4, Opens DEF OpenPrompt, Prompting
  <2>3. KeptAsks \in Seq(Requests) /\ DOMAIN KeptAsks = DOMAIN asks /\ Len(asks) \in Nat
        /\ DOMAIN asks = 1 .. Len(asks)
    BY OpensBoard, Boards
  <2> DEFINE n == Len(asks) + 1  b == KeptAsks
  <2>5. /\ DOMAIN asks' = 1 .. n
        /\ \A r \in 1 .. Len(asks) : asks'[r] = b[r] /\ ~b[r].live
        /\ asks'[n].kind = "permission" /\ asks'[n].a = cur.a /\ asks'[n].stage = cur.stage
    <3>1. \A r \in DOMAIN asks : ~b[r].live
      BY <2>1, KeptNothing
    <3> HIDE DEF b
    <3>2. "permission" \in {"permission", "form"}
      OBVIOUS
    <3>3. b \in Seq(Requests) /\ DOMAIN b = 1 .. Len(asks) /\ asks' = Ask(b, "permission", cur.a, cur.stage)
      BY <2>1, <2>3 DEF b
    <3>4. /\ DOMAIN asks' = 1 .. Len(asks) + 1
          /\ \A r \in 1 .. Len(asks) : asks'[r] = b[r]
          /\ asks'[Len(asks) + 1].kind = "permission"
          /\ asks'[Len(asks) + 1].a = cur.a /\ asks'[Len(asks) + 1].stage = cur.stage
      BY SMTT(40), <2>2, <2>3, <3>2, <3>3, Asked
    <3>5. QED
      BY <2>3, <3>1, <3>4
  <2>6. /\ pending'.ask = n /\ pending'.form = NoForm /\ pending'.a = cur.a
        /\ pending'.stage = cur.stage /\ n \in DOMAIN asks'
    BY <2>1, <2>3, <2>5
  <2>7. pending' # None
    <3>1. n # 0
      BY <2>3
    <3>2. QED
      BY <2>1, <3>1 DEF None
  <2>8. AskOf'
    BY <2>5, <2>6 DEF AskOf
  <2>9. \A q \in DOMAIN asks' : asks'[q].live => q = n
    BY <2>3, <2>5
  <2>10. ShownAsk(pending)' = n
    BY <2>6 DEF ShownAsk
  <2>11. QED
    BY <2>7, <2>8, <2>9, <2>10 DEF OnePrompt
<1>5. ASSUME NEW q \in DOMAIN asks, NEW c \in ChoiceClasses \cup {"none"}, CompletePermission(q, c)
      PROVE  AskOf' /\ OnePrompt'
  <2>1. CASE asks' = Settle(q) /\ pending' = pending
    BY <2>1, Answered
  <2>2. ASSUME ~Unawaited(pending, q)
        PROVE  pending # None /\ pending.ask = q /\ pending.form = NoForm /\ ShownAsk(pending) = q
    BY <2>2 DEF Unawaited, ShownAsk
  <2>3. CASE ~Unawaited(pending, q) /\ asks' = Settle(q) /\ pending' = None
    BY <2>2, <2>3, Withdraws
  <2>4. CASE ~Unawaited(pending, q) /\ c = "guided" /\ OfferPermissionFeedback(pending, q, c)
    <3>1. /\ asks' = Ask(Settle(q), "form", pending.a, pending.stage)
          /\ pending' = [pending EXCEPT !.form = [ask |-> Len(asks) + 1, choice |-> c]]
      BY <2>4 DEF OfferPermissionFeedback
    <3>2. pending \in Perms /\ pending.a \in Apps /\ pending.stage \in 1..Stages
      BY <2>2, <2>4 DEF BoardOK, Perms
    <3> DEFINE n == Len(asks) + 1  b == Settle(q)
    <3>3. /\ b \in Seq(Requests) /\ DOMAIN b = DOMAIN asks /\ Len(b) = Len(asks)
          /\ Len(asks) \in Nat /\ DOMAIN asks = 1 .. Len(asks)
      BY Settled, Boards
    <3>4. \A r \in DOMAIN asks : /\ b[r].kind = asks[r].kind /\ b[r].a = asks[r].a
                                 /\ b[r].stage = asks[r].stage /\ ~b[r].live
      <4>1. \A r \in DOMAIN asks : r # q => b[r] = asks[r] /\ ~asks[r].live
        BY <2>2, <2>4, Settled DEF OnePrompt
      <4>2. ~b[q].live
        BY Settled
      <4>3. QED
        BY <4>1, <4>2, Settled
    <3>5. /\ DOMAIN asks' = 1 .. n /\ \A r \in DOMAIN asks : asks'[r] = b[r]
          /\ asks'[n].kind = "form"
      <4> HIDE DEF b
      <4>1. "form" \in {"permission", "form"}
        OBVIOUS
      <4>2. asks' = Ask(b, "form", pending.a, pending.stage)
        BY <3>1 DEF b
      <4>3. b \in Seq(Requests) /\ DOMAIN b = 1 .. Len(asks) /\ Len(asks) \in Nat
        BY <3>3
      <4>4. /\ DOMAIN asks' = 1 .. Len(asks) + 1
            /\ \A r \in 1 .. Len(asks) : asks'[r] = b[r]
            /\ asks'[Len(asks) + 1].kind = "form"
        BY SMTT(30), <3>2, <4>1, <4>2, <4>3, Asked
      <4>5. QED
        BY <3>3, <4>4
    <3>6. /\ pending'.ask = pending.ask /\ pending'.a = pending.a /\ pending'.stage = pending.stage
          /\ pending'.form = [ask |-> n, choice |-> c]
      BY <3>1, <3>2 DEF Perms
    <3>7. pending'.form.ask = n /\ pending'.form.choice = "guided" /\ n \in DOMAIN asks' /\ n # 0
          /\ DOMAIN asks \subseteq DOMAIN asks'
      BY <2>4, <3>3, <3>5, <3>6
    <3>8. pending'.form # NoForm
      BY <3>7 DEF NoForm
    <3>9. AskOf'
      <4>1. /\ pending.ask \in DOMAIN asks /\ asks[pending.ask].kind = "permission"
            /\ asks[pending.ask].a = pending.a /\ asks[pending.ask].stage = pending.stage
        BY <2>2, <2>4 DEF AskOf
      <4>2. /\ asks'[pending.ask].kind = "permission" /\ asks'[pending.ask].a = pending.a
            /\ asks'[pending.ask].stage = pending.stage
        BY <3>4, <3>5, <4>1
      <4>3. QED
        BY <3>5, <3>6, <3>7, <4>1, <4>2 DEF AskOf
    <3>10. pending' # None
      <4>1. pending'.ask # 0
        BY <3>2, <3>6 DEF Perms
      <4>2. QED
        BY <4>1 DEF None
    <3>11. \A r \in DOMAIN asks' : asks'[r].live => r = n
      BY <3>3, <3>4, <3>5
    <3>12. ShownAsk(pending)' = n
      BY <3>7, <3>8 DEF ShownAsk
    <3>13. QED
      BY <3>9, <3>10, <3>11, <3>12 DEF OnePrompt
  <2>5. QED
    BY <1>5, <2>1, <2>3, <2>4, Completes
<1>6. ASSUME NEW q \in DOMAIN asks, CompleteFeedback(q) PROVE AskOf' /\ OnePrompt'
  <2>1. asks' = Settle(q) /\ (pending' = pending \/ (pending # None /\ pending.form.ask = q /\ pending' = None))
    BY <1>6 DEF CompleteFeedback
  <2>2. CASE pending # None /\ pending.form.ask = q /\ pending' = None
    <3>1. q # 0
      BY Boards
    <3>2. pending.form # NoForm
      BY <2>2, <3>1 DEF NoForm
    <3>3. ShownAsk(pending) = q
      BY <2>2, <3>2 DEF ShownAsk
    <3>4. QED
      BY <2>1, <2>2, <3>3, Withdraws
  <2>3. QED
    BY <2>1, <2>2, Answered
<1>7. CASE SessionCancel \/ EventTurnDone
  <2>1. DropForm
    BY <1>7 DEF SessionCancel, EventTurnDone
  <2>2. CASE pending # None /\ pending.form # NoForm
    <3>1. pending' = None /\ asks' = Settle(ShownAsk(pending))
      BY <2>1, <2>2 DEF DropForm, ShownAsk
    <3>2. QED
      BY <2>2, <3>1, Withdraws
  <2>3. CASE ~(pending # None /\ pending.form # NoForm)
    BY <2>1, <2>3, SameBoard DEF DropForm
  <2>4. QED
    BY <2>2, <2>3
<1>8. CASE EventResolved
  <2>1. (Displayed(Event.a) /\ pending' = None /\ asks' = Withdrawn) \/ UNCHANGED <<pending, asks>>
    BY <1>8 DEF EventResolved
  <2>2. QED
    BY <2>1, SameBoard, Withdraws DEF Displayed, Withdrawn
<1>9. CASE RestartFails
  <2>1. pending' = None /\ asks' = IF pending = None THEN asks ELSE Withdrawn
    BY <1>9 DEF RestartFails
  <2>2. QED
    BY <2>1, SameBoard, Withdraws DEF Withdrawn
<1>10. QED
  BY <1>1, <1>2, <1>3, <1>4, <1>5, <1>6, <1>7, <1>8, <1>9, NextCases DEF Quiet, Stops, HostSteps

LEMMA RowStep ==
    ASSUME TypeOK, AskOf, OneRow, Next
    PROVE  OneRow'
<1> BoardOK /\ MemoryOK
  BY DEF TypeOK
<1>1. CASE UNCHANGED queue
  BY <1>1 DEF OneRow
<1>2. ASSUME NEW a, queue' = WithoutRow(a)
      PROVE  OneRow'
  BY <1>2, RowGone DEF OneRow
<1>3. CASE OpenQueued
  <2>1. queue' = Append(KeptQueue, Key)
    BY <1>3 DEF OpenQueued
  <2> DEFINE w == KeptQueue
  <2>2. /\ w \in Seq(Keys)
        /\ \A i \in DOMAIN w : w[i].a # cur.a
        /\ \A i, j \in DOMAIN w : w[i].a = w[j].a => i = j
    BY RowGone DEF KeptQueue
  <2>3. Key \in Keys /\ Key.a = cur.a
    BY <1>3, Opens DEF OpenQueued, Prompting, Key
  <2> HIDE DEF w
  <2>4. /\ Len(w) \in Nat /\ DOMAIN w = 1 .. Len(w)
        /\ DOMAIN Append(w, Key) = 1 .. Len(w) + 1
        /\ \A i \in 1 .. Len(w) : Append(w, Key)[i] = w[i]
        /\ Append(w, Key)[Len(w) + 1] = Key
    BY <2>2, <2>3
  <2>5. queue' = Append(w, Key)
    BY <2>1 DEF w
  <2>6. QED
    BY <2>2, <2>3, <2>4, <2>5 DEF OneRow
<1>4. CASE PopQueued /\ queue' = Tail(queue) /\ queue # <<>>
  <2>1. \A i \in DOMAIN Tail(queue) : i \in Nat /\ i + 1 \in DOMAIN queue /\ Tail(queue)[i] = queue[i + 1]
    BY <1>4, QueueTail
  <2>2. QED
    BY <1>4, <2>1 DEF OneRow
<1>5. CASE RestartFails
  BY <1>5 DEF RestartFails, OneRow
<1>6. CASE OpenPrompt \/ OpenNoChoices
  BY <1>2, <1>6 DEF OpenPrompt, OpenNoChoices, KeptQueue
<1>7. CASE EventResolved
  BY <1>2, <1>7 DEF EventResolved
<1>8. CASE PopQueued
  BY <1>1, <1>4, <1>8 DEF PopQueued
<1>9. CASE \/ OpenResolved \/ OpenByPolicy \/ OpenForReview \/ OpenDuplicate \/ SendDecision
           \/ ToggleAutoReview \/ EventOpen \/ EventReviewing \/ EventTurnDone \/ SessionCancel \/ Restart
           \/ (\E a \in Apps : ReconcileRow(a)) \/ (\E j \in jobs : ReviewEnds(j)) \/ HostSteps
           \/ (\E q \in DOMAIN asks : CompleteFeedback(q))
           \/ \E q \in DOMAIN asks, c \in ChoiceClasses \cup {"none"} : CompletePermission(q, c)
  <2>1. UNCHANGED queue
    BY <1>9, HostLeaves, Completes DEF OpenResolved, OpenByPolicy, OpenForReview, OpenDuplicate,
       SendDecision, ToggleAutoReview, EventOpen, EventReviewing, EventTurnDone, SessionCancel,
       Restart, ReconcileRow, ReviewEnds, CompleteFeedback, loopVars, boardVars
  <2>2. QED
    BY <1>1, <2>1
<1>10. QED
  BY <1>3, <1>5, <1>6, <1>7, <1>8, <1>9, NextCases DEF Quiet, Stops, HostSteps
-----------------------------------------------------------------------------
LEMMA StutterKeeps ==
    ASSUME TypeOK, AskOf, OnePrompt, OneRow, UNCHANGED vars
    PROVE  TypeOK' /\ AskOf' /\ OnePrompt' /\ OneRow'
<1>1. /\ UNCHANGED hostVars /\ UNCHANGED boardVars
      /\ UNCHANGED <<toggles, loop, cur, rows, resolved, unread, reviewing, autoReview, jobs, attached, sent>>
  BY DEF vars
<1>2. HostOK'
  BY <1>1 DEF TypeOK, HostOK, hostVars
<1>3. LoopOK' /\ MemoryOK'
  BY <1>1 DEF TypeOK, LoopOK, MemoryOK, hostVars
<1>4. BoardOK'
  BY <1>1 DEF TypeOK, BoardOK, boardVars
<1>5. AskOf' /\ OnePrompt' /\ OneRow'
  BY <1>1 DEF AskOf, OnePrompt, OneRow, boardVars
<1>6. QED
  BY <1>2, <1>3, <1>4, <1>5 DEF TypeOK

LEMMA InitTyped ==
    ASSUME Init
    PROVE  TypeOK /\ AskOf /\ OnePrompt /\ OneRow
<1>1. HostOK
  <2>1. hdone \subseteq Apps /\ hstage = [a \in Apps |-> IF a \in hdone THEN 1 ELSE 0]
        /\ events = <<>> /\ stopping = {} /\ reissues = 0 /\ crashes = 0 /\ toggles = 0
    BY DEF Init
  <2>2. hstage \in [Apps -> 0..Stages]
    BY <2>1
  <2>3. events \in Seq(Happenings)
    BY <2>1, EmptySeq
  <2>4. up \in BOOLEAN /\ turnOver \in BOOLEAN
    BY DEF Init
  <2>5. QED
    BY <2>1, <2>2, <2>3, <2>4 DEF HostOK
<1>2. LoopOK
  BY DEF Init, LoopOK
<1>3. BoardOK
  <2>1. pending = None /\ queue = <<>> /\ seen = {} /\ asks = <<>>
    BY DEF Init
  <2>2. <<>> \in Seq(Keys) /\ <<>> \in Seq(Requests)
    BY EmptySeq
  <2>3. QED
    BY <2>1, <2>2 DEF BoardOK
<1>4. MemoryOK
  <2>1. unread \in BOOLEAN
    <3>1. unread = ~FreshSession
      BY DEF Init
    <3>2. QED
      BY <3>1
  <2>2. autoReview \in BOOLEAN
    BY DEF Init
  <2>3. attached \in BOOLEAN
    BY DEF Init
  <2>4. resolved = {} /\ reviewing = {} /\ jobs = {} /\ sent = [k \in Keys |-> 0]
    BY DEF Init
  <2>5. QED
    BY <2>1, <2>2, <2>3, <2>4 DEF MemoryOK
<1>5. AskOf /\ OnePrompt /\ OneRow
  BY DEF Init, AskOf, OnePrompt, OneRow
<1>6. QED
  BY <1>1, <1>2, <1>3, <1>4, <1>5 DEF TypeOK

\* Types, the requests behind the pending permission, the queue's rows.
Screen == TypeOK /\ AskOf /\ OnePrompt /\ OneRow

LEMMA ScreenHolds == Spec => []Screen
<1>1. Init => Screen
  BY InitTyped DEF Screen
<1>2. Screen /\ [Next]_vars => Screen'
  <2>1. ASSUME Screen, Next PROVE Screen'
    <3>1. TypeOK /\ AskOf /\ OnePrompt /\ OneRow
      BY <2>1 DEF Screen
    <3>2. HostOK' /\ LoopOK' /\ BoardOK' /\ MemoryOK'
      BY <2>1, <3>1, HostTyped, LoopTyped, BoardTyped, MemoryTyped
    <3>3. QED
      BY <2>1, <3>1, <3>2, ScreenStep, RowStep DEF Screen, TypeOK
  <2>2. ASSUME Screen, UNCHANGED vars PROVE Screen'
    BY <2>2, StutterKeeps DEF Screen
  <2>3. QED
    BY <2>1, <2>2
<1>3. QED
  BY <1>1, <1>2, PTL DEF Spec

\* Type correctness: the loop's parameters, the prompt, its queue and the host's
\* state keep their shape through every handler (main.rs, the permission path).
THEOREM TypeCorrect == Spec => []TypeOK
<1>1. Screen => TypeOK
  BY DEF Screen
<1>2. QED
  BY <1>1, ScreenHolds, PTL

\* The user's screen shows no orphan, whatever withdraws, supersedes or settles a
\* permission: a live request is the one the session waits for (open_approval,
\* complete_permission, invalidate_pending_approval).
THEOREM OnePromptHolds == Spec => []OnePrompt
<1>1. Screen => OnePrompt
  BY DEF Screen
<1>2. QED
  BY <1>1, ScreenHolds, PTL
-----------------------------------------------------------------------------
(* Consent.                                                                  *)

\* Where a decision comes from.
LEMMA DecideSources ==
    ASSUME TypeOK, Next, loop' = "decide"
    PROVE  \/ loop = "decide" /\ UNCHANGED loopVars
           \/ OpenByPolicy /\ Key \notin seen
           \/ \E q \in DOMAIN asks, c \in ChoiceClasses \cup {"none"} : CompletePermission(q, c)
           \/ \E q \in DOMAIN asks : CompleteFeedback(q)
           \/ \E j \in jobs : ReviewEnds(j)
<1>0. Return => loop' # "decide"
  BY DEF Return
<1>1. CASE OpenResolved \/ OpenForReview \/ OpenDuplicate \/ OpenQueued \/ OpenPrompt \/ OpenNoChoices
  BY <1>0, <1>1 DEF OpenResolved, OpenForReview, OpenDuplicate, OpenQueued, OpenPrompt, OpenNoChoices
<1>2. CASE OpenByPolicy
  BY <1>0, <1>2 DEF OpenByPolicy
<1>3. CASE PopQueued \/ SendDecision \/ EventOpen \/ Restart \/ (\E a \in Apps : ReconcileRow(a))
  BY <1>0, <1>3 DEF PopQueued, SendDecision, EventOpen, Restart, ReconcileRow
<1>4. CASE ToggleAutoReview \/ RestartFails \/ SessionCancel \/ EventReviewing \/ EventTurnDone
           \/ EventResolved
  BY <1>4 DEF ToggleAutoReview, RestartFails, SessionCancel, EventReviewing, EventTurnDone,
     EventResolved, Take
<1>5. CASE HostSteps
  <2>1. UNCHANGED loopVars
    BY <1>5, HostLeaves
  <2>2. QED
    BY <2>1 DEF loopVars
<1>6. QED
  BY <1>1, <1>2, <1>3, <1>4, <1>5, NextCases DEF Quiet, Stops, HostSteps

LEMMA PolicyDecides ==
    ASSUME OpenByPolicy, loop' = "decide"
    PROVE  /\ cur.a \notin resolved' /\ cur'.a = cur.a /\ cur'.stage = cur.stage
           /\ cur'.by = "policy" /\ cur'.choice \in OnceScoped
BY DEF OpenByPolicy, Return

LEMMA ReviewDecides ==
    ASSUME NEW j \in jobs, ReviewEnds(j), loop' = "decide"
    PROVE  /\ cur'.a = j.a /\ cur'.stage = j.stage /\ cur'.by = "review"
           /\ cur'.choice \in OnceScoped \cup RejectLike
<1>1. loop = "idle"
  BY DEF ReviewEnds
<1>2. QED
  BY <1>1 DEF ReviewEnds

LEMMA UserDecides ==
    ASSUME NEW q \in DOMAIN asks, NEW choice \in ChoiceClasses \cup {"none"},
           CompletePermission(q, choice), loop' = "decide"
    PROVE  /\ pending # None /\ pending.ask = q /\ pending.form = NoForm /\ pending' = None
           /\ asks' = Settle(q)
           /\ cur'.a = pending.a /\ cur'.stage = pending.stage /\ cur'.by = "user"
           /\ cur'.ask = q /\ cur'.pick = choice
           /\ cur'.choice = choice \/ cur'.choice \in RejectLike
<1>1. loop = "idle"
  BY DEF CompletePermission
<1>2. ~Unawaited(pending, q) => pending # None /\ pending.ask = q /\ pending.form = NoForm
  BY DEF Unawaited
<1>3. ~Unawaited(pending, q) /\ asks' = Settle(q) /\ pending' = None
      /\ \E c \in ChoiceClasses : /\ choice = c \/ (choice = "none" /\ c \in RejectLike)
                                  /\ Decide(pending, c, q, choice)
  BY <1>1, Completes
<1>4. QED
  BY <1>2, <1>3 DEF Decide

LEMMA FormDecides ==
    ASSUME BoardOK, AskOf, NEW q \in DOMAIN asks, CompleteFeedback(q), loop' = "decide"
    PROVE  /\ pending # None /\ pending' = None
           /\ cur'.a = pending.a /\ cur'.stage = pending.stage /\ cur'.by = "user"
           /\ cur'.choice = "guided"
<1>1. loop = "idle"
  BY DEF CompleteFeedback
<1>2. /\ pending # None /\ pending.form.ask = q /\ pending' = None
      /\ Decide(pending, pending.form.choice, pending.ask, pending.form.choice)
  BY <1>1 DEF CompleteFeedback
<1>3. q # 0
  BY Boards
<1>4. pending.form # NoForm
  BY <1>2, <1>3 DEF NoForm
<1>5. pending.form.choice = "guided"
  BY <1>2, <1>4 DEF AskOf
<1>6. QED
  BY <1>2, <1>5 DEF Decide

LEMMA ConsentStep ==
    ASSUME Screen, NoApprovalWithoutConsent, Next
    PROVE  NoApprovalWithoutConsent'
<1> TypeOK /\ AskOf /\ BoardOK
  BY DEF Screen, TypeOK
<1>0. SUFFICES ASSUME loop' = "decide", cur'.choice \in Approving
               PROVE  IF cur'.by = "user"
                      THEN /\ cur'.choice = cur'.pick
                           /\ asks'[cur'.ask].a = cur'.a /\ asks'[cur'.ask].stage = cur'.stage
                      ELSE cur'.choice = "once"
  BY DEF NoApprovalWithoutConsent
<1>1. CASE loop = "decide" /\ UNCHANGED loopVars
  <2>1. UNCHANGED <<loop, cur, asks>>
    BY <1>1 DEF loopVars, boardVars
  <2>2. QED
    BY <1>0, <1>1, <2>1 DEF NoApprovalWithoutConsent
<1>2. CASE OpenByPolicy
  BY <1>0, <1>2, PolicyDecides DEF OnceScoped
<1>3. ASSUME NEW j \in jobs, ReviewEnds(j)
      PROVE  cur'.by # "user" /\ cur'.choice = "once"
  BY <1>0, <1>3, ReviewDecides DEF OnceScoped, RejectLike, Approving
<1>4. ASSUME NEW q \in DOMAIN asks, CompleteFeedback(q)
      PROVE  FALSE
  BY <1>0, <1>4, FormDecides DEF Approving
<1>5. ASSUME NEW q \in DOMAIN asks, NEW c \in ChoiceClasses \cup {"none"}, CompletePermission(q, c)
      PROVE  /\ cur'.by = "user" /\ cur'.choice = cur'.pick
             /\ asks'[cur'.ask].a = cur'.a /\ asks'[cur'.ask].stage = cur'.stage
  <2>1. cur'.choice = cur'.pick
    BY <1>0, <1>5, UserDecides DEF Approving, RejectLike
  <2>2. asks[q].a = pending.a /\ asks[q].stage = pending.stage
    BY <1>0, <1>5, UserDecides DEF AskOf
  <2>3. asks'[q].a = asks[q].a /\ asks'[q].stage = asks[q].stage
    BY <1>0, <1>5, UserDecides, Settled
  <2>4. QED
    BY <1>0, <1>5, <2>1, <2>2, <2>3, UserDecides
<1>6. QED
  BY <1>0, <1>1, <1>2, <1>3, <1>4, <1>5, DecideSources

\* Nothing is approved without consent: an approving decision of the user is the
\* option picked on the prompt that showed this approval at this requirement, and
\* policy and the reviewer grant a single action at most (complete_permission,
\* complete_permission_feedback, command_prefix_choice, approve_once_choice).
THEOREM NoApprovalWithoutConsentHolds == Spec => []NoApprovalWithoutConsent
<1>1. Init => NoApprovalWithoutConsent
  BY DEF Init, NoApprovalWithoutConsent
<1>2. Screen /\ NoApprovalWithoutConsent /\ [Next]_vars => NoApprovalWithoutConsent'
  <2>1. ASSUME NoApprovalWithoutConsent, UNCHANGED vars PROVE NoApprovalWithoutConsent'
    BY <2>1 DEF NoApprovalWithoutConsent, vars, boardVars
  <2>2. QED
    BY <2>1, ConsentStep
<1>3. QED
  BY <1>1, <1>2, ScreenHolds, PTL DEF Spec
-----------------------------------------------------------------------------
(* One taker per requirement.                                                *)

Prompted(k) == pending # None /\ pending.a = k.a /\ pending.stage = k.stage
Deciding(k) == loop = "decide" /\ cur.a = k.a /\ cur.stage = k.stage

\* A requirement is before the user, with the reviewer, being decided or decided,
\* one of them at a time; whoever takes it is remembered in approval_seen.
OneTaker ==
    \A k \in Keys :
        /\ Prompted(k) \/ k \in jobs \/ Deciding(k) \/ sent[k] # 0 => k \in seen
        /\ sent[k] \in {0, 1}
        /\ sent[k] # 0 => ~Prompted(k) /\ k \notin jobs /\ ~Deciding(k)
        /\ ~(Prompted(k) /\ k \in jobs)
        /\ ~(Prompted(k) /\ Deciding(k))
        /\ ~(k \in jobs /\ Deciding(k))

\* A step that gives no requirement to anybody.
LEMMA NobodyTakes ==
    ASSUME OneTaker, sent' = sent, seen \subseteq seen', jobs' \subseteq jobs,
           \A k \in Keys : Prompted(k)' => Prompted(k),
           \A k \in Keys : Deciding(k)' => Deciding(k)
    PROVE  OneTaker'
BY DEF OneTaker

LEMMA KeyOf ==
    ASSUME NEW k \in Keys, NEW a, NEW s, k.a = a, k.stage = s
    PROVE  k = [a |-> a, stage |-> s]
BY DEF Keys

LEMMA TakerStep ==
    ASSUME Screen, OneTaker, Next
    PROVE  OneTaker'
<1> TypeOK /\ AskOf /\ BoardOK /\ MemoryOK /\ LoopOK
  BY DEF Screen, TypeOK
<1>1. CASE \/ OpenResolved \/ OpenDuplicate \/ OpenQueued \/ OpenNoChoices \/ PopQueued
           \/ SessionCancel \/ ToggleAutoReview \/ EventOpen \/ EventResolved \/ EventReviewing
           \/ EventTurnDone \/ Restart \/ RestartFails \/ (\E a \in Apps : ReconcileRow(a))
  <2>1. sent' = sent /\ seen \subseteq seen' /\ jobs' \subseteq jobs
    BY <1>1 DEF OpenResolved, OpenDuplicate, OpenQueued, OpenNoChoices, PopQueued, SessionCancel,
       ToggleAutoReview, EventOpen, EventResolved, EventReviewing, EventTurnDone, Restart,
       RestartFails, ReconcileRow, boardVars
  <2>2. pending' \in {None, pending}
    BY <1>1 DEF OpenResolved, OpenDuplicate, OpenQueued, OpenNoChoices, PopQueued, SessionCancel,
       ToggleAutoReview, EventOpen, EventResolved, EventReviewing, EventTurnDone, Restart,
       RestartFails, ReconcileRow, boardVars, KeptPerm, DropForm
  <2>3. loop' # "decide"
    BY <1>1 DEF OpenResolved, OpenDuplicate, OpenQueued, OpenNoChoices, PopQueued, SessionCancel,
       ToggleAutoReview, EventOpen, EventResolved, EventReviewing, EventTurnDone, Restart,
       RestartFails, ReconcileRow, Return, Take
  <2>4. QED
    BY <2>1, <2>2, <2>3, NobodyTakes DEF Prompted, Deciding
<1>2. CASE HostSteps
  <2>1. UNCHANGED <<sent, seen, jobs, pending, loop, cur>>
    BY <1>2, HostLeaves DEF loopVars, boardVars
  <2>2. QED
    BY <2>1, NobodyTakes DEF Prompted, Deciding
\* A requirement nobody took before goes to one of the three.
<1>3. ASSUME NEW k \in Keys, k \notin seen, seen' = seen \cup {k}, sent' = sent,
             jobs' \in {jobs, jobs \cup {k}},
             \A l \in Keys : l # k => (Prompted(l)' => Prompted(l)) /\ (Deciding(l)' => Deciding(l)),
             ~(Prompted(k)' /\ k \in jobs'), ~(Prompted(k)' /\ Deciding(k)'), ~(k \in jobs' /\ Deciding(k)')
      PROVE  OneTaker'
  <2>1. ~Prompted(k) /\ k \notin jobs /\ ~Deciding(k) /\ sent[k] = 0
    BY <1>3 DEF OneTaker
  <2>2. SUFFICES ASSUME NEW l \in Keys
                 PROVE  /\ Prompted(l)' \/ l \in jobs' \/ Deciding(l)' \/ sent'[l] # 0 => l \in seen'
                        /\ sent'[l] \in {0, 1}
                        /\ sent'[l] # 0 => ~Prompted(l)' /\ l \notin jobs' /\ ~Deciding(l)'
                        /\ ~(Prompted(l)' /\ l \in jobs')
                        /\ ~(Prompted(l)' /\ Deciding(l)')
                        /\ ~(l \in jobs' /\ Deciding(l)')
    BY DEF OneTaker
  <2>3. CASE l = k
    BY <1>3, <2>1, <2>3
  <2>4. CASE l # k
    BY <1>3, <2>4 DEF OneTaker
  <2>5. QED
    BY <2>3, <2>4
<1>4. CASE OpenByPolicy
  <2>1. Key \in Keys /\ loop = "open"
    BY <1>4, Opens DEF OpenByPolicy
  <2>2. UNCHANGED <<sent, pending, jobs>>
    BY <1>4 DEF OpenByPolicy
  <2>3. CASE Key \in seen
    <3>1. UNCHANGED seen /\ loop' # "decide"
      BY <1>4, <2>3 DEF OpenByPolicy, Return
    <3>2. QED
      BY <2>2, <3>1, NobodyTakes DEF Prompted, Deciding
  <2>4. CASE Key \notin seen
    <3>1. seen' = seen \cup {Key} /\ cur'.a = cur.a /\ cur'.stage = cur.stage
      BY <1>4, <2>4 DEF OpenByPolicy
    <3>2. ~Prompted(Key) /\ Key \notin jobs
      BY <2>1, <2>4 DEF OneTaker
    <3>3. \A l \in Keys : Prompted(l)' = Prompted(l)
      BY <2>2 DEF Prompted
    <3>4. \A l \in Keys : Deciding(l)' => l = Key
      BY <3>1, KeyOf DEF Deciding, Key
    <3> DEFINE k == Key
    <3>5. k \in Keys /\ k \notin seen /\ seen' = seen \cup {k} /\ ~Prompted(k) /\ k \notin jobs
          /\ (\A l \in Keys : Deciding(l)' => l = k)
      BY <2>1, <2>4, <3>1, <3>2, <3>4
    <3> HIDE DEF k
    <3>6. QED
      BY <1>3, <2>2, <3>3, <3>5
  <2>5. QED
    BY <2>3, <2>4
<1>5. CASE OpenForReview
  <2>1. Key \in Keys /\ loop = "open"
    BY <1>5, Opens DEF OpenForReview
  <2>2. UNCHANGED <<sent, pending>> /\ loop' # "decide" /\ seen' = seen \cup {Key}
        /\ jobs' = IF Key \in seen THEN jobs ELSE jobs \cup {Key}
    BY <1>5 DEF OpenForReview, Return
  <2>3. CASE Key \in seen
    BY <2>2, <2>3, NobodyTakes DEF Prompted, Deciding
  <2>4. CASE Key \notin seen
    <3>1. ~Prompted(Key)
      BY <2>1, <2>4 DEF OneTaker
    <3>2. \A l \in Keys : Prompted(l)' = Prompted(l) /\ ~Deciding(l)'
      BY <2>2 DEF Prompted, Deciding
    <3> DEFINE k == Key
    <3>3. k \in Keys /\ k \notin seen /\ seen' = seen \cup {k} /\ ~Prompted(k) /\ jobs' = jobs \cup {k}
      BY <2>1, <2>2, <2>4, <3>1
    <3> HIDE DEF k
    <3>4. QED
      BY <1>3, <2>2, <3>2, <3>3
  <2>5. QED
    BY <2>3, <2>4
<1>6. CASE OpenPrompt
  <2>1. Key \in Keys /\ Key \notin seen
    BY <1>6, Opens DEF OpenPrompt, Prompting, Duplicate
  <2>2. UNCHANGED <<sent, jobs>> /\ loop' # "decide" /\ seen' = seen \cup {Key}
        /\ pending'.a = cur.a /\ pending'.stage = cur.stage
    BY <1>6 DEF OpenPrompt, Return
  <2>3. \A l \in Keys : (Prompted(l)' => l = Key) /\ ~Deciding(l)'
    BY <2>2, KeyOf DEF Prompted, Deciding, Key
  <2>4. Key \notin jobs
    BY <2>1 DEF OneTaker
  <2> DEFINE k == Key
  <2>5. k \in Keys /\ k \notin seen /\ seen' = seen \cup {k} /\ k \notin jobs
        /\ (\A l \in Keys : (Prompted(l)' => l = k) /\ ~Deciding(l)')
    BY <2>1, <2>2, <2>3, <2>4
  <2> HIDE DEF k
  <2>6. QED
    BY <1>3, <2>2, <2>5
\* What was before the user or with the reviewer is decided.
<1>7. ASSUME NEW k \in Keys, UNCHANGED <<seen, sent>>, Prompted(k) \/ k \in jobs,
             jobs' \subseteq jobs, k \notin jobs',
             \A l \in Keys : Prompted(l)' => Prompted(l) /\ l # k,
             \A l \in Keys : Deciding(l)' => l = k
      PROVE  OneTaker'
  <2>1. SUFFICES ASSUME NEW l \in Keys
                 PROVE  /\ Prompted(l)' \/ l \in jobs' \/ Deciding(l)' \/ sent'[l] # 0 => l \in seen'
                        /\ sent'[l] \in {0, 1}
                        /\ sent'[l] # 0 => ~Prompted(l)' /\ l \notin jobs' /\ ~Deciding(l)'
                        /\ ~(Prompted(l)' /\ l \in jobs')
                        /\ ~(Prompted(l)' /\ Deciding(l)')
                        /\ ~(l \in jobs' /\ Deciding(l)')
    BY DEF OneTaker
  <2>2. CASE l = k
    BY <1>7, <2>2 DEF OneTaker
  <2>3. CASE l # k
    BY <1>7, <2>3 DEF OneTaker
  <2>4. QED
    BY <2>2, <2>3
<1>8. ASSUME pending # None, pending' = None, UNCHANGED <<seen, sent, jobs>>,
             loop' = "decide" => cur'.a = pending.a /\ cur'.stage = pending.stage
      PROVE  OneTaker'
  <2> DEFINE k == [a |-> pending.a, stage |-> pending.stage]
  <2>1. k \in Keys /\ k.a = pending.a /\ k.stage = pending.stage
    BY <1>8, Boards DEF Keys
  <2>2. Prompted(k)
    BY <1>8, <2>1 DEF Prompted
  <2>3. k \notin jobs
    BY <2>1, <2>2 DEF OneTaker
  <2>4. \A l \in Keys : ~Prompted(l)'
    BY <1>8 DEF Prompted
  <2>5. \A l \in Keys : Deciding(l)' => l = k
    BY <1>8, KeyOf DEF Deciding
  <2> HIDE DEF k
  <2>6. QED
    BY <1>7, <1>8, <2>1, <2>2, <2>3, <2>4, <2>5
<1>9. ASSUME NEW q \in DOMAIN asks, NEW c \in ChoiceClasses \cup {"none"}, CompletePermission(q, c)
      PROVE  OneTaker'
  <2>1. UNCHANGED <<seen, sent, jobs>> /\ loop = "idle"
    BY <1>9, Completes
  <2>2. CASE pending' = pending /\ UNCHANGED <<loop, cur>>
    BY <2>1, <2>2, NobodyTakes DEF Prompted, Deciding
  <2>3. CASE ~Unawaited(pending, q) /\ OfferPermissionFeedback(pending, q, c) /\ UNCHANGED <<loop, cur>>
    <3>1. pending \in Perms
      BY <2>3 DEF Unawaited, BoardOK
    <3>2. pending'.a = pending.a /\ pending'.stage = pending.stage /\ pending # None
      BY <2>3, <3>1 DEF OfferPermissionFeedback, Perms, Unawaited
    <3>3. QED
      BY <2>1, <2>3, <3>2, NobodyTakes DEF Prompted, Deciding
  <2>4. CASE ~Unawaited(pending, q) /\ pending' = None
    <3>1. pending # None
      BY <2>4 DEF Unawaited
    <3>2. loop' = "decide" => cur'.a = pending.a /\ cur'.stage = pending.stage
      BY <1>9, UserDecides
    <3>3. QED
      BY <1>8, <2>1, <2>4, <3>1, <3>2
  <2>5. QED
    BY <1>9, <2>2, <2>3, <2>4, Completes
<1>10. ASSUME NEW q \in DOMAIN asks, CompleteFeedback(q) PROVE OneTaker'
  <2>1. UNCHANGED <<seen, sent, jobs>>
    BY <1>10 DEF CompleteFeedback
  <2>2. CASE UNCHANGED <<loop, cur, pending>>
    BY <2>1, <2>2, NobodyTakes DEF Prompted, Deciding
  <2>3. CASE pending # None /\ pending' = None
    BY <1>8, <1>10, <2>1, <2>3, FormDecides
  <2>4. QED
    BY <1>10, <2>2, <2>3 DEF CompleteFeedback
<1>11. ASSUME NEW j \in jobs, ReviewEnds(j) PROVE OneTaker'
  <2>1. jobs' = jobs \ {j} /\ UNCHANGED <<seen, sent, pending>> /\ loop = "idle"
    BY <1>11 DEF ReviewEnds, boardVars
  <2>2. j \in Keys
    BY DEF MemoryOK
  <2>3. ~Prompted(j)
    BY <2>2 DEF OneTaker
  <2>4. \A l \in Keys : Prompted(l)' = Prompted(l)
    BY <2>1 DEF Prompted
  <2>5. \A l \in Keys : Deciding(l)' => l = j
    <3>1. loop' = "decide" => cur'.a = j.a /\ cur'.stage = j.stage
      BY <1>11, ReviewDecides
    <3>2. j = [a |-> j.a, stage |-> j.stage]
      BY <2>2, KeyOf
    <3>3. QED
      BY <3>1, <3>2, KeyOf DEF Deciding
  <2>6. QED
    BY <1>7, <2>1, <2>2, <2>3, <2>4, <2>5
<1>12. CASE SendDecision
  <2>1. /\ loop = "decide" /\ loop' = "pop" /\ UNCHANGED <<pending, jobs, seen>>
        /\ sent' = [sent EXCEPT ![Key] = sent[Key] + 1]
    BY <1>12 DEF SendDecision, boardVars
  <2>2. Key \in Keys
    BY <1>12, DecisionOnHost DEF Key, Keys
  <2>3. Deciding(Key)
    BY <2>1 DEF Deciding, Key
  <2> DEFINE k == Key
  <2>4. k \in Keys /\ Deciding(k) /\ sent' = [sent EXCEPT ![k] = sent[k] + 1]
    BY <2>1, <2>2, <2>3
  <2> HIDE DEF k
  <2>5. sent[k] = 0 /\ ~Prompted(k) /\ k \notin jobs /\ k \in seen
    BY <2>4 DEF OneTaker
  <2>6. \A l \in Keys : sent'[l] = IF l = k THEN 1 ELSE sent[l]
    BY <2>4, <2>5 DEF MemoryOK
  <2>7. \A l \in Keys : ~Deciding(l)' /\ Prompted(l)' = Prompted(l)
    BY <2>1 DEF Deciding, Prompted
  <2>8. SUFFICES ASSUME NEW l \in Keys
                 PROVE  /\ Prompted(l)' \/ l \in jobs' \/ Deciding(l)' \/ sent'[l] # 0 => l \in seen'
                        /\ sent'[l] \in {0, 1}
                        /\ sent'[l] # 0 => ~Prompted(l)' /\ l \notin jobs' /\ ~Deciding(l)'
                        /\ ~(Prompted(l)' /\ l \in jobs')
                        /\ ~(Prompted(l)' /\ Deciding(l)')
                        /\ ~(l \in jobs' /\ Deciding(l)')
    BY DEF OneTaker
  <2>9. CASE l = k
    BY <2>1, <2>5, <2>6, <2>7, <2>9
  <2>10. CASE l # k
    BY <2>1, <2>6, <2>7, <2>10 DEF OneTaker
  <2>11. QED
    BY <2>9, <2>10
<1>13. QED
  BY <1>1, <1>2, <1>4, <1>5, <1>6, <1>9, <1>10, <1>11, <1>12, NextCases DEF Quiet, Stops, HostSteps

LEMMA OneTakerHolds == Spec => []OneTaker
<1>1. Init => OneTaker
  BY DEF Init, OneTaker, Prompted, Deciding
<1>2. Screen /\ OneTaker /\ [Next]_vars => OneTaker'
  <2>1. ASSUME OneTaker, UNCHANGED vars PROVE OneTaker'
    <3>1. UNCHANGED <<sent, seen, jobs, pending, loop, cur>>
      BY <2>1 DEF vars, boardVars
    <3>2. QED
      BY <2>1, <3>1, NobodyTakes DEF Prompted, Deciding
  <2>2. QED
    BY <2>1, TakerStep
<1>3. QED
  BY <1>1, <1>2, ScreenHolds, PTL DEF Spec

\* However often the host reissues a requirement, and whichever of prompt, policy
\* and reviewer takes it, approval/decide is sent for it at most once
\* (open_approval's approval_seen, complete_permission, finish_review).
THEOREM DecidedOnceHolds == Spec => []DecidedOnce
<1>1. OneTaker => DecidedOnce
  BY DEF OneTaker, DecidedOnce
<1>2. QED
  BY <1>1, OneTakerHolds, PTL
-----------------------------------------------------------------------------
(* Terminal approvals.                                                       *)

\* While a policy decision is on its way nothing was resolved under it.
PolicyFresh == loop = "decide" /\ cur.by = "policy" => cur.a \notin resolved

LEMMA ResolvedGrows ==
    ASSUME TypeOK, Next
    PROVE  resolved \subseteq resolved'
<1> HostOK /\ MemoryOK
  BY DEF TypeOK
<1>1. CASE OpenResolved \/ OpenByPolicy \/ OpenForReview \/ OpenDuplicate \/ OpenQueued \/ OpenPrompt
           \/ OpenNoChoices
  <2>1. Opening
    BY <1>1 DEF OpenResolved, OpenByPolicy, OpenForReview, OpenDuplicate, OpenQueued, OpenPrompt,
       OpenNoChoices, Prompting
  <2>2. QED
    BY <2>1, Opens
<1>2. CASE EventReviewing \/ \E a \in Apps : ReconcileRow(a)
  <2>1. PICK l \in Learnt : resolved' = l[1]
    BY <1>2 DEF EventReviewing, ReconcileRow
  <2>2. QED
    BY <2>1, LearntIsTrue
<1>3. CASE EventResolved
  BY <1>3 DEF EventResolved
<1>4. CASE \/ PopQueued \/ ToggleAutoReview \/ RestartFails \/ SessionCancel \/ SendDecision
           \/ EventOpen \/ EventTurnDone \/ Restart \/ (\E q \in DOMAIN asks : CompleteFeedback(q))
           \/ (\E j \in jobs : ReviewEnds(j)) \/ HostSteps
           \/ \E q \in DOMAIN asks, c \in ChoiceClasses \cup {"none"} : CompletePermission(q, c)
  BY <1>4, HostLeaves, Completes
     DEF PopQueued, ToggleAutoReview, RestartFails, SessionCancel, SendDecision, EventOpen,
         EventTurnDone, Restart, CompleteFeedback, ReviewEnds, loopVars
<1>5. QED
  BY <1>1, <1>2, <1>3, <1>4, NextCases DEF Quiet, Stops, HostSteps

LEMMA PolicyStep ==
    ASSUME TypeOK, AskOf, PolicyFresh, Next
    PROVE  PolicyFresh'
<1> BoardOK
  BY DEF TypeOK
<1>0. SUFFICES ASSUME loop' = "decide", cur'.by = "policy" PROVE cur'.a \notin resolved'
  BY DEF PolicyFresh
<1>1. CASE loop = "decide" /\ UNCHANGED loopVars
  BY <1>0, <1>1 DEF PolicyFresh, loopVars
<1>2. CASE OpenByPolicy
  BY <1>0, <1>2, PolicyDecides
<1>3. QED
  BY <1>0, <1>1, <1>2, DecideSources, UserDecides, FormDecides, ReviewDecides

\* A terminal approval never reopens, however stale the copy that reissues it: it
\* gets no prompt, no review and no policy decision (open_approval, #238).
THEOREM ResolvedNeverReopensHolds == Spec => ResolvedNeverReopens
<1> DEFINE Step == \A a \in resolved :
          /\ \A q \in DOMAIN asks' \ DOMAIN asks :
                asks'[q].kind = "permission" => asks'[q].a # a
          /\ \A j \in jobs' \ jobs : j.a # a
          /\ (loop' = "decide" /\ cur'.by = "policy") => cur'.a # a
<1>1. Init => PolicyFresh
  BY DEF Init, PolicyFresh
<1>2. Screen /\ PolicyFresh /\ [Next]_vars => PolicyFresh'
  <2>1. ASSUME PolicyFresh, UNCHANGED vars PROVE PolicyFresh'
    BY <2>1 DEF PolicyFresh, vars
  <2>2. QED
    BY <2>1, PolicyStep DEF Screen
<1>3. ASSUME Screen, PolicyFresh, Next PROVE Step
  <2> TypeOK /\ AskOf /\ BoardOK /\ MemoryOK
    BY <1>3 DEF Screen, TypeOK
  <2>1. resolved \subseteq resolved' /\ PolicyFresh'
    BY <1>3, ResolvedGrows, PolicyStep
  <2>2. ASSUME NEW a \in resolved, NEW j \in jobs' \ jobs PROVE j.a # a
    <3>1. OpenForReview
      <4>1. CASE \/ OpenResolved \/ OpenByPolicy \/ OpenDuplicate \/ OpenQueued \/ OpenPrompt
                 \/ OpenNoChoices \/ PopQueued \/ ToggleAutoReview \/ RestartFails \/ SessionCancel
                 \/ SendDecision \/ EventOpen \/ EventResolved \/ EventReviewing \/ EventTurnDone
                 \/ Restart \/ (\E q \in DOMAIN asks : CompleteFeedback(q))
                 \/ (\E b \in Apps : ReconcileRow(b)) \/ (\E k \in jobs : ReviewEnds(k)) \/ HostSteps
                 \/ \E q \in DOMAIN asks, c \in ChoiceClasses \cup {"none"} : CompletePermission(q, c)
        <5>1. jobs' \subseteq jobs
          BY <4>1, HostLeaves, Completes
             DEF OpenResolved, OpenByPolicy, OpenDuplicate, OpenQueued, OpenPrompt, OpenNoChoices,
                 PopQueued, ToggleAutoReview, RestartFails, SessionCancel, SendDecision, EventOpen,
                 EventResolved, EventReviewing, EventTurnDone, Restart, CompleteFeedback,
                 ReconcileRow, ReviewEnds, loopVars
        <5>2. QED
          BY <2>2, <5>1
      <4>2. QED
        BY <1>3, <4>1, NextCases DEF Quiet, Stops, HostSteps
    <3>2. j = Key /\ cur.a \notin resolved'
      BY <2>2, <3>1 DEF OpenForReview
    <3>3. QED
      BY <2>1, <2>2, <3>2 DEF Key
  <2>3. ASSUME NEW a \in resolved, NEW q \in DOMAIN asks' \ DOMAIN asks, asks'[q].kind = "permission"
        PROVE  asks'[q].a # a
    <3>1. CASE OpenPrompt
      <4>1. cur.a \notin resolved' /\ cur.a \in Apps /\ cur.stage \in 1..Stages
            /\ asks' = Ask(KeptAsks, "permission", cur.a, cur.stage)
        BY <3>1, Opens DEF OpenPrompt, Prompting
      <4>2. KeptAsks \in Seq(Requests) /\ DOMAIN KeptAsks = 1 .. Len(asks) /\ Len(asks) \in Nat
            /\ DOMAIN asks = 1 .. Len(asks)
        BY <1>3, OpensBoard, Boards DEF Screen
      <4>3. "permission" \in {"permission", "form"}
        OBVIOUS
      <4>4. /\ DOMAIN asks' = 1 .. Len(asks) + 1
            /\ asks'[Len(asks) + 1].a = cur.a
        BY <4>1, <4>2, <4>3, Asked
      <4>5. q = Len(asks) + 1
        BY <4>2, <4>4
      <4>6. QED
        BY <2>1, <4>1, <4>4, <4>5
    <3>2. CASE ~OpenPrompt
      <4>1. DOMAIN asks' = DOMAIN asks \/ asks'[q].kind = "form"
        <5>1. CASE \/ OpenResolved \/ OpenByPolicy \/ OpenForReview \/ OpenQueued \/ PopQueued
                   \/ ToggleAutoReview \/ SendDecision \/ EventOpen \/ EventReviewing \/ Restart
                   \/ (\E b \in Apps : ReconcileRow(b)) \/ (\E k \in jobs : ReviewEnds(k)) \/ HostSteps
          BY <5>1, HostLeaves
             DEF OpenResolved, OpenByPolicy, OpenForReview, OpenQueued, PopQueued, ToggleAutoReview,
                 SendDecision, EventOpen, EventReviewing, Restart, ReconcileRow, ReviewEnds, loopVars,
                 boardVars
        <5>2. CASE OpenDuplicate \/ OpenNoChoices
          BY <1>3, <5>2, OpensBoard DEF OpenDuplicate, OpenNoChoices, Screen
        <5>3. CASE \/ SessionCancel \/ EventTurnDone \/ EventResolved \/ RestartFails
                   \/ (\E r \in DOMAIN asks : CompleteFeedback(r))
          <6>1. \E n \in Nat : asks' = asks \/ asks' = Settle(n)
            <7>1. CASE SessionCancel \/ EventTurnDone
              <8>1. asks' = asks \/ (pending # None /\ pending.form # NoForm /\ asks' = Settle(pending.form.ask))
                BY <7>1 DEF SessionCancel, EventTurnDone, DropForm
              <8>2. QED
                BY <8>1, Boards
            <7>2. CASE EventResolved \/ RestartFails
              <8>1. asks' = asks \/ (pending # None /\ asks' = Settle(ShownAsk(pending)))
                BY <7>2 DEF EventResolved, RestartFails, Displayed, Withdrawn
              <8>2. pending # None => ShownAsk(pending) \in Nat
                BY Boards DEF ShownAsk
              <8>3. QED
                BY <8>1, <8>2
            <7>3. CASE \E r \in DOMAIN asks : CompleteFeedback(r)
              BY <7>3, Boards DEF CompleteFeedback
            <7>4. QED
              BY <5>3, <7>1, <7>2, <7>3
          <6>2. \A n : DOMAIN Settle(n) = DOMAIN asks
            BY DEF Settle
          <6>3. QED
            BY <6>1, <6>2
        <5>4. ASSUME NEW r \in DOMAIN asks, NEW c \in ChoiceClasses \cup {"none"}, CompletePermission(r, c)
              PROVE  DOMAIN asks' = DOMAIN asks \/ asks'[q].kind = "form"
          <6>1. CASE asks' = Settle(r)
            BY <6>1, Settled
          <6>2. CASE ~Unawaited(pending, r) /\ OfferPermissionFeedback(pending, r, c)
            <7>1. pending.a \in Apps /\ pending.stage \in 1..Stages
              BY <6>2, Boards DEF Unawaited
            <7>2. asks' = Ask(Settle(r), "form", pending.a, pending.stage)
              BY <6>2 DEF OfferPermissionFeedback
            <7>3. Settle(r) \in Seq(Requests) /\ DOMAIN Settle(r) = 1 .. Len(asks) /\ Len(asks) \in Nat
                  /\ DOMAIN asks = 1 .. Len(asks)
              BY Settled, Boards
            <7>4. "form" \in {"permission", "form"}
              OBVIOUS
            <7>5. DOMAIN asks' = 1 .. Len(asks) + 1 /\ asks'[Len(asks) + 1].kind = "form"
              BY <7>1, <7>2, <7>3, <7>4, Asked
            <7>6. q = Len(asks) + 1
              BY <2>3, <7>3, <7>5
            <7>7. QED
              BY <7>5, <7>6
          <6>3. QED
            BY <5>4, <6>1, <6>2, Completes
        <5>5. QED
          BY <1>3, <3>2, <5>1, <5>2, <5>3, <5>4, NextCases DEF Quiet, Stops, HostSteps
      <4>2. "form" # "permission"
        OBVIOUS
      <4>3. QED
        BY <2>3, <4>1, <4>2
    <3>3. QED
      BY <3>1, <3>2
  <2>4. ASSUME NEW a \in resolved, loop' = "decide", cur'.by = "policy" PROVE cur'.a # a
    BY <2>1, <2>4 DEF PolicyFresh
  <2>5. QED
    BY <2>2, <2>3, <2>4
<1>4. Screen /\ PolicyFresh /\ [Next]_vars => [Step]_vars
  BY <1>3
<1>5. Spec => [][Step]_vars
  <2> HIDE DEF Step
  <2>1. QED
    BY <1>1, <1>2, <1>4, ScreenHolds, PTL DEF Spec
<1>6. QED
  BY <1>5 DEF ResolvedNeverReopens
-----------------------------------------------------------------------------
(* No approval is forgotten.                                                 *)

\* What the adapter has been told is true of the host.
Truth ==
    /\ resolved \subseteq hdone
    /\ \A i \in DOMAIN events : events[i].m = "resolved" => events[i].a \in hdone
    /\ \A i \in DOMAIN events : events[i].m = "turnDone" => turnOver
\* Until the host exits, nothing is reconciled.
Calm == crashes = 0 => up /\ attached /\ rows = {} /\ loop # "reconcile"

InQueue(k) == \E i \in DOMAIN queue : queue[i] = k
OnItsWay(k) == \E i \in DOMAIN events :
                  events[i].m = "open" /\ events[i].a = k.a /\ events[i].stage = k.stage
Arrived(k) == loop = "open" /\ cur.a = k.a /\ cur.stage = k.stage
\* The loop has read about the requirement and not settled what to do with it.
Holds(k) == Prompted(k) \/ InQueue(k) \/ Arrived(k)
\* The approval has got as far as k, and what is unread about it is not older.
Reached(k) ==
    /\ k.stage <= hstage[k.a]
    /\ \A j \in DOMAIN events :
          events[j].m = "open" /\ events[j].a = k.a => k.stage <= events[j].stage
EventsInOrder ==
    /\ \A i \in DOMAIN events : events[i].m = "open" => events[i].stage <= hstage[events[i].a]
    /\ \A i, j \in DOMAIN events :
          i < j /\ events[i].m = "open" /\ events[j].m = "open" /\ events[i].a = events[j].a
             => events[i].stage <= events[j].stage
\* Until the host exits, requirements reach the loop in their order.
InOrder ==
    crashes = 0 =>
        /\ EventsInOrder
        /\ \A k \in seen : k.stage <= hstage[k.a]
        /\ \A k \in Keys : Holds(k) => Reached(k)
        /\ loop = "open" => \A k \in Keys : 
              k.a = cur.a /\ (Prompted(k) \/ InQueue(k)) => k.stage <= cur.stage

AtWork == stopping = {} /\ ~turnOver /\ crashes = 0
InHand(k) == Prompted(k) \/ k \in jobs \/ Deciding(k)
Coming(k) == OnItsWay(k) \/ Arrived(k) \/ InQueue(k)
Cared(k) == InHand(k) \/ (k \notin seen /\ Coming(k))
\* While the turn is at work, somebody has each open approval or will hear of it.
Accounted ==
    AtWork => \A a \in Apps : Open(a) /\ Refusable(a) => Cared(Current(a))

\* What happens to the events of the host in one step.
LEMMA EventsForm ==
    ASSUME TypeOK, Next
    PROVE  \/ events' = events
           \/ (\E m \in {"open", "resolved", "reviewing", "turnDone"} : Take(m)) /\ UNCHANGED hostButEvents
           \/ \E e \in Happenings : /\ events' = Append(events, e)
                                    /\ e.m = "open" => e.a \in Apps /\ e.stage = hstage'[e.a]
                                    /\ e.m = "resolved" => e.a \in hdone'
                                    /\ e.m = "turnDone" => turnOver'
<1> HostOK
  BY DEF TypeOK
<1> DEFINE Added(e) == /\ events' = Append(events, e)
                       /\ e.m = "open" => e.a \in Apps /\ e.stage = hstage'[e.a]
                       /\ e.m = "resolved" => e.a \in hdone'
                       /\ e.m = "turnDone" => turnOver'
<1>1. CASE Quiet
  BY <1>1, QuietHost DEF hostVars
<1>2. CASE Stops
  BY <1>2, StopsHost
<1>3. CASE SendDecision
  <2>1. cur.a \in Apps /\ cur.stage \in 1..Stages
    BY <1>3, DecisionOnHost
  <2>2. CASE /\ Takes /\ hdone' = hdone \cup {cur.a} /\ hstage' = hstage
             /\ events' = Append(events, [m |-> "resolved", a |-> cur.a, stage |-> 0])
    <3>1. [m |-> "resolved", a |-> cur.a, stage |-> 0] \in Happenings
      BY <2>1 DEF Happenings
    <3>2. Added([m |-> "resolved", a |-> cur.a, stage |-> 0])
      BY <2>2
    <3>3. QED
      BY <3>1, <3>2
  <2>3. CASE /\ Takes /\ hdone' = hdone /\ cur.stage + 1 \in 1..Stages
             /\ hstage' = [hstage EXCEPT ![cur.a] = cur.stage + 1]
             /\ events' = Append(events, [m |-> "open", a |-> cur.a, stage |-> cur.stage + 1])
    <3>1. [m |-> "open", a |-> cur.a, stage |-> cur.stage + 1] \in Happenings
      BY <2>1, <2>3 DEF Happenings
    <3>2. Added([m |-> "open", a |-> cur.a, stage |-> cur.stage + 1])
      BY <2>1, <2>3 DEF HostOK
    <3>3. QED
      BY <3>1, <3>2
  <2>4. QED
    BY <1>3, <2>2, <2>3, DecisionOnHost
<1>4. CASE EventOpen \/ EventResolved \/ EventReviewing \/ EventTurnDone
  BY <1>4 DEF EventOpen, EventResolved, EventReviewing, EventTurnDone
<1>5. CASE Restart
  BY <1>5 DEF Restart
<1>6. ASSUME NEW a \in Apps, HostRequest(a)
      PROVE  \E e \in Happenings : Added(e)
  <2>0. 1 \in 1..Stages
    OBVIOUS
  <2>1. [m |-> "open", a |-> a, stage |-> 1] \in Happenings
    BY <2>0, HappeningsOf
  <2>2. hstage' = [hstage EXCEPT ![a] = 1] /\ events' = Append(events, [m |-> "open", a |-> a, stage |-> 1])
    BY <1>6 DEF HostRequest, Emit
  <2>4. hstage'[a] = 1
    BY <2>2 DEF HostOK
  <2>5. Added([m |-> "open", a |-> a, stage |-> 1])
    BY <2>2, <2>4
  <2>6. QED
    BY <2>1, <2>5
<1>7. ASSUME NEW a \in Apps, HostResolve(a)
      PROVE  \E e \in Happenings : Added(e)
  <2>0. hstage[a] \in 0..Stages
    BY DEF HostOK
  <2>1. CASE hdone' = hdone \cup {a} /\ events' = Append(events, [m |-> "resolved", a |-> a, stage |-> 0])
    <3>1. [m |-> "resolved", a |-> a, stage |-> 0] \in Happenings
      BY DEF Happenings
    <3>2. Added([m |-> "resolved", a |-> a, stage |-> 0])
      BY <2>1
    <3>3. QED
      BY <3>1, <3>2
  <2>2. CASE /\ hstage[a] < Stages /\ hstage' = [hstage EXCEPT ![a] = hstage[a] + 1]
             /\ events' = Append(events, [m |-> "open", a |-> a, stage |-> hstage[a] + 1])
    <3>1. hstage[a] + 1 \in 1..Stages
      BY <2>0, <2>2
    <3>2. [m |-> "open", a |-> a, stage |-> hstage[a] + 1] \in Happenings
      BY <3>1, HappeningsOf
    <3>3. Added([m |-> "open", a |-> a, stage |-> hstage[a] + 1])
      BY <2>2 DEF HostOK
    <3>4. QED
      BY <3>2, <3>3
  <2>3. QED
    BY <1>7, <2>1, <2>2 DEF HostResolve, Emit
<1>8. ASSUME NEW a \in Apps, NEW m \in {"open", "reviewing"}, HostReissue(a, m)
      PROVE  \E e \in Happenings : Added(e)
  <2>1. hstage[a] \in 1..Stages
    BY <1>8 DEF HostReissue, HostOK
  <2>2. [m |-> m, a |-> a, stage |-> hstage[a]] \in Happenings
    BY <2>1 DEF Happenings
  <2>3. Added([m |-> m, a |-> a, stage |-> hstage[a]])
    BY <1>8 DEF HostReissue, Emit
  <2>4. QED
    BY <2>2, <2>3
<1>9. CASE HostTurnEnds
  <2>1. [m |-> "turnDone"] \in Happenings
    BY DEF Happenings
  <2>2. Added([m |-> "turnDone"])
    BY <1>9 DEF HostTurnEnds, Emit
  <2>3. QED
    BY <2>1, <2>2
<1>10. CASE HostCrash
  BY <1>10 DEF HostCrash
<1>11. QED
  BY <1>1, <1>2, <1>3, <1>4, <1>5, <1>6, <1>7, <1>8, <1>9, <1>10, NextCases

\* An unread event was unread before, or says where its approval has got to.
LEMMA EventsFrom ==
    ASSUME TypeOK, Next, NEW j \in DOMAIN events'
    PROVE  \/ \E i \in DOMAIN events : events[i] = events'[j]
           \/ /\ events'[j].m = "open" => events'[j].a \in Apps /\ events'[j].stage = hstage'[events'[j].a]
              /\ events'[j].m = "resolved" => events'[j].a \in hdone'
              /\ events'[j].m = "turnDone" => turnOver'
<1> HostOK
  BY DEF TypeOK
<1>1. CASE events' = events
  BY <1>1
<1>2. ASSUME NEW m, Take(m) PROVE \E i \in DOMAIN events : events[i] = events'[j]
  BY <1>2, Taken
<1>3. ASSUME NEW e \in Happenings, events' = Append(events, e),
             e.m = "open" => e.a \in Apps /\ e.stage = hstage'[e.a],
             e.m = "resolved" => e.a \in hdone', e.m = "turnDone" => turnOver'
      PROVE  \/ \E i \in DOMAIN events : events[i] = events'[j]
             \/ /\ events'[j].m = "open" => events'[j].a \in Apps /\ events'[j].stage = hstage'[events'[j].a]
                /\ events'[j].m = "resolved" => events'[j].a \in hdone'
                /\ events'[j].m = "turnDone" => turnOver'
  <2>1. /\ Len(events) \in Nat /\ DOMAIN events = 1 .. Len(events)
        /\ DOMAIN events' = 1 .. Len(events) + 1
        /\ \A i \in DOMAIN events : events'[i] = events[i]
        /\ events'[Len(events) + 1] = e
    BY <1>3, Emitted
  <2>2. CASE j = Len(events) + 1
    BY <1>3, <2>1, <2>2
  <2>3. CASE j # Len(events) + 1
    <3>1. j \in DOMAIN events
      BY <2>1, <2>3
    <3>2. QED
      BY <2>1, <3>1
  <2>4. QED
    BY <2>2, <2>3
<1>4. QED
  BY <1>1, <1>2, <1>3, EventsForm

\* What the host has done stays done.
LEMMA HostGrows ==
    ASSUME TypeOK, Next
    PROVE  /\ hdone \subseteq hdone' /\ (turnOver => turnOver')
           /\ crashes' = 0 => crashes = 0 /\ ~HostCrash /\ stopping \subseteq stopping' /\ (up => up')
           /\ crashes \in Nat
<1>0. crashes \in Nat
  BY DEF TypeOK, HostOK
<1>1. CASE Quiet
  BY <1>0, <1>1, QuietHost DEF hostVars, HostCrash
<1>2. CASE Stops
  <2>1. ~HostCrash \/ crashes' = crashes + 1
    BY DEF HostCrash
  <2>2. crashes' = crashes /\ hdone' = hdone /\ turnOver' = turnOver /\ up' = up
    BY <1>2, StopsHost
  <2>3. stopping \subseteq stopping'
    BY <1>2, StopsHost
  <2>4. QED
    BY <1>0, <2>1, <2>2, <2>3
<1>3. CASE SendDecision
  BY <1>0, <1>3, DecisionOnHost DEF HostCrash
<1>4. CASE EventOpen \/ EventResolved \/ EventReviewing \/ EventTurnDone
  BY <1>0, <1>4 DEF EventOpen, EventResolved, EventReviewing, EventTurnDone, hostButEvents, HostCrash
<1>5. CASE Restart
  BY <1>0, <1>5 DEF Restart, HostCrash
<1>6. CASE \E a \in Apps : HostRequest(a) \/ HostResolve(a)
                           \/ \E m \in {"open", "reviewing"} : HostReissue(a, m)
  BY <1>0, <1>6 DEF HostRequest, HostResolve, HostReissue, HostCrash
<1>7. CASE HostTurnEnds
  BY <1>0, <1>7 DEF HostTurnEnds, HostCrash
<1>8. CASE HostCrash
  BY <1>0, <1>8 DEF HostCrash
<1>9. QED
  BY <1>1, <1>2, <1>3, <1>4, <1>5, <1>6, <1>7, <1>8, NextCases

LEMMA TruthStep ==
    ASSUME TypeOK, Truth, Next
    PROVE  Truth'
<1> HostOK /\ MemoryOK
  BY DEF TypeOK
<1>1. hdone \subseteq hdone' /\ (turnOver => turnOver')
  BY HostGrows
<1>2. resolved' \subseteq hdone'
  <2>1. CASE OpenResolved \/ OpenByPolicy \/ OpenForReview \/ OpenDuplicate \/ OpenQueued \/ OpenPrompt
             \/ OpenNoChoices
    <3>1. Opening
      BY <2>1 DEF OpenResolved, OpenByPolicy, OpenForReview, OpenDuplicate, OpenQueued, OpenPrompt,
         OpenNoChoices, Prompting
    <3>2. resolved' \subseteq resolved \cup hdone
      BY <3>1, Opens
    <3>3. QED
      BY <1>1, <3>2 DEF Truth
  <2>2. CASE EventReviewing \/ \E a \in Apps : ReconcileRow(a)
    <3>1. PICK l \in Learnt : resolved' = l[1]
      BY <2>2 DEF EventReviewing, ReconcileRow
    <3>2. QED
      BY <1>1, <3>1, LearntIsTrue DEF Truth
  <2>3. CASE EventResolved
    <3>1. Take("resolved") /\ resolved' = resolved \cup {Event.a}
      BY <2>3 DEF EventResolved
    <3>2. Event.a \in hdone
      BY <3>1, Taken DEF Truth
    <3>3. QED
      BY <1>1, <3>1, <3>2 DEF Truth
  <2>4. CASE \/ PopQueued \/ ToggleAutoReview \/ RestartFails \/ SessionCancel \/ SendDecision
             \/ EventOpen \/ EventTurnDone \/ Restart \/ (\E q \in DOMAIN asks : CompleteFeedback(q))
             \/ (\E j \in jobs : ReviewEnds(j)) \/ HostSteps
             \/ \E q \in DOMAIN asks, c \in ChoiceClasses \cup {"none"} : CompletePermission(q, c)
    <3>1. resolved' = resolved
      BY <2>4, HostLeaves, Completes
         DEF PopQueued, ToggleAutoReview, RestartFails, SessionCancel, SendDecision, EventOpen,
             EventTurnDone, Restart, CompleteFeedback, ReviewEnds, loopVars
    <3>2. QED
      BY <1>1, <3>1 DEF Truth
  <2>5. QED
    BY <2>1, <2>2, <2>3, <2>4, NextCases DEF Quiet, Stops, HostSteps
<1>3. ASSUME NEW j \in DOMAIN events'
      PROVE  /\ events'[j].m = "resolved" => events'[j].a \in hdone'
             /\ events'[j].m = "turnDone" => turnOver'
  BY <1>1, <1>3, EventsFrom DEF Truth
<1>4. QED
  BY <1>2, <1>3 DEF Truth

\* Before the host first exits there is nothing to recover.
LEMMA CalmStep ==
    ASSUME TypeOK, Calm, Next, crashes' = 0
    PROVE  /\ crashes = 0 /\ up /\ attached /\ rows = {} /\ loop # "reconcile"
           /\ up' /\ attached' /\ rows' = {} /\ loop' # "reconcile"
           /\ ~Restart /\ ~RestartFails /\ ~HostCrash /\ (\A a \in Apps : ~ReconcileRow(a))
<1>1. crashes = 0 /\ ~HostCrash /\ (up => up')
  BY HostGrows
<1>2. up /\ attached /\ rows = {} /\ loop # "reconcile"
  BY <1>1 DEF Calm
<1>3. ~Restart /\ ~RestartFails /\ \A a \in Apps : ~ReconcileRow(a)
  BY <1>2 DEF Restart, RestartFails, ReconcileRow
<1>4. attached' /\ rows' = {} /\ loop' # "reconcile"
  <2>1. CASE OpenResolved \/ OpenByPolicy \/ OpenForReview \/ OpenDuplicate \/ OpenQueued \/ OpenPrompt
             \/ OpenNoChoices \/ PopQueued
    BY <1>2, <2>1 DEF OpenResolved, OpenByPolicy, OpenForReview, OpenDuplicate, OpenQueued, OpenPrompt,
       OpenNoChoices, PopQueued, Return
  <2>2. CASE \/ ToggleAutoReview \/ SessionCancel \/ SendDecision \/ EventReviewing
             \/ EventOpen \/ EventTurnDone \/ EventResolved \/ (\E j \in jobs : ReviewEnds(j))
    BY <1>2, <2>2 DEF ToggleAutoReview, SessionCancel, SendDecision, EventReviewing, EventOpen,
       EventTurnDone, EventResolved, ReviewEnds
  <2>3. CASE \E q \in DOMAIN asks : CompleteFeedback(q)
    BY <1>2, <2>3 DEF CompleteFeedback, Decide
  <2>4. ASSUME NEW q \in DOMAIN asks, NEW c \in ChoiceClasses \cup {"none"}, CompletePermission(q, c)
        PROVE  attached' /\ rows' = {} /\ loop' # "reconcile"
    BY <1>2, <2>4 DEF CompletePermission, Decide
  <2>5. CASE HostSteps
    BY <1>2, <2>5, HostLeaves DEF loopVars
  <2>6. QED
    BY <1>1, <1>3, <2>1, <2>2, <2>3, <2>4, <2>5, NextCases DEF Quiet, Stops, HostSteps
<1>5. QED
  BY <1>1, <1>2, <1>3, <1>4

\* Where the loop can have a requirement from.
LEMMA PromptedFrom ==
    ASSUME TypeOK, Next, NEW k, Prompted(k)'
    PROVE  Prompted(k) \/ (OpenPrompt /\ Arrived(k))
<1> BoardOK
  BY DEF TypeOK
<1>1. CASE pending' \in {None, pending}
  BY <1>1 DEF Prompted
<1>2. CASE OpenPrompt
  BY <1>2 DEF OpenPrompt, Prompting, Opening, Prompted, Arrived
<1>3. CASE \/ OpenResolved \/ OpenByPolicy \/ OpenForReview \/ OpenDuplicate \/ OpenQueued \/ OpenNoChoices
           \/ PopQueued \/ SessionCancel \/ ToggleAutoReview \/ EventOpen \/ EventResolved \/ EventReviewing
           \/ EventTurnDone \/ Restart \/ RestartFails \/ SendDecision \/ HostSteps
           \/ (\E a \in Apps : ReconcileRow(a)) \/ (\E j \in jobs : ReviewEnds(j))
           \/ (\E q \in DOMAIN asks : CompleteFeedback(q))
  <2>1. pending' \in {None, pending}
    BY <1>3, HostLeaves DEF OpenResolved, OpenByPolicy, OpenForReview, OpenDuplicate, OpenQueued,
       OpenNoChoices, PopQueued, SessionCancel, ToggleAutoReview, EventOpen, EventResolved,
       EventReviewing, EventTurnDone, Restart, RestartFails, SendDecision, ReconcileRow, ReviewEnds,
       CompleteFeedback, boardVars, loopVars, KeptPerm, DropForm
  <2>2. QED
    BY <1>1, <2>1
<1>4. ASSUME NEW q \in DOMAIN asks, NEW c \in ChoiceClasses \cup {"none"}, CompletePermission(q, c)
      PROVE  Prompted(k) \/ (OpenPrompt /\ Arrived(k))
  <2>1. CASE ~Unawaited(pending, q) /\ OfferPermissionFeedback(pending, q, c)
    <3>1. pending \in Perms
      BY <2>1 DEF Unawaited, BoardOK
    <3>2. pending'.a = pending.a /\ pending'.stage = pending.stage /\ pending # None
      BY <2>1, <3>1 DEF OfferPermissionFeedback, Perms, Unawaited
    <3>3. QED
      BY <3>2 DEF Prompted
  <2>2. QED
    BY <1>1, <1>4, <2>1, Completes
<1>5. QED
  BY <1>2, <1>3, <1>4, NextCases DEF Quiet, Stops, HostSteps

LEMMA QueuedFrom ==
    ASSUME TypeOK, OneRow, Next, NEW k, InQueue(k)'
    PROVE  InQueue(k) \/ Arrived(k)
<1> BoardOK
  BY DEF TypeOK
<1>1. CASE UNCHANGED queue
  BY <1>1 DEF InQueue
<1>2. ASSUME NEW a, queue' = WithoutRow(a) PROVE InQueue(k)
  BY <1>2, RowGone DEF InQueue
<1>3. CASE OpenQueued
  <2> DEFINE w == KeptQueue
  <2>1. queue' = Append(w, Key) /\ w \in Seq(Keys) /\ Key \in Keys
    BY <1>3, RowGone, Opens DEF OpenQueued, Prompting, KeptQueue
  <2>2. \A i \in DOMAIN w : \E j \in DOMAIN queue : w[i] = queue[j]
    BY RowGone DEF KeptQueue
  <2> HIDE DEF w
  <2>3. \A i \in DOMAIN queue' : queue'[i] = Key \/ \E j \in DOMAIN w : queue'[i] = w[j]
    BY <2>1
  <2>4. Arrived(Key)
    BY <1>3 DEF OpenQueued, Prompting, Opening, Arrived, Key
  <2>5. QED
    BY <2>2, <2>3, <2>4 DEF InQueue
<1>4. CASE PopQueued
  <2>1. CASE queue # <<>> /\ queue' = Tail(queue)
    BY <2>1, QueueTail DEF InQueue
  <2>2. QED
    BY <1>1, <1>4, <2>1 DEF PopQueued
<1>5. CASE RestartFails
  BY <1>5 DEF RestartFails, InQueue
<1>6. CASE OpenPrompt \/ OpenNoChoices \/ EventResolved
  BY <1>2, <1>6 DEF OpenPrompt, OpenNoChoices, KeptQueue, EventResolved
<1>7. CASE \/ OpenResolved \/ OpenByPolicy \/ OpenForReview \/ OpenDuplicate \/ SendDecision
           \/ ToggleAutoReview \/ EventOpen \/ EventReviewing \/ EventTurnDone \/ SessionCancel \/ Restart
           \/ (\E a \in Apps : ReconcileRow(a)) \/ (\E j \in jobs : ReviewEnds(j)) \/ HostSteps
           \/ (\E q \in DOMAIN asks : CompleteFeedback(q))
           \/ \E q \in DOMAIN asks, c \in ChoiceClasses \cup {"none"} : CompletePermission(q, c)
  <2>1. UNCHANGED queue
    BY <1>7, HostLeaves, Completes DEF OpenResolved, OpenByPolicy, OpenForReview, OpenDuplicate,
       SendDecision, ToggleAutoReview, EventOpen, EventReviewing, EventTurnDone, SessionCancel,
       Restart, ReconcileRow, ReviewEnds, CompleteFeedback, loopVars, boardVars
  <2>2. QED
    BY <1>1, <2>1
<1>8. QED
  BY <1>3, <1>4, <1>5, <1>6, <1>7, NextCases DEF Quiet, Stops, HostSteps

\* Where an approval that is about to be opened comes from.
LEMMA OpenFrom ==
    ASSUME TypeOK, Next, loop' = "open"
    PROVE  \/ loop = "open" /\ UNCHANGED loopVars
           \/ EventOpen
           \/ /\ PopQueued /\ pending = None /\ queue # <<>> /\ queue' = Tail(queue) /\ pending' = pending
              /\ cur'.a = Head(queue).a /\ cur'.stage = Head(queue).stage
           \/ \E a \in Apps : ReconcileRow(a)
<1>0. Return => loop' # "open"
  BY DEF Return
<1>1. CASE OpenResolved \/ OpenForReview \/ OpenDuplicate \/ OpenQueued \/ OpenPrompt \/ OpenNoChoices
           \/ OpenByPolicy
  BY <1>0, <1>1 DEF OpenResolved, OpenForReview, OpenDuplicate, OpenQueued, OpenPrompt, OpenNoChoices,
     OpenByPolicy
<1>2. CASE PopQueued
  BY <1>0, <1>2 DEF PopQueued
<1>3. CASE \/ SendDecision \/ Restart \/ ToggleAutoReview \/ RestartFails \/ SessionCancel \/ EventReviewing
           \/ EventTurnDone \/ EventResolved \/ (\E j \in jobs : ReviewEnds(j))
           \/ (\E q \in DOMAIN asks : CompleteFeedback(q))
  BY <1>3 DEF SendDecision, Restart, ToggleAutoReview, RestartFails, SessionCancel, EventReviewing,
     EventTurnDone, EventResolved, ReviewEnds, CompleteFeedback, Decide, Take
<1>4. ASSUME NEW q \in DOMAIN asks, NEW c \in ChoiceClasses \cup {"none"}, CompletePermission(q, c)
      PROVE  FALSE
  BY <1>4, Completes DEF Decide
<1>5. CASE HostSteps
  <2>1. UNCHANGED loopVars
    BY <1>5, HostLeaves
  <2>2. QED
    BY <2>1 DEF loopVars
<1>6. QED
  BY <1>1, <1>2, <1>3, <1>4, <1>5, NextCases DEF Quiet, Stops, HostSteps

\* What approval_seen gains is the requirement being opened.
LEMMA SeenFrom ==
    ASSUME Next
    PROVE  /\ seen \subseteq seen'
           /\ seen' # seen => Opening /\ seen' = seen \cup {Key}
<1>1. CASE \/ OpenResolved \/ OpenForReview \/ OpenDuplicate \/ OpenQueued \/ OpenPrompt \/ OpenNoChoices
           \/ OpenByPolicy
  BY <1>1 DEF OpenResolved, OpenForReview, OpenDuplicate, OpenQueued, OpenPrompt, OpenNoChoices,
     OpenByPolicy, Prompting, boardVars
<1>2. CASE \/ PopQueued \/ ToggleAutoReview \/ RestartFails \/ SessionCancel \/ SendDecision
           \/ EventOpen \/ EventTurnDone \/ Restart \/ (\E q \in DOMAIN asks : CompleteFeedback(q))
           \/ (\E j \in jobs : ReviewEnds(j)) \/ HostSteps \/ EventReviewing \/ EventResolved
           \/ (\E a \in Apps : ReconcileRow(a))
           \/ \E q \in DOMAIN asks, c \in ChoiceClasses \cup {"none"} : CompletePermission(q, c)
  <2>1. seen' = seen
    BY <1>2, HostLeaves, Completes
       DEF PopQueued, ToggleAutoReview, RestartFails, SessionCancel, SendDecision, EventOpen,
           EventTurnDone, Restart, CompleteFeedback, ReviewEnds, EventReviewing, EventResolved,
           ReconcileRow, loopVars, boardVars
  <2>2. QED
    BY <2>1
<1>3. QED
  BY <1>1, <1>2, NextCases DEF Quiet, Stops, HostSteps

\* What was reached stays reached: later events say where the approval has got to.
LEMMA ReachedStays ==
    ASSUME TypeOK, Next, NEW k \in Keys, Reached(k)
    PROVE  Reached(k)'
<1>1. k.a \in Apps /\ k.stage \in Nat
  BY DEF Keys
<1>2. HostOK' /\ hstage'[k.a] >= hstage[k.a]
  BY <1>1, HostTyped
<1>3. hstage[k.a] \in Nat /\ hstage'[k.a] \in Nat
  BY <1>1, <1>2 DEF TypeOK, HostOK
<1>4. k.stage <= hstage'[k.a]
  BY <1>1, <1>2, <1>3 DEF Reached
<1>5. ASSUME NEW j \in DOMAIN events', events'[j].m = "open", events'[j].a = k.a
      PROVE  k.stage <= events'[j].stage
  BY <1>4, <1>5, EventsFrom DEF Reached
<1>6. QED
  BY <1>4, <1>5 DEF Reached

\* The events stay in the order of the requirements.
LEMMA OrderOfEvents ==
    ASSUME TypeOK, EventsInOrder, Next
    PROVE  EventsInOrder'
<1> HostOK
  BY DEF TypeOK
<1>0. HostOK' /\ \A a \in Apps : hstage'[a] >= hstage[a] /\ hstage[a] \in Nat /\ hstage'[a] \in Nat
  BY HostTyped DEF HostOK
<1>1. /\ DOMAIN events = 1 .. Len(events) /\ Len(events) \in Nat
      /\ \A i \in DOMAIN events : events[i] \in Happenings
  BY Elements DEF HostOK
<1>2. \A i \in DOMAIN events : events[i].m = "open" => events[i].a \in Apps /\ events[i].stage \in Nat
  BY <1>1 DEF Happenings
<1>3. ASSUME NEW i \in DOMAIN events', events'[i].m = "open"
      PROVE  events'[i].stage <= hstage'[events'[i].a]
  <2>1. CASE \E j \in DOMAIN events : events[j] = events'[i]
    BY <1>0, <1>2, <1>3, <2>1 DEF EventsInOrder
  <2>2. CASE events'[i].a \in Apps /\ events'[i].stage = hstage'[events'[i].a]
    BY <1>0, <2>2
  <2>3. QED
    BY <1>3, <2>1, <2>2, EventsFrom
<1> DEFINE Ordered == \A i, j \in DOMAIN events' :
          i < j /\ events'[i].m = "open" /\ events'[j].m = "open" /\ events'[i].a = events'[j].a
             => events'[i].stage <= events'[j].stage
<1>4. ASSUME events' = events PROVE Ordered
  BY <1>4 DEF EventsInOrder
<1>5. ASSUME NEW m, Take(m) PROVE Ordered
  <2>1. \A i \in DOMAIN events' : i \in Nat /\ i + 1 \in DOMAIN events /\ events'[i] = events[i + 1]
    BY <1>5, Taken
  <2>2. ASSUME NEW i \in DOMAIN events', NEW j \in DOMAIN events', i < j,
               events'[i].m = "open", events'[j].m = "open", events'[i].a = events'[j].a
        PROVE  events'[i].stage <= events'[j].stage
    <3>1. i + 1 < j + 1
      BY <2>1, <2>2
    <3>2. QED
      BY <2>1, <2>2, <3>1 DEF EventsInOrder
  <2>3. QED
    BY <2>2
<1>6. ASSUME NEW e \in Happenings, events' = Append(events, e),
             e.m = "open" => e.a \in Apps /\ e.stage = hstage'[e.a]
      PROVE  Ordered
  <2>1. /\ DOMAIN events' = 1 .. Len(events) + 1
        /\ \A i \in DOMAIN events : events'[i] = events[i]
        /\ events'[Len(events) + 1] = e
    BY <1>6, Emitted
  <2>2. ASSUME NEW i \in DOMAIN events', NEW j \in DOMAIN events', i < j,
               events'[i].m = "open", events'[j].m = "open", events'[i].a = events'[j].a
        PROVE  events'[i].stage <= events'[j].stage
    <3>1. i \in DOMAIN events /\ (j \in DOMAIN events \/ j = Len(events) + 1)
      BY <1>1, <2>1, <2>2
    <3>2. CASE j \in DOMAIN events
      BY <2>1, <2>2, <3>1, <3>2 DEF EventsInOrder
    <3>3. CASE j = Len(events) + 1
      <4>1. events'[j] = e /\ e.m = "open" /\ e.stage = hstage'[e.a]
        BY <1>6, <2>1, <2>2, <3>3
      <4>2. events'[i].stage <= hstage'[events'[i].a]
        BY <1>3, <2>2
      <4>3. QED
        BY <2>2, <4>1, <4>2
    <3>4. QED
      BY <3>1, <3>2, <3>3
  <2>3. QED
    BY <2>2
<1>7. Ordered
  <2>1. events' = events \/ (\E m \in {"open", "resolved", "reviewing", "turnDone"} : Take(m))
        \/ \E e \in Happenings : events' = Append(events, e)
                                 /\ (e.m = "open" => e.a \in Apps /\ e.stage = hstage'[e.a])
    BY EventsForm
  <2> HIDE DEF Ordered
  <2>2. CASE events' = events
    BY <1>4, <2>2
  <2>3. QED
    BY <1>5, <1>6, <2>1, <2>2
<1>8. QED
  BY <1>3, <1>7 DEF EventsInOrder

LEMMA OrderStep ==
    ASSUME Screen, Calm, InOrder, Next
    PROVE  InOrder'
<1> TypeOK /\ OneRow /\ HostOK /\ BoardOK
  BY DEF Screen, TypeOK
<1>0. SUFFICES ASSUME crashes' = 0
               PROVE  /\ EventsInOrder'
                      /\ \A k \in seen' : k.stage <= hstage'[k.a]
                      /\ \A k \in Keys : Holds(k)' => Reached(k)'
                      /\ loop' = "open" => \A k \in Keys :
                            k.a = cur'.a /\ (Prompted(k)' \/ InQueue(k)') => k.stage <= cur'.stage
  BY DEF InOrder
<1>1. /\ crashes = 0 /\ (\A a \in Apps : ~ReconcileRow(a))
  BY <1>0, CalmStep
<1>2. /\ EventsInOrder
      /\ \A k \in seen : k.stage <= hstage[k.a]
      /\ \A k \in Keys : Holds(k) => Reached(k)
      /\ loop = "open" => \A k \in Keys :
            k.a = cur.a /\ (Prompted(k) \/ InQueue(k)) => k.stage <= cur.stage
  BY <1>1 DEF InOrder
<1>3. EventsInOrder'
  BY <1>2, OrderOfEvents
<1>4. ASSUME NEW k \in seen' PROVE k.stage <= hstage'[k.a]
  <2>1. \A a \in Apps : hstage'[a] >= hstage[a] /\ hstage[a] \in Nat /\ hstage'[a] \in Nat
    BY HostTyped DEF HostOK
  <2>2. CASE k \in seen
    <3>1. k \in Keys
      BY <2>2 DEF BoardOK
    <3>2. k.a \in Apps /\ k.stage \in Nat
      BY <3>1 DEF Keys
    <3>3. QED
      BY <1>2, <2>1, <2>2, <3>2
  <2>3. CASE Opening /\ k = Key
    <3>1. loop = "open" /\ Key \in Keys /\ Key.a = cur.a /\ Key.stage = cur.stage /\ cur.a \in Apps
          /\ cur.stage \in Nat
      BY <2>3, Opens DEF Key
    <3>2. Holds(Key)
      BY <3>1 DEF Holds, Arrived
    <3>3. k.stage <= hstage[k.a]
      BY <1>2, <2>3, <3>1, <3>2 DEF Reached
    <3>4. QED
      BY <2>1, <2>3, <3>1, <3>3
  <2>4. QED
    BY <1>4, <2>2, <2>3, SeenFrom
\* The approval the loop takes from its events is the first of them.
<1>5. ASSUME EventOpen
      PROVE  /\ cur'.a = Event.a /\ cur'.stage = Event.stage /\ UNCHANGED <<pending, queue, hstage>>
             /\ Event.m = "open" /\ Event = events[1] /\ 1 \in DOMAIN events
             /\ \A i \in DOMAIN events' : /\ i + 1 \in DOMAIN events /\ events'[i] = events[i + 1]
                                          /\ 1 < i + 1
  <2>1. Take("open")
    BY <1>5 DEF EventOpen
  <2>2. cur'.a = Event.a /\ cur'.stage = Event.stage /\ UNCHANGED <<pending, queue, hstage>>
    BY <1>5 DEF EventOpen, boardVars, hostButEvents
  <2>3. QED
    BY <2>1, <2>2, Taken
<1>6. ASSUME NEW k \in Keys, Holds(k)' PROVE Reached(k)'
  <2>1. CASE Holds(k)
    BY <1>2, <2>1, ReachedStays
  <2>2. CASE EventOpen /\ Arrived(k)'
    <3>1. k.a = events[1].a /\ k.stage = events[1].stage /\ events[1].m = "open" /\ hstage' = hstage
          /\ 1 \in DOMAIN events
      BY <1>5, <2>2 DEF Arrived
    <3>2. k.stage <= hstage'[k.a]
      BY <1>2, <3>1 DEF EventsInOrder
    <3>3. ASSUME NEW j \in DOMAIN events', events'[j].m = "open", events'[j].a = k.a
          PROVE  k.stage <= events'[j].stage
      <4>1. j + 1 \in DOMAIN events /\ events'[j] = events[j + 1] /\ 1 < j + 1
        BY <1>5, <2>2
      <4>2. QED
        BY <1>2, <3>1, <3>3, <4>1 DEF EventsInOrder
    <3>4. QED
      BY <3>2, <3>3 DEF Reached
  <2>3. CASE Arrived(k)' /\ ~EventOpen
    <3>1. loop' = "open"
      BY <2>3 DEF Arrived
    <3>2. CASE loop = "open" /\ UNCHANGED loopVars
      <4>1. Arrived(k)
        BY <2>3, <3>2 DEF Arrived, loopVars
      <4>2. QED
        BY <2>1, <4>1 DEF Holds
    <3>3. CASE queue # <<>> /\ cur'.a = Head(queue).a /\ cur'.stage = Head(queue).stage
      <4>1. Head(queue) = queue[1] /\ 1 \in DOMAIN queue /\ Head(queue) \in Keys
        BY <3>3, QueueTail
      <4>2. k = Head(queue)
        <5>1. k.a = Head(queue).a /\ k.stage = Head(queue).stage
          BY <2>3, <3>3 DEF Arrived
        <5>2. QED
          BY <4>1, <5>1 DEF Keys
      <4>3. QED
        BY <2>1, <4>1, <4>2 DEF Holds, InQueue
    <3>4. QED
      BY <1>1, <2>3, <3>1, <3>2, <3>3, OpenFrom
  <2>4. CASE Prompted(k)' \/ InQueue(k)'
    BY <2>1, <2>4, PromptedFrom, QueuedFrom DEF Holds
  <2>5. QED
    BY <1>6, <2>2, <2>3, <2>4 DEF Holds
<1>7. ASSUME loop' = "open", NEW k \in Keys, k.a = cur'.a, Prompted(k)' \/ InQueue(k)'
      PROVE  k.stage <= cur'.stage
  <2>1. CASE loop = "open" /\ UNCHANGED loopVars
    <3>1. UNCHANGED <<loop, cur, pending, queue>>
      BY <2>1 DEF loopVars, boardVars
    <3>2. Prompted(k) \/ InQueue(k)
      BY <1>7, <3>1 DEF Prompted, InQueue
    <3>3. QED
      BY <1>2, <1>7, <2>1, <3>1, <3>2
  <2>2. CASE EventOpen
    <3>1. Prompted(k) \/ InQueue(k)
      BY <1>5, <1>7, <2>2 DEF Prompted, InQueue
    <3>2. Reached(k)
      BY <1>2, <3>1 DEF Holds
    <3>3. QED
      BY <1>5, <1>7, <2>2, <3>2 DEF Reached
  <2>3. CASE /\ pending = None /\ queue # <<>> /\ queue' = Tail(queue) /\ pending' = pending
             /\ cur'.a = Head(queue).a /\ cur'.stage = Head(queue).stage
    <3>1. ~Prompted(k)'
      BY <2>3 DEF Prompted
    <3>2. PICK i \in DOMAIN queue' : queue'[i] = k
      BY <1>7, <3>1 DEF InQueue
    <3>3. i + 1 \in DOMAIN queue /\ queue[i + 1] = k /\ i + 1 # 1 /\ Head(queue) = queue[1] /\ 1 \in DOMAIN queue
      BY <2>3, <3>2, QueueTail
    <3>4. FALSE
      BY <1>7, <2>3, <3>3 DEF OneRow
    <3>5. QED
      BY <3>4
  <2>4. QED
    BY <1>1, <1>7, <2>1, <2>2, <2>3, OpenFrom
<1>8. QED
  BY <1>3, <1>4, <1>6, <1>7
-----------------------------------------------------------------------------
\* An unread requirement stays unread until the loop opens it.
LEMMA StillOnItsWay ==
    ASSUME HostOK, NEW k, OnItsWay(k),
           \/ events' = events
           \/ \E e \in Happenings : events' = Append(events, e)
           \/ \E m \in {"resolved", "reviewing", "turnDone"} : Take(m)
    PROVE  OnItsWay(k)'
<1>1. PICK i \in DOMAIN events : events[i].m = "open" /\ events[i].a = k.a /\ events[i].stage = k.stage
  BY DEF OnItsWay
<1>2. CASE events' = events
  BY <1>1, <1>2 DEF OnItsWay
<1>3. ASSUME NEW e \in Happenings, events' = Append(events, e) PROVE OnItsWay(k)'
  <2>1. i \in DOMAIN events' /\ events'[i] = events[i]
    BY <1>3, Emitted
  <2>2. QED
    BY <1>1, <2>1 DEF OnItsWay
<1>4. ASSUME NEW m \in {"resolved", "reviewing", "turnDone"}, Take(m) PROVE OnItsWay(k)'
  <2>1. /\ Event = events[1] /\ Event.m = m /\ DOMAIN events = 1 .. Len(events) /\ Len(events) \in Nat
        /\ DOMAIN events' = 1 .. Len(events) - 1
        /\ \A j \in DOMAIN events' : events'[j] = events[j + 1]
    BY <1>4, Taken
  <2>2. i # 1 /\ i \in 1 .. Len(events) /\ Len(events) \in Nat
    BY <1>1, <1>4, <2>1
  <2> DEFINE n == Len(events)
  <2>6. n \in Nat /\ i \in 1 .. n /\ i # 1
    BY <2>2
  <2> HIDE DEF n
  <2>7. i - 1 \in 1 .. n - 1 /\ (i - 1) + 1 = i
    BY <2>6
  <2>3. i - 1 \in DOMAIN events' /\ (i - 1) + 1 = i
    BY <2>1, <2>7 DEF n
  <2>4. events'[i - 1] = events[i]
    BY <2>1, <2>3
  <2>5. QED
    BY <1>1, <2>3, <2>4 DEF OnItsWay
<1>5. QED
  BY <1>2, <1>3, <1>4

\* A step that takes nothing away from the requirement keeps it in somebody's care.
LEMMA StaysCared ==
    ASSUME NEW k, Cared(k), seen' = seen, UNCHANGED <<pending, queue, jobs, loop, cur>>,
           OnItsWay(k) => OnItsWay(k)'
    PROVE  Cared(k)'
BY DEF Cared, InHand, Coming, Prompted, Deciding, Arrived, InQueue

\* The seven ways through open_approval keep the requirement an approval has got
\* to: whatever they drop is older, or belongs to another approval.
LEMMA OpeningCares ==
    ASSUME Screen, Truth, InOrder, Calm, OpenApproval, Next, crashes' = 0, stopping' = {},
           NEW k \in Keys, k.stage = hstage[k.a], k.a \notin hdone, Refusable(k.a), Cared(k)
    PROVE  Cared(k)'
<1> TypeOK /\ OneRow /\ HostOK /\ BoardOK
  BY DEF Screen, TypeOK
<1>1. crashes = 0 /\ up
  BY CalmStep
<1>2. Opening /\ loop = "open"
  BY DEF OpenApproval, OpenResolved, OpenByPolicy, OpenForReview, OpenDuplicate, OpenQueued, OpenPrompt,
     OpenNoChoices, Prompting, Opening
<1>3. /\ cur.a \in Apps /\ cur.stage \in Nat /\ Key \in Keys /\ Key.a = cur.a /\ Key.stage = cur.stage
      /\ resolved' \subseteq resolved \cup hdone /\ k.a \in Apps /\ k.stage \in Nat
  BY <1>2, Opens DEF Key, Keys
<1>4. k.a \notin resolved'
  BY <1>3 DEF Truth
<1>5. k.a = cur.a => cur.stage <= k.stage
  <2>1. Holds(Key)
    BY <1>2, <1>3 DEF Holds, Arrived
  <2>2. Key.stage <= hstage[Key.a]
    BY <1>1, <1>3, <2>1 DEF InOrder, Reached
  <2>3. QED
    BY <1>3, <2>2
\* What the loop holds of this approval is this requirement.
<1>6. ASSUME k.a = cur.a, Prompted(k) \/ InQueue(k) PROVE k = Key
  <2>1. k.stage <= cur.stage
    BY <1>1, <1>2, <1>6 DEF InOrder
  <2>2. k.stage = cur.stage
    BY <1>3, <1>5, <1>6, <2>1
  <2>3. QED
    BY <1>6, <2>2, KeyOf DEF Key
<1>7. Arrived(k) => k = Key
  BY KeyOf DEF Arrived, Key
<1>8. UNCHANGED events /\ ~Deciding(k)
  <2>1. UNCHANGED events
    BY StopsHost, QuietHost DEF OpenApproval, Quiet, Stops, hostVars
  <2>2. QED
    BY <1>2, <2>1 DEF Deciding
<1>9. OnItsWay(k) => OnItsWay(k)'
  BY <1>8 DEF OnItsWay
<1>10. k # Key /\ k \notin seen => k \notin seen'
  BY SeenFrom
\* The displayed permission for this requirement is not withdrawn.
<1>11. Prompted(k) => ~Superseded /\ KeptPerm = pending /\ KeptPerm # None
  <2>1. Prompted(k) /\ Superseded => k = Key
    BY <1>6 DEF Prompted, Superseded, Displayed
  <2>2. Prompted(k) /\ k = Key => ~Superseded
    BY <1>3 DEF Prompted, Superseded
  <2>3. QED
    BY <2>1, <2>2 DEF KeptPerm, Prompted
\* The queue without the rows of the approval being opened.
<1>12. ASSUME InQueue(k), k # Key PROVE \E i \in DOMAIN KeptQueue : KeptQueue[i] = k
  <2>1. k.a # cur.a
    BY <1>6, <1>12
  <2>2. PICK j \in DOMAIN queue : queue[j] = k
    BY <1>12 DEF InQueue
  <2> DEFINE w == WithoutRow(cur.a)
  <2>3. \A l \in DOMAIN queue : queue[l].a # cur.a => \E i \in DOMAIN w : w[i] = queue[l]
    BY RowGone
  <2> HIDE DEF w
  <2>4. \E i \in DOMAIN w : w[i] = queue[j]
    BY <2>1, <2>2, <2>3
  <2>5. QED
    BY <2>2, <2>4 DEF KeptQueue, w
<1>13. CASE OpenResolved
  <2>1. ~Arrived(k) /\ cur.a # k.a
    BY <1>4, <1>13 DEF OpenResolved, Arrived
  <2>2. UNCHANGED <<pending, queue, seen, jobs>>
    BY <1>13 DEF OpenResolved, boardVars
  <2>3. QED
    BY <1>8, <1>9, <2>1, <2>2 DEF Cared, InHand, Coming, Prompted, InQueue
<1>14. CASE OpenByPolicy
  <2>1. UNCHANGED <<pending, queue, jobs>>
    BY <1>14 DEF OpenByPolicy
  <2>2. CASE k = Key /\ k \notin seen
    <3>1. loop' = "decide" /\ cur'.a = cur.a /\ cur'.stage = cur.stage
      BY <1>14, <2>2 DEF OpenByPolicy
    <3>2. QED
      BY <1>3, <2>2, <3>1 DEF Cared, InHand, Deciding
  <2>3. CASE ~(k = Key /\ k \notin seen)
    BY <1>7, <1>8, <1>9, <1>10, <2>1, <2>3 DEF Cared, InHand, Coming, Prompted, InQueue
  <2>4. QED
    BY <2>2, <2>3
<1>15. CASE OpenForReview
  <2>1. UNCHANGED <<pending, queue>> /\ jobs' = IF Key \in seen THEN jobs ELSE jobs \cup {Key}
    BY <1>15 DEF OpenForReview
  <2>2. CASE k = Key /\ k \notin seen
    BY <2>1, <2>2 DEF Cared, InHand
  <2>3. CASE ~(k = Key /\ k \notin seen)
    BY <1>7, <1>8, <1>9, <1>10, <2>1, <2>3 DEF Cared, InHand, Coming, Prompted, InQueue
  <2>4. QED
    BY <2>2, <2>3
<1>16. CASE OpenDuplicate
  <2>1. UNCHANGED <<queue, seen, jobs>> /\ pending' = KeptPerm
    BY <1>16 DEF OpenDuplicate
  <2>2. Prompted(k) => Prompted(k)'
    BY <1>11, <2>1 DEF Prompted
  <2>3. CASE k = Key /\ k \notin seen
    <3>1. Prompted(k) \/ InQueue(k)
      <4>1. (Displayed(cur.a) /\ pending.stage = cur.stage) \/ \E i \in DOMAIN queue : queue[i] = Key
        BY <1>16, <2>3 DEF OpenDuplicate, Duplicate
      <4>2. QED
        BY <1>3, <2>3, <4>1 DEF Prompted, Displayed, InQueue
    <3>2. QED
      BY <2>1, <2>2, <2>3, <3>1 DEF Cared, InHand, Coming, InQueue
  <2>4. CASE ~(k = Key /\ k \notin seen)
    BY <1>7, <1>8, <1>9, <2>1, <2>2, <2>4 DEF Cared, InHand, Coming, InQueue
  <2>5. QED
    BY <2>3, <2>4
<1>17. CASE OpenQueued
  <2>1. UNCHANGED <<pending, seen, jobs>> /\ queue' = Append(KeptQueue, Key)
    BY <1>17 DEF OpenQueued
  <2>2. KeptQueue \in Seq(Keys)
    BY RowGone DEF KeptQueue
  <2> DEFINE w == KeptQueue
  <2>3. queue' = Append(w, Key) /\ w \in Seq(Keys)
    BY <2>1, <2>2
  <2>4. k # Key /\ InQueue(k) => \E i \in DOMAIN w : w[i] = k
    BY <1>12
  <2> HIDE DEF w
  <2>5. /\ \A i \in DOMAIN w : i \in DOMAIN queue' /\ queue'[i] = w[i]
        /\ Len(w) + 1 \in DOMAIN queue' /\ queue'[Len(w) + 1] = Key
    BY <1>3, <2>3
  <2>6. InQueue(k) \/ k = Key => InQueue(k)'
    BY <2>4, <2>5 DEF InQueue
  <2>7. QED
    BY <1>7, <1>8, <1>9, <2>1, <2>6 DEF Cared, InHand, Coming, Prompted
<1>18. CASE OpenPrompt
  <2>1. /\ UNCHANGED jobs /\ queue' = KeptQueue /\ KeptPerm = None
        /\ pending' = [ask |-> Len(asks) + 1, a |-> cur.a, stage |-> cur.stage, form |-> NoForm]
    BY <1>18 DEF OpenPrompt
  <2>2. ~Prompted(k)
    BY <1>11, <2>1
  <2>3. CASE k = Key
    <3>1. Len(asks) + 1 # 0
      BY Boards
    <3>2. pending' # None /\ pending'.a = k.a /\ pending'.stage = k.stage
      BY <1>3, <2>1, <2>3, <3>1 DEF None
    <3>3. QED
      BY <3>2 DEF Cared, InHand, Prompted
  <2>4. CASE k # Key
    BY <1>7, <1>8, <1>9, <1>10, <1>12, <2>1, <2>2, <2>4 DEF Cared, InHand, Coming, InQueue
  <2>5. QED
    BY <2>3, <2>4
<1>19. CASE OpenNoChoices
  <2>1. /\ UNCHANGED jobs /\ queue' = KeptQueue /\ KeptPerm = None /\ Offers[cur.a] = {}
        /\ FailClosed(cur.a)
    BY <1>19 DEF OpenNoChoices
  <2>2. cur.a # k.a
    <3>1. cur.a \in Child
      BY <1>1, <2>1, FailClosedStops
    <3>2. ~Refusable(cur.a)
      BY <2>1, <3>1 DEF Refusable
    <3>3. QED
      BY <3>2
  <2>3. ~Prompted(k) /\ k # Key
    BY <1>3, <1>11, <2>1, <2>2
  <2>4. QED
    BY <1>7, <1>8, <1>9, <1>10, <1>12, <2>1, <2>3 DEF Cared, InHand, Coming, InQueue
<1>20. QED
  BY <1>13, <1>14, <1>15, <1>16, <1>17, <1>18, <1>19 DEF OpenApproval

\* Nor does any other step lose the requirement an open approval has got to.
LEMMA CareStep ==
    ASSUME Screen, Truth, InOrder, Calm, Next, crashes' = 0, stopping' = {}, ~turnOver,
           NEW k \in Keys, k.stage = hstage[k.a], hstage'[k.a] = hstage[k.a], hstage[k.a] > 0,
           k.a \notin hdone', Refusable(k.a), Cared(k)
    PROVE  Cared(k)'
<1> TypeOK /\ OneRow /\ AskOf /\ HostOK /\ BoardOK /\ LoopOK /\ MemoryOK
  BY DEF Screen, TypeOK
<1>1. /\ crashes = 0 /\ up /\ attached
      /\ ~Restart /\ ~RestartFails /\ ~HostCrash /\ (\A a \in Apps : ~ReconcileRow(a))
  BY CalmStep
<1>2. k.a \notin hdone /\ k.a \in Apps /\ k.stage \in 1..Stages
  BY HostGrows DEF Keys
<1>3. \A j \in Keys : j.a = k.a /\ j.stage = k.stage => j = k
  BY DEF Keys
<1>4. CASE OpenApproval
  BY <1>2, <1>4, OpeningCares
<1>5. CASE HostSteps
  <2>1. UNCHANGED <<pending, queue, seen, jobs, loop, cur>>
    BY <1>5, HostLeaves DEF loopVars, boardVars
  <2>2. events' = events \/ \E e \in Happenings : events' = Append(events, e)
    <3>1. ~Take("open") /\ \A m : ~Take(m)
      <4>1. CASE events = <<>>
        BY <4>1 DEF Take
      <4>2. CASE events # <<>>
        <5>1. Len(events') >= Len(events)
          <6>1. events' = events \/ \E e : events' = Append(events, e)
            BY <1>1, <1>5 DEF HostSteps, HostRequest, HostResolve, HostReissue, HostTurnEnds, Emit
          <6>2. \A e : Len(Append(events, e)) = Len(events) + 1
            BY DEF HostOK
          <6>3. Len(events) \in Nat
            BY DEF HostOK
          <6>4. QED
            BY <6>1, <6>2, <6>3
        <5>2. Len(Tail(events)) = Len(events) - 1 /\ Len(events) \in Nat
          BY <4>2 DEF HostOK
        <5>3. QED
          BY <5>1, <5>2 DEF Take
      <4>3. QED
        BY <4>1, <4>2
    <3>2. QED
      BY <3>1, EventsForm
  <2>3. OnItsWay(k) => OnItsWay(k)'
    BY <2>2, StillOnItsWay
  <2>4. QED
    BY <2>1, <2>3, StaysCared
<1>6. CASE SendDecision
  <2>1. loop = "decide" /\ UNCHANGED <<pending, queue, seen, jobs>> /\ loop' = "pop"
    BY <1>6 DEF SendDecision, boardVars
  <2>2. ~Deciding(k)
    <3>1. Deciding(k) => Takes
      BY <1>1, <1>2 DEF Deciding, Takes, Open
    <3>2. ASSUME Deciding(k) PROVE FALSE
      <4>1. Takes /\ cur.a = k.a /\ cur.stage = k.stage
        BY <3>1, <3>2 DEF Deciding
      <4>2. hdone' = hdone \cup {k.a} \/ hstage' = [hstage EXCEPT ![k.a] = k.stage + 1]
        BY <1>6, <4>1, DecisionOnHost
      <4>3. hstage' = [hstage EXCEPT ![k.a] = k.stage + 1] => hstage'[k.a] = k.stage + 1
        BY <1>2 DEF HostOK
      <4>4. k.stage + 1 # k.stage
        BY <1>2
      <4>5. QED
        BY <4>2, <4>3, <4>4
    <3>3. QED
      BY <3>2
  <2>3. events' = events \/ \E e \in Happenings : events' = Append(events, e)
    <3>1. cur.a \in Apps /\ cur.stage \in 1..Stages
      BY <1>6, DecisionOnHost
    <3>2. [m |-> "resolved", a |-> cur.a, stage |-> 0] \in Happenings
      BY <3>1 DEF Happenings
    <3>3. cur.stage + 1 \in 1..Stages => [m |-> "open", a |-> cur.a, stage |-> cur.stage + 1] \in Happenings
      BY <3>1, HappeningsOf
    <3>4. QED
      BY <1>6, <3>2, <3>3, DecisionOnHost
  <2>4. OnItsWay(k) => OnItsWay(k)'
    BY <2>3, StillOnItsWay
  <2>5. ~Arrived(k)
    BY <2>1 DEF Arrived
  <2>6. QED
    BY <2>1, <2>2, <2>4, <2>5 DEF Cared, InHand, Coming, Prompted, InQueue
<1>7. CASE PopQueued
  <2>1. loop = "pop" /\ UNCHANGED <<pending, seen, jobs, events>>
    BY <1>7 DEF PopQueued, hostVars
  <2>2. OnItsWay(k) => OnItsWay(k)'
    BY <2>1 DEF OnItsWay
  <2>3. InQueue(k) => InQueue(k)' \/ Arrived(k)'
    <3>1. CASE /\ queue # <<>> /\ loop' = "open" /\ queue' = Tail(queue)
               /\ cur' = [by |-> "open", a |-> Head(queue).a, stage |-> Head(queue).stage]
      <4>1. ASSUME NEW i \in DOMAIN queue, queue[i] = k, i # 1 PROVE InQueue(k)'
        <5>1. /\ Len(queue) \in Nat /\ DOMAIN queue = 1 .. Len(queue) /\ queue \in Seq(Keys)
          BY Boards DEF BoardOK
        <5>2. /\ DOMAIN queue' = 1 .. Len(queue) - 1
              /\ \A j \in 1 .. Len(queue) - 1 : queue'[j] = queue[j + 1]
          BY <3>1, <5>1
        <5>3. i - 1 \in 1 .. Len(queue) - 1 /\ (i - 1) + 1 = i
          BY <4>1, <5>1
        <5>4. queue'[i - 1] = k
          BY <4>1, <5>2, <5>3
        <5>5. QED
          BY <5>2, <5>3, <5>4 DEF InQueue
      <4>2. queue[1] = k => Arrived(k)'
        BY <3>1, QueueTail DEF Arrived
      <4>3. QED
        BY <4>1, <4>2 DEF InQueue
    <3>2. QED
      BY <1>7, <3>1 DEF PopQueued, InQueue
  <2>4. ~Arrived(k) /\ ~Deciding(k)
    BY <2>1 DEF Arrived, Deciding
  <2>5. QED
    BY <2>1, <2>2, <2>3, <2>4 DEF Cared, InHand, Coming, Prompted
<1>8. CASE EventOpen
  <2>1. Take("open") /\ UNCHANGED <<pending, queue, seen, jobs>> /\ loop = "idle"
        /\ loop' = "open" /\ cur'.a = Event.a /\ cur'.stage = Event.stage
    BY <1>8 DEF EventOpen, boardVars, Take
  <2>2. ASSUME OnItsWay(k) PROVE OnItsWay(k)' \/ Arrived(k)'
    <3>1. PICK i \in DOMAIN events : events[i].m = "open" /\ events[i].a = k.a /\ events[i].stage = k.stage
      BY <2>2 DEF OnItsWay
    <3> DEFINE n == Len(events)
    <3>2. /\ Event = events[1] /\ n \in Nat /\ i \in 1 .. n
          /\ DOMAIN events' = 1 .. n - 1
          /\ \A j \in DOMAIN events' : events'[j] = events[j + 1]
      BY <2>1, <3>1, Taken
    <3> HIDE DEF n
    <3>3. CASE i = 1
      BY <2>1, <3>1, <3>2, <3>3 DEF Arrived
    <3>4. CASE i # 1
      <4>1. i - 1 \in 1 .. n - 1 /\ (i - 1) + 1 = i
        BY <3>2, <3>4
      <4>2. events'[i - 1] = events[i] /\ i - 1 \in DOMAIN events'
        BY <3>2, <4>1
      <4>3. QED
        BY <3>1, <4>2 DEF OnItsWay
    <3>5. QED
      BY <3>3, <3>4
  <2>3. ~Arrived(k) /\ ~Deciding(k)
    BY <2>1 DEF Arrived, Deciding
  <2>4. QED
    BY <2>1, <2>2, <2>3 DEF Cared, InHand, Coming, Prompted, InQueue
<1>9. CASE EventResolved
  <2>1. /\ Take("resolved") /\ loop = "idle" /\ seen' = seen /\ cur' = cur
        /\ queue' = WithoutRow(Event.a) /\ \A j \in jobs : j.a # Event.a => j \in jobs'
        /\ Displayed(Event.a) \/ pending' = pending
    BY <1>9 DEF EventResolved, Take
  <2>2. Event.a \in hdone
    BY <2>1, Taken DEF Truth
  <2>3. k.a # Event.a
    BY <1>2, <2>2
  <2>4. Prompted(k) => Prompted(k)'
    BY <2>1, <2>3 DEF Prompted, Displayed
  <2>5. ASSUME InQueue(k) PROVE InQueue(k)'
    <3>1. PICK j \in DOMAIN queue : queue[j] = k
      BY <2>5 DEF InQueue
    <3> DEFINE w == WithoutRow(Event.a)
    <3>2. \A l \in DOMAIN queue : queue[l].a # Event.a => \E i \in DOMAIN w : w[i] = queue[l]
      BY RowGone
    <3>3. queue' = w
      BY <2>1
    <3> HIDE DEF w
    <3>4. \E i \in DOMAIN w : w[i] = k
      BY <2>3, <3>1, <3>2
    <3>5. QED
      BY <3>3, <3>4 DEF InQueue
  <2>6. OnItsWay(k) => OnItsWay(k)'
    BY <2>1, StillOnItsWay
  <2>7. ~Arrived(k) /\ ~Deciding(k)
    BY <2>1 DEF Arrived, Deciding
  <2>8. k \in jobs => k \in jobs'
    BY <2>1, <2>3
  <2>9. QED
    BY <2>1, <2>4, <2>5, <2>6, <2>7, <2>8 DEF Cared, InHand, Coming
<1>10. CASE EventReviewing
  <2>1. Take("reviewing") /\ UNCHANGED <<pending, queue, seen, jobs, loop, cur>>
    BY <1>10 DEF EventReviewing, boardVars
  <2>2. QED
    BY <2>1, StillOnItsWay, StaysCared
<1>11. CASE EventTurnDone
  <2>1. Take("turnDone")
    BY <1>11 DEF EventTurnDone
  <2>2. turnOver
    BY <2>1, Taken DEF Truth
  <2>3. QED
    BY <2>2
<1>12. CASE SessionCancel
  BY <1>1, <1>12 DEF SessionCancel
<1>13. CASE ToggleAutoReview
  <2>1. UNCHANGED <<pending, queue, seen, jobs, loop, cur, events>>
    BY <1>13 DEF ToggleAutoReview, boardVars, hostVars
  <2>2. OnItsWay(k) => OnItsWay(k)'
    BY <2>1 DEF OnItsWay
  <2>3. QED
    BY <2>1, <2>2, StaysCared
\* What the user answers is decided, or the owner of what cannot be is stopped.
<1>14. ASSUME NEW q \in DOMAIN asks, NEW c \in ChoiceClasses \cup {"none"}, CompletePermission(q, c)
       PROVE  Cared(k)'
  <2>1. UNCHANGED <<queue, seen, jobs>> /\ loop = "idle"
    BY <1>14, Completes
  <2>2. UNCHANGED events
    BY <1>14, StopsHost DEF Stops
  <2>3. ~Arrived(k) /\ ~Deciding(k)
    BY <2>1 DEF Arrived, Deciding
  <2>4. Prompted(k) => Prompted(k)' \/ Deciding(k)'
    <3>1. CASE pending' = pending
      BY <3>1 DEF Prompted
    <3>2. CASE ~Unawaited(pending, q) /\ OfferPermissionFeedback(pending, q, c)
      <4>1. pending \in Perms
        BY <3>2 DEF Unawaited, BoardOK
      <4>2. pending'.a = pending.a /\ pending'.stage = pending.stage /\ pending'.ask = pending.ask
            /\ pending.ask # 0
        BY <3>2, <4>1 DEF OfferPermissionFeedback, Perms
      <4>3. pending' # None
        BY <4>2 DEF None
      <4>4. QED
        BY <4>2, <4>3 DEF Prompted
    <3>3. CASE \E d \in ChoiceClasses : Decide(pending, d, q, c)
      BY <3>3 DEF Decide, Prompted, Deciding
    <3>4. CASE Offers[pending.a] \cap RejectLike = {} /\ FailClosed(pending.a)
      <4>1. pending.a \in Child
        BY <1>1, <3>4, FailClosedStops
      <4>2. ~Refusable(pending.a)
        BY <3>4, <4>1 DEF Refusable
      <4>3. QED
        BY <4>2 DEF Prompted
    <3>5. QED
      BY <1>14, <3>1, <3>2, <3>3, <3>4, Completes
  <2>5. QED
    BY <2>1, <2>2, <2>3, <2>4 DEF Cared, InHand, Coming, OnItsWay, InQueue
<1>15. ASSUME NEW q \in DOMAIN asks, CompleteFeedback(q)
       PROVE  Cared(k)'
  <2>1. UNCHANGED <<queue, seen, jobs, events>> /\ loop = "idle"
    BY <1>15 DEF CompleteFeedback, hostVars
  <2>2. Prompted(k) => Prompted(k)' \/ Deciding(k)'
    BY <1>15 DEF CompleteFeedback, Decide, Prompted, Deciding
  <2>3. ~Arrived(k) /\ ~Deciding(k)
    BY <2>1 DEF Arrived, Deciding
  <2>4. QED
    BY <2>1, <2>2, <2>3 DEF Cared, InHand, Coming, OnItsWay, InQueue
<1>16. ASSUME NEW j \in jobs, ReviewEnds(j)
       PROVE  Cared(k)'
  <2>1. UNCHANGED <<pending, queue, seen>> /\ jobs' = jobs \ {j} /\ loop = "idle"
    BY <1>16 DEF ReviewEnds, boardVars
  <2>2. UNCHANGED events
    BY <1>16, StopsHost DEF Stops
  <2>3. ~Arrived(k) /\ ~Deciding(k)
    BY <2>1 DEF Arrived, Deciding
  <2>4. k = j => Deciding(k)'
    <3>1. CASE k.a \in resolved
      BY <1>2, <3>1 DEF Truth
    <3>2. CASE loop' = "decide"
      BY <1>16, <3>2, ReviewDecides DEF Deciding
    <3>3. CASE Offers[j.a] \cap RejectLike = {} /\ FailClosed(j.a)
      <4>1. j.a \in Child
        BY <1>1, <3>3, FailClosedStops
      <4>2. ~Refusable(j.a)
        BY <3>3, <4>1 DEF Refusable
      <4>3. QED
        BY <4>2
    <3>4. j.a \in resolved \/ loop' = "decide" \/ (Offers[j.a] \cap RejectLike = {} /\ FailClosed(j.a))
      BY <1>16 DEF ReviewEnds
    <3>5. QED
      BY <3>1, <3>2, <3>3, <3>4
  <2>5. QED
    BY <2>1, <2>2, <2>3, <2>4 DEF Cared, InHand, Coming, OnItsWay, InQueue, Prompted
<1>17. QED
  BY <1>1, <1>4, <1>5, <1>6, <1>7, <1>8, <1>9, <1>10, <1>11, <1>12, <1>13, <1>14, <1>15, <1>16, NextCases
     DEF Quiet, Stops, HostSteps, OpenApproval

\* An approval gets to a further requirement by saying so.
LEMMA Advances ==
    ASSUME TypeOK, Next, NEW a \in Apps, hstage'[a] # hstage[a]
    PROVE  /\ seen' = seen
           /\ \E i \in DOMAIN events' :
                 events'[i].m = "open" /\ events'[i].a = a /\ events'[i].stage = hstage'[a]
<1> HostOK
  BY DEF TypeOK
<1> DEFINE Says == \E i \in DOMAIN events' :
                 events'[i].m = "open" /\ events'[i].a = a /\ events'[i].stage = hstage'[a]
<1>1. ASSUME NEW s \in 1..Stages, hstage'[a] = s, events' = Append(events, [m |-> "open", a |-> a, stage |-> s])
      PROVE  Says
  <2> DEFINE e == [m |-> "open", a |-> a, stage |-> s]
  <2>1. e \in Happenings /\ e.m = "open" /\ e.a = a /\ e.stage = s
    BY HappeningsOf
  <2>2. events' = Append(events, e)
    BY <1>1
  <2> HIDE DEF e
  <2>3. Len(events) + 1 \in DOMAIN events' /\ events'[Len(events) + 1] = e
    BY <2>1, <2>2, Emitted
  <2>4. QED
    BY <1>1, <2>1, <2>3
<1>2. CASE Quiet \/ Stops
  BY <1>2, QuietHost, StopsHost DEF hostVars
<1>3. CASE EventOpen \/ EventResolved \/ EventReviewing \/ EventTurnDone \/ Restart \/ HostTurnEnds \/ HostCrash
  BY <1>3 DEF EventOpen, EventResolved, EventReviewing, EventTurnDone, hostButEvents, Restart, HostTurnEnds,
     HostCrash
<1>4. CASE SendDecision
  <2>1. /\ cur.stage + 1 \in 1..Stages /\ hstage' = [hstage EXCEPT ![cur.a] = cur.stage + 1]
        /\ events' = Append(events, [m |-> "open", a |-> cur.a, stage |-> cur.stage + 1])
    BY <1>4, DecisionOnHost
  <2>2. cur.a = a /\ hstage'[a] = cur.stage + 1
    BY <2>1 DEF HostOK
  <2>3. seen' = seen
    BY <1>4 DEF SendDecision, boardVars
  <2>4. QED
    BY <1>1, <2>1, <2>2, <2>3
<1>5. ASSUME NEW b \in Apps, HostRequest(b) PROVE seen' = seen /\ Says
  <2>1. hstage' = [hstage EXCEPT ![b] = 1] /\ events' = Append(events, [m |-> "open", a |-> b, stage |-> 1])
    BY <1>5 DEF HostRequest, Emit
  <2>2. b = a /\ hstage'[a] = 1
    BY <2>1 DEF HostOK
  <2>3. seen' = seen
    BY <1>5, HostLeaves DEF HostSteps, loopVars, boardVars
  <2>4. 1 \in 1..Stages
    OBVIOUS
  <2>5. QED
    BY <1>1, <2>1, <2>2, <2>3, <2>4
<1>6. ASSUME NEW b \in Apps, HostResolve(b) PROVE seen' = seen /\ Says
  <2>1. /\ hstage[b] < Stages /\ hstage' = [hstage EXCEPT ![b] = hstage[b] + 1]
        /\ events' = Append(events, [m |-> "open", a |-> b, stage |-> hstage[b] + 1])
    BY <1>6 DEF HostResolve, Emit
  <2>2. b = a /\ hstage'[a] = hstage[a] + 1 /\ hstage[a] \in 0..Stages
    BY <2>1 DEF HostOK
  <2>3. hstage[a] + 1 \in 1..Stages
    BY <2>1, <2>2
  <2>4. seen' = seen
    BY <1>6, HostLeaves DEF HostSteps, loopVars, boardVars
  <2>5. QED
    BY <1>1, <2>1, <2>2, <2>3, <2>4
<1>7. ASSUME NEW b \in Apps, NEW m \in {"open", "reviewing"}, HostReissue(b, m) PROVE FALSE
  BY <1>7 DEF HostReissue
<1>8. QED
  BY <1>2, <1>3, <1>4, <1>5, <1>6, <1>7, NextCases

LEMMA AccountedStep ==
    ASSUME Screen, Truth, InOrder, Calm, Accounted, Next
    PROVE  Accounted'
<1> TypeOK /\ HostOK /\ BoardOK
  BY DEF Screen, TypeOK
<1>1. SUFFICES ASSUME AtWork', NEW a \in Apps, Open(a)', Refusable(a)
               PROVE  Cared(Current(a))'
  BY DEF Accounted, Refusable
<1>2. stopping' = {} /\ ~turnOver' /\ crashes' = 0
  BY <1>1 DEF AtWork
<1>3. /\ stopping = {} /\ ~turnOver /\ crashes = 0
      /\ a \notin hdone /\ a \notin hdone' /\ hstage'[a] > 0
  BY <1>1, <1>2, HostGrows DEF Open
<1>4. HostOK' /\ hstage'[a] >= hstage[a] /\ hstage[a] \in Nat /\ hstage'[a] \in 0..Stages
  BY HostTyped DEF HostOK
<1>5. PICK k \in Keys : k = Current(a)' /\ k.a = a /\ k.stage = hstage'[a]
  <2>1. [a |-> a, stage |-> hstage'[a]] \in Keys
    BY <1>3, <1>4 DEF Keys
  <2>2. QED
    BY <2>1 DEF Current
<1>6. ASSUME hstage'[a] = hstage[a] PROVE Cared(k)'
  <2>1. k = Current(a)
    BY <1>5, <1>6 DEF Keys, Current
  <2>2. Cared(k)
    BY <1>1, <1>3, <1>6, <2>1 DEF Accounted, AtWork, Open
  <2>3. QED
    BY <1>1, <1>2, <1>3, <1>5, <1>6, <2>2, CareStep
<1>7. ASSUME hstage'[a] # hstage[a] PROVE Cared(k)'
  <2>1. OnItsWay(k)'
    BY <1>5, <1>7, Advances DEF OnItsWay
  <2>2. k \notin seen
    BY <1>3, <1>4, <1>5, <1>7 DEF InOrder
  <2>3. k \notin seen'
    BY <1>7, <2>2, Advances
  <2>4. QED
    BY <2>1, <2>3 DEF Cared, Coming
<1>8. QED
  <2>1. Cared(k)'
    BY <1>6, <1>7
  <2>2. QED
    BY <1>5, <2>1 DEF Cared, InHand, Coming, OnItsWay, Prompted, Deciding, InQueue, Arrived

\* While the turn that asks is at work and its host is the one it started on, no
\* open approval is forgotten, however many there are and in whatever order their
\* requirements, reissues and decisions come: once the loop is idle it is before
\* the user, in the queue or with the reviewer at the requirement it has reached
\* (open_approval, pop_queued_approval, approval/resolved, finish_review).
THEOREM NoneForgottenHolds == Spec => []NoneForgotten
<1> DEFINE I == Truth /\ InOrder /\ Calm /\ Accounted
<1>1. Init => I
  <2> SUFFICES ASSUME Init PROVE I
    OBVIOUS
  <2>1. Truth
    BY DEF Init, Truth
  <2>2. InOrder
    BY DEF Init, InOrder, EventsInOrder, Holds, Prompted, InQueue, Arrived
  <2>3. Calm
    BY DEF Init, Calm
  <2>4. Accounted
    BY DEF Init, Accounted, Open
  <2>5. QED
    BY <2>1, <2>2, <2>3, <2>4
<1>2. Screen /\ I /\ [Next]_vars => I'
  <2>1. ASSUME I, UNCHANGED vars PROVE I'
    <3>1. /\ UNCHANGED <<hstage, hdone, up, stopping, turnOver, events, crashes>>
          /\ UNCHANGED <<pending, queue, seen, jobs, loop, cur, rows, resolved, attached>>
      BY <2>1 DEF vars, hostVars, boardVars
    <3>2. Truth' /\ Calm'
      BY <2>1, <3>1 DEF Truth, Calm
    <3>3. InOrder'
      BY <2>1, <3>1 DEF InOrder, EventsInOrder, Holds, Reached, Prompted, InQueue, Arrived
    <3>4. Accounted'
      BY <2>1, <3>1 DEF Accounted, AtWork, Open, Current, Refusable, Cared, InHand, Coming, OnItsWay,
         Prompted, Deciding, InQueue, Arrived
    <3>5. QED
      BY <3>2, <3>3, <3>4
  <2>2. ASSUME Screen, I, Next PROVE I'
    <3>1. Truth'
      BY <2>2, TruthStep DEF Screen
    <3>2. Calm'
      BY <2>2, CalmStep DEF Screen, Calm
    <3>3. InOrder' /\ Accounted'
      BY <2>2, OrderStep, AccountedStep
    <3>4. QED
      BY <3>1, <3>2, <3>3
  <2>3. QED
    BY <2>1, <2>2
<1>3. I => NoneForgotten
  <2> SUFFICES ASSUME I, loop = "idle", events = <<>>, stopping = {}, ~turnOver, crashes = 0,
                      NEW a \in Apps, Open(a), Refusable(a)
               PROVE  Kept(a)
    BY DEF NoneForgotten
  <2>1. Cared(Current(a))
    BY DEF Accounted, AtWork
  <2>2. ~OnItsWay(Current(a)) /\ ~Arrived(Current(a)) /\ ~Deciding(Current(a))
    BY DEF OnItsWay, Arrived, Deciding
  <2>3. QED
    BY <2>1, <2>2 DEF Cared, InHand, Coming, Prompted, InQueue, Kept, Displayed, Current
<1>4. QED
  <2> HIDE DEF I
  <2>1. QED
    BY <1>1, <1>2, <1>3, ScreenHolds, PTL DEF Spec
=============================================================================
