---------------------------- MODULE ThreadsProofs -----------------------------
(* Theorems about the components with threads of their own beside the loop:   *)
(* EditorTools, for any calls, sessions, tools and number of connections and  *)
(* kept cards, and Shutdown, for any requests and hosts.                      *)
EXTENDS EditorTools, Shutdown, FiniteSetTheorems, SequenceTheorems, TLAPS

USE EditorToolsAssumption

\* The calls that hold a connection are finitely many.
Finite == IsFiniteSet(Active)

ToolSteps(tool) ==
  IF tool = "terminal" THEN {"create", "wait", "kill", "output", "release"}
  ELSE IF tool = "read" THEN {"read"} ELSE {"read", "write"}

\* Where a call is in its errand, and what the editor has done for it.
ErrandOf(c) ==
  /\ call[c].at \in {"asking", "embed"} => call[c].step \in ToolSteps(call[c].tool)
  /\ call[c].at = "asking" => ask[c] # "none"
  /\ call[c].at = "embed" => call[c].step = "create"
  /\ call[c].at = "none" => call[c].step = "none"
  /\ call[c].at = "done" => call[c].step \in {"none", "read", "write", "create", "release"}
  /\ call[c].step \in {"none", "read", "write"} => term[c] = "none"
  /\ call[c].at = "asking" /\ call[c].step = "release" =>
       /\ ask[c] = "ok" => term[c] = "released"
       /\ ask[c] = "err" => c \in lost
  /\ call[c].at = "done" /\ call[c].step = "release" => term[c] = "released" \/ c \in lost
Errand == \A c \in Calls : ErrandOf(c)

\* What is kept for a card is of a call that ran, under its session and tool.
Kept ==
  \A i \in DOMAIN cards :
    /\ cards[i].id = callIds /\ call[cards[i].of].at # "none"
    /\ call[cards[i].of].s = cards[i].s /\ call[cards[i].of].tool = cards[i].tool
Content ==
  /\ Kept
  /\ \A c \in Calls : item[c] # "none" => call[c].at # "none"
  /\ \A p \in shown : call[p[1]].at # "none" /\ call[p[2]].at # "none"
  /\ CardIsOwn
-----------------------------------------------------------------------------
(* The parts of the steps.                                                   *)

\* Appending an element to a sequence.
LEMMA AppendTo ==
    ASSUME NEW S, NEW b \in Seq(S), NEW e \in S
    PROVE  /\ Append(b, e) \in Seq(S) /\ Len(Append(b, e)) = Len(b) + 1 /\ Len(b) \in Nat
           /\ DOMAIN Append(b, e) = 1 .. Len(b) + 1
           /\ \A i \in 1 .. Len(b) : Append(b, e)[i] = b[i]
           /\ Append(b, e)[Len(b) + 1] = e
OBVIOUS

LEMMA Elements ==
    ASSUME NEW S, NEW s \in Seq(S)
    PROVE  Len(s) \in Nat /\ DOMAIN s = 1 .. Len(s) /\ \A i \in DOMAIN s : s[i] \in S
OBVIOUS

\* A sequence without one of its entries.
LEMMA Removed ==
    ASSUME NEW S, NEW s \in Seq(S), NEW n \in DOMAIN s
    PROVE  /\ RemoveAt(s, n) \in Seq(S) /\ Len(RemoveAt(s, n)) = Len(s) - 1
           /\ \A i \in DOMAIN RemoveAt(s, n) : \E j \in DOMAIN s : RemoveAt(s, n)[i] = s[j]
<1> DEFINE a == SubSeq(s, 1, n - 1)  b == SubSeq(s, n + 1, Len(s))
<1>1. /\ Len(s) \in Nat /\ DOMAIN s = 1 .. Len(s)
      /\ n \in Nat /\ n >= 1 /\ n <= Len(s)
  OBVIOUS
<1>2. a \in Seq(S) /\ Len(a) = n - 1 /\ \A i \in 1 .. Len(a) : \E j \in DOMAIN s : a[i] = s[j]
  <2>1. \A i \in 1 .. n - 1 : s[i] \in S
    BY <1>1, ElementOfSeq
  <2>2. 1 \in Int /\ n - 1 \in Int
    BY <1>1
  <2>3. /\ a \in Seq(S) /\ Len(a) = (IF 1 <= n - 1 THEN n - 1 - 1 + 1 ELSE 0)
        /\ \A i \in 1 .. n - 1 - 1 + 1 : a[i] = s[1 + i - 1]
    BY <2>1, <2>2, SubSeqProperties
  <2>4. \A k \in Nat : k >= 1 => (IF 1 <= k - 1 THEN k - 1 - 1 + 1 ELSE 0) = k - 1
    OBVIOUS
  <2>5. \A i \in 1 .. n - 1 : i \in 1 .. n - 1 - 1 + 1 /\ 1 + i - 1 \in DOMAIN s
    BY <1>1
  <2>6. Len(a) = n - 1
    BY <1>1, <2>3, <2>4
  <2>7. QED
    BY <2>3, <2>5, <2>6
<1>3. b \in Seq(S) /\ Len(b) = Len(s) - n /\ \A i \in 1 .. Len(b) : \E j \in DOMAIN s : b[i] = s[j]
  <2>1. \A i \in n + 1 .. Len(s) : s[i] \in S
    BY <1>1, ElementOfSeq
  <2>2. n + 1 \in Int /\ Len(s) \in Int
    BY <1>1
  <2>3. /\ b \in Seq(S) /\ Len(b) = (IF n + 1 <= Len(s) THEN Len(s) - (n + 1) + 1 ELSE 0)
        /\ \A i \in 1 .. Len(s) - (n + 1) + 1 : b[i] = s[n + 1 + i - 1]
    BY <2>1, <2>2, SubSeqProperties
  <2>4. \A k, l \in Nat : k <= l => (IF k + 1 <= l THEN l - (k + 1) + 1 ELSE 0) = l - k
    OBVIOUS
  <2>5. \A i \in 1 .. Len(s) - n : i \in 1 .. Len(s) - (n + 1) + 1 /\ n + 1 + i - 1 \in DOMAIN s
    BY <1>1
  <2>6. Len(b) = Len(s) - n
    BY <1>1, <2>3, <2>4
  <2>7. QED
    BY <2>3, <2>5, <2>6
<1> DEFINE c == a \o b
<1> HIDE DEF a, b
<1>4. /\ c \in Seq(S) /\ Len(c) = Len(a) + Len(b)
      /\ \A i \in 1 .. Len(a) + Len(b) : c[i] = IF i <= Len(a) THEN a[i] ELSE b[i - Len(a)]
  BY ZenonT(40), <1>2, <1>3, ConcatProperties
<1> HIDE DEF c
<1>5. Len(c) = Len(s) - 1 /\ Len(a) \in Nat /\ Len(b) \in Nat
  BY <1>1, <1>2, <1>3, <1>4
<1>6. ASSUME NEW i \in DOMAIN c PROVE \E j \in DOMAIN s : c[i] = s[j]
  <2>1. i \in 1 .. Len(a) + Len(b)
    BY <1>4
  <2>2. CASE i <= Len(a)
    <3>1. i \in 1 .. Len(a)
      BY <1>5, <2>1, <2>2
    <3>2. QED
      BY <1>2, <1>4, <2>1, <2>2, <3>1
  <2>3. CASE ~(i <= Len(a))
    <3>1. i - Len(a) \in 1 .. Len(b)
      BY <1>5, <2>1, <2>3
    <3>2. QED
      BY <1>3, <1>4, <2>1, <2>3, <3>1
  <2>4. QED
    BY <2>2, <2>3
<1>7. RemoveAt(s, n) = c
  BY DEF RemoveAt, a, b, c
<1>8. QED
  BY <1>4, <1>5, <1>6, <1>7

\* A call's record is replaced.
LEMMA Replaced ==
    ASSUME CallsOK, NEW c \in Calls, NEW rec \in CallStates, Set(c, rec)
    PROVE  /\ call' \in [Calls -> CallStates]
           /\ call'[c] = rec /\ \A d \in Calls : d # c => call'[d] = call[d]
BY DEF CallsOK, Set

\* A request of the call is answered, sent or forgotten.
LEMMA Asks ==
    ASSUME CallsOK, NEW c \in Calls, NEW v \in {"none", "sent", "ok", "err"}, ask' = [ask EXCEPT ![c] = v]
    PROVE  /\ ask' \in [Calls -> {"none", "sent", "ok", "err"}]
           /\ ask'[c] = v /\ \A d \in Calls : d # c => ask'[d] = ask[d]
BY DEF CallsOK

LEMMA Sends ==
    ASSUME CallsOK, NEW c \in Calls, NEW step \in Steps, NEW why \in {"ok", "err"}, Send(c, step, why)
    PROVE  /\ call' \in [Calls -> CallStates] /\ ask' \in [Calls -> {"none", "sent", "ok", "err"}]
           /\ call'[c].at = "asking" /\ call'[c].step = step
           /\ call'[c].s = call[c].s /\ call'[c].tool = call[c].tool
           /\ ask'[c] = "sent"
           /\ \A d \in Calls : d # c => call'[d] = call[d] /\ ask'[d] = ask[d]
           /\ UNCHANGED <<idle, running, flags, cards>>
<1> DEFINE rec == [call[c] EXCEPT !.at = "asking", !.step = step, !.why = why]
<1>1. call[c] \in CallStates
  BY DEF CallsOK
<1>2. /\ rec \in CallStates /\ rec.at = "asking" /\ rec.step = step
      /\ rec.s = call[c].s /\ rec.tool = call[c].tool
  BY <1>1 DEF CallStates
<1>3. Set(c, rec) /\ ask' = [ask EXCEPT ![c] = "sent"] /\ UNCHANGED <<idle, running, flags, cards>>
  BY DEF Send
<1> HIDE DEF rec
<1>4. /\ call' \in [Calls -> CallStates]
      /\ call'[c] = rec /\ \A d \in Calls : d # c => call'[d] = call[d]
  BY <1>2, <1>3, Replaced
<1>5. /\ ask' \in [Calls -> {"none", "sent", "ok", "err"}]
      /\ ask'[c] = "sent" /\ \A d \in Calls : d # c => ask'[d] = ask[d]
  BY <1>3, Asks
<1>6. QED
  BY <1>2, <1>3, <1>4, <1>5

\* What a finished call has to show is kept last, in the place of the oldest.
LEMMA Records ==
    ASSUME TypeOK, NEW c \in Calls, RecordCard(c)
    PROVE  /\ cards' \in Seq(Cards) /\ Len(cards') <= MaxCards
           /\ \A i \in DOMAIN cards' :
                \/ \E j \in DOMAIN cards : cards'[i] = cards[j]
                \/ cards'[i] = [of |-> c, s |-> call[c].s, tool |-> call[c].tool, id |-> callIds]
<1> DEFINE e == [of |-> c, s |-> call[c].s, tool |-> call[c].tool, id |-> callIds]
<1>1. e \in Cards
  BY DEF TypeOK, CallsOK, SessionsOK, CallStates, Cards
<1>2. cards \in Seq(Cards) /\ Len(cards) \in Nat /\ DOMAIN cards = 1 .. Len(cards)
  BY Elements DEF TypeOK, ItemsOK
<1>3. PICK n \in 1 .. Len(cards) + 1 :
         Len(cards) - n < MaxCards - 1 /\ cards' = Append(SubSeq(cards, n, Len(cards)), e)
  BY DEF RecordCard
<1> HIDE DEF e
<1> DEFINE b == SubSeq(cards, n, Len(cards))
<1>4. b \in Seq(Cards) /\ Len(b) = Len(cards) - n + 1 /\ \A i \in 1 .. Len(b) : \E j \in DOMAIN cards : b[i] = cards[j]
  <2>1. \A i \in n .. Len(cards) : cards[i] \in Cards
    BY <1>2, ElementOfSeq
  <2>2. n \in Int /\ Len(cards) \in Int
    BY <1>2
  <2>3. /\ b \in Seq(Cards) /\ Len(b) = (IF n <= Len(cards) THEN Len(cards) - n + 1 ELSE 0)
        /\ \A i \in 1 .. Len(cards) - n + 1 : b[i] = cards[n + i - 1]
    BY <2>1, <2>2, SubSeqProperties
  <2>4. \A l \in Nat : \A k \in 1 .. l + 1 : (IF k <= l THEN l - k + 1 ELSE 0) = l - k + 1
    OBVIOUS
  <2>5. \A i \in 1 .. Len(cards) - n + 1 : n + i - 1 \in DOMAIN cards
    BY <1>2
  <2>6. Len(b) = Len(cards) - n + 1
    BY <1>2, <2>3, <2>4
  <2>7. QED
    BY <2>3, <2>5, <2>6
<1>5. cards' = Append(b, e)
  BY <1>3
<1> HIDE DEF b
<1>6. /\ cards' \in Seq(Cards) /\ Len(cards') = Len(b) + 1 /\ Len(b) \in Nat
      /\ DOMAIN cards' = 1 .. Len(b) + 1
      /\ \A i \in 1 .. Len(b) : cards'[i] = b[i]
      /\ cards'[Len(b) + 1] = e
  <2>0. b \in Seq(Cards)
    BY <1>4
  <2>1. /\ Append(b, e) \in Seq(Cards) /\ Len(Append(b, e)) = Len(b) + 1 /\ Len(b) \in Nat
        /\ DOMAIN Append(b, e) = 1 .. Len(b) + 1
        /\ \A i \in 1 .. Len(b) : Append(b, e)[i] = b[i]
        /\ Append(b, e)[Len(b) + 1] = e
    BY ONLY <1>1, <2>0, AppendTo, Zenon
  <2>2. QED
    BY <2>1, <1>5
<1>7. Len(cards') <= MaxCards
  BY <1>2, <1>3, <1>4, <1>6
<1>8. ASSUME NEW i \in DOMAIN cards'
      PROVE  (\E j \in DOMAIN cards : cards'[i] = cards[j]) \/ cards'[i] = e
  <2>1. i \in 1 .. Len(b) \/ i = Len(b) + 1
    BY <1>6
  <2>2. QED
    BY <1>4, <1>6, <2>1
<1>9. QED
  BY <1>6, <1>7, <1>8 DEF e

LEMMA Finishes ==
    ASSUME TypeOK, NEW c \in Calls, NEW result \in {"ok", "failed"}, NEW shows \in BOOLEAN,
           Finish(c, result, shows)
    PROVE  /\ call' \in [Calls -> CallStates] /\ ask' \in [Calls -> {"none", "sent", "ok", "err"}]
           /\ call'[c].at = "done" /\ call'[c].step = call[c].step
           /\ call'[c].s = call[c].s /\ call'[c].tool = call[c].tool
           /\ \A d \in Calls : d # c => call'[d] = call[d] /\ ask'[d] = ask[d]
           /\ idle' = idle + 1 /\ running' \subseteq Calls /\ flags' \subseteq Calls
           /\ cards' \in Seq(Cards) /\ Len(cards') <= MaxCards
           /\ \A i \in DOMAIN cards' :
                \/ \E j \in DOMAIN cards : cards'[i] = cards[j]
                \/ cards'[i] = [of |-> c, s |-> call[c].s, tool |-> call[c].tool, id |-> callIds]
<1> DEFINE rec == [Blank EXCEPT !.at = "done", !.s = call[c].s, !.tool = call[c].tool,
                                !.step = call[c].step, !.result = result]
<1>0. CallsOK /\ ItemsOK
  BY DEF TypeOK
<1>1. call[c] \in CallStates
  BY <1>0 DEF CallsOK
<1>2. /\ rec \in CallStates /\ rec.at = "done" /\ rec.step = call[c].step
      /\ rec.s = call[c].s /\ rec.tool = call[c].tool
  BY <1>1 DEF CallStates, Blank
<1>3. /\ Set(c, rec) /\ ask' = [ask EXCEPT ![c] = "none"] /\ idle' = idle + 1
      /\ running' = running \ {c} /\ flags' = flags \ {c}
      /\ RecordCard(c) \/ UNCHANGED cards
  BY DEF Finish
<1> HIDE DEF rec
<1>4. /\ call' \in [Calls -> CallStates]
      /\ call'[c] = rec /\ \A d \in Calls : d # c => call'[d] = call[d]
  BY <1>0, <1>2, <1>3, Replaced
<1>5. /\ ask' \in [Calls -> {"none", "sent", "ok", "err"}]
      /\ \A d \in Calls : d # c => ask'[d] = ask[d]
  BY <1>0, <1>3, Asks
<1>6. running' \subseteq Calls /\ flags' \subseteq Calls
  BY <1>0, <1>3 DEF CallsOK
<1>7. /\ cards' \in Seq(Cards) /\ Len(cards') <= MaxCards
      /\ \A i \in DOMAIN cards' :
           \/ \E j \in DOMAIN cards : cards'[i] = cards[j]
           \/ cards'[i] = [of |-> c, s |-> call[c].s, tool |-> call[c].tool, id |-> callIds]
  <2>1. CASE RecordCard(c)
    BY <2>1, Records
  <2>2. CASE UNCHANGED cards
    BY <1>0, <2>2 DEF ItemsOK
  <2>3. QED
    BY <1>3, <2>1, <2>2
<1>8. QED
  BY <1>2, <1>3, <1>4, <1>5, <1>6, <1>7

\* What a tool does with the outcome of its request: it sends another, ends the
\* call, or has a terminal to show.
Embeds(c) ==
  /\ call[c].step = "create" /\ Set(c, [call[c] EXCEPT !.at = "embed"])
  /\ ask' = [ask EXCEPT ![c] = "none"] /\ UNCHANGED <<idle, running, flags, cards>>
LEMMA Outcome ==
    ASSUME TypeOK, Errand, NEW c \in Calls, call[c].at = "asking", NEW why, AfterStep(c, why)
    PROVE  \/ \E step \in Steps, w \in {"ok", "err"} :
                 /\ Send(c, step, w) /\ step \in ToolSteps(call[c].tool)
                 /\ step \in {"none", "read", "write"} => call[c].step = "read"
           \/ \E result \in {"ok", "failed"}, shows \in BOOLEAN :
                 /\ Finish(c, result, shows) /\ call[c].step \in {"read", "write", "create", "release"}
           \/ Embeds(c)
<1>1. /\ call[c].step \in ToolSteps(call[c].tool) /\ call[c].tool \in AllTools /\ call[c].why \in {"ok", "err"}
  BY DEF Errand, ErrandOf, TypeOK, CallsOK, CallStates
<1>2. CASE call[c].step = "read"
  <2>1. AfterRead(c, why)
    BY <1>2 DEF AfterStep
  <2>2. call[c].tool \in {"read", "write", "edit"}
    BY <1>1, <1>2 DEF ToolSteps, AllTools
  <2>3. CASE call[c].tool = "write" \/ call[c].tool = "edit"
    BY <1>2, <2>1, <2>3 DEF AfterRead, Fail, ToolSteps, Steps
  <2>4. CASE call[c].tool = "read"
    BY <1>2, <2>1, <2>4 DEF AfterRead
  <2>5. QED
    BY <2>2, <2>3, <2>4
<1>3. CASE call[c].step = "write"
  BY <1>3 DEF AfterStep, Fail
<1>4. CASE call[c].step = "create"
  BY <1>4 DEF AfterStep, AfterCreate, Fail, Embeds
<1>5. CASE call[c].step \in {"wait", "kill", "output"}
  <2>1. call[c].tool = "terminal"
    BY <1>1, <1>5 DEF ToolSteps
  <2>2. \E step \in {"kill", "output", "release"}, w \in {"ok", "err"} : Send(c, step, w)
    BY <1>1, <1>5 DEF AfterStep
  <2>3. QED
    BY <2>1, <2>2 DEF ToolSteps, Steps
<1>6. CASE call[c].step = "release"
  BY <1>6 DEF AfterStep
<1>7. QED
  BY <1>1, <1>2, <1>3, <1>4, <1>5, <1>6 DEF ToolSteps

LEMMA Embedded ==
    ASSUME CallsOK, NEW c \in Calls, Embeds(c)
    PROVE  /\ call' \in [Calls -> CallStates] /\ ask' \in [Calls -> {"none", "sent", "ok", "err"}]
           /\ call'[c].at = "embed" /\ call'[c].step = "create" /\ call[c].step = "create"
           /\ call'[c].s = call[c].s /\ call'[c].tool = call[c].tool
           /\ \A d \in Calls : d # c => call'[d] = call[d] /\ ask'[d] = ask[d]
           /\ UNCHANGED <<idle, running, flags, cards>>
<1> DEFINE rec == [call[c] EXCEPT !.at = "embed"]
<1>1. call[c] \in CallStates
  BY DEF CallsOK
<1>2. /\ rec \in CallStates /\ rec.at = "embed" /\ rec.step = call[c].step
      /\ rec.s = call[c].s /\ rec.tool = call[c].tool
  BY <1>1 DEF CallStates
<1>3. /\ Set(c, rec) /\ ask' = [ask EXCEPT ![c] = "none"] /\ UNCHANGED <<idle, running, flags, cards>>
      /\ call[c].step = "create"
  BY DEF Embeds
<1> HIDE DEF rec
<1>4. /\ call' \in [Calls -> CallStates]
      /\ call'[c] = rec /\ \A d \in Calls : d # c => call'[d] = call[d]
  BY <1>2, <1>3, Replaced
<1>5. /\ ask' \in [Calls -> {"none", "sent", "ok", "err"}]
      /\ ask'[c] = "none" /\ \A d \in Calls : d # c => ask'[d] = ask[d]
  BY <1>3, Asks
<1>6. QED
  BY <1>2, <1>3, <1>4, <1>5

\* What a request does in the editor.
LEMMA Effects ==
    ASSUME CallsOK, NEW c \in Calls, NEW step \in Steps, Effect(c, step)
    PROVE  /\ term' \in [Calls -> {"none", "running", "exited", "released"}]
           /\ step \in {"none", "read", "write"} => term' = term
           /\ step = "release" => term'[c] = "released"
           /\ \A d \in Calls : d # c => term'[d] = term[d]
           /\ term[c] = "released" => step = "create" \/ term'[c] = "released"
<1> DEFINE v == CASE step = "create"                      -> "running"
                  [] step = "kill" /\ term[c] = "running" -> "exited"
                  [] step = "release"                     -> "released"
                  [] OTHER                                -> term[c]
<1>1. term[c] \in {"none", "running", "exited", "released"} /\ term \in [Calls -> {"none", "running", "exited", "released"}]
  BY DEF CallsOK
<1>2. term' = [term EXCEPT ![c] = v]
  BY DEF Effect
<1>3. v \in {"none", "running", "exited", "released"}
  BY <1>1
<1>4. /\ step \in {"none", "read", "write"} => v = term[c]
      /\ step = "release" => v = "released"
      /\ term[c] = "released" => step = "create" \/ v = "released"
  OBVIOUS
<1> HIDE DEF v
<1>5. QED
  BY <1>1, <1>2, <1>3, <1>4

\* One step of a call's thread: what it leaves of the call, and what it touches.
LEMMA Progress ==
    ASSUME TypeOK, Errand, NEW c \in Calls, call[c].at = "asking", NEW why, AfterStep(c, why)
    PROVE  /\ call' \in [Calls -> CallStates] /\ ask' \in [Calls -> {"none", "sent", "ok", "err"}]
           /\ \A d \in Calls : d # c => call'[d] = call[d] /\ ask'[d] = ask[d]
           /\ call'[c].s = call[c].s /\ call'[c].tool = call[c].tool
           /\ running' \subseteq Calls /\ flags' \subseteq Calls
           /\ \/ /\ call'[c].at = "asking" /\ ask'[c] = "sent" /\ idle' = idle
                 /\ call'[c].step \in ToolSteps(call[c].tool)
                 /\ call'[c].step \in {"none", "read", "write"} => call[c].step = "read"
              \/ /\ call'[c].at = "embed" /\ idle' = idle
                 /\ call'[c].step = "create" /\ call[c].step = "create"
              \/ /\ call'[c].at = "done" /\ idle' = idle + 1
                 /\ call'[c].step = call[c].step
                 /\ call[c].step \in {"read", "write", "create", "release"}
           /\ cards' \in Seq(Cards) /\ Len(cards') <= MaxCards
           /\ \A i \in DOMAIN cards' :
                \/ \E j \in DOMAIN cards : cards'[i] = cards[j]
                \/ cards'[i] = [of |-> c, s |-> call[c].s, tool |-> call[c].tool, id |-> callIds]
<1>0. CallsOK /\ ItemsOK /\ cards \in Seq(Cards) /\ Len(cards) <= MaxCards
      /\ running \subseteq Calls /\ flags \subseteq Calls
  BY DEF TypeOK, ItemsOK, CallsOK
<1>1. CASE \E step \in Steps, w \in {"ok", "err"} :
             /\ Send(c, step, w) /\ step \in ToolSteps(call[c].tool)
             /\ step \in {"none", "read", "write"} => call[c].step = "read"
  <2>1. PICK step \in Steps, w \in {"ok", "err"} :
          /\ Send(c, step, w) /\ step \in ToolSteps(call[c].tool)
          /\ step \in {"none", "read", "write"} => call[c].step = "read"
    BY <1>1
  <2>2. QED
    BY <1>0, <2>1, Sends
<1>2. CASE \E result \in {"ok", "failed"}, shows \in BOOLEAN :
             /\ Finish(c, result, shows) /\ call[c].step \in {"read", "write", "create", "release"}
  <2>1. PICK result \in {"ok", "failed"}, shows \in BOOLEAN :
          /\ Finish(c, result, shows) /\ call[c].step \in {"read", "write", "create", "release"}
    BY <1>2
  <2>2. QED
    BY <2>1, Finishes
<1>3. CASE Embeds(c)
  BY <1>0, <1>3, Embedded
<1>4. QED
  BY <1>1, <1>2, <1>3, Outcome

\* The connections in use, when one call's record changes.
LEMMA Held ==
    ASSUME Finite, NEW c \in Calls, \A d \in Calls : d # c => call'[d] = call[d]
    PROVE  /\ Finite' /\ Cardinality(Active) \in Nat
           /\ Cardinality(Active') =
                IF c \in Active' THEN (IF c \in Active THEN Cardinality(Active) ELSE Cardinality(Active) + 1)
                ELSE (IF c \in Active THEN Cardinality(Active) - 1 ELSE Cardinality(Active))
<1>1. Cardinality(Active) \in Nat
  BY FS_CardinalityType DEF Finite
<1>2. CASE c \in Active' /\ c \in Active
  <2>1. Active' = Active
    BY <1>2 DEF Active
  <2>2. QED
    BY <1>1, <1>2, <2>1 DEF Finite
<1>3. CASE c \in Active' /\ c \notin Active
  <2>1. Active' = Active \cup {c}
    BY <1>3 DEF Active
  <2>2. QED
    BY <1>1, <1>3, <2>1, FS_AddElement DEF Finite
<1>4. CASE c \notin Active' /\ c \in Active
  <2>1. Active' = Active \ {c}
    BY <1>4 DEF Active
  <2>2. QED
    BY <1>1, <1>4, <2>1, FS_RemoveElement DEF Finite
<1>5. CASE c \notin Active' /\ c \notin Active
  <2>1. Active' = Active
    BY <1>5 DEF Active
  <2>2. QED
    BY <1>1, <1>5, <2>1 DEF Finite
<1>6. QED
  BY <1>2, <1>3, <1>4, <1>5
-----------------------------------------------------------------------------
(* Type correctness.                                                         *)

LEMMA Unmoved ==
    ASSUME SlotsOK, Finite, call' = call, idle' = idle
    PROVE  SlotsOK' /\ Finite'
<1>1. Active' = Active
  BY DEF Active
<1>2. QED
  BY <1>1 DEF Finite, SlotsOK, Slots

LEMMA Withdrawn ==
    ASSUME CallsOK, NEW c \in Calls, Withdraw(c)
    PROVE  /\ term' \in [Calls -> {"none", "running", "exited", "released"}]
           /\ \A d \in Calls : d # c => term'[d] = term[d]
           /\ call[c].step \in {"none", "read", "write"} => term'[c] = term[c]
           /\ call[c].step = "release" /\ term[c] = "released" => term'[c] = "released"
<1>1. call[c].step \in Steps
  BY DEF CallsOK, CallStates
<1>2. CASE UNCHANGED term
  BY <1>2 DEF CallsOK
<1>3. CASE Effect(c, call[c].step)
  BY <1>1, <1>3, Effects
<1>4. QED
  BY <1>2, <1>3 DEF Withdraw

LEMMA ThreadType ==
    ASSUME TypeOK, Finite, Errand, NEW c \in Calls, call[c].at = "asking", NEW why, AfterStep(c, why),
           UNCHANGED <<callIds, sessionVars, item, shown>>,
           term' \in [Calls -> {"none", "running", "exited", "released"}], lost' \subseteq Calls
    PROVE  TypeOK' /\ Finite'
<1>1. SessionsOK'
  BY DEF TypeOK, SessionsOK, sessionVars
<1>2. /\ call' \in [Calls -> CallStates] /\ ask' \in [Calls -> {"none", "sent", "ok", "err"}]
      /\ \A d \in Calls : d # c => call'[d] = call[d]
      /\ running' \subseteq Calls /\ flags' \subseteq Calls
      /\ cards' \in Seq(Cards) /\ Len(cards') <= MaxCards
  BY Progress
<1>3. \/ call'[c].at \in {"asking", "embed"} /\ idle' = idle
      \/ call'[c].at = "done" /\ idle' = idle + 1
  BY Progress
<1>4. CallsOK' /\ ItemsOK'
  BY <1>2 DEF TypeOK, CallsOK, ItemsOK
<1>5. /\ Finite' /\ Cardinality(Active) \in Nat
      /\ Cardinality(Active') =
           IF c \in Active' THEN (IF c \in Active THEN Cardinality(Active) ELSE Cardinality(Active) + 1)
           ELSE (IF c \in Active THEN Cardinality(Active) - 1 ELSE Cardinality(Active))
  BY <1>2, Held
<1>6. c \in Active /\ (c \in Active' <=> call'[c].at \in {"asking", "embed"})
  BY DEF Active
<1>7. SlotsOK'
  BY <1>3, <1>5, <1>6 DEF TypeOK, SlotsOK, Slots
<1>8. QED
  BY <1>1, <1>4, <1>5, <1>7 DEF TypeOK

LEMMA StepType ==
    ASSUME TypeOK, Finite, Errand, [Next]_vars
    PROVE  TypeOK' /\ Finite'
<1> USE DEF sessionVars, cardVars
<1>0. SessionsOK /\ CallsOK /\ ItemsOK /\ SlotsOK
  BY DEF TypeOK
<1>1. ASSUME NEW s \in Sessions, Bind(s) \/ CancelSession(s) PROVE TypeOK' /\ Finite'
  <2>1. SessionsOK'
    BY <1>0, <1>1 DEF SessionsOK, Bind, CancelSession
  <2>2. CallsOK' /\ ItemsOK' /\ call' = call /\ idle' = idle
    BY <1>0, <1>1 DEF CallsOK, ItemsOK, Bind, CancelSession
  <2>3. QED
    BY <1>0, <2>1, <2>2, Unmoved DEF TypeOK
<1>2. CASE CloseIdle
  <2>1. SessionsOK' /\ CallsOK' /\ ItemsOK' /\ call' = call
    BY <1>0, <1>2 DEF SessionsOK, CallsOK, ItemsOK, CloseIdle
  <2>2. Active' = Active
    BY <2>1 DEF Active
  <2>3. SlotsOK' /\ Finite'
    <3>1. Cardinality(Active) \in Nat
      BY FS_CardinalityType DEF Finite
    <3>2. QED
      BY <1>0, <1>2, <2>2, <3>1 DEF SlotsOK, Slots, CloseIdle, Finite
  <2>4. QED
    BY <2>1, <2>3 DEF TypeOK
<1>3. ASSUME NEW c \in Calls, EditorAnswers(c) \/ EditorFails(c) \/ CommandExits(c) \/ NotificationCancelled(c)
      PROVE  TypeOK' /\ Finite'
  <2>1. SessionsOK' /\ ItemsOK' /\ call' = call /\ idle' = idle
    BY <1>0, <1>3 DEF SessionsOK, ItemsOK, EditorAnswers, EditorFails, CommandExits, NotificationCancelled
  <2>2. call[c].step \in Steps
    BY <1>0 DEF CallsOK, CallStates
  <2>3. CASE EditorAnswers(c)
    <3>1. term' \in [Calls -> {"none", "running", "exited", "released"}]
      BY <1>0, <2>2, <2>3, Effects DEF EditorAnswers
    <3>2. QED
      BY <1>0, <2>1, <2>3, <3>1, Unmoved DEF TypeOK, CallsOK, EditorAnswers
  <2>4. CASE EditorFails(c)
    BY <1>0, <2>1, <2>4, Unmoved DEF TypeOK, CallsOK, EditorFails
  <2>5. CASE CommandExits(c)
    BY <1>0, <2>1, <2>5, Unmoved DEF TypeOK, CallsOK, CommandExits
  <2>6. CASE NotificationCancelled(c)
    BY <1>0, <2>1, <2>6, Unmoved DEF TypeOK, CallsOK, NotificationCancelled
  <2>7. QED
    BY <1>3, <2>3, <2>4, <2>5, <2>6
<1>4. ASSUME NEW c \in Calls, NEW s \in Sessions, NEW tool \in AllTools,
             NEW mode \in {"default", "readOnly"}, Begin(c, s, tool, mode)
      PROVE  TypeOK' /\ Finite'
  <2> DEFINE rec == [Blank EXCEPT !.at = "asking", !.s = s, !.tool = tool, !.gen = gens[s],
                                  !.step = FirstStep(tool)]
  <2>1. rec \in CallStates /\ rec.at = "asking"
    BY <1>0 DEF CallStates, Blank, FirstStep, SessionsOK, AllTools, Steps
  <2>2. /\ Set(c, rec) /\ ask' = [ask EXCEPT ![c] = "sent"] /\ running' = running \cup {c} /\ TakeConnection
        /\ call[c].at = "none" /\ UNCHANGED <<callIds, sessionVars, flags, term, cardVars, lost>>
    BY <1>4 DEF Begin
  <2> HIDE DEF rec
  <2>3. /\ call' \in [Calls -> CallStates]
        /\ call'[c] = rec /\ \A d \in Calls : d # c => call'[d] = call[d]
    BY <1>0, <2>1, <2>2, Replaced
  <2>4. SessionsOK' /\ CallsOK' /\ ItemsOK'
    BY <1>0, <2>2, <2>3 DEF SessionsOK, CallsOK, ItemsOK
  <2>5. c \in Active' /\ c \notin Active
    BY <2>1, <2>2, <2>3 DEF Active
  <2>6. Finite' /\ Cardinality(Active) \in Nat /\ Cardinality(Active') = Cardinality(Active) + 1
    BY <2>3, <2>5, Held
  <2>7. SlotsOK'
    BY <1>0, <2>2, <2>6 DEF SlotsOK, Slots, TakeConnection
  <2>8. QED
    BY <2>4, <2>6, <2>7 DEF TypeOK
<1>5. ASSUME NEW c \in Calls, NEW s \in Sessions, NEW tool \in AllTools, Refuse(c, s, tool) \/ RefusePath(c, s, tool)
      PROVE  TypeOK' /\ Finite'
  <2> DEFINE rec == [Blank EXCEPT !.at = "done", !.s = s, !.tool = tool, !.result = "failed"]
  <2>1. rec \in CallStates /\ rec.at = "done"
    BY DEF CallStates, Blank, Steps
  <2>2. /\ Set(c, rec) /\ call[c].at = "none"
        /\ UNCHANGED idle \/ (Slots < MaxConnections /\ idle' = idle + 1)
        /\ UNCHANGED <<callIds, sessionVars, ask, running, flags, term, cardVars, lost>>
    BY <1>5 DEF Refuse, RefusePath
  <2> HIDE DEF rec
  <2>3. /\ call' \in [Calls -> CallStates]
        /\ call'[c] = rec /\ \A d \in Calls : d # c => call'[d] = call[d]
    BY <1>0, <2>1, <2>2, Replaced
  <2>4. SessionsOK' /\ CallsOK' /\ ItemsOK'
    BY <1>0, <2>2, <2>3 DEF SessionsOK, CallsOK, ItemsOK
  <2>5. c \notin Active' /\ c \notin Active
    BY <2>1, <2>2, <2>3 DEF Active
  <2>6. Finite' /\ Cardinality(Active) \in Nat /\ Cardinality(Active') = Cardinality(Active)
    BY <2>3, <2>5, Held
  <2>7. SlotsOK'
    BY <1>0, <2>2, <2>6 DEF SlotsOK, Slots
  <2>8. QED
    BY <2>4, <2>6, <2>7 DEF TypeOK
<1>6. ASSUME NEW c \in Calls, Receives(c) \/ Aborts(c) \/ TimesOut(c) PROVE TypeOK' /\ Finite'
  <2>1. CASE Receives(c)
    BY <1>0, <2>1, ThreadType DEF Receives, CallsOK
  <2>2. CASE Aborts(c)
    <3>1. term' \in [Calls -> {"none", "running", "exited", "released"}]
      BY <1>0, <2>2, Withdrawn DEF Aborts
    <3>2. QED
      BY <1>0, <2>2, <3>1, ThreadType DEF Aborts, CallsOK
  <2>3. CASE TimesOut(c)
    <3>1. term' \in [Calls -> {"none", "running", "exited", "released"}]
      BY <1>0, <2>3, Withdrawn DEF TimesOut
    <3>2. QED
      BY <1>0, <2>3, <3>1, ThreadType DEF TimesOut, CallsOK
  <2>4. QED
    BY <1>6, <2>1, <2>2, <2>3
<1>7. ASSUME NEW c \in Calls, EmbedInCard(c) PROVE TypeOK' /\ Finite'
  <2>1. /\ call' \in [Calls -> CallStates] /\ ask' \in [Calls -> {"none", "sent", "ok", "err"}]
        /\ call'[c].at = "asking" /\ \A d \in Calls : d # c => call'[d] = call[d]
        /\ UNCHANGED <<idle, running, flags, cards>>
    BY <1>0, <1>7, Sends DEF EmbedInCard, Steps
  <2>2. shown' \subseteq Calls \X Calls
    BY <1>0, <1>7 DEF EmbedInCard, CardOf, ItemsOK
  <2>3. SessionsOK' /\ CallsOK' /\ ItemsOK'
    BY <1>0, <1>7, <2>1, <2>2 DEF SessionsOK, CallsOK, ItemsOK, EmbedInCard
  <2>4. c \in Active' /\ c \in Active
    BY <1>7, <2>1 DEF Active, EmbedInCard
  <2>5. Finite' /\ Cardinality(Active') = Cardinality(Active)
    BY <2>1, <2>4, Held
  <2>6. QED
    BY <1>0, <2>1, <2>3, <2>5 DEF TypeOK, SlotsOK, Slots
<1>8. ASSUME NEW c \in Calls, ItemStarts(c) \/ ItemCompletes(c) PROVE TypeOK' /\ Finite'
  <2>1. SessionsOK' /\ CallsOK' /\ call' = call /\ idle' = idle
    BY <1>0, <1>8 DEF SessionsOK, CallsOK, ItemStarts, ItemCompletes
  <2>2. item' \in [Calls -> {"none", "shown", "done"}]
    BY <1>0, <1>8 DEF ItemsOK, ItemStarts, ItemCompletes
  <2>3. cards' \in Seq(Cards) /\ Len(cards') <= MaxCards /\ shown' \subseteq Calls \X Calls
    <3>1. CASE UNCHANGED <<cards, shown>>
      BY <1>0, <3>1 DEF ItemsOK
    <3>2. ASSUME NEW i \in DOMAIN cards, shown' = shown \cup {<<c, cards[i].of>>}, cards' = RemoveAt(cards, i)
          PROVE  cards' \in Seq(Cards) /\ Len(cards') <= MaxCards /\ shown' \subseteq Calls \X Calls
      <4>1. cards \in Seq(Cards) /\ Len(cards) \in Nat /\ Len(cards) <= MaxCards /\ cards[i] \in Cards
        BY <1>0, Elements DEF ItemsOK
      <4>2. RemoveAt(cards, i) \in Seq(Cards) /\ Len(RemoveAt(cards, i)) = Len(cards) - 1
        BY <4>1, Removed
      <4>3. shown' \subseteq Calls \X Calls
        BY <1>0, <3>2, <4>1 DEF ItemsOK, Cards
      <4>4. QED
        BY <3>2, <4>1, <4>2, <4>3
    <3>3. \/ UNCHANGED <<cards, shown>>
          \/ \E i \in DOMAIN cards : shown' = shown \cup {<<c, cards[i].of>>} /\ cards' = RemoveAt(cards, i)
      BY <1>8 DEF ItemStarts, ItemCompletes, Match
    <3>4. QED
      BY <3>1, <3>2, <3>3
  <2>4. QED
    BY <1>0, <2>1, <2>2, <2>3, Unmoved DEF TypeOK, ItemsOK
<1>9. CASE UNCHANGED vars
  <2>1. SessionsOK' /\ CallsOK' /\ ItemsOK' /\ call' = call /\ idle' = idle
    BY <1>0, <1>9 DEF vars, SessionsOK, CallsOK, ItemsOK
  <2>2. QED
    BY <1>0, <2>1, Unmoved DEF TypeOK
<1>10. QED
  BY <1>1, <1>2, <1>3, <1>4, <1>5, <1>6, <1>7, <1>8, <1>9 DEF Next, Session, Editor, Thread
-----------------------------------------------------------------------------
(* The errand of a call.                                                     *)

\* A step of one call leaves the others where they were.
LEMMA OneErrand ==
    ASSUME Errand, NEW c \in Calls, ErrandOf(c)',
           \A d \in Calls : d # c => call'[d] = call[d] /\ ask'[d] = ask[d] /\ term'[d] = term[d],
           lost \subseteq lost'
    PROVE  Errand'
<1>1. ASSUME NEW d \in Calls, d # c PROVE ErrandOf(d)'
  <2>1. ErrandOf(d)
    BY DEF Errand
  <2>2. call'[d] = call[d] /\ ask'[d] = ask[d] /\ term'[d] = term[d] /\ (d \in lost => d \in lost')
    BY <1>1
  <2>3. QED
    BY <2>1, <2>2 DEF ErrandOf
<1>2. \A d \in Calls : ErrandOf(d)'
  BY <1>1
<1>3. QED
  BY <1>2 DEF Errand, ErrandOf

LEMMA ThreadErrand ==
    ASSUME TypeOK, Errand, NEW c \in Calls, call[c].at = "asking", NEW why, AfterStep(c, why),
           \A d \in Calls : d # c => term'[d] = term[d], lost \subseteq lost',
           call[c].step \in {"none", "read", "write"} => term'[c] = term[c],
           call[c].step = "release" => term'[c] = "released" \/ c \in lost'
    PROVE  Errand'
<1>1. ErrandOf(c)
  BY DEF Errand
<1>2. /\ \A d \in Calls : d # c => call'[d] = call[d] /\ ask'[d] = ask[d]
      /\ call'[c].tool = call[c].tool
      /\ \/ /\ call'[c].at = "asking" /\ ask'[c] = "sent"
            /\ call'[c].step \in ToolSteps(call[c].tool)
            /\ call'[c].step \in {"none", "read", "write"} => call[c].step = "read"
         \/ /\ call'[c].at = "embed"
            /\ call'[c].step = "create" /\ call[c].step = "create"
         \/ /\ call'[c].at = "done"
            /\ call'[c].step = call[c].step
            /\ call[c].step \in {"read", "write", "create", "release"}
  BY Progress
<1>3. ErrandOf(c)'
  BY <1>1, <1>2 DEF ErrandOf
<1>4. QED
  BY <1>2, <1>3, OneErrand

LEMMA StepErrand ==
    ASSUME TypeOK, Errand, [Next]_vars
    PROVE  Errand'
<1> USE DEF sessionVars, cardVars
<1>0. SessionsOK /\ CallsOK
  BY DEF TypeOK
<1>1. ASSUME UNCHANGED <<call, ask, term, lost>> PROVE Errand'
  BY <1>1 DEF Errand, ErrandOf
<1>2. ASSUME NEW c \in Calls, EditorAnswers(c) \/ EditorFails(c) \/ CommandExits(c) PROVE Errand'
  <2>0. ErrandOf(c) /\ call[c].step \in Steps
    BY <1>0 DEF Errand, CallsOK, CallStates
  <2>1. CASE EditorAnswers(c)
    <3>1. /\ ask' \in [Calls -> {"none", "sent", "ok", "err"}]
          /\ ask'[c] = "ok" /\ \A d \in Calls : d # c => ask'[d] = ask[d]
      BY <1>0, <2>1, Asks DEF EditorAnswers
    <3>2. /\ call[c].step \in {"none", "read", "write"} => term' = term
          /\ call[c].step = "release" => term'[c] = "released"
          /\ \A d \in Calls : d # c => term'[d] = term[d]
      BY <1>0, <2>0, <2>1, Effects DEF EditorAnswers
    <3>3. call' = call /\ lost' = lost /\ call[c].at = "asking"
      BY <2>1 DEF EditorAnswers, Waiting
    <3>4. ErrandOf(c)'
      BY <2>0, <3>1, <3>2, <3>3 DEF ErrandOf
    <3>5. QED
      BY <3>1, <3>2, <3>3, <3>4, OneErrand
  <2>2. CASE EditorFails(c)
    <3>1. /\ ask' \in [Calls -> {"none", "sent", "ok", "err"}]
          /\ ask'[c] = "err" /\ \A d \in Calls : d # c => ask'[d] = ask[d]
      BY <1>0, <2>2, Asks DEF EditorFails
    <3>2. /\ call' = call /\ term' = term /\ lost \subseteq lost' /\ call[c].at = "asking"
          /\ call[c].step = "release" => c \in lost'
      BY <2>2 DEF EditorFails, Waiting
    <3>3. ErrandOf(c)'
      BY <2>0, <3>1, <3>2 DEF ErrandOf
    <3>4. QED
      BY <3>1, <3>2, <3>3, OneErrand
  <2>3. CASE CommandExits(c)
    <3>1. /\ call' = call /\ ask' = ask /\ lost' = lost /\ term[c] = "running"
          /\ term' = [term EXCEPT ![c] = "exited"] /\ call[c].at \in {"asking", "embed"}
      BY <2>3 DEF CommandExits, Active
    <3>2. \A d \in Calls : d # c => term'[d] = term[d]
      BY <1>0, <3>1 DEF CallsOK
    <3>3. ErrandOf(c)'
      BY <2>0, <3>1 DEF ErrandOf
    <3>4. QED
      BY <3>1, <3>2, <3>3, OneErrand
  <2>4. QED
    BY <1>2, <2>1, <2>2, <2>3
<1>3. ASSUME NEW c \in Calls, NEW s \in Sessions, NEW tool \in AllTools,
             NEW mode \in {"default", "readOnly"}, Begin(c, s, tool, mode)
      PROVE  Errand'
  <2> DEFINE rec == [Blank EXCEPT !.at = "asking", !.s = s, !.tool = tool, !.gen = gens[s],
                                  !.step = FirstStep(tool)]
  <2>1. rec \in CallStates /\ rec.at = "asking" /\ rec.step \in ToolSteps(rec.tool)
    BY <1>0 DEF CallStates, Blank, FirstStep, SessionsOK, AllTools, Steps, ToolSteps
  <2>2. /\ Set(c, rec) /\ ask' = [ask EXCEPT ![c] = "sent"]
        /\ call[c].at = "none" /\ term' = term /\ lost' = lost
    BY <1>3 DEF Begin
  <2>3. rec.step \in {"read", "write", "create"}
    BY DEF FirstStep, AllTools
  <2> HIDE DEF rec
  <2>4. call'[c] = rec /\ \A d \in Calls : d # c => call'[d] = call[d]
    BY <1>0, <2>1, <2>2, Replaced
  <2>5. ask'[c] = "sent" /\ \A d \in Calls : d # c => ask'[d] = ask[d]
    BY <1>0, <2>2, Asks
  <2>6. ErrandOf(c)
    BY DEF Errand
  <2>7. ErrandOf(c)'
    BY <2>1, <2>2, <2>3, <2>4, <2>5, <2>6 DEF ErrandOf
  <2>8. QED
    BY <2>2, <2>4, <2>5, <2>7, OneErrand
<1>4. ASSUME NEW c \in Calls, NEW s \in Sessions, NEW tool \in AllTools, Refuse(c, s, tool) \/ RefusePath(c, s, tool)
      PROVE  Errand'
  <2> DEFINE rec == [Blank EXCEPT !.at = "done", !.s = s, !.tool = tool, !.result = "failed"]
  <2>1. rec \in CallStates /\ rec.at = "done" /\ rec.step = "none"
    BY DEF CallStates, Blank, Steps
  <2>2. Set(c, rec) /\ call[c].at = "none" /\ ask' = ask /\ term' = term /\ lost' = lost
    BY <1>4 DEF Refuse, RefusePath
  <2> HIDE DEF rec
  <2>3. call'[c] = rec /\ \A d \in Calls : d # c => call'[d] = call[d]
    BY <1>0, <2>1, <2>2, Replaced
  <2>4. ErrandOf(c)
    BY DEF Errand
  <2>5. ErrandOf(c)'
    BY <2>1, <2>2, <2>3, <2>4 DEF ErrandOf
  <2>6. QED
    BY <2>2, <2>3, <2>5, OneErrand
<1>5. ASSUME NEW c \in Calls, Receives(c) \/ Aborts(c) \/ TimesOut(c) PROVE Errand'
  <2>0. ErrandOf(c) /\ call[c].step \in Steps /\ term[c] \in {"none", "running", "exited", "released"}
        /\ ask[c] \in {"none", "sent", "ok", "err"}
    BY <1>0 DEF Errand, CallsOK, CallStates
  <2>1. CASE Receives(c)
    <3>1. /\ AfterStep(c, ask[c]) /\ call[c].at = "asking" /\ ask[c] \in {"ok", "err"}
          /\ term' = term /\ lost' = lost
      BY <2>1 DEF Receives
    <3>2. call[c].step = "release" => term'[c] = "released" \/ c \in lost'
      BY <2>0, <3>1 DEF ErrandOf
    <3>3. QED
      BY <3>1, <3>2, ThreadErrand
  <2>2. CASE Aborts(c)
    <3>1. /\ AfterStep(c, "cancelled") /\ call[c].at = "asking" /\ call[c].step # "release"
          /\ lost' = lost /\ Withdraw(c)
      BY <2>2 DEF Aborts, CanAbort, Cleanup
    <3>2. /\ \A d \in Calls : d # c => term'[d] = term[d]
          /\ call[c].step \in {"none", "read", "write"} => term'[c] = term[c]
      BY <1>0, <3>1, Withdrawn
    <3>3. QED
      BY <3>1, <3>2, ThreadErrand
  <2>3. CASE TimesOut(c)
    <3>1. /\ AfterStep(c, "timedOut") /\ call[c].at = "asking" /\ Withdraw(c)
          /\ lost \subseteq lost' /\ (ask[c] = "sent" /\ call[c].step = "release" => c \in lost')
      BY <2>3 DEF TimesOut
    <3>2. /\ \A d \in Calls : d # c => term'[d] = term[d]
          /\ call[c].step \in {"none", "read", "write"} => term'[c] = term[c]
          /\ call[c].step = "release" /\ term[c] = "released" => term'[c] = "released"
      BY <1>0, <3>1, Withdrawn
    <3>3. call[c].step = "release" => term'[c] = "released" \/ c \in lost'
      BY <2>0, <3>1, <3>2 DEF ErrandOf
    <3>4. QED
      BY <3>1, <3>2, <3>3, ThreadErrand
  <2>4. QED
    BY <1>5, <2>1, <2>2, <2>3
<1>6. ASSUME NEW c \in Calls, EmbedInCard(c) PROVE Errand'
  <2>1. /\ call'[c].at = "asking" /\ call'[c].step = "wait" /\ ask'[c] = "sent"
        /\ call'[c].tool = call[c].tool
        /\ \A d \in Calls : d # c => call'[d] = call[d] /\ ask'[d] = ask[d]
    BY <1>0, <1>6, Sends DEF EmbedInCard, Steps
  <2>2. call[c].at = "embed" /\ term' = term /\ lost' = lost
    BY <1>6 DEF EmbedInCard
  <2>3. ErrandOf(c)
    BY DEF Errand
  <2>4. "wait" \in ToolSteps(call[c].tool)
    BY <2>2, <2>3 DEF ErrandOf, ToolSteps
  <2>5. ErrandOf(c)'
    BY <2>1, <2>2, <2>3, <2>4 DEF ErrandOf
  <2>6. QED
    BY <2>1, <2>2, <2>5, OneErrand
<1>7. ASSUME NEW c \in Calls, NotificationCancelled(c) \/ ItemStarts(c) \/ ItemCompletes(c) PROVE Errand'
  BY <1>1, <1>7 DEF NotificationCancelled, ItemStarts, ItemCompletes
<1>8. ASSUME Session \/ CloseIdle \/ UNCHANGED vars PROVE Errand'
  BY <1>1, <1>8 DEF Session, Bind, CancelSession, CloseIdle, vars
<1>9. QED
  BY <1>2, <1>3, <1>4, <1>5, <1>6, <1>7, <1>8 DEF Next, Editor, Thread
-----------------------------------------------------------------------------
(* What the cards show.                                                      *)

\* The content of call c may be shown on the card of call d.
Own(d, c) ==
  /\ call[d].at # "none" /\ call[c].at # "none"
  /\ callIds => d = c
  /\ call[d].s = call[c].s /\ call[d].tool = call[c].tool

LEMMA Carried ==
    ASSUME TypeOK, Content, callIds' = callIds,
           \A c \in Calls : call[c].at # "none" =>
             call'[c].at # "none" /\ call'[c].s = call[c].s /\ call'[c].tool = call[c].tool,
           \A c \in Calls : item'[c] # "none" => item[c] # "none" \/ call[c].at # "none",
           \A i \in DOMAIN cards' :
             \/ \E j \in DOMAIN cards : cards'[i] = cards[j]
             \/ \E c \in Calls : /\ call[c].at # "none"
                                 /\ cards'[i] = [of |-> c, s |-> call[c].s, tool |-> call[c].tool, id |-> callIds],
           \A p \in shown' : p \in shown \/ \E d, c \in Calls : p = <<d, c>> /\ Own(d, c)
    PROVE  Content'
<1>0. cards \in Seq(Cards) /\ shown \subseteq Calls \X Calls
  BY DEF TypeOK, ItemsOK
<1>1. ASSUME NEW i \in DOMAIN cards'
      PROVE  /\ cards'[i].id = callIds' /\ call'[cards'[i].of].at # "none"
             /\ call'[cards'[i].of].s = cards'[i].s /\ call'[cards'[i].of].tool = cards'[i].tool
  <2>1. ASSUME NEW j \in DOMAIN cards, cards'[i] = cards[j]
        PROVE  /\ cards'[i].id = callIds' /\ call'[cards'[i].of].at # "none"
               /\ call'[cards'[i].of].s = cards'[i].s /\ call'[cards'[i].of].tool = cards'[i].tool
    <3>1. cards[j].of \in Calls
      <4>1. cards[j] \in Cards
        BY <1>0, Elements
      <4>2. QED
        BY <4>1 DEF Cards
    <3>2. /\ cards[j].id = callIds /\ call[cards[j].of].at # "none"
          /\ call[cards[j].of].s = cards[j].s /\ call[cards[j].of].tool = cards[j].tool
      BY DEF Content, Kept
    <3>3. QED
      BY <2>1, <3>1, <3>2
  <2>2. QED
    BY <2>1
<1>2. Kept'
  BY <1>1 DEF Kept
<1>3. \A c \in Calls : item'[c] # "none" => call'[c].at # "none"
  BY DEF Content
<1>4. ASSUME NEW p \in shown'
      PROVE  /\ call'[p[1]].at # "none" /\ call'[p[2]].at # "none"
             /\ callIds' => p[1] = p[2]
             /\ call'[p[1]].s = call'[p[2]].s /\ call'[p[1]].tool = call'[p[2]].tool
  <2>1. ASSUME p \in shown
        PROVE  p[1] \in Calls /\ p[2] \in Calls /\ Own(p[1], p[2])
    BY <1>0, <2>1 DEF Content, CardIsOwn, Own
  <2>2. p[1] \in Calls /\ p[2] \in Calls /\ Own(p[1], p[2])
    BY <2>1
  <2>3. QED
    BY <2>2 DEF Own
<1>5. (\A p \in shown : call[p[1]].at # "none" /\ call[p[2]].at # "none")' /\ CardIsOwn'
  BY <1>4 DEF CardIsOwn
<1>6. QED
  BY <1>2, <1>3, <1>5 DEF Content

LEMMA StepContent ==
    ASSUME TypeOK, Errand, Content, [Next]_vars
    PROVE  Content'
<1> USE DEF sessionVars, cardVars
<1>0. SessionsOK /\ CallsOK /\ ItemsOK
  BY DEF TypeOK
<1>1. ASSUME UNCHANGED <<callIds, call, item, cards, shown>> PROVE Content'
  BY <1>1 DEF Content, Kept, CardIsOwn
<1>2. ASSUME NEW c \in Calls, call[c].at = "none", call'[c].at # "none",
             \A d \in Calls : d # c => call'[d] = call[d],
             UNCHANGED <<callIds, item, cards, shown>>
      PROVE  Content'
  BY <1>2, Carried
<1>3. ASSUME NEW c \in Calls, NEW s \in Sessions, NEW tool \in AllTools,
             \/ \E mode \in {"default", "readOnly"} : Begin(c, s, tool, mode)
             \/ Refuse(c, s, tool) \/ RefusePath(c, s, tool)
      PROVE  Content'
  <2>1. /\ call[c].at = "none" /\ UNCHANGED <<callIds, item, cards, shown>>
        /\ \E rec : call' = [call EXCEPT ![c] = rec] /\ rec.at # "none"
    <3>1. CASE \E mode \in {"default", "readOnly"} : Begin(c, s, tool, mode)
      <4> DEFINE rec == [Blank EXCEPT !.at = "asking", !.s = s, !.tool = tool, !.gen = gens[s],
                                      !.step = FirstStep(tool)]
      <4>1. rec.at # "none"
        BY DEF Blank
      <4>2. /\ call[c].at = "none" /\ UNCHANGED <<callIds, item, cards, shown>>
            /\ call' = [call EXCEPT ![c] = rec]
        BY <3>1 DEF Begin, Set
      <4> HIDE DEF rec
      <4>3. QED
        BY <4>1, <4>2
    <3>2. CASE Refuse(c, s, tool) \/ RefusePath(c, s, tool)
      <4> DEFINE rec == [Blank EXCEPT !.at = "done", !.s = s, !.tool = tool, !.result = "failed"]
      <4>1. rec.at # "none"
        BY DEF Blank
      <4>2. /\ call[c].at = "none" /\ UNCHANGED <<callIds, item, cards, shown>>
            /\ call' = [call EXCEPT ![c] = rec]
        BY <3>2 DEF Refuse, RefusePath, Set
      <4> HIDE DEF rec
      <4>3. QED
        BY <4>1, <4>2
    <3>3. QED
      BY <1>3, <3>1, <3>2
  <2>2. call'[c].at # "none" /\ \A d \in Calls : d # c => call'[d] = call[d]
    BY <1>0, <2>1 DEF CallsOK
  <2>3. QED
    BY <1>2, <2>1, <2>2
<1>4. ASSUME NEW c \in Calls, NEW why, call[c].at = "asking", AfterStep(c, why), UNCHANGED <<callIds, item, shown>>
      PROVE  Content'
  <2>1. /\ \A d \in Calls : d # c => call'[d] = call[d]
        /\ call'[c].s = call[c].s /\ call'[c].tool = call[c].tool /\ call'[c].at # "none"
        /\ \A i \in DOMAIN cards' :
             \/ \E j \in DOMAIN cards : cards'[i] = cards[j]
             \/ cards'[i] = [of |-> c, s |-> call[c].s, tool |-> call[c].tool, id |-> callIds]
    BY <1>4, Progress
  <2>2. QED
    BY <1>4, <2>1, Carried
<1>5. ASSUME NEW c \in Calls, Receives(c) \/ Aborts(c) \/ TimesOut(c) PROVE Content'
  BY <1>4, <1>5 DEF Receives, Aborts, TimesOut
<1>6. ASSUME NEW c \in Calls, EmbedInCard(c) PROVE Content'
  <2>1. /\ call'[c].at = "asking" /\ call'[c].s = call[c].s /\ call'[c].tool = call[c].tool
        /\ \A d \in Calls : d # c => call'[d] = call[d]
        /\ cards' = cards
    BY <1>0, <1>6, Sends DEF EmbedInCard, Steps
  <2>2. call[c].at = "embed" /\ call[c].tool = "terminal" /\ callIds' = callIds /\ item' = item
    BY <1>6 DEF EmbedInCard, Errand, ErrandOf, ToolSteps
  <2>3. \A p \in shown' : p \in shown \/ \E d \in CardOf(c) : p = <<d, c>>
    BY <1>6 DEF EmbedInCard
  <2>4. ASSUME NEW d \in CardOf(c) PROVE d \in Calls /\ Own(d, c)
    BY <2>2 DEF CardOf, Own, Content
  <2>5. QED
    BY <2>1, <2>2, <2>3, <2>4, Carried
<1>7. ASSUME NEW c \in Calls, ItemStarts(c) PROVE Content'
  <2>1. /\ call[c].at # "none" /\ \A d \in Calls : d # c => item'[d] = item[d]
        /\ UNCHANGED <<callIds, call, cards, shown>>
    BY <1>0, <1>7 DEF ItemStarts, ItemsOK
  <2>2. QED
    BY <2>1, Carried
<1>8. ASSUME NEW c \in Calls, ItemCompletes(c) PROVE Content'
  <2>1. /\ UNCHANGED <<callIds, call>> /\ item[c] = "shown"
        /\ \A d \in Calls : d # c => item'[d] = item[d]
        /\ \/ UNCHANGED <<cards, shown>>
           \/ \E i \in Match(c) : shown' = shown \cup {<<c, cards[i].of>>} /\ cards' = RemoveAt(cards, i)
    BY <1>0, <1>8 DEF ItemCompletes, ItemsOK
  <2>2. CASE UNCHANGED <<cards, shown>>
    BY <2>1, <2>2, Carried
  <2>3. ASSUME NEW i \in Match(c), shown' = shown \cup {<<c, cards[i].of>>}, cards' = RemoveAt(cards, i)
        PROVE  Content'
    <3>1. /\ i \in DOMAIN cards /\ cards[i].s = call[c].s
          /\ (cards[i].id /\ cards[i].of = c) \/ (~cards[i].id /\ cards[i].tool = call[c].tool)
      BY DEF Match
    <3>2. /\ cards \in Seq(Cards) /\ cards[i] \in Cards
      BY <1>0, <3>1, Elements DEF ItemsOK
    <3>3. \A k \in DOMAIN cards' : \E j \in DOMAIN cards : cards'[k] = cards[j]
      BY <2>3, <3>1, <3>2, Removed
    <3>4. /\ cards[i].id = callIds /\ call[cards[i].of].at # "none"
          /\ call[cards[i].of].s = cards[i].s /\ call[cards[i].of].tool = cards[i].tool
      BY <3>1 DEF Content, Kept
    <3>5. cards[i].of \in Calls /\ Own(c, cards[i].of)
      BY <2>1, <3>1, <3>2, <3>4 DEF Own, Content, Cards
    <3>6. \A p \in shown' : p \in shown \/ p = <<c, cards[i].of>>
      BY <2>3
    <3>7. QED
      BY <2>1, <3>3, <3>5, <3>6, Carried
  <2>4. QED
    BY <2>1, <2>2, <2>3
<1>9. ASSUME NEW c \in Calls, EditorAnswers(c) \/ EditorFails(c) \/ CommandExits(c) \/ NotificationCancelled(c)
      PROVE  Content'
  BY <1>1, <1>9 DEF EditorAnswers, EditorFails, CommandExits, NotificationCancelled
<1>10. ASSUME Session \/ CloseIdle \/ UNCHANGED vars PROVE Content'
  BY <1>1, <1>10 DEF Session, Bind, CancelSession, CloseIdle, vars
<1>11. QED
  BY <1>3, <1>5, <1>6, <1>7, <1>8, <1>9, <1>10 DEF Next, Editor, Thread
-----------------------------------------------------------------------------
(* The theorems.                                                             *)

IInv == TypeOK /\ Finite /\ Errand /\ Content

LEMMA Invariant == Spec => []IInv
<1>1. Init => IInv
  <2> SUFFICES ASSUME Init PROVE IInv
    OBVIOUS
  <2>1. /\ call = [c \in Calls |-> Blank] /\ ask = [c \in Calls |-> "none"] /\ term = [c \in Calls |-> "none"]
        /\ item = [c \in Calls |-> "none"] /\ cards = <<>> /\ shown = {} /\ lost = {} /\ running = {} /\ flags = {}
        /\ callIds \in BOOLEAN /\ bound = {} /\ gens = [s \in Sessions |-> 0] /\ idle = 0
    BY DEF Init
  <2>2. Blank \in CallStates /\ Blank.at = "none" /\ Blank.step = "none"
    BY DEF Blank, CallStates, AllTools, Steps
  <2>3. SessionsOK /\ CallsOK /\ ItemsOK
    BY <2>1, <2>2 DEF SessionsOK, CallsOK, ItemsOK
  <2>4. Active = {}
    BY <2>1, <2>2 DEF Active
  <2>5. Finite /\ SlotsOK
    BY <2>1, <2>4, FS_EmptySet DEF Finite, SlotsOK, Slots
  <2>6. Errand
    BY <2>1, <2>2 DEF Errand, ErrandOf
  <2>7. Content
    BY <2>1 DEF Content, Kept, CardIsOwn
  <2>8. QED
    BY <2>3, <2>5, <2>6, <2>7 DEF IInv, TypeOK
<1>2. IInv /\ [Next]_vars => IInv'
  BY StepType, StepErrand, StepContent DEF IInv
<1>3. QED
  BY <1>1, <1>2, PTL DEF Spec

\* The calls, their requests, flags and terminals, the kept cards and the limit
\* on connections (try_connection_slot) stay within what the code allows.
THEOREM TypeCorrect == Spec => []TypeOK
<1>1. IInv => TypeOK
  BY DEF IInv
<1>2. QED
  BY <1>1, Invariant, PTL

\* take_card_content and editor_card: a card shows its own call's content.
THEOREM CardIsOwnHolds == Spec => []CardIsOwn
<1>1. IInv => CardIsOwn
  BY DEF IInv, Content
<1>2. QED
  BY <1>1, Invariant, PTL

\* terminal_tool, CLEANUP: whatever stops the wait for a command, a call that was given a
\* terminal ends only past its release, which the editor carried out, failed or ignored.
\* Nothing is said of a call that ended at terminal/create.
THEOREM NoRunawayTerminalHolds == Spec => []NoRunawayTerminal
<1>1. IInv => NoRunawayTerminal
  BY DEF IInv, Errand, ErrandOf, NoRunawayTerminal
<1>2. QED
  BY <1>1, Invariant, PTL

HIDE EditorToolsAssumption

----------------------------------------------------------------------------
(* Shutdown.                                                                *)

USE ShutdownAssumption DEF HostIds, Nil, Step

\* Where the loop goes next: the end is reached only past the seal, and an answer
\* or a launch returns to the work it interrupted.
Control ==
  /\ loop.at \in {"drain", "stop", "force", "exit"} => sealed
  /\ loop.at = "remove" => loop.next \in {"recv", "failAll"}
  /\ loop.at \in {"launch", "spawn", "lock", "push", "registered"} => loop.next \in {"recv", "handle"}
  /\ worker \in {"drain", "done"} => sealed
  /\ exited => sealed /\ (stopper = "none" => loop.at = "exit")
  /\ expiring <=> stopper # "none"
  /\ ~expiring => worker = "none"

\* A responder is answered by whoever takes it out of the table, and the table is
\* empty of early requests once somebody sealed and drained it.
Answered ==
  /\ \A r \in Requests : answers[r] <= 1 /\ (r \in table => answers[r] = 0)
  /\ sealed /\ ~gone /\ worker # "drain" /\ loop.at # "drain" => table \subseteq late

Dead(h) == host[h] = "stopped" /\ ~view[h]
AtHand(h) == loop.at = "registered" /\ loop.h = h

\* A registered host is dead, being registered, or still somebody's to stop: the
\* loop's before the deadline expires, the deadline's until it has looked.
Accounted ==
  /\ loop.at \in {"lock", "push", "registered"} => host[loop.h] # "none"
  /\ \A h \in registry : host[h] # "none"
  /\ loop.at = "push" => regLock
  /\ stopper = "none" => \A h \in registry : Dead(h) \/ AtHand(h) \/ h \in current
  /\ stopper = "none" /\ loop.at = "exit" => \A h \in current : Dead(h)
  /\ stopper = "done" /\ ~missed => \A h \in registry : Dead(h) \/ AtHand(h)

\* A host that runs is being launched or the loop's to stop; one that was launched is
\* registered, or about to be; and a loop that exits has stopped its own.
Watched ==
  /\ loop.at = "exit" => \A h \in current : host[h] # "up"
  /\ exited => loop.at = "exit" \/ stopper = "done"
  /\ loop.at = "registered" => loop.h \in registry
  /\ current \subseteq registry
  /\ \A h \in HostIds : /\ host[h] = "up" => Launching(h) \/ h \in current
                        /\ view[h] => Launching(h) \/ h \in registry
LEMMA AppendType ==
    ASSUME NEW S, NEW s \in Seq(S), NEW x \in S
    PROVE  Append(s, x) \in Seq(S)
OBVIOUS

\* A message leaves the queue from its head.
LEMMA HeadIsMessage ==
    ASSUME queue \in Seq(Messages), queue # <<>>
    PROVE  Head(queue) \in Messages /\ Tail(queue) \in Seq(Messages)
OBVIOUS

\* Every variable keeps its type in every reachable state.
THEOREM ShutdownTypeCorrect == ShutdownSpec => []ShutdownTypeOK
<1>1. ShutdownInit => ShutdownTypeOK
  <2> SUFFICES ASSUME ShutdownInit PROVE ShutdownTypeOK
    OBVIOUS
  <2>1. ConnOK
    BY DEF ShutdownInit, ConnOK
  <2>2. LoopOK
    BY DEF ShutdownInit, LoopOK, Places, At
  <2>3. HostOK
    BY DEF ShutdownInit, HostOK
  <2>4. FlagsOK
    BY DEF ShutdownInit, FlagsOK
  <2>5. QED
    BY <2>1, <2>2, <2>3, <2>4 DEF ShutdownTypeOK
<1>2. ShutdownTypeOK /\ [ShutdownNext]_shutdownVars => ShutdownTypeOK'
  <2> SUFFICES ASSUME ShutdownTypeOK, [ShutdownNext]_shutdownVars PROVE ShutdownTypeOK'
    OBVIOUS
  <2>1. ConnOK'
    <3> USE DEF ConnOK
    <3> ConnOK
      BY DEF ShutdownTypeOK
    <3>1. ASSUME NEW m \in Messages, queue' = Append(queue, m) PROVE queue' \in Seq(Messages)
      BY <3>1, AppendType
    <3>2. CASE \E r \in Requests : Hold(r)
      <4>1. queue' \in Seq(Messages)
        BY <3>1, <3>2 DEF Hold, Message, Messages
      <4>2. QED
        BY <3>2, <4>1 DEF Hold
    <3>3. CASE OnClose \/ TransportFails
      <4>1. queue' \in Seq(Messages)
        BY <3>1, <3>3 DEF OnClose, TransportFails, Message, Messages
      <4>2. QED
        BY <3>3, <4>1 DEF OnClose, TransportFails
    <3>4. CASE \E h \in HostIds : HostDies(h)
      <4>1. queue' \in Seq(Messages)
        <5>1. PICK h \in HostIds : queue' = Append(queue, Message("hostClosed", h))
          BY <3>4 DEF HostDies
        <5>2. Message("hostClosed", h) \in Messages
          BY DEF Message, Messages
        <5>3. QED
          BY <3>1, <5>1, <5>2
      <4>2. QED
        BY <3>4, <4>1 DEF HostDies
    <3>5. CASE RecvExpiring \/ RecvRequest \/ RecvClosed \/ RecvHostClosed
      <4>1. queue' \in Seq(Messages)
        BY <3>5, HeadIsMessage DEF RecvExpiring, RecvRequest, RecvClosed, RecvHostClosed, Take
      <4>2. QED
        BY <3>5, <4>1 DEF RecvExpiring, RecvRequest, RecvClosed, RecvHostClosed
    <3>6. CASE Eof \/ TakeResponder \/ SettleDrain \/ WorkerDrains
      BY <3>6 DEF Eof, TakeResponder, SettleDrain, WorkerDrains, Drain
    <3>7. CASE Handle \/ FailAll \/ \E r \in Requests : FinishPrompt(r)
      <4>1. loop.at = "handle" => loop.id \in Requests
        BY DEF ShutdownTypeOK, LoopOK
      <4>2. QED
        BY <3>7, <4>1 DEF Handle, FailAll, FinishPrompt, connVars, Running
    <3>8. CASE \/ Launch \/ Spawn \/ RegisterLock \/ RegisterPush \/ Registered \/ Reap \/ Settle
               \/ StopHosts \/ ForceStopHosts \/ Exit \/ Expire \/ WorkerSeals \/ StopperRuns
               \/ ExpireExits \/ UNCHANGED shutdownVars
      BY <3>8 DEF Launch, Spawn, RegisterLock, RegisterPush, Registered, Reap, Settle, StopHosts,
           ForceStopHosts, Exit, Expire, WorkerSeals, StopperRuns, ExpireExits, shutdownVars, connVars
    <3>9. QED
      BY <3>2, <3>3, <3>4, <3>5, <3>6, <3>7, <3>8 DEF ShutdownNext, Connection, Loop, Deadline
  <2>2. LoopOK'
    <3> USE DEF LoopOK, Places
    <3> LoopOK
      BY DEF ShutdownTypeOK
    <3>1. CASE RecvExpiring \/ RecvRequest \/ RecvClosed \/ RecvHostClosed
      <4>1. Head(queue) \in Messages
        BY <3>1, HeadIsMessage DEF ShutdownTypeOK, ConnOK, RecvExpiring, RecvRequest, RecvClosed,
             RecvHostClosed, Take
      <4>2. CASE RecvRequest \/ RecvHostClosed
        BY <4>1, <4>2 DEF RecvRequest, RecvHostClosed, Take, At, Messages
      <4>3. CASE RecvExpiring \/ RecvClosed
        BY <4>3 DEF RecvExpiring, RecvClosed, At
      <4>4. QED
        BY <3>1, <4>2, <4>3
    <3>2. CASE Handle \/ FailAll \/ \E r \in Requests : FinishPrompt(r)
      <4> inFlight \subseteq Requests
        BY DEF ShutdownTypeOK, ConnOK
      <4>1. ASSUME NEW r \in Requests, NEW n \in {"recv", "failAll"}, Respond(r, n)
            PROVE  LoopOK'
        <5>1. CASE expiring \/ sealed
          BY <4>1, <5>1 DEF Respond
        <5>2. CASE ~(expiring \/ sealed)
          BY <4>1, <5>2 DEF Respond
        <5>3. QED
          BY <5>1, <5>2
      <4>2. CASE Handle
        <5>1. loop.id \in Requests
          BY <4>2 DEF Handle, Running
        <5>2. CASE Respond(loop.id, "recv")
          BY <4>1, <5>1, <5>2
        <5>3. CASE loop' = At("recv")
          BY <5>3 DEF At
        <5>4. CASE loop' = Step("launch", loop.id, loop.h, "handle")
          BY <5>1, <5>4
        <5>5. QED
          BY <4>2, <5>2, <5>3, <5>4 DEF Handle
      <4>3. CASE FailAll
        <5>1. CASE loop' = At("settle")
          BY <5>1 DEF At
        <5>2. CASE \E r \in Requests : Respond(r, "failAll")
          BY <4>1, <5>2
        <5>3. QED
          BY <4>3, <5>1, <5>2 DEF FailAll
      <4>4. CASE \E r \in Requests : FinishPrompt(r)
        BY <4>1, <4>4 DEF FinishPrompt
      <4>5. QED
        BY <3>2, <4>2, <4>3, <4>4
    <3>3. CASE TakeResponder \/ SettleDrain \/ Settle \/ StopHosts \/ ForceStopHosts
      BY <3>3 DEF TakeResponder, SettleDrain, Settle, AfterSettle, StopHosts, ForceStopHosts, Running
    <3>4. CASE Launch \/ RegisterLock \/ RegisterPush
      BY <3>4 DEF Launch, LaunchFailed, RegisterLock, RegisterPush, Running
    <3>8. CASE Registered
      BY <3>8 DEF Registered, LaunchFailed, Running
    <3>5. CASE Spawn
      BY <3>5 DEF Spawn, LaunchFailed, Running
    <3>9. CASE Reap
      BY <3>9 DEF Reap, At
    <3>6. CASE \/ Connection \/ Deadline \/ Exit \/ UNCHANGED shutdownVars
               \/ \E h \in HostIds : HostDies(h)
      BY <3>6 DEF Connection, Hold, Eof, OnClose, TransportFails, Deadline, Expire, WorkerSeals,
           WorkerDrains, StopperRuns, ExpireExits, Exit, HostDies, shutdownVars
    <3>7. QED
      BY <3>1, <3>2, <3>3, <3>4, <3>5, <3>6, <3>8, <3>9 DEF ShutdownNext, Loop
  <2>3. HostOK'
    <3> USE DEF HostOK
    <3> HostOK
      BY DEF ShutdownTypeOK
    <3>1. CASE Spawn
      BY <3>1 DEF Spawn
    <3>2. CASE RegisterPush \/ Registered
      <4>1. loop.at \in {"push", "registered"} /\ loop.h \in HostIds
        BY <3>2 DEF RegisterPush, Registered, Running, ShutdownTypeOK, LoopOK
      <4>2. QED
        BY <3>2, <4>1 DEF RegisterPush, Registered, ForceStop, KillHost, TakeViews
    <3>3. CASE Reap \/ StopHosts \/ ForceStopHosts
      BY <3>3 DEF Reap, StopHosts, ForceStopHosts, StopHost, ForceStop, KillHost, TakeViews
    <3>4. CASE StopperRuns \/ \E h \in HostIds : HostDies(h)
      BY <3>4 DEF StopperRuns, HostDies, ForceStop, KillHost, TakeViews
    <3>5. CASE \/ Connection \/ UNCHANGED shutdownVars
               \/ Expire \/ WorkerSeals \/ WorkerDrains \/ ExpireExits
               \/ TakeResponder \/ Launch \/ RegisterLock \/ RecvExpiring \/ RecvRequest \/ RecvClosed
               \/ RecvHostClosed \/ Handle \/ (\E r \in Requests : FinishPrompt(r))
               \/ FailAll \/ Settle \/ SettleDrain \/ Exit
      BY <3>5 DEF Connection, Hold, Eof, OnClose, TransportFails, Expire, WorkerSeals, WorkerDrains,
           ExpireExits, TakeResponder, Launch, RegisterLock, RecvExpiring, RecvRequest, RecvClosed,
           RecvHostClosed, Handle, FinishPrompt, FailAll, Settle, SettleDrain, Exit, shutdownVars, hostVars
    <3>6. QED
      BY <3>1, <3>2, <3>3, <3>4, <3>5 DEF ShutdownNext, Loop, Deadline
  <2>4. FlagsOK'
    <3> USE DEF FlagsOK
    <3> FlagsOK
      BY DEF ShutdownTypeOK
    <3>1. CASE Connection \/ UNCHANGED shutdownVars \/ \E h \in HostIds : HostDies(h)
      <4>1. CASE (\E r \in Requests : Hold(r)) \/ OnClose
        BY <4>1 DEF Hold, OnClose, hostVars, deadlineVars
      <4>5. CASE \E h \in HostIds : HostDies(h)
        BY <4>5 DEF HostDies, deadlineVars
      <4>6. CASE UNCHANGED shutdownVars
        BY <4>6 DEF shutdownVars, connVars, hostVars, deadlineVars
      <4>2. CASE Eof
        BY <4>2 DEF Eof, Disconnect, hostVars
      <4>3. CASE TransportFails
        BY <4>3 DEF TransportFails, hostVars
      <4>4. QED
        BY <3>1, <4>1, <4>2, <4>3, <4>5, <4>6 DEF Connection
    <3>2. CASE Deadline
      <4>1. CASE Expire
        BY <4>1 DEF Expire, connVars, hostVars
      <4>2. CASE WorkerSeals
        BY <4>2 DEF WorkerSeals, connVars, hostVars
      <4>3. CASE WorkerDrains
        BY <4>3 DEF WorkerDrains, hostVars
      <4>4. CASE StopperRuns
        BY <4>4 DEF StopperRuns, connVars
      <4>5. CASE ExpireExits
        BY <4>5 DEF ExpireExits, connVars, hostVars, deadlineVars
      <4>6. QED
        BY <3>2, <4>1, <4>2, <4>3, <4>4, <4>5 DEF Deadline
    <3>3. CASE Loop
      <4>1. UNCHANGED <<armed, expiring, worker, stopper, missed>>
        BY <3>3 DEF Loop, TakeResponder, Launch, Spawn, RegisterLock, RegisterPush, Registered,
             RecvExpiring, RecvRequest, RecvClosed, RecvHostClosed, Handle, FinishPrompt, Reap,
             FailAll, Settle, SettleDrain, StopHosts, ForceStopHosts, Exit, deadlineVars
      <4>2. UNCHANGED gone
        BY <3>3 DEF Loop, TakeResponder, Launch, Spawn, RegisterLock, RegisterPush, Registered,
             RecvExpiring, RecvRequest, RecvClosed, RecvHostClosed, Handle, FinishPrompt, Reap,
             FailAll, Settle, SettleDrain, StopHosts, ForceStopHosts, Exit, connVars
      <4>3. sealed' = TRUE \/ sealed' = sealed
        BY <3>3 DEF Loop, TakeResponder, Launch, Spawn, RegisterLock, RegisterPush, Registered,
             RecvExpiring, RecvRequest, RecvClosed, RecvHostClosed, Handle, FinishPrompt, Reap,
             FailAll, Settle, SettleDrain, StopHosts, ForceStopHosts, Exit
      <4>4. exited' = TRUE \/ exited' = exited
        BY <3>3 DEF Loop, TakeResponder, Launch, Spawn, RegisterLock, RegisterPush, Registered,
             RecvExpiring, RecvRequest, RecvClosed, RecvHostClosed, Handle, FinishPrompt, Reap,
             FailAll, Settle, SettleDrain, StopHosts, ForceStopHosts, Exit
      <4>5. regLock' \in {TRUE, FALSE, regLock}
        BY <3>3 DEF Loop, TakeResponder, Launch, Spawn, RegisterLock, RegisterPush, Registered,
             RecvExpiring, RecvRequest, RecvClosed, RecvHostClosed, Handle, FinishPrompt, Reap,
             FailAll, Settle, SettleDrain, StopHosts, ForceStopHosts, Exit, hostVars
      <4>6. QED
        BY ZenonT(40), <4>1, <4>2, <4>3, <4>4, <4>5
    <3>4. QED
      BY <3>1, <3>2, <3>3 DEF ShutdownNext
  <2>5. QED
    BY <2>1, <2>2, <2>3, <2>4 DEF ShutdownTypeOK
<1>3. QED
  BY <1>1, <1>2, PTL DEF ShutdownSpec
-----------------------------------------------------------------------------
(* Every request is answered.                                               *)

\* Every kind of step of the loop that leaves its place alone.
LEMMA Elsewhere ==
    ASSUME [ShutdownNext]_shutdownVars, ~Loop
    PROVE  loop' = loop
BY DEF ShutdownNext, Connection, Hold, Eof, OnClose, TransportFails, Deadline, Expire, WorkerSeals,
       WorkerDrains, StopperRuns, ExpireExits, HostDies, shutdownVars

\* Work on a request ends with its answer, with the next work, or with a launch.
LEMMA Answering ==
    ASSUME ShutdownTypeOK, Handle \/ FailAll \/ \E r \in Requests : FinishPrompt(r)
    PROVE  \/ loop'.at \in {"recv", "failAll", "settle"}
           \/ loop'.at = "remove" /\ loop'.next \in {"recv", "failAll"}
           \/ loop'.at = "launch" /\ loop'.next = "handle"
<1> loop \in [at : Places, id : Requests \cup {Nil}, h : HostIds \cup {Nil},
              next : {"recv", "handle", "failAll", "force"}]
  BY DEF ShutdownTypeOK, LoopOK
<1>1. ASSUME NEW r \in Requests, NEW n \in {"recv", "failAll"}, Respond(r, n)
      PROVE  loop'.at \in {"recv", "failAll", "remove"}
             /\ (loop'.at = "remove" => loop'.next \in {"recv", "failAll"})
  BY <1>1 DEF Respond
<1>2. CASE Handle
  <2>1. loop.id \in Requests
    BY <1>2 DEF Handle, Running, ShutdownTypeOK, LoopOK
  <2>2. CASE Respond(loop.id, "recv")
    BY <1>1, <2>1, <2>2
  <2>3. CASE loop' = At("recv")
    BY <2>3 DEF At
  <2>4. CASE loop' = Step("launch", loop.id, loop.h, "handle")
    BY <2>4
  <2>5. QED
    BY <1>2, <2>2, <2>3, <2>4 DEF Handle
<1>3. CASE FailAll
  <2>1. inFlight \subseteq Requests
    BY DEF ShutdownTypeOK, ConnOK
  <2>2. QED
    BY <1>1, <1>3, <2>1 DEF FailAll, At
<1>4. CASE \E r \in Requests : FinishPrompt(r)
  BY <1>1, <1>4 DEF FinishPrompt
<1>5. QED
  BY <1>2, <1>3, <1>4

\* Every way the loop can move that matters to the end: where it goes is past the
\* seal, and no step of it touches the deadline's threads.
LEMMA ControlHolds == ShutdownSpec => []Control
<1>1. ShutdownInit => Control
  BY DEF ShutdownInit, Control, At
<1>2. ShutdownTypeOK /\ Control /\ [ShutdownNext]_shutdownVars => Control'
  <2> SUFFICES ASSUME ShutdownTypeOK, Control, [ShutdownNext]_shutdownVars PROVE Control'
    OBVIOUS
  <2> loop \in [at : Places, id : Requests \cup {Nil}, h : HostIds \cup {Nil},
                next : {"recv", "handle", "failAll", "force"}]
    BY DEF ShutdownTypeOK, LoopOK
  <2> USE DEF Control
  <2>1. CASE Loop
    <3>1. UNCHANGED <<expiring, worker, stopper>>
      BY <2>1 DEF Loop, TakeResponder, Launch, Spawn, RegisterLock, RegisterPush, Registered,
           RecvExpiring, RecvRequest, RecvClosed, RecvHostClosed, Handle, FinishPrompt, Reap,
           FailAll, Settle, SettleDrain, StopHosts, ForceStopHosts, Exit, deadlineVars
    <3>2. CASE Handle \/ FailAll \/ \E r \in Requests : FinishPrompt(r)
      <4>1. UNCHANGED <<sealed, exited>> /\ ~exited
        BY <3>2 DEF Handle, FailAll, FinishPrompt, Running
      <4>2. QED
        BY <3>1, <3>2, <4>1, Answering
    <3>3. CASE TakeResponder \/ SettleDrain \/ Settle \/ StopHosts \/ ForceStopHosts
      BY <3>1, <3>3 DEF TakeResponder, SettleDrain, Settle, AfterSettle, StopHosts, ForceStopHosts, Running
    <3>4. CASE Launch \/ RegisterLock \/ RegisterPush
      BY <3>1, <3>4 DEF Launch, LaunchFailed, RegisterLock, RegisterPush, Running
    <3>5. CASE Registered
      BY <3>1, <3>5 DEF Registered, LaunchFailed, Running
    <3>6. CASE Spawn
      BY <3>1, <3>6 DEF Spawn, LaunchFailed, Running
    <3>7. CASE Reap
      BY <3>1, <3>7 DEF Reap, At, Running
    <3>8. CASE RecvExpiring \/ RecvRequest \/ RecvClosed \/ RecvHostClosed
      BY <3>1, <3>8 DEF RecvExpiring, RecvRequest, RecvClosed, RecvHostClosed, Take, At, Running
    <3>9. CASE Exit
      BY <3>1, <3>9 DEF Exit, Running
    <3>10. QED
      BY <2>1, <3>2, <3>3, <3>4, <3>5, <3>6, <3>7, <3>8, <3>9 DEF Loop
  <2>2. CASE ~Loop
    <3>1. loop' = loop
      BY <2>2, Elsewhere
    <3>2. CASE Expire
      BY <3>1, <3>2 DEF Expire
    <3>5. CASE WorkerSeals \/ WorkerDrains
      BY <3>1, <3>5 DEF WorkerSeals, WorkerDrains
    <3>6. CASE StopperRuns
      BY <3>1, <3>6 DEF StopperRuns
    <3>7. CASE ExpireExits
      BY <3>1, <3>7 DEF ExpireExits, deadlineVars
    <3>3. CASE Connection \/ UNCHANGED shutdownVars \/ \E h \in HostIds : HostDies(h)
      <4>1. UNCHANGED <<expiring, worker, stopper, exited>>
        BY <3>3 DEF Connection, Hold, Eof, OnClose, TransportFails, HostDies, shutdownVars, deadlineVars
      <4>2. sealed' = TRUE \/ sealed' = sealed
        BY <3>3 DEF Connection, Hold, Eof, OnClose, TransportFails, HostDies, shutdownVars
      <4>3. QED
        BY <3>1, <4>1, <4>2
    <3>4. QED
      BY <2>2, <3>2, <3>3, <3>5, <3>6, <3>7 DEF ShutdownNext, Deadline
  <2>3. QED
    BY <2>1, <2>2
<1>3. QED
  BY <1>1, <1>2, ShutdownTypeCorrect, PTL DEF ShutdownSpec

\* No responder is used twice, and past the seal the table holds only what came late.
LEMMA AnsweredHolds == ShutdownSpec => []Answered
<1>1. ShutdownInit => Answered
  BY DEF ShutdownInit, Answered
<1>2. ShutdownTypeOK /\ Control /\ Answered /\ [ShutdownNext]_shutdownVars => Answered'
  <2> SUFFICES ASSUME ShutdownTypeOK, Control, Answered, [ShutdownNext]_shutdownVars PROVE Answered'
    OBVIOUS
  <2> USE DEF Answered
  <2>1. answers \in [Requests -> Nat] /\ table \subseteq Requests
    BY DEF ShutdownTypeOK, ConnOK
  <2>2. CASE \E r \in Requests : Hold(r)
    BY <2>1, <2>2 DEF Hold, Arrived, deadlineVars
  <2>3. CASE TransportFails
    BY <2>3 DEF TransportFails
  <2>4. CASE TakeResponder
    BY <2>1, <2>4 DEF TakeResponder, Running, deadlineVars, ShutdownTypeOK, LoopOK, Control
  <2>5. CASE Settle
    BY <2>5 DEF Settle, connVars, deadlineVars, Running
  <2>6. CASE SettleDrain \/ WorkerDrains
    BY <2>1, <2>6 DEF SettleDrain, WorkerDrains, Drain
  <2>7. CASE WorkerSeals
    BY <2>7 DEF WorkerSeals, connVars
  <2>8. CASE Expire
    BY <2>8 DEF Expire, connVars, Control
  <2>9. CASE \/ Eof \/ OnClose \/ Launch \/ Spawn \/ RegisterLock \/ RegisterPush \/ Registered
             \/ RecvExpiring \/ RecvRequest \/ RecvClosed \/ RecvHostClosed \/ Handle
             \/ (\E r \in Requests : FinishPrompt(r)) \/ Reap \/ FailAll \/ StopHosts
             \/ ForceStopHosts \/ Exit \/ StopperRuns \/ ExpireExits \/ UNCHANGED shutdownVars
             \/ \E h \in HostIds : HostDies(h)
    <3>1. UNCHANGED <<table, answers, late, gone, sealed, worker>>
      BY <2>9 DEF Eof, OnClose, Launch, Spawn, RegisterLock, RegisterPush, Registered,
           RecvExpiring, RecvRequest, RecvClosed, RecvHostClosed, Handle, FinishPrompt, Reap,
           FailAll, StopHosts, ForceStopHosts, Exit, StopperRuns, ExpireExits, shutdownVars, HostDies,
           connVars, deadlineVars
    <3>2. loop.at # "drain" \/ loop' = loop
      BY <2>9, Elsewhere DEF Eof, OnClose, Launch, Spawn, RegisterLock, RegisterPush, Registered,
           RecvExpiring, RecvRequest, RecvClosed, RecvHostClosed, Handle, FinishPrompt, Reap,
           FailAll, StopHosts, ForceStopHosts, Exit, StopperRuns, ExpireExits, shutdownVars, HostDies,
           Running, Take
    <3>3. QED
      BY <3>1, <3>2
  <2>10. QED
    BY <2>2, <2>3, <2>4, <2>5, <2>6, <2>7, <2>8, <2>9 DEF ShutdownNext, Connection, Loop, Deadline
<1>3. QED
  BY <1>1, <1>2, ShutdownTypeCorrect, ControlHolds, PTL DEF ShutdownSpec

\* No request is answered twice, whoever of the loop and the deadline gets to it,
\* and none that was held before the seal is left when the process is gone.
THEOREM EveryRequestAnsweredHolds == ShutdownSpec => []EveryRequestAnswered
<1>1. Control /\ Answered => EveryRequestAnswered
  BY DEF Control, Answered, EveryRequestAnswered
<1>2. QED
  BY <1>1, ControlHolds, AnsweredHolds, PTL
-----------------------------------------------------------------------------
(* No host outlives the adapter.                                            *)

\* What the deadline and the loop have stopped stays stopped.
LEMMA AccountedHolds == ShutdownSpec => []Accounted
<1> USE DEF Accounted, Dead, AtHand
<1>1. ShutdownInit => Accounted
  BY DEF ShutdownInit, At
<1>2. ShutdownTypeOK /\ Control /\ Accounted /\ [ShutdownNext]_shutdownVars => Accounted'
  <2> SUFFICES ASSUME ShutdownTypeOK, Control, Accounted, [ShutdownNext]_shutdownVars PROVE Accounted'
    OBVIOUS
  <2>1. /\ registry \subseteq HostIds /\ current \subseteq HostIds
        /\ host \in [HostIds -> {"none", "up", "stopped"}] /\ view \in [HostIds -> BOOLEAN]
    BY DEF ShutdownTypeOK, HostOK
  <2>2. /\ loop \in [at : Places, id : Requests \cup {Nil}, h : HostIds \cup {Nil},
                     next : {"recv", "handle", "failAll", "force"}]
        /\ loop.at \in {"lock", "push", "registered"} => loop.h \in HostIds
    BY DEF ShutdownTypeOK, LoopOK
  <2>3. CASE Spawn
    <3>1. UNCHANGED <<registry, regLock, current, stopper, missed>> /\ loop.at = "spawn"
      BY <2>3 DEF Spawn, Running, deadlineVars
    <3>2. \A h \in HostIds : host[h] # "none" => host'[h] = host[h] /\ view'[h] = view[h]
      BY <2>1, <2>3 DEF Spawn, IsNext
    <3>3. loop'.at \in {"lock", "handle", "failAll"}
      BY <2>2, <2>3 DEF Spawn, LaunchFailed
    <3>4. loop'.at = "lock" => host'[loop'.h] # "none"
      BY <2>1, <2>2, <2>3 DEF Spawn, LaunchFailed, IsNext
    <3>5. QED
      BY <2>1, <3>1, <3>2, <3>3, <3>4
  <2>4. CASE RegisterLock
    BY <2>2, <2>4 DEF RegisterLock, Running, deadlineVars
  <2>5. CASE RegisterPush
    BY <2>1, <2>2, <2>5 DEF RegisterPush, Running, deadlineVars
  <2>6. CASE Registered
    <3>1. UNCHANGED <<registry, regLock, stopper, missed>> /\ loop.at = "registered"
      BY <2>6 DEF Registered, Running, deadlineVars
    <3>2. CASE expiring
      <4>1. current' = current /\ loop'.at \in {"handle", "failAll"}
        BY <2>2, <2>6, <3>2 DEF Registered, LaunchFailed
      <4>2. \A h \in HostIds : /\ host[h] # "none" => host'[h] # "none"
                               /\ Dead(h) \/ h = loop.h => Dead(h)'
        BY <2>1, <2>6, <3>2 DEF Registered, ForceStop, KillHost, TakeViews
      <4>3. QED
        BY <2>1, <3>1, <3>2, <4>1, <4>2 DEF Control
    <3>3. CASE ~expiring
      BY <2>1, <2>2, <2>6, <3>1, <3>3 DEF Registered, Control
    <3>4. QED
      BY <3>2, <3>3
  <2>7. CASE Reap \/ StopHosts \/ ForceStopHosts
    <3>1. UNCHANGED <<registry, regLock, expiring, stopper, missed>>
      BY <2>7 DEF Reap, StopHosts, ForceStopHosts, deadlineVars
    <3>2. \A h \in HostIds : /\ host[h] # "none" => host'[h] # "none"
                             /\ Dead(h) => Dead(h)'
      BY <2>1, <2>7 DEF Reap, StopHosts, ForceStopHosts, StopHost, ForceStop, KillHost, TakeViews
    <3>3. CASE Reap
      <4>1. ~expiring => \A h \in registry : h = loop.h => Dead(h)'
        BY <2>1, <3>3 DEF Reap, StopHost, KillHost, TakeViews
      <4>2. loop.at = "reap" /\ loop'.at \notin {"lock", "push", "registered", "exit"}
            /\ current' = current \ {loop.h}
        BY <3>3 DEF Reap, Running, At
      <4>3. QED
        BY <2>1, <3>1, <3>2, <4>1, <4>2 DEF Control
    <3>4. CASE StopHosts \/ ForceStopHosts
      <4>1. ~expiring => \A h \in current : Dead(h)'
        BY <2>1, <3>4 DEF StopHosts, ForceStopHosts, StopHost, ForceStop, KillHost, TakeViews
      <4>2. loop.at \in {"stop", "force"} /\ loop'.at = "exit" /\ current' = current
        BY <2>2, <3>4 DEF StopHosts, ForceStopHosts, Running
      <4>3. QED
        BY <2>1, <3>1, <3>2, <4>1, <4>2 DEF Control
    <3>5. QED
      BY <2>7, <3>3, <3>4
  <2>8. CASE \E h \in HostIds : HostDies(h)
    <3>1. UNCHANGED <<registry, regLock, current, view, loop, stopper, missed>>
      BY <2>8 DEF HostDies, deadlineVars
    <3>2. \A h \in HostIds : host'[h] = host[h] \/ host'[h] = "stopped"
      BY <2>1, <2>8 DEF HostDies, KillHost
    <3>3. QED
      BY <2>1, <2>2, <3>1, <3>2
  <2>9. CASE StopperRuns
    <3>1. UNCHANGED <<registry, regLock, current, loop>> /\ stopper = "collect" /\ stopper' = "done"
      BY <2>9 DEF StopperRuns
    <3>2. CASE regLock
      <4>1. missed' /\ UNCHANGED <<host, view>>
        BY <2>9, <3>2 DEF StopperRuns
      <4>2. QED
        BY <3>1, <4>1
    <3>3. CASE ~regLock
      <4>1. \A h \in HostIds : /\ host[h] # "none" => host'[h] # "none"
                               /\ h \in registry => Dead(h)'
        BY ZenonT(40), <2>1, <2>9, <3>3 DEF StopperRuns, ForceStop, KillHost, TakeViews
      <4>2. QED
        BY <2>1, <2>2, <3>1, <4>1
    <3>4. QED
      BY <3>2, <3>3
  <2>10. CASE Expire
    BY <2>2, <2>10 DEF Expire, hostVars, Control
  <2>11. CASE \/ Connection \/ WorkerSeals \/ WorkerDrains \/ ExpireExits \/ UNCHANGED shutdownVars
              \/ TakeResponder \/ Launch \/ RecvExpiring \/ RecvRequest \/ RecvClosed \/ RecvHostClosed
              \/ Handle \/ (\E r \in Requests : FinishPrompt(r)) \/ FailAll \/ Settle
              \/ SettleDrain \/ Exit
    <3>1. UNCHANGED <<registry, regLock, current, host, view, stopper, missed>>
      BY <2>11 DEF Connection, Hold, Eof, OnClose, TransportFails, WorkerSeals, WorkerDrains,
           ExpireExits, shutdownVars, TakeResponder, Launch, RecvExpiring, RecvRequest, RecvClosed,
           RecvHostClosed, Handle, FinishPrompt, FailAll, Settle, SettleDrain, Exit, hostVars,
           deadlineVars
    <3>2. CASE TakeResponder \/ Settle \/ SettleDrain
      <4>1. loop'.at \in {"recv", "failAll", "drain", "force", "stop"}
        BY <2>2, <3>2 DEF TakeResponder, Settle, SettleDrain, AfterSettle, Running, Control
      <4>2. loop.at \notin {"lock", "push", "registered", "exit"}
        BY <3>2 DEF TakeResponder, Settle, SettleDrain, Running
      <4>3. QED
        BY <3>1, <4>1, <4>2
    <3>3. CASE Handle \/ (\E r \in Requests : FinishPrompt(r)) \/ FailAll
      <4>1. loop'.at \in {"recv", "failAll", "remove", "settle", "launch"}
        BY <3>3, Answering
      <4>2. loop.at \notin {"lock", "push", "registered", "exit"}
        BY <3>3 DEF Handle, FinishPrompt, FailAll, Running
      <4>3. QED
        BY <3>1, <4>1, <4>2
    <3>4. CASE Launch \/ RecvExpiring \/ RecvRequest \/ RecvClosed \/ RecvHostClosed
      BY <2>2, <3>1, <3>4 DEF Launch, LaunchFailed, RecvExpiring, RecvRequest, RecvClosed,
           RecvHostClosed, Take, Running, At
    <3>5. CASE Exit \/ Connection \/ WorkerSeals \/ WorkerDrains \/ ExpireExits \/ UNCHANGED shutdownVars
      <4>1. loop' = loop
        BY <3>5 DEF Connection, Hold, Eof, OnClose, TransportFails, WorkerSeals, WorkerDrains,
             ExpireExits, shutdownVars, Exit
      <4>2. QED
        BY <3>1, <4>1
    <3>6. QED
      BY <2>11, <3>2, <3>3, <3>4, <3>5
  <2>12. QED
    BY <2>3, <2>4, <2>5, <2>6, <2>7, <2>8, <2>9, <2>10, <2>11 DEF ShutdownNext, Loop, Deadline
<1>3. QED
  BY <1>1, <1>2, ShutdownTypeCorrect, ControlHolds, PTL DEF ShutdownSpec

\* Every host the loop launches is registered before it is used, and whatever takes a
\* host from the loop's hosts has stopped it.
LEMMA WatchedHolds == ShutdownSpec => []Watched
<1> USE DEF Watched, Launching
<1>1. ShutdownInit => Watched
  BY DEF ShutdownInit, At
<1>2. ShutdownTypeOK /\ Control /\ Watched /\ [ShutdownNext]_shutdownVars => Watched'
  <2> SUFFICES ASSUME ShutdownTypeOK, Control, Watched, [ShutdownNext]_shutdownVars PROVE Watched'
    OBVIOUS
  <2>1. /\ registry \subseteq HostIds /\ current \subseteq HostIds
        /\ host \in [HostIds -> {"none", "up", "stopped"}] /\ view \in [HostIds -> BOOLEAN]
    BY DEF ShutdownTypeOK, HostOK
  <2>2. /\ loop \in [at : Places, id : Requests \cup {Nil}, h : HostIds \cup {Nil},
                     next : {"recv", "handle", "failAll", "force"}]
        /\ loop.at \in {"lock", "push", "registered"} => loop.h \in HostIds
    BY DEF ShutdownTypeOK, LoopOK
  <2>3. CASE Spawn
    <3>1. UNCHANGED <<registry, current, exited>> /\ loop.at = "spawn" /\ ~exited
      BY <2>3 DEF Spawn, Running
    <3>2. CASE loop' = LaunchFailed /\ UNCHANGED <<host, view>>
      BY <2>2, <3>1, <3>2 DEF LaunchFailed
    <3>3. ASSUME NEW h \in HostIds, NEW has \in BOOLEAN,
                 host' = [host EXCEPT ![h] = "up"], view' = [view EXCEPT ![h] = has],
                 loop' = Step("lock", loop.id, h, loop.next)
          PROVE  Watched'
      BY <2>1, <3>1, <3>3
    <3>4. QED
      BY <2>3, <3>2, <3>3 DEF Spawn
  <2>4. CASE RegisterLock
    BY <2>1, <2>2, <2>4 DEF RegisterLock, Running
  <2>5. CASE RegisterPush
    BY <2>1, <2>2, <2>5 DEF RegisterPush, Running
  <2>6. CASE Registered
    <3>1. registry' = registry /\ loop.at = "registered" /\ ~exited /\ ~exited'
      BY <2>6 DEF Registered, Running
    <3>2. CASE expiring
      <4>1. current' = current /\ loop'.at \in {"handle", "failAll"}
        BY <2>2, <2>6, <3>2 DEF Registered, LaunchFailed
      <4>2. \A h \in HostIds : /\ h = loop.h => host'[h] = "stopped"
                               /\ h # loop.h => host'[h] = host[h] /\ (view'[h] => view[h])
        BY <2>1, <2>6, <3>2 DEF Registered, ForceStop, KillHost, TakeViews
      <4>3. QED
        BY <2>1, <3>1, <4>1, <4>2
    <3>3. CASE ~expiring
      BY <2>1, <2>2, <2>6, <3>1, <3>3 DEF Registered, Control
    <3>4. QED
      BY <3>2, <3>3
  <2>7. CASE Reap \/ StopHosts \/ ForceStopHosts
    <3>1. registry' = registry /\ ~exited'
      BY <2>7 DEF Reap, StopHosts, ForceStopHosts, Running
    <3>2. \A h \in HostIds : /\ host'[h] = host[h] \/ host'[h] = "stopped"
                             /\ view'[h] => view[h]
      BY <2>1, <2>7 DEF Reap, StopHosts, ForceStopHosts, StopHost, ForceStop, KillHost, TakeViews
    <3>3. CASE Reap
      <4>1. loop.at = "reap" /\ loop'.at \notin {"lock", "push", "registered", "exit"}
            /\ current' = current \ {loop.h}
        BY <3>3 DEF Reap, Running, At
      <4>2. \A h \in HostIds : h = loop.h => host'[h] = "stopped"
        BY <2>1, <3>3 DEF Reap, StopHost, KillHost
      <4>3. QED
        BY <2>1, <3>1, <3>2, <4>1, <4>2
    <3>4. CASE StopHosts \/ ForceStopHosts
      <4>1. \A h \in current : host'[h] = "stopped"
        BY <2>1, <3>4 DEF StopHosts, ForceStopHosts, StopHost, ForceStop, KillHost
      <4>2. loop.at \in {"stop", "force"} /\ loop'.at = "exit" /\ current' = current
        BY <2>2, <3>4 DEF StopHosts, ForceStopHosts, Running
      <4>3. QED
        BY <2>1, <3>1, <3>2, <4>1, <4>2
    <3>5. QED
      BY <2>7, <3>3, <3>4
  <2>8. CASE StopperRuns \/ \E h \in HostIds : HostDies(h)
    <3>1. UNCHANGED <<registry, current, loop, exited>> /\ ~exited
      <4>1. StopperRuns => UNCHANGED <<registry, current, loop, exited>> /\ ~exited
        BY DEF StopperRuns
      <4>2. ASSUME NEW h \in HostIds, HostDies(h)
            PROVE  UNCHANGED <<registry, current, loop, exited>> /\ ~exited
        BY <4>2 DEF HostDies
      <4>3. QED
        BY <2>8, <4>1, <4>2
    <3>2. \A h \in HostIds : (host'[h] = host[h] \/ host'[h] = "stopped") /\ (view'[h] => view[h])
      BY <2>1, <2>8 DEF StopperRuns, HostDies, ForceStop, KillHost, TakeViews
    <3>3. QED
      BY <2>1, <3>1, <3>2
  <2>11. CASE \/ Connection \/ WorkerSeals \/ WorkerDrains \/ ExpireExits \/ UNCHANGED shutdownVars
              \/ TakeResponder \/ Launch \/ RecvExpiring \/ RecvRequest \/ RecvClosed \/ RecvHostClosed
              \/ Handle \/ (\E r \in Requests : FinishPrompt(r)) \/ FailAll \/ Settle
              \/ SettleDrain \/ Exit \/ Expire
    <3>1. UNCHANGED <<registry, current, host, view>> /\ (stopper = "done" => stopper' = "done")
      BY <2>11 DEF Connection, Hold, Eof, OnClose, TransportFails, WorkerSeals, WorkerDrains,
           ExpireExits, shutdownVars, TakeResponder, Launch, RecvExpiring, RecvRequest, RecvClosed,
           RecvHostClosed, Handle, FinishPrompt, FailAll, Settle, SettleDrain, Exit, Expire, hostVars,
           deadlineVars, Control
    <3>2. CASE TakeResponder \/ Settle \/ SettleDrain
      <4>1. loop'.at \in {"recv", "failAll", "drain", "force", "stop"}
        BY <2>2, <3>2 DEF TakeResponder, Settle, SettleDrain, AfterSettle, Running, Control
      <4>2. loop.at \notin {"lock", "push", "registered", "exit"} /\ ~exited'
        BY <3>2 DEF TakeResponder, Settle, SettleDrain, Running
      <4>3. QED
        BY <3>1, <4>1, <4>2
    <3>3. CASE Handle \/ (\E r \in Requests : FinishPrompt(r)) \/ FailAll
      <4>1. loop'.at \in {"recv", "failAll", "remove", "settle", "launch"}
        BY <3>3, Answering
      <4>2. loop.at \notin {"lock", "push", "registered", "exit"} /\ ~exited'
        BY <3>3 DEF Handle, FinishPrompt, FailAll, Running
      <4>3. QED
        BY <3>1, <4>1, <4>2
    <3>4. CASE Launch \/ RecvExpiring \/ RecvRequest \/ RecvClosed \/ RecvHostClosed
      BY <2>2, <3>1, <3>4 DEF Launch, LaunchFailed, RecvExpiring, RecvRequest, RecvClosed,
           RecvHostClosed, Take, Running, At
    <3>5. CASE \/ Exit \/ Connection \/ WorkerSeals \/ WorkerDrains \/ ExpireExits \/ Expire
               \/ UNCHANGED shutdownVars
      <4>1. loop' = loop /\ (exited' => exited \/ loop.at = "exit" \/ stopper' = "done")
        BY <3>5 DEF Connection, Hold, Eof, OnClose, TransportFails, WorkerSeals, WorkerDrains,
             ExpireExits, Expire, shutdownVars, Exit, Running, deadlineVars
      <4>2. QED
        BY <3>1, <4>1
    <3>6. QED
      BY <2>11, <3>2, <3>3, <3>4, <3>5
  <2>12. QED
    BY <2>3, <2>4, <2>5, <2>6, <2>7, <2>8, <2>11 DEF ShutdownNext, Loop, Deadline
<1>3. QED
  BY <1>1, <1>2, ShutdownTypeCorrect, ControlHolds, PTL DEF ShutdownSpec

\* shutdown.rs and Hosts::shutdown: when the process is gone, no host runs except one that
\* was being launched or that a deadline which found the registry locked passed over, and
\* no settings view is left except theirs and those of a loop that exits before the
\* deadline has looked.
THEOREM NoHostOutlivesUsHolds == ShutdownSpec => []NoHostOutlivesUs
<1>1. ShutdownTypeOK /\ Control /\ Accounted /\ Watched => NoHostOutlivesUs
  <2> SUFFICES ASSUME ShutdownTypeOK, Control, Accounted, Watched, exited, NEW h \in HostIds
               PROVE  /\ host[h] = "up" => Launching(h) \/ (missed /\ loop.at # "exit")
                      /\ view[h] => Launching(h) \/ missed \/ stopper = "collect"
    BY DEF NoHostOutlivesUs
  <2> USE DEF Dead, AtHand, Launching
  <2>1. stopper \in {"none", "collect", "done"} /\ (stopper = "none" => loop.at = "exit")
    BY DEF ShutdownTypeOK, FlagsOK, Control
  <2>2. ASSUME host[h] = "up", ~Launching(h) PROVE missed /\ loop.at # "exit"
    BY <2>1, <2>2 DEF Watched, Accounted
  <2>3. ASSUME view[h], ~Launching(h), ~missed PROVE stopper = "collect"
    BY <2>1, <2>3 DEF Watched, Accounted
  <2>4. QED
    BY <2>2, <2>3
<1>2. QED
  BY <1>1, ShutdownTypeCorrect, ControlHolds, AccountedHolds, WatchedHolds, PTL
==============================================================================
