----------------------- MODULE SubagentsAndReviewProofs ------------------------
(* Theorems about Subagents, for any number of reports, generations and        *)
(* transcript items, and about AutoReview, for any number of approvals under   *)
(* review, reviewer hosts, retries and host failures.                          *)
EXTENDS Subagents, AutoReview, SequenceTheorems, FiniteSetTheorems, TLAPS

USE BoundsAssumption DEF Gens

\* What a sequence of lines holds for a generation, and that it holds it once.
Is(l, kind, g) == l.kind = kind /\ l.gen = g
Has(s, kind, g) == \E i \in DOMAIN s : Is(s[i], kind, g)
Once(s, kind, g) == \A i, j \in DOMAIN s : Is(s[i], kind, g) /\ Is(s[j], kind, g) => i = j

\* The lines that name a state, and the state the last of them names.
Told(l) == l.kind = "state" \/ (l.kind = "spawned" /\ l.value # None)
NoneTold(s) == \A i \in DOMAIN s : ~Told(s[i])
LastTold(s, v) ==
  \E i \in DOMAIN s : Told(s[i]) /\ s[i].value = v /\ \A j \in DOMAIN s : j > i => ~Told(s[j])

----------------------------------------------------------------------------
(* The invariant.                                                          *)

\* A generation is announced once, by the loop, from the first report on.
SpawnInv ==
  \A g \in Gens :
    /\ Has(sent, "spawned", g) \/ Has(loop.lines, "spawned", g)
         <=> fold.spawned /\ g <= fold.gen
    /\ ~(Has(sent, "spawned", g) /\ Has(loop.lines, "spawned", g))
    /\ Once(sent, "spawned", g) /\ Once(loop.lines, "spawned", g)

\* The end of a generation is in one place: sent, about to be sent by the loop
\* or by the generation's thread, or held for that thread.
EndedOnce(g) ==
  LET s == Has(sent, "state", g)
      l == Has(loop.lines, "state", g)
      r == Has(reads[g].lines, "state", g)
      h == fold.held[g] # None
  IN  /\ s \/ l \/ r \/ h <=> g < fold.gen \/ (g = fold.gen /\ fold.state # None)
      /\ ~(s /\ l) /\ ~(s /\ r) /\ ~(s /\ h) /\ ~(l /\ r) /\ ~(l /\ h) /\ ~(r /\ h)
      /\ Once(sent, "state", g) /\ Once(loop.lines, "state", g)
      /\ Once(reads[g].lines, "state", g)

EndInv == air => \A g \in Gens : EndedOnce(g)

\* A client of the RFD has one generation, and the last state it is told of is
\* the one the fold has.
Truth == IF fold.state = None THEN "running" ELSE fold.state

RfdInv ==
  ~air =>
    /\ fold.gen = 1
    /\ \A g \in Gens : fold.held[g] = None /\ ~Has(reads[g].lines, "state", g)
    /\ fold.spawned => \/ LastTold(loop.lines, Truth)
                       \/ NoneTold(loop.lines) /\ LastTold(sent, Truth)

\* No line of a generation precedes its announcement.
Before(s, i, g) == \E j \in DOMAIN s : j < i /\ s[j].kind = "spawned" /\ s[j].gen = g
Announced(s, before) ==
  \A i \in DOMAIN s : s[i].kind # "spawned" =>
    Has(before, "spawned", s[i].gen) \/ Before(s, i, s[i].gen)

OrderInv == Announced(sent, <<>>) /\ Announced(loop.lines, sent)

\* The threads: a read is in flight until it is replayed, and there is none for a
\* generation not yet announced.
ReadInv ==
  \A g \in Gens :
    /\ g \in fold.inFlight <=> reads[g].step \in {"reading", "replay"}
    /\ fold.held[g] # None => g \in fold.inFlight
    /\ reads[g].step # "send" => reads[g].lines = <<>>
    /\ \A i \in DOMAIN reads[g].lines : /\ reads[g].lines[i].gen = g
                                        /\ reads[g].lines[i].kind # "spawned"
    /\ reads[g].step # "idle" =>
         /\ Has(sent, "spawned", g) /\ shown # NoFold
         /\ g <= fold.gen /\ (fold.wantRead => g < fold.gen)

\* The loop: what it last handled, and the fold it made of it.
LoopInv ==
  /\ loop.step # "send" => loop.lines = <<>>
  /\ fold.spawned <=> loop.frame.life # None
  /\ ~fold.spawned => loop.step = "idle" /\ fold.gen = 1 /\ shown = NoFold
  /\ fold.wantRead \/ (shown = NoFold /\ fold.spawned) => loop.step # "idle"
  /\ fold.state # None <=> SubagentState(loop.frame.life) # None
  /\ ~air => fold.state = SubagentState(loop.frame.life)
  /\ fold.done \subseteq 0 .. loop.frame.item
  /\ loop.frame.life \notin Closed => loop.frame.item \notin fold.done

\* The reports on the wire follow each other from the one last handled to the
\* host's present state.
Successor(a, b) ==
  \/ b = a /\ a.life \in Open
  \/ /\ b.life \in Follows[a.life]
     /\ b.item = IF a.life \in Closed \cup {None} THEN a.item + 1 ELSE a.item

WireInv ==
  /\ wire = <<>> => loop.frame = Frame
  /\ wire # <<>> => Successor(loop.frame, wire[1]) /\ wire[Len(wire)] = Frame
  /\ \A i \in 1 .. Len(wire) - 1 : Successor(wire[i], wire[i + 1])

IInv == TypeOK /\ SpawnInv /\ EndInv /\ RfdInv /\ OrderInv /\ ReadInv /\ LoopInv /\ WireInv

----------------------------------------------------------------------------
(* Lines in sequences.                                                     *)

LEMMA HasEmpty ==
    ASSUME NEW kind, NEW g
    PROVE  ~Has(<<>>, kind, g) /\ Once(<<>>, kind, g)
BY DEF Has, Once

LEMMA HasOne ==
    ASSUME NEW l, NEW kind, NEW g
    PROVE  (Has(<<l>>, kind, g) <=> Is(l, kind, g)) /\ Once(<<l>>, kind, g)
BY DEF Has, Once

LEMMA HasTwo ==
    ASSUME NEW a, NEW b, NEW kind, NEW g
    PROVE  /\ Has(<<a, b>>, kind, g) <=> Is(a, kind, g) \/ Is(b, kind, g)
           /\ ~(Is(a, kind, g) /\ Is(b, kind, g)) => Once(<<a, b>>, kind, g)
<1> DEFINE s == <<a, b>>
<1>1. DOMAIN s = {1, 2} /\ s[1] = a /\ s[2] = b
  OBVIOUS
<1> HIDE DEF s
<1>2. Has(s, kind, g) <=> Is(a, kind, g) \/ Is(b, kind, g)
  BY <1>1 DEF Has
<1>3. ~(Is(a, kind, g) /\ Is(b, kind, g)) => Once(s, kind, g)
  BY <1>1 DEF Once
<1>4. QED
  BY <1>2, <1>3 DEF s

\* A line sent is added to what was sent.
LEMMA HasAppend ==
    ASSUME NEW S, NEW s \in Seq(S), NEW l \in S, NEW kind, NEW g
    PROVE  /\ Append(s, l) \in Seq(S)
           /\ Has(Append(s, l), kind, g) <=> Has(s, kind, g) \/ Is(l, kind, g)
           /\ Once(s, kind, g) /\ ~(Has(s, kind, g) /\ Is(l, kind, g))
                => Once(Append(s, l), kind, g)
<1> DEFINE t == Append(s, l)
           n == Len(s)
<1>1. /\ t \in Seq(S) /\ n \in Nat /\ DOMAIN s = 1 .. n /\ DOMAIN t = 1 .. n + 1
      /\ t[n + 1] = l /\ \A i \in 1 .. n : t[i] = s[i]
  OBVIOUS
<1> HIDE DEF t, n
<1>2. \A i \in 1 .. n + 1 : i = n + 1 \/ i \in 1 .. n
  BY <1>1
<1>3. Has(t, kind, g) <=> Has(s, kind, g) \/ Is(l, kind, g)
  <2>1. ASSUME Has(t, kind, g) PROVE Has(s, kind, g) \/ Is(l, kind, g)
    BY <1>1, <1>2, <2>1 DEF Has
  <2>2. ASSUME Has(s, kind, g) PROVE Has(t, kind, g)
    <3>1. PICK i \in 1 .. n : Is(s[i], kind, g)
      BY <1>1, <2>2 DEF Has
    <3>2. i \in 1 .. n + 1 /\ t[i] = s[i]
      BY <1>1
    <3>3. QED
      BY <1>1, <3>1, <3>2 DEF Has
  <2>3. ASSUME Is(l, kind, g) PROVE Has(t, kind, g)
    <3>1. n + 1 \in 1 .. n + 1
      BY <1>1
    <3>2. QED
      BY <1>1, <2>3, <3>1 DEF Has
  <2>4. QED
    BY <2>1, <2>2, <2>3
<1>4. ASSUME Once(s, kind, g), ~(Has(s, kind, g) /\ Is(l, kind, g)) PROVE Once(t, kind, g)
  <2>1. SUFFICES ASSUME NEW i \in 1 .. n + 1, NEW j \in 1 .. n + 1,
                        Is(t[i], kind, g), Is(t[j], kind, g)
                 PROVE  i = j
    BY <1>1 DEF Once
  <2>2. CASE i \in 1 .. n /\ j \in 1 .. n
    BY <1>1, <1>4, <2>1, <2>2 DEF Once
  <2>3. CASE i = n + 1 /\ j \in 1 .. n
    BY <1>1, <1>4, <2>1, <2>3 DEF Has
  <2>4. CASE j = n + 1 /\ i \in 1 .. n
    BY <1>1, <1>4, <2>1, <2>4 DEF Has
  <2>5. QED
    BY <1>2, <2>2, <2>3, <2>4
<1>5. QED
  BY <1>1, <1>3, <1>4 DEF t

\* What is left to send when a line was sent.
LEMMA HasHead ==
    ASSUME NEW S, NEW s \in Seq(S), s # <<>>, NEW kind, NEW g
    PROVE  /\ Head(s) \in S /\ Tail(s) \in Seq(S)
           /\ Has(s, kind, g) <=> Is(Head(s), kind, g) \/ Has(Tail(s), kind, g)
           /\ Once(s, kind, g) => /\ Once(Tail(s), kind, g)
                                  /\ ~(Is(Head(s), kind, g) /\ Has(Tail(s), kind, g))
<1> DEFINE t == Tail(s)
           n == Len(t)
<1>1. /\ t \in Seq(S) /\ n \in Nat /\ DOMAIN t = 1 .. n /\ DOMAIN s = 1 .. n + 1
      /\ s[1] = Head(s) /\ Head(s) \in S /\ \A i \in 1 .. n : t[i] = s[i + 1]
  OBVIOUS
<1> HIDE DEF t, n
<1>2. \A i \in 1 .. n + 1 : i = 1 \/ i - 1 \in 1 .. n
  BY <1>1
<1>3. \A i \in 1 .. n : i + 1 \in 1 .. n + 1 /\ i + 1 # 1
  BY <1>1
<1>4. Has(s, kind, g) <=> Is(Head(s), kind, g) \/ Has(t, kind, g)
  <2>1. ASSUME NEW i \in 1 .. n + 1, Is(s[i], kind, g)
        PROVE  Is(Head(s), kind, g) \/ Has(t, kind, g)
    <3>1. CASE i = 1
      BY <1>1, <2>1, <3>1
    <3>2. CASE i - 1 \in 1 .. n
      <4>1. t[i - 1] = s[i]
        BY <1>1, <3>2
      <4>2. QED
        BY <1>1, <2>1, <3>2, <4>1 DEF Has
    <3>3. QED
      BY <1>2, <3>1, <3>2
  <2>2. Has(t, kind, g) => Has(s, kind, g)
    BY <1>1, <1>3 DEF Has
  <2>3. Is(Head(s), kind, g) => Has(s, kind, g)
    <3>1. 1 \in 1 .. n + 1
      BY <1>1
    <3>2. QED
      BY <1>1, <3>1 DEF Has
  <2>4. Has(s, kind, g) => \E i \in 1 .. n + 1 : Is(s[i], kind, g)
    BY <1>1 DEF Has
  <2>5. QED
    BY <2>1, <2>2, <2>3, <2>4
<1>5. ASSUME Once(s, kind, g)
      PROVE  Once(t, kind, g) /\ ~(Is(Head(s), kind, g) /\ Has(t, kind, g))
  <2>1. \A i, j \in 1 .. n + 1 : Is(s[i], kind, g) /\ Is(s[j], kind, g) => i = j
    BY <1>1, <1>5 DEF Once
  <2>2. \A i, j \in 1 .. n : i + 1 = j + 1 => i = j
    OBVIOUS
  <2>3. Once(t, kind, g)
    BY <1>1, <1>3, <2>1, <2>2 DEF Once
  <2>4. ~(Is(Head(s), kind, g) /\ Has(t, kind, g))
    <3>1. 1 \in 1 .. n + 1
      BY <1>1
    <3>2. QED
      BY <1>1, <1>3, <2>1, <3>1 DEF Has
  <2>5. QED
    BY <2>3, <2>4
<1>6. QED
  BY <1>1, <1>4, <1>5 DEF t

----------------------------------------------------------------------------
(* The host.                                                               *)

LEMMA InitOK == Init => IInv
<1> SUFFICES ASSUME Init PROVE IInv
  OBVIOUS
<1>1. /\ sent = <<>> /\ wire = <<>> /\ loop.lines = <<>> /\ loop.step = "idle"
      /\ loop.frame = Frame /\ loop.frame.life = None /\ loop.frame.item = 0
      /\ fold.spawned = FALSE /\ fold.gen = 1 /\ fold.state = None /\ fold.inFlight = {}
      /\ fold.wantRead = FALSE /\ fold.done = {} /\ shown = NoFold
      /\ \A g \in Gens : reads[g] = NoRead /\ fold.held[g] = None
  BY DEF Init, Frame
<1>2. TypeOK
  BY DEF Init, TypeOK, Lives, Frames, NoRead, NoFold
<1>3. SpawnInv
  BY <1>1, HasEmpty DEF SpawnInv
<1>4. EndInv
  BY <1>1, HasEmpty DEF EndInv, EndedOnce, NoRead
<1>5. RfdInv
  BY <1>1, HasEmpty DEF RfdInv, NoRead
<1>6. OrderInv
  BY <1>1 DEF OrderInv, Announced
<1>7. ReadInv
  BY <1>1 DEF ReadInv, NoRead
<1>8. LoopInv
  BY <1>1 DEF LoopInv, SubagentState, None
<1>9. WireInv
  BY <1>1 DEF WireInv
<1>10. QED
  BY <1>2, <1>3, <1>4, <1>5, <1>6, <1>7, <1>8, <1>9 DEF IInv

\* Nothing but the wire and the host's state is in WireInv and not in the others.
LEMMA OthersOK ==
    ASSUME IInv, UNCHANGED <<air, fold, loop, shown, reads, sent>>
    PROVE  SpawnInv' /\ EndInv' /\ RfdInv' /\ OrderInv' /\ ReadInv' /\ LoopInv'
BY DEF IInv, SpawnInv, EndInv, EndedOnce, RfdInv, Truth, OrderInv, ReadInv, LoopInv

\* A report follows the last one.
LEMMA ReportOK ==
    ASSUME IInv, NEW f \in Frames, Successor(Frame, f), Frame' = f,
           wire' = Append(wire, f), frames' \in 0 .. MaxFrames,
           life' \in Lives, item' \in Nat,
           UNCHANGED <<air, texts, fold, loop, shown, reads, sent>>
    PROVE  IInv'
<1> DEFINE n == Len(wire)
<1>1. TypeOK /\ WireInv
  BY DEF IInv
<1>2. wire \in Seq(Frames) /\ n \in Nat
  BY <1>1 DEF TypeOK
<1>3. /\ wire' \in Seq(Frames) /\ Len(wire') = n + 1 /\ wire' # <<>>
      /\ wire'[n + 1] = f /\ \A i \in 1 .. n : wire'[i] = wire[i]
  BY <1>2
<1>4. TypeOK'
  BY <1>1, <1>3 DEF TypeOK
<1>5. Successor(loop.frame, wire'[1])
  <2>1. CASE wire = <<>>
    BY <1>1, <1>3, <2>1 DEF WireInv
  <2>2. CASE wire # <<>>
    <3>1. 1 \in 1 .. n
      BY <1>2, <2>2
    <3>2. QED
      BY <1>1, <1>3, <2>2, <3>1 DEF WireInv
  <2>3. QED
    BY <2>1, <2>2
<1>6. ASSUME NEW i \in 1 .. n PROVE Successor(wire'[i], wire'[i + 1])
  <2>1. CASE i = n
    <3>1. wire # <<>> /\ wire[n] = Frame
      BY <1>1, <1>2, <1>6, <2>1 DEF WireInv
    <3>2. QED
      BY <1>3, <2>1, <3>1
  <2>2. CASE i \in 1 .. n - 1
    <3>1. Successor(wire[i], wire[i + 1]) /\ i + 1 \in 1 .. n
      BY <1>1, <1>2, <2>2 DEF WireInv
    <3>2. QED
      BY <1>3, <3>1
  <2>3. QED
    BY <1>2, <1>6, <2>1, <2>2
<1>7. WireInv'
  BY <1>2, <1>3, <1>5, <1>6 DEF WireInv
<1>8. QED
  BY <1>4, <1>7, OthersOK DEF IInv

LEMMA MovesOK ==
    ASSUME IInv, NEW next \in Lives, Moves(next),
           UNCHANGED <<air, texts, fold, loop, shown, reads, sent>>
    PROVE  IInv'
<1> DEFINE f == [item |-> item', life |-> next]
<1>1. /\ item \in Nat /\ frames \in 0 .. MaxFrames /\ frames < MaxFrames
      /\ frames' = frames + 1 /\ life' = next /\ wire' = Append(wire, f)
      /\ item' = IF life \in Closed \cup {None} THEN item + 1 ELSE item
      /\ next \in Follows[life]
  BY DEF IInv, TypeOK, Moves
<1>2. f \in Frames /\ item' \in Nat /\ frames' \in 0 .. MaxFrames
  BY <1>1 DEF Frames
<1>3. Frame' = f /\ Successor(Frame, f)
  BY <1>1 DEF Frame, Successor
<1>4. QED
  BY <1>1, <1>2, <1>3, ReportOK

LEMMA ChildOK == IInv /\ (HostMoves \/ HostRepeats \/ HostWrites
                         \/ \E method \in DOMAIN Allowed : SubagentControl(method)) => IInv'
<1>1. ASSUME IInv, HostMoves PROVE IInv'
  BY <1>1, MovesOK DEF HostMoves, Lives
<1>2. ASSUME IInv, NEW method \in DOMAIN Allowed, SubagentControl(method) PROVE IInv'
  <2>1. life \in Lives /\ Moves(Effect(method, life))
    BY <1>2 DEF IInv, TypeOK, SubagentControl
  <2>2. Effect(method, life) \in Lives
    BY <2>1 DEF Effect, Lives, Open, Closed
  <2>3. QED
    BY <1>2, <2>1, <2>2, MovesOK DEF SubagentControl
<1>3. ASSUME IInv, HostRepeats PROVE IInv'
  <2>1. /\ Frame \in Frames /\ Frame' = Frame /\ Successor(Frame, Frame)
        /\ frames' \in 0 .. MaxFrames /\ life' \in Lives /\ item' \in Nat
    BY <1>3 DEF IInv, TypeOK, HostRepeats, Frame, Frames, Successor
  <2>2. QED
    BY <1>3, <2>1, ReportOK DEF HostRepeats
<1>4. ASSUME IInv, HostWrites PROVE IInv'
  <2>1. TypeOK'
    BY <1>4 DEF IInv, TypeOK, HostWrites
  <2>2. WireInv'
    BY <1>4 DEF IInv, WireInv, HostWrites, Frame
  <2>3. QED
    BY <1>4, <2>1, <2>2, OthersOK DEF IInv, HostWrites
<1>5. QED
  BY <1>1, <1>2, <1>3, <1>4

----------------------------------------------------------------------------
(* The fold.                                                               *)

FoldType == [spawned : BOOLEAN, state : States \cup {None}, gen : Gens,
             wantRead : BOOLEAN, inFlight : SUBSET Gens,
             held : [Gens -> States \cup {None}], done : SUBSET Nat, observed : Lives]

\* What a report does to the fold besides the child's state.
SameFold(h, f) ==
  /\ h.inFlight = f.inFlight /\ h.done = f.done /\ h.observed = f.observed
  /\ h.spawned = f.spawned

Unsettled(h, f) == SameFold(h, f) /\ h.gen = f.gen /\ h.wantRead = f.wantRead

LEMMA StateType ==
    ASSUME NEW l \in Lives
    PROVE  SubagentState(l) \in States \cup {None} /\ None \notin States /\ "running" \notin States
BY DEF SubagentState, Lives, Open, Closed, States, None

LEMMA Joined ==
    ASSUME NEW a, NEW b
    PROVE  /\ <<>> \o <<>> = <<>> /\ <<>> \o <<a>> = <<a>> /\ <<>> \o <<b, a>> = <<b, a>>
           /\ <<a>> \o <<>> = <<a>> /\ <<b>> \o <<a>> = <<b, a>>
<1> DEFINE S == {a, b}
<1>1. /\ <<>> \in Seq(S) /\ <<a>> \in Seq(S) /\ <<b>> \in Seq(S) /\ <<b, a>> \in Seq(S)
  OBVIOUS
<1>2. /\ <<b>> \o <<a>> \in Seq(S) /\ Len(<<b>> \o <<a>>) = 2
      /\ (<<b>> \o <<a>>)[1] = b /\ (<<b>> \o <<a>>)[2] = a
  BY <1>1
<1>3. Len(<<b, a>>) = 2 /\ <<b, a>>[1] = b /\ <<b, a>>[2] = a
  OBVIOUS
<1>4. \A i \in 1 .. 2 : i = 1 \/ i = 2
  OBVIOUS
<1> HIDE DEF S
<1>5. <<b>> \o <<a>> = <<b, a>>
  BY <1>1, <1>2, <1>3, <1>4, SeqEqual
<1>6. QED
  BY <1>1, <1>5, ConcatEmptySeq

\* The lines a report makes: none, one, or two.
Orderly(s, first) ==
  \A i \in DOMAIN s : s[i].kind # "spawned" =>
    /\ s[i].kind = "state" /\ s[i].gen = fold.gen
    /\ first => \E j \in DOMAIN s : j < i /\ s[j].kind = "spawned" /\ s[j].gen = fold.gen

LEMMA NoLine ==
    ASSUME NEW first
    PROVE  NoneTold(<<>>) /\ Orderly(<<>>, first) /\ <<>> \in Seq(Lines)
BY DEF NoneTold, Orderly

LEMMA OneLine ==
    ASSUME NEW a \in Lines, NEW first, a.kind = "state" => a.gen = fold.gen /\ ~first, a.kind # "text"
    PROVE  /\ Told(a) => LastTold(<<a>>, a.value)
           /\ Orderly(<<a>>, first) /\ <<a>> \in Seq(Lines)
<1> DEFINE s == <<a>>
<1>1. DOMAIN s = {1} /\ s[1] = a /\ s \in Seq(Lines)
  OBVIOUS
<1>2. a.kind \in {"spawned", "state", "text"}
  BY DEF Lines
<1> HIDE DEF s
<1>3. Told(a) => LastTold(s, a.value)
  BY <1>1 DEF LastTold
<1>4. Orderly(s, first)
  BY <1>1, <1>2 DEF Orderly
<1>5. QED
  BY <1>1, <1>3, <1>4 DEF s

LEMMA TwoLines ==
    ASSUME NEW a \in Lines, NEW b \in Lines, NEW first \in BOOLEAN,
           \/ a.kind = "spawned" /\ a.gen = fold.gen /\ b.kind = "state" /\ b.gen = fold.gen
           \/ ~first /\ a.kind = "state" /\ a.gen = fold.gen /\ b.kind = "spawned"
    PROVE  /\ Told(b) => LastTold(<<a, b>>, b.value)
           /\ Orderly(<<a, b>>, first) /\ <<a, b>> \in Seq(Lines)
<1> DEFINE s == <<a, b>>
<1>1. DOMAIN s = {1, 2} /\ s[1] = a /\ s[2] = b /\ s \in Seq(Lines)
  OBVIOUS
<1> HIDE DEF s
<1>2. Told(b) => LastTold(s, b.value)
  BY <1>1 DEF LastTold
<1>3. Orderly(s, first)
  BY <1>1 DEF Orderly
<1>4. QED
  BY <1>1, <1>2, <1>3 DEF s

\* The three things a report may do to the child's state: nothing, run it again,
\* or settle it.
LEMMA SettleEffect ==
    ASSUME NEW f \in FoldType, NEW l \in Lives
    PROVE  LET r  == SettleSubagent(f, l)
               h  == r.fold
               st == SubagentState(l)
           IN  \/ /\ h = f /\ r.out = <<>>
                  /\ st = None => l # "running" \/ f.state = None
                  /\ st # None => f.state = st \/ (air /\ f.state # None)
               \/ /\ l = "running" /\ f.state # None /\ air
                  /\ SameFold(h, f) /\ h.state = None /\ h.gen = f.gen + 1 /\ h.wantRead = TRUE
                  /\ h.held = [f.held EXCEPT ![f.gen] = None]
                  /\ r.out = IF f.held[f.gen] = None THEN <<Line("spawned", f.gen + 1, None)>>
                             ELSE <<Line("state", f.gen, f.held[f.gen]),
                                    Line("spawned", f.gen + 1, None)>>
                  /\ h.gen \in Gens => h \in FoldType
               \/ /\ l = "running" /\ f.state # None /\ ~air
                  /\ Unsettled(h, f) /\ h.state = None /\ h.held = f.held
                  /\ r.out = <<Line("state", f.gen, "running")>>
                  /\ h \in FoldType
               \/ /\ st # None /\ f.state # st /\ (air => f.state = None)
                  /\ Unsettled(h, f) /\ h.state = st /\ h \in FoldType
                  /\ IF air /\ f.gen \in f.inFlight
                     THEN h.held = [f.held EXCEPT ![f.gen] = st] /\ r.out = <<>>
                     ELSE h.held = f.held /\ r.out = <<Line("state", f.gen, st)>>
<1> DEFINE r  == SettleSubagent(f, l)
           h  == r.fold
           st == SubagentState(l)
<1>1. st \in States \cup {None} /\ (l = "running" => st = None) /\ f.gen \in Gens
  BY StateType DEF SubagentState, None, FoldType
<1> HIDE DEF st
<1>2. CASE st = None /\ l = "running" /\ f.state # None /\ air
  <2> DEFINE g == [f EXCEPT !.state = None, !.held[f.gen] = None,
                            !.gen = f.gen + 1, !.wantRead = TRUE]
             o == (IF f.held[f.gen] = None THEN <<>>
                   ELSE <<Line("state", f.gen, f.held[f.gen])>>)
                  \o <<Line("spawned", f.gen + 1, None)>>
  <2>1. r = [fold |-> g, out |-> o]
    BY <1>2 DEF SettleSubagent, RunsAgain, st
  <2>2. /\ SameFold(g, f) /\ g.state = None /\ g.gen = f.gen + 1 /\ g.wantRead = TRUE
        /\ g.held = [f.held EXCEPT ![f.gen] = None]
        /\ g.gen \in Gens => g \in FoldType
    BY <1>1 DEF FoldType, SameFold
  <2>3. o = IF f.held[f.gen] = None THEN <<Line("spawned", f.gen + 1, None)>>
            ELSE <<Line("state", f.gen, f.held[f.gen]), Line("spawned", f.gen + 1, None)>>
    <3>1. \A a, b : <<>> \o <<a>> = <<a>> /\ <<b>> \o <<a>> = <<b, a>>
      BY Joined
    <3>2. CASE f.held[f.gen] = None
      BY <3>1, <3>2
    <3>3. CASE f.held[f.gen] # None
      BY <3>1, <3>3
    <3>4. QED
      BY <3>2, <3>3
  <2> HIDE DEF g, o
  <2>4. h = g /\ r.out = o
    BY <2>1
  <2>5. QED
    BY <1>2, <2>2, <2>3, <2>4 DEF st
<1>3. CASE st = None /\ l = "running" /\ f.state # None /\ ~air
  <2> DEFINE g == [f EXCEPT !.state = None]
  <2>1. r = [fold |-> g, out |-> <<Line("state", f.gen, "running")>>]
    BY <1>3 DEF SettleSubagent, RunsAgain, st
  <2>2. Unsettled(g, f) /\ g.state = None /\ g.held = f.held /\ g \in FoldType
    BY DEF Unsettled, SameFold, FoldType
  <2> HIDE DEF g
  <2>3. h = g /\ r.out = <<Line("state", f.gen, "running")>>
    BY <2>1
  <2> HIDE DEF r, h
  <2>4. QED
    BY <1>3, <2>2, <2>3 DEF r, h
<1>4. CASE st # None /\ f.state # st /\ ~(air /\ f.state # None)
  <2>1. r = Settles(f, st)
    BY <1>4 DEF SettleSubagent, ChildFinished, st
  <2>2. CASE air /\ f.gen \in f.inFlight
    <3> DEFINE e == [f EXCEPT !.state = st]
               g == [e EXCEPT !.held[f.gen] = st]
    <3>1. r = [fold |-> g, out |-> <<>>]
      BY <2>1, <2>2 DEF Settles
    <3>2. Unsettled(e, f) /\ e.state = st /\ e.held = f.held /\ e \in FoldType
      BY <1>1 DEF Unsettled, SameFold, FoldType
    <3> HIDE DEF e
    <3>3. /\ Unsettled(g, f) /\ g.state = st /\ g.held = [f.held EXCEPT ![f.gen] = st]
          /\ g \in FoldType
      BY <1>1, <1>4, <3>2 DEF Unsettled, SameFold, FoldType
    <3> HIDE DEF g
    <3>4. h = g /\ r.out = <<>>
      BY <3>1
    <3> HIDE DEF r, h
    <3>5. QED
      BY <1>4, <2>2, <3>3, <3>4 DEF st, r, h
  <2>3. CASE ~(air /\ f.gen \in f.inFlight)
    <3> DEFINE g == [f EXCEPT !.state = st]
    <3>1. r = [fold |-> g, out |-> <<Line("state", f.gen, st)>>]
      BY <2>1, <2>3 DEF Settles
    <3>2. Unsettled(g, f) /\ g.state = st /\ g.held = f.held /\ g \in FoldType
      BY <1>1 DEF Unsettled, SameFold, FoldType
    <3> HIDE DEF g
    <3>3. h = g /\ r.out = <<Line("state", f.gen, st)>>
      BY <3>1
    <3> HIDE DEF r, h
    <3>4. QED
      BY <1>4, <2>3, <3>2, <3>3 DEF st, r, h
  <2>4. QED
    BY <2>2, <2>3
<1>5. CASE \/ st = None /\ ~(l = "running" /\ f.state # None)
           \/ st # None /\ (f.state = st \/ (air /\ f.state # None))
  <2>1. r = [fold |-> f, out |-> <<>>]
    BY <1>5 DEF SettleSubagent, ChildFinished, st
  <2>2. QED
    BY <1>5, <2>1 DEF st
<1>6. QED
  BY <1>2, <1>3, <1>4, <1>5

\* A report of an item that has not completed: the fold, with the child announced,
\* settles by it.
LEMMA OnItemEffect ==
    ASSUME IInv, NEW fr \in Frames, Successor(loop.frame, fr)
    PROVE  \E f \in FoldType :
             /\ f.spawned = TRUE /\ f.observed = fr.life
             /\ f.done = fold.done \cup (IF fr.life \in Closed THEN {fr.item} ELSE {})
             /\ f.state = fold.state /\ f.gen = fold.gen /\ f.wantRead = fold.wantRead
             /\ f.inFlight = fold.inFlight /\ f.held = fold.held
             /\ OnItem(fold, fr).fold = SettleSubagent(f, fr.life).fold
             /\ OnItem(fold, fr).out =
                  (IF fold.spawned THEN <<>>
                   ELSE <<Line("spawned", 1, IF ~air /\ SubagentState(fr.life) = None
                                             THEN "running" ELSE None)>>)
                  \o SettleSubagent(f, fr.life).out
<1>1. /\ fold \in FoldType /\ fr.life \in Lives /\ fr.item \in Nat
      /\ loop.frame \in Frames /\ loop.frame.item \in Nat
      /\ fold.done \subseteq 0 .. loop.frame.item
      /\ loop.frame.life \notin Closed => loop.frame.item \notin fold.done
  BY DEF IInv, TypeOK, FoldType, LoopInv, Frames
<1>2. fr.item \notin fold.done
  <2>1. CASE fr.item = loop.frame.item + 1
    BY <1>1, <2>1
  <2>2. CASE fr.item = loop.frame.item /\ loop.frame.life \notin Closed
    BY <1>1, <2>2
  <2>3. loop.frame.life \in Open => loop.frame.life \notin Closed
    BY DEF Open, Closed
  <2>4. QED
    BY <2>1, <2>2, <2>3 DEF Successor
<1> DEFINE a == [fold EXCEPT !.observed = fr.life]
           b == [a EXCEPT !.done = @ \cup {fr.item}]
           c == IF fr.life \in Closed THEN b ELSE a
           f == IF c.spawned THEN c ELSE [c EXCEPT !.spawned = TRUE]
<1>3. /\ a \in FoldType /\ a.observed = fr.life /\ a.done = fold.done
      /\ a.spawned = fold.spawned /\ a.state = fold.state /\ a.gen = fold.gen
      /\ a.wantRead = fold.wantRead /\ a.inFlight = fold.inFlight /\ a.held = fold.held
  BY <1>1 DEF FoldType
<1>4. OnItem(fold, fr) = OnItemSnapshot(c, fr)
  <2>1. OnItem(fold, fr) = IF fr.item \in a.done THEN [fold |-> a, out |-> <<>>]
                           ELSE IF fr.life \in Closed THEN CompleteItem(a, fr)
                           ELSE OnItemSnapshot(a, fr)
    BY DEF OnItem
  <2>2. CompleteItem(a, fr) = OnItemSnapshot(b, fr)
    BY DEF CompleteItem
  <2> HIDE DEF a, b
  <2>3. QED
    BY <1>2, <1>3, <2>1, <2>2
<1> HIDE DEF a
<1>5. /\ c \in FoldType /\ c.observed = fr.life
      /\ c.done = fold.done \cup (IF fr.life \in Closed THEN {fr.item} ELSE {})
      /\ c.spawned = fold.spawned /\ c.state = fold.state /\ c.gen = fold.gen
      /\ c.wantRead = fold.wantRead /\ c.inFlight = fold.inFlight /\ c.held = fold.held
  <2>1. CASE fr.life \in Closed
    BY <1>1, <1>3, <2>1 DEF FoldType
  <2>2. CASE fr.life \notin Closed
    BY <1>3, <2>2
  <2>3. QED
    BY <2>1, <2>2
<1> HIDE DEF c
<1>6. /\ f \in FoldType /\ f.spawned = TRUE /\ f.observed = fr.life /\ f.done = c.done
      /\ f.state = c.state /\ f.gen = c.gen /\ f.wantRead = c.wantRead
      /\ f.inFlight = c.inFlight /\ f.held = c.held
  BY <1>5 DEF FoldType
<1> DEFINE v == IF ~air /\ SubagentState(fr.life) = None THEN "running" ELSE None
           o == IF c.spawned THEN <<>> ELSE <<Line("spawned", 1, v)>>
<1>7. Spawn(c, fr.life).fold = f /\ Spawn(c, fr.life).out = o
  <2>1. CASE c.spawned
    BY <2>1 DEF Spawn
  <2>2. CASE ~c.spawned
    BY <2>2 DEF Spawn
  <2>3. QED
    BY <2>1, <2>2
<1> HIDE DEF f, o
<1>8. /\ OnItem(fold, fr).fold = SettleSubagent(f, fr.life).fold
      /\ OnItem(fold, fr).out = o \o SettleSubagent(f, fr.life).out
  BY <1>4, <1>7 DEF OnItemSnapshot
<1>9. QED
  BY <1>5, <1>6, <1>8 DEF o

\* The loop handles a report: what that does to the fold, and the lines it makes.
Handles(h, out, fr) ==
  LET l     == fr.life
      st    == SubagentState(l)
      NoEnd  == \A g \in Gens : ~Has(out, "state", g)
      End   == \A g \in Gens : Has(out, "state", g) <=> g = fold.gen
      Stays == h.gen = fold.gen /\ h.wantRead = fold.wantRead
  IN  \/ /\ h.state = fold.state /\ Stays /\ h.held = fold.held /\ NoEnd
         /\ st = None => l # "running" \/ fold.state = None
         /\ st # None => fold.state = st \/ (air /\ fold.state # None)
      \/ /\ air /\ st = None /\ fold.state # None /\ fold.spawned
         /\ h.state = None /\ h.gen = fold.gen + 1 /\ h.wantRead = TRUE
         /\ h.held = [fold.held EXCEPT ![fold.gen] = None]
         /\ \A g \in Gens : Has(out, "state", g) <=> g = fold.gen /\ fold.held[g] # None
      \/ /\ ~air /\ st = None /\ fold.state # None /\ fold.spawned
         /\ h.state = None /\ Stays /\ h.held = fold.held /\ End
      \/ /\ st # None /\ fold.state # st /\ (air => fold.state = None)
         /\ h.state = st /\ Stays
         /\ IF air /\ fold.gen \in fold.inFlight
            THEN h.held = [fold.held EXCEPT ![fold.gen] = st] /\ NoEnd
            ELSE h.held = fold.held /\ End

LEMMA HandleEffect ==
    ASSUME IInv, HandleItem
    PROVE  LET fr == wire[1]
               h == fold'
               out == loop'.lines
           IN  /\ loop.lines = <<>> /\ loop'.step = "send" /\ loop'.frame = fr
               /\ fr \in Frames /\ Successor(loop.frame, fr)
               /\ h \in FoldType /\ out \in Seq(Lines) /\ h.spawned = TRUE
               /\ h.inFlight = fold.inFlight
               /\ h.done = fold.done \cup (IF fr.life \in Closed THEN {fr.item} ELSE {})
               /\ \A g \in Gens : Once(out, "spawned", g) /\ Once(out, "state", g)
               /\ \A g \in Gens : Has(out, "spawned", g) <=> \/ ~fold.spawned /\ g = 1
                                                             \/ g = fold.gen + 1 /\ h.gen = g
               /\ Orderly(out, ~fold.spawned)
               /\ \/ NoneTold(out) /\ h.state = fold.state /\ fold.spawned
                  \/ ~air /\ LastTold(out, Truth')
                  \/ air
               /\ Handles(h, out, fr)
<1> DEFINE fr == wire[1]
           l == fr.life
           st == SubagentState(l)
           h == fold'
           out == loop'.lines
           first == ~fold.spawned
<1>1. /\ TypeOK /\ ReadInv /\ LoopInv /\ WireInv /\ RfdInv
      /\ loop.step = "idle" /\ wire # <<>> /\ wire \in Seq(Frames)
  BY DEF IInv, TypeOK, HandleItem
<1>2. /\ Head(wire) = fr /\ fr \in Frames /\ Successor(loop.frame, fr) /\ loop.lines = <<>>
  BY <1>1 DEF WireInv, LoopInv
<1>3. /\ h = OnItem(fold, fr).fold /\ h.gen <= MaxGens
      /\ loop' = [step |-> "send", frame |-> fr, lines |-> OnItem(fold, fr).out]
  BY <1>2 DEF HandleItem
<1>4. loop'.step = "send" /\ loop'.frame = fr /\ out = OnItem(fold, fr).out
  BY <1>3
<1>5. l \in Lives /\ st \in States \cup {None} /\ fold \in FoldType
      /\ (l = "running" => st = None) /\ first \in BOOLEAN
  BY <1>1, <1>2, StateType DEF Frames, TypeOK, FoldType, SubagentState
<1> HIDE DEF fr, st
<1>6. PICK f \in FoldType :
        /\ f.spawned = TRUE /\ f.observed = l
        /\ f.done = fold.done \cup (IF l \in Closed THEN {fr.item} ELSE {})
        /\ f.state = fold.state /\ f.gen = fold.gen /\ f.wantRead = fold.wantRead
        /\ f.inFlight = fold.inFlight /\ f.held = fold.held
        /\ h = SettleSubagent(f, l).fold
        /\ out = (IF fold.spawned THEN <<>>
                  ELSE <<Line("spawned", 1, IF ~air /\ st = None THEN "running" ELSE None)>>)
                 \o SettleSubagent(f, l).out
  BY <1>2, <1>3, <1>4, OnItemEffect DEF st
<1> HIDE DEF l, h, out
<1> DEFINE s == SettleSubagent(f, l).out
           v == IF ~air /\ st = None THEN "running" ELSE None
           sp1 == Line("spawned", 1, v)
           sp2 == Line("spawned", fold.gen + 1, None)
<1>7. /\ fold.gen \in Gens /\ fold.held \in [Gens -> States \cup {None}]
      /\ fold.state \in States \cup {None} /\ None \notin States /\ "running" \notin States
      /\ 1 \in Gens /\ "running" # None
  BY <1>5, StateType DEF FoldType, None
<1>8. first => fold.state = None /\ fold.gen = 1 /\ fold.gen \notin fold.inFlight
  <2>1. first => fold.gen = 1 /\ shown = NoFold /\ loop.frame.life = None
    BY <1>1 DEF LoopInv
  <2>2. loop.frame.life = None => fold.state = None
    BY <1>1 DEF LoopInv, SubagentState, None
  <2>3. fold.gen \in fold.inFlight => shown # NoFold
    BY <1>1, <1>7 DEF ReadInv
  <2>4. QED
    BY <2>1, <2>2, <2>3
<1>9. sp1 \in Lines /\ sp1.kind = "spawned" /\ sp1.gen = 1 /\ sp1.value = v
  BY <1>7 DEF Line, Lines
<1>10. ASSUME fold.gen + 1 \in Gens
       PROVE  sp2 \in Lines /\ sp2.kind = "spawned" /\ sp2.gen = fold.gen + 1 /\ sp2.value = None
  BY <1>7, <1>10 DEF Line, Lines
<1>11. ASSUME NEW w \in States \cup {"running"}
       PROVE  LET q == Line("state", fold.gen, w)
              IN  q \in Lines /\ q.kind = "state" /\ q.gen = fold.gen /\ q.value = w /\ Told(q)
  BY <1>7, <1>11 DEF Line, Lines, Told
<1> HIDE DEF s, sp1, sp2
<1>12. out = (IF fold.spawned THEN <<>> ELSE <<sp1>>) \o s
  BY <1>6 DEF s, sp1
<1> DEFINE Result ==
             /\ out \in Seq(Lines)
             /\ \A g \in Gens : Once(out, "spawned", g) /\ Once(out, "state", g)
             /\ \A g \in Gens : Has(out, "spawned", g) <=> \/ first /\ g = 1
                                                           \/ g = fold.gen + 1 /\ h.gen = g
             /\ Orderly(out, first)
             /\ \/ NoneTold(out) /\ h.state = fold.state /\ fold.spawned
                \/ ~air /\ LastTold(out, Truth')
                \/ air
             /\ Handles(h, out, fr)
             /\ h \in FoldType /\ SameFold(h, f)
<1>13. ASSUME /\ h = f /\ s = <<>>
              /\ st = None => l # "running" \/ f.state = None
              /\ st # None => f.state = st \/ (air /\ f.state # None)
       PROVE  Result
  <2>1. f.gen + 1 # f.gen
    BY <1>6, <1>7
  <2>2. CASE fold.spawned
    <3>1. out = <<>>
      BY <1>12, <1>13, <2>2, Joined
    <3>2. Handles(h, out, fr)
      BY <1>6, <1>13, <3>1, HasEmpty DEF Handles, l, st
    <3>3. /\ \A g \in Gens : ~Has(out, "state", g) /\ ~Has(out, "spawned", g)
          /\ \A g \in Gens : Once(out, "spawned", g) /\ Once(out, "state", g)
      BY <3>1, HasEmpty
    <3>4. NoneTold(out) /\ Orderly(out, first) /\ out \in Seq(Lines)
      BY <3>1, NoLine
    <3>5. h.gen = fold.gen /\ h.state = fold.state /\ SameFold(h, f) /\ h \in FoldType
      BY <1>6, <1>13 DEF SameFold
    <3>6. QED
      BY <1>6, <2>1, <2>2, <3>2, <3>3, <3>4, <3>5
  <2>3. CASE ~fold.spawned
    <3>1. out = <<sp1>> /\ st = None
      BY <1>6, <1>8, <1>12, <1>13, <2>3, Joined
    <3>2. /\ \A g \in Gens : ~Has(out, "state", g) /\ (Has(out, "spawned", g) <=> g = 1)
          /\ \A g \in Gens : Once(out, "spawned", g) /\ Once(out, "state", g)
      BY <1>9, <3>1, HasOne DEF Is
    <3>3. Handles(h, out, fr)
      BY <1>6, <1>13, <3>2 DEF Handles, l, st
    <3>4. ~air => LastTold(out, Truth')
      <4>1. ~air => Told(sp1) /\ sp1.value = "running"
        BY <1>7, <1>9, <3>1 DEF Told
      <4>2. Truth' = "running"
        BY <1>6, <1>8, <1>13, <2>3 DEF Truth, h
      <4>3. QED
        BY <1>9, <3>1, <4>1, <4>2, OneLine
    <3>5. Orderly(out, first) /\ out \in Seq(Lines)
      BY <1>9, <3>1, OneLine
    <3>6. QED
      BY <1>6, <1>13, <2>1, <2>3, <3>2, <3>3, <3>4, <3>5 DEF SameFold
  <2>4. QED
    BY <2>2, <2>3
<1>14. ASSUME /\ l = "running" /\ f.state # None /\ air
              /\ SameFold(h, f) /\ h.state = None /\ h.gen = f.gen + 1 /\ h.wantRead = TRUE
              /\ h.held = [f.held EXCEPT ![f.gen] = None]
              /\ s = IF f.held[f.gen] = None THEN <<sp2>>
                     ELSE <<Line("state", f.gen, f.held[f.gen]), sp2>>
              /\ h.gen \in Gens => h \in FoldType
       PROVE  Result
  <2> DEFINE q == Line("state", fold.gen, fold.held[fold.gen])
  <2>1. /\ fold.spawned /\ ~first /\ out = s /\ st = None /\ fold.gen + 1 \in Gens
        /\ h \in FoldType /\ h.gen = fold.gen + 1
    <3>1. fold.spawned /\ fold.gen + 1 <= MaxGens
      BY <1>3, <1>6, <1>8, <1>14 DEF h
    <3>2. fold.gen + 1 \in Gens
      BY <1>7, <3>1
    <3>3. s = <<sp2>> \/ \E a : s = <<a, sp2>>
      BY <1>14
    <3>4. out = s
      BY <1>12, <3>1, <3>3, Joined
    <3>5. QED
      BY <1>5, <1>6, <1>14, <3>1, <3>2, <3>4
  <2>2. sp2 \in Lines /\ sp2.kind = "spawned" /\ sp2.gen = fold.gen + 1 /\ sp2.value = None
    BY <1>10, <2>1
  <2>3. CASE fold.held[fold.gen] = None
    <3>1. out = <<sp2>>
      BY <1>6, <1>14, <2>1, <2>3
    <3>2. /\ \A g \in Gens : ~Has(out, "state", g) /\ (Has(out, "spawned", g) <=> g = fold.gen + 1)
          /\ \A g \in Gens : Once(out, "spawned", g) /\ Once(out, "state", g)
      BY <2>2, <3>1, HasOne DEF Is
    <3>3. Handles(h, out, fr)
      BY <1>6, <1>14, <2>1, <2>3, <3>2 DEF Handles, l, st
    <3>4. Orderly(out, first) /\ out \in Seq(Lines)
      BY <2>1, <2>2, <3>1, OneLine
    <3>5. QED
      BY <1>14, <2>1, <3>2, <3>3, <3>4
  <2>4. CASE fold.held[fold.gen] # None
    <3>1. out = <<q, sp2>>
      BY <1>6, <1>14, <2>1, <2>4
    <3>2. q \in Lines /\ q.kind = "state" /\ q.gen = fold.gen
      BY <1>7, <1>11, <2>4
    <3> HIDE DEF q
    <3>3. /\ \A g \in Gens : Has(out, "state", g) <=> g = fold.gen
          /\ \A g \in Gens : Has(out, "spawned", g) <=> g = fold.gen + 1
          /\ \A g \in Gens : Once(out, "spawned", g) /\ Once(out, "state", g)
      BY <2>2, <3>1, <3>2, HasTwo DEF Is
    <3>4. Handles(h, out, fr)
      BY <1>6, <1>14, <2>1, <2>4, <3>3 DEF Handles, l, st
    <3>5. Orderly(out, first) /\ out \in Seq(Lines)
      BY <1>5, <2>1, <2>2, <3>1, <3>2, TwoLines
    <3>6. QED
      BY <1>14, <2>1, <3>3, <3>4, <3>5
  <2>5. QED
    BY <2>3, <2>4
<1>15. ASSUME /\ l = "running" /\ f.state # None /\ ~air
              /\ Unsettled(h, f) /\ h.state = None /\ h.held = f.held
              /\ s = <<Line("state", f.gen, "running")>>
              /\ h \in FoldType
       PROVE  Result
  <2> DEFINE q == Line("state", fold.gen, "running")
  <2>1. fold.spawned /\ out = <<q>> /\ st = None
    BY <1>5, <1>6, <1>8, <1>12, <1>15, Joined
  <2>2. q \in Lines /\ q.kind = "state" /\ q.gen = fold.gen /\ q.value = "running" /\ Told(q)
    BY <1>11
  <2> HIDE DEF q
  <2>3. /\ \A g \in Gens : Has(out, "state", g) <=> g = fold.gen
        /\ \A g \in Gens : ~Has(out, "spawned", g)
        /\ \A g \in Gens : Once(out, "spawned", g) /\ Once(out, "state", g)
    BY <2>1, <2>2, HasOne DEF Is
  <2>4. Handles(h, out, fr)
    BY <1>6, <1>15, <2>1, <2>3 DEF Handles, l, st, Unsettled
  <2>5. Orderly(out, first) /\ out \in Seq(Lines) /\ LastTold(out, "running")
    BY <2>1, <2>2, OneLine
  <2>6. Truth' = "running"
    BY <1>15 DEF Truth, h
  <2>7. h.gen = fold.gen /\ fold.gen + 1 # fold.gen /\ SameFold(h, f)
    BY <1>6, <1>7, <1>15 DEF Unsettled
  <2>8. QED
    BY <1>15, <2>1, <2>3, <2>4, <2>5, <2>6, <2>7
<1>16. ASSUME /\ st # None /\ f.state # st /\ (air => f.state = None)
              /\ Unsettled(h, f) /\ h.state = st /\ h \in FoldType
              /\ IF air /\ f.gen \in f.inFlight
                 THEN h.held = [f.held EXCEPT ![f.gen] = st] /\ s = <<>>
                 ELSE h.held = f.held /\ s = <<Line("state", f.gen, st)>>
       PROVE  Result
  <2> DEFINE q == Line("state", fold.gen, st)
  <2>1. /\ h.gen = fold.gen /\ h.wantRead = fold.wantRead /\ fold.gen + 1 # fold.gen
        /\ SameFold(h, f)
    BY <1>6, <1>7, <1>16 DEF Unsettled
  <2>2. q \in Lines /\ q.kind = "state" /\ q.gen = fold.gen /\ q.value = st /\ Told(q)
    BY <1>5, <1>11, <1>16
  <2>3. Truth' = st
    BY <1>16 DEF Truth, h
  <2> HIDE DEF q
  <2>4. CASE air /\ fold.gen \in fold.inFlight
    <3>1. out = <<>> /\ fold.spawned /\ h.held = [fold.held EXCEPT ![fold.gen] = st]
      BY <1>6, <1>8, <1>12, <1>16, <2>4, Joined
    <3>2. Handles(h, out, fr)
      BY <1>6, <1>16, <2>1, <2>4, <3>1, HasEmpty DEF Handles, l, st
    <3>3. QED
      BY <1>16, <2>1, <2>4, <3>1, <3>2, HasEmpty, NoLine
  <2>5. CASE ~(air /\ fold.gen \in fold.inFlight) /\ fold.spawned
    <3>1. out = <<q>> /\ h.held = fold.held
      BY <1>6, <1>12, <1>16, <2>5, Joined DEF q
    <3>2. /\ \A g \in Gens : Has(out, "state", g) <=> g = fold.gen
          /\ \A g \in Gens : ~Has(out, "spawned", g)
          /\ \A g \in Gens : Once(out, "spawned", g) /\ Once(out, "state", g)
      BY <2>2, <3>1, HasOne DEF Is
    <3>3. Handles(h, out, fr)
      BY <1>6, <1>16, <2>1, <2>5, <3>1, <3>2 DEF Handles, l, st
    <3>4. Orderly(out, first) /\ out \in Seq(Lines) /\ LastTold(out, st)
      BY <2>2, <2>5, <3>1, OneLine
    <3>5. QED
      BY <1>16, <2>1, <2>3, <2>5, <3>2, <3>3, <3>4
  <2>6. CASE ~(air /\ fold.gen \in fold.inFlight) /\ ~fold.spawned
    <3>1. out = <<sp1, q>> /\ h.held = fold.held /\ fold.gen = 1
      <4>1. s = <<q>> /\ h.held = fold.held
        BY <1>6, <1>16, <2>6 DEF q
      <4>2. QED
        BY <1>8, <1>12, <2>6, <4>1, Joined
    <3>2. /\ \A g \in Gens : Has(out, "state", g) <=> g = fold.gen
          /\ \A g \in Gens : Has(out, "spawned", g) <=> g = 1
          /\ \A g \in Gens : Once(out, "spawned", g) /\ Once(out, "state", g)
      BY <1>9, <2>2, <3>1, HasTwo DEF Is
    <3>3. Handles(h, out, fr)
      BY <1>6, <1>16, <2>1, <2>6, <3>1, <3>2 DEF Handles, l, st
    <3>4. Orderly(out, first) /\ out \in Seq(Lines) /\ LastTold(out, st)
      BY <1>5, <1>9, <2>2, <2>6, <3>1, TwoLines
    <3>5. QED
      BY <1>16, <2>1, <2>3, <2>6, <3>2, <3>3, <3>4
  <2>7. QED
    BY <2>4, <2>5, <2>6
<1>17. Result
  <2> DEFINE k == SettleSubagent(f, l)
  <2>1. k.fold = h /\ k.out = s /\ SubagentState(l) = st
    BY <1>6 DEF s, st
  <2>2. sp2 = Line("spawned", f.gen + 1, None)
    BY <1>6 DEF sp2
  <2>3. \/ /\ k.fold = f /\ k.out = <<>>
           /\ SubagentState(l) = None => l # "running" \/ f.state = None
           /\ SubagentState(l) # None =>
                f.state = SubagentState(l) \/ (air /\ f.state # None)
        \/ /\ l = "running" /\ f.state # None /\ air
           /\ SameFold(k.fold, f) /\ k.fold.state = None /\ k.fold.gen = f.gen + 1
           /\ k.fold.wantRead = TRUE
           /\ k.fold.held = [f.held EXCEPT ![f.gen] = None]
           /\ k.out = IF f.held[f.gen] = None THEN <<Line("spawned", f.gen + 1, None)>>
                      ELSE <<Line("state", f.gen, f.held[f.gen]),
                             Line("spawned", f.gen + 1, None)>>
           /\ k.fold.gen \in Gens => k.fold \in FoldType
        \/ /\ l = "running" /\ f.state # None /\ ~air
           /\ Unsettled(k.fold, f) /\ k.fold.state = None /\ k.fold.held = f.held
           /\ k.out = <<Line("state", f.gen, "running")>>
           /\ k.fold \in FoldType
        \/ /\ SubagentState(l) # None /\ f.state # SubagentState(l) /\ (air => f.state = None)
           /\ Unsettled(k.fold, f) /\ k.fold.state = SubagentState(l) /\ k.fold \in FoldType
           /\ IF air /\ f.gen \in f.inFlight
              THEN /\ k.fold.held = [f.held EXCEPT ![f.gen] = SubagentState(l)]
                   /\ k.out = <<>>
              ELSE k.fold.held = f.held /\ k.out = <<Line("state", f.gen, SubagentState(l))>>
    BY <1>5, SettleEffect
  <2> HIDE DEF k
  <2>4. QED
    BY <1>13, <1>14, <1>15, <1>16, <2>1, <2>2, <2>3
<1>18. QED
  BY <1>2, <1>4, <1>6, <1>17 DEF fr, l, h, out, SameFold

\* What follows a report, and what the fold can tell of it.
LEMMA SuccessorFacts ==
    ASSUME IInv, NEW fr \in Frames, Successor(loop.frame, fr)
    PROVE  /\ fr.life \in Lives /\ fr.life # None /\ fr.item \in Nat
           /\ loop.frame.item \in Nat /\ loop.frame.item <= fr.item
           /\ fr.item \notin fold.done /\ fold.done \subseteq 0 .. loop.frame.item
           /\ SubagentState(fr.life) = None /\ fr.life # "running" => fold.state = None
<1>1. /\ fr.life \in Lives /\ fr.item \in Nat
      /\ loop.frame.life \in Lives /\ loop.frame.item \in Nat
      /\ fold.done \subseteq 0 .. loop.frame.item
      /\ loop.frame.life \notin Closed => loop.frame.item \notin fold.done
      /\ fold.state # None <=> SubagentState(loop.frame.life) # None
  BY DEF IInv, TypeOK, LoopInv, Frames
<1>2. /\ fr.item = loop.frame.item + 1
         \/ (fr.item = loop.frame.item /\ loop.frame.life \notin Closed)
      /\ fr.life = loop.frame.life \/ fr.life \in Follows[loop.frame.life]
      /\ fr.life # None
  <2>1. CASE fr = loop.frame /\ loop.frame.life \in Open
    BY <2>1 DEF Open, Closed, None
  <2>2. CASE /\ fr.life \in Follows[loop.frame.life]
             /\ fr.item = IF loop.frame.life \in Closed \cup {None}
                          THEN loop.frame.item + 1 ELSE loop.frame.item
    <3>1. fr.life # None
      BY <1>1, <2>2 DEF Follows, Lives, Open, Closed, None
    <3>2. QED
      BY <2>2, <3>1
  <2>3. QED
    BY <2>1, <2>2 DEF Successor
<1>3. loop.frame.item <= fr.item /\ fr.item \notin fold.done
  BY <1>1, <1>2
<1>4. ASSUME SubagentState(fr.life) = None, fr.life # "running"
      PROVE  fold.state = None
  <2>1. fr.life = "accepted"
    BY <1>1, <1>2, <1>4 DEF SubagentState, Lives, Open, Closed, None
  <2>2. loop.frame.life \in {"accepted", None}
    BY <1>1, <1>2, <2>1 DEF Follows, Lives, Open, Closed, None
  <2>3. SubagentState(loop.frame.life) = None
    BY <2>2 DEF SubagentState, None
  <2>4. QED
    BY <1>1, <2>3
<1>5. QED
  BY <1>1, <1>2, <1>3, <1>4

LEMMA WireShift ==
    ASSUME WireInv, wire \in Seq(Frames), wire # <<>>, wire' = Tail(wire),
           loop'.frame = wire[1], Frame' = Frame
    PROVE  wire' \in Seq(Frames) /\ WireInv'
<1> DEFINE n == Len(wire)
<1>1. /\ wire' \in Seq(Frames) /\ n \in Nat /\ n >= 1 /\ Len(wire') = n - 1
      /\ \A i \in 1 .. n - 1 : wire'[i] = wire[i + 1]
      /\ wire' = <<>> <=> n = 1
  <2> DEFINE t == Tail(wire)
  <2>1. /\ t \in Seq(Frames) /\ n \in Nat /\ n >= 1 /\ Len(t) = n - 1
        /\ \A i \in 1 .. n - 1 : t[i] = wire[i + 1]
    OBVIOUS
  <2>2. t = <<>> <=> Len(t) = 0
    BY <2>1, EmptySeq
  <2> HIDE DEF t, n
  <2>3. t = <<>> <=> n = 1
    BY <2>1, <2>2
  <2>4. wire' = t
    BY DEF t
  <2>5. QED
    BY <2>1, <2>3, <2>4
<1>2. ASSUME wire' = <<>> PROVE loop'.frame = Frame'
  BY <1>1, <1>2 DEF WireInv
<1>3. ASSUME wire' # <<>>
      PROVE  Successor(loop'.frame, wire'[1]) /\ wire'[n - 1] = Frame'
  <2>1. 1 \in 1 .. n - 1 /\ n - 1 \in 1 .. n - 1
    BY <1>1, <1>3
  <2>2. wire'[1] = wire[1 + 1] /\ wire'[n - 1] = wire[n - 1 + 1] /\ n - 1 + 1 = n
    BY <1>1, <2>1
  <2>3. Successor(wire[1], wire[1 + 1])
    BY <2>1 DEF WireInv
  <2>4. QED
    BY <2>2, <2>3 DEF WireInv
<1>4. ASSUME NEW i \in 1 .. (n - 1) - 1 PROVE Successor(wire'[i], wire'[i + 1])
  <2>1. i \in 1 .. n - 1 /\ i + 1 \in 1 .. n - 1
    BY <1>1, <1>4
  <2>2. QED
    BY <1>1, <2>1 DEF WireInv
<1>5. WireInv'
  BY <1>1, <1>2, <1>3, <1>4 DEF WireInv
<1>6. QED
  BY <1>1, <1>5

LEMMA HandleOK == IInv /\ HandleItem => IInv'
<1> SUFFICES ASSUME IInv, HandleItem PROVE IInv'
  OBVIOUS
<1> DEFINE fr == wire[1]
           st == SubagentState(fr.life)
           h == fold'
           out == loop'.lines
           first == ~fold.spawned
<1>1. /\ TypeOK /\ SpawnInv /\ EndInv /\ RfdInv /\ OrderInv /\ ReadInv /\ LoopInv /\ WireInv
      /\ wire # <<>> /\ wire' = Tail(wire) /\ loop.step = "idle" /\ wire \in Seq(Frames)
      /\ UNCHANGED <<air, life, item, frames, texts, shown, reads, sent>>
  BY DEF IInv, TypeOK, HandleItem
<1>2. /\ loop.lines = <<>> /\ loop'.step = "send" /\ loop'.frame = fr
      /\ fr \in Frames /\ Successor(loop.frame, fr)
      /\ h \in FoldType /\ out \in Seq(Lines) /\ h.spawned = TRUE
      /\ h.inFlight = fold.inFlight
      /\ h.done = fold.done \cup (IF fr.life \in Closed THEN {fr.item} ELSE {})
  BY HandleEffect
<1>3. /\ \A g \in Gens : Once(out, "spawned", g) /\ Once(out, "state", g)
      /\ \A g \in Gens : Has(out, "spawned", g) <=> \/ first /\ g = 1
                                                    \/ g = fold.gen + 1 /\ h.gen = g
      /\ Orderly(out, first)
      /\ \/ NoneTold(out) /\ h.state = fold.state /\ fold.spawned
         \/ ~air /\ LastTold(out, Truth')
         \/ air
  BY HandleEffect
<1>4. Handles(h, out, fr)
  BY HandleEffect
<1>5. /\ fr.life \in Lives /\ fr.life # None /\ fr.item \in Nat
      /\ loop.frame.item \in Nat /\ loop.frame.item <= fr.item
      /\ fr.item \notin fold.done /\ fold.done \subseteq 0 .. loop.frame.item
      /\ st = None /\ fr.life # "running" => fold.state = None
  BY <1>2, SuccessorFacts
<1>6. fold \in FoldType /\ fold.gen \in Gens /\ fold.gen \in Nat /\ h.gen \in Gens
  <2>1. fold \in FoldType
    BY <1>1 DEF TypeOK, FoldType
  <2>2. \A f \in FoldType : f.gen \in Gens
    BY DEF FoldType
  <2>3. QED
    BY <1>2, <2>1, <2>2
<1> HIDE DEF fr, h, out
<1>7. wire' \in Seq(Frames) /\ WireInv'
  <2>1. Frame' = Frame
    BY <1>1 DEF Frame
  <2>2. QED
    BY <1>1, <1>2, <2>1, WireShift DEF fr
<1>8. TypeOK'
  <2>1. loop' \in [step : {"idle", "send", "drill"}, frame : Frames, lines : Seq(Lines)]
    <3>1. loop' = [step |-> loop'.step, frame |-> loop'.frame, lines |-> loop'.lines]
      BY DEF HandleItem
    <3>2. QED
      BY <1>2, <3>1 DEF out
  <2>2. QED
    BY <1>1, <1>2, <1>7, <2>1 DEF TypeOK, FoldType, h
<1>9. /\ h.gen = fold.gen \/ (h.gen = fold.gen + 1 /\ fold.spawned)
      /\ h.wantRead = fold.wantRead \/ h.gen = fold.gen + 1
  BY <1>4 DEF Handles
<1>10. SpawnInv'
  <2>1. SUFFICES ASSUME NEW g \in Gens
                 PROVE  /\ Has(sent, "spawned", g) \/ Has(out, "spawned", g) <=> g <= h.gen
                        /\ ~(Has(sent, "spawned", g) /\ Has(out, "spawned", g))
                        /\ Once(sent, "spawned", g) /\ Once(out, "spawned", g)
    BY <1>1, <1>2 DEF SpawnInv, out, h
  <2>2. /\ Has(sent, "spawned", g) <=> fold.spawned /\ g <= fold.gen
        /\ Once(sent, "spawned", g)
    BY <1>1, <1>2, HasEmpty DEF SpawnInv
  <2>3. Has(out, "spawned", g) <=> (first /\ g = 1) \/ (g = fold.gen + 1 /\ h.gen = g)
    BY <1>3
  <2>4. first => fold.gen = 1
    BY <1>1 DEF LoopInv
  <2>5. QED
    BY <1>3, <1>6, <1>9, <2>2, <2>3, <2>4
<1>11. EndInv'
  <2>1. SUFFICES ASSUME air, NEW g \in Gens PROVE EndedOnce(g)'
    BY <1>1 DEF EndInv
  <2>2. EndedOnce(g) /\ g \in Nat /\ fold.held \in [Gens -> States \cup {None}]
    BY <1>1, <1>6, <2>1 DEF EndInv, FoldType
  <2>3. /\ ~Has(loop.lines, "state", g) /\ Once(out, "state", g)
    BY <1>2, <1>3, <2>1, HasEmpty
  <2>4. CASE /\ h.state = fold.state /\ h.gen = fold.gen /\ h.held = fold.held
             /\ ~Has(out, "state", g)
    BY <1>1, <2>2, <2>3, <2>4 DEF EndedOnce, out, h
  <2>5. CASE /\ fold.state # None /\ h.state = None /\ h.gen = fold.gen + 1
             /\ h.held = [fold.held EXCEPT ![fold.gen] = None]
             /\ Has(out, "state", g) <=> g = fold.gen /\ fold.held[g] # None
    <3>1. h.held[g] = IF g = fold.gen THEN None ELSE fold.held[g]
      BY <2>2, <2>5
    <3>2. \/ g = fold.gen /\ g < h.gen
          \/ g # fold.gen /\ (g < h.gen <=> g < fold.gen)
      BY <1>6, <2>2, <2>5
    <3>3. CASE g = fold.gen
      BY <1>1, <2>2, <2>3, <2>5, <3>1, <3>2, <3>3 DEF EndedOnce, out, h
    <3>4. CASE g # fold.gen
      BY <1>1, <2>2, <2>3, <2>5, <3>1, <3>2, <3>4 DEF EndedOnce, out, h
    <3>5. QED
      BY <3>3, <3>4
  <2>6. CASE /\ st # None /\ fold.state = None /\ h.state = st /\ h.gen = fold.gen
             /\ \/ /\ h.held = [fold.held EXCEPT ![fold.gen] = st]
                   /\ ~Has(out, "state", g)
                \/ h.held = fold.held /\ (Has(out, "state", g) <=> g = fold.gen)
    <3>1. ~(fold.gen < fold.gen) /\ fold.gen = h.gen
      BY <1>6, <2>6
    <3>2. CASE g = fold.gen
      <4>1. h.held[g] \in {st, fold.held[g]} /\ (Has(out, "state", g) <=> h.held[g] # st)
            /\ fold.held[g] = None
        BY <2>2, <2>6, <3>1, <3>2 DEF EndedOnce
      <4>2. QED
        BY <1>1, <2>2, <2>3, <2>6, <3>1, <3>2, <4>1 DEF EndedOnce, out, h
    <3>3. CASE g # fold.gen
      <4>1. h.held[g] = fold.held[g] /\ ~Has(out, "state", g)
        BY <2>2, <2>6, <3>3
      <4>2. QED
        BY <1>1, <2>2, <2>3, <2>6, <3>1, <3>3, <4>1 DEF EndedOnce, out, h
    <3>4. QED
      BY <3>2, <3>3
  <2>7. QED
    BY <1>4, <2>1, <2>4, <2>5, <2>6 DEF Handles
<1>12. RfdInv'
  <2>1. SUFFICES ASSUME ~air PROVE RfdInv'
    BY <1>1 DEF RfdInv
  <2>2. h.gen = 1 /\ h.held = fold.held
    BY <1>1, <1>4, <2>1 DEF Handles, RfdInv
  <2>3. ASSUME NEW g \in Gens PROVE h.held[g] = None /\ ~Has(reads[g].lines, "state", g)
    BY <1>1, <2>1, <2>2 DEF RfdInv
  <2>4. LastTold(out, Truth') \/ (NoneTold(out) /\ LastTold(sent, Truth'))
    <3>1. CASE NoneTold(out) /\ h.state = fold.state /\ fold.spawned
      <4>1. Truth' = Truth
        BY <3>1 DEF Truth, h
      <4>2. ~LastTold(loop.lines, Truth)
        BY <1>2 DEF LastTold
      <4>3. QED
        BY <1>1, <2>1, <3>1, <4>1, <4>2 DEF RfdInv
    <3>2. QED
      BY <1>3, <2>1, <3>1
  <2>5. QED
    BY <1>1, <2>2, <2>3, <2>4 DEF RfdInv, out, h
<1>13. OrderInv'
  <2>1. ASSUME NEW i \in DOMAIN out, out[i].kind # "spawned"
        PROVE  \/ Has(sent, "spawned", out[i].gen)
               \/ \E j \in DOMAIN out : /\ j < i /\ out[j].kind = "spawned"
                                        /\ out[j].gen = out[i].gen
    <3>1. /\ out[i].kind = "state" /\ out[i].gen = fold.gen
          /\ first => \E j \in DOMAIN out : j < i /\ out[j].kind = "spawned" /\ out[j].gen = fold.gen
      BY <1>3, <2>1 DEF Orderly
    <3>2. ~first => Has(sent, "spawned", fold.gen)
      BY <1>1, <1>2, <1>6, HasEmpty DEF SpawnInv
    <3>3. QED
      BY <3>1, <3>2
  <2>2. QED
    BY <1>1, <2>1 DEF OrderInv, Announced, Before, out
<1>14. ReadInv'
  <2>1. ASSUME NEW g \in Gens, h.held[g] # None PROVE g \in h.inFlight
    <3>1. fold.held[g] # None => g \in fold.inFlight
      BY <1>1, <2>1 DEF ReadInv
    <3>2. fold.held \in [Gens -> States \cup {None}]
      BY <1>6 DEF FoldType
    <3>3. \/ h.held = fold.held
          \/ h.held = [fold.held EXCEPT ![fold.gen] = None]
          \/ h.held = [fold.held EXCEPT ![fold.gen] = st] /\ fold.gen \in fold.inFlight
      BY <1>4 DEF Handles
    <3>4. QED
      BY <1>2, <2>1, <3>1, <3>2, <3>3
  <2>2. ASSUME NEW g \in Gens, reads[g].step # "idle"
        PROVE  /\ Has(sent, "spawned", g) /\ shown # NoFold
               /\ g <= h.gen /\ (h.wantRead => g < h.gen)
    BY <1>1, <1>6, <1>9, <2>2 DEF ReadInv
  <2>3. QED
    BY <1>1, <1>2, <2>1, <2>2 DEF ReadInv, h
<1>15. LoopInv'
  <2>1. h.state # None <=> st # None
    BY <1>4, <1>5 DEF Handles
  <2>2. ~air => h.state = st
    BY <1>4, <1>5 DEF Handles
  <2>3. h.done \subseteq 0 .. fr.item /\ (fr.life \notin Closed => fr.item \notin h.done)
    BY <1>2, <1>5
  <2>4. QED
    BY <1>1, <1>2, <1>5, <2>1, <2>2, <2>3 DEF LoopInv, h, fr
<1>16. QED
  BY <1>7, <1>8, <1>10, <1>11, <1>12, <1>13, <1>14, <1>15 DEF IInv

----------------------------------------------------------------------------
(* A line is sent: it is appended to what the client has, and its queue is  *)
(* shorter by its head.                                                     *)

LEMMA AppendShape ==
    ASSUME NEW S, NEW s \in Seq(S), NEW a \in S
    PROVE  LET t == Append(s, a)
               n == Len(s)
           IN  /\ n \in Nat /\ DOMAIN s = 1 .. n /\ DOMAIN t = 1 .. n + 1
               /\ t[n + 1] = a /\ (\A i \in 1 .. n : t[i] = s[i])
               /\ \A i \in 1 .. n + 1 : i = n + 1 \/ i \in 1 .. n
OBVIOUS

LEMMA TailShape ==
    ASSUME NEW S, NEW s \in Seq(S), s # <<>>
    PROVE  LET t == Tail(s)
               n == Len(t)
           IN  /\ n \in Nat /\ DOMAIN t = 1 .. n /\ DOMAIN s = 1 .. n + 1
               /\ s[1] = Head(s) /\ (\A i \in 1 .. n : t[i] = s[i + 1])
               /\ \A i \in 1 .. n + 1 : i = 1 \/ i - 1 \in 1 .. n
OBVIOUS

LEMMA ToldAppend ==
    ASSUME NEW S, NEW s \in Seq(S), NEW a \in S
    PROVE  /\ Told(a) => LastTold(Append(s, a), a.value)
           /\ \A v : ~Told(a) /\ LastTold(s, v) => LastTold(Append(s, a), v)
<1> DEFINE t == Append(s, a)
           n == Len(s)
<1>1. /\ n \in Nat /\ DOMAIN s = 1 .. n /\ DOMAIN t = 1 .. n + 1
      /\ t[n + 1] = a /\ (\A i \in 1 .. n : t[i] = s[i])
      /\ \A i \in 1 .. n + 1 : i = n + 1 \/ i \in 1 .. n
  BY AppendShape
<1> HIDE DEF t, n
<1>2. ASSUME Told(a) PROVE LastTold(t, a.value)
  <2>1. n + 1 \in 1 .. n + 1 /\ \A j \in 1 .. n + 1 : ~(j > n + 1)
    BY <1>1
  <2>2. QED
    BY <1>1, <1>2, <2>1 DEF LastTold
<1>3. ASSUME ~Told(a), NEW v, LastTold(s, v) PROVE LastTold(t, v)
  <2>1. PICK i \in 1 .. n : Told(s[i]) /\ s[i].value = v /\ \A j \in 1 .. n : j > i => ~Told(s[j])
    BY <1>1, <1>3 DEF LastTold
  <2>2. \A j \in 1 .. n + 1 : j > i => ~Told(t[j])
    BY <1>1, <1>3, <2>1
  <2>3. i \in 1 .. n + 1 /\ t[i] = s[i]
    BY <1>1
  <2>4. QED
    BY <1>1, <2>1, <2>2, <2>3 DEF LastTold
<1>4. QED
  BY <1>2, <1>3 DEF t

LEMMA ToldTail ==
    ASSUME NEW S, NEW s \in Seq(S), s # <<>>
    PROVE  /\ \A v : LastTold(s, v) =>
                \/ LastTold(Tail(s), v)
                \/ NoneTold(Tail(s)) /\ Told(Head(s)) /\ Head(s).value = v
           /\ NoneTold(s) => NoneTold(Tail(s)) /\ ~Told(Head(s))
<1> DEFINE t == Tail(s)
           n == Len(t)
<1>1. /\ n \in Nat /\ DOMAIN t = 1 .. n /\ DOMAIN s = 1 .. n + 1
      /\ s[1] = Head(s) /\ (\A i \in 1 .. n : t[i] = s[i + 1])
      /\ \A i \in 1 .. n + 1 : i = 1 \/ i - 1 \in 1 .. n
  BY TailShape
<1> HIDE DEF t, n
<1>2. ASSUME NEW v, LastTold(s, v)
      PROVE  LastTold(t, v) \/ (NoneTold(t) /\ Told(Head(s)) /\ Head(s).value = v)
  <2>1. PICK i \in 1 .. n + 1 : /\ Told(s[i]) /\ s[i].value = v
                                /\ \A j \in 1 .. n + 1 : j > i => ~Told(s[j])
    BY <1>1, <1>2 DEF LastTold
  <2>2. CASE i = 1
    <3>1. \A j \in 1 .. n : j + 1 \in 1 .. n + 1 /\ j + 1 > i
      BY <1>1, <2>2
    <3>2. QED
      BY <1>1, <2>1, <2>2, <3>1 DEF NoneTold
  <2>3. CASE i - 1 \in 1 .. n
    <3>1. t[i - 1] = s[i]
      BY <1>1, <2>3
    <3>2. \A j \in 1 .. n : j > i - 1 => j + 1 \in 1 .. n + 1 /\ j + 1 > i
      BY <1>1, <2>3
    <3>3. QED
      BY <1>1, <2>1, <2>3, <3>1, <3>2 DEF LastTold
  <2>4. QED
    BY <1>1, <2>2, <2>3
<1>3. ASSUME NoneTold(s) PROVE NoneTold(t) /\ ~Told(Head(s))
  <2>1. 1 \in 1 .. n + 1 /\ \A j \in 1 .. n : j + 1 \in 1 .. n + 1
    BY <1>1
  <2>2. QED
    BY <1>1, <1>3, <2>1 DEF NoneTold
<1>4. QED
  BY <1>2, <1>3 DEF t

\* What was sent stays in order when an announced line follows it.
LEMMA OrderAppend ==
    ASSUME NEW s \in Seq(Lines), NEW a \in Lines, Announced(s, <<>>),
           a.kind # "spawned" => Has(s, "spawned", a.gen)
    PROVE  Announced(Append(s, a), <<>>)
<1> DEFINE t == Append(s, a)
           n == Len(s)
<1>1. /\ n \in Nat /\ DOMAIN s = 1 .. n /\ DOMAIN t = 1 .. n + 1
      /\ t[n + 1] = a /\ (\A i \in 1 .. n : t[i] = s[i])
      /\ \A i \in 1 .. n + 1 : i = n + 1 \/ i \in 1 .. n
  BY AppendShape
<1> HIDE DEF t, n
<1>2. ASSUME NEW i \in 1 .. n + 1, t[i].kind # "spawned" PROVE Before(t, i, t[i].gen)
  <2>1. PICK j \in 1 .. n : j < i /\ s[j].kind = "spawned" /\ s[j].gen = t[i].gen
    <3>1. CASE i = n + 1
      <4>1. PICK j \in 1 .. n : Is(s[j], "spawned", a.gen)
        BY <1>1, <1>2, <3>1 DEF Has
      <4>2. j < i
        BY <1>1, <3>1
      <4>3. QED
        BY <1>1, <3>1, <4>1, <4>2 DEF Is
    <3>2. CASE i \in 1 .. n
      BY <1>1, <1>2, <3>2, HasEmpty DEF Announced, Before
    <3>3. QED
      BY <1>1, <3>1, <3>2
  <2>2. j \in 1 .. n + 1 /\ t[j] = s[j]
    BY <1>1
  <2>3. QED
    BY <1>1, <2>1, <2>2 DEF Before
<1>3. QED
  BY <1>1, <1>2 DEF Announced, t

\* What is left to send is in order with what was sent, the head included.
LEMMA OrderTail ==
    ASSUME NEW s \in Seq(Lines), s # <<>>, NEW b \in Seq(Lines), Announced(s, b)
    PROVE  /\ Head(s).kind # "spawned" => Has(b, "spawned", Head(s).gen)
           /\ Announced(Tail(s), Append(b, Head(s)))
<1> DEFINE t == Tail(s)
           n == Len(t)
           c == Append(b, Head(s))
<1>1. /\ n \in Nat /\ DOMAIN t = 1 .. n /\ DOMAIN s = 1 .. n + 1
      /\ s[1] = Head(s) /\ (\A i \in 1 .. n : t[i] = s[i + 1])
      /\ \A i \in 1 .. n + 1 : i = 1 \/ i - 1 \in 1 .. n
  BY TailShape
<1>2. \A g : Has(c, "spawned", g) <=> Has(b, "spawned", g) \/ Is(Head(s), "spawned", g)
  BY HasAppend, HasHead
<1> HIDE DEF t, n, c
<1>3. Head(s).kind # "spawned" => Has(b, "spawned", Head(s).gen)
  <2>1. 1 \in 1 .. n + 1 /\ \A j \in 1 .. n + 1 : ~(j < 1)
    BY <1>1
  <2>2. QED
    BY <1>1, <2>1 DEF Announced, Before
<1>4. ASSUME NEW i \in 1 .. n, t[i].kind # "spawned"
      PROVE  Has(c, "spawned", t[i].gen) \/ Before(t, i, t[i].gen)
  <2>1. i + 1 \in 1 .. n + 1 /\ s[i + 1] = t[i]
    BY <1>1
  <2>2. Has(b, "spawned", t[i].gen) \/ Before(s, i + 1, t[i].gen)
    BY <1>1, <1>4, <2>1 DEF Announced
  <2>3. CASE Before(s, i + 1, t[i].gen)
    <3>1. PICK j \in 1 .. n + 1 : j < i + 1 /\ s[j].kind = "spawned" /\ s[j].gen = t[i].gen
      BY <1>1, <2>3 DEF Before
    <3>2. CASE j = 1
      BY <1>1, <1>2, <3>1, <3>2 DEF Is
    <3>3. CASE j - 1 \in 1 .. n
      <4>1. t[j - 1] = s[j] /\ j - 1 < i
        BY <1>1, <3>1, <3>3
      <4>2. QED
        BY <1>1, <3>1, <3>3, <4>1 DEF Before
    <3>4. QED
      BY <1>1, <3>2, <3>3
  <2>4. QED
    BY <1>2, <2>2, <2>3
<1>5. QED
  BY <1>1, <1>3, <1>4 DEF Announced, t, c

\* A queue already announced stays so when more is sent.
LEMMA OrderMore ==
    ASSUME NEW s, NEW b \in Seq(Lines), NEW a \in Lines, Announced(s, b)
    PROVE  Announced(s, Append(b, a))
<1>1. \A g : Has(b, "spawned", g) => Has(Append(b, a), "spawned", g)
  BY HasAppend
<1>2. QED
  BY <1>1 DEF Announced

----------------------------------------------------------------------------
(* The loop sends, and drills down.                                        *)

LEMMA SendFoldOK == IInv /\ SendFoldOutput => IInv'
<1> SUFFICES ASSUME IInv, SendFoldOutput PROVE IInv'
  OBVIOUS
<1>1. /\ TypeOK /\ SpawnInv /\ EndInv /\ RfdInv /\ OrderInv /\ ReadInv /\ LoopInv /\ WireInv
      /\ loop.step = "send"
      /\ UNCHANGED <<air, life, item, frames, wire, texts, fold, shown, reads>>
  BY DEF IInv, SendFoldOutput, hostVars
<1>2. loop \in [step : {"idle", "send", "drill"}, frame : Frames, lines : Seq(Lines)]
      /\ sent \in Seq(Lines)
  BY <1>1 DEF TypeOK
<1>3. CASE loop.lines = <<>>
  <2>1. loop' = [loop EXCEPT !.step = "drill"] /\ sent' = sent
    BY <1>3 DEF SendFoldOutput
  <2>2. loop'.step = "drill" /\ loop'.lines = loop.lines /\ loop'.frame = loop.frame
    BY <1>2, <2>1
  <2>3. TypeOK'
    <3>1. loop' \in [step : {"idle", "send", "drill"}, frame : Frames, lines : Seq(Lines)]
      BY <1>2, <2>1
    <3>2. QED
      BY <1>1, <2>1, <3>1 DEF TypeOK
  <2>4. SpawnInv' /\ EndInv' /\ RfdInv' /\ OrderInv' /\ ReadInv'
    BY <1>1, <2>1, <2>2 DEF SpawnInv, EndInv, EndedOnce, RfdInv, Truth, OrderInv, ReadInv
  <2>5. LoopInv'
    BY <1>1, <1>3, <2>2 DEF LoopInv
  <2>6. WireInv'
    BY <1>1, <2>2 DEF WireInv, Frame
  <2>7. QED
    BY <2>3, <2>4, <2>5, <2>6 DEF IInv
<1>4. CASE loop.lines # <<>>
  <2> DEFINE a == Head(loop.lines)
             t == Tail(loop.lines)
  <2>1. sent' = Append(sent, a) /\ loop' = [loop EXCEPT !.lines = Tail(@)]
    BY <1>4 DEF SendFoldOutput
  <2>2. loop'.step = "send" /\ loop'.lines = t /\ loop'.frame = loop.frame
    BY <1>1, <1>2, <2>1
  <2>3. /\ a \in Lines /\ t \in Seq(Lines) /\ sent' \in Seq(Lines)
        /\ \A kind, g : /\ Has(sent', kind, g) <=> Has(sent, kind, g) \/ Is(a, kind, g)
                        /\ Once(sent, kind, g) /\ ~(Has(sent, kind, g) /\ Is(a, kind, g))
                             => Once(sent', kind, g)
                        /\ Has(loop.lines, kind, g) <=> Is(a, kind, g) \/ Has(t, kind, g)
                        /\ Once(loop.lines, kind, g) =>
                             Once(t, kind, g) /\ ~(Is(a, kind, g) /\ Has(t, kind, g))
    BY <1>2, <1>4, <2>1, HasAppend, HasHead
  <2>4. /\ Told(a) => LastTold(sent', a.value)
        /\ \A v : ~Told(a) /\ LastTold(sent, v) => LastTold(sent', v)
        /\ \A v : LastTold(loop.lines, v) =>
             LastTold(t, v) \/ (NoneTold(t) /\ Told(a) /\ a.value = v)
        /\ NoneTold(loop.lines) => NoneTold(t) /\ ~Told(a)
    BY <1>2, <1>4, <2>1, <2>3, ToldAppend, ToldTail
  <2>5. Announced(sent', <<>>) /\ Announced(t, sent')
    <3>1. Announced(sent, <<>>) /\ Announced(loop.lines, sent)
      BY <1>1 DEF OrderInv
    <3>2. /\ a.kind # "spawned" => Has(sent, "spawned", a.gen)
          /\ Announced(t, Append(sent, a))
      BY <1>2, <1>4, <3>1, OrderTail
    <3>3. QED
      BY <1>2, <2>1, <2>3, <3>1, <3>2, OrderAppend
  <2>6. TypeOK'
    <3>1. loop' \in [step : {"idle", "send", "drill"}, frame : Frames, lines : Seq(Lines)]
      BY <1>2, <2>1, <2>3
    <3>2. QED
      BY <1>1, <2>3, <3>1 DEF TypeOK
  <2> HIDE DEF a, t
  <2>7. SpawnInv'
    <3>1. SUFFICES ASSUME NEW g \in Gens
                   PROVE  /\ Has(sent', "spawned", g) \/ Has(t, "spawned", g)
                               <=> fold.spawned /\ g <= fold.gen
                          /\ ~(Has(sent', "spawned", g) /\ Has(t, "spawned", g))
                          /\ Once(sent', "spawned", g) /\ Once(t, "spawned", g)
      BY <1>1, <2>2 DEF SpawnInv
    <3>2. /\ Has(sent, "spawned", g) \/ Has(loop.lines, "spawned", g)
               <=> fold.spawned /\ g <= fold.gen
          /\ ~(Has(sent, "spawned", g) /\ Has(loop.lines, "spawned", g))
          /\ Once(sent, "spawned", g) /\ Once(loop.lines, "spawned", g)
      BY <1>1 DEF SpawnInv
    <3>3. QED
      BY <2>3, <3>2
  <2>8. EndInv'
    <3>1. SUFFICES ASSUME air, NEW g \in Gens PROVE EndedOnce(g)'
      BY <1>1 DEF EndInv
    <3>2. EndedOnce(g)
      BY <1>1, <3>1 DEF EndInv
    <3>3. QED
      BY <1>1, <2>2, <2>3, <3>2 DEF EndedOnce
  <2>9. RfdInv'
    BY <1>1, <2>2, <2>4 DEF RfdInv, Truth
  <2>10. OrderInv'
    BY <2>2, <2>5 DEF OrderInv
  <2>11. ReadInv'
    <3>1. \A g : Has(sent, "spawned", g) => Has(sent', "spawned", g)
      BY <2>3
    <3>2. QED
      BY <1>1, <3>1 DEF ReadInv
  <2>12. LoopInv'
    BY <1>1, <2>2 DEF LoopInv
  <2>13. WireInv'
    BY <1>1, <2>2 DEF WireInv, Frame
  <2>14. QED
    BY <2>6, <2>7, <2>8, <2>9, <2>10, <2>11, <2>12, <2>13 DEF IInv
<1>5. QED
  BY <1>3, <1>4

\* A step that changes no line, no end and no report.
LEMMA KeptOK ==
    ASSUME IInv, UNCHANGED <<air, hostVars, sent>>,
           loop'.lines = loop.lines, loop'.frame = loop.frame,
           fold'.spawned = fold.spawned, fold'.state = fold.state, fold'.gen = fold.gen,
           fold'.held = fold.held, \A g \in Gens : reads'[g].lines = reads[g].lines
    PROVE  SpawnInv' /\ EndInv' /\ RfdInv' /\ OrderInv' /\ WireInv'
<1>1. SpawnInv /\ EndInv /\ RfdInv /\ OrderInv /\ WireInv
  BY DEF IInv
<1>2. SpawnInv'
  BY <1>1 DEF SpawnInv
<1>3. EndInv'
  BY <1>1 DEF EndInv, EndedOnce
<1>4. RfdInv'
  BY <1>1 DEF RfdInv, Truth
<1>5. OrderInv'
  BY <1>1 DEF OrderInv
<1>6. WireInv'
  BY <1>1 DEF WireInv, Frame, hostVars
<1>7. QED
  BY <1>2, <1>3, <1>4, <1>5, <1>6

ReadType == [step : {"idle", "reading", "replay", "send"},
             got : 0 .. MaxTexts, lines : Seq(Lines)]

LEMMA DrillDownOK == IInv /\ DrillDown => IInv'
<1> SUFFICES ASSUME IInv, DrillDown PROVE IInv'
  OBVIOUS
<1>1. /\ TypeOK /\ SpawnInv /\ ReadInv /\ LoopInv /\ loop.step = "drill"
      /\ UNCHANGED <<air, hostVars, sent>>
      /\ loop' = [loop EXCEPT !.step = "idle"] /\ shown' = FoldKept
  BY DEF IInv, DrillDown
<1>2. /\ loop \in [step : {"idle", "send", "drill"}, frame : Frames, lines : Seq(Lines)]
      /\ fold \in FoldType /\ reads \in [Gens -> ReadType] /\ shown \in 0 .. MaxTexts + 1
  BY <1>1 DEF TypeOK, FoldType, ReadType
<1>3. loop'.lines = loop.lines /\ loop'.frame = loop.frame /\ loop'.step = "idle"
      /\ loop' \in [step : {"idle", "send", "drill"}, frame : Frames, lines : Seq(Lines)]
  BY <1>1, <1>2
<1>4. shown' \in 1 .. MaxTexts + 1 /\ (shown # NoFold => shown' = shown)
  BY <1>1, <1>2 DEF FoldKept, NoFold
<1>5. loop.lines = <<>> /\ fold.spawned /\ fold.gen \in Gens /\ fold.gen \in Nat
  BY <1>1, <1>2 DEF LoopInv, FoldType
<1>6. Has(sent, "spawned", fold.gen)
  BY <1>1, <1>5, HasEmpty DEF SpawnInv
<1>7. CASE NeedsRead
  <2>1. /\ fold' = [fold EXCEPT !.wantRead = FALSE, !.inFlight = @ \cup {fold.gen}]
        /\ reads' = [reads EXCEPT ![fold.gen].step = "reading"]
    BY <1>7 DEF DrillDown
  <2>2. /\ fold' \in FoldType
        /\ fold'.spawned = fold.spawned /\ fold'.state = fold.state /\ fold'.gen = fold.gen
        /\ fold'.held = fold.held /\ fold'.done = fold.done /\ fold'.wantRead = FALSE
        /\ fold'.inFlight = fold.inFlight \cup {fold.gen}
    BY <1>2, <1>5, <2>1 DEF FoldType
  <2>3. /\ reads' \in [Gens -> ReadType]
        /\ \A g \in Gens : reads'[g].lines = reads[g].lines
        /\ \A g \in Gens : reads'[g].step = IF g = fold.gen THEN "reading" ELSE reads[g].step
    BY <1>2, <2>1 DEF ReadType
  <2>4. reads[fold.gen].step = "idle"
    BY <1>1, <1>5, <1>7 DEF ReadInv, NeedsRead
  <2>5. TypeOK'
    <3>1. shown' \in 0 .. MaxTexts + 1
      BY <1>4
    <3>2. loop' \in [step : {"idle", "send", "drill"}, frame : Frames, lines : Seq(Lines)]
      BY <1>3
    <3>3. UNCHANGED <<air, life, item, frames, wire, texts, sent>>
      BY <1>1 DEF hostVars
    <3> HIDE DEF Gens
    <3>4. QED
      BY <1>1, <2>2, <2>3, <3>1, <3>2, <3>3 DEF TypeOK, FoldType, ReadType
  <2>6. ReadInv'
    <3>1. SUFFICES ASSUME NEW g \in Gens
                   PROVE  /\ g \in fold'.inFlight <=> reads'[g].step \in {"reading", "replay"}
                          /\ fold'.held[g] # None => g \in fold'.inFlight
                          /\ reads'[g].step # "send" => reads'[g].lines = <<>>
                          /\ \A i \in DOMAIN reads'[g].lines :
                               /\ reads'[g].lines[i].gen = g
                               /\ reads'[g].lines[i].kind # "spawned"
                          /\ reads'[g].step # "idle" =>
                               /\ Has(sent, "spawned", g) /\ shown' # NoFold
                               /\ g <= fold'.gen /\ (fold'.wantRead => g < fold'.gen)
      BY <1>1 DEF ReadInv
    <3>2. /\ g \in fold.inFlight <=> reads[g].step \in {"reading", "replay"}
          /\ fold.held[g] # None => g \in fold.inFlight
          /\ reads[g].step # "send" => reads[g].lines = <<>>
          /\ \A i \in DOMAIN reads[g].lines : /\ reads[g].lines[i].gen = g
                                              /\ reads[g].lines[i].kind # "spawned"
          /\ reads[g].step # "idle" => Has(sent, "spawned", g) /\ g <= fold.gen
      BY <1>1 DEF ReadInv
    <3>3. shown' # NoFold /\ fold.gen <= fold.gen
      BY <1>4, <1>5 DEF NoFold
    <3>4. CASE g = fold.gen
      BY <1>6, <2>2, <2>3, <2>4, <3>2, <3>3, <3>4
    <3>5. CASE g # fold.gen
      BY <2>2, <2>3, <3>2, <3>3, <3>5
    <3>6. QED
      BY <3>4, <3>5
  <2>7. LoopInv'
    BY <1>1, <1>3, <1>4, <1>5, <2>2 DEF LoopInv, NoFold
  <2>8. QED
    BY <1>1, <1>3, <2>2, <2>3, <2>5, <2>6, <2>7, KeptOK DEF IInv
<1>8. CASE ~NeedsRead
  <2>1. fold' = fold /\ reads' = reads /\ shown # NoFold /\ ~fold.wantRead /\ shown' = shown
    BY <1>4, <1>8 DEF DrillDown, NeedsRead
  <2>2. TypeOK'
    BY <1>1, <1>3, <2>1 DEF TypeOK, hostVars
  <2>3. ReadInv'
    BY <1>1, <2>1 DEF ReadInv
  <2>4. LoopInv'
    BY <1>1, <1>3, <1>5, <2>1 DEF LoopInv
  <2>5. QED
    BY <1>1, <1>3, <2>1, <2>2, <2>3, <2>4, KeptOK DEF IInv
<1>9. QED
  BY <1>7, <1>8

----------------------------------------------------------------------------
(* The threads.                                                            *)

\* A thread step that changes nothing but its own record.
LEMMA OwnRecordOK ==
    ASSUME IInv, NEW g \in Gens, NEW r \in ReadType, reads' = [reads EXCEPT ![g] = r],
           r.lines = reads[g].lines, reads[g].step # "idle",
           g \in fold.inFlight <=> r.step \in {"reading", "replay"},
           r.step # "send" => r.lines = <<>>,
           UNCHANGED <<air, hostVars, fold, loop, shown, sent>>
    PROVE  IInv'
<1>1. /\ TypeOK /\ ReadInv /\ LoopInv
      /\ UNCHANGED <<air, life, item, frames, wire, texts, fold, loop, shown, sent>>
  BY DEF IInv, hostVars
<1>2. reads \in [Gens -> ReadType]
  BY <1>1 DEF TypeOK, ReadType
<1>3. /\ reads' \in [Gens -> ReadType]
      /\ \A k \in Gens : reads'[k] = IF k = g THEN r ELSE reads[k]
  BY <1>2
<1>4. \A k \in Gens : reads'[k].lines = reads[k].lines
  BY <1>3
<1>5. TypeOK'
  <2> HIDE DEF Gens
  <2>1. QED
    BY <1>1, <1>3 DEF TypeOK, ReadType
<1>6. ReadInv'
  <2>1. SUFFICES ASSUME NEW k \in Gens
                 PROVE  /\ k \in fold.inFlight <=> reads'[k].step \in {"reading", "replay"}
                        /\ fold.held[k] # None => k \in fold.inFlight
                        /\ reads'[k].step # "send" => reads'[k].lines = <<>>
                        /\ \A i \in DOMAIN reads'[k].lines :
                             /\ reads'[k].lines[i].gen = k
                             /\ reads'[k].lines[i].kind # "spawned"
                        /\ reads'[k].step # "idle" =>
                             /\ Has(sent, "spawned", k) /\ shown # NoFold
                             /\ k <= fold.gen /\ (fold.wantRead => k < fold.gen)
    BY <1>1 DEF ReadInv
  <2>2. CASE k = g
    BY <1>1, <1>3, <1>4, <2>2 DEF ReadInv
  <2>3. CASE k # g
    BY <1>1, <1>3, <2>3 DEF ReadInv
  <2>4. QED
    BY <2>2, <2>3
<1>7. LoopInv'
  BY <1>1 DEF LoopInv
<1>8. QED
  BY <1>1, <1>4, <1>5, <1>6, <1>7, KeptOK DEF IInv

LEMMA ReadOK ==
    ASSUME IInv, NEW g \in Gens, ReadReturns(g) \/ ReadFails(g)
    PROVE  IInv'
<1>1. PICK n \in 0 .. MaxTexts : reads' = [reads EXCEPT ![g] = [step |-> "replay", got |-> n, lines |-> <<>>]]
  <2>1. texts \in 0 .. MaxTexts /\ 0 \in 0 .. MaxTexts
    BY DEF IInv, TypeOK
  <2>2. QED
    BY <2>1 DEF ReadReturns, ReadFails
<1>2. /\ reads[g].step = "reading" /\ UNCHANGED <<air, hostVars, fold, loop, shown, sent>>
  BY DEF ReadReturns, ReadFails
<1>3. reads[g].lines = <<>> /\ g \in fold.inFlight
  BY <1>2 DEF IInv, ReadInv
<1> DEFINE r == [step |-> "replay", got |-> n, lines |-> <<>>]
<1>4. r \in ReadType /\ r.step = "replay" /\ r.lines = <<>> /\ reads' = [reads EXCEPT ![g] = r]
  BY <1>1 DEF ReadType
<1> HIDE DEF r
<1>5. QED
  BY <1>2, <1>3, <1>4, OwnRecordOK

\* The lines of a transcript, and the state that may follow them.
Fresh(g, n) == [i \in 1 .. n |-> Line("text", g, None)]
Own(g, v) == IF v = None THEN <<>> ELSE <<Line("state", g, v)>>

LEMMA ReplayLines ==
    ASSUME NEW g \in Gens, NEW n \in Nat, NEW v \in States \cup {None}
    PROVE  \A a \in {Fresh(g, n), <<>>} :
             LET all == a \o Own(g, v)
             IN  /\ all \in Seq(Lines)
                 /\ \A i \in DOMAIN all : all[i].gen = g /\ all[i].kind # "spawned"
                 /\ Has(all, "state", g) <=> v # None
                 /\ Once(all, "state", g)
<1> DEFINE fresh == [i \in 1 .. n |-> Line("text", g, None)]
           q     == Line("state", g, v)
           own   == IF v = None THEN <<>> ELSE <<q>>
<1>1. /\ Line("text", g, None) \in Lines /\ Line("text", g, None).kind = "text"
      /\ Line("text", g, None).gen = g
      /\ q \in Lines /\ q.kind = "state" /\ q.gen = g
  BY DEF Line, Lines
<1>2. fresh \in Seq(Lines) /\ <<>> \in Seq(Lines)
  BY <1>1
<1>3. /\ \A i \in DOMAIN fresh : fresh[i].gen = g /\ fresh[i].kind = "text"
      /\ \A i \in DOMAIN <<>> : <<>>[i].gen = g /\ <<>>[i].kind = "text"
  BY <1>1
<1> HIDE DEF q, fresh
<1>4. ASSUME NEW a \in Seq(Lines), \A i \in DOMAIN a : a[i].gen = g /\ a[i].kind = "text"
      PROVE  /\ a \o own \in Seq(Lines)
             /\ \A i \in DOMAIN (a \o own) : /\ (a \o own)[i].gen = g
                                             /\ (a \o own)[i].kind # "spawned"
             /\ Has(a \o own, "state", g) <=> v # None
             /\ Once(a \o own, "state", g)
  <2>1. ~Has(a, "state", g) /\ Once(a, "state", g)
    BY <1>4 DEF Has, Once, Is
  <2>2. CASE v = None
    <3>1. a \o own = a
      BY <1>4, <2>2, ConcatEmptySeq
    <3>2. QED
      BY <1>4, <2>1, <2>2, <3>1
  <2>3. CASE v # None
    <3>1. a \o own = Append(a, q)
      <4>1. own = <<q>>
        BY <2>3
      <4>2. a \o <<q>> = Append(a, q)
        BY <1>1, <1>4, AppendIsConcat
      <4>3. QED
        BY <4>1, <4>2
    <3>2. /\ Append(a, q) \in Seq(Lines) /\ Has(Append(a, q), "state", g)
          /\ Once(Append(a, q), "state", g)
      BY <1>1, <1>4, <2>1, HasAppend DEF Is
    <3>3. \A i \in DOMAIN Append(a, q) : /\ Append(a, q)[i].gen = g
                                         /\ Append(a, q)[i].kind # "spawned"
      BY <1>1, <1>4
    <3>4. QED
      BY <2>3, <3>1, <3>2, <3>3
  <2>4. QED
    BY <2>2, <2>3
<1> HIDE DEF own
<1>5. \A a \in {fresh, <<>>} :
        /\ a \o own \in Seq(Lines)
        /\ \A i \in DOMAIN (a \o own) : /\ (a \o own)[i].gen = g
                                        /\ (a \o own)[i].kind # "spawned"
        /\ Has(a \o own, "state", g) <=> v # None
        /\ Once(a \o own, "state", g)
  BY <1>2, <1>3, <1>4
<1>6. fresh = Fresh(g, n) /\ own = Own(g, v)
  BY DEF own, q, fresh, Fresh, Own
<1>7. QED
  BY <1>5, <1>6

LEMMA ReplayOK ==
    ASSUME IInv, NEW g \in Gens, ReplayTranscript(g)
    PROVE  IInv'
<1> DEFINE n     == IF reads[g].got >= shown THEN reads[g].got - shown + 1 ELSE 0
           fresh == Fresh(g, n)
           v     == fold.held[g]
           own   == Own(g, v)
           a     == IF EndChildRead(fold, g).sendable THEN fresh ELSE <<>>
           r     == [step |-> "send", got |-> 0, lines |-> a \o own]
<1>1. /\ TypeOK /\ SpawnInv /\ EndInv /\ RfdInv /\ OrderInv /\ ReadInv /\ LoopInv /\ WireInv
      /\ reads[g].step = "replay"
      /\ UNCHANGED <<air, life, item, frames, wire, texts, loop, sent>>
  BY DEF IInv, ReplayTranscript, hostVars
<1>2. fold \in FoldType /\ reads \in [Gens -> ReadType] /\ shown \in 0 .. MaxTexts + 1
  BY <1>1 DEF TypeOK, FoldType, ReadType
<1>3. /\ reads[g].got \in 0 .. MaxTexts /\ v \in States \cup {None} /\ fold.spawned
      /\ reads[g].lines = <<>> /\ Has(sent, "spawned", g) /\ shown # NoFold
      /\ g <= fold.gen /\ (fold.wantRead => g < fold.gen)
  BY <1>1, <1>2 DEF FoldType, ReadType, ReadInv, LoopInv
<1>4. n \in Nat /\ shown + n \in 1 .. MaxTexts + 1
  BY <1>2, <1>3 DEF NoFold
<1>5. Len(fresh) = n
  BY <1>4 DEF Fresh
<1>6. /\ shown' = shown + n /\ reads' = [reads EXCEPT ![g] = r]
      /\ fold' = [fold EXCEPT !.inFlight = @ \ {g}, !.held[g] = None]
  BY <1>5 DEF ReplayTranscript, EndChildRead, Fresh, Own
<1>7. /\ fold' \in FoldType
      /\ fold'.spawned = fold.spawned /\ fold'.state = fold.state /\ fold'.gen = fold.gen
      /\ fold'.done = fold.done /\ fold'.wantRead = fold.wantRead
      /\ fold'.inFlight = fold.inFlight \ {g}
      /\ fold'.held = [fold.held EXCEPT ![g] = None]
  BY <1>2, <1>6 DEF FoldType
<1>8. \A k \in Gens : fold'.held[k] = IF k = g THEN None ELSE fold.held[k]
  BY <1>2, <1>7 DEF FoldType
<1>9. /\ a \o own \in Seq(Lines)
      /\ \A i \in DOMAIN (a \o own) : /\ (a \o own)[i].gen = g
                                      /\ (a \o own)[i].kind # "spawned"
      /\ Has(a \o own, "state", g) <=> v # None
      /\ Once(a \o own, "state", g)
  <2>1. a \in {fresh, <<>>}
    OBVIOUS
  <2>2. v \in States \cup {None} /\ n \in Nat
    BY <1>3, <1>4
  <2>3. \A m \in Nat, w \in States \cup {None} : \A b \in {Fresh(g, m), <<>>} :
          /\ b \o Own(g, w) \in Seq(Lines)
          /\ \A i \in DOMAIN (b \o Own(g, w)) : /\ (b \o Own(g, w))[i].gen = g
                                                /\ (b \o Own(g, w))[i].kind # "spawned"
          /\ Has(b \o Own(g, w), "state", g) <=> w # None
          /\ Once(b \o Own(g, w), "state", g)
    BY ReplayLines
  <2> HIDE DEF a, n, v
  <2>4. QED
    BY <2>1, <2>2, <2>3
<1> HIDE DEF a, own, fresh, n
<1>10. r \in ReadType /\ r.step = "send" /\ r.lines = a \o own
  BY <1>9 DEF ReadType
<1> HIDE DEF r
<1>11. /\ reads' \in [Gens -> ReadType]
       /\ \A k \in Gens : reads'[k] = IF k = g THEN r ELSE reads[k]
  BY <1>2, <1>6, <1>10
<1>12. TypeOK'
  <2>1. shown' \in 0 .. MaxTexts + 1
    BY <1>4, <1>6
  <2> HIDE DEF Gens
  <2>2. QED
    BY <1>1, <1>7, <1>11, <2>1 DEF TypeOK, FoldType, ReadType
<1>13. SpawnInv'
  BY <1>1, <1>7 DEF SpawnInv
<1>14. EndInv'
  <2>1. SUFFICES ASSUME air, NEW k \in Gens PROVE EndedOnce(k)'
    BY <1>1 DEF EndInv
  <2>2. EndedOnce(k)
    BY <1>1, <2>1 DEF EndInv
  <2>3. CASE k = g
    <3>1. ~Has(reads[g].lines, "state", g)
      BY <1>3, HasEmpty
    <3>2. /\ reads'[g].lines = a \o own /\ fold'.held[g] = None
          /\ Has(reads'[g].lines, "state", g) <=> fold.held[g] # None
          /\ Once(reads'[g].lines, "state", g)
      BY <1>8, <1>9, <1>10, <1>11
    <3>3. QED
      BY <1>1, <1>7, <2>2, <2>3, <3>1, <3>2 DEF EndedOnce
  <2>4. CASE k # g
    <3>1. reads'[k] = reads[k] /\ fold'.held[k] = fold.held[k]
      BY <1>8, <1>11, <2>4
    <3>2. QED
      BY <1>1, <1>7, <2>2, <3>1 DEF EndedOnce
  <2>5. QED
    BY <2>3, <2>4
<1>15. RfdInv'
  <2>1. ASSUME ~air, NEW k \in Gens
        PROVE  fold'.held[k] = None /\ ~Has(reads'[k].lines, "state", k)
    <3>1. fold.held[k] = None /\ ~Has(reads[k].lines, "state", k)
      BY <1>1, <2>1 DEF RfdInv
    <3>2. QED
      BY <1>8, <1>9, <1>10, <1>11, <3>1
  <2>2. QED
    BY <1>1, <1>7, <2>1 DEF RfdInv, Truth
<1>16. OrderInv'
  BY <1>1 DEF OrderInv
<1>17. ReadInv'
  <2>1. SUFFICES ASSUME NEW k \in Gens
                 PROVE  /\ k \in fold'.inFlight <=> reads'[k].step \in {"reading", "replay"}
                        /\ fold'.held[k] # None => k \in fold'.inFlight
                        /\ reads'[k].step # "send" => reads'[k].lines = <<>>
                        /\ \A i \in DOMAIN reads'[k].lines :
                             /\ reads'[k].lines[i].gen = k
                             /\ reads'[k].lines[i].kind # "spawned"
                        /\ reads'[k].step # "idle" =>
                             /\ Has(sent, "spawned", k) /\ shown' # NoFold
                             /\ k <= fold'.gen /\ (fold'.wantRead => k < fold'.gen)
    BY <1>1 DEF ReadInv
  <2>2. shown' # NoFold
    BY <1>4, <1>6 DEF NoFold
  <2>3. CASE k = g
    <3>1. reads'[k].step = "send" /\ reads'[k].lines = a \o own
      BY <1>10, <1>11, <2>3
    <3>2. k \notin fold'.inFlight /\ fold'.held[k] = None
      BY <1>7, <1>8, <2>3
    <3>3. \A i \in DOMAIN reads'[k].lines : /\ reads'[k].lines[i].gen = k
                                            /\ reads'[k].lines[i].kind # "spawned"
      BY <1>9, <2>3, <3>1
    <3>4. /\ Has(sent, "spawned", k)
          /\ k <= fold'.gen /\ (fold'.wantRead => k < fold'.gen)
      BY <1>3, <1>7, <2>3
    <3>5. QED
      BY <2>2, <3>1, <3>2, <3>3, <3>4
  <2>4. CASE k # g
    BY <1>1, <1>7, <1>8, <1>11, <2>2, <2>4 DEF ReadInv
  <2>5. QED
    BY <2>3, <2>4
<1>18. LoopInv'
  <2>1. shown' # NoFold
    BY <1>4, <1>6 DEF NoFold
  <2>2. QED
    BY <1>1, <1>3, <1>7, <2>1 DEF LoopInv
<1>19. WireInv'
  BY <1>1 DEF WireInv, Frame
<1>20. QED
  BY <1>12, <1>13, <1>14, <1>15, <1>16, <1>17, <1>18, <1>19 DEF IInv

LEMMA SendTranscriptOK ==
    ASSUME IInv, NEW g \in Gens, SendTranscript(g)
    PROVE  IInv'
<1>1. /\ TypeOK /\ SpawnInv /\ EndInv /\ RfdInv /\ OrderInv /\ ReadInv /\ LoopInv /\ WireInv
      /\ reads[g].step = "send"
      /\ UNCHANGED <<air, life, item, frames, wire, texts, fold, loop, shown>>
  BY DEF IInv, SendTranscript, hostVars
<1>2. reads \in [Gens -> ReadType] /\ sent \in Seq(Lines)
  BY <1>1 DEF TypeOK, ReadType
<1>3. CASE reads[g].lines = <<>>
  <2>1. NoRead \in ReadType /\ NoRead.lines = <<>> /\ NoRead.step = "idle"
    BY DEF NoRead, ReadType
  <2>2. reads' = [reads EXCEPT ![g] = NoRead] /\ sent' = sent
    BY <1>3 DEF SendTranscript
  <2>3. g \notin fold.inFlight
    BY <1>1 DEF ReadInv
  <2>4. QED
    BY <1>1, <1>3, <2>1, <2>2, <2>3, OwnRecordOK DEF hostVars
<1>4. CASE reads[g].lines # <<>>
  <2> DEFINE a == Head(reads[g].lines)
             t == Tail(reads[g].lines)
             r == [reads[g] EXCEPT !.lines = t]
  <2>1. sent' = Append(sent, a) /\ reads' = [reads EXCEPT ![g].lines = Tail(@)]
    BY <1>4 DEF SendTranscript
  <2>2. reads[g].lines \in Seq(Lines) /\ a \in Lines /\ t \in Seq(Lines)
    BY <1>2, <1>4 DEF ReadType
  <2>3. /\ r \in ReadType /\ r.step = "send" /\ r.lines = t
        /\ reads' \in [Gens -> ReadType]
        /\ \A k \in Gens : reads'[k] = IF k = g THEN r ELSE reads[k]
    BY <1>1, <1>2, <2>1, <2>2 DEF ReadType
  <2>4. /\ sent' \in Seq(Lines)
        /\ \A kind, k : /\ Has(sent', kind, k) <=> Has(sent, kind, k) \/ Is(a, kind, k)
                        /\ Once(sent, kind, k) /\ ~(Has(sent, kind, k) /\ Is(a, kind, k))
                             => Once(sent', kind, k)
                        /\ Has(reads[g].lines, kind, k) <=> Is(a, kind, k) \/ Has(t, kind, k)
                        /\ Once(reads[g].lines, kind, k) =>
                             Once(t, kind, k) /\ ~(Is(a, kind, k) /\ Has(t, kind, k))
    BY <1>2, <1>4, <2>1, <2>2, HasAppend, HasHead
  <2>5. /\ a.gen = g /\ a.kind # "spawned"
        /\ \A i \in DOMAIN t : t[i].gen = g /\ t[i].kind # "spawned"
    <3>1. \A i \in DOMAIN reads[g].lines : /\ reads[g].lines[i].gen = g
                                           /\ reads[g].lines[i].kind # "spawned"
      BY <1>1 DEF ReadInv
    <3> DEFINE s == reads[g].lines
               n == Len(t)
    <3>2. /\ n \in Nat /\ DOMAIN t = 1 .. n /\ DOMAIN s = 1 .. n + 1
          /\ s[1] = a /\ (\A i \in 1 .. n : t[i] = s[i + 1])
      BY <1>4, <2>2, TailShape
    <3> HIDE DEF s, n, t, a
    <3>3. 1 \in 1 .. n + 1 /\ \A i \in 1 .. n : i + 1 \in 1 .. n + 1
      BY <3>2
    <3>4. \A i \in DOMAIN s : s[i].gen = g /\ s[i].kind # "spawned"
      BY <3>1 DEF s
    <3>5. QED
      BY <3>2, <3>3, <3>4
  <2>6. /\ Told(a) => LastTold(sent', a.value)
        /\ \A v : ~Told(a) /\ LastTold(sent, v) => LastTold(sent', v)
    BY <1>2, <2>1, <2>2, ToldAppend
  <2>7. Has(sent, "spawned", g) /\ g <= fold.gen /\ shown # NoFold
        /\ (fold.wantRead => g < fold.gen)
        /\ (~air => ~Has(reads[g].lines, "state", g))
    BY <1>1 DEF ReadInv, RfdInv
  <2> HIDE DEF a, t, r
  <2>8. OrderInv'
    <3>1. Announced(sent, <<>>) /\ Announced(loop.lines, sent)
      BY <1>1 DEF OrderInv
    <3>2. Announced(sent', <<>>)
      BY <1>2, <2>1, <2>2, <2>5, <2>7, <3>1, OrderAppend
    <3>3. Announced(loop.lines, sent')
      BY <1>2, <2>1, <2>2, <3>1, OrderMore
    <3>4. QED
      BY <1>1, <3>2, <3>3 DEF OrderInv
  <2>9. TypeOK'
    <3> HIDE DEF Gens
    <3>1. QED
      BY <1>1, <2>3, <2>4 DEF TypeOK, ReadType
  <2>10. SpawnInv'
    <3>1. ASSUME NEW k \in Gens
          PROVE  /\ Has(sent', "spawned", k) <=> Has(sent, "spawned", k)
                 /\ Once(sent, "spawned", k) => Once(sent', "spawned", k)
      BY <2>4, <2>5 DEF Is
    <3>2. QED
      BY <1>1, <3>1 DEF SpawnInv
  <2>11. EndInv'
    <3>1. SUFFICES ASSUME air, NEW k \in Gens PROVE EndedOnce(k)'
      BY <1>1 DEF EndInv
    <3>2. EndedOnce(k)
      BY <1>1, <3>1 DEF EndInv
    <3>3. CASE k = g
      <4>1. reads'[k].lines = t
        BY <2>3, <3>3
      <4>2. QED
        BY <1>1, <2>4, <3>2, <3>3, <4>1 DEF EndedOnce
    <3>4. CASE k # g
      <4>1. reads'[k].lines = reads[k].lines /\ ~Is(a, "state", k)
        BY <2>3, <2>5, <3>4 DEF Is
      <4>2. QED
        BY <1>1, <2>4, <3>2, <4>1 DEF EndedOnce
    <3>5. QED
      BY <3>3, <3>4
  <2>12. RfdInv'
    <3>1. SUFFICES ASSUME ~air PROVE RfdInv'
      BY <1>1 DEF RfdInv
    <3>2. ~Told(a)
      BY <2>4, <2>5, <2>7, <3>1 DEF Told, Is
    <3>3. \A k \in Gens : fold.held[k] = None /\ ~Has(reads'[k].lines, "state", k)
      BY <1>1, <2>3, <2>4, <3>1 DEF RfdInv
    <3>4. QED
      BY <1>1, <2>6, <3>1, <3>2, <3>3 DEF RfdInv, Truth
  <2>13. ReadInv'
    <3>1. SUFFICES ASSUME NEW k \in Gens
                   PROVE  /\ k \in fold.inFlight <=> reads'[k].step \in {"reading", "replay"}
                          /\ fold.held[k] # None => k \in fold.inFlight
                          /\ reads'[k].step # "send" => reads'[k].lines = <<>>
                          /\ \A i \in DOMAIN reads'[k].lines :
                               /\ reads'[k].lines[i].gen = k
                               /\ reads'[k].lines[i].kind # "spawned"
                          /\ reads'[k].step # "idle" =>
                               /\ Has(sent', "spawned", k) /\ shown # NoFold
                               /\ k <= fold.gen /\ (fold.wantRead => k < fold.gen)
      BY <1>1 DEF ReadInv
    <3>2. /\ k \in fold.inFlight <=> reads[k].step \in {"reading", "replay"}
          /\ fold.held[k] # None => k \in fold.inFlight
          /\ reads[k].step # "send" => reads[k].lines = <<>>
          /\ \A i \in DOMAIN reads[k].lines : /\ reads[k].lines[i].gen = k
                                              /\ reads[k].lines[i].kind # "spawned"
          /\ reads[k].step # "idle" =>
               /\ Has(sent, "spawned", k) /\ shown # NoFold
               /\ k <= fold.gen /\ (fold.wantRead => k < fold.gen)
      BY <1>1 DEF ReadInv
    <3>3. Has(sent, "spawned", k) => Has(sent', "spawned", k)
      BY <2>4
    <3>4. CASE k = g
      BY <1>1, <2>3, <2>5, <3>2, <3>3, <3>4
    <3>5. CASE k # g
      BY <2>3, <3>2, <3>3, <3>5
    <3>6. QED
      BY <3>4, <3>5
  <2>14. LoopInv' /\ WireInv'
    BY <1>1 DEF LoopInv, WireInv, Frame
  <2>15. QED
    BY <2>8, <2>9, <2>10, <2>11, <2>12, <2>13, <2>14 DEF IInv
<1>5. QED
  BY <1>3, <1>4

----------------------------------------------------------------------------
(* The theorems.                                                           *)

LEMMA StepOK == IInv /\ [Next]_vars => IInv'
<1> SUFFICES ASSUME IInv, [Next]_vars PROVE IInv'
  OBVIOUS
<1>1. CASE \/ HostMoves \/ HostRepeats \/ HostWrites
           \/ \E method \in DOMAIN Allowed : SubagentControl(method)
  BY <1>1, ChildOK
<1>2. CASE HandleItem
  BY <1>2, HandleOK
<1>3. CASE SendFoldOutput
  BY <1>3, SendFoldOK
<1>4. CASE DrillDown
  BY <1>4, DrillDownOK
<1>5. ASSUME NEW g \in Gens, Thread(g) PROVE IInv'
  BY <1>5, ReadOK, ReplayOK, SendTranscriptOK DEF Thread
<1>6. CASE UNCHANGED vars
  <2>1. TypeOK' /\ WireInv'
    BY <1>6 DEF IInv, TypeOK, WireInv, Frame, vars
  <2>2. QED
    BY <1>6, <2>1, OthersOK DEF IInv, vars
<1>7. QED
  BY <1>1, <1>2, <1>3, <1>4, <1>5, <1>6 DEF Next

\* The inductive invariant holds in every reachable state.
THEOREM Invariant == Spec => []IInv
<1>1. Init => IInv
  BY InitOK
<1>2. IInv /\ [Next]_vars => IInv'
  BY StepOK
<1>3. QED
  BY <1>1, <1>2, PTL DEF Spec

\* The state keeps its type: the sequence of lines, the fold and the threads.
THEOREM TypeCorrect == Spec => []TypeOK
<1>1. IInv => TypeOK
  BY DEF IInv
<1>2. QED
  BY <1>1, Invariant, PTL

LEMMA SentOnce ==
    ASSUME NEW kind, NEW g, Once(sent, kind, g)
    PROVE  Cardinality(Sent(kind, g)) <= 1
<1>1. CASE Sent(kind, g) = {}
  BY <1>1, FS_EmptySet
<1>2. CASE Sent(kind, g) # {}
  <2>1. PICK i : i \in Sent(kind, g)
    BY <1>2
  <2>2. Sent(kind, g) = {i}
    BY <2>1 DEF Sent, Once, Is
  <2>3. Cardinality({i}) = 1
    BY FS_Singleton
  <2> HIDE DEF Sent
  <2>4. QED
    BY <2>2, <2>3
<1>3. QED
  BY <1>1, <1>2

\* Whatever the threads do, an AIR client gets one announcement and one end of a
\* generation, and no line of it before its announcement (end_child_read, on_item).
THEOREM OneEndHolds == Spec => []OneEndPerGeneration
<1>1. IInv => OneEndPerGeneration
  <2>1. SUFFICES ASSUME IInv, air, NEW g \in Gens
                 PROVE  /\ Cardinality(Sent("spawned", g)) <= 1
                        /\ Cardinality(Sent("state", g)) <= 1
                        /\ \A i \in Sent("state", g) \cup Sent("text", g) :
                             \E j \in Sent("spawned", g) : j < i
    BY DEF OneEndPerGeneration
  <2>2. Once(sent, "spawned", g) /\ Once(sent, "state", g) /\ Announced(sent, <<>>)
    BY <2>1 DEF IInv, SpawnInv, EndInv, EndedOnce, OrderInv
  <2>3. ASSUME NEW i \in Sent("state", g) \cup Sent("text", g)
        PROVE  \E j \in Sent("spawned", g) : j < i
    <3>1. i \in DOMAIN sent /\ sent[i].kind # "spawned" /\ sent[i].gen = g
      BY <2>3 DEF Sent
    <3>2. Before(sent, i, g)
      BY <2>2, <3>1, HasEmpty DEF Announced
    <3>3. QED
      BY <3>2 DEF Before, Sent
  <2>4. QED
    BY <2>2, <2>3, SentOnce
<1>2. QED
  BY <1>1, Invariant, PTL

\* A client of the RFD is told of one generation only.
LEMMA ToldOfOne ==
    ASSUME IInv, ~air, NEW i \in DOMAIN sent, Told(sent[i])
    PROVE  sent[i].gen = 1
<1>1. /\ sent \in Seq(Lines) /\ Announced(sent, <<>>) /\ fold.gen = 1
      /\ \A g \in Gens : Has(sent, "spawned", g) => g <= fold.gen
  BY DEF IInv, TypeOK, OrderInv, RfdInv, SpawnInv
<1>2. sent[i].gen \in Gens
  <2>1. sent[i] \in Lines
    BY <1>1
  <2>2. QED
    BY <2>1 DEF Lines
<1>3. Has(sent, "spawned", sent[i].gen)
  <2>1. CASE sent[i].kind = "spawned"
    BY <2>1 DEF Has, Is
  <2>2. CASE sent[i].kind # "spawned"
    <3>1. Before(sent, i, sent[i].gen)
      BY <1>1, <2>2, HasEmpty DEF Announced
    <3>2. QED
      BY <3>1 DEF Before, Has, Is
  <2>3. QED
    BY <2>1, <2>2
<1>4. QED
  BY <1>1, <1>2, <1>3

\* When every report is handled and no transcript is being read, the client has the
\* host's truth: no end is lost in a read that was skipped, failed or overtaken.
THEOREM TruthArrives == Spec => []ClientHasTheTruth
<1>1. IInv => ClientHasTheTruth
  <2>1. SUFFICES ASSUME IInv, Quiet, life # None
                 PROVE  IF air
                        THEN /\ \A g \in 1 .. (fold.gen - 1) : Sent("state", g) # {}
                             /\ (Sent("state", fold.gen) # {}) = (SubagentState(life) # None)
                        ELSE LastState(1) = IF SubagentState(life) = None
                                            THEN "running" ELSE SubagentState(life)
    BY DEF ClientHasTheTruth
  <2>2. /\ TypeOK /\ EndInv /\ RfdInv /\ ReadInv /\ LoopInv /\ WireInv /\ wire = <<>>
        /\ loop.step = "idle" /\ \A g \in Gens : reads[g].step = "idle"
    BY <2>1 DEF IInv, Quiet
  <2>3. /\ fold.gen \in Gens /\ loop.lines = <<>> /\ loop.frame.life = life /\ fold.spawned
        /\ fold.state # None <=> SubagentState(life) # None
        /\ ~air => fold.state = SubagentState(life)
    <3>1. fold.gen \in Gens
      BY <2>2 DEF TypeOK
    <3>2. loop.frame.life = life
      BY <2>2 DEF WireInv, Frame
    <3>3. QED
      BY <2>1, <2>2, <3>1, <3>2 DEF LoopInv
  <2>4. \A g \in Gens : fold.held[g] = None /\ reads[g].lines = <<>>
    BY <2>2 DEF ReadInv
  <2>5. CASE air
    <3>1. ASSUME NEW g \in Gens
          PROVE  Sent("state", g) # {} <=> g < fold.gen \/ (g = fold.gen /\ fold.state # None)
      <4>1. Has(sent, "state", g) <=> g < fold.gen \/ (g = fold.gen /\ fold.state # None)
        BY <2>2, <2>3, <2>4, <2>5, HasEmpty DEF EndInv, EndedOnce
      <4>2. QED
        BY <4>1 DEF Has, Is, Sent
    <3>2. \A g \in 1 .. (fold.gen - 1) : g \in Gens /\ g < fold.gen
      BY <2>3
    <3>3. ~(fold.gen < fold.gen)
      BY <2>3
    <3>4. QED
      BY <2>3, <2>5, <3>1, <3>2, <3>3
  <2>6. CASE ~air
    <3>1. LastTold(sent, Truth)
      BY <2>2, <2>3, <2>6 DEF RfdInv, LastTold
    <3>2. PICK i \in DOMAIN sent : /\ Told(sent[i]) /\ sent[i].value = Truth
                                   /\ \A j \in DOMAIN sent : j > i => ~Told(sent[j])
      BY <3>1 DEF LastTold
    <3> DEFINE told == Sent("state", 1) \cup {j \in Sent("spawned", 1) : sent[j].value # None}
               last == CHOOSE j \in told : \A k \in told : k <= j
    <3>3. \A j \in told : j \in DOMAIN sent /\ Told(sent[j])
      BY DEF Sent, Told
    <3>4. i \in told
      <4>1. sent[i].gen = 1
        BY <2>1, <2>6, <3>2, ToldOfOne
      <4>2. QED
        BY <3>2, <4>1 DEF Sent, Told
    <3>5. DOMAIN sent \subseteq Nat
      BY <2>2 DEF TypeOK
    <3>6. LastState(1) = sent[last].value
      BY <3>4 DEF LastState
    <3> HIDE DEF told
    <3>7. \A j \in told : j <= i
      BY <3>2, <3>3, <3>5
    <3>8. last \in told /\ \A k \in told : k <= last
      BY <3>4, <3>7
    <3> HIDE DEF last
    <3>9. last = i
      BY <3>3, <3>4, <3>5, <3>7, <3>8
    <3>10. QED
      BY <2>3, <2>6, <3>2, <3>6, <3>9 DEF Truth
  <2>7. QED
    BY <2>5, <2>6
<1>2. QED
  BY <1>1, Invariant, PTL

-----------------------------------------------------------------------------
(* The auto-review.                                                         *)

USE AutoReviewAssumption

\* A review is taken from the queue and not yet running.
Starting == loopAt \in {"launch", "session", "turn"}

\* Sessions, turns and processes that are referred to exist.
Bounds ==
  /\ slot <= launched /\ sess \in 0..Len(sessions) /\ session \in 0..Len(sessions)
  /\ \A i \in DOMAIN sessions : sessions[i].gen \in 1..launched
  /\ \A t \in DOMAIN turns : turns[t].sid \in DOMAIN sessions
  /\ Starting => job \in Jobs
  /\ loopAt = "turn" => sess # 0
  /\ loopAt = "retry" => active # "none"

\* The active review's session was started for it, on the process in use; a session
\* left over from a process that is gone is never of the process in use.
SessionOf ==
  /\ active # "none" => session # 0 /\ sessions[session] = [gen |-> slot, of |-> active]
  /\ active = "none" /\ session # 0 =>
       Gen(session) # slot \/ (loopAt = "turn" /\ session = sess /\ sessions[session].of = job)
  /\ Starting => active = "none" /\ session \in {0, sess}
  /\ Starting /\ sess # 0 =>
       Gen(sess) # slot \/ (loopAt = "turn" /\ session = sess /\ sessions[sess].of = job)

\* An approval is queued, being started, or under review, in one place and not settled.
OneReview ==
  /\ \A i \in DOMAIN queue : /\ queue[i] \in asked \ resolved /\ outcome[queue[i]] = "none"
                             /\ queue[i] # active /\ (Starting => queue[i] # job)
  /\ \A i, k \in DOMAIN queue : queue[i] = queue[k] => i = k
  /\ Starting => job \in asked \ resolved /\ outcome[job] = "none"
  /\ active # "none" => active \in asked /\ outcome[active] = "none"
  /\ hres \subseteq asked
  /\ \A j \in Jobs \ asked : outcome[j] = "none"
-----------------------------------------------------------------------------
(* The steps' parts.                                                         *)

LEMMA Elements ==
    ASSUME NEW S, NEW s \in Seq(S)
    PROVE  Len(s) \in Nat /\ DOMAIN s = 1 .. Len(s) /\ \A i \in DOMAIN s : s[i] \in S
OBVIOUS

\* An event is added to the channel.
LEMMA SendsEvent ==
    ASSUME HostOK, NEW e \in Events, chan' = Append(chan, e)
    PROVE  chan' \in Seq(Events) /\ chan' # <<>> /\ (chan # <<>> => Head(chan') = Head(chan))
<1>1. chan \in Seq(Events)
  BY DEF HostOK
<1>2. QED
  BY <1>1

\* A process that ends leaves the channel well typed.
LEMMA EndsSends ==
    ASSUME HostOK, NEW g \in Nat, Ends(g)
    PROVE  alive' \subseteq alive /\ chan' \in Seq(Events)
<1>1. [m |-> "closed", gen |-> g] \in Events
  BY DEF Events
<1>2. QED
  BY <1>1, SendsEvent DEF Ends

LEMMA ResetForgets ==
    ASSUME LoopOK, HostOK, Reset
    PROVE  /\ slot' = 0 /\ session' = 0 /\ hostSessions' = 0
           /\ alive' \subseteq alive /\ chan' \in Seq(Events)
<1>1. CASE slot \in alive
  BY <1>1, EndsSends DEF Reset, LoopOK
<1>2. CASE slot \notin alive
  BY <1>2 DEF Reset, HostOK
<1>3. QED
  BY <1>1, <1>2 DEF Reset

\* The loop takes the first event.
LEMMA TakesEvent ==
    ASSUME HostOK, NEW m, Take(m)
    PROVE  loopAt = "idle" /\ chan # <<>> /\ Event \in Events /\ Event.m = m /\ Tail(chan) \in Seq(Events)
<1>1. chan \in Seq(Events) /\ chan # <<>>
  BY DEF HostOK, Take
<1>2. Head(chan) \in Events /\ Tail(chan) \in Seq(Events)
  BY <1>1
<1>3. QED
  BY <1>1, <1>2 DEF Take, Event

\* The queue without its first job.
LEMMA QueueTail ==
    ASSUME ReviewOK, queue # <<>>
    PROVE  /\ Head(queue) \in Jobs /\ Tail(queue) \in Seq(Jobs)
           /\ Head(queue) = queue[1] /\ 1 \in DOMAIN queue
           /\ \A i \in DOMAIN Tail(queue) : i + 1 \in DOMAIN queue /\ Tail(queue)[i] = queue[i + 1]
                                            /\ i \in Nat /\ i + 1 # 1
<1>1. queue \in Seq(Jobs) /\ Len(queue) \in Nat /\ Len(queue) > 0 /\ DOMAIN queue = 1 .. Len(queue)
  BY DEF ReviewOK
<1>2. /\ Head(queue) = queue[1] /\ Tail(queue) \in Seq(Jobs) /\ DOMAIN Tail(queue) = 1 .. Len(queue) - 1
      /\ \A i \in 1 .. Len(queue) - 1 : Tail(queue)[i] = queue[i + 1]
  BY <1>1
<1>3. QED
  BY <1>1, <1>2

\* The queue without one of its jobs: every other keeps one place.
LEMMA QueueWithout ==
    ASSUME ReviewOK, NEW n \in DOMAIN queue
    PROVE  /\ RemoveAt(queue, n) \in Seq(Jobs)
           /\ \A i \in DOMAIN RemoveAt(queue, n) :
                /\ i \in Nat
                /\ i < n => i \in DOMAIN queue /\ RemoveAt(queue, n)[i] = queue[i]
                /\ i >= n => i + 1 \in DOMAIN queue /\ RemoveAt(queue, n)[i] = queue[i + 1]
<1> DEFINE a == SubSeq(queue, 1, n - 1)  b == SubSeq(queue, n + 1, Len(queue))
<1>1. /\ queue \in Seq(Jobs) /\ Len(queue) \in Nat /\ DOMAIN queue = 1 .. Len(queue)
      /\ n \in Nat /\ n >= 1 /\ n <= Len(queue)
  BY DEF ReviewOK
<1>2. /\ a \in Seq(Jobs) /\ Len(a) = n - 1
      /\ \A i \in 1 .. n - 1 : a[i] = queue[i]
  <2>1. \A i \in 1 .. n - 1 : queue[i] \in Jobs
    BY <1>1, ElementOfSeq
  <2>2. 1 \in Int /\ n - 1 \in Int
    BY <1>1
  <2>3. /\ a \in Seq(Jobs) /\ Len(a) = (IF 1 <= n - 1 THEN n - 1 - 1 + 1 ELSE 0)
        /\ \A i \in 1 .. n - 1 - 1 + 1 : a[i] = queue[1 + i - 1]
    BY <2>1, <2>2, SubSeqProperties
  <2>4. \A k \in Nat : k >= 1 => (IF 1 <= k - 1 THEN k - 1 - 1 + 1 ELSE 0) = k - 1
    OBVIOUS
  <2>5. \A i \in 1 .. n - 1 : i \in 1 .. n - 1 - 1 + 1 /\ 1 + i - 1 = i
    BY <1>1
  <2>6. QED
    BY <1>1, <2>3, <2>4, <2>5
<1>3. /\ b \in Seq(Jobs) /\ Len(b) = Len(queue) - n
      /\ \A i \in 1 .. Len(queue) - n : b[i] = queue[n + i]
  <2>1. \A i \in n + 1 .. Len(queue) : queue[i] \in Jobs
    BY <1>1, ElementOfSeq
  <2>2. n + 1 \in Int /\ Len(queue) \in Int
    BY <1>1
  <2>3. /\ b \in Seq(Jobs) /\ Len(b) = (IF n + 1 <= Len(queue) THEN Len(queue) - (n + 1) + 1 ELSE 0)
        /\ \A i \in 1 .. Len(queue) - (n + 1) + 1 : b[i] = queue[n + 1 + i - 1]
    BY SMTT(30), <2>1, <2>2, SubSeqProperties
  <2>4. \A k, l \in Nat : k <= l => (IF k + 1 <= l THEN l - (k + 1) + 1 ELSE 0) = l - k
    OBVIOUS
  <2>5. \A i \in 1 .. Len(queue) - n : i \in 1 .. Len(queue) - (n + 1) + 1 /\ n + 1 + i - 1 = n + i
    BY <1>1
  <2>6. QED
    BY <1>1, <2>3, <2>4, <2>5
<1> DEFINE c == a \o b
<1> HIDE DEF a, b
<1>4. /\ c \in Seq(Jobs) /\ Len(c) = Len(queue) - 1
      /\ \A i \in 1 .. Len(queue) - 1 : c[i] = IF i <= n - 1 THEN a[i] ELSE b[i - (n - 1)]
  <2>1. /\ c \in Seq(Jobs) /\ Len(c) = Len(a) + Len(b)
        /\ \A i \in 1 .. Len(a) + Len(b) : c[i] = IF i <= Len(a) THEN a[i] ELSE b[i - Len(a)]
    BY ZenonT(40), <1>2, <1>3, ConcatProperties
  <2>2. Len(a) + Len(b) = Len(queue) - 1 /\ Len(a) = n - 1
    BY <1>1, <1>2, <1>3
  <2> HIDE DEF c
  <2>3. QED
    BY <2>1, <2>2
<1> HIDE DEF c
<1>5. DOMAIN c = 1 .. Len(queue) - 1
  BY <1>1, <1>4
<1>6. ASSUME NEW i \in 1 .. Len(queue) - 1
      PROVE  /\ i \in Nat
             /\ i < n => i \in DOMAIN queue /\ c[i] = queue[i]
             /\ i >= n => i + 1 \in DOMAIN queue /\ c[i] = queue[i + 1]
  <2>0. i \in Nat /\ n \in Nat /\ (i < n \/ i >= n) /\ ~(i < n /\ i >= n)
    BY <1>1
  <2>1. CASE i < n
    <3>1. i \in 1 .. n - 1 /\ i <= n - 1 /\ i \in 1 .. Len(queue)
      BY <1>1, <2>1
    <3>2. QED
      BY <1>1, <1>2, <1>4, <2>1, <3>1
  <2>2. CASE i >= n
    <3>1. i - (n - 1) \in 1 .. Len(queue) - n /\ n + (i - (n - 1)) = i + 1 /\ ~(i <= n - 1)
          /\ i + 1 \in 1 .. Len(queue)
      BY <1>1, <2>2
    <3>2. c[i] = b[i - (n - 1)] /\ b[i - (n - 1)] = queue[i + 1]
      BY <1>3, <1>4, <3>1
    <3>3. QED
      BY <1>1, <2>2, <3>1, <3>2
  <2>3. QED
    BY <2>0, <2>1, <2>2
<1>7. RemoveAt(queue, n) = c
  BY DEF RemoveAt, a, b, c
<1>8. QED
  BY <1>4, <1>5, <1>6, <1>7
-----------------------------------------------------------------------------
(* Type correctness.                                                         *)

LEMMA NoTextTyped == NoText \in [class : Classes, of : Jobs \cup {"none"}]
BY DEF NoText, Classes

LEMMA InitTyped ==
    ASSUME ReviewInit
    PROVE  ReviewTypeOK /\ Bounds /\ SessionOf
<1>1. LoopOK /\ HostOK /\ JobsOK
  BY DEF ReviewInit, LoopOK, HostOK, JobsOK
<1>2. ReviewOK
  <2>1. text = NoText /\ deadline = FALSE /\ queue = <<>> /\ active = "none"
        /\ session = 0 /\ hostSessions = 0 /\ retries = 0 /\ turn = 0
    BY DEF ReviewInit
  <2>2. deadline \in BOOLEAN
    BY <2>1
  <2>3. queue \in Seq(Jobs)
    BY <2>1, EmptySeq
  <2>4. QED
    BY <2>1, <2>2, <2>3, NoTextTyped DEF ReviewOK
<1>3. Bounds /\ SessionOf
  BY DEF ReviewInit, Bounds, SessionOf, Starting
<1>4. QED
  BY <1>1, <1>2, <1>3 DEF ReviewTypeOK

LEMMA TypeStep ==
    ASSUME ReviewTypeOK, Bounds, SessionOf, [ReviewNext]_reviewVars
    PROVE  ReviewTypeOK' /\ Bounds'
<1> LoopOK /\ ReviewOK /\ HostOK /\ JobsOK
  BY DEF ReviewTypeOK
<1> USE DEF Gen
<1>0. /\ Len(sessions) \in Nat /\ DOMAIN sessions = 1 .. Len(sessions)
      /\ Len(turns) \in Nat /\ DOMAIN turns = 1 .. Len(turns)
      /\ \A t \in DOMAIN turns : turns[t] \in [sid : Nat, of : Jobs, st : {"run", "fg", "end"}]
      /\ \A i \in DOMAIN sessions : sessions[i] \in [gen : Nat, of : Jobs]
  <2>1. sessions \in Seq([gen : Nat, of : Jobs])
        /\ turns \in Seq([sid : Nat, of : Jobs, st : {"run", "fg", "end"}])
    BY DEF HostOK
  <2>2. Len(sessions) \in Nat /\ DOMAIN sessions = 1 .. Len(sessions)
        /\ \A i \in DOMAIN sessions : sessions[i] \in [gen : Nat, of : Jobs]
    BY <2>1, Elements
  <2>3. Len(turns) \in Nat /\ DOMAIN turns = 1 .. Len(turns)
        /\ \A t \in DOMAIN turns : turns[t] \in [sid : Nat, of : Jobs, st : {"run", "fg", "end"}]
    BY <2>1, Elements
  <2>4. QED
    BY <2>2, <2>3
<1>1. ASSUME NEW j \in Jobs, EnqueueReview(j) PROVE ReviewTypeOK' /\ Bounds'
  <2>1. queue' \in Seq(Jobs)
    BY <1>1 DEF EnqueueReview, ReviewOK
  <2>2. UNCHANGED <<job, sess, how, active, session, hostSessions, text, retries, turn,
                    deadline, slot, reviewerVars, hres, resolved, outcome>>
        /\ loopAt' = "start" /\ asked' = asked \cup {j}
    BY <1>1 DEF EnqueueReview
  <2>3. QED
    BY <2>1, <2>2 DEF ReviewTypeOK, LoopOK, ReviewOK, HostOK, JobsOK, Bounds, Starting, reviewerVars
<1>2. CASE StartNextReview
  <2>1. UNCHANGED <<how, active, text, retries, turn, deadline, launched, sessions, turns,
                    acts, hres, resolved, asked, outcome>> /\ loopAt = "start"
    BY <1>2 DEF StartNextReview
  <2>2. CASE /\ loopAt' = "idle"
             /\ UNCHANGED <<job, sess, queue, session, hostSessions, slot, alive, chan>>
    BY <2>1, <2>2 DEF ReviewTypeOK, LoopOK, ReviewOK, HostOK, JobsOK, Bounds, Starting
  <2>3. CASE /\ queue # <<>> /\ job' = Head(queue) /\ queue' = Tail(queue) /\ sess' = session
             /\ Reset \/ UNCHANGED <<slot, session, hostSessions, alive, chan>>
             /\ loopAt' = "launch"
    <3>1. job' \in Jobs /\ queue' \in Seq(Jobs)
      BY <2>3, QueueTail
    <3>2. slot' \in {0, slot} /\ session' \in {0, session} /\ hostSessions' \in {0, hostSessions}
          /\ alive' \subseteq alive /\ chan' \in Seq(Events)
      BY <2>3, ResetForgets DEF HostOK
    <3>3. LoopOK' /\ ReviewOK' /\ HostOK' /\ JobsOK'
      BY <2>1, <2>3, <3>1, <3>2 DEF LoopOK, ReviewOK, HostOK, JobsOK
    <3>4. Bounds'
      BY <1>0, <2>1, <2>3, <3>1, <3>2 DEF Bounds, Starting, HostOK
    <3>5. QED
      BY <3>3, <3>4 DEF ReviewTypeOK
  <2>4. QED
    BY <1>2, <2>2, <2>3 DEF StartNextReview
<1>3. CASE LaunchReviewer
  <2>1. UNCHANGED <<job, sess, how, reviewState, sessions, turns, chan, acts,
                    hres, resolved, asked>> /\ loopAt = "launch" /\ job \in Jobs
    BY <1>3 DEF LaunchReviewer, Bounds, Starting
  <2>2. /\ loopAt' \in {"session", "start"} /\ launched' \in {launched, launched + 1}
        /\ slot' \in {slot, launched'} /\ alive' \subseteq alive \cup {launched'}
        /\ (slot' = slot /\ launched' = launched /\ alive' = alive) \/ launched' = launched + 1
    BY <1>3 DEF LaunchReviewer
  <2>3. outcome' \in [Jobs -> {"none", "allow", "deny", "failClosed", "dropped"}]
    BY <1>3, <2>1 DEF LaunchReviewer, Deny, Denial, JobsOK
  <2>4. HostOK' /\ slot' \in Nat
    BY <2>1, <2>2 DEF HostOK, LoopOK
  <2>5. Bounds'
    <3>1. launched \in Nat /\ slot \in Nat
      BY DEF HostOK, LoopOK
    <3>2. slot' <= launched' /\ \A i \in DOMAIN sessions : sessions[i].gen \in 1..launched'
      BY <1>0, <2>2, <3>1 DEF Bounds
    <3>3. QED
      BY <2>1, <2>2, <3>2 DEF Bounds, Starting, reviewState
  <2>6. QED
    BY <2>1, <2>2, <2>3, <2>4, <2>5 DEF ReviewTypeOK, LoopOK, ReviewOK, JobsOK, reviewState
<1>4. CASE StartSession
  <2>1. UNCHANGED <<job, how, queue, active, text, retries, turn, deadline, slot, launched,
                    alive, turns, chan, acts, hres, resolved, asked>>
        /\ loopAt = "session" /\ job \in Jobs
    BY <1>4 DEF StartSession, Bounds, Starting
  <2>2. CASE /\ sess # 0 /\ loopAt' = "turn"
             /\ UNCHANGED <<sess, session, hostSessions, sessions, outcome>>
    BY <2>1, <2>2 DEF ReviewTypeOK, LoopOK, ReviewOK, HostOK, JobsOK, Bounds, Starting
  <2>3. CASE /\ slot \in alive
             /\ sessions' = Append(sessions, [gen |-> slot, of |-> job])
             /\ session' = Len(sessions') /\ sess' = session'
             /\ hostSessions' = hostSessions + 1
             /\ loopAt' = "turn" /\ UNCHANGED outcome
    <3>1. [gen |-> slot, of |-> job] \in [gen : Nat, of : Jobs] /\ slot \in 1..launched
      BY <2>1, <2>3 DEF LoopOK, HostOK
    <3>2. /\ sessions' \in Seq([gen : Nat, of : Jobs]) /\ Len(sessions') = Len(sessions) + 1
          /\ DOMAIN sessions' = 1 .. Len(sessions) + 1
          /\ \A i \in DOMAIN sessions : sessions'[i] = sessions[i]
          /\ sessions'[Len(sessions) + 1] = [gen |-> slot, of |-> job]
      BY <1>0, <2>3, <3>1 DEF HostOK
    <3>3. \A i \in DOMAIN sessions' : sessions'[i].gen \in 1..launched
      BY <1>0, <3>1, <3>2 DEF Bounds
    <3>4. Bounds'
      BY <1>0, <2>1, <2>3, <3>2, <3>3 DEF Bounds, Starting
    <3>5. LoopOK' /\ ReviewOK' /\ HostOK' /\ JobsOK'
      BY <1>0, <2>1, <2>3, <3>2 DEF LoopOK, ReviewOK, HostOK, JobsOK
    <3>6. QED
      BY <3>4, <3>5 DEF ReviewTypeOK
  <2>4. CASE /\ sess = 0 /\ Deny(job) /\ loopAt' = "start"
             /\ UNCHANGED <<sess, session, hostSessions, sessions>>
    <3>1. outcome' \in [Jobs -> {"none", "allow", "deny", "failClosed", "dropped"}]
      BY <2>1, <2>4 DEF Deny, Denial, JobsOK
    <3>2. QED
      BY <2>1, <2>4, <3>1 DEF ReviewTypeOK, LoopOK, ReviewOK, HostOK, JobsOK, Bounds, Starting
  <2>5. QED
    BY <1>4, <2>2, <2>3, <2>4 DEF StartSession
\* A turn is started in a session that exists.
<1>5. ASSUME NEW s \in DOMAIN sessions, NEW j \in Jobs, NewTurn(s, j)
      PROVE  /\ turns' \in Seq([sid : Nat, of : Jobs, st : {"run", "fg", "end"}])
             /\ Len(turns') \in Nat /\ \A t \in DOMAIN turns' : turns'[t].sid \in DOMAIN sessions
  <2> DEFINE r == [sid |-> s, of |-> j, st |-> "run"]
  <2>1. r \in [sid : Nat, of : Jobs, st : {"run", "fg", "end"}] /\ r.sid = s
    BY <1>0
  <2>2. turns' = Append(turns, r)
    BY <1>5 DEF NewTurn
  <2> HIDE DEF r
  <2>3. /\ turns' \in Seq([sid : Nat, of : Jobs, st : {"run", "fg", "end"}])
        /\ Len(turns') = Len(turns) + 1 /\ DOMAIN turns' = 1 .. Len(turns) + 1
        /\ \A t \in DOMAIN turns : turns'[t] = turns[t]
        /\ turns'[Len(turns) + 1] = r
    BY <1>0, <2>1, <2>2 DEF HostOK
  <2>4. QED
    BY SMTT(30), <1>0, <2>1, <2>3 DEF Bounds
<1>6. CASE StartTurn
  <2>1. UNCHANGED <<job, sess, how, queue, launched, sessions, acts, hres, resolved, asked>>
        /\ loopAt = "turn" /\ job \in Jobs /\ sess \in DOMAIN sessions
    BY <1>0, <1>6 DEF StartTurn, Bounds, Starting
  <2>2. CASE /\ CanStartTurn(sess) /\ NewTurn(sess, job) /\ Activate(job) /\ loopAt' = "idle"
             /\ UNCHANGED <<session, hostSessions, slot, alive, chan, outcome>>
    <3>1. /\ turns' \in Seq([sid : Nat, of : Jobs, st : {"run", "fg", "end"}])
          /\ Len(turns') \in Nat /\ \A t \in DOMAIN turns' : turns'[t].sid \in DOMAIN sessions
      BY <1>5, <2>1, <2>2
    <3>2. ReviewOK'
      BY <2>1, <2>2, <3>1 DEF ReviewOK, Activate, NoText, Classes
    <3>3. LoopOK' /\ HostOK' /\ JobsOK'
      BY <2>1, <2>2, <3>1 DEF LoopOK, HostOK, JobsOK
    <3>4. Bounds'
      BY <2>1, <2>2, <3>1 DEF Bounds, Starting
    <3>5. QED
      BY <3>2, <3>3, <3>4 DEF ReviewTypeOK
  <2>3. CASE /\ Deny(job) /\ Reset /\ loopAt' = "start"
             /\ UNCHANGED <<active, text, retries, turn, deadline, turns>>
    <3>1. outcome' \in [Jobs -> {"none", "allow", "deny", "failClosed", "dropped"}]
      BY <2>1, <2>3 DEF Deny, Denial, JobsOK
    <3>2. slot' = 0 /\ session' = 0 /\ hostSessions' = 0 /\ alive' \subseteq alive /\ chan' \in Seq(Events)
      BY <2>3, ResetForgets
    <3>3. LoopOK' /\ ReviewOK' /\ JobsOK'
      BY <2>1, <2>3, <3>1, <3>2 DEF LoopOK, ReviewOK, JobsOK
    <3>4. HostOK'
      BY <2>1, <2>3, <3>2 DEF HostOK
    <3>5. Bounds'
      BY <2>1, <2>3, <3>2 DEF Bounds, Starting, HostOK
    <3>6. QED
      BY <3>3, <3>4, <3>5 DEF ReviewTypeOK
  <2>4. QED
    BY <1>6, <2>2, <2>3 DEF StartTurn
\* An event that is not for the running review, or not of this process.
<1>7. ASSUME NEW m, Take(m), Drop PROVE ReviewTypeOK' /\ Bounds'
  <2>1. chan' \in Seq(Events)
    BY <1>7, TakesEvent DEF Drop
  <2>2. UNCHANGED <<loopAt, job, sess, how, reviewState, slot, launched, alive, sessions, turns,
                    acts, hres, resolved, asked, outcome>>
    BY <1>7 DEF Drop
  <2>3. QED
    BY <2>1, <2>2 DEF ReviewTypeOK, LoopOK, ReviewOK, HostOK, JobsOK, Bounds, Starting, reviewState
<1>8. CASE ReviewerMessage
  <2>1. CASE ThisReview /\ active # "none"
    <3>1. /\ text' = [class |-> Event.class, of |-> sessions[Event.sid].of] /\ chan' = Tail(chan)
          /\ UNCHANGED <<loopAt, job, sess, how, queue, active, session, hostSessions, retries,
                         turn, deadline, slot, launched, alive, sessions, turns, acts, hres,
                         resolved, asked, outcome>>
      BY <1>8, <2>1 DEF ReviewerMessage
    <3>2. Event \in Events /\ Event.m = "message" /\ chan' \in Seq(Events)
      BY <1>8, <3>1, TakesEvent DEF ReviewerMessage
    <3>3. Event.class \in Classes
      BY <3>2 DEF Events
    <3>4. sessions[Event.sid].of \in Jobs
      BY <1>0, <2>1 DEF ThisReview, SessionOf, Bounds
    <3>5. QED
      BY <3>1, <3>2, <3>3, <3>4 DEF ReviewTypeOK, LoopOK, ReviewOK, HostOK, JobsOK, Bounds, Starting
  <2>2. QED
    BY <1>7, <1>8, <2>1 DEF ReviewerMessage
<1>9. CASE ReviewerCompleted
  <2>1. CASE ThisTurn
    <3>1. /\ chan' = Tail(chan) /\ how' \in {"completed", "failed"}
          /\ retries' \in {retries, retries + 1} /\ turn' \in {turn, 0}
          /\ loopAt' = "settle" \/ (loopAt' = "retry" /\ active # "none")
          /\ UNCHANGED <<job, sess, queue, active, session, hostSessions, text, deadline, slot,
                         launched, alive, sessions, turns, acts, hres, resolved, asked, outcome>>
      BY <1>9, <2>1 DEF ReviewerCompleted
    <3>2. chan' \in Seq(Events)
      BY <1>9, <3>1, TakesEvent DEF ReviewerCompleted
    <3>3. loopAt' \in {"settle", "retry"} /\ retries' \in Nat /\ turn' \in Nat
      BY <3>1 DEF ReviewOK
    <3>4. LoopOK' /\ ReviewOK' /\ HostOK' /\ JobsOK'
      BY <3>1, <3>2, <3>3 DEF LoopOK, ReviewOK, HostOK, JobsOK
    <3>5. Bounds'
      BY <3>1, <3>3 DEF Bounds, Starting
    <3>6. QED
      BY <3>4, <3>5 DEF ReviewTypeOK
  <2>2. QED
    BY <1>7, <1>9, <2>1 DEF ReviewerCompleted
<1>10. CASE ReviewerForeground
  <2>1. CASE how' = "completed" /\ loopAt' = "settle" /\ chan' = Tail(chan)
             /\ UNCHANGED <<job, sess, reviewState, slot, launched, alive, sessions, turns,
                            acts, hres, resolved, asked, outcome>>
    <3>1. chan' \in Seq(Events)
      BY <1>10, <2>1, TakesEvent DEF ReviewerForeground
    <3>2. QED
      BY <2>1, <3>1 DEF ReviewTypeOK, LoopOK, ReviewOK, HostOK, JobsOK, Bounds, Starting, reviewState
  <2>2. QED
    BY <1>7, <1>10, <2>1 DEF ReviewerForeground
<1>11. CASE RetryForVerdict
  <2>1. UNCHANGED <<job, sess, how, queue, active, session, hostSessions, text, retries,
                    deadline, slot, launched, alive, sessions, chan, acts, hres, resolved,
                    asked, outcome>> /\ loopAt = "retry" /\ active # "none"
    BY <1>11 DEF RetryForVerdict, Bounds
  <2>2. CASE NewTurn(session, active) /\ turn' = Len(turns') /\ loopAt' = "idle"
    <3>1. session \in DOMAIN sessions /\ active \in Jobs
      BY <1>0, <2>1 DEF SessionOf, Bounds, ReviewOK
    <3>2. /\ turns' \in Seq([sid : Nat, of : Jobs, st : {"run", "fg", "end"}])
          /\ Len(turns') \in Nat /\ \A t \in DOMAIN turns' : turns'[t].sid \in DOMAIN sessions
      BY <1>5, <2>2, <3>1
    <3>3. QED
      BY <2>1, <2>2, <3>2 DEF ReviewTypeOK, LoopOK, ReviewOK, HostOK, JobsOK, Bounds, Starting
  <2>3. CASE loopAt' = "settle" /\ UNCHANGED <<turn, turns>>
    BY <2>1, <2>3 DEF ReviewTypeOK, LoopOK, ReviewOK, HostOK, JobsOK, Bounds, Starting
  <2>4. QED
    BY <1>11, <2>2, <2>3 DEF RetryForVerdict
\* An approval is settled.
<1>12. ASSUME NEW j \in Jobs,
              outcome' = [outcome EXCEPT ![j] = Finished(j)] \/ DenyUnlessResolved(j) \/ Deny(j)
       PROVE  outcome' \in [Jobs -> {"none", "allow", "deny", "failClosed", "dropped"}]
  BY <1>12 DEF Finished, DenyUnlessResolved, Deny, Denial, JobsOK
<1>13. CASE SettleReview
  <2>1. /\ active' = "none" /\ deadline' = FALSE /\ text' = NoText /\ how' = "none"
        /\ loopAt' \in {"idle", "start"}
        /\ UNCHANGED <<job, sess, queue, retries, turn, launched, sessions, turns, acts, hres,
                       resolved, asked>>
    BY <1>13 DEF SettleReview
  <2>2. outcome' \in [Jobs -> {"none", "allow", "deny", "failClosed", "dropped"}]
    <3>1. CASE active = "none"
      BY <1>13, <3>1 DEF SettleReview, JobsOK
    <3>2. CASE active # "none"
      BY <1>12, <1>13, <3>2 DEF SettleReview, ReviewOK
    <3>3. QED
      BY <3>1, <3>2
  <2>3. Reset \/ ForgetSession
    BY <1>13 DEF SettleReview
  <2>4. /\ slot' \in {0, slot} /\ session' = 0 /\ hostSessions' \in Nat /\ alive' \subseteq alive
        /\ chan' \in Seq(Events)
    BY <2>3, ResetForgets DEF ForgetSession, HostOK, ReviewOK
  <2>5. LoopOK' /\ HostOK' /\ JobsOK'
    BY <2>1, <2>2, <2>4 DEF LoopOK, HostOK, JobsOK
  <2>6. ReviewOK' /\ Bounds'
    <3>1. ReviewOK'
      BY <2>1, <2>4, NoTextTyped DEF ReviewOK
    <3>2. 0 \in 0..Len(sessions) /\ 0 <= launched
      BY <1>0 DEF HostOK
    <3>3. Bounds'
      BY <2>1, <2>4, <3>2 DEF Bounds, Starting
    <3>4. QED
      BY <3>1, <3>3
  <2>7. QED
    BY <2>5, <2>6 DEF ReviewTypeOK
<1>14. CASE ExpireDeadline
  <2>1. /\ active \in Jobs /\ active' = "none" /\ deadline' = FALSE /\ loopAt' = "start"
        /\ DenyUnlessResolved(active) /\ Reset
        /\ UNCHANGED <<job, sess, how, queue, text, retries, turn, launched, sessions, turns,
                       acts, hres, resolved, asked>>
    BY <1>14 DEF ExpireDeadline, ReviewOK
  <2>2. outcome' \in [Jobs -> {"none", "allow", "deny", "failClosed", "dropped"}]
    BY <1>12, <2>1
  <2>3. slot' = 0 /\ session' = 0 /\ hostSessions' = 0 /\ alive' \subseteq alive /\ chan' \in Seq(Events)
    BY <2>1, ResetForgets
  <2>4. LoopOK' /\ HostOK' /\ JobsOK'
    BY <2>1, <2>2, <2>3 DEF LoopOK, HostOK, JobsOK
  <2>5. ReviewOK' /\ Bounds'
    <3>1. ReviewOK'
      BY <2>1, <2>3 DEF ReviewOK
    <3>2. 0 \in 0..Len(sessions) /\ 0 <= launched
      BY <1>0 DEF HostOK
    <3>3. Bounds'
      BY <2>1, <2>3, <3>2 DEF Bounds, Starting
    <3>4. QED
      BY <3>1, <3>3
  <2>6. QED
    BY <2>4, <2>5 DEF ReviewTypeOK
<1>15. CASE ReviewerClosed
  <2>1. CASE Current
    <3>1. /\ slot' = 0 /\ deadline' = FALSE /\ active' = "none" /\ chan' = Tail(chan)
          /\ loopAt' \in {loopAt, "start"} /\ loopAt = "idle"
          /\ UNCHANGED <<job, sess, how, queue, session, hostSessions, text, retries, turn,
                         launched, alive, sessions, turns, acts, hres, resolved, asked>>
      BY <1>15, <2>1 DEF ReviewerClosed, Take
    <3>2. chan' \in Seq(Events)
      BY <1>15, <3>1, TakesEvent DEF ReviewerClosed
    <3>3. outcome' \in [Jobs -> {"none", "allow", "deny", "failClosed", "dropped"}]
      BY <1>12, <1>15, <2>1 DEF ReviewerClosed, ReviewOK, JobsOK
    <3>4. LoopOK' /\ HostOK' /\ JobsOK'
      BY <3>1, <3>2, <3>3 DEF LoopOK, HostOK, JobsOK
    <3>5. ReviewOK' /\ Bounds'
      <4>1. ReviewOK'
        BY <3>1 DEF ReviewOK
      <4>2. 0 <= launched
        BY DEF HostOK
      <4>3. Bounds'
        BY <3>1, <4>2 DEF Bounds, Starting
      <4>4. QED
        BY <4>1, <4>3
    <3>6. QED
      BY <3>4, <3>5 DEF ReviewTypeOK
  <2>2. QED
    BY <1>7, <1>15, <2>1 DEF ReviewerClosed
<1>16. ASSUME NEW j \in Jobs, ApprovalResolved(j) PROVE ReviewTypeOK' /\ Bounds'
  <2>1. UNCHANGED <<loopAt, job, sess, how, active, session, hostSessions, text, retries, turn,
                    deadline, slot, reviewerVars, hres, asked>>
        /\ resolved' = resolved \cup {j} /\ j \in hres /\ DropQueued(j)
    BY <1>16 DEF ApprovalResolved
  <2>2. queue' \in Seq(Jobs)
    BY <2>1, QueueWithout DEF DropQueued, ReviewOK
  <2>3. outcome' \in [Jobs -> {"none", "allow", "deny", "failClosed", "dropped"}]
    BY <2>1 DEF DropQueued, JobsOK
  <2>4. QED
    BY <2>1, <2>2, <2>3 DEF ReviewTypeOK, LoopOK, ReviewOK, HostOK, JobsOK, Bounds, Starting, reviewerVars
\* The reviewer host speaks.
<1>17. ASSUME NEW e \in Events, chan' = Append(chan, e),
              UNCHANGED <<localVars, launched, sessions, hres>>, alive' \subseteq alive, acts' \in Nat,
              turns' \in Seq([sid : Nat, of : Jobs, st : {"run", "fg", "end"}]),
              DOMAIN turns' = DOMAIN turns, \A t \in DOMAIN turns : turns'[t].sid = turns[t].sid
       PROVE  ReviewTypeOK' /\ Bounds'
  <2>1. chan' \in Seq(Events)
    BY <1>17, SendsEvent
  <2>2. HostOK'
    BY <1>17, <2>1 DEF HostOK
  <2>3. LoopOK' /\ ReviewOK' /\ JobsOK' /\ Bounds'
    BY <1>17 DEF LoopOK, ReviewOK, JobsOK, Bounds, Starting, localVars, reviewState
  <2>4. QED
    BY <2>2, <2>3 DEF ReviewTypeOK
<1>18. ASSUME NEW t \in DOMAIN turns
       PROVE  /\ turns[t].sid \in DOMAIN sessions /\ turns[t].sid \in Nat
              /\ Gen(turns[t].sid) \in Nat /\ t \in Nat
  BY <1>0 DEF Bounds
<1>19. ASSUME NEW t \in DOMAIN turns, NEW c \in Classes, HostMessage(t, c) PROVE ReviewTypeOK' /\ Bounds'
  <2>1. PICK e \in Events : chan' = Append(chan, e)
    <3>1. [m |-> "message", gen |-> Gen(turns[t].sid), sid |-> turns[t].sid, class |-> c] \in Events
      BY <1>18 DEF Events
    <3>2. QED
      BY <1>19, <3>1 DEF HostMessage
  <2>2. /\ UNCHANGED <<localVars, launched, alive, sessions, turns, hres>> /\ acts' = acts + 1
    BY <1>19 DEF HostMessage
  <2>3. acts' \in Nat /\ turns' \in Seq([sid : Nat, of : Jobs, st : {"run", "fg", "end"}])
    BY <2>2 DEF HostOK
  <2>4. QED
    BY <1>17, <2>1, <2>2, <2>3
<1>20. ASSUME NEW t \in DOMAIN turns, NEW st \in {"fg", "end"}, turns' = [turns EXCEPT ![t].st = st]
       PROVE  /\ turns' \in Seq([sid : Nat, of : Jobs, st : {"run", "fg", "end"}])
              /\ DOMAIN turns' = DOMAIN turns
              /\ \A u \in DOMAIN turns : turns'[u].sid = turns[u].sid
  <2> DEFINE r == [turns[t] EXCEPT !.st = st]
  <2>1. r \in [sid : Nat, of : Jobs, st : {"run", "fg", "end"}] /\ r.sid = turns[t].sid
    BY <1>0
  <2>2. turns' = [turns EXCEPT ![t] = r]
    BY <1>20
  <2> HIDE DEF r
  <2>3. t \in 1 .. Len(turns) /\ turns \in Seq([sid : Nat, of : Jobs, st : {"run", "fg", "end"}])
    BY <1>0 DEF HostOK
  <2>4. /\ turns' \in Seq([sid : Nat, of : Jobs, st : {"run", "fg", "end"}])
        /\ \A u \in 1 .. Len(turns) : turns'[u] = IF u = t THEN r ELSE turns[u]
    BY <2>1, <2>2, <2>3, ExceptSeq
  <2>5. DOMAIN turns' = DOMAIN turns
    BY <2>2
  <2>6. QED
    BY <1>0, <2>1, <2>4, <2>5
<1>21. ASSUME NEW t \in DOMAIN turns, HostForeground(t) PROVE ReviewTypeOK' /\ Bounds'
  <2>1. PICK e \in Events : chan' = Append(chan, e)
    <3>1. [m |-> "foreground", gen |-> Gen(turns[t].sid), sid |-> turns[t].sid, turn |-> t] \in Events
      BY <1>18 DEF Events
    <3>2. QED
      BY <1>21, <3>1 DEF HostForeground
  <2>2. UNCHANGED <<localVars, launched, alive, sessions, acts, hres>>
        /\ turns' = [turns EXCEPT ![t].st = "fg"]
    BY <1>21 DEF HostForeground
  <2>3. QED
    BY <1>17, <1>20, <2>1, <2>2 DEF HostOK
<1>22. ASSUME NEW t \in DOMAIN turns, NEW ok \in BOOLEAN, HostCompletes(t, ok) PROVE ReviewTypeOK' /\ Bounds'
  <2>1. PICK e \in Events : chan' = Append(chan, e)
    <3>1. [m |-> "completed", gen |-> Gen(turns[t].sid), sid |-> turns[t].sid, turn |-> t, ok |-> ok] \in Events
      BY <1>18 DEF Events
    <3>2. QED
      BY <1>22, <3>1 DEF HostCompletes
  <2>2. UNCHANGED <<localVars, launched, alive, sessions, acts, hres>>
        /\ turns' = [turns EXCEPT ![t].st = "end"]
    BY <1>22 DEF HostCompletes
  <2>3. QED
    BY <1>17, <1>20, <2>1, <2>2 DEF HostOK
<1>23. ASSUME NEW g \in alive, HostExits(g) PROVE ReviewTypeOK' /\ Bounds'
  <2>1. PICK e \in Events : chan' = Append(chan, e)
    <3>1. [m |-> "closed", gen |-> g] \in Events
      <4>1. g \in 1..launched /\ launched \in Nat
        BY DEF HostOK
      <4>2. g \in Nat
        BY <4>1
      <4>3. [m |-> "closed", gen |-> g] \in [m : {"closed"}, gen : Nat]
        BY <4>2
      <4>4. QED
        BY <4>3 DEF Events
    <3>2. QED
      BY <1>23, <3>1 DEF HostExits, Ends
  <2>2. UNCHANGED <<localVars, launched, sessions, turns, hres>> /\ acts' = acts + 1
        /\ alive' \subseteq alive
    BY <1>23 DEF HostExits, Ends
  <2>3. acts' \in Nat /\ turns' \in Seq([sid : Nat, of : Jobs, st : {"run", "fg", "end"}])
    BY <2>2 DEF HostOK
  <2>4. QED
    BY <1>17, <2>1, <2>2, <2>3
<1>24. ASSUME NEW j \in Jobs, HostResolves(j) PROVE ReviewTypeOK' /\ Bounds'
  BY <1>24 DEF HostResolves, localVars, reviewerVars, reviewState, ReviewTypeOK, LoopOK, ReviewOK, HostOK,
     JobsOK, Bounds, Starting
<1>25. CASE UNCHANGED reviewVars
  BY <1>25 DEF reviewVars, reviewerVars, reviewState, ReviewTypeOK, LoopOK, ReviewOK, HostOK, JobsOK, Bounds, Starting
<1>26. QED
  BY <1>1, <1>2, <1>3, <1>4, <1>6, <1>8, <1>9, <1>10, <1>11, <1>13, <1>14, <1>15, <1>16, <1>19,
     <1>21, <1>22, <1>23, <1>24, <1>25 DEF ReviewNext, Loop, Host
-----------------------------------------------------------------------------
(* The verdict at hand is the running review's.                              *)

LEMMA SessionStep ==
    ASSUME ReviewTypeOK, Bounds, SessionOf, [ReviewNext]_reviewVars
    PROVE  SessionOf'
<1> LoopOK /\ ReviewOK /\ HostOK /\ JobsOK
  BY DEF ReviewTypeOK
<1> USE DEF Gen
<1>0. /\ launched \in Nat /\ slot \in Nat /\ Len(sessions) \in Nat /\ DOMAIN sessions = 1 .. Len(sessions)
      /\ \A i \in DOMAIN sessions : sessions[i] \in [gen : Nat, of : Jobs]
  <2>1. sessions \in Seq([gen : Nat, of : Jobs])
    BY DEF HostOK
  <2>2. QED
    BY <2>1, Elements DEF HostOK, LoopOK
\* Neither the review nor its session changes, nor is one started or taken.
<1>1. ASSUME UNCHANGED <<active, session, slot, sessions>>, ~Starting, ~Starting'
      PROVE  SessionOf'
  BY <1>1 DEF SessionOf, Starting
\* A review ends.
<1>2. ASSUME active' = "none", session' = 0, ~Starting'
      PROVE  SessionOf'
  BY <1>2 DEF SessionOf, Starting
<1>3. ASSUME NEW j \in Jobs, EnqueueReview(j) PROVE SessionOf'
  BY <1>1, <1>3 DEF EnqueueReview, Starting, reviewerVars
<1>4. CASE StartNextReview
  <2>1. UNCHANGED <<active, sessions>> /\ loopAt = "start"
    BY <1>4 DEF StartNextReview
  <2>2. CASE loopAt' = "idle" /\ UNCHANGED <<job, sess, session, slot>>
    BY <1>1, <2>1, <2>2 DEF Starting
  <2>3. CASE /\ active = "none" /\ sess' = session /\ loopAt' = "launch"
             /\ Reset \/ UNCHANGED <<slot, session>>
    <3>1. (slot' = 0 /\ session' = 0) \/ UNCHANGED <<slot, session>>
      BY <2>3 DEF Reset
    <3>2. session # 0 => Gen(session) # slot /\ Gen(session) # 0
      BY <1>0, <2>1, <2>3 DEF SessionOf, Bounds
    <3>3. QED
      BY <2>1, <2>3, <3>1, <3>2 DEF SessionOf, Starting
  <2>4. QED
    BY <1>4, <2>2, <2>3 DEF StartNextReview
<1>5. CASE LaunchReviewer
  <2>1. UNCHANGED <<job, sess, active, session, sessions>> /\ loopAt = "launch"
        /\ loopAt' \in {"session", "start"} /\ (slot' = slot \/ slot' = launched + 1)
    BY <1>5 DEF LaunchReviewer, reviewState
  <2>2. active = "none" /\ session \in {0, sess} /\ (sess # 0 => Gen(sess) # slot)
    BY <2>1 DEF SessionOf, Starting
  <2>3. sess # 0 => Gen(sess) \in 1..launched
    BY <1>0 DEF Bounds
  <2>4. sess # 0 => Gen(sess) # slot'
    BY <1>0, <2>1, <2>2, <2>3
  <2>5. QED
    BY <2>1, <2>2, <2>4 DEF SessionOf, Starting
<1>6. CASE StartSession
  <2>1. UNCHANGED <<job, active, slot>> /\ loopAt = "session"
    BY <1>6 DEF StartSession
  <2>2. active = "none" /\ session \in {0, sess} /\ (sess # 0 => Gen(sess) # slot)
    BY <2>1 DEF SessionOf, Starting
  <2>3. CASE loopAt' \in {"turn", "start"} /\ UNCHANGED <<sess, session, sessions>>
    BY <2>1, <2>2, <2>3 DEF SessionOf, Starting
  <2>4. CASE /\ sessions' = Append(sessions, [gen |-> slot, of |-> job])
             /\ session' = Len(sessions') /\ sess' = session' /\ loopAt' = "turn"
    <3>1. Len(sessions') = Len(sessions) + 1
          /\ sessions'[Len(sessions) + 1] = [gen |-> slot, of |-> job]
      BY <1>0, <2>4 DEF HostOK
    <3>2. sessions'[session'].of = job
      BY <2>4, <3>1
    <3>3. QED
      BY <2>1, <2>2, <2>4, <3>2 DEF SessionOf, Starting
  <2>5. QED
    BY <1>6, <2>3, <2>4 DEF StartSession
<1>7. CASE StartTurn
  <2>1. UNCHANGED <<job, sess, sessions>> /\ loopAt = "turn" /\ sess \in DOMAIN sessions
    BY <1>0, <1>7 DEF StartTurn, Bounds
  <2>2. active = "none" /\ session \in {0, sess}
        /\ (Gen(sess) = slot => session = sess /\ sessions[sess].of = job)
    BY <1>0, <2>1 DEF SessionOf, Starting
  <2>3. CASE CanStartTurn(sess) /\ active' = job /\ loopAt' = "idle" /\ UNCHANGED <<session, slot>>
    <3>1. session = sess /\ sessions[sess].of = job /\ sessions[sess].gen = slot
      BY <2>2, <2>3 DEF CanStartTurn
    <3>2. sessions[sess] = [gen |-> slot, of |-> job] /\ sess # 0
      BY <1>0, <2>1, <3>1
    <3>3. QED
      BY <2>1, <2>3, <3>1, <3>2 DEF SessionOf, Starting, Bounds
  <2>4. CASE Reset /\ loopAt' = "start" /\ UNCHANGED active
    BY <1>2, <2>2, <2>4 DEF Reset, Starting
  <2>5. QED
    BY <1>7, <2>3, <2>4 DEF StartTurn, Activate
<1>8. CASE ReviewerMessage \/ ReviewerCompleted \/ ReviewerForeground \/ RetryForVerdict
  BY <1>1, <1>8 DEF ReviewerMessage, ReviewerCompleted, ReviewerForeground, RetryForVerdict, Drop,
     Take, Starting, reviewState
<1>9. CASE SettleReview
  <2>1. active' = "none" /\ session' = 0 /\ loopAt' \in {"idle", "start"}
    BY <1>9 DEF SettleReview, ForgetSession, Reset
  <2>2. QED
    BY <1>2, <2>1 DEF Starting
<1>10. CASE ExpireDeadline
  BY <1>2, <1>10 DEF ExpireDeadline, Reset, Starting
<1>11. CASE ReviewerClosed
  <2>1. CASE Current
    <3>1. slot' = 0 /\ active' = "none" /\ UNCHANGED <<session, sessions>>
          /\ loopAt' \in {"idle", "start"}
      BY <1>11, <2>1 DEF ReviewerClosed, Take
    <3>2. session # 0 => Gen(session) # 0
      BY <1>0 DEF Bounds
    <3>3. QED
      BY <3>1, <3>2 DEF SessionOf, Starting
  <2>2. CASE Take("closed") /\ Drop
    BY <1>1, <2>2 DEF Drop, Take, Starting, reviewState
  <2>3. QED
    BY <1>11, <2>1, <2>2 DEF ReviewerClosed
<1>12. ASSUME UNCHANGED <<loopAt, job, sess, active, session, slot, sessions>> PROVE SessionOf'
  BY <1>12 DEF SessionOf, Starting
<1>13. ASSUME NEW j \in Jobs, ApprovalResolved(j) PROVE SessionOf'
  BY <1>12, <1>13 DEF ApprovalResolved, reviewerVars
<1>14. CASE Host
  <2>1. UNCHANGED <<localVars, sessions>>
    BY <1>14 DEF Host, HostMessage, HostForeground, HostCompletes, HostExits, HostResolves, reviewerVars
  <2>2. QED
    BY <1>12, <2>1 DEF localVars, reviewState
<1>15. CASE UNCHANGED reviewVars
  BY <1>12, <1>15 DEF reviewVars, reviewState, reviewerVars
<1>16. QED
  BY <1>3, <1>4, <1>5, <1>6, <1>7, <1>8, <1>9, <1>10, <1>11, <1>13, <1>14, <1>15 DEF ReviewNext, Loop

LEMMA Typed == ReviewSpec => [](ReviewTypeOK /\ Bounds /\ SessionOf)
<1>1. ReviewInit => ReviewTypeOK /\ Bounds /\ SessionOf
  BY InitTyped
<1>2. ReviewTypeOK /\ Bounds /\ SessionOf /\ [ReviewNext]_reviewVars => (ReviewTypeOK /\ Bounds /\ SessionOf)'
  BY TypeStep, SessionStep
<1>3. QED
  BY <1>1, <1>2, PTL DEF ReviewSpec

\* The type invariant of AutoReview (main.rs, ReviewState and the reviewer host's events).
THEOREM ReviewTypeCorrect == ReviewSpec => []ReviewTypeOK
BY Typed, PTL

\* VerdictIsOwn (handle_review_event, finish_review): the verdict at hand is a message of
\* the running review's own session.
THEOREM VerdictIsOwnHolds == ReviewSpec => []VerdictIsOwn
<1>1. ReviewInit => VerdictIsOwn
  BY DEF ReviewInit, VerdictIsOwn
<1>2. ReviewTypeOK /\ Bounds /\ SessionOf /\ VerdictIsOwn /\ [ReviewNext]_reviewVars => VerdictIsOwn'
  <2> SUFFICES ASSUME SessionOf, VerdictIsOwn, [ReviewNext]_reviewVars PROVE VerdictIsOwn'
    OBVIOUS
  <2> USE DEF VerdictIsOwn
  <2>1. CASE ReviewerMessage
    <3>1. CASE UNCHANGED <<text, active>>
      BY <3>1
    <3>2. CASE ThisReview /\ active # "none" /\ UNCHANGED active
               /\ text' = [class |-> Event.class, of |-> sessions[Event.sid].of]
      BY <3>2 DEF ThisReview, SessionOf
    <3>3. QED
      BY <2>1, <3>1, <3>2 DEF ReviewerMessage, Drop, reviewState
  <2>2. CASE StartTurn
    <3>1. CASE text' = NoText
      BY <3>1 DEF NoText, Verdicts
    <3>2. CASE UNCHANGED <<text, active>>
      BY <3>2
    <3>3. QED
      BY <2>2, <3>1, <3>2 DEF StartTurn, Activate
  <2>3. CASE SettleReview \/ ExpireDeadline
    BY <2>3 DEF SettleReview, ExpireDeadline
  <2>4. CASE ReviewerClosed
    BY <2>4 DEF ReviewerClosed, Drop, reviewState
  <2>5. ASSUME UNCHANGED <<text, active>> PROVE VerdictIsOwn'
    BY <2>5
  <2>6. CASE Host \/ UNCHANGED reviewVars
    BY <2>5, <2>6 DEF Host, HostMessage, HostForeground, HostCompletes, HostExits, HostResolves,
       localVars, reviewState, reviewVars
  <2>7. CASE \/ StartNextReview \/ LaunchReviewer \/ StartSession
             \/ ReviewerCompleted \/ ReviewerForeground \/ RetryForVerdict
             \/ \E j \in Jobs : EnqueueReview(j) \/ ApprovalResolved(j)
    BY <2>5, <2>7 DEF StartNextReview, LaunchReviewer, StartSession, ReviewerCompleted, ReviewerForeground,
       RetryForVerdict, EnqueueReview, ApprovalResolved, Drop, reviewState
  <2>8. QED
    BY <2>1, <2>2, <2>3, <2>4, <2>6, <2>7 DEF ReviewNext, Loop
<1>3. QED
  BY <1>1, <1>2, Typed, PTL DEF ReviewSpec
-----------------------------------------------------------------------------
(* Every review is settled once.                                             *)

LEMMA OneReviewStep ==
    ASSUME ReviewTypeOK, Bounds, SessionOf, OneReview, [ReviewNext]_reviewVars
    PROVE  OneReview'
<1> LoopOK /\ ReviewOK /\ HostOK /\ JobsOK
  BY DEF ReviewTypeOK
<1>0. queue \in Seq(Jobs) /\ Len(queue) \in Nat /\ DOMAIN queue = 1 .. Len(queue)
      /\ \A i \in DOMAIN queue : queue[i] \in Jobs
  <2>1. queue \in Seq(Jobs)
    BY DEF ReviewOK
  <2>2. QED
    BY <2>1, Elements
\* One approval is settled: the one being started, or the one under review.
<1>1. ASSUME NEW j \in Jobs, outcome' = [outcome EXCEPT ![j] = outcome'[j]] \/ outcome' = outcome,
             (Starting /\ j = job) \/ (j = active /\ active # "none"),
             active' = "none", ~Starting', UNCHANGED <<queue, asked, resolved, hres>>
      PROVE  OneReview'
  <2>1. \A k \in Jobs : k # j => outcome'[k] = outcome[k]
    BY <1>1 DEF JobsOK
  <2>2. j \in asked /\ \A i \in DOMAIN queue : queue[i] # j /\ queue[i] \in Jobs
    BY <1>0, <1>1 DEF OneReview
  <2>3. \A i \in DOMAIN queue' : /\ queue'[i] \in asked' \ resolved' /\ outcome'[queue'[i]] = "none"
                                 /\ queue'[i] # active' /\ (Starting' => queue'[i] # job')
    BY <1>1, <2>1, <2>2 DEF OneReview
  <2>4. QED
    BY <1>1, <2>1, <2>2, <2>3 DEF OneReview, Starting
\* No approval is settled, started or queued.
<1>2. ASSUME UNCHANGED <<queue, active, asked, resolved, hres, outcome, job>>, Starting' => Starting
      PROVE  OneReview'
  BY <1>2 DEF OneReview, Starting
<1>3. ASSUME NEW j \in Jobs, EnqueueReview(j) PROVE OneReview'
  <2>1. /\ j \notin asked /\ j \notin resolved /\ asked' = asked \cup {j} /\ queue' = Append(queue, j)
        /\ UNCHANGED <<active, hres, resolved, outcome>> /\ ~Starting'
    BY <1>3 DEF EnqueueReview, Starting
  <2>2. DOMAIN queue' = 1 .. Len(queue) + 1 /\ queue'[Len(queue) + 1] = j
        /\ \A i \in DOMAIN queue : queue'[i] = queue[i]
    BY <1>0, <2>1
  <2>3. outcome[j] = "none" /\ j # active /\ \A i \in DOMAIN queue : queue[i] # j
    BY <2>1 DEF OneReview
  <2>4. \A i, k \in DOMAIN queue' : queue'[i] = queue'[k] => i = k
    BY <1>0, <2>2, <2>3 DEF OneReview
  <2>5. \A i \in DOMAIN queue' : /\ queue'[i] \in asked' \ resolved' /\ outcome'[queue'[i]] = "none"
                                 /\ queue'[i] # active' /\ (Starting' => queue'[i] # job')
    BY <1>0, <2>1, <2>2, <2>3 DEF OneReview
  <2>6. QED
    BY <2>1, <2>4, <2>5 DEF OneReview, Starting
<1>4. CASE StartNextReview
  <2>1. UNCHANGED <<active, outcome, hres, resolved, asked>> /\ loopAt = "start"
    BY <1>4 DEF StartNextReview
  <2>2. CASE loopAt' = "idle" /\ UNCHANGED <<job, queue>>
    BY <1>2, <2>1, <2>2 DEF Starting
  <2>3. CASE queue # <<>> /\ active = "none" /\ job' = Head(queue) /\ queue' = Tail(queue)
    <3>1. /\ job' = queue[1] /\ 1 \in DOMAIN queue /\ job' \in Jobs
          /\ \A i \in DOMAIN queue' : i + 1 \in DOMAIN queue /\ queue'[i] = queue[i + 1]
                                      /\ i \in Nat /\ i + 1 # 1
      BY <2>3, QueueTail
    <3>2. job' \in asked \ resolved /\ outcome[job'] = "none"
      BY <3>1 DEF OneReview
    <3>3. \A i, k \in DOMAIN queue' : queue'[i] = queue'[k] => i = k
      <4>1. \A i, k \in DOMAIN queue' : queue'[i] = queue'[k] => i + 1 = k + 1
        BY <3>1 DEF OneReview
      <4>2. QED
        BY <3>1, <4>1
    <3>4. \A i \in DOMAIN queue' : queue'[i] # job'
      BY <3>1 DEF OneReview
    <3>5. QED
      BY <2>1, <2>3, <3>1, <3>2, <3>3, <3>4 DEF OneReview
  <2>4. QED
    BY <1>4, <2>2, <2>3 DEF StartNextReview
<1>5. CASE LaunchReviewer
  <2>1. UNCHANGED <<job, queue, active, hres, resolved, asked>> /\ Starting
        /\ active = "none" /\ job \in Jobs
    BY <1>5 DEF LaunchReviewer, reviewState, Starting, SessionOf, Bounds
  <2>2. CASE Deny(job) /\ loopAt' = "start"
    BY <1>1, <2>1, <2>2 DEF Deny, Starting, JobsOK
  <2>3. CASE UNCHANGED outcome
    BY <1>2, <2>1, <2>3
  <2>4. QED
    BY <1>5, <2>2, <2>3 DEF LaunchReviewer
<1>6. CASE StartSession
  <2>1. UNCHANGED <<job, queue, active, hres, resolved, asked>> /\ Starting
        /\ active = "none" /\ job \in Jobs
    BY <1>6 DEF StartSession, Starting, SessionOf, Bounds
  <2>2. CASE Deny(job) /\ loopAt' = "start"
    BY <1>1, <2>1, <2>2 DEF Deny, Starting, JobsOK
  <2>3. CASE UNCHANGED outcome
    BY <1>2, <2>1, <2>3
  <2>4. QED
    BY <1>6, <2>2, <2>3 DEF StartSession
<1>7. CASE StartTurn
  <2>1. UNCHANGED <<job, queue, hres, resolved, asked>> /\ Starting
        /\ active = "none" /\ job \in Jobs
    BY <1>7 DEF StartTurn, Starting, SessionOf, Bounds
  <2>2. CASE Deny(job) /\ loopAt' = "start" /\ UNCHANGED active
    BY <1>1, <2>1, <2>2 DEF Deny, Starting, JobsOK
  <2>3. CASE active' = job /\ loopAt' = "idle" /\ UNCHANGED outcome
    BY <2>1, <2>3 DEF OneReview, Starting
  <2>4. QED
    BY <1>7, <2>2, <2>3 DEF StartTurn, Activate
<1>8. CASE ReviewerMessage \/ ReviewerCompleted \/ ReviewerForeground \/ RetryForVerdict
  BY <1>2, <1>8 DEF ReviewerMessage, ReviewerCompleted, ReviewerForeground, RetryForVerdict, Drop,
     Take, Starting, reviewState
<1>9. CASE SettleReview
  <2>1. UNCHANGED <<job, queue, hres, resolved, asked>> /\ active' = "none" /\ ~Starting'
    BY <1>9 DEF SettleReview, Starting
  <2>2. CASE active = "none"
    <3>1. UNCHANGED outcome
      BY <1>9, <2>2 DEF SettleReview
    <3>2. QED
      BY <1>2, <2>1, <2>2, <3>1
  <2>3. CASE active # "none"
    <3>1. active \in Jobs /\ outcome' = [outcome EXCEPT ![active] = outcome'[active]]
      BY <1>9, <2>3 DEF SettleReview, DenyUnlessResolved, ReviewOK, JobsOK
    <3>2. QED
      BY <1>1, <2>1, <2>3, <3>1
  <2>4. QED
    BY <2>2, <2>3
<1>10. CASE ExpireDeadline
  <2>1. /\ UNCHANGED <<job, queue, hres, resolved, asked>> /\ active' = "none" /\ ~Starting'
        /\ active \in Jobs /\ active # "none"
    BY <1>10 DEF ExpireDeadline, Starting, ReviewOK
  <2>2. outcome' = [outcome EXCEPT ![active] = outcome'[active]]
    BY <1>10, <2>1 DEF ExpireDeadline, DenyUnlessResolved, JobsOK
  <2>3. QED
    BY <1>1, <2>1, <2>2
<1>11. CASE ReviewerClosed
  <2>1. CASE Current
    <3>1. UNCHANGED <<job, queue, hres, resolved, asked>> /\ active' = "none" /\ ~Starting'
      BY <1>11, <2>1 DEF ReviewerClosed, Take, Starting
    <3>2. CASE active = "none"
      BY <1>2, <1>11, <2>1, <3>1, <3>2 DEF ReviewerClosed
    <3>3. CASE active # "none"
      <4>1. active \in Jobs /\ outcome' = [outcome EXCEPT ![active] = outcome'[active]]
        BY <1>11, <2>1, <3>3 DEF ReviewerClosed, Deny, ReviewOK, JobsOK
      <4>2. QED
        BY <1>1, <3>1, <3>3, <4>1
    <3>4. QED
      BY <3>2, <3>3
  <2>2. CASE Take("closed") /\ Drop
    BY <1>2, <2>2 DEF Drop, Starting, reviewState
  <2>3. QED
    BY <1>11, <2>1, <2>2 DEF ReviewerClosed
<1>12. ASSUME NEW j \in Jobs, ApprovalResolved(j) PROVE OneReview'
  <2>1. /\ UNCHANGED <<active, hres, asked>> /\ ~Starting' /\ j \in hres
        /\ resolved' = resolved \cup {j} /\ DropQueued(j)
    BY <1>12 DEF ApprovalResolved, Starting
  <2>2. CASE (\A i \in DOMAIN queue : queue[i] # j) /\ UNCHANGED <<queue, outcome>>
    BY <2>1, <2>2 DEF OneReview, Starting
  <2>3. ASSUME NEW n \in DOMAIN queue, queue[n] = j, queue' = RemoveAt(queue, n),
               outcome' = [outcome EXCEPT ![j] = "dropped"]
        PROVE  OneReview'
    <3>1. \A i \in DOMAIN queue' :
            /\ i \in Nat /\ n \in Nat
            /\ i < n => i \in DOMAIN queue /\ queue'[i] = queue[i]
            /\ i >= n => i + 1 \in DOMAIN queue /\ queue'[i] = queue[i + 1]
      BY <1>0, <2>3, QueueWithout
    <3>2. \A i \in DOMAIN queue' : \E k \in DOMAIN queue :
            k # n /\ queue'[i] = queue[k] /\ k = IF i < n THEN i ELSE i + 1
      BY <1>0, <3>1
    <3>3. \A i, k \in DOMAIN queue' : queue'[i] = queue'[k] => i = k
      <4>1. \A i, k \in DOMAIN queue' : queue'[i] = queue'[k] =>
              (IF i < n THEN i ELSE i + 1) = (IF k < n THEN k ELSE k + 1)
        BY <3>2 DEF OneReview
      <4>2. \A i, k \in DOMAIN queue' :
              (IF i < n THEN i ELSE i + 1) = (IF k < n THEN k ELSE k + 1) => i = k
        BY <3>1
      <4>3. QED
        BY <4>1, <4>2
    <3>4. \A i \in DOMAIN queue' : queue'[i] # j
      BY <2>3, <3>2 DEF OneReview
    <3>5. \A k \in Jobs : k # j => outcome'[k] = outcome[k]
      BY <2>3 DEF JobsOK
    <3>6. \A i \in DOMAIN queue' : /\ queue'[i] \in asked' \ resolved' /\ outcome'[queue'[i]] = "none"
                                   /\ queue'[i] # active' /\ (Starting' => queue'[i] # job')
      BY <1>0, <2>1, <3>2, <3>4, <3>5 DEF OneReview
    <3>7. j \in asked /\ j # active
      BY <2>3 DEF OneReview
    <3>8. QED
      BY <2>1, <3>3, <3>5, <3>6, <3>7 DEF OneReview, Starting, ReviewOK
  <2>4. QED
    BY <2>1, <2>2, <2>3 DEF DropQueued
<1>13. CASE Host
  <2>1. UNCHANGED localVars
    BY <1>13 DEF Host, HostMessage, HostForeground, HostCompletes, HostExits, HostResolves
  <2>2. hres' \subseteq asked
    BY <1>13 DEF Host, HostMessage, HostForeground, HostCompletes, HostExits, HostResolves, OneReview
  <2>3. QED
    BY <2>1, <2>2 DEF OneReview, Starting, localVars, reviewState
<1>14. CASE UNCHANGED reviewVars
  BY <1>2, <1>14 DEF reviewVars, reviewState, Starting
<1>15. QED
  BY <1>3, <1>4, <1>5, <1>6, <1>7, <1>8, <1>9, <1>10, <1>11, <1>12, <1>13, <1>14 DEF ReviewNext, Loop

LEMMA OneReviewHolds == ReviewSpec => []OneReview
<1>1. ReviewInit => OneReview
  BY EmptySeq DEF ReviewInit, OneReview, Starting
<1>2. ReviewTypeOK /\ Bounds /\ SessionOf /\ OneReview /\ [ReviewNext]_reviewVars => OneReview'
  BY OneReviewStep
<1>3. QED
  BY <1>1, <1>2, Typed, PTL DEF ReviewSpec

\* What a step can settle: the approval being started, the one under review, or one that
\* waits in the queue.
LEMMA ReviewSettles ==
    ASSUME ReviewTypeOK, Bounds, SessionOf, OneReview, [ReviewNext]_reviewVars, NEW j \in Jobs, outcome'[j] # outcome[j]
    PROVE  \/ Starting /\ j = job
           \/ \E i \in DOMAIN queue : queue[i] = j
           \/ /\ j = active /\ active # "none"
              /\ j \in resolved => outcome'[j] = "dropped" \/ (j = active /\ outcome'[j] = Denial(j) /\ ReviewerExits)
<1> LoopOK /\ ReviewOK /\ HostOK /\ JobsOK
  BY DEF ReviewTypeOK
<1>1. CASE LaunchReviewer \/ StartSession \/ StartTurn
  <2>1. Starting /\ (Deny(job) \/ UNCHANGED outcome)
    BY <1>1 DEF LaunchReviewer, StartSession, StartTurn, Starting
  <2>2. QED
    BY <2>1 DEF Deny, JobsOK
<1>2. CASE SettleReview
  <2>1. active # "none"
    BY <1>2 DEF SettleReview
  <2>2. outcome' = [outcome EXCEPT ![active] = Finished(active)] \/ DenyUnlessResolved(active)
    BY <1>2, <2>1 DEF SettleReview
  <2>3. j = active /\ (j \in resolved => outcome'[j] = "dropped")
    BY <2>1, <2>2 DEF DenyUnlessResolved, Finished, JobsOK, ReviewOK
  <2>4. QED
    BY <2>1, <2>3
<1>3. CASE ExpireDeadline
  <2>1. active # "none" /\ DenyUnlessResolved(active)
    BY <1>3 DEF ExpireDeadline
  <2>2. j = active /\ (j \in resolved => outcome'[j] = "dropped")
    BY <2>1 DEF DenyUnlessResolved, JobsOK, ReviewOK
  <2>3. QED
    BY <2>1, <2>2
<1>4. CASE ReviewerClosed
  <2>1. active # "none" /\ Deny(active) /\ ReviewerExits
    BY <1>4 DEF ReviewerClosed, ReviewerExits, Drop, Take
  <2>2. j = active /\ outcome'[j] = Denial(j)
    BY <2>1 DEF Deny, JobsOK
  <2>3. QED
    BY <2>1, <2>2
<1>5. ASSUME NEW k \in Jobs, ApprovalResolved(k)
      PROVE  \E i \in DOMAIN queue : queue[i] = j
  <2>1. (\E i \in DOMAIN queue : queue[i] = k) /\ outcome' = [outcome EXCEPT ![k] = "dropped"]
    BY <1>5 DEF ApprovalResolved, DropQueued
  <2>2. j = k
    BY <2>1 DEF JobsOK
  <2>3. QED
    BY <2>1, <2>2
<1>6. ASSUME UNCHANGED outcome PROVE FALSE
  BY <1>6
<1>7. CASE \/ StartNextReview \/ ReviewerMessage \/ ReviewerCompleted \/ ReviewerForeground
           \/ RetryForVerdict \/ (\E k \in Jobs : EnqueueReview(k)) \/ Host \/ UNCHANGED reviewVars
  BY <1>6, <1>7 DEF StartNextReview, ReviewerMessage, ReviewerCompleted, ReviewerForeground,
     RetryForVerdict, EnqueueReview, Host, HostMessage, HostForeground, HostCompletes, HostExits,
     HostResolves, Drop, localVars, reviewVars
<1>8. QED
  BY <1>1, <1>2, <1>3, <1>4, <1>5, <1>7 DEF ReviewNext, Loop

\* NoGhostDecision (review_job_resolved): an approval known to be terminal is never
\* allowed, and denied only if the host that reviews it exits.
THEOREM NoGhostDecisionHolds == ReviewSpec => NoGhostDecision
<1> DEFINE NoGhost == \A j \in resolved : outcome'[j] # outcome[j] =>
                        \/ outcome'[j] = "dropped"
                        \/ j = active /\ outcome'[j] = Denial(j) /\ ReviewerExits
<1>1. ReviewTypeOK /\ Bounds /\ SessionOf /\ OneReview /\ [ReviewNext]_reviewVars => NoGhost
  <2> SUFFICES ASSUME ReviewTypeOK, Bounds, SessionOf, OneReview, [ReviewNext]_reviewVars,
                      NEW j \in resolved, outcome'[j] # outcome[j]
               PROVE  outcome'[j] = "dropped" \/ (j = active /\ outcome'[j] = Denial(j) /\ ReviewerExits)
    OBVIOUS
  <2>1. j \in Jobs
    BY DEF ReviewTypeOK, JobsOK
  <2>2. \/ Starting /\ j = job
        \/ \E i \in DOMAIN queue : queue[i] = j
        \/ /\ j = active /\ active # "none"
           /\ j \in resolved => outcome'[j] = "dropped" \/ (j = active /\ outcome'[j] = Denial(j) /\ ReviewerExits)
    BY <2>1, ReviewSettles
  <2>3. ~(Starting /\ j = job) /\ \A i \in DOMAIN queue : queue[i] # j
    BY DEF OneReview
  <2>4. QED
    BY <2>2, <2>3
<1>2. ReviewTypeOK /\ Bounds /\ SessionOf /\ OneReview /\ [ReviewNext]_reviewVars => [NoGhost]_reviewVars
  BY <1>1
<1>3. QED
  BY <1>2, Typed, OneReviewHolds, PTL DEF ReviewSpec, NoGhostDecision

\* Every approval handed to the reviewer is settled at most once, whichever of a verdict,
\* a failure, the deadline, an exit and a decision elsewhere comes first.
SettledOnce == [][\A j \in Jobs : outcome[j] # "none" => outcome'[j] = outcome[j]]_reviewVars

\* SettledOnce (ReviewState: a job is queued, started, active and taken, one at a time).
THEOREM SettledOnceHolds == ReviewSpec => SettledOnce
<1> DEFINE SettledAtMostOnce == \A j \in Jobs : outcome[j] # "none" => outcome'[j] = outcome[j]
<1>1. ReviewTypeOK /\ Bounds /\ SessionOf /\ OneReview /\ [ReviewNext]_reviewVars => SettledAtMostOnce
  <2> SUFFICES ASSUME ReviewTypeOK, Bounds, SessionOf, OneReview, [ReviewNext]_reviewVars,
                      NEW j \in Jobs, outcome'[j] # outcome[j]
               PROVE  outcome[j] = "none"
    OBVIOUS
  <2>1. (Starting /\ j = job) \/ (\E i \in DOMAIN queue : queue[i] = j) \/ (j = active /\ active # "none")
    BY ReviewSettles
  <2>2. QED
    BY <2>1 DEF OneReview
<1>2. ReviewTypeOK /\ Bounds /\ SessionOf /\ OneReview /\ [ReviewNext]_reviewVars => [SettledAtMostOnce]_reviewVars
  BY <1>1
<1>3. QED
  BY <1>2, Typed, OneReviewHolds, PTL DEF ReviewSpec, SettledOnce
=============================================================================
