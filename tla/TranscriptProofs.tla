--------------------------- MODULE TranscriptProofs ----------------------------
(* Theorems about Transcript, for any items, views, budgets, page sizes and any *)
(* number of holes, crashes and replays.                                        *)
EXTENDS Transcript, SequenceTheorems, FiniteSetTheorems, WellFoundedInduction, TLAPS

-----------------------------------------------------------------------------
(* Sequences.                                                              *)

LEMMA AppendType ==
  ASSUME NEW X, NEW q \in Seq(X), NEW x \in X
  PROVE  Append(q, x) \in Seq(X)
OBVIOUS

\* A set of naturals that is not empty has a least element.
LEMMA Least ==
  ASSUME NEW T \in SUBSET Nat, T # {}
  PROVE  \E n \in T : \A m \in T : n <= m
<1>1. \E n \in T : \A m \in T : <<m, n>> \notin OpToRel(<, Nat)
  BY NatLessThanWellFounded, WFMin
<1>2. OpToRel(<, Nat) = {ss \in Nat \X Nat : ss[1] < ss[2]}
  BY DEF OpToRel
<1>3. PICK n \in T : \A m \in T : <<m, n>> \notin {ss \in Nat \X Nat : ss[1] < ss[2]}
  BY <1>1, <1>2
<1>4. \A m \in T : n <= m
  <2> TAKE m \in T
  <2>1. m \in Nat /\ n \in Nat
    OBVIOUS
  <2>2. ~(m < n)
    BY <2>1, <1>3
  <2>3. QED
    BY <2>1, <2>2
<1>5. QED
  BY <1>4

\* A run a[0], a[1], ... whose steps lead from I[n - 1] to I[n] stays in I.
LEMMA StaysIn ==
  ASSUME NEW N \in Nat, NEW I, NEW a, a[0] \in I[0],
         \A n \in 1 .. N : a[n - 1] \in I[n - 1] => a[n] \in I[n]
  PROVE  \A n \in 0 .. N : a[n] \in I[n]
<1> DEFINE Bad == {n \in 0 .. N : a[n] \notin I[n]}
<1> SUFFICES ASSUME Bad # {} PROVE FALSE
  OBVIOUS
<1>1. PICK n \in Bad : \A m \in Bad : n <= m
  <2>1. Bad \in SUBSET Nat
    OBVIOUS
  <2>2. QED
    BY <2>1, Least
<1>2. n # 0 /\ n \in 0 .. N /\ a[n] \notin I[n]
  OBVIOUS
<1>3. n \in 1 .. N /\ n - 1 \in 0 .. N /\ n - 1 \notin Bad
  <2> HIDE DEF Bad
  <2>1. QED
    BY <1>1, <1>2
<1>4. a[n - 1] \in I[n - 1]
  BY <1>3
<1>5. QED
  BY <1>2, <1>3, <1>4

Run(h, N, I, b, F) ==
  /\ h = [n \in 0 .. N |-> h[n]]
  /\ h[0] = b
  /\ \A n \in 1 .. N : h[n - 1] \in I[n - 1] /\ h[n] = F[n][h[n - 1]]

\* A run that starts at b and takes the steps F exists, if they lead from I[n - 1]
\* to I[n].
LEMMA RunExists ==
  ASSUME NEW N \in Nat, NEW I, NEW b \in I[0], NEW F,
         \A n \in 1 .. N : \A g \in I[n - 1] : F[n][g] \in I[n]
  PROVE  \E h : Run(h, N, I, b, F)
<1> DEFINE P(n, h) == /\ h = [m \in 0 .. n |-> h[m]]
                      /\ h[0] = b
                      /\ \A m \in 1 .. n : h[m - 1] \in I[m - 1] /\ h[m] = F[m][h[m - 1]]
                      /\ h[n] \in I[n]
           Bad == {n \in 0 .. N : ~\E h : P(n, h)}
<1>1. Bad = {}
  <2> SUFFICES ASSUME Bad # {} PROVE FALSE
    OBVIOUS
  <2>1. PICK n \in Bad : \A m \in Bad : n <= m
    <3>1. Bad \in SUBSET Nat
      OBVIOUS
    <3>2. QED
      BY <3>1, Least
  <2>2. CASE n = 0
    <3>1. P(0, [k \in 0 .. 0 |-> b])
      OBVIOUS
    <3>2. QED
      BY <2>2, <2>1, <3>1
  <2>3. CASE n # 0
    <3>0. n \in 0 .. N
      OBVIOUS
    <3>1. n \in 1 .. N /\ n - 1 \in 0 .. N /\ n - 1 \notin Bad
      <4> HIDE DEF Bad
      <4>1. QED
        BY <3>0, <2>1, <2>3
    <3>2. PICK h : P(n - 1, h)
      BY <3>1
    <3> DEFINE g == [k \in 0 .. n |-> IF k = n THEN F[n][h[n - 1]] ELSE h[k]]
    <3>3. h[n - 1] \in I[n - 1] /\ F[n][h[n - 1]] \in I[n]
      BY <3>1, <3>2
    <3>4. /\ g[n] = F[n][h[n - 1]] /\ g[0] = h[0]
          /\ \A m \in 0 .. n - 1 : g[m] = h[m]
          /\ g = [m \in 0 .. n |-> g[m]]
      BY <3>1
    <3> HIDE DEF g
    <3>5. \A m \in 1 .. n : g[m - 1] \in I[m - 1] /\ g[m] = F[m][g[m - 1]]
      <4> TAKE m \in 1 .. n
      <4>a. m - 1 \in 0 .. n - 1
        BY <3>1
      <4>0. g[m - 1] = h[m - 1]
        BY <3>4, <4>a
      <4>1. CASE m = n
        BY <4>0, <4>1, <3>3, <3>4
      <4>2. CASE m # n
        <5>1. m \in 1 .. n - 1 /\ m \in 0 .. n - 1
          BY <3>1, <4>2
        <5>2. g[m] = h[m] /\ h[m - 1] \in I[m - 1] /\ h[m] = F[m][h[m - 1]]
          BY <5>1, <3>2, <3>4
        <5>3. QED
          BY <4>0, <5>2
      <4>3. QED
        BY <4>1, <4>2
    <3>6. P(n, g)
      BY <3>2, <3>3, <3>4, <3>5
    <3>7. QED
      BY <2>1, <3>6
  <2>4. QED
    BY <2>2, <2>3
<1>2. N \in 0 .. N /\ N \notin Bad
  BY <1>1
<1>3. PICK h : P(N, h)
  BY <1>2
<1>4. QED
  BY <1>3 DEF Run

-----------------------------------------------------------------------------
(* The folds: what each step preserves, the fold preserves.                *)

LEMMA CompleteAllIn ==
  ASSUME NEW xs \in Seq(Frames), NEW I, NEW f \in I[0],
         \A n \in 1 .. Len(xs) : \A g \in I[n - 1] : CompleteItem(g, xs[n]) \in I[n]
  PROVE  CompleteAll(f, xs) \in I[Len(xs)]
<1> DEFINE N == Len(xs)
           F == [n \in 1 .. N |-> [g \in I[n - 1] |-> CompleteItem(g, xs[n])]]
           E(h) == h = [n \in 0 .. N |-> IF n = 0 THEN f ELSE CompleteItem(h[n - 1], xs[n])]
           after == CHOOSE h : E(h)
<1>1. N \in Nat
  OBVIOUS
<1>2. \E h : E(h)
  <2>1. \A n \in 1 .. N : \A g \in I[n - 1] : F[n][g] = CompleteItem(g, xs[n])
    OBVIOUS
  <2>2. \A n \in 1 .. N : \A g \in I[n - 1] : F[n][g] \in I[n]
    BY <2>1
  <2>3. PICK h : Run(h, N, I, f, F)
    <3> HIDE DEF F, N
    <3>1. QED
      BY <1>1, <2>2, RunExists
  <2>4. h = [n \in 0 .. N |-> h[n]] /\ h[0] = f
    BY <2>3 DEF Run
  <2>5. \A n \in 0 .. N : h[n] = IF n = 0 THEN f ELSE CompleteItem(h[n - 1], xs[n])
    <3> TAKE n \in 0 .. N
    <3>1. CASE n # 0
      <4>1. n \in 1 .. N
        BY <1>1, <3>1
      <4>2. h[n - 1] \in I[n - 1] /\ h[n] = F[n][h[n - 1]]
        BY <2>3, <4>1 DEF Run
      <4>3. QED
        BY <2>1, <3>1, <4>1, <4>2
    <3>2. QED
      BY <2>4, <3>1
  <2>7. E(h)
    <3> HIDE DEF F, N
    <3>1. QED
      BY <2>4, <2>5
  <2>8. QED
    BY <2>7
<1>3. E(after)
  BY <1>2
<1>4. \A n \in 1 .. N : after[n - 1] \in I[n - 1] => after[n] \in I[n]
  <2> TAKE n \in 1 .. N
  <2>1. after[n] = CompleteItem(after[n - 1], xs[n])
    <3> HIDE DEF after
    <3>1. QED
      BY <1>3
  <2> HIDE DEF after
  <2>2. QED
    BY <2>1
<1>5. after[0] = f
  <2> HIDE DEF after
  <2>1. QED
    BY <1>1, <1>3
<1>6. after[N] \in I[N]
  <2> HIDE DEF after, N
  <2>1. N \in 0 .. N
    BY <1>1
  <2>2. QED
    BY <1>1, <1>4, <1>5, <2>1, StaysIn
<1>7. CompleteAll(f, xs) = after[N]
  BY DEF CompleteAll
<1>8. QED
  BY <1>6, <1>7

-----------------------------------------------------------------------------
(* Among.                                                                  *)

\* r has the members of S among the first m elements of xs, h tells where from.
Picks(r, h, xs, S, m) ==
  /\ h \in [1 .. Len(r) -> 1 .. m]
  /\ \A a, b \in 1 .. Len(r) : a < b => h[a] < h[b]
  /\ \A a \in 1 .. Len(r) : r[a] = xs[h[a]] /\ xs[h[a]] \in S
  /\ \A k \in 1 .. m : xs[k] \in S => \E a \in 1 .. Len(r) : h[a] = k

LEMMA PicksOne ==
  ASSUME NEW X, NEW xs \in Seq(X), NEW S, NEW n \in 1 .. Len(xs), xs[n] \in S,
         NEW r \in Seq(X), NEW h, Picks(r, h, xs, S, n - 1)
  PROVE  \E g : Picks(Append(r, xs[n]), g, xs, S, n)
<1> DEFINE L == Len(r)
           q == Append(r, xs[n])
           g == [a \in 1 .. Len(q) |-> IF a = L + 1 THEN n ELSE h[a]]
<1>1. L \in Nat /\ Len(q) = L + 1 /\ q[L + 1] = xs[n] /\ \A a \in 1 .. L : q[a] = r[a]
  OBVIOUS
<1>2. h \in [1 .. L -> 1 .. n - 1] /\ \A a \in 1 .. L : h[a] \in 1 .. n - 1
  BY DEF Picks
<1>3. g[L + 1] = n /\ \A a \in 1 .. L : g[a] = h[a]
  BY <1>1
<1>4. g \in [1 .. Len(q) -> 1 .. n]
  BY <1>1, <1>2
<1> HIDE DEF g, q, L
<1>5. \A a, b \in 1 .. Len(q) : a < b => g[a] < g[b]
  <2> TAKE a \in 1 .. Len(q), b \in 1 .. Len(q)
  <2> HAVE a < b
  <2>1. a \in 1 .. L /\ (b \in 1 .. L \/ b = L + 1)
    BY <1>1
  <2>2. b \in 1 .. L => h[a] < h[b]
    BY <2>1 DEF Picks, L
  <2>3. g[a] = h[a] /\ h[a] \in 1 .. n - 1 /\ n \in Nat
    BY <2>1, <1>2, <1>3
  <2>4. CASE b \in 1 .. L
    BY <2>4, <2>2, <2>3, <1>3
  <2>5. CASE b = L + 1
    BY <2>5, <2>3, <1>3
  <2>6. QED
    BY <2>1, <2>4, <2>5
<1>6. \A a \in 1 .. Len(q) : q[a] = xs[g[a]] /\ xs[g[a]] \in S
  <2> TAKE a \in 1 .. Len(q)
  <2>1. a \in 1 .. L \/ a = L + 1
    BY <1>1
  <2>2. CASE a \in 1 .. L
    <3>1. r[a] = xs[h[a]] /\ xs[h[a]] \in S
      BY <2>2 DEF Picks, L
    <3>2. QED
      BY <2>2, <3>1, <1>1, <1>3
  <2>3. CASE a = L + 1
    BY <2>3, <1>1, <1>3
  <2>4. QED
    BY <2>1, <2>2, <2>3
<1>7. \A k \in 1 .. n : xs[k] \in S => \E a \in 1 .. Len(q) : g[a] = k
  <2> TAKE k \in 1 .. n
  <2> HAVE xs[k] \in S
  <2>1. CASE k = n
    <3>1. L + 1 \in 1 .. Len(q)
      BY <1>1
    <3>2. QED
      BY <2>1, <3>1, <1>3
  <2>2. CASE k # n
    <3>1. k \in 1 .. n - 1
      BY <2>2
    <3>2. PICK a \in 1 .. L : h[a] = k
      BY <3>1 DEF Picks, L
    <3>3. a \in 1 .. Len(q) /\ g[a] = k
      BY <3>2, <1>1, <1>3
    <3>4. QED
      BY <3>3
  <2>3. QED
    BY <2>1, <2>2
<1>8. Picks(q, g, xs, S, n)
  BY <1>4, <1>5, <1>6, <1>7 DEF Picks
<1>9. QED
  BY <1>8 DEF q

LEMMA PicksNone ==
  ASSUME NEW X, NEW xs \in Seq(X), NEW S, NEW n \in 1 .. Len(xs), xs[n] \notin S,
         NEW r \in Seq(X), NEW h, Picks(r, h, xs, S, n - 1)
  PROVE  Picks(r, h, xs, S, n)
<1>1. \A k \in 1 .. n : k \in 1 .. n - 1 \/ k = n
  OBVIOUS
<1>2. h \in [1 .. Len(r) -> 1 .. n]
  <2>1. h \in [1 .. Len(r) -> 1 .. n - 1]
    BY DEF Picks
  <2>2. \A k \in 1 .. n - 1 : k \in 1 .. n
    OBVIOUS
  <2>3. QED
    BY <2>1, <2>2
<1>3. QED
  BY <1>1, <1>2 DEF Picks

\* Among takes the members of S, each in its place and none left out.
LEMMA AmongIs ==
  ASSUME NEW X, NEW xs \in Seq(X), NEW S
  PROVE  Among(xs, S) \in Seq(X) /\ \E h : Picks(Among(xs, S), h, xs, S, Len(xs))
<1> DEFINE N == Len(xs)
           I == [n \in 0 .. N |-> {r \in Seq(X) : \E h : Picks(r, h, xs, S, n)}]
           F == [n \in 1 .. N |-> [r \in I[n - 1] |-> IF xs[n] \in S THEN Append(r, xs[n]) ELSE r]]
           E(h) == h = [n \in 0 .. N |-> IF n = 0 THEN <<>>
                                         ELSE IF xs[n] \in S THEN Append(h[n - 1], xs[n])
                                         ELSE h[n - 1]]
           after == CHOOSE h : E(h)
<1>1. N \in Nat /\ N \in 0 .. N
  OBVIOUS
<1>2. <<>> \in I[0]
  <2>1. Picks(<<>>, <<>>, xs, S, 0)
    BY DEF Picks
  <2>2. QED
    BY <1>1, <2>1
<1>3. \A n \in 1 .. N : \A r \in I[n - 1] :
        (IF xs[n] \in S THEN Append(r, xs[n]) ELSE r) \in I[n]
  <2> TAKE n \in 1 .. N
  <2>0. n - 1 \in 0 .. N /\ n \in 0 .. N
    BY <1>1
  <2> TAKE r \in I[n - 1]
  <2>1. r \in Seq(X) /\ \E h : Picks(r, h, xs, S, n - 1)
    BY <2>0
  <2>2. PICK h : Picks(r, h, xs, S, n - 1)
    BY <2>1
  <2>3. CASE xs[n] \in S
    <3>1. Append(r, xs[n]) \in Seq(X)
      BY <2>1
    <3>2. \E g : Picks(Append(r, xs[n]), g, xs, S, n)
      BY <2>1, <2>2, <2>3, PicksOne
    <3>3. QED
      BY <2>0, <2>3, <3>1, <3>2
  <2>4. CASE xs[n] \notin S
    <3>1. Picks(r, h, xs, S, n)
      BY <2>1, <2>2, <2>4, PicksNone
    <3>2. QED
      BY <2>0, <2>1, <2>4, <3>1
  <2>5. QED
    BY <2>3, <2>4
<1>4. \E h : E(h)
  <2>1. \A n \in 1 .. N : \A r \in I[n - 1] :
          F[n][r] = IF xs[n] \in S THEN Append(r, xs[n]) ELSE r
    OBVIOUS
  <2> HIDE DEF I
  <2>2. \A n \in 1 .. N : \A r \in I[n - 1] : F[n][r] \in I[n]
    BY <1>3, <2>1
  <2>3. PICK h : Run(h, N, I, <<>>, F)
    <3> HIDE DEF F, N
    <3>1. QED
      BY <1>1, <1>2, <2>2, RunExists
  <2>4. h = [n \in 0 .. N |-> h[n]] /\ h[0] = <<>>
    BY <2>3 DEF Run
  <2>5. \A n \in 0 .. N : h[n] = IF n = 0 THEN <<>>
                                 ELSE IF xs[n] \in S THEN Append(h[n - 1], xs[n]) ELSE h[n - 1]
    <3> TAKE n \in 0 .. N
    <3>1. CASE n # 0
      <4>1. n \in 1 .. N
        BY <1>1, <3>1
      <4>2. h[n - 1] \in I[n - 1] /\ h[n] = F[n][h[n - 1]]
        BY <2>3, <4>1 DEF Run
      <4>3. QED
        BY <2>1, <3>1, <4>1, <4>2
    <3>2. QED
      BY <2>4, <3>1
  <2>6. E(h)
    <3> HIDE DEF F, N
    <3>1. QED
      BY <2>4, <2>5
  <2>7. QED
    BY <2>6
<1>5. E(after)
  BY <1>4
<1>6. after[N] \in I[N]
  <2> HIDE DEF after, I
  <2>1. \A n \in 1 .. N : after[n - 1] \in I[n - 1] => after[n] \in I[n]
    <3> TAKE n \in 1 .. N
    <3>0. n \in 0 .. N /\ n # 0
      BY <1>1
    <3>1. after[n] = IF xs[n] \in S THEN Append(after[n - 1], xs[n]) ELSE after[n - 1]
      BY <3>0, <1>5
    <3>2. QED
      BY <3>1, <1>3
  <2>2. after[0] = <<>>
    BY <1>1, <1>5
  <2> HIDE DEF N
  <2>3. QED
    BY <1>1, <1>2, <2>1, <2>2, StaysIn
<1>7. Among(xs, S) = after[N]
  BY DEF Among
<1>8. QED
  <2> HIDE DEF after
  <2>1. QED
    BY <1>1, <1>6, <1>7

-----------------------------------------------------------------------------
(* Rows.                                                                   *)

HasRow(q, i, w) == \E p \in 1 .. Len(q) : q[p] = <<i, w>>
HasAny(q, i) == \E p \in 1 .. Len(q) : q[p][1] = i
Single == {"final", "open", "exit", "mark"}

\* Nothing follows a final row but marks, some words come once for an item, and an
\* exit follows an open.
Shape(q) ==
  /\ q \in Seq(Lines)
  /\ \A p, r \in 1 .. Len(q) : p < r /\ q[p][1] = q[r][1] =>
       (q[p][2] = "final" => q[r][2] = "mark") /\ (q[p][2] = q[r][2] => q[p][2] \notin Single)
  /\ \A r \in 1 .. Len(q) : q[r][2] = "exit" =>
       \E p \in 1 .. Len(q) : p < r /\ q[p] = <<q[r][1], "open">>

\* r continues q by rows of items in A.
Grows(q, r, A) ==
  /\ Len(q) <= Len(r)
  /\ \A p \in 1 .. Len(q) : r[p] = q[p]
  /\ \A p \in Len(q) + 1 .. Len(r) : r[p][1] \in A

LEMMA GrowsTrans ==
  ASSUME NEW q \in Seq(Lines), NEW r \in Seq(Lines), NEW t \in Seq(Lines), NEW A, NEW B,
         Grows(q, r, A), Grows(r, t, B)
  PROVE  Grows(q, t, A \cup B)
<1>1. Len(q) \in Nat /\ Len(r) \in Nat /\ Len(t) \in Nat /\ Len(q) <= Len(r) /\ Len(r) <= Len(t)
  BY DEF Grows
<1>2. \A p \in 1 .. Len(q) : t[p] = q[p]
  <2> TAKE p \in 1 .. Len(q)
  <2>1. p \in 1 .. Len(r)
    BY <1>1
  <2>2. QED
    BY <2>1 DEF Grows
<1>3. \A p \in Len(q) + 1 .. Len(t) : t[p][1] \in A \cup B
  <2> TAKE p \in Len(q) + 1 .. Len(t)
  <2>1. CASE p <= Len(r)
    <3>1. p \in 1 .. Len(r) /\ p \in Len(q) + 1 .. Len(r)
      BY <1>1, <2>1
    <3>2. QED
      BY <3>1 DEF Grows
  <2>2. CASE ~(p <= Len(r))
    <3>1. p \in Len(r) + 1 .. Len(t)
      BY <1>1, <2>2
    <3>2. QED
      BY <3>1 DEF Grows
  <2>3. QED
    BY <2>1, <2>2
<1>4. QED
  BY <1>1, <1>2, <1>3 DEF Grows

LEMMA GrowsHas ==
  ASSUME NEW q \in Seq(Lines), NEW r \in Seq(Lines), NEW A, Grows(q, r, A)
  PROVE  /\ \A j, w : HasRow(q, j, w) => HasRow(r, j, w)
         /\ \A j : HasAny(q, j) => HasAny(r, j)
         /\ \A j, w : j \notin A => (HasRow(r, j, w) <=> HasRow(q, j, w))
         /\ \A j : j \notin A => (HasAny(r, j) <=> HasAny(q, j))
<1>1. Len(q) \in Nat /\ Len(r) \in Nat /\ Len(q) <= Len(r)
  BY DEF Grows
<1>2. \A p \in 1 .. Len(q) : p \in 1 .. Len(r) /\ r[p] = q[p]
  BY <1>1 DEF Grows
<1>3. \A p \in 1 .. Len(r) : p \in 1 .. Len(q) \/ r[p][1] \in A
  <2> TAKE p \in 1 .. Len(r)
  <2>1. p \in 1 .. Len(q) \/ p \in Len(q) + 1 .. Len(r)
    BY <1>1
  <2>2. QED
    BY <2>1 DEF Grows
<1>4. \A j, w : HasRow(q, j, w) => HasRow(r, j, w)
  BY <1>2 DEF HasRow
<1>5. \A j : HasAny(q, j) => HasAny(r, j)
  BY <1>2 DEF HasAny
<1>6. \A j, w : j \notin A /\ HasRow(r, j, w) => HasRow(q, j, w)
  <2> TAKE j, w
  <2> HAVE j \notin A /\ HasRow(r, j, w)
  <2>1. PICK p \in 1 .. Len(r) : r[p] = <<j, w>>
    BY DEF HasRow
  <2>2. r[p][1] = j
    BY <2>1
  <2>3. p \in 1 .. Len(q)
    BY <2>2, <1>3
  <2>4. q[p] = <<j, w>>
    BY <2>1, <2>3, <1>2
  <2>5. QED
    BY <2>3, <2>4 DEF HasRow
<1>7. \A j : j \notin A /\ HasAny(r, j) => HasAny(q, j)
  BY <1>2, <1>3 DEF HasAny
<1>8. QED
  BY <1>4, <1>5, <1>6, <1>7

\* A row is added, and keeps the shape.
Adds(q, r, i, w) ==
  /\ r = Append(q, <<i, w>>) /\ w \in Words
  /\ HasRow(q, i, "final") => w = "mark"
  /\ w \in Single => ~HasRow(q, i, w)
  /\ w = "exit" => HasRow(q, i, "open")

LEMMA AddRow ==
  ASSUME NEW q, Shape(q), NEW i \in Items \cup {None}, NEW w, NEW r, Adds(q, r, i, w)
  PROVE  /\ Shape(r) /\ Grows(q, r, {i}) /\ HasRow(r, i, w) /\ HasAny(r, i)
         /\ \A j, v : HasRow(r, j, v) => HasRow(q, j, v) \/ (j = i /\ v = w)
<1> DEFINE L == Len(q)
<1> USE DEF Adds
<1>0. q \in Seq(Lines) /\ <<i, w>> \in Lines
  BY DEF Shape, Lines
<1>1. /\ r \in Seq(Lines) /\ L \in Nat /\ Len(r) = L + 1 /\ r[L + 1] = <<i, w>>
      /\ \A p \in 1 .. L : r[p] = q[p]
  BY <1>0
<1>2. <<i, w>>[1] = i /\ <<i, w>>[2] = w
  OBVIOUS
<1>3. \A p \in 1 .. Len(r) : p \in 1 .. L \/ p = L + 1
  BY <1>1
<1>4. \A p \in 1 .. L : q[p] = <<q[p][1], q[p][2]>>
  BY <1>0 DEF Lines
<1> HIDE DEF L
<1>5. \A p, u \in 1 .. Len(r) : p < u /\ r[p][1] = r[u][1] =>
        (r[p][2] = "final" => r[u][2] = "mark") /\ (r[p][2] = r[u][2] => r[p][2] \notin Single)
  <2> TAKE p \in 1 .. Len(r), u \in 1 .. Len(r)
  <2> HAVE p < u /\ r[p][1] = r[u][1]
  <2>1. p \in 1 .. L
    BY <1>1, <1>3
  <2>2. CASE u \in 1 .. L
    BY <2>1, <2>2, <1>1 DEF Shape, L
  <2>3. CASE u = L + 1
    <3>1. q[p][1] = i /\ r[u][2] = w /\ r[p] = q[p] /\ q[p] = <<i, q[p][2]>>
      BY <2>1, <2>3, <1>1, <1>2, <1>4
    <3>2. HasRow(q, i, q[p][2])
      BY <2>1, <3>1 DEF HasRow, L
    <3>3. QED
      BY <3>1, <3>2
  <2>4. QED
    BY <1>3, <2>2, <2>3
<1>6. \A u \in 1 .. Len(r) : r[u][2] = "exit" =>
        \E p \in 1 .. Len(r) : p < u /\ r[p] = <<r[u][1], "open">>
  <2> TAKE u \in 1 .. Len(r)
  <2> HAVE r[u][2] = "exit"
  <2>1. CASE u \in 1 .. L
    <3>1. PICK p \in 1 .. L : p < u /\ q[p] = <<q[u][1], "open">>
      BY <2>1, <1>1 DEF Shape, L
    <3>2. p \in 1 .. Len(r) /\ r[p] = <<r[u][1], "open">>
      BY <2>1, <3>1, <1>1
    <3>3. QED
      BY <3>1, <3>2
  <2>2. CASE u = L + 1
    <3>1. PICK p \in 1 .. L : q[p] = <<i, "open">>
      BY <2>2, <1>1, <1>2 DEF HasRow, L
    <3>2. p \in 1 .. Len(r) /\ p < u /\ r[p] = <<r[u][1], "open">>
      BY <2>2, <3>1, <1>1, <1>2
    <3>3. QED
      BY <3>2
  <2>3. QED
    BY <1>3, <2>1, <2>2
<1>7. Shape(r)
  BY <1>1, <1>5, <1>6 DEF Shape
<1>8. Grows(q, r, {i})
  <2>1. \A p \in L + 1 .. Len(r) : r[p][1] = i
    BY <1>1, <1>2
  <2>2. QED
    BY <1>1, <2>1 DEF Grows, L
<1>9. L + 1 \in 1 .. Len(r)
  BY <1>1
<1>10. HasRow(r, i, w) /\ HasAny(r, i)
  BY <1>1, <1>2, <1>9 DEF HasRow, HasAny
<1>11. \A j, v : HasRow(r, j, v) => HasRow(q, j, v) \/ (j = i /\ v = w)
  <2> TAKE j, v
  <2> HAVE HasRow(r, j, v)
  <2>1. PICK p \in 1 .. Len(r) : r[p] = <<j, v>>
    BY DEF HasRow
  <2>2. CASE p \in 1 .. L
    BY <2>1, <2>2, <1>1 DEF HasRow, L
  <2>3. CASE p = L + 1
    BY <2>1, <2>3, <1>1
  <2>4. QED
    BY <1>3, <2>1, <2>2, <2>3
<1>12. QED
  BY <1>7, <1>8, <1>10, <1>11

-----------------------------------------------------------------------------
(* What a handler may change, and what holds of an item between handlers.   *)

\* The parts of a session no item handler touches.
Kept(f, g) ==
  /\ g.ver = f.ver /\ g.cursor = f.cursor /\ g.seen = f.seen /\ g.twins = f.twins
  /\ g.held = f.held /\ g.active = f.active /\ g.checks = f.checks /\ g.retry = f.retry
  /\ g.replaying = f.replaying

\* What the session knows of item j.
Same(f, g, j) ==
  /\ g.role[j] = f.role[j] /\ g.streamed[j] = f.streamed[j] /\ g.text[j] = f.text[j]
  /\ (j \in g.done <=> j \in f.done) /\ (j \in g.cut <=> j \in f.cut)
  /\ (j \in g.shells <=> j \in f.shells) /\ (j \in g.terminals <=> j \in f.terminals)

\* From f to g only the items in A changed, and rows were only added, theirs.
Eff(f, g, A) ==
  /\ g \in Sessions /\ Kept(f, g) /\ f.done \subseteq g.done /\ f.cut \subseteq g.cut
  /\ \A j \in Items : j \notin A => Same(f, g, j)
  /\ Grows(f.rows, g.rows, A) /\ Shape(g.rows)

\* The text of an item before it is done is what was streamed of it.
TextOK(f, i) ==
  /\ f.text[i] # <<>> => Kind[i] \in {"message", "thought"}
  /\ f.text[i] # <<>> /\ i \notin f.done => f.role[i] = Kind[i] /\ f.streamed[i] > 0
  /\ \A p, q \in 1 .. Len(f.text[i]) : p < q => f.text[i][p] < f.text[i][q]

\* What the session knows of item i agrees with the rows it showed.  F: the items a
\* replay found in flight.
ItemOK(f, i, F) ==
  /\ f.role[i] \in {"message", "thought"} => Kind[i] = f.role[i]
  /\ Kind[i] = "compaction" => f.role[i] = "none"
  /\ i \in f.shells => Kind[i] = "shell"
  /\ i \in f.done => f.role[i] = "none" /\ i \notin f.shells /\ i \notin f.terminals
  /\ i \in f.terminals => i \in f.shells /\ HasRow(f.rows, i, "open")
  /\ HasRow(f.rows, i, "final") => i \in f.done
  /\ HasRow(f.rows, i, "exit") => i \in f.done
  /\ HasRow(f.rows, i, "open") => i \in f.done \/ i \in f.terminals
  /\ HasRow(f.rows, i, "mark") => i \in f.cut
  /\ Kind[i] \in Showing /\ (i \in f.done \/ f.role[i] # "none") => HasAny(f.rows, i)
  /\ f.replaying /\ (f.role[i] # "none" \/ i \in f.shells) => i \in F
  /\ TextOK(f, i)

LEMMA SessionFields ==
  ASSUME NEW f \in Sessions
  PROVE  /\ f.ver \in {1, 2} /\ f.cursor \in Nat /\ f.seen \in SUBSET Nat /\ f.twins \in SUBSET Nat
         /\ f.role \in [Items -> Roles] /\ f.announced \in SUBSET Items
         /\ f.streamed \in [Items -> Nat] /\ f.part \in [Items -> Nat]
         /\ f.done \in SUBSET Items /\ f.held \in Seq(Frames) /\ f.cut \in SUBSET Items
         /\ f.last \in Items \cup {None} /\ f.shells \in SUBSET Items
         /\ f.terminals \in SUBSET Items /\ f.monitors \in SUBSET Items
         /\ f.active \in Nat /\ f.checks \in Nat /\ f.retry \in Nat /\ f.replaying \in BOOLEAN
         /\ f.text \in [Items -> Seq(Nat)] /\ f.rows \in Seq(Lines)
BY DEF Sessions

LEMMA EffNoRow ==
  ASSUME NEW f \in Sessions, NEW g \in Sessions, NEW i \in Items, Shape(f.rows),
         Kept(f, g), f.done \subseteq g.done, f.cut \subseteq g.cut,
         \A j \in Items : j # i => Same(f, g, j), g.rows = f.rows
  PROVE  Eff(f, g, {i}) /\ \A v : HasRow(g.rows, i, v) <=> HasRow(f.rows, i, v)
<1>1. Grows(f.rows, g.rows, {i})
  BY SessionFields DEF Grows
<1>2. QED
  BY <1>1 DEF Eff

LEMMA EffRow ==
  ASSUME NEW f \in Sessions, NEW g \in Sessions, NEW i \in Items, Shape(f.rows),
         Kept(f, g), f.done \subseteq g.done, f.cut \subseteq g.cut,
         \A j \in Items : j # i => Same(f, g, j),
         NEW w, Adds(f.rows, g.rows, i, w)
  PROVE  /\ Eff(f, g, {i}) /\ HasAny(g.rows, i)
         /\ \A v : HasRow(g.rows, i, v) <=> HasRow(f.rows, i, v) \/ v = w
<1>1. /\ Shape(g.rows) /\ Grows(f.rows, g.rows, {i}) /\ HasRow(g.rows, i, w)
      /\ HasAny(g.rows, i)
      /\ \A j, v : HasRow(g.rows, j, v) => HasRow(f.rows, j, v) \/ (j = i /\ v = w)
  <2>1. i \in Items \cup {None}
    OBVIOUS
  <2>2. Shape(g.rows) /\ Grows(f.rows, g.rows, {i}) /\ HasRow(g.rows, i, w) /\ HasAny(g.rows, i)
    BY <2>1, AddRow
  <2>3. \A j, v : HasRow(g.rows, j, v) => HasRow(f.rows, j, v) \/ (j = i /\ v = w)
    <3> DEFINE q == f.rows
               r == g.rows
    <3> HIDE DEF q, r
    <3>1. Shape(q) /\ Adds(q, r, i, w)
      BY DEF q, r
    <3>2. \A j, v : HasRow(r, j, v) => HasRow(q, j, v) \/ (j = i /\ v = w)
      BY <2>1, <3>1, AddRow, ZenonT(30)
    <3>3. QED
      BY <3>2 DEF q, r
  <2>4. QED
    BY <2>2, <2>3
<1>2. \A j, v : HasRow(f.rows, j, v) => HasRow(g.rows, j, v)
  BY <1>1, GrowsHas, SessionFields
<1>3. QED
  BY <1>1, <1>2 DEF Eff

LEMMA SnapshotToolOK ==
  ASSUME NEW f \in Sessions, NEW i \in Items, NEW F, ItemOK(f, i, F), Shape(f.rows),
         i \notin f.done, Kind[i] \in {"tool", "shell"}, f.replaying => i \in F
  PROVE  LET g == SnapshotTool(f, i)
         IN /\ Eff(f, g, {i}) /\ ItemOK(g, i, F) /\ HasAny(g.rows, i)
            /\ g.done = f.done /\ g.text = f.text
<1> DEFINE g == SnapshotTool(f, i)
           w == IF i \in f.announced THEN "update" ELSE "create"
           sh == IF f.ver = 2 /\ Kind[i] = "shell" THEN f.shells \cup {i} ELSE f.shells
<1>1. /\ [f.role EXCEPT ![i] = "tool"] \in [Items -> Roles]
      /\ f.announced \cup {i} \in SUBSET Items /\ sh \in SUBSET Items
      /\ w \in Words /\ w \notin Single /\ Append(f.rows, <<i, w>>) \in Seq(Lines)
  BY SessionFields DEF Roles, Words, Lines, Single
<1>2. /\ g.role = [f.role EXCEPT ![i] = "tool"] /\ g.shells = sh
      /\ g.rows = Append(f.rows, <<i, w>>) /\ g.streamed = f.streamed /\ g.text = f.text
      /\ g.done = f.done /\ g.cut = f.cut /\ g.terminals = f.terminals
      /\ Kept(f, g)
  BY SessionFields DEF SnapshotTool, NoteShell, ToolLine, Row, HostItemRole, Sessions, Kept
<1>3. g \in Sessions
  BY <1>1, ZenonT(30) DEF SnapshotTool, NoteShell, ToolLine, Row, HostItemRole, Sessions
<1> HIDE DEF g
<1>4. \A j \in Items : j # i => Same(f, g, j)
  BY <1>2, SessionFields DEF Same
<1>5. Adds(f.rows, g.rows, i, w)
  <2>1. ~HasRow(f.rows, i, "final") /\ w # "exit"
    BY DEF ItemOK
  <2>2. QED
    BY <2>1, <1>1, <1>2 DEF Adds
<1> HIDE DEF w
<1>6. /\ Eff(f, g, {i}) /\ HasAny(g.rows, i)
      /\ \A v : HasRow(g.rows, i, v) <=> HasRow(f.rows, i, v) \/ v = w
  BY <1>2, <1>3, <1>4, <1>5, EffRow
<1>7. g.role[i] = "tool" /\ g.replaying = f.replaying
  BY <1>2, SessionFields DEF Kept
<1>8. TextOK(g, i)
  BY <1>2, <1>7 DEF TextOK, ItemOK
<1>9. ItemOK(g, i, F)
  BY <1>1, <1>2, <1>6, <1>7, <1>8 DEF ItemOK, Single
<1>10. QED
  BY <1>2, <1>6, <1>9 DEF g

LEMMA ClaimCutOffOK ==
  ASSUME NEW f \in Sessions, NEW x \in Frames, NEW F, ItemOK(f, x.item, F), Shape(f.rows)
  PROVE  LET g == ClaimCutOff(f, x)
         IN /\ Eff(f, g, {x.item}) /\ ItemOK(g, x.item, F)
            /\ g.done = f.done /\ g.text = f.text /\ g.role = f.role
<1> DEFINE i == x.item
           g == ClaimCutOff(f, x)
<1>0. i \in Items
  BY DEF Frames
<1>1. CASE ~(x.cut /\ i \notin f.cut)
  <2>1. g = f
    BY <1>1 DEF ClaimCutOff
  <2> HIDE DEF g, i
  <2>2. Kept(f, g) /\ \A j \in Items : Same(f, g, j)
    BY <2>1 DEF Kept, Same
  <2>3. Eff(f, g, {i})
    BY <1>0, <2>1, <2>2, EffNoRow
  <2>4. QED
    BY <2>1, <2>3 DEF g, i
<1>2. CASE x.cut /\ i \notin f.cut
  <2>1. /\ f.cut \cup {i} \in SUBSET Items /\ "mark" \in Words
        /\ Append(f.rows, <<i, "mark">>) \in Seq(Lines)
    BY <1>0, SessionFields DEF Words, Lines
  <2>2. /\ g.role = f.role /\ g.streamed = f.streamed /\ g.text = f.text /\ g.done = f.done
        /\ g.cut = f.cut \cup {i} /\ g.shells = f.shells /\ g.terminals = f.terminals
        /\ g.rows = Append(f.rows, <<i, "mark">>) /\ Kept(f, g)
    BY <1>2, SessionFields DEF ClaimCutOff, MarkLine, Row, Sessions, Kept
  <2>3. g \in Sessions
    BY <1>2, <2>1 DEF ClaimCutOff, MarkLine, Row, Sessions
  <2> HIDE DEF g, i
  <2>4. \A j \in Items : j # i => Same(f, g, j)
    BY <2>2 DEF Same
  <2>5. Adds(f.rows, g.rows, i, "mark")
    <3>1. ~HasRow(f.rows, i, "mark")
      BY <1>2 DEF ItemOK, i
    <3>2. QED
      BY <2>1, <2>2, <3>1 DEF Adds
  <2>6. /\ Eff(f, g, {i}) /\ HasAny(g.rows, i)
        /\ \A v : HasRow(g.rows, i, v) <=> HasRow(f.rows, i, v) \/ v = "mark"
    BY <1>0, <2>2, <2>3, <2>4, <2>5, EffRow
  <2>7. TextOK(g, i)
    BY <2>2 DEF TextOK, ItemOK, i
  <2>8. ItemOK(g, i, F)
    BY <2>2, <2>6, <2>7 DEF ItemOK, Kept, i
  <2>9. QED
    BY <2>2, <2>6, <2>8 DEF g, i
<1>3. QED
  BY <1>1, <1>2

\* Nothing done is a change too.
LEMMA EffSame ==
  ASSUME NEW f \in Sessions, NEW i \in Items, Shape(f.rows)
  PROVE  Eff(f, f, {i})
<1>1. Kept(f, f) /\ \A j \in Items : Same(f, f, j)
  BY DEF Kept, Same
<1>2. QED
  BY <1>1, EffNoRow

LEMMA EffTrans ==
  ASSUME NEW f \in Sessions, NEW g, NEW h, NEW A, NEW B, Eff(f, g, A), Eff(g, h, B)
  PROVE  Eff(f, h, A \cup B)
<1>1. g \in Sessions /\ h \in Sessions /\ Kept(f, h)
  BY DEF Eff, Kept
<1>2. f.done \subseteq h.done /\ f.cut \subseteq h.cut /\ Shape(h.rows)
  BY DEF Eff
<1>3. \A j \in Items : j \notin A \cup B => Same(f, h, j)
  BY DEF Eff, Same
<1>4. Grows(f.rows, h.rows, A \cup B)
  <2>1. f.rows \in Seq(Lines) /\ g.rows \in Seq(Lines) /\ h.rows \in Seq(Lines)
    BY <1>1, SessionFields
  <2>2. Grows(f.rows, g.rows, A) /\ Grows(g.rows, h.rows, B)
    BY DEF Eff
  <2>3. QED
    BY <2>1, <2>2, GrowsTrans
<1>5. QED
  BY <1>1, <1>2, <1>3, <1>4 DEF Eff

LEMMA EffTrans1 ==
  ASSUME NEW f \in Sessions, NEW g, NEW h, NEW i, Eff(f, g, {i}), Eff(g, h, {i})
  PROVE  Eff(f, h, {i})
<1>1. Eff(f, h, {i} \cup {i})
  BY EffTrans
<1>2. {i} \cup {i} = {i}
  OBVIOUS
<1>3. QED
  BY <1>1, <1>2

\* What Eff leaves alone stays in order.
LEMMA EffItem ==
  ASSUME NEW f \in Sessions, NEW g, NEW A, Eff(f, g, A), NEW j \in Items, j \notin A, NEW F,
         ItemOK(f, j, F)
  PROVE  ItemOK(g, j, F)
<1>1. Same(f, g, j) /\ Kept(f, g) /\ g \in Sessions
  BY DEF Eff
<1>2. (\A v : HasRow(g.rows, j, v) <=> HasRow(f.rows, j, v)) /\ (HasAny(g.rows, j) <=> HasAny(f.rows, j))
  BY <1>1, SessionFields, GrowsHas DEF Eff
<1>3. TextOK(g, j)
  BY <1>1 DEF TextOK, ItemOK, Same
<1>4. QED
  BY <1>1, <1>2, <1>3 DEF ItemOK, Same, Kept

LEMMA MarkCutOffOK ==
  ASSUME NEW f \in Sessions, NEW x \in Frames, NEW F, ItemOK(f, x.item, F), Shape(f.rows)
  PROVE  LET g == MarkCutOff(f, x)
         IN /\ Eff(f, g, {x.item}) /\ ItemOK(g, x.item, F)
            /\ g.done = f.done /\ g.text = f.text /\ g.role = f.role
<1>1. x.item \in Items
  BY DEF Frames
<1>2. CASE Markable(f, x.item)
  BY <1>2, ClaimCutOffOK DEF MarkCutOff
<1>3. CASE ~Markable(f, x.item)
  BY <1>1, <1>3, EffSame DEF MarkCutOff
<1>4. QED
  BY <1>2, <1>3

SetRole(f, i, rl) == [f EXCEPT !.role[i] = rl]

\* Nothing was settled, no text shown, and item i has role rl.
Calm(f, g, i, rl) == g.done = f.done /\ g.text = f.text /\ g.role[i] = rl

LEMMA SnapshotRoleOK ==
  ASSUME NEW f \in Sessions, NEW i \in Items, NEW F, ItemOK(f, i, F), Shape(f.rows),
         i \notin f.done, f.replaying => i \in F, NEW rl \in Roles,
         rl \in {"message", "thought"} => Kind[i] = rl,
         rl # Kind[i] => f.text[i] = <<>>,
         Kind[i] # "compaction", Kind[i] \notin Showing,
         NEW g, g = SetRole(f, i, rl)
  PROVE  Eff(f, g, {i}) /\ ItemOK(g, i, F) /\ Calm(f, g, i, rl)
<1> USE DEF SetRole, Calm
<1>1. [f.role EXCEPT ![i] = rl] \in [Items -> Roles]
  BY SessionFields
<1>2. /\ g.role = [f.role EXCEPT ![i] = rl] /\ g.shells = f.shells
      /\ g.rows = f.rows /\ g.streamed = f.streamed /\ g.text = f.text
      /\ g.done = f.done /\ g.cut = f.cut /\ g.terminals = f.terminals
      /\ Kept(f, g)
  BY SessionFields DEF Sessions, Kept
<1>3. g \in Sessions
  BY <1>1 DEF Sessions
<1>4. \A j \in Items : j # i => Same(f, g, j)
  BY <1>2, SessionFields DEF Same
<1>5. Eff(f, g, {i}) /\ \A v : HasRow(g.rows, i, v) <=> HasRow(f.rows, i, v)
  BY <1>2, <1>3, <1>4, EffNoRow
<1>6. g.role[i] = rl /\ g.replaying = f.replaying
  BY <1>2, SessionFields DEF Kept
<1>7. TextOK(g, i)
  BY <1>2, <1>6 DEF TextOK, ItemOK
<1>8. ItemOK(g, i, F)
  BY <1>2, <1>5, <1>6, <1>7 DEF ItemOK
<1>9. QED
  BY <1>2, <1>5, <1>6, <1>8

LEMMA LineOK ==
  ASSUME NEW f \in Sessions, NEW i \in Items, NEW F, ItemOK(f, i, F), Shape(f.rows),
         i \notin f.done, NEW w \in Words \ Single
  PROVE  LET g == Row(f, i, w)
         IN /\ Eff(f, g, {i}) /\ ItemOK(g, i, F) /\ HasAny(g.rows, i)
            /\ g.done = f.done /\ g.text = f.text /\ g.role = f.role /\ g.shells = f.shells
<1> DEFINE g == Row(f, i, w)
<1>1. w \in Words /\ w \notin Single /\ Append(f.rows, <<i, w>>) \in Seq(Lines)
  BY SessionFields DEF Lines
<1>2. /\ g.role = f.role /\ g.streamed = f.streamed /\ g.text = f.text /\ g.done = f.done
      /\ g.cut = f.cut /\ g.shells = f.shells /\ g.terminals = f.terminals
      /\ g.rows = Append(f.rows, <<i, w>>) /\ Kept(f, g)
  BY SessionFields DEF Row, Sessions, Kept
<1>3. g \in Sessions
  BY <1>1 DEF Row, Sessions
<1> HIDE DEF g
<1>4. \A j \in Items : j # i => Same(f, g, j)
  BY <1>2 DEF Same
<1>5. Adds(f.rows, g.rows, i, w)
  <2>1. ~HasRow(f.rows, i, "final") /\ w # "exit"
    BY <1>1 DEF ItemOK, Single
  <2>2. QED
    BY <2>1, <1>1, <1>2 DEF Adds
<1>6. /\ Eff(f, g, {i}) /\ HasAny(g.rows, i)
      /\ \A v : HasRow(g.rows, i, v) <=> HasRow(f.rows, i, v) \/ v = w
  BY <1>2, <1>3, <1>4, <1>5, EffRow
<1>7. TextOK(g, i)
  BY <1>2 DEF TextOK, ItemOK
<1>8. ItemOK(g, i, F)
  BY <1>1, <1>2, <1>6, <1>7 DEF ItemOK, Kept, Single
<1>9. QED
  BY <1>2, <1>6, <1>8 DEF g

\* A card that shows its line takes the role of its kind.
LEMMA HostItemRoleOK ==
  ASSUME NEW f \in Sessions, NEW i \in Items, NEW F, ItemOK(f, i, F), Shape(f.rows),
         i \notin f.done, Kind[i] = "card", f.replaying => i \in F
  PROVE  LET g == Row(HostItemRole(f, i), i, "create")
         IN /\ Eff(f, g, {i}) /\ ItemOK(g, i, F) /\ HasAny(g.rows, i)
            /\ g.done = f.done /\ g.text = f.text
<1> DEFINE g == Row(HostItemRole(f, i), i, "create")
<1>1. /\ [f.role EXCEPT ![i] = "tool"] \in [Items -> Roles]
      /\ "create" \in Words /\ "create" \notin Single
      /\ Append(f.rows, <<i, "create">>) \in Seq(Lines)
  BY SessionFields DEF Roles, Words, Lines, Single
<1>2. /\ g.role = [f.role EXCEPT ![i] = "tool"] /\ g.shells = f.shells
      /\ g.rows = Append(f.rows, <<i, "create">>) /\ g.streamed = f.streamed /\ g.text = f.text
      /\ g.done = f.done /\ g.cut = f.cut /\ g.terminals = f.terminals
      /\ Kept(f, g)
  BY SessionFields DEF Row, HostItemRole, Sessions, Kept
<1>3. g \in Sessions
  BY <1>1 DEF Row, HostItemRole, Sessions
<1> HIDE DEF g
<1>4. \A j \in Items : j # i => Same(f, g, j)
  BY <1>2, SessionFields DEF Same
<1>5. Adds(f.rows, g.rows, i, "create")
  <2>1. ~HasRow(f.rows, i, "final")
    BY DEF ItemOK
  <2>2. QED
    BY <2>1, <1>1, <1>2 DEF Adds
<1>6. /\ Eff(f, g, {i}) /\ HasAny(g.rows, i)
      /\ \A v : HasRow(g.rows, i, v) <=> HasRow(f.rows, i, v) \/ v = "create"
  BY <1>2, <1>3, <1>4, <1>5, EffRow
<1>7. g.role[i] = "tool" /\ g.replaying = f.replaying
  BY <1>2, SessionFields DEF Kept
<1>8. TextOK(g, i)
  BY <1>2, <1>7 DEF TextOK, ItemOK
<1>9. ItemOK(g, i, F)
  BY <1>1, <1>2, <1>6, <1>7, <1>8 DEF ItemOK
<1>10. QED
  BY <1>2, <1>6, <1>9 DEF g

LEMMA MonitorCardOK ==
  ASSUME NEW f \in Sessions, NEW i \in Items, NEW F, ItemOK(f, i, F), Shape(f.rows),
         i \notin f.done, Kind[i] = "monitor", f.replaying => i \in F
  PROVE  LET g == MonitorCard(f, i, "update")
         IN /\ Eff(f, g, {i}) /\ ItemOK(g, i, F) /\ HasAny(g.rows, i)
            /\ g.done = f.done /\ g.text = f.text
<1> DEFINE g == MonitorCard(f, i, "update")
           w == IF i \in f.monitors THEN "update" ELSE "create"
<1>1. /\ [f.role EXCEPT ![i] = "monitor"] \in [Items -> Roles]
      /\ f.monitors \cup {i} \in SUBSET Items
      /\ w \in Words /\ w \notin Single /\ w # "exit" /\ Append(f.rows, <<i, w>>) \in Seq(Lines)
  BY SessionFields DEF Roles, Words, Lines, Single
<1>2. /\ g.role = [f.role EXCEPT ![i] = "monitor"] /\ g.shells = f.shells
      /\ g.rows = Append(f.rows, <<i, w>>) /\ g.streamed = f.streamed /\ g.text = f.text
      /\ g.done = f.done /\ g.cut = f.cut /\ g.terminals = f.terminals
      /\ Kept(f, g)
  BY SessionFields DEF MonitorCard, CardLine, Row, Sessions, Kept
<1>3. g \in Sessions
  BY <1>1 DEF MonitorCard, CardLine, Row, Sessions
<1> HIDE DEF g
<1>4. \A j \in Items : j # i => Same(f, g, j)
  BY <1>2, SessionFields DEF Same
<1>5. Adds(f.rows, g.rows, i, w)
  <2>1. ~HasRow(f.rows, i, "final")
    BY DEF ItemOK
  <2>2. QED
    BY <2>1, <1>1, <1>2 DEF Adds
<1> HIDE DEF w
<1>6. /\ Eff(f, g, {i}) /\ HasAny(g.rows, i)
      /\ \A v : HasRow(g.rows, i, v) <=> HasRow(f.rows, i, v) \/ v = w
  BY <1>2, <1>3, <1>4, <1>5, EffRow
<1>7. g.role[i] = "monitor" /\ g.replaying = f.replaying
  BY <1>2, SessionFields DEF Kept
<1>8. TextOK(g, i)
  BY <1>2, <1>7 DEF TextOK, ItemOK
<1>9. ItemOK(g, i, F)
  BY <1>1, <1>2, <1>6, <1>7, <1>8 DEF ItemOK, Single
<1>10. QED
  BY <1>2, <1>6, <1>9 DEF g

\* item/started and item/updated change the item, and show its card.
LEMMA OnItemSnapshotOK ==
  ASSUME NEW f \in Sessions, NEW x \in Frames, NEW F, ItemOK(f, x.item, F), Shape(f.rows),
         f.replaying => x.item \in F
  PROVE  LET g == OnItemSnapshot(f, x)
         IN /\ Eff(f, g, {x.item}) /\ ItemOK(g, x.item, F)
            /\ Kind[x.item] \in Showing => HasAny(g.rows, x.item)
            /\ g.done = f.done /\ g.text = f.text
            /\ Kind[x.item] = "message" /\ x.item \notin f.done => g.role[x.item] = "message"
<1> DEFINE i == x.item
           g == OnItemSnapshot(f, x)
<1>0. i \in Items /\ Kind[i] \in Kinds
  BY TranscriptAssumption DEF Frames
<1>1. CASE Known(f, i)
  <2>1. g = MarkCutOff(f, x) /\ i \in f.done
    BY <1>1 DEF OnItemSnapshot, Known
  <2>2. Eff(f, g, {i}) /\ ItemOK(g, i, F) /\ g.done = f.done /\ g.text = f.text
    BY <2>1, MarkCutOffOK
  <2>3. Kind[i] \in Showing => HasAny(g.rows, i)
    BY <2>1, <2>2 DEF ItemOK
  <2>4. QED
    BY <2>1, <2>2, <2>3
<1>2. CASE ~Known(f, i)
  <2>0. i \notin f.done
    BY <1>2 DEF Known
  <2>1. CASE Kind[i] = "message"
    <3> DEFINE h == SetRole(f, i, "message")
    <3>0. h = SetRole(f, i, "message")
      OBVIOUS
    <3> HIDE DEF h
    <3>1. g = MarkCutOff(h, x)
      BY <1>2, <2>1 DEF OnItemSnapshot, SnapshotMessage, h, SetRole
    <3>2. Eff(f, h, {i}) /\ ItemOK(h, i, F) /\ h.done = f.done /\ h.text = f.text /\ h.role[i] = "message"
      <4> DEFINE rl == "message"
      <4>1. rl \in Roles /\ Kind[i] \notin Showing /\ rl = Kind[i] /\ Kind[i] # "compaction"
        BY <2>1 DEF Roles, Showing
      <4>2. h = SetRole(f, i, rl)
        BY <3>0
      <4> HIDE DEF rl
      <4>3. Eff(f, h, {i}) /\ ItemOK(h, i, F) /\ Calm(f, h, i, rl)
        BY <1>0, <2>0, <4>1, <4>2, SnapshotRoleOK
      <4>4. QED
        BY <4>3 DEF Calm, rl
    <3>3. h \in Sessions /\ Shape(h.rows)
      BY <3>2 DEF Eff
    <3>4. Eff(h, g, {i}) /\ ItemOK(g, i, F) /\ g.done = h.done /\ g.text = h.text /\ g.role = h.role
      BY <3>1, <3>2, <3>3, MarkCutOffOK
    <3>5. Eff(f, g, {i})
      BY <3>2, <3>4, EffTrans1
    <3>6. QED
      BY <2>1, <3>2, <3>4, <3>5 DEF Showing
  <2>2. CASE Kind[i] = "thought"
    <3> DEFINE rl == "thought"
    <3>1. g = SetRole(f, i, rl)
      BY <1>2, <2>2 DEF OnItemSnapshot, SnapshotThought, SetRole
    <3>2. rl \in Roles /\ Kind[i] \notin Showing /\ rl = Kind[i] /\ Kind[i] # "compaction"
      BY <2>2 DEF Roles, Showing
    <3> HIDE DEF rl, g
    <3>3. Eff(f, g, {i}) /\ ItemOK(g, i, F) /\ Calm(f, g, i, rl)
      BY <1>0, <2>0, <3>1, <3>2, SnapshotRoleOK
    <3>4. QED
      BY <2>2, <3>2, <3>3 DEF g, Calm
  <2>3. CASE Kind[i] \in {"tool", "shell"}
    <3>1. g = SnapshotTool(f, i)
      BY <1>2, <2>3 DEF OnItemSnapshot
    <3>2. QED
      BY <1>0, <2>0, <2>3, <3>1, SnapshotToolOK
  <2>4. CASE Kind[i] = "card"
    <3>1. g = Row(HostItemRole(f, i), i, "create")
      BY <1>2, <2>4 DEF OnItemSnapshot, SnapshotCard, Titled, CardLine
    <3>2. QED
      BY <1>0, <2>0, <2>4, <3>1, HostItemRoleOK
  <2>5. CASE Kind[i] \in {"untitled", "silent"}
    <3> DEFINE rl == IF f.role[i] = "none" THEN "ignored" ELSE f.role[i]
    <3>1. g = SetRole(f, i, rl)
      BY <1>0, <1>2, <2>5, SessionFields
         DEF OnItemSnapshot, SnapshotCard, SnapshotSilent, Titled, SetRole
    <3>2. rl \in Roles /\ "untitled" \notin Showing /\ "silent" \notin Showing
      BY <1>0, SessionFields DEF Roles, Showing
    <3>3. rl \in {"message", "thought"} => Kind[i] = rl
      BY DEF ItemOK
    <3>4. f.text[i] = <<>>
      BY <2>5 DEF ItemOK, TextOK
    <3> HIDE DEF rl, g
    <3>5. Eff(f, g, {i}) /\ ItemOK(g, i, F) /\ Calm(f, g, i, rl)
      <4>1. /\ Kind[i] # "compaction" /\ Kind[i] \notin Showing
            /\ rl # Kind[i] => f.text[i] = <<>>
        BY <2>5, <3>2, <3>4
      <4>2. QED
        BY <1>0, <2>0, <3>1, <3>2, <3>3, <4>1, SnapshotRoleOK
    <3>6. QED
      BY <2>5, <3>2, <3>5 DEF g, Calm
  <2>6. CASE Kind[i] = "compaction"
    <3>1. g = Row(f, i, "update") /\ "update" \in Words \ Single
      BY <1>2, <2>6 DEF OnItemSnapshot, CompactionLine, Words, Single
    <3>2. QED
      BY <1>0, <2>0, <2>6, <3>1, LineOK
  <2>7. CASE Kind[i] = "monitor"
    <3>1. g = MonitorCard(f, i, "update")
      BY <1>2, <2>7 DEF OnItemSnapshot
    <3>2. QED
      BY <1>0, <2>0, <2>7, <3>1, MonitorCardOK
  <2>8. QED
    BY <1>0, <2>1, <2>2, <2>3, <2>4, <2>5, <2>6, <2>7 DEF Kinds
<1>3. QED
  BY <1>1, <1>2

\* No piece from n on is in the text of item i.
Below(f, i, n) == \A p \in 1 .. Len(f.text[i]) : f.text[i][p] < n

\* The text of item i is as it was, or one piece longer.
Shown(f, g, i, n) ==
  g.done = f.done /\ (g.text = f.text \/ g.text = [f.text EXCEPT ![i] = Append(f.text[i], n)])

LEMMA ShownSame ==
  ASSUME NEW f, NEW i, NEW n
  PROVE  Shown(f, f, i, n)
BY DEF Shown

\* A sequence of numbers that increases, and one more.
LEMMA Increases ==
  ASSUME NEW q \in Seq(Nat), NEW n \in Nat,
         \A a, b \in 1 .. Len(q) : a < b => q[a] < q[b],
         \A a \in 1 .. Len(q) : q[a] < n
  PROVE  LET r == Append(q, n)
         IN /\ r \in Seq(Nat) /\ r # <<>> /\ \A a, b \in 1 .. Len(r) : a < b => r[a] < r[b]
<1> DEFINE r == Append(q, n)
<1>1. r \in Seq(Nat) /\ Len(q) \in Nat /\ Len(r) = Len(q) + 1 /\ r[Len(q) + 1] = n
  OBVIOUS
<1>2. \A a \in 1 .. Len(q) : r[a] = q[a]
  OBVIOUS
<1>3. r # <<>>
  BY <1>1
<1> HIDE DEF r
<1>4. \A a, b \in 1 .. Len(r) : a < b => r[a] < r[b]
  <2> TAKE a \in 1 .. Len(r), b \in 1 .. Len(r)
  <2> HAVE a < b
  <2>1. a \in 1 .. Len(q) /\ r[a] = q[a]
    BY <1>1, <1>2, SMTT(30)
  <2>2. CASE b \in 1 .. Len(q)
    BY <2>1, <2>2, <1>2
  <2>3. CASE b = Len(q) + 1
    BY <2>1, <2>3, <1>1
  <2>4. QED
    BY <1>1, <2>2, <2>3, SMTT(30)
<1>5. QED
  BY <1>1, <1>3, <1>4 DEF r

LEMMA OpenTerminalOK ==
  ASSUME NEW f \in Sessions, NEW i \in Items, NEW F, ItemOK(f, i, F), Shape(f.rows),
         i \notin f.done, i \in f.shells
  PROVE  LET g == OpenTerminal(f, i)
         IN /\ Eff(f, g, {i}) /\ ItemOK(g, i, F) /\ Calm(f, g, i, f.role[i])
            /\ g.cut = f.cut /\ i \in g.terminals /\ i \in g.shells
<1> DEFINE g == OpenTerminal(f, i)
<1>1. CASE i \in f.terminals
  <2>1. g = f
    BY <1>1 DEF OpenTerminal
  <2> HIDE DEF g
  <2>2. QED
    BY <1>1, <2>1, EffSame DEF g, Calm
<1>2. CASE i \notin f.terminals
  <2>1. /\ f.terminals \cup {i} \in SUBSET Items /\ "open" \in Words
        /\ Append(f.rows, <<i, "open">>) \in Seq(Lines)
    BY SessionFields DEF Words, Lines
  <2>2. /\ g.role = f.role /\ g.streamed = f.streamed /\ g.text = f.text /\ g.done = f.done
        /\ g.cut = f.cut /\ g.shells = f.shells /\ g.terminals = f.terminals \cup {i}
        /\ g.rows = Append(f.rows, <<i, "open">>) /\ Kept(f, g)
    BY <1>2, SessionFields DEF OpenTerminal, TerminalLine, Row, Sessions, Kept
  <2>3. g \in Sessions
    BY <1>2, <2>1 DEF OpenTerminal, TerminalLine, Row, Sessions
  <2> HIDE DEF g
  <2>4. \A j \in Items : j # i => Same(f, g, j)
    BY <2>2 DEF Same
  <2>5. Adds(f.rows, g.rows, i, "open")
    <3>1. ~HasRow(f.rows, i, "open") /\ ~HasRow(f.rows, i, "final")
      BY <1>2 DEF ItemOK
    <3>2. QED
      BY <2>1, <2>2, <3>1 DEF Adds
  <2>6. /\ Eff(f, g, {i}) /\ HasAny(g.rows, i)
        /\ \A v : HasRow(g.rows, i, v) <=> HasRow(f.rows, i, v) \/ v = "open"
    BY <2>2, <2>3, <2>4, <2>5, EffRow
  <2>7. TextOK(g, i)
    BY <2>2 DEF TextOK, ItemOK
  <2>8. ItemOK(g, i, F)
    BY <2>2, <2>6, <2>7 DEF ItemOK, Kept
  <2>9. QED
    BY <2>2, <2>6, <2>8 DEF g, Calm
<1>3. QED
  BY <1>1, <1>2

LEMMA OutputOK ==
  ASSUME NEW f \in Sessions, NEW i \in Items, NEW F, ItemOK(f, i, F), Shape(f.rows),
         i \notin f.done
  PROVE  LET g == Output(f, i)
         IN /\ Eff(f, g, {i}) /\ ItemOK(g, i, F) /\ Calm(f, g, i, f.role[i])
<1> DEFINE g == Output(f, i)
<1>1. CASE ~(f.streamed[i] < Budget)
  <2>1. g = f
    BY <1>1 DEF Output
  <2> HIDE DEF g
  <2>2. QED
    BY <2>1, EffSame DEF g, Calm
<1>2. CASE f.streamed[i] < Budget
  <2>1. /\ [f.streamed EXCEPT ![i] = f.streamed[i] + 1] \in [Items -> Nat] /\ "output" \in Words
        /\ Append(f.rows, <<i, "output">>) \in Seq(Lines)
    BY SessionFields DEF Words, Lines
  <2>2. /\ g.role = f.role /\ g.streamed = [f.streamed EXCEPT ![i] = f.streamed[i] + 1]
        /\ g.text = f.text /\ g.done = f.done
        /\ g.cut = f.cut /\ g.shells = f.shells /\ g.terminals = f.terminals
        /\ g.rows = Append(f.rows, <<i, "output">>) /\ Kept(f, g)
    BY <1>2, SessionFields DEF Output, TerminalLine, Row, Sessions, Kept
  <2>3. g \in Sessions
    BY <1>2, <2>1 DEF Output, TerminalLine, Row, Sessions
  <2> HIDE DEF g
  <2>4. \A j \in Items : j # i => Same(f, g, j)
    BY <2>2, SessionFields DEF Same
  <2>5. Adds(f.rows, g.rows, i, "output")
    <3>1. ~HasRow(f.rows, i, "final")
      BY <1>2 DEF ItemOK
    <3>2. QED
      BY <2>1, <2>2, <3>1 DEF Adds, Single
  <2>6. /\ Eff(f, g, {i}) /\ HasAny(g.rows, i)
        /\ \A v : HasRow(g.rows, i, v) <=> HasRow(f.rows, i, v) \/ v = "output"
    BY <2>2, <2>3, <2>4, <2>5, EffRow
  <2>7. TextOK(g, i)
    <3>1. g.streamed[i] = f.streamed[i] + 1 /\ f.streamed[i] \in Nat
      BY <2>2, SessionFields
    <3>2. f.streamed[i] > 0 => g.streamed[i] > 0
      BY <3>1
    <3>3. QED
      BY <2>2, <3>2 DEF TextOK, ItemOK
  <2>8. ItemOK(g, i, F)
    BY <2>2, <2>6, <2>7 DEF ItemOK, Kept
  <2>9. QED
    BY <2>2, <2>6, <2>8 DEF g, Calm
<1>3. QED
  BY <1>1, <1>2

\* A piece of a message or of a thought.
LEMMA ChunkOK ==
  ASSUME NEW f \in Sessions, NEW i \in Items, NEW F, ItemOK(f, i, F), Shape(f.rows),
         NEW n \in Nat, f.role[i] \in {"message", "thought"}, Below(f, i, n),
         NEW g \in Sessions, Kept(f, g), g.role = f.role, g.done = f.done, g.cut = f.cut,
         g.shells = f.shells, g.terminals = f.terminals,
         g.streamed = [f.streamed EXCEPT ![i] = f.streamed[i] + 1],
         g.text = [f.text EXCEPT ![i] = Append(f.text[i], n)],
         g.rows = Append(f.rows, <<i, "chunk">>)
  PROVE  Eff(f, g, {i}) /\ ItemOK(g, i, F) /\ Shown(f, g, i, n)
<1>0. i \notin f.done /\ Kind[i] \in {"message", "thought"} /\ Kind[i] = f.role[i]
  BY DEF ItemOK
<1>1. \A j \in Items : j # i => Same(f, g, j)
  BY SessionFields, SMTT(30) DEF Same
<1>2. Adds(f.rows, g.rows, i, "chunk")
  <2>1. ~HasRow(f.rows, i, "final")
    BY <1>0 DEF ItemOK
  <2>2. QED
    BY <2>1 DEF Adds, Single, Words
<1>3. /\ Eff(f, g, {i}) /\ HasAny(g.rows, i)
      /\ \A v : HasRow(g.rows, i, v) <=> HasRow(f.rows, i, v) \/ v = "chunk"
  <2>1. f.done \subseteq g.done /\ f.cut \subseteq g.cut
    OBVIOUS
  <2>2. QED
    BY <1>1, <1>2, <2>1, EffRow
<1>4. TextOK(g, i)
  <2>1. g.streamed[i] = f.streamed[i] + 1 /\ f.streamed[i] \in Nat /\ g.role[i] = Kind[i]
    BY <1>0, SessionFields
  <2>2. g.streamed[i] > 0
    BY <2>1
  <2>3. g.text[i] = Append(f.text[i], n) /\ f.text[i] \in Seq(Nat)
    BY SessionFields
  <2>4. \A a, b \in 1 .. Len(f.text[i]) : a < b => f.text[i][a] < f.text[i][b]
    BY DEF ItemOK, TextOK
  <2>5. \A a, b \in 1 .. Len(g.text[i]) : a < b => g.text[i][a] < g.text[i][b]
    BY <2>3, <2>4, Increases DEF Below
  <2>6. QED
    BY <1>0, <2>1, <2>2, <2>5 DEF TextOK
<1>5. ItemOK(g, i, F)
  BY <1>3, <1>4 DEF ItemOK, Kept
<1>6. QED
  BY <1>3, <1>5 DEF Shown

LEMMA DeltaTextOK ==
  ASSUME NEW f \in Sessions, NEW i \in Items, NEW F, ItemOK(f, i, F), Shape(f.rows),
         NEW n \in Nat, i \in f.done \/ Below(f, i, n)
  PROVE  LET g == DeltaText(f, i, n)
         IN Eff(f, g, {i}) /\ ItemOK(g, i, F) /\ Shown(f, g, i, n)
<1> DEFINE g == DeltaText(f, i, n)
<1>1. CASE f.role[i] = "message"
  <2>1. /\ [f.streamed EXCEPT ![i] = f.streamed[i] + 1] \in [Items -> Nat]
        /\ [f.text EXCEPT ![i] = Append(f.text[i], n)] \in [Items -> Seq(Nat)]
        /\ Append(f.rows, <<i, "chunk">>) \in Seq(Lines)
    BY SessionFields DEF Words, Lines
  <2>2. /\ g.role = f.role /\ g.streamed = [f.streamed EXCEPT ![i] = f.streamed[i] + 1]
        /\ g.text = [f.text EXCEPT ![i] = Append(f.text[i], n)] /\ g.done = f.done
        /\ g.cut = f.cut /\ g.shells = f.shells /\ g.terminals = f.terminals
        /\ g.rows = Append(f.rows, <<i, "chunk">>) /\ Kept(f, g)
    BY <1>1, SessionFields DEF DeltaText, ChunkLine, Row, Sessions, Kept
  <2>3. g \in Sessions
    BY <1>1, <2>1 DEF DeltaText, ChunkLine, Row, Sessions
  <2>4. i \notin f.done
    BY <1>1 DEF ItemOK
  <2> HIDE DEF g
  <2>5. f.role[i] \in {"message", "thought"} /\ Below(f, i, n)
    BY <1>1, <2>4
  <2>6. Eff(f, g, {i}) /\ ItemOK(g, i, F) /\ Shown(f, g, i, n)
    BY <2>2, <2>3, <2>5, ChunkOK
  <2>7. QED
    BY <2>6 DEF g
<1>2. CASE f.role[i] = "monitor"
  <2>1. g = Row(f, i, "update") /\ "update" \in Words \ Single
    BY <1>2 DEF DeltaText, CardLine, Words, Single
  <2>2. i \notin f.done
    BY <1>2 DEF ItemOK
  <2>3. Eff(f, g, {i}) /\ ItemOK(g, i, F) /\ g.done = f.done /\ g.text = f.text
    BY <2>1, <2>2, LineOK
  <2>4. QED
    BY <2>3 DEF Shown
<1>3. CASE f.role[i] \notin {"message", "monitor"}
  <2>1. g = f
    BY <1>3 DEF DeltaText
  <2> HIDE DEF g
  <2>2. QED
    BY <2>1, EffSame, ShownSame DEF g
<1>4. QED
  BY <1>1, <1>2, <1>3

LEMMA DeltaSummaryOK ==
  ASSUME NEW f \in Sessions, NEW i \in Items, NEW F, ItemOK(f, i, F), Shape(f.rows),
         NEW n \in Nat, i \in f.done \/ Below(f, i, n)
  PROVE  LET g == DeltaSummary(f, i, n)
         IN Eff(f, g, {i}) /\ ItemOK(g, i, F) /\ Shown(f, g, i, n)
<1> DEFINE g == DeltaSummary(f, i, n)
<1>1. CASE ~(f.role[i] # "thought" \/ n < f.part[i])
  <2>1. /\ [f.streamed EXCEPT ![i] = f.streamed[i] + 1] \in [Items -> Nat]
        /\ [f.text EXCEPT ![i] = Append(f.text[i], n)] \in [Items -> Seq(Nat)]
        /\ [f.part EXCEPT ![i] = n] \in [Items -> Nat]
        /\ Append(f.rows, <<i, "chunk">>) \in Seq(Lines)
    BY SessionFields DEF Words, Lines
  <2>2. /\ g.role = f.role /\ g.streamed = [f.streamed EXCEPT ![i] = f.streamed[i] + 1]
        /\ g.text = [f.text EXCEPT ![i] = Append(f.text[i], n)] /\ g.done = f.done
        /\ g.cut = f.cut /\ g.shells = f.shells /\ g.terminals = f.terminals
        /\ g.rows = Append(f.rows, <<i, "chunk">>) /\ Kept(f, g)
    BY <1>1, SessionFields DEF DeltaSummary, ChunkLine, Row, Sessions, Kept
  <2>3. g \in Sessions
    BY <1>1, <2>1 DEF DeltaSummary, ChunkLine, Row, Sessions
  <2>4. i \notin f.done
    BY <1>1 DEF ItemOK
  <2> HIDE DEF g
  <2>5. f.role[i] \in {"message", "thought"} /\ Below(f, i, n)
    BY <1>1, <2>4
  <2>6. Eff(f, g, {i}) /\ ItemOK(g, i, F) /\ Shown(f, g, i, n)
    BY <2>2, <2>3, <2>5, ChunkOK
  <2>7. QED
    BY <2>6 DEF g
<1>2. CASE f.role[i] # "thought" \/ n < f.part[i]
  <2>1. g = f
    BY <1>2 DEF DeltaSummary
  <2> HIDE DEF g
  <2>2. QED
    BY <2>1, EffSame, ShownSame DEF g
<1>3. QED
  BY <1>1, <1>2

LEMMA DeltaOutputOK ==
  ASSUME NEW f \in Sessions, NEW i \in Items, NEW F, ItemOK(f, i, F), Shape(f.rows), NEW n
  PROVE  LET g == DeltaOutput(f, i)
         IN Eff(f, g, {i}) /\ ItemOK(g, i, F) /\ Shown(f, g, i, n)
<1> DEFINE g == DeltaOutput(f, i)
<1>1. CASE i \in f.shells
  <2> DEFINE h == OpenTerminal(f, i)
  <2>1. g = Output(h, i)
    BY <1>1 DEF DeltaOutput
  <2>2. i \notin f.done
    BY <1>1 DEF ItemOK
  <2>3. Eff(f, h, {i}) /\ ItemOK(h, i, F) /\ Calm(f, h, i, f.role[i])
    BY <1>1, <2>2, OpenTerminalOK
  <2> HIDE DEF h, g
  <2>4. h \in Sessions /\ Shape(h.rows) /\ i \notin h.done
    BY <2>2, <2>3 DEF Eff, Calm
  <2>5. Eff(h, g, {i}) /\ ItemOK(g, i, F) /\ Calm(h, g, i, h.role[i])
    BY <2>1, <2>3, <2>4, OutputOK
  <2>6. Eff(f, g, {i}) /\ Shown(f, g, i, n)
    BY <2>3, <2>5, EffTrans1 DEF Calm, Shown
  <2>7. QED
    BY <2>5, <2>6 DEF g
<1>2. CASE i \notin f.shells /\ f.ver = 2 /\ f.role[i] = "tool"
  <2>1. g = Output(f, i)
    BY <1>2 DEF DeltaOutput
  <2>2. i \notin f.done
    BY <1>2 DEF ItemOK
  <2> HIDE DEF g
  <2>3. Eff(f, g, {i}) /\ ItemOK(g, i, F) /\ Calm(f, g, i, f.role[i])
    BY <2>1, <2>2, OutputOK
  <2>4. QED
    BY <2>3 DEF g, Calm, Shown
<1>3. CASE i \notin f.shells /\ ~(f.ver = 2 /\ f.role[i] = "tool")
  <2>1. g = f
    BY <1>3 DEF DeltaOutput
  <2> HIDE DEF g
  <2>2. QED
    BY <2>1, EffSame, ShownSame DEF g
<1>4. QED
  BY <1>1, <1>2, <1>3

\* A delta adds at most its own piece to the text.
LEMMA OnItemDeltaOK ==
  ASSUME NEW f \in Sessions, NEW i \in Items, NEW F, ItemOK(f, i, F), Shape(f.rows),
         NEW n \in Nat, i \in f.done \/ Below(f, i, n)
  PROVE  LET g == OnItemDelta(f, i, n)
         IN Eff(f, g, {i}) /\ ItemOK(g, i, F) /\ Shown(f, g, i, n)
<1>1. CASE Kind[i] \in {"tool", "shell"}
  BY <1>1, DeltaOutputOK DEF OnItemDelta
<1>2. CASE Kind[i] = "thought"
  BY <1>2, DeltaSummaryOK DEF OnItemDelta
<1>3. CASE Kind[i] \notin {"tool", "shell", "thought"}
  BY <1>3, DeltaTextOK DEF OnItemDelta
<1>4. QED
  BY <1>1, <1>2, <1>3

\* The whole text of n pieces.
Whole(n) == [k \in 1 .. n |-> k]

\* The text of item i is as it was, or it was empty and is whole.
Told(f, g, i, n) ==
  g.text = f.text \/ (f.text[i] = <<>> /\ g.text = [f.text EXCEPT ![i] = Whole(n)])

\* Item x.item has settled.
Closes(f, g, x) == g.done = f.done \cup {x.item} /\ Told(f, g, x.item, x.total)

LEMMA WholeIs ==
  ASSUME NEW n \in Nat
  PROVE  /\ Whole(n) \in Seq(Nat) /\ Len(Whole(n)) = n /\ <<>> \o Whole(n) = Whole(n)
         /\ \A k \in 1 .. n : Whole(n)[k] = k
BY DEF Whole

LEMMA WholeIncreases ==
  ASSUME NEW n \in Nat
  PROVE  \A p, q \in 1 .. Len(Whole(n)) : p < q => Whole(n)[p] < Whole(n)[q]
<1> TAKE p \in 1 .. Len(Whole(n)), q \in 1 .. Len(Whole(n))
<1> HAVE p < q
<1>1. p \in 1 .. n /\ q \in 1 .. n
  BY WholeIs
<1>2. QED
  BY <1>1, WholeIs

\* An item that is done, off the screen's terminals and of no role is in order, with its
\* final row or without.
LEMMA SettledOK ==
  ASSUME NEW f \in Sessions, NEW g \in Sessions, NEW i \in Items, NEW F, NEW n \in Nat,
         Shape(f.rows), Kept(f, g), g.done = f.done \cup {i}, g.cut = f.cut,
         \A j \in Items : j # i => Same(f, g, j),
         g.role[i] = "none", i \notin g.shells, i \notin g.terminals,
         TextOK(f, i), Told(f, g, i, n), Kind[i] \in {"message", "thought"} \/ g.text = f.text,
         ~HasRow(f.rows, i, "final"), HasRow(f.rows, i, "mark") => i \in f.cut,
         \/ g.rows = f.rows /\ Kind[i] \notin Showing
         \/ g.rows = Append(f.rows, <<i, "final">>)
  PROVE  Eff(f, g, {i}) /\ ItemOK(g, i, F)
<1>1. TextOK(g, i)
  <2>1. CASE g.text = f.text
    BY <2>1 DEF TextOK
  <2>2. CASE g.text # f.text
    <3>1. g.text[i] = Whole(n)
      BY <2>2, SessionFields DEF Told
    <3>2. QED
      BY <2>2, <3>1, WholeIncreases DEF TextOK
  <2>3. QED
    BY <2>1, <2>2
<1>2. f.done \subseteq g.done /\ f.cut \subseteq g.cut /\ i \in g.done
  OBVIOUS
<1>3. CASE g.rows = f.rows /\ Kind[i] \notin Showing
  <2>1. Eff(f, g, {i}) /\ \A v : HasRow(g.rows, i, v) <=> HasRow(f.rows, i, v)
    BY <1>2, <1>3, EffNoRow
  <2>2. ItemOK(g, i, F)
    BY <1>1, <1>2, <1>3, <2>1 DEF ItemOK
  <2>3. QED
    BY <2>1, <2>2
<1>4. CASE g.rows = Append(f.rows, <<i, "final">>)
  <2>1. Adds(f.rows, g.rows, i, "final")
    BY <1>4 DEF Adds, Words
  <2>2. /\ Eff(f, g, {i}) /\ HasAny(g.rows, i)
        /\ \A v : HasRow(g.rows, i, v) <=> HasRow(f.rows, i, v) \/ v = "final"
    BY <1>2, <2>1, EffRow
  <2>3. ItemOK(g, i, F)
    BY <1>1, <1>2, <2>2 DEF ItemOK
  <2>4. QED
    BY <2>2, <2>3
<1>5. QED
  BY <1>3, <1>4

\* A tool's terminal is closed before its final row.
FinishedTerminal(f, h, i) ==
  /\ Eff(f, h, {i}) /\ h.done = f.done /\ h.text = f.text /\ h.cut = f.cut
  /\ i \notin h.shells /\ i \notin h.terminals
  /\ ~HasRow(h.rows, i, "final") /\ (HasRow(h.rows, i, "mark") => i \in h.cut)
  /\ TextOK(h, i)

LEMMA NoteShellOK ==
  ASSUME NEW f \in Sessions, NEW i \in Items, NEW F, ItemOK(f, i, F), Shape(f.rows),
         i \notin f.done, ~f.replaying
  PROVE  LET h == NoteShell(f, i)
         IN Eff(f, h, {i}) /\ ItemOK(h, i, F) /\ Calm(f, h, i, f.role[i]) /\ h.cut = f.cut
<1> DEFINE h == NoteShell(f, i)
<1>1. CASE f.ver = 2 /\ Kind[i] = "shell"
  <2>1. /\ h.role = f.role /\ h.streamed = f.streamed /\ h.text = f.text /\ h.done = f.done
        /\ h.cut = f.cut /\ h.shells = f.shells \cup {i} /\ h.terminals = f.terminals
        /\ h.rows = f.rows /\ Kept(f, h)
    BY <1>1, SessionFields DEF NoteShell, Sessions, Kept
  <2>2. h \in Sessions
    <3>1. f.shells \cup {i} \in SUBSET Items
      BY SessionFields
    <3>2. QED
      BY <1>1, <3>1 DEF NoteShell, Sessions
  <2> HIDE DEF h
  <2>3. \A j \in Items : j # i => Same(f, h, j)
    BY <2>1 DEF Same
  <2>4. Eff(f, h, {i}) /\ \A v : HasRow(h.rows, i, v) <=> HasRow(f.rows, i, v)
    BY <2>1, <2>2, <2>3, EffNoRow
  <2>5. TextOK(h, i)
    BY <2>1 DEF TextOK, ItemOK
  <2>6. ItemOK(h, i, F)
    BY <1>1, <2>1, <2>4, <2>5 DEF ItemOK, Kept
  <2>7. QED
    BY <2>1, <2>4, <2>6 DEF Calm, h
<1>2. CASE ~(f.ver = 2 /\ Kind[i] = "shell")
  <2>1. h = f
    BY <1>2 DEF NoteShell
  <2> HIDE DEF h
  <2>2. QED
    BY <2>1, EffSame DEF h, Calm
<1>3. QED
  BY <1>1, <1>2

LEMMA FinishTerminalOK ==
  ASSUME NEW f \in Sessions, NEW i \in Items, NEW F, ItemOK(f, i, F), Shape(f.rows),
         i \notin f.done, NEW ok
  PROVE  FinishedTerminal(f, FinishTerminal(f, i, ok), i)
<1> DEFINE h == FinishTerminal(f, i, ok)
<1>1. CASE i \notin f.shells
  <2>1. h = f
    BY <1>1 DEF FinishTerminal
  <2> HIDE DEF h
  <2>2. Eff(f, f, {i})
    BY EffSame
  <2>3. QED
    BY <1>1, <2>1, <2>2 DEF h, FinishedTerminal, ItemOK
<1>2. CASE i \in f.shells /\ ~(i \in f.terminals \/ ok)
  <2>1. /\ h.role = f.role /\ h.streamed = f.streamed /\ h.text = f.text /\ h.done = f.done
        /\ h.cut = f.cut /\ h.shells = f.shells \ {i} /\ h.terminals = f.terminals
        /\ h.rows = f.rows /\ Kept(f, h)
    BY <1>2, SessionFields DEF FinishTerminal, Sessions, Kept
  <2>2. h \in Sessions
    <3>1. f.shells \ {i} \in SUBSET Items
      BY SessionFields
    <3>2. QED
      BY <1>2, <3>1 DEF FinishTerminal, Sessions
  <2> HIDE DEF h
  <2>3. \A j \in Items : j # i => Same(f, h, j)
    BY <2>1 DEF Same
  <2>4. Eff(f, h, {i}) /\ \A v : HasRow(h.rows, i, v) <=> HasRow(f.rows, i, v)
    BY <2>1, <2>2, <2>3, EffNoRow
  <2>5. TextOK(h, i)
    BY <2>1 DEF TextOK, ItemOK
  <2>6. QED
    BY <1>2, <2>1, <2>4, <2>5 DEF FinishedTerminal, ItemOK, h
<1>3. CASE i \in f.shells /\ (i \in f.terminals \/ ok)
  <2> DEFINE o == OpenTerminal(f, i)
  <2>1. /\ Eff(f, o, {i}) /\ ItemOK(o, i, F) /\ Calm(f, o, i, f.role[i])
        /\ o.cut = f.cut /\ i \in o.terminals /\ i \in o.shells
    BY <1>3, OpenTerminalOK
  <2>2. h = Row([o EXCEPT !.terminals = @ \ {i}, !.shells = @ \ {i}], i, "exit")
    BY <1>3 DEF FinishTerminal, TerminalLine
  <2> HIDE DEF o, h
  <2>3. o \in Sessions /\ Shape(o.rows) /\ i \notin o.done
    BY <2>1 DEF Eff, Calm
  <2>4. /\ h.role = o.role /\ h.streamed = o.streamed /\ h.text = o.text /\ h.done = o.done
        /\ h.cut = o.cut /\ h.shells = o.shells \ {i} /\ h.terminals = o.terminals \ {i}
        /\ h.rows = Append(o.rows, <<i, "exit">>) /\ Kept(o, h)
    BY <2>2, <2>3, SessionFields DEF Row, Sessions, Kept
  <2>5. h \in Sessions
    <3>1. /\ o.shells \ {i} \in SUBSET Items /\ o.terminals \ {i} \in SUBSET Items
          /\ Append(o.rows, <<i, "exit">>) \in Seq(Lines)
      BY <2>3, SessionFields DEF Lines, Words
    <3>2. QED
      BY <2>2, <2>3, <3>1 DEF Row, Sessions
  <2>6. \A j \in Items : j # i => Same(o, h, j)
    BY <2>4 DEF Same
  <2>7. Adds(o.rows, h.rows, i, "exit")
    <3>1. HasRow(o.rows, i, "open") /\ ~HasRow(o.rows, i, "exit") /\ ~HasRow(o.rows, i, "final")
      BY <2>1, <2>3 DEF ItemOK
    <3>2. QED
      BY <2>4, <3>1 DEF Adds, Words
  <2>8. Eff(o, h, {i}) /\ \A v : HasRow(h.rows, i, v) <=> HasRow(o.rows, i, v) \/ v = "exit"
    <3>1. o.done \subseteq h.done /\ o.cut \subseteq h.cut
      BY <2>4
    <3>2. QED
      BY <2>3, <2>4, <2>5, <2>6, <2>7, <3>1, EffRow
  <2>9. Eff(f, h, {i})
    BY <2>1, <2>8, EffTrans1
  <2>10. TextOK(h, i)
    BY <2>1, <2>4 DEF TextOK, ItemOK
  <2>11. ~HasRow(h.rows, i, "final") /\ (HasRow(h.rows, i, "mark") => i \in h.cut)
    BY <2>1, <2>3, <2>4, <2>8 DEF ItemOK
  <2>12. QED
    BY <2>1, <2>4, <2>9, <2>10, <2>11 DEF FinishedTerminal, Calm, h
<1>4. QED
  BY <1>1, <1>2, <1>3

\* Item i is done, and no text was added.
EndsRows(f, g, i) == g.done = f.done \cup {i} /\ g.text = f.text

\* The item leaves the screen, with its final row.
LEMMA GoneLineOK ==
  ASSUME NEW f \in Sessions, NEW i \in Items, NEW F, Shape(f.rows), i \notin f.shells,
         i \notin f.terminals, TextOK(f, i), ~HasRow(f.rows, i, "final"),
         HasRow(f.rows, i, "mark") => i \in f.cut
  PROVE  LET g == Row(Gone(f, i), i, "final")
         IN Eff(f, g, {i}) /\ ItemOK(g, i, F) /\ EndsRows(f, g, i)
<1> DEFINE g == Row(Gone(f, i), i, "final")
<1>1. /\ [f.role EXCEPT ![i] = "none"] \in [Items -> Roles] /\ f.done \cup {i} \in SUBSET Items
      /\ Append(f.rows, <<i, "final">>) \in Seq(Lines)
  BY SessionFields DEF Roles, Words, Lines
<1>2. /\ g.role = [f.role EXCEPT ![i] = "none"] /\ g.shells = f.shells
      /\ g.rows = Append(f.rows, <<i, "final">>) /\ g.streamed = f.streamed /\ g.text = f.text
      /\ g.done = f.done \cup {i} /\ g.cut = f.cut /\ g.terminals = f.terminals
      /\ Kept(f, g)
  BY SessionFields DEF Row, Gone, Sessions, Kept
<1>3. g \in Sessions
  BY <1>1 DEF Row, Gone, Sessions
<1> HIDE DEF g
<1>4. \A j \in Items : j # i => Same(f, g, j)
  BY <1>2, SessionFields DEF Same
<1>5. g.role[i] = "none" /\ i \notin g.shells /\ i \notin g.terminals /\ Told(f, g, i, 0)
  BY <1>2, SessionFields DEF Told
<1>6. Eff(f, g, {i}) /\ ItemOK(g, i, F)
  <2>1. 0 \in Nat /\ g.done = f.done \cup {i} /\ g.cut = f.cut /\ g.text = f.text
        /\ g.rows = Append(f.rows, <<i, "final">>) /\ Kept(f, g)
    BY <1>2
  <2>2. QED
    BY <1>3, <1>4, <1>5, <2>1, SettledOK
<1>7. QED
  BY <1>2, <1>6 DEF g, EndsRows

\* The item leaves the screen with no row of its own.
LEMMA GoneOK ==
  ASSUME NEW f \in Sessions, NEW i \in Items, NEW F, Shape(f.rows), i \notin f.shells,
         i \notin f.terminals, TextOK(f, i), ~HasRow(f.rows, i, "final"),
         HasRow(f.rows, i, "mark") => i \in f.cut, Kind[i] \notin Showing
  PROVE  LET g == Gone(f, i)
         IN Eff(f, g, {i}) /\ ItemOK(g, i, F) /\ EndsRows(f, g, i)
<1> DEFINE g == Gone(f, i)
<1>1. /\ [f.role EXCEPT ![i] = "none"] \in [Items -> Roles] /\ f.done \cup {i} \in SUBSET Items
  BY SessionFields DEF Roles
<1>2. /\ g.role = [f.role EXCEPT ![i] = "none"] /\ g.shells = f.shells
      /\ g.rows = f.rows /\ g.streamed = f.streamed /\ g.text = f.text
      /\ g.done = f.done \cup {i} /\ g.cut = f.cut /\ g.terminals = f.terminals
      /\ Kept(f, g)
  BY SessionFields DEF Gone, Sessions, Kept
<1>3. g \in Sessions
  BY <1>1 DEF Gone, Sessions
<1> HIDE DEF g
<1>4. \A j \in Items : j # i => Same(f, g, j)
  BY <1>2, SessionFields DEF Same
<1>5. g.role[i] = "none" /\ i \notin g.shells /\ i \notin g.terminals /\ Told(f, g, i, 0)
  BY <1>2, SessionFields DEF Told
<1>6. Eff(f, g, {i}) /\ ItemOK(g, i, F)
  <2>1. 0 \in Nat /\ g.done = f.done \cup {i} /\ g.cut = f.cut /\ g.text = f.text
        /\ g.rows = f.rows /\ Kept(f, g)
    BY <1>2
  <2>2. QED
    BY <1>3, <1>4, <1>5, <2>1, SettledOK
<1>7. QED
  BY <1>2, <1>6 DEF g, EndsRows

\* An item that is not done may leave the screen.
LEMMA MayGo ==
  ASSUME NEW f, NEW i, NEW F, ItemOK(f, i, F), i \notin f.done, Kind[i] # "shell"
  PROVE  /\ i \notin f.shells /\ i \notin f.terminals /\ TextOK(f, i)
         /\ ~HasRow(f.rows, i, "final") /\ (HasRow(f.rows, i, "mark") => i \in f.cut)
BY DEF ItemOK

LEMMA CompleteToolOK ==
  ASSUME NEW f \in Sessions, NEW x \in Frames, NEW F, ItemOK(f, x.item, F), Shape(f.rows),
         x.item \notin f.done, f.replaying => x.item \notin F
  PROVE  LET g == CompleteTool(f, x)
         IN Eff(f, g, {x.item}) /\ ItemOK(g, x.item, F) /\ Closes(f, g, x)
<1> DEFINE i == x.item
           n == NoteShell(f, i)
           h == IF f.replaying THEN f ELSE FinishTerminal(n, i, x.ok)
           g == CompleteTool(f, x)
<1>0. i \in Items
  BY DEF Frames
<1>1. g = Row(Gone(h, i), i, "final")
  BY DEF CompleteTool, ToolLine
<1>2. FinishedTerminal(f, h, i)
  <2>1. CASE f.replaying
    <3>1. h = f
      BY <2>1
    <3>2. i \notin f.shells /\ i \notin f.terminals
      BY <2>1 DEF ItemOK
    <3>3. TextOK(f, i) /\ ~HasRow(f.rows, i, "final") /\ (HasRow(f.rows, i, "mark") => i \in f.cut)
      BY DEF ItemOK
    <3>4. Eff(f, f, {i})
      BY <1>0, EffSame
    <3> HIDE DEF h, i
    <3>5. QED
      BY <3>1, <3>2, <3>3, <3>4 DEF FinishedTerminal
  <2>2. CASE ~f.replaying
    <3>1. Eff(f, n, {i}) /\ ItemOK(n, i, F) /\ Calm(f, n, i, f.role[i]) /\ n.cut = f.cut
      BY <1>0, <2>2, NoteShellOK
    <3>2. h = FinishTerminal(n, i, x.ok)
      BY <2>2
    <3> HIDE DEF n, h
    <3>3. n \in Sessions /\ Shape(n.rows) /\ i \notin n.done
      BY <3>1 DEF Eff, Calm
    <3>4. FinishedTerminal(n, h, i)
      BY <1>0, <3>1, <3>2, <3>3, FinishTerminalOK
    <3>5. Eff(n, h, {i})
      BY <3>4 DEF FinishedTerminal
    <3>6. Eff(f, h, {i})
      BY <3>1, <3>5, EffTrans1
    <3> HIDE DEF i
    <3>7. QED
      BY <3>1, <3>4, <3>6 DEF FinishedTerminal, Calm
  <2>3. QED
    BY <2>1, <2>2
<1> HIDE DEF h, g
<1>3. h \in Sessions /\ Shape(h.rows) /\ Eff(f, h, {i}) /\ h.done = f.done /\ h.text = f.text
  BY <1>2 DEF FinishedTerminal, Eff
<1>4. Eff(h, g, {i}) /\ ItemOK(g, i, F) /\ EndsRows(h, g, i)
  <2>1. /\ i \notin h.shells /\ i \notin h.terminals /\ TextOK(h, i)
        /\ ~HasRow(h.rows, i, "final") /\ (HasRow(h.rows, i, "mark") => i \in h.cut)
    BY <1>2 DEF FinishedTerminal
  <2>2. QED
    BY <1>0, <1>1, <1>3, <2>1, GoneLineOK
<1>5. Eff(f, g, {i})
  BY <1>3, <1>4, EffTrans1
<1>6. QED
  BY <1>3, <1>4, <1>5 DEF g, Closes, Told, EndsRows

LEMMA CompleteCardOK ==
  ASSUME NEW f \in Sessions, NEW x \in Frames, NEW F, ItemOK(f, x.item, F), Shape(f.rows),
         x.item \notin f.done, Kind[x.item] \in {"card", "untitled", "silent"},
         NEW g, g = IF Kind[x.item] = "card" THEN Row(Gone(f, x.item), x.item, "final")
                    ELSE Gone(f, x.item)
  PROVE  Eff(f, g, {x.item}) /\ ItemOK(g, x.item, F) /\ Closes(f, g, x)
<1> DEFINE i == x.item
<1>0. i \in Items /\ Kind[i] # "shell"
  BY DEF Frames
<1>1. /\ i \notin f.shells /\ i \notin f.terminals /\ TextOK(f, i)
      /\ ~HasRow(f.rows, i, "final") /\ (HasRow(f.rows, i, "mark") => i \in f.cut)
  BY <1>0, MayGo
<1>2. CASE Kind[i] = "card"
  <2>1. g = Row(Gone(f, i), i, "final")
    BY <1>2
  <2>2. Eff(f, g, {i}) /\ ItemOK(g, i, F) /\ EndsRows(f, g, i)
    BY <1>0, <1>1, <2>1, GoneLineOK
  <2>3. QED
    BY <2>2 DEF Closes, Told, EndsRows
<1>3. CASE Kind[i] # "card"
  <2>1. g = Gone(f, i) /\ Kind[i] \notin Showing
    BY <1>3 DEF Showing
  <2>2. Eff(f, g, {i}) /\ ItemOK(g, i, F) /\ EndsRows(f, g, i)
    BY <1>0, <1>1, <2>1, GoneOK
  <2>3. QED
    BY <2>2 DEF Closes, Told, EndsRows
<1>4. QED
  BY <1>2, <1>3

LEMMA CompleteCompactionOK ==
  ASSUME NEW f \in Sessions, NEW x \in Frames, NEW F, ItemOK(f, x.item, F), Shape(f.rows),
         x.item \notin f.done, Kind[x.item] = "compaction"
  PROVE  LET g == CompleteCompaction(f, x.item)
         IN Eff(f, g, {x.item}) /\ ItemOK(g, x.item, F) /\ Closes(f, g, x)
<1> DEFINE i == x.item
           g == CompleteCompaction(f, i)
<1>0. i \in Items /\ Kind[i] # "shell"
  BY DEF Frames
<1>1. /\ i \notin f.shells /\ i \notin f.terminals /\ TextOK(f, i)
      /\ ~HasRow(f.rows, i, "final") /\ (HasRow(f.rows, i, "mark") => i \in f.cut)
  BY <1>0, MayGo
<1>2. f.done \cup {i} \in SUBSET Items /\ Append(f.rows, <<i, "final">>) \in Seq(Lines)
  BY <1>0, SessionFields DEF Words, Lines
<1>3. /\ g.role = f.role /\ g.shells = f.shells
      /\ g.rows = Append(f.rows, <<i, "final">>) /\ g.streamed = f.streamed /\ g.text = f.text
      /\ g.done = f.done \cup {i} /\ g.cut = f.cut /\ g.terminals = f.terminals
      /\ Kept(f, g)
  BY SessionFields DEF CompleteCompaction, CompactionLine, Row, Sessions, Kept
<1>4. g \in Sessions
  BY <1>2 DEF CompleteCompaction, CompactionLine, Row, Sessions
<1>5. f.role[i] = "none"
  BY DEF ItemOK
<1> HIDE DEF g, i
<1>6. \A j \in Items : j # i => Same(f, g, j)
  BY <1>3, SessionFields DEF Same
<1>7. g.role[i] = "none" /\ i \notin g.shells /\ i \notin g.terminals /\ Told(f, g, i, 0)
  BY <1>1, <1>3, <1>5 DEF Told
<1>8. Eff(f, g, {i}) /\ ItemOK(g, i, F)
  <2>1. 0 \in Nat /\ g.done = f.done \cup {i} /\ g.cut = f.cut /\ g.text = f.text
        /\ g.rows = Append(f.rows, <<i, "final">>) /\ Kept(f, g)
    BY <1>3
  <2>2. QED
    BY <1>0, <1>1, <1>4, <1>6, <1>7, <2>1, SettledOK
<1>9. QED
  BY <1>3, <1>8 DEF g, i, Closes, Told

LEMMA CompleteMonitorOK ==
  ASSUME NEW f \in Sessions, NEW x \in Frames, NEW F, ItemOK(f, x.item, F), Shape(f.rows),
         x.item \notin f.done, Kind[x.item] = "monitor"
  PROVE  LET g == CompleteMonitor(f, x.item)
         IN Eff(f, g, {x.item}) /\ ItemOK(g, x.item, F) /\ Closes(f, g, x)
<1> DEFINE i == x.item
           g == CompleteMonitor(f, i)
<1>0. i \in Items /\ Kind[i] # "shell"
  BY DEF Frames
<1>1. /\ i \notin f.shells /\ i \notin f.terminals /\ TextOK(f, i)
      /\ ~HasRow(f.rows, i, "final") /\ (HasRow(f.rows, i, "mark") => i \in f.cut)
  BY <1>0, MayGo
<1>2. /\ f.done \cup {i} \in SUBSET Items /\ Append(f.rows, <<i, "final">>) \in Seq(Lines)
      /\ f.monitors \cup {i} \in SUBSET Items /\ [f.role EXCEPT ![i] = "monitor"] \in [Items -> Roles]
      /\ [[f.role EXCEPT ![i] = "monitor"] EXCEPT ![i] = "none"] \in [Items -> Roles]
  BY <1>0, SessionFields DEF Words, Lines, Roles
<1>3. /\ g.role = [f.role EXCEPT ![i] = "none"] /\ g.shells = f.shells
      /\ g.rows = Append(f.rows, <<i, "final">>) /\ g.streamed = f.streamed /\ g.text = f.text
      /\ g.done = f.done \cup {i} /\ g.cut = f.cut /\ g.terminals = f.terminals
      /\ Kept(f, g)
  BY SessionFields DEF CompleteMonitor, Gone, MonitorCard, CardLine, Row, Sessions, Kept
<1>4. g \in Sessions
  BY <1>2 DEF CompleteMonitor, Gone, MonitorCard, CardLine, Row, Sessions
<1> HIDE DEF g, i
<1>6. \A j \in Items : j # i => Same(f, g, j)
  BY <1>3, SessionFields DEF Same
<1>7. g.role[i] = "none" /\ i \notin g.shells /\ i \notin g.terminals /\ Told(f, g, i, 0)
  BY <1>0, <1>1, <1>3, SessionFields DEF Told
<1>8. Eff(f, g, {i}) /\ ItemOK(g, i, F)
  <2>1. 0 \in Nat /\ g.done = f.done \cup {i} /\ g.cut = f.cut /\ g.text = f.text
        /\ g.rows = Append(f.rows, <<i, "final">>) /\ Kept(f, g)
    BY <1>3
  <2>2. QED
    BY <1>0, <1>1, <1>4, <1>6, <1>7, <2>1, SettledOK
<1>9. QED
  BY <1>3, <1>8 DEF g, i, Closes, Told

LEMMA TextEmpty ==
  ASSUME NEW f \in Sessions, NEW i \in Items, NEW F, ItemOK(f, i, F), i \notin f.done,
         f.role[i] \in {"message", "thought"} => f.streamed[i] = 0
  PROVE  f.text[i] = <<>>
<1> SUFFICES ASSUME f.text[i] # <<>> PROVE FALSE
  OBVIOUS
<1>1. Kind[i] \in {"message", "thought"} /\ f.role[i] = Kind[i] /\ f.streamed[i] > 0
  BY DEF ItemOK, TextOK
<1>2. f.streamed[i] = 0
  BY <1>1
<1>3. QED
  BY <1>1, <1>2

\* The whole text of an item that showed none, with its final row.
LEMMA SpokenOK ==
  ASSUME NEW f \in Sessions, NEW x \in Frames, NEW F, ItemOK(f, x.item, F), Shape(f.rows),
         x.item \notin f.done, f.text[x.item] = <<>>, Kind[x.item] \in {"message", "thought"}
  PROVE  LET g == Row(ShowText(Gone(f, x.item), x), x.item, "final")
         IN Eff(f, g, {x.item}) /\ ItemOK(g, x.item, F) /\ Closes(f, g, x)
<1> DEFINE i == x.item
           n == x.total
           g == Row(ShowText(Gone(f, i), x), i, "final")
<1>0. i \in Items /\ Kind[i] # "shell" /\ n \in Nat
  BY DEF Frames
<1>1. /\ i \notin f.shells /\ i \notin f.terminals /\ TextOK(f, i)
      /\ ~HasRow(f.rows, i, "final") /\ (HasRow(f.rows, i, "mark") => i \in f.cut)
  BY <1>0, MayGo
<1>2. f.text[i] \o [k \in 1 .. n |-> k] = Whole(n) /\ Whole(n) \in Seq(Nat)
  BY <1>0, WholeIs DEF Whole
<1>3. /\ [f.role EXCEPT ![i] = "none"] \in [Items -> Roles] /\ f.done \cup {i} \in SUBSET Items
      /\ Append(f.rows, <<i, "final">>) \in Seq(Lines)
      /\ [f.text EXCEPT ![i] = f.text[i] \o [k \in 1 .. n |-> k]] \in [Items -> Seq(Nat)]
  BY <1>0, <1>2, SessionFields DEF Roles, Words, Lines
<1>4. /\ g.role = [f.role EXCEPT ![i] = "none"] /\ g.shells = f.shells
      /\ g.rows = Append(f.rows, <<i, "final">>) /\ g.streamed = f.streamed
      /\ g.text = [f.text EXCEPT ![i] = f.text[i] \o [k \in 1 .. n |-> k]]
      /\ g.done = f.done \cup {i} /\ g.cut = f.cut /\ g.terminals = f.terminals
      /\ Kept(f, g)
  BY SessionFields DEF ShowText, Row, Gone, Sessions, Kept
<1>5. g \in Sessions
  BY <1>3 DEF ShowText, Row, Gone, Sessions
<1>6. g.text = [f.text EXCEPT ![i] = Whole(n)]
  BY <1>2, <1>4
<1>7. f.text[i] = <<>> /\ Kind[i] \in {"message", "thought"}
  OBVIOUS
<1> HIDE DEF g, i, n
<1>8. \A j \in Items : j # i => Same(f, g, j)
  BY <1>4, SessionFields DEF Same
<1>9. g.role[i] = "none" /\ i \notin g.shells /\ i \notin g.terminals /\ Told(f, g, i, n)
  BY <1>0, <1>1, <1>4, <1>6, <1>7, SessionFields DEF Told
<1>10. Eff(f, g, {i}) /\ ItemOK(g, i, F)
  <2>1. g.done = f.done \cup {i} /\ g.cut = f.cut
        /\ g.rows = Append(f.rows, <<i, "final">>) /\ Kept(f, g)
    BY <1>4
  <2>2. QED
    BY <1>0, <1>1, <1>5, <1>7, <1>8, <1>9, <2>1, SettledOK
<1>11. QED
  BY <1>4, <1>9, <1>10 DEF g, i, n, Closes

LEMMA LastOK ==
  ASSUME NEW f \in Sessions, NEW i \in Items, NEW F, ItemOK(f, i, F), Shape(f.rows)
  PROVE  LET g == [f EXCEPT !.last = i]
         IN Eff(f, g, {i}) /\ ItemOK(g, i, F) /\ Calm(f, g, i, f.role[i])
<1> DEFINE g == [f EXCEPT !.last = i]
<1>1. /\ g.role = f.role /\ g.streamed = f.streamed /\ g.text = f.text /\ g.done = f.done
      /\ g.cut = f.cut /\ g.shells = f.shells /\ g.terminals = f.terminals
      /\ g.rows = f.rows /\ Kept(f, g)
  BY SessionFields DEF Sessions, Kept
<1>2. g \in Sessions
  BY DEF Sessions
<1> HIDE DEF g
<1>3. \A j \in Items : j # i => Same(f, g, j)
  BY <1>1 DEF Same
<1>4. Eff(f, g, {i}) /\ \A v : HasRow(g.rows, i, v) <=> HasRow(f.rows, i, v)
  BY <1>1, <1>2, <1>3, EffNoRow
<1>5. TextOK(g, i)
  BY <1>1 DEF TextOK, ItemOK
<1>6. ItemOK(g, i, F)
  BY <1>1, <1>4, <1>5 DEF ItemOK, Kept
<1>7. QED
  BY <1>1, <1>4, <1>6 DEF g, Calm

\* The mark a final row may carry, and the reply it makes the latest.
LEMMA MarkedOK ==
  ASSUME NEW f \in Sessions, NEW x \in Frames, NEW F, ItemOK(f, x.item, F), Shape(f.rows)
  PROVE  LET g == [ClaimCutOff(f, x) EXCEPT !.last = x.item]
         IN Eff(f, g, {x.item}) /\ ItemOK(g, x.item, F) /\ Calm(f, g, x.item, f.role[x.item])
<1> DEFINE i == x.item
           h == ClaimCutOff(f, x)
           g == [h EXCEPT !.last = i]
<1>0. i \in Items
  BY DEF Frames
<1>1. Eff(f, h, {i}) /\ ItemOK(h, i, F) /\ h.done = f.done /\ h.text = f.text /\ h.role = f.role
  BY ClaimCutOffOK
<1>2. h \in Sessions /\ Shape(h.rows)
  BY <1>1 DEF Eff
<1> HIDE DEF h
<1>3. Eff(h, g, {i}) /\ ItemOK(g, i, F) /\ Calm(h, g, i, h.role[i])
  BY <1>0, <1>1, <1>2, LastOK
<1> HIDE DEF g
<1>4. Eff(f, g, {i})
  BY <1>1, <1>3, EffTrans1
<1>5. QED
  BY <1>1, <1>3, <1>4 DEF Calm, g, h

LEMMA ClosesCalm ==
  ASSUME NEW f, NEW g, NEW h, NEW x, NEW rl, Closes(f, g, x), Calm(g, h, x.item, rl)
  PROVE  Closes(f, h, x)
BY DEF Closes, Calm, Told

LEMMA CompleteMessageOK ==
  ASSUME NEW f \in Sessions, NEW x \in Frames, NEW F, ItemOK(f, x.item, F), Shape(f.rows),
         x.item \notin f.done, Kind[x.item] = "message"
  PROVE  LET g == CompleteMessage(f, x)
         IN Eff(f, g, {x.item}) /\ ItemOK(g, x.item, F) /\ Closes(f, g, x)
<1> DEFINE i == x.item
           g == CompleteMessage(f, x)
           shown == IF Resend(f, x) THEN ShowText(Gone(f, i), x) ELSE Gone(f, i)
           c == Row(shown, i, "final")
<1>0. i \in Items /\ Kind[i] # "shell" /\ Kind[i] \in {"message", "thought"}
      /\ Kind[i] \notin Showing
  BY DEF Frames, Showing
<1>1. /\ i \notin f.shells /\ i \notin f.terminals /\ TextOK(f, i)
      /\ ~HasRow(f.rows, i, "final") /\ (HasRow(f.rows, i, "mark") => i \in f.cut)
  BY <1>0, MayGo
<1>2. Eff(f, c, {i}) /\ ItemOK(c, i, F) /\ Closes(f, c, x)
  <2>1. CASE Resend(f, x)
    <3>1. f.text[i] = <<>>
      <4>1. f.role[i] \in {"message", "thought"} => f.streamed[i] = 0
        BY <2>1 DEF Resend
      <4>2. QED
        BY <1>0, <4>1, TextEmpty
    <3>2. c = Row(ShowText(Gone(f, i), x), i, "final")
      BY <2>1
    <3> HIDE DEF c
    <3>3. QED
      BY <1>0, <3>1, <3>2, SpokenOK
  <2>2. CASE ~Resend(f, x)
    <3>1. c = Row(Gone(f, i), i, "final")
      BY <2>2
    <3> HIDE DEF c
    <3>2. Eff(f, c, {i}) /\ ItemOK(c, i, F) /\ EndsRows(f, c, i)
      BY <1>0, <1>1, <3>1, GoneLineOK
    <3>3. QED
      BY <3>2 DEF Closes, Told, EndsRows
  <2>3. QED
    BY <2>1, <2>2
<1>3. CASE Resend(f, x) \/ (f.role[i] = "message" /\ f.streamed[i] > 0)
  <2>1. g = [ClaimCutOff(c, x) EXCEPT !.last = i]
    BY <1>3 DEF CompleteMessage, ChunkLine
  <2>2. c \in Sessions /\ Shape(c.rows)
    BY <1>2 DEF Eff
  <2> HIDE DEF c, g
  <2>3. Eff(c, g, {i}) /\ ItemOK(g, i, F) /\ Calm(c, g, i, c.role[i])
    BY <1>2, <2>1, <2>2, MarkedOK
  <2>4. Eff(f, g, {i})
    BY <1>2, <2>3, EffTrans1
  <2>5. Closes(f, g, x)
    BY <1>2, <2>3, ClosesCalm
  <2>6. QED
    BY <2>3, <2>4, <2>5 DEF g
<1>4. CASE ~(Resend(f, x) \/ (f.role[i] = "message" /\ f.streamed[i] > 0))
  <2>1. g = Gone(f, i)
    BY <1>4 DEF CompleteMessage
  <2> HIDE DEF g
  <2>2. Eff(f, g, {i}) /\ ItemOK(g, i, F) /\ EndsRows(f, g, i)
    BY <1>0, <1>1, <2>1, GoneOK
  <2>3. QED
    BY <2>2 DEF Closes, Told, EndsRows, g
<1>5. QED
  BY <1>3, <1>4

LEMMA CompleteThoughtOK ==
  ASSUME NEW f \in Sessions, NEW x \in Frames, NEW F, ItemOK(f, x.item, F), Shape(f.rows),
         x.item \notin f.done, Kind[x.item] = "thought"
  PROVE  LET g == CompleteThought(f, x)
         IN Eff(f, g, {x.item}) /\ ItemOK(g, x.item, F) /\ Closes(f, g, x)
<1> DEFINE i == x.item
           g == CompleteThought(f, x)
<1>0. i \in Items /\ Kind[i] # "shell" /\ Kind[i] \in {"message", "thought"}
      /\ Kind[i] \notin Showing
  BY DEF Frames, Showing
<1>1. /\ i \notin f.shells /\ i \notin f.terminals /\ TextOK(f, i)
      /\ ~HasRow(f.rows, i, "final") /\ (HasRow(f.rows, i, "mark") => i \in f.cut)
  BY <1>0, MayGo
<1>2. CASE Resend(f, x)
  <2>1. f.text[i] = <<>>
    <3>1. f.role[i] \in {"message", "thought"} => f.streamed[i] = 0
      BY <1>2 DEF Resend
    <3>2. QED
      BY <1>0, <3>1, TextEmpty
  <2>2. g = Row(ShowText(Gone(f, i), x), i, "final")
    BY <1>2 DEF CompleteThought, ChunkLine
  <2> HIDE DEF g
  <2>3. Eff(f, g, {i}) /\ ItemOK(g, i, F) /\ Closes(f, g, x)
    BY <1>0, <2>1, <2>2, SpokenOK
  <2>4. QED
    BY <2>3 DEF g
<1>3. CASE ~Resend(f, x)
  <2>1. g = Gone(f, i)
    BY <1>3 DEF CompleteThought
  <2> HIDE DEF g
  <2>2. Eff(f, g, {i}) /\ ItemOK(g, i, F) /\ EndsRows(f, g, i)
    BY <1>0, <1>1, <2>1, GoneOK
  <2>3. QED
    BY <2>2 DEF Closes, Told, EndsRows, g
<1>4. QED
  BY <1>2, <1>3

\* The final object of an item settles it, if it was not settled.
LEMMA CompleteItemOK ==
  ASSUME NEW f \in Sessions, NEW x \in Frames, NEW F, ItemOK(f, x.item, F), Shape(f.rows),
         f.replaying => x.item \notin F
  PROVE  LET g == CompleteItem(f, x)
         IN Eff(f, g, {x.item}) /\ ItemOK(g, x.item, F) /\ Closes(f, g, x)
<1> DEFINE i == x.item
           g == CompleteItem(f, x)
<1>0. i \in Items /\ Kind[i] \in Kinds
  BY TranscriptAssumption DEF Frames
<1>1. CASE Known(f, i)
  <2>1. g = MarkCutOff(f, x) /\ i \in f.done
    BY <1>1 DEF CompleteItem, Known
  <2> HIDE DEF g
  <2>2. Eff(f, g, {i}) /\ ItemOK(g, i, F) /\ g.done = f.done /\ g.text = f.text
    BY <2>1, MarkCutOffOK
  <2>3. g.done = f.done \cup {i}
    BY <2>1, <2>2
  <2>4. QED
    BY <2>2, <2>3 DEF Closes, Told, g
<1>2. CASE ~Known(f, i)
  <2>0. i \notin f.done
    BY <1>2 DEF Known
  <2>1. CASE Kind[i] = "message"
    <3>1. g = CompleteMessage(f, x)
      BY <1>2, <2>1 DEF CompleteItem
    <3>2. QED
      BY <2>0, <2>1, <3>1, CompleteMessageOK
  <2>2. CASE Kind[i] = "thought"
    <3>1. g = CompleteThought(f, x)
      BY <1>2, <2>2 DEF CompleteItem
    <3>2. QED
      BY <2>0, <2>2, <3>1, CompleteThoughtOK
  <2>3. CASE Kind[i] \in {"tool", "shell"}
    <3>1. g = CompleteTool(f, x)
      BY <1>2, <2>3 DEF CompleteItem
    <3>2. QED
      BY <2>0, <2>3, <3>1, CompleteToolOK
  <2>4. CASE Kind[i] \in {"card", "untitled", "silent"}
    <3>1. g = IF Kind[i] = "card" THEN Row(Gone(f, i), i, "final") ELSE Gone(f, i)
      BY <1>2, <2>4 DEF CompleteItem, CompleteCard, Titled, CardLine
    <3> HIDE DEF g
    <3>2. Eff(f, g, {i}) /\ ItemOK(g, i, F) /\ Closes(f, g, x)
      BY <2>0, <2>4, <3>1, CompleteCardOK
    <3>3. QED
      BY <3>2 DEF g
  <2>5. CASE Kind[i] = "compaction"
    <3>1. g = CompleteCompaction(f, i)
      BY <1>2, <2>5 DEF CompleteItem
    <3>2. QED
      BY <2>0, <2>5, <3>1, CompleteCompactionOK
  <2>6. CASE Kind[i] = "monitor"
    <3>1. g = CompleteMonitor(f, i)
      BY <1>2, <2>6 DEF CompleteItem
    <3>2. QED
      BY <2>0, <2>6, <3>1, CompleteMonitorOK
  <2>7. QED
    BY <1>0, <2>1, <2>2, <2>3, <2>4, <2>5, <2>6 DEF Kinds
<1>3. QED
  BY <1>1, <1>2

\* No final row of item i was added.
NoFinal(f, g, i) == HasRow(g.rows, i, "final") => HasRow(f.rows, i, "final")

LEMMA MarkNoFinal ==
  ASSUME NEW f \in Sessions, NEW x \in Frames
  PROVE  NoFinal(f, MarkCutOff(f, x), x.item)
<1> DEFINE i == x.item
           g == MarkCutOff(f, x)
<1>1. CASE Markable(f, i) /\ x.cut /\ i \notin f.cut
  <2>1. g.rows = Append(f.rows, <<i, "mark">>)
    BY <1>1, SessionFields DEF MarkCutOff, ClaimCutOff, MarkLine, Row, Sessions
  <2>2. i \in Items /\ f.rows \in Seq(Lines) /\ <<i, "mark">> \in Lines
    BY SessionFields DEF Frames, Lines, Words
  <2> HIDE DEF g, i
  <2>3. SUFFICES ASSUME NEW p \in 1 .. Len(g.rows), g.rows[p] = <<i, "final">>
                 PROVE  HasRow(f.rows, i, "final")
    BY DEF NoFinal, HasRow, g, i
  <2>4. p \in 1 .. Len(f.rows)
    <3>1. p \in 1 .. Len(f.rows) \/ (p = Len(f.rows) + 1 /\ g.rows[p] = <<i, "mark">>)
      BY <2>1, <2>2
    <3>2. <<i, "mark">> # <<i, "final">>
      OBVIOUS
    <3>3. QED
      BY <2>3, <3>1, <3>2
  <2>5. f.rows[p] = <<i, "final">>
    BY <2>1, <2>2, <2>3, <2>4
  <2>6. QED
    BY <2>4, <2>5 DEF HasRow
<1>2. CASE ~(Markable(f, i) /\ x.cut /\ i \notin f.cut)
  <2>1. g = f
    BY <1>2 DEF MarkCutOff, ClaimCutOff
  <2>2. QED
    BY <2>1 DEF NoFinal
<1>3. QED
  BY <1>1, <1>2

LEMMA SnapshotNoFinal ==
  ASSUME NEW f \in Sessions, NEW x \in Frames, NEW F, NEW g, g = OnItemSnapshot(f, x),
         ItemOK(g, x.item, F), g.done = f.done
  PROVE  NoFinal(f, g, x.item)
<1>1. CASE x.item \in f.done
  <2>1. g = MarkCutOff(f, x)
    BY <1>1 DEF OnItemSnapshot, Known
  <2>2. QED
    BY <2>1, MarkNoFinal
<1>2. CASE x.item \notin f.done
  BY <1>2 DEF NoFinal, ItemOK
<1>3. QED
  BY <1>1, <1>2

LEMMA DeltaNoFinal ==
  ASSUME NEW f \in Sessions, NEW i \in Items, NEW n, NEW F, NEW g, g = OnItemDelta(f, i, n),
         ItemOK(f, i, F), ItemOK(g, i, F), g.done = f.done
  PROVE  NoFinal(f, g, i)
<1>1. CASE i \in f.done
  <2>1. f.role[i] = "none" /\ i \notin f.shells
    BY <1>1 DEF ItemOK
  <2>2. g = f
    BY <2>1 DEF OnItemDelta, DeltaOutput, DeltaSummary, DeltaText
  <2>3. QED
    BY <2>2 DEF NoFinal
<1>2. CASE i \notin f.done
  BY <1>2 DEF NoFinal, ItemOK
<1>3. QED
  BY <1>1, <1>2

LEMMA CompleteNoFinal ==
  ASSUME NEW f \in Sessions, NEW x \in Frames, x.item \in f.done
  PROVE  NoFinal(f, CompleteItem(f, x), x.item)
BY MarkNoFinal DEF CompleteItem, Known

-----------------------------------------------------------------------------
(* Anchors and the order of rows.                                           *)

\* The rows AnchorOrder speaks of.
Anchored(i) ==
  /\ Kind[i] # "message" /\ Anchor[i] # None
  /\ Kind[Anchor[i]] \in Showing /\ Anchor[Anchor[i]] = None

\* Each final row of i has a row of its anchor before it, or a turn's end after it before
\* which its anchor has no row.
Ordered(q, i) ==
  \A p \in 1 .. Len(q) : q[p] = <<i, "final">> =>
    \/ \E r \in 1 .. p - 1 : q[r][1] = Anchor[i]
    \/ \E e \in p .. Len(q) : q[e] = <<None, "turn">> /\ \A r \in 1 .. e : q[r][1] # Anchor[i]

\* W: the anchors that show no row before the turn's end.
RowsOK(q, W) ==
  \A i \in Items : Anchored(i) =>
    Ordered(q, i) \/ (Anchor[i] \in W /\ ~HasAny(q, Anchor[i]))

LEMMA OrderedGrows ==
  ASSUME NEW q \in Seq(Lines), NEW r \in Seq(Lines), NEW A, Grows(q, r, A), NEW i,
         Ordered(q, i), i \notin A \/ HasAny(q, Anchor[i])
  PROVE  Ordered(r, i)
<1>1. Len(q) \in Nat /\ Len(r) \in Nat /\ Len(q) <= Len(r) /\ \A p \in 1 .. Len(q) : r[p] = q[p]
  BY DEF Grows
<1>2. SUFFICES ASSUME NEW p \in 1 .. Len(r), r[p] = <<i, "final">>
               PROVE  \/ \E k \in 1 .. p - 1 : r[k][1] = Anchor[i]
                      \/ \E e \in p .. Len(r) : r[e] = <<None, "turn">> /\
                            \A k \in 1 .. e : r[k][1] # Anchor[i]
  BY DEF Ordered
<1>3. CASE p \in 1 .. Len(q)
  <2>1. q[p] = <<i, "final">>
    BY <1>1, <1>2, <1>3
  <2>2. CASE \E k \in 1 .. p - 1 : q[k][1] = Anchor[i]
    <3>1. PICK k \in 1 .. p - 1 : q[k][1] = Anchor[i]
      BY <2>2
    <3>2. k \in 1 .. Len(q)
      BY <1>1, <1>3
    <3>3. r[k][1] = Anchor[i]
      BY <1>1, <3>1, <3>2
    <3>4. QED
      BY <3>3
  <2>3. CASE \E e \in p .. Len(q) : q[e] = <<None, "turn">> /\ \A k \in 1 .. e : q[k][1] # Anchor[i]
    <3>1. PICK e \in p .. Len(q) : q[e] = <<None, "turn">> /\ \A k \in 1 .. e : q[k][1] # Anchor[i]
      BY <2>3
    <3>2. e \in 1 .. Len(q) /\ e \in p .. Len(r)
      BY <1>1, <1>3
    <3>3. \A k \in 1 .. e : r[k][1] # Anchor[i]
      <4> TAKE k \in 1 .. e
      <4>1. k \in 1 .. Len(q)
        BY <1>1, <3>2
      <4>2. QED
        BY <1>1, <3>1, <4>1
    <3>4. r[e] = <<None, "turn">>
      BY <1>1, <3>1, <3>2
    <3>5. QED
      BY <3>2, <3>3, <3>4
  <2>4. QED
    BY <1>3, <2>1, <2>2, <2>3 DEF Ordered
<1>4. CASE p \notin 1 .. Len(q)
  <2>1. p \in Len(q) + 1 .. Len(r)
    BY <1>1, <1>4
  <2>2. r[p][1] = i /\ r[p][1] \in A
    BY <1>2, <2>1 DEF Grows
  <2>3. PICK k \in 1 .. Len(q) : q[k][1] = Anchor[i]
    BY <2>2 DEF HasAny
  <2>4. k \in 1 .. p - 1 /\ r[k][1] = Anchor[i]
    BY <1>1, <2>1, <2>3
  <2>5. QED
    BY <2>4
<1>5. QED
  BY <1>3, <1>4

\* The same if no final row is added.
LEMMA OrderedNoFinal ==
  ASSUME NEW q, Shape(q), NEW r, Shape(r), NEW A, Grows(q, r, A), NEW i, Ordered(q, i),
         HasRow(r, i, "final") => HasRow(q, i, "final")
  PROVE  Ordered(r, i)
<1>1. q \in Seq(Lines) /\ r \in Seq(Lines)
  BY DEF Shape
<1>2. Len(q) \in Nat /\ Len(r) \in Nat /\ Len(q) <= Len(r) /\ \A p \in 1 .. Len(q) : r[p] = q[p]
  BY <1>1 DEF Grows
<1>3. SUFFICES ASSUME NEW p \in 1 .. Len(r), r[p] = <<i, "final">>
               PROVE  \/ \E k \in 1 .. p - 1 : r[k][1] = Anchor[i]
                      \/ \E e \in p .. Len(r) : r[e] = <<None, "turn">> /\
                            \A k \in 1 .. e : r[k][1] # Anchor[i]
  BY DEF Ordered
<1>4. p \in 1 .. Len(q)
  <2>1. HasRow(r, i, "final")
    BY <1>3 DEF HasRow
  <2>2. PICK t \in 1 .. Len(q) : q[t] = <<i, "final">>
    BY <2>1 DEF HasRow
  <2>3. t \in 1 .. Len(r) /\ r[t] = <<i, "final">>
    BY <1>2, <2>2
  <2>4. r[t][1] = i /\ r[t][2] = "final" /\ r[p][1] = i /\ r[p][2] = "final"
    BY <1>3, <2>3
  <2>5. ~(t < p)
    BY <2>3, <2>4 DEF Shape
  <2>6. QED
    BY <1>2, <2>2, <2>5
<1>5. q[p] = <<i, "final">>
  BY <1>2, <1>3, <1>4
<1>6. CASE \E k \in 1 .. p - 1 : q[k][1] = Anchor[i]
  <2>1. PICK k \in 1 .. p - 1 : q[k][1] = Anchor[i]
    BY <1>6
  <2>2. k \in 1 .. Len(q)
    BY <1>2, <1>4
  <2>3. QED
    BY <1>2, <2>1, <2>2
<1>7. CASE \E e \in p .. Len(q) : q[e] = <<None, "turn">> /\ \A k \in 1 .. e : q[k][1] # Anchor[i]
  <2>1. PICK e \in p .. Len(q) : q[e] = <<None, "turn">> /\ \A k \in 1 .. e : q[k][1] # Anchor[i]
    BY <1>7
  <2>2. e \in 1 .. Len(q) /\ e \in p .. Len(r) /\ r[e] = <<None, "turn">>
    BY <1>2, <1>4, <2>1
  <2>3. \A k \in 1 .. e : k \in 1 .. Len(q)
    BY <1>2, <2>2
  <2>4. QED
    BY <1>2, <2>1, <2>2, <2>3
<1>8. QED
  BY <1>4, <1>5, <1>6, <1>7 DEF Ordered

LEMMA RowsStep ==
  ASSUME NEW f \in Sessions, NEW g, NEW j \in Items, Eff(f, g, {j}), Shape(f.rows), NEW W,
         RowsOK(f.rows, W), j \notin W,
         \/ NoFinal(f, g, j)
         \/ Anchored(j) => HasAny(f.rows, Anchor[j]) \/ Anchor[j] \in W
  PROVE  RowsOK(g.rows, W)
<1>1. /\ f.rows \in Seq(Lines) /\ g.rows \in Seq(Lines) /\ Shape(g.rows)
      /\ Grows(f.rows, g.rows, {j})
  BY SessionFields DEF Eff
<1>2. \A a : a # j => (HasAny(g.rows, a) <=> HasAny(f.rows, a))
  BY <1>1, GrowsHas
<1>3. SUFFICES ASSUME NEW i \in Items, Anchored(i)
               PROVE  Ordered(g.rows, i) \/ (Anchor[i] \in W /\ ~HasAny(g.rows, Anchor[i]))
  BY DEF RowsOK
<1>4. CASE ~Ordered(f.rows, i)
  <2>1. Anchor[i] \in W /\ ~HasAny(f.rows, Anchor[i])
    BY <1>3, <1>4 DEF RowsOK
  <2>2. Anchor[i] # j
    BY <2>1
  <2>3. QED
    BY <2>1, <2>2, <1>2
<1>5. CASE Ordered(f.rows, i) /\ i # j
  <2>1. i \notin {j}
    BY <1>5
  <2>2. QED
    BY <1>1, <1>5, <2>1, OrderedGrows
<1>6. CASE Ordered(f.rows, i) /\ i = j
  <2>1. CASE NoFinal(f, g, j)
    <3>1. HasRow(g.rows, i, "final") => HasRow(f.rows, i, "final")
      BY <1>6, <2>1 DEF NoFinal
    <3>2. QED
      BY <1>1, <1>6, <3>1, OrderedNoFinal
  <2>2. CASE HasAny(f.rows, Anchor[i])
    BY <1>1, <1>6, <2>2, OrderedGrows
  <2>3. CASE Anchor[i] \in W /\ ~HasAny(f.rows, Anchor[i])
    <3>1. Anchor[i] # j
      BY <2>3
    <3>2. QED
      BY <1>2, <2>3, <3>1
  <2>4. QED
    BY <1>3, <1>6, <2>1, <2>2, <2>3
<1>7. QED
  BY <1>4, <1>5, <1>6

LEMMA RowsWider ==
  ASSUME NEW q, NEW V, NEW W, RowsOK(q, V), V \subseteq W
  PROVE  RowsOK(q, W)
BY DEF RowsOK

\* The end of a turn orders what is before it.
LEMMA RowsTurn ==
  ASSUME NEW q \in Seq(Lines), NEW W, RowsOK(q, W), NEW r, r = Append(q, <<None, "turn">>)
  PROVE  RowsOK(r, {})
<1>0. <<None, "turn">> \in Lines /\ \A i \in Items : i # None
  BY TranscriptAssumption DEF Lines, Words
<1>1. /\ r \in Seq(Lines) /\ Len(q) \in Nat /\ Len(r) = Len(q) + 1
      /\ r[Len(q) + 1] = <<None, "turn">> /\ \A p \in 1 .. Len(q) : r[p] = q[p]
  BY <1>0
<1>2. Grows(q, r, {None})
  <2>1. \A p \in Len(q) + 1 .. Len(r) : p = Len(q) + 1
    BY <1>1
  <2>2. r[Len(q) + 1][1] = None
    BY <1>1
  <2>3. \A p \in Len(q) + 1 .. Len(r) : r[p][1] \in {None}
    BY <2>1, <2>2
  <2>4. QED
    BY <1>1, <2>3 DEF Grows
<1>3. SUFFICES ASSUME NEW i \in Items, Anchored(i) PROVE Ordered(r, i)
  BY DEF RowsOK
<1>4. CASE Ordered(q, i)
  <2>1. i \notin {None}
    BY <1>0
  <2>2. QED
    BY <1>1, <1>2, <1>4, <2>1, OrderedGrows
<1>5. CASE ~HasAny(q, Anchor[i])
  <2>1. SUFFICES ASSUME NEW p \in 1 .. Len(r), r[p] = <<i, "final">>
                 PROVE  \E e \in p .. Len(r) : r[e] = <<None, "turn">> /\
                            \A k \in 1 .. e : r[k][1] # Anchor[i]
    BY DEF Ordered
  <2>2. Len(q) + 1 \in p .. Len(r)
    BY <1>1
  <2>3. Anchor[i] # None
    BY <1>3 DEF Anchored
  <2>4. \A k \in 1 .. Len(q) + 1 : r[k][1] # Anchor[i]
    <3> TAKE k \in 1 .. Len(q) + 1
    <3>1. CASE k \in 1 .. Len(q)
      BY <1>1, <1>5, <3>1 DEF HasAny
    <3>2. CASE k = Len(q) + 1
      <4>1. r[k][1] = None
        BY <1>1, <3>2
      <4>2. QED
        BY <2>3, <4>1
    <3>3. QED
      BY <1>1, <3>1, <3>2
  <2>5. QED
    BY <1>1, <2>2, <2>4
<1>6. QED
  BY <1>3, <1>4, <1>5 DEF RowsOK

-----------------------------------------------------------------------------
(* A session in order, but for what is held.                                *)

\* Only a turn's end has no item.
NoneOK(q) == \A w : HasRow(q, None, w) => w = "turn"

\* No text shown is beyond what the host produced: T[i] pieces of item i.
TextBound(f, T) == \A i \in Items : \A p \in 1 .. Len(f.text[i]) : f.text[i][p] <= T[i]

Good(f, F, T, W) ==
  /\ f \in Sessions /\ Shape(f.rows) /\ NoneOK(f.rows) /\ \A i \in Items : ItemOK(f, i, F)
  /\ TextBound(f, T) /\ RowsOK(f.rows, W)

LEMMA NoneOKStep ==
  ASSUME NEW f \in Sessions, NEW g, NEW j \in Items, Eff(f, g, {j}), NoneOK(f.rows)
  PROVE  NoneOK(g.rows)
<1>1. f.rows \in Seq(Lines) /\ g.rows \in Seq(Lines) /\ Grows(f.rows, g.rows, {j})
  BY SessionFields DEF Eff
<1>2. None \notin {j}
  BY TranscriptAssumption
<1>3. \A w : HasRow(g.rows, None, w) <=> HasRow(f.rows, None, w)
  BY <1>1, <1>2, GrowsHas
<1>4. QED
  BY <1>3 DEF NoneOK

LEMMA GoodStep ==
  ASSUME NEW f, NEW F, NEW T, NEW W, Good(f, F, T, W), NEW g, NEW j \in Items,
         Eff(f, g, {j}), ItemOK(g, j, F), j \notin W,
         \A p \in 1 .. Len(g.text[j]) : g.text[j][p] <= T[j],
         \/ NoFinal(f, g, j)
         \/ Anchored(j) => HasAny(f.rows, Anchor[j]) \/ Anchor[j] \in W
  PROVE  Good(g, F, T, W)
<1>1. f \in Sessions /\ Shape(f.rows) /\ NoneOK(f.rows) /\ RowsOK(f.rows, W)
  BY DEF Good
<1>2. g \in Sessions /\ Shape(g.rows)
  BY DEF Eff
<1>3. NoneOK(g.rows)
  BY <1>1, NoneOKStep
<1>4. \A i \in Items : ItemOK(g, i, F)
  <2> TAKE i \in Items
  <2>1. CASE i # j
    <3>1. i \notin {j} /\ ItemOK(f, i, F)
      BY <2>1 DEF Good
    <3>2. QED
      BY <1>1, <3>1, EffItem
  <2>2. QED
    BY <2>1
<1>5. TextBound(g, T)
  <2>1. \A i \in Items : i # j => g.text[i] = f.text[i]
    BY DEF Eff, Same
  <2>2. QED
    BY <2>1 DEF TextBound, Good
<1>6. RowsOK(g.rows, W)
  BY <1>1, RowsStep
<1>7. QED
  BY <1>2, <1>3, <1>4, <1>5, <1>6 DEF Good

\* What a completion is entitled to.
Ready(f, x, F, T, W) ==
  /\ x \in Frames /\ (f.replaying => x.item \notin F) /\ x.total <= T[x.item] /\ x.item \notin W
  /\ x.item \notin f.done /\ Anchored(x.item) =>
       HasAny(f.rows, Anchor[x.item]) \/ Anchor[x.item] \in W

LEMMA ToldBound ==
  ASSUME NEW f \in Sessions, NEW g, NEW T \in [Items -> Nat], NEW x \in Frames, TextBound(f, T),
         x.total <= T[x.item], Told(f, g, x.item, x.total)
  PROVE  \A p \in 1 .. Len(g.text[x.item]) : g.text[x.item][p] <= T[x.item]
<1> DEFINE i == x.item
           n == x.total
<1>1. i \in Items /\ n \in Nat /\ T[i] \in Nat
  BY DEF Frames
<1>2. CASE g.text = f.text
  BY <1>1, <1>2 DEF TextBound
<1>3. CASE g.text = [f.text EXCEPT ![i] = Whole(n)]
  <2>1. g.text[i] = Whole(n)
    BY <1>1, <1>3, SessionFields
  <2>2. n <= T[i]
    OBVIOUS
  <2> HIDE DEF n
  <2>3. \A p \in 1 .. n : Whole(n)[p] = p
    BY <1>1, WholeIs
  <2>4. \A p \in 1 .. n : Whole(n)[p] <= T[i]
    BY <1>1, <2>2, <2>3
  <2>5. Len(Whole(n)) = n
    BY <1>1, WholeIs
  <2>6. QED
    BY <2>1, <2>4, <2>5
<1>4. QED
  BY <1>2, <1>3 DEF Told

LEMMA CompleteItemGood ==
  ASSUME NEW f, NEW F, NEW T \in [Items -> Nat], NEW W, Good(f, F, T, W),
         NEW x, Ready(f, x, F, T, W)
  PROVE  LET g == CompleteItem(f, x)
         IN Good(g, F, T, W) /\ Eff(f, g, {x.item}) /\ Closes(f, g, x)
<1> DEFINE g == CompleteItem(f, x)
<1>1. /\ f \in Sessions /\ x \in Frames /\ x.item \in Items /\ Shape(f.rows)
      /\ ItemOK(f, x.item, F) /\ TextBound(f, T) /\ (f.replaying => x.item \notin F)
      /\ x.total <= T[x.item] /\ x.item \notin W
  BY DEF Good, Ready, Frames
<1>2. Eff(f, g, {x.item}) /\ ItemOK(g, x.item, F) /\ Closes(f, g, x)
  BY <1>1, CompleteItemOK
<1>3. \A p \in 1 .. Len(g.text[x.item]) : g.text[x.item][p] <= T[x.item]
  <2>1. Told(f, g, x.item, x.total)
    BY <1>2 DEF Closes
  <2>2. QED
    BY <1>1, <2>1, ToldBound
<1>4. \/ NoFinal(f, g, x.item)
      \/ Anchored(x.item) => HasAny(f.rows, Anchor[x.item]) \/ Anchor[x.item] \in W
  <2>1. CASE x.item \in f.done
    BY <1>1, <2>1, CompleteNoFinal
  <2>2. CASE x.item \notin f.done
    BY <2>2 DEF Ready
  <2>3. QED
    BY <2>1, <2>2
<1>5. Good(g, F, T, W)
  <2> HIDE DEF g
  <2>1. QED
    BY <1>1, <1>2, <1>3, <1>4, GoodStep
<1>6. QED
  BY <1>2, <1>5

ItemsOf(xs) == {xs[n].item : n \in 1 .. Len(xs)}

AllReady(f, xs, F, T, W) == \A n \in 1 .. Len(xs) : Ready(f, xs[n], F, T, W)

\* From f to g the items of xs were completed.
Completes(f, g, xs) == Eff(f, g, ItemsOf(xs)) /\ g.done = f.done \cup ItemsOf(xs)

LEMMA CompleteAllGood ==
  ASSUME NEW f, NEW F, NEW T \in [Items -> Nat], NEW W, Good(f, F, T, W),
         NEW xs \in Seq(Frames), AllReady(f, xs, F, T, W)
  PROVE  LET g == CompleteAll(f, xs)
         IN Good(g, F, T, W) /\ Completes(f, g, xs)
<1> DEFINE N == Len(xs)
           A(n) == {xs[k].item : k \in 1 .. n}
           P(g, n) == Good(g, F, T, W) /\ Eff(f, g, A(n)) /\ g.done = f.done \cup A(n)
           I == [n \in 0 .. N |-> {g \in Sessions : P(g, n)}]
<1>1. N \in Nat /\ f \in Sessions /\ Shape(f.rows)
  BY DEF Good
<1>2. f \in I[0]
  <2>1. A(0) = {}
    OBVIOUS
  <2>2. Eff(f, f, {})
    <3>1. Grows(f.rows, f.rows, {})
      BY <1>1, SessionFields DEF Grows
    <3>2. QED
      BY <1>1, <3>1 DEF Eff, Kept, Same
  <2> HIDE DEF A
  <2>3. P(f, 0)
    BY <2>1, <2>2
  <2> HIDE DEF P
  <2>4. 0 \in 0 .. N
    BY <1>1
  <2>5. QED
    BY <1>1, <2>3, <2>4
<1>3. ASSUME NEW n \in 1 .. N, NEW g \in Sessions, P(g, n - 1)
      PROVE  P(CompleteItem(g, xs[n]), n)
  <2> DEFINE x == xs[n]
             h == CompleteItem(g, x)
  <2>1. x \in Frames /\ x.item \in Items
    <3>1. x \in Frames
      OBVIOUS
    <3> HIDE DEF x
    <3>2. QED
      BY <3>1 DEF Frames
  <2>2. Good(g, F, T, W) /\ Eff(f, g, A(n - 1)) /\ g.done = f.done \cup A(n - 1)
    BY <1>3
  <2>3. A(n) = A(n - 1) \cup {x.item}
    <3>1. \A k \in 1 .. n : k \in 1 .. n - 1 \/ k = n
      OBVIOUS
    <3>2. \A k \in 1 .. n - 1 : k \in 1 .. n
      OBVIOUS
    <3>3. n \in 1 .. n
      OBVIOUS
    <3>4. QED
      BY <3>1, <3>2, <3>3
  <2>4. Ready(f, x, F, T, W)
    BY <1>3 DEF AllReady
  <2>5. Ready(g, x, F, T, W)
    <3>1. g.replaying = f.replaying /\ f.done \subseteq g.done
      BY <2>2 DEF Eff, Kept
    <3>2. \A a : HasAny(f.rows, a) => HasAny(g.rows, a)
      <4>1. f.rows \in Seq(Lines) /\ g.rows \in Seq(Lines) /\ Grows(f.rows, g.rows, A(n - 1))
        BY <1>1, <2>2, SessionFields DEF Eff
      <4> HIDE DEF A
      <4>2. QED
        BY <4>1, GrowsHas
    <3> HIDE DEF x
    <3>3. QED
      BY <2>4, <3>1, <3>2 DEF Ready
  <2> HIDE DEF A, x
  <2>6. Good(h, F, T, W) /\ Eff(g, h, {x.item}) /\ Closes(g, h, x)
    BY <2>2, <2>5, CompleteItemGood
  <2> HIDE DEF h
  <2>7. Eff(f, h, A(n))
    BY <1>1, <2>2, <2>3, <2>6, EffTrans
  <2>8. h.done = f.done \cup A(n)
    BY <2>2, <2>3, <2>6 DEF Closes
  <2>9. P(h, n)
    BY <2>6, <2>7, <2>8
  <2>10. QED
    BY <2>9 DEF h, x
<1>4. \A n \in 1 .. N : \A g \in I[n - 1] : CompleteItem(g, xs[n]) \in I[n]
  <2> HIDE DEF P
  <2> TAKE n \in 1 .. N
  <2>1. n - 1 \in 0 .. N /\ n \in 0 .. N
    BY <1>1
  <2> TAKE g \in I[n - 1]
  <2>2. g \in Sessions /\ P(g, n - 1)
    BY <2>1
  <2>3. P(CompleteItem(g, xs[n]), n)
    BY <1>3, <2>2
  <2>4. CompleteItem(g, xs[n]) \in Sessions
    BY <2>3 DEF P, Good
  <2>5. QED
    BY <2>1, <2>3, <2>4
<1>5. CompleteAll(f, xs) \in I[N]
  <2> HIDE DEF I
  <2>1. QED
    BY <1>2, <1>4, CompleteAllIn
<1>6. P(CompleteAll(f, xs), N)
  <2> HIDE DEF P
  <2>1. N \in 0 .. N
    BY <1>1
  <2>2. QED
    BY <1>5, <2>1
<1>7. A(N) = ItemsOf(xs)
  BY DEF ItemsOf
<1>8. QED
  BY <1>6, <1>7 DEF Completes

LEMMA AmongMembers ==
  ASSUME NEW X, NEW xs \in Seq(X), NEW S
  PROVE  /\ Among(xs, S) \in Seq(X)
         /\ \A y : y \in Range(Among(xs, S)) <=> y \in Range(xs) /\ y \in S
<1> DEFINE r == Among(xs, S)
<1>1. r \in Seq(X) /\ \E h : Picks(r, h, xs, S, Len(xs))
  BY AmongIs
<1> HIDE DEF r
<1>2. PICK h : Picks(r, h, xs, S, Len(xs))
  BY <1>1
<1>3. DOMAIN r = 1 .. Len(r) /\ DOMAIN xs = 1 .. Len(xs)
  BY <1>1
<1>4. ASSUME NEW y, y \in Range(r) PROVE y \in Range(xs) /\ y \in S
  <2>1. PICK a \in 1 .. Len(r) : y = r[a]
    BY <1>3, <1>4 DEF Range
  <2>2. h[a] \in 1 .. Len(xs) /\ r[a] = xs[h[a]] /\ xs[h[a]] \in S
    BY <1>2 DEF Picks
  <2>3. QED
    BY <1>3, <2>1, <2>2 DEF Range
<1>5. ASSUME NEW y, y \in Range(xs), y \in S PROVE y \in Range(r)
  <2>1. PICK k \in 1 .. Len(xs) : y = xs[k]
    BY <1>3, <1>5 DEF Range
  <2>2. PICK a \in 1 .. Len(r) : h[a] = k
    BY <1>2, <1>5, <2>1 DEF Picks
  <2>3. r[a] = xs[k]
    BY <1>2, <2>2 DEF Picks
  <2>4. QED
    BY <1>3, <2>1, <2>2, <2>3 DEF Range
<1>6. QED
  BY <1>1, <1>4, <1>5 DEF r

\* The parts Good speaks of are the same.
SameFold(f, g) ==
  /\ g.role = f.role /\ g.streamed = f.streamed /\ g.text = f.text /\ g.done = f.done
  /\ g.cut = f.cut /\ g.shells = f.shells /\ g.terminals = f.terminals /\ g.rows = f.rows
  /\ g.replaying = f.replaying

LEMMA GoodSame ==
  ASSUME NEW f, NEW F, NEW T, NEW W, Good(f, F, T, W), NEW g \in Sessions, SameFold(f, g)
  PROVE  Good(g, F, T, W)
<1>1. Shape(g.rows) /\ NoneOK(g.rows) /\ RowsOK(g.rows, W) /\ TextBound(g, T)
  BY DEF Good, SameFold, TextBound
<1>2. \A i \in Items : ItemOK(g, i, F)
  <2> TAKE i \in Items
  <2>1. ItemOK(f, i, F)
    BY DEF Good
  <2>2. TextOK(g, i)
    BY <2>1 DEF ItemOK, TextOK, SameFold
  <2>3. QED
    BY <2>1, <2>2 DEF ItemOK, SameFold
<1>3. QED
  BY <1>1, <1>2 DEF Good

-----------------------------------------------------------------------------
(* What is held, and its release.                                           *)

\* The items with no anchor.
Roots == {a \in Items : Anchor[a] = None}

\* What waits for an anchor: it does not come from a settled anchor outside A, unless that
\* waited itself.
HeldOK(f, F, T, A) ==
  \A x \in Range(f.held) :
    /\ Anchor[x.item] \notin {None, x.item}
    /\ f.replaying => x.item \notin F
    /\ x.total <= T[x.item]
    /\ Anchor[x.item] \in f.done => Anchor[x.item] \in A \/ Anchor[Anchor[x.item]] # None

\* What a release does.
Releases(f, g, A) ==
  /\ g.ver = f.ver /\ g.cursor = f.cursor /\ g.seen = f.seen /\ g.twins = f.twins
  /\ g.active = f.active /\ g.checks = f.checks /\ g.retry = f.retry /\ g.replaying = f.replaying
  /\ \A x \in Range(f.held) : Anchor[x.item] \in A => x.item \in g.done
  /\ \A x \in Range(f.held) : Anchor[x.item] \notin A => x \in Range(g.held)
  /\ \A x \in Range(g.held) : x \in Range(f.held) /\ Anchor[x.item] \notin A
  /\ f.done \subseteq g.done
  /\ \A j \in Items : j \in g.done => j \in f.done \/ Anchor[j] \in A \ {None}
  /\ \A j \in Items : j \in g.done \/ g.text[j] = f.text[j]
  /\ Grows(f.rows, g.rows, Items)

\* Release(f, A) settles what waits for an anchor in A.
LEMMA ReleaseGood ==
  ASSUME NEW f, NEW F, NEW T \in [Items -> Nat], NEW W \in SUBSET Roots, Good(f, F, T, W),
         NEW A, HeldOK(f, F, T, A),
         \A a \in A : Kind[a] \in Showing => HasAny(f.rows, a) \/ a \in W \/ Anchor[a] # None \/ a = None
  PROVE  LET g == Release(f, A)
         IN Good(g, F, T, W) /\ HeldOK(g, F, T, {}) /\ Releases(f, g, A)
<1> DEFINE ready == {x \in Range(f.held) : Anchor[x.item] \in A}
           h == [f EXCEPT !.held = Among(f.held, Range(f.held) \ ready)]
           xs == Among(f.held, ready)
           B == ItemsOf(xs)
           g == CompleteAll(h, xs)
<1>0. Release(f, A) = g
  BY DEF Release
<1>1. f \in Sessions /\ f.held \in Seq(Frames)
  BY SessionFields DEF Good
<1>2. \A x \in Range(f.held) : x \in Frames /\ x.item \in Items
  <2>1. DOMAIN f.held = 1 .. Len(f.held)
    BY <1>1
  <2>2. \A x \in Range(f.held) : x \in Frames
    BY <1>1, <2>1 DEF Range
  <2>3. QED
    BY <2>2 DEF Frames
<1>3. xs \in Seq(Frames) /\ \A y : y \in Range(xs) <=> y \in ready
  BY <1>1, AmongMembers
<1>4. Among(f.held, Range(f.held) \ ready) \in Seq(Frames)
  BY <1>1, AmongMembers
<1>5. h \in Sessions
  BY <1>1, <1>4 DEF Sessions
<1>6. /\ SameFold(f, h) /\ h.held = Among(f.held, Range(f.held) \ ready)
      /\ h.ver = f.ver /\ h.cursor = f.cursor /\ h.seen = f.seen /\ h.twins = f.twins
      /\ h.active = f.active /\ h.checks = f.checks /\ h.retry = f.retry
      /\ h.replaying = f.replaying
  BY <1>1 DEF Sessions, SameFold
<1>7. \A y : y \in Range(h.held) <=> y \in Range(f.held) /\ Anchor[y.item] \notin A
  BY <1>1, <1>6, AmongMembers
<1> HIDE DEF h, xs
<1>8. Good(h, F, T, W)
  BY <1>5, <1>6, GoodSame
<1>9. \A n \in 1 .. Len(xs) : xs[n] \in ready
  <2>1. DOMAIN xs = 1 .. Len(xs)
    BY <1>3
  <2>2. \A n \in 1 .. Len(xs) : xs[n] \in Range(xs)
    BY <2>1 DEF Range
  <2>3. QED
    BY <1>3, <2>2
<1>10. \A n \in 1 .. Len(xs) : Ready(h, xs[n], F, T, W)
  <2> TAKE n \in 1 .. Len(xs)
  <2> DEFINE x == xs[n]
  <2>1. x \in Range(f.held) /\ Anchor[x.item] \in A /\ x \in Frames /\ x.item \in Items
    BY <1>2, <1>9
  <2> HIDE DEF x
  <2>2. /\ Anchor[x.item] # None /\ (f.replaying => x.item \notin F) /\ x.total <= T[x.item]
    BY <2>1 DEF HeldOK
  <2>3. x.item \notin W
    BY <2>2 DEF Roots
  <2>4. Anchored(x.item) => HasAny(h.rows, Anchor[x.item]) \/ Anchor[x.item] \in W
    BY <1>6, <2>1 DEF Anchored, SameFold
  <2>5. Ready(h, x, F, T, W)
    BY <1>6, <2>1, <2>2, <2>3, <2>4 DEF Ready
  <2>6. QED
    BY <2>5 DEF x
<1>11. Good(g, F, T, W) /\ Eff(h, g, B) /\ g.done = h.done \cup B
  <2> HIDE DEF ready
  <2>1. xs \in Seq(Frames) /\ AllReady(h, xs, F, T, W)
    BY <1>3, <1>10 DEF AllReady
  <2>2. Good(g, F, T, W) /\ Completes(h, g, xs)
    BY <1>8, <2>1, CompleteAllGood
  <2>3. QED
    BY <2>2 DEF Completes
<1> HIDE DEF g
<1>12. /\ g.done = f.done \cup B /\ Kept(h, g) /\ g.held = h.held
       /\ \A j \in Items : j \notin B => g.text[j] = f.text[j]
  BY <1>6, <1>11 DEF Eff, Kept, Same, SameFold
<1>13. \A x \in ready : x.item \in B
  <2> TAKE x \in ready
  <2>1. x \in Range(xs) /\ DOMAIN xs = 1 .. Len(xs)
    BY <1>3
  <2>2. PICK n \in 1 .. Len(xs) : x = xs[n]
    BY <2>1 DEF Range
  <2>3. QED
    BY <2>2 DEF ItemsOf
<1>14. \A j \in B : j \in Items /\ Anchor[j] \in A \ {None}
  <2> TAKE j \in B
  <2>1. PICK n \in 1 .. Len(xs) : j = xs[n].item
    BY DEF ItemsOf
  <2>2. xs[n] \in Range(f.held) /\ Anchor[xs[n].item] \in A
    BY <1>9
  <2>3. QED
    BY <1>2, <2>1, <2>2 DEF HeldOK
<1>15. Grows(f.rows, g.rows, Items)
  <2>1. Grows(h.rows, g.rows, B) /\ h.rows = f.rows
    BY <1>6, <1>11 DEF Eff, SameFold
  <2> HIDE DEF B
  <2>2. QED
    BY <1>14, <2>1 DEF Grows
<1> HIDE DEF B
<1>16. HeldOK(g, F, T, {})
  <2> SUFFICES ASSUME NEW x \in Range(g.held)
               PROVE  /\ Anchor[x.item] \notin {None, x.item}
                      /\ g.replaying => x.item \notin F
                      /\ x.total <= T[x.item]
                      /\ Anchor[x.item] \in g.done => Anchor[Anchor[x.item]] # None
    BY DEF HeldOK
  <2>1. x \in Range(f.held) /\ Anchor[x.item] \notin A
    BY <1>7, <1>12
  <2>2. /\ Anchor[x.item] \notin {None, x.item} /\ (f.replaying => x.item \notin F)
        /\ x.total <= T[x.item] /\ (Anchor[x.item] \in f.done => Anchor[Anchor[x.item]] # None)
    BY <2>1 DEF HeldOK
  <2>3. g.replaying = f.replaying
    BY <1>6, <1>12 DEF Kept
  <2>4. Anchor[x.item] \in B => Anchor[Anchor[x.item]] # None
    BY <1>14
  <2>5. QED
    BY <1>12, <2>2, <2>3, <2>4
<1>17. Releases(f, g, A)
  <2>1. /\ g.ver = f.ver /\ g.cursor = f.cursor /\ g.seen = f.seen /\ g.twins = f.twins
        /\ g.active = f.active /\ g.checks = f.checks /\ g.retry = f.retry
        /\ g.replaying = f.replaying
    BY <1>6, <1>12 DEF Kept
  <2>2. \A x \in Range(f.held) : Anchor[x.item] \in A => x.item \in g.done
    BY <1>12, <1>13
  <2>3. \A x \in Range(f.held) : Anchor[x.item] \notin A => x \in Range(g.held)
    BY <1>7, <1>12
  <2>4. \A x \in Range(g.held) : x \in Range(f.held) /\ Anchor[x.item] \notin A
    BY <1>7, <1>12
  <2>5. /\ f.done \subseteq g.done
        /\ \A j \in Items : j \in g.done => j \in f.done \/ Anchor[j] \in A \ {None}
        /\ \A j \in Items : j \in g.done \/ g.text[j] = f.text[j]
    BY <1>12, <1>14
  <2>6. QED
    BY <1>15, <2>1, <2>2, <2>3, <2>4, <2>5 DEF Releases
<1>18. QED
  BY <1>0, <1>11, <1>16, <1>17

\* From f to g nothing that was settled, or held, is forgotten.
Onward(f, g) ==
  /\ g.cursor = f.cursor /\ g.seen = f.seen /\ g.twins = f.twins /\ g.replaying = f.replaying
  /\ f.done \subseteq g.done
  /\ \A y \in Range(f.held) : y \in Range(g.held) \/ y.item \in g.done

\* No text of an item that is not settled was touched.
Quietly(f, g) == \A j \in Items : j \in g.done \/ g.text[j] = f.text[j]

\* The item's final object was folded.
Settled(f, i) == i \in f.done \/ \E y \in Range(f.held) : y.item = i

LEMMA OnwardTrans ==
  ASSUME NEW f, NEW g, NEW h, Onward(f, g), Onward(g, h)
  PROVE  Onward(f, h)
BY DEF Onward

LEMMA QuietlyTrans ==
  ASSUME NEW f, NEW g, NEW h, Quietly(f, g), Quietly(g, h), g.done \subseteq h.done
  PROVE  Quietly(f, h)
BY DEF Quietly

LEMMA OnwardSettled ==
  ASSUME NEW f, NEW g, Onward(f, g), NEW i, Settled(f, i)
  PROVE  Settled(g, i)
BY DEF Onward, Settled

LEMMA ReleasesOnward ==
  ASSUME NEW f, NEW g, NEW A, Releases(f, g, A)
  PROVE  Onward(f, g) /\ Quietly(f, g)
BY DEF Releases, Onward, Quietly

\* HeldOK speaks of little.
LEMMA HeldOKSame ==
  ASSUME NEW f, NEW g, NEW F, NEW T, NEW A, HeldOK(f, F, T, A), g.held = f.held,
         g.replaying => f.replaying, g.done = f.done
  PROVE  HeldOK(g, F, T, A)
BY DEF HeldOK

LEMMA EffOnward ==
  ASSUME NEW f, NEW g, NEW A, Eff(f, g, A)
  PROVE  Onward(f, g)
BY DEF Eff, Kept, Onward

LEMMA AppendRange ==
  ASSUME NEW q \in Seq(Frames), NEW x \in Frames
  PROVE  \A y : y \in Range(Append(q, x)) <=> y \in Range(q) \/ y = x
<1> DEFINE r == Append(q, x)
<1>1. /\ DOMAIN q = 1 .. Len(q) /\ DOMAIN r = 1 .. Len(q) + 1 /\ Len(q) \in Nat
      /\ r[Len(q) + 1] = x /\ \A p \in 1 .. Len(q) : r[p] = q[p]
  OBVIOUS
<1> HIDE DEF r
<1>2. ASSUME NEW y, y \in Range(r) PROVE y \in Range(q) \/ y = x
  <2>1. PICK p \in 1 .. Len(q) + 1 : y = r[p]
    BY <1>1, <1>2 DEF Range
  <2>2. CASE p \in 1 .. Len(q)
    BY <1>1, <2>1, <2>2 DEF Range
  <2>3. CASE p = Len(q) + 1
    BY <1>1, <2>1, <2>3
  <2>4. QED
    BY <1>1, <2>1, <2>2, <2>3
<1>3. ASSUME NEW y, y \in Range(q) PROVE y \in Range(r)
  <2>1. PICK p \in 1 .. Len(q) : y = q[p]
    BY <1>1, <1>3 DEF Range
  <2>2. p \in 1 .. Len(q) + 1 /\ y = r[p]
    BY <1>1, <2>1
  <2>3. QED
    BY <1>1, <2>2 DEF Range
<1>4. x \in Range(r)
  <2>1. Len(q) + 1 \in 1 .. Len(q) + 1
    BY <1>1
  <2>2. QED
    BY <1>1, <2>1 DEF Range
<1>5. QED
  BY <1>2, <1>3, <1>4 DEF r

\* A final row that need not wait comes after its anchor's first.
LEMMA NotDeferring ==
  ASSUME NEW f, NEW F, NEW T, NEW W, Good(f, F, T, W), NEW i \in Items, ~Deferring(f, i),
         Anchored(i)
  PROVE  HasAny(f.rows, Anchor[i])
<1> DEFINE a == Anchor[i]
<1>1. a \in Items /\ a # None /\ Kind[a] \in Showing /\ Anchor[a] = None
  BY TranscriptAssumption DEF Anchored
<1>2. a # i
  BY <1>1
<1>3. f.role[a] # "none" \/ a \in f.done
  BY <1>1, <1>2 DEF Deferring
<1>4. ItemOK(f, a, F)
  BY <1>1 DEF Good
<1>5. QED
  BY <1>1, <1>3, <1>4 DEF ItemOK

\* A completion settles its item, or holds it for an anchor that has not appeared.
LEMMA OnItemCompletedGood ==
  ASSUME NEW f, NEW F, NEW T \in [Items -> Nat], NEW W \in SUBSET Roots, Good(f, F, T, W),
         HeldOK(f, F, T, {}), NEW x \in Frames, f.replaying => x.item \notin F,
         x.total <= T[x.item], x.item \notin W
  PROVE  LET g == OnItemCompleted(f, x)
         IN /\ Good(g, F, T, W) /\ HeldOK(g, F, T, {}) /\ Onward(f, g) /\ Quietly(f, g)
            /\ Settled(g, x.item) /\ (Anchor[x.item] = None => x.item \in g.done)
<1> DEFINE i == x.item
           g == OnItemCompleted(f, x)
<1>0. i \in Items /\ f \in Sessions /\ f.held \in Seq(Frames) /\ DOMAIN f.held = 1 .. Len(f.held)
  <2>1. i \in Items /\ f \in Sessions
    BY DEF Frames, Good
  <2>2. QED
    BY <2>1, SessionFields
<1>1. CASE Deferring(f, i) /\ \E n \in DOMAIN f.held : f.held[n].item = i
  <2>1. g = f
    BY <1>1 DEF OnItemCompleted
  <2>2. Settled(f, i)
    BY <1>1 DEF Settled, Range
  <2>3. Onward(f, f) /\ Quietly(f, f) /\ Anchor[i] # None
    BY <1>1 DEF Onward, Quietly, Deferring
  <2> HIDE DEF g
  <2>4. QED
    BY <2>1, <2>2, <2>3 DEF g
<1>2. CASE Deferring(f, i) /\ ~\E n \in DOMAIN f.held : f.held[n].item = i
  <2>1. g = [f EXCEPT !.held = Append(f.held, x)]
    BY <1>2 DEF OnItemCompleted
  <2>2. Append(f.held, x) \in Seq(Frames)
    BY <1>0
  <2>3. /\ g \in Sessions /\ SameFold(f, g) /\ g.held = Append(f.held, x)
        /\ g.cursor = f.cursor /\ g.seen = f.seen /\ g.twins = f.twins
    BY <1>0, <2>1, <2>2, ZenonT(30) DEF Sessions, SameFold
  <2> HIDE DEF g
  <2>4. Good(g, F, T, W)
    BY <2>3, GoodSame
  <2>5. \A y : y \in Range(g.held) <=> y \in Range(f.held) \/ y = x
    BY <1>0, <2>3, AppendRange
  <2>6. HeldOK(g, F, T, {})
    <3>1. Anchor[i] \notin {None, i} /\ Anchor[i] \notin f.done
      BY <1>2 DEF Deferring
    <3>2. g.done = f.done /\ g.replaying = f.replaying
      BY <2>3 DEF SameFold
    <3>3. QED
      BY <2>5, <3>1, <3>2 DEF HeldOK
  <2>7. Onward(f, g) /\ Quietly(f, g)
    BY <2>3, <2>5 DEF Onward, Quietly, SameFold
  <2>8. Settled(g, i)
    BY <2>5 DEF Settled
  <2>9. Anchor[i] # None
    BY <1>2 DEF Deferring
  <2>10. QED
    BY <2>4, <2>6, <2>7, <2>8, <2>9 DEF g
<1>3. CASE ~Deferring(f, i)
  <2> DEFINE h == CompleteItem(f, x)
  <2>1. g = Release(h, {i})
    BY <1>3 DEF OnItemCompleted, ReleaseAnchor
  <2>2. Ready(f, x, F, T, W)
    <3>1. Anchored(i) => HasAny(f.rows, Anchor[i])
      BY <1>0, <1>3, NotDeferring
    <3>2. QED
      BY <3>1 DEF Ready
  <2>3. Good(h, F, T, W) /\ Eff(f, h, {i}) /\ Closes(f, h, x)
    BY <2>2, CompleteItemGood
  <2> HIDE DEF h, g
  <2>4. i \in h.done /\ h.held = f.held /\ h.replaying = f.replaying /\ h.done = f.done \cup {i}
    BY <2>3 DEF Closes, Eff, Kept
  <2>5. HeldOK(h, F, T, {i})
    BY <2>4 DEF HeldOK
  <2>6. Kind[i] \in Showing => HasAny(h.rows, i)
    <3>1. ItemOK(h, i, F)
      BY <1>0, <2>3 DEF Good
    <3>2. QED
      BY <2>4, <3>1 DEF ItemOK
  <2>7. \A a \in {i} : Kind[a] \in Showing => HasAny(h.rows, a) \/ a \in W \/ Anchor[a] # None \/ a = None
    BY <2>6
  <2>8. Good(g, F, T, W) /\ HeldOK(g, F, T, {}) /\ Releases(h, g, {i})
    BY <2>1, <2>3, <2>5, <2>7, ReleaseGood
  <2>9. Onward(f, h) /\ Onward(h, g) /\ Quietly(h, g) /\ h.done \subseteq g.done
    BY <2>3, <2>8, EffOnward, ReleasesOnward DEF Releases
  <2>10. Quietly(f, h)
    BY <2>3, <2>4 DEF Quietly, Eff, Same
  <2>11. Onward(f, g) /\ Quietly(f, g)
    BY <2>9, <2>10, OnwardTrans, QuietlyTrans
  <2>12. i \in g.done
    BY <2>4, <2>9
  <2>13. QED
    BY <2>8, <2>11, <2>12 DEF Settled, g
<1>4. QED
  BY <1>1, <1>2, <1>3

\* A turn ends: what is before its row is ordered.
LEMMA TurnRowGood ==
  ASSUME NEW f, NEW F, NEW T, NEW W, Good(f, F, T, W)
  PROVE  LET g == Row(f, None, "turn")
         IN /\ Good(g, F, T, {}) /\ Onward(f, g) /\ g.held = f.held /\ g.done = f.done
            /\ g.text = f.text
<1> DEFINE g == Row(f, None, "turn")
           q == f.rows
           r == g.rows
<1>1. /\ f \in Sessions /\ q \in Seq(Lines) /\ Shape(q) /\ NoneOK(q) /\ RowsOK(q, W)
      /\ \A i \in Items : i # None
  BY SessionFields, TranscriptAssumption DEF Good
<1>2. Append(q, <<None, "turn">>) \in Seq(Lines)
  BY <1>1 DEF Lines, Words
<1>3. g \in Sessions
  BY <1>1, <1>2 DEF Row, Sessions
<1>4. /\ g.role = f.role /\ g.streamed = f.streamed /\ g.text = f.text /\ g.done = f.done
      /\ g.cut = f.cut /\ g.shells = f.shells /\ g.terminals = f.terminals
      /\ r = Append(q, <<None, "turn">>) /\ Kept(f, g)
  BY <1>1 DEF Row, Sessions, Kept
<1> HIDE DEF g
<1>5. Adds(q, r, None, "turn")
  <2>1. ~HasRow(q, None, "final")
    BY <1>1 DEF NoneOK
  <2> HIDE DEF q, r
  <2>2. QED
    BY <1>4, <2>1 DEF Adds, Words, Single
<1>6. Shape(r) /\ Grows(q, r, {None})
  <2> HIDE DEF q, r
  <2>1. None \in Items \cup {None}
    OBVIOUS
  <2>2. QED
    BY <1>1, <1>5, <2>1, AddRow
<1>7. \A v : HasRow(r, None, v) => HasRow(q, None, v) \/ v = "turn"
  <2> DEFINE w == "turn"
  <2>0. Adds(q, r, None, w)
    BY <1>5
  <2> HIDE DEF q, r, w
  <2>1. None \in Items \cup {None}
    OBVIOUS
  <2>2. \A j, v : HasRow(r, j, v) => HasRow(q, j, v) \/ (j = None /\ v = w)
    BY <1>1, <2>0, <2>1, AddRow, ZenonT(30)
  <2>3. QED
    BY <2>2 DEF w
<1>8. NoneOK(r)
  BY <1>1, <1>7 DEF NoneOK
<1>9. RowsOK(r, {})
  <2> HIDE DEF q, r
  <2>1. QED
    BY <1>1, <1>4, RowsTurn
<1>10. \A i \in Items : ItemOK(g, i, F)
  <2> TAKE i \in Items
  <2>1. ItemOK(f, i, F)
    BY DEF Good
  <2>2. Eff(f, g, {None})
    BY <1>3, <1>4, <1>6 DEF Eff, Same
  <2>3. i \notin {None}
    BY <1>1
  <2>4. QED
    BY <1>1, <2>1, <2>2, <2>3, EffItem
<1>11. TextBound(g, T)
  BY <1>4 DEF TextBound, Good
<1>12. Good(g, F, T, {})
  BY <1>3, <1>6, <1>8, <1>9, <1>10, <1>11 DEF Good
<1>13. Onward(f, g) /\ g.held = f.held
  BY <1>4 DEF Onward, Kept
<1>14. QED
  BY <1>4, <1>12, <1>13 DEF g

\* Everything that waits may be released when a turn ends.
LEMMA FlushGood ==
  ASSUME NEW f, NEW F, NEW T \in [Items -> Nat], NEW W, NEW coming \in SUBSET Items,
         Good(f, F, T, W), W \subseteq Roots \ coming, HeldOK(f, F, T, {})
  PROVE  LET g == FlushUnless(f, coming)
         IN /\ Good(g, F, T, Roots \ coming) /\ HeldOK(g, F, T, {})
            /\ Onward(f, g) /\ Quietly(f, g)
<1> DEFINE A == (Items \cup {None}) \ coming
           V == Roots \ coming
           g == FlushUnless(f, coming)
<1>1. g = Release(f, A)
  BY DEF FlushUnless
<1>2. Good(f, F, T, V)
  BY RowsWider DEF Good
<1>3. HeldOK(f, F, T, A)
  BY DEF HeldOK
<1>4. \A a \in A : Kind[a] \in Showing => HasAny(f.rows, a) \/ a \in V \/ Anchor[a] # None \/ a = None
  BY DEF Roots
<1>5. V \in SUBSET Roots
  OBVIOUS
<1> HIDE DEF A, V, g
<1>6. Good(g, F, T, V) /\ HeldOK(g, F, T, {}) /\ Releases(f, g, A)
  BY <1>1, <1>2, <1>3, <1>4, <1>5, ReleaseGood
<1>7. QED
  BY <1>6, ReleasesOnward DEF g, V

\* The turn's fields.
SetTurn(f, a, c, r) == [f EXCEPT !.active = a, !.checks = c, !.retry = r]

\* Only what Good does not speak of changed.
Aside(f, g) == SameFold(f, g) /\ Onward(f, g) /\ g.held = f.held

LEMMA TurnFieldGood ==
  ASSUME NEW f, NEW F, NEW T, NEW W, Good(f, F, T, W), NEW a \in Nat, NEW c \in Nat, NEW r \in Nat
  PROVE  Good(SetTurn(f, a, c, r), F, T, W) /\ Aside(f, SetTurn(f, a, c, r))
<1> DEFINE g == SetTurn(f, a, c, r)
<1>1. f \in Sessions
  BY DEF Good
<1>2. g \in Sessions
  BY <1>1 DEF Sessions, SetTurn
<1>3. /\ SameFold(f, g) /\ g.held = f.held /\ g.cursor = f.cursor /\ g.seen = f.seen
      /\ g.twins = f.twins
  BY <1>1 DEF Sessions, SameFold, SetTurn
<1> HIDE DEF g
<1>4. Good(g, F, T, W)
  BY <1>2, <1>3, GoodSame
<1>5. Onward(f, g)
  BY <1>3 DEF Onward, SameFold
<1>6. QED
  BY <1>3, <1>4, <1>5 DEF Aside, g

LEMMA TotalNat ==
  ASSUME NEW i, NEW c \in Nat
  PROVE  Total(i, c) \in Nat
<1> DEFINE S == {k \in 1 .. c : log[k].what = "delta" /\ log[k].item = i}
<1>1. IsFiniteSet(1 .. c)
  BY FS_Interval
<1>2. IsFiniteSet(S)
  BY <1>1, FS_Subset
<1>3. Cardinality(S) \in Nat
  <2> HIDE DEF S
  <2>1. QED
    BY <1>2, FS_CardinalityType
<1>4. QED
  BY <1>3 DEF Total

LEMMA TotalMono ==
  ASSUME NEW i, NEW c \in Nat, NEW d \in Nat, c <= d
  PROVE  Total(i, c) <= Total(i, d)
<1> DEFINE S(b) == {k \in 1 .. b : log[k].what = "delta" /\ log[k].item = i}
<1>1. IsFiniteSet(1 .. d)
  BY FS_Interval
<1>2. IsFiniteSet(S(d)) /\ S(c) \subseteq S(d)
  BY <1>1, FS_Subset
<1>3. Cardinality(S(c)) <= Cardinality(S(d))
  <2> HIDE DEF S
  <2>1. QED
    BY <1>2, FS_Subset
<1>4. QED
  BY <1>3 DEF Total

Tot == [i \in Items |-> Total(i, Len(log))]

LEMMA TotType ==
  ASSUME log \in Seq(Events)
  PROVE  Tot \in [Items -> Nat]
<1>1. Len(log) \in Nat
  OBVIOUS
<1>2. QED
  BY <1>1, TotalNat DEF Tot

LEMMA FrameType ==
  ASSUME NEW i \in Items, NEW c \in Nat
  PROVE  Frame(i, c) \in Frames /\ Frame(i, c).item = i /\ Frame(i, c).total = Total(i, c)
<1>1. Total(i, c) \in Nat /\ CutOff(i, c) \in BOOLEAN
  BY TotalNat DEF CutOff
<1>2. QED
  BY <1>1 DEF Frame, Frames

LEMMA EventType ==
  ASSUME log \in Seq(Events), NEW k \in 1 .. Len(log)
  PROVE  /\ log[k].what \in ItemEvents \cup TurnEvents /\ log[k].n \in Nat
         /\ log[k].what \in ItemEvents => log[k].item \in Items
<1>1. log[k] \in Events
  OBVIOUS
<1>2. QED
  BY <1>1 DEF Events, ItemEvents, TurnEvents

\* What the text of an item may have become when event k was folded.
Streams(f, g, k) ==
  \A j \in Items :
    \/ j \in g.done \/ g.text[j] = f.text[j]
    \/ log[k].what = "delta" /\ log[k].item = j /\ g.text[j] = Append(f.text[j], log[k].n)

\* A delta is the next of its item.
Clear(f, k) ==
  log[k].what = "delta" =>
    /\ log[k].item \in f.done \/ Below(f, log[k].item, log[k].n)
    /\ log[k].n <= Tot[log[k].item]

LEMMA ShownBound ==
  ASSUME NEW f \in Sessions, NEW g, NEW T \in [Items -> Nat], NEW i \in Items, TextBound(f, T),
         NEW n \in Nat, n <= T[i], Shown(f, g, i, n)
  PROVE  \A p \in 1 .. Len(g.text[i]) : g.text[i][p] <= T[i]
<1>1. CASE g.text = f.text
  BY <1>1 DEF TextBound
<1>2. CASE g.text = [f.text EXCEPT ![i] = Append(f.text[i], n)]
  <2>1. f.text[i] \in Seq(Nat) /\ g.text[i] = Append(f.text[i], n)
    BY <1>2, SessionFields
  <2>2. \A p \in 1 .. Len(f.text[i]) : f.text[i][p] <= T[i]
    BY DEF TextBound
  <2> DEFINE q == f.text[i]
  <2>3. SUFFICES ASSUME NEW p \in 1 .. Len(g.text[i]) PROVE g.text[i][p] <= T[i]
    OBVIOUS
  <2>4. CASE p \in 1 .. Len(q)
    BY <2>1, <2>2, <2>4
  <2>5. CASE p = Len(q) + 1
    BY <2>1, <2>5
  <2>6. p \in 1 .. Len(q) \/ p = Len(q) + 1
    BY <2>1
  <2>7. QED
    BY <2>4, <2>5, <2>6
<1>3. QED
  BY <1>1, <1>2 DEF Shown

LEMMA SnapshotGood ==
  ASSUME NEW f, NEW F, NEW T, NEW W, Good(f, F, T, W), HeldOK(f, F, T, {}), NEW x \in Frames,
         f.replaying => x.item \in F, x.item \notin W
  PROVE  LET g == OnItemSnapshot(f, x)
         IN /\ Good(g, F, T, W) /\ HeldOK(g, F, T, {}) /\ Onward(f, g) /\ g.done = f.done
            /\ g.text = f.text
            /\ Kind[x.item] \in Showing => HasAny(g.rows, x.item)
            /\ Kind[x.item] = "message" /\ x.item \notin f.done => g.role[x.item] = "message"
<1> DEFINE i == x.item
           g == OnItemSnapshot(f, x)
<1>1. /\ f \in Sessions /\ i \in Items /\ Shape(f.rows) /\ ItemOK(f, i, F) /\ TextBound(f, T)
  BY DEF Good, Frames
<1>2. /\ Eff(f, g, {i}) /\ ItemOK(g, i, F) /\ g.done = f.done /\ g.text = f.text
      /\ Kind[i] \in Showing => HasAny(g.rows, i)
      /\ Kind[i] = "message" /\ i \notin f.done => g.role[i] = "message"
  BY <1>1, OnItemSnapshotOK
<1>3. NoFinal(f, g, i)
  BY <1>1, <1>2, SnapshotNoFinal
<1> HIDE DEF g
<1>4. \A p \in 1 .. Len(g.text[i]) : g.text[i][p] <= T[i]
  BY <1>1, <1>2 DEF TextBound
<1>5. Good(g, F, T, W)
  BY <1>1, <1>2, <1>3, <1>4, GoodStep
<1>6. Onward(f, g) /\ g.held = f.held /\ g.replaying = f.replaying
  BY <1>2, EffOnward DEF Eff, Kept
<1>7. HeldOK(g, F, T, {})
  BY <1>2, <1>6 DEF HeldOK
<1>8. QED
  BY <1>2, <1>5, <1>6, <1>7 DEF g

LEMMA DeltaGood ==
  ASSUME NEW f, NEW F, NEW T \in [Items -> Nat], NEW W, Good(f, F, T, W), HeldOK(f, F, T, {}),
         NEW i \in Items, i \notin W, NEW n \in Nat, i \in f.done \/ Below(f, i, n), n <= T[i]
  PROVE  LET g == OnItemDelta(f, i, n)
         IN Good(g, F, T, W) /\ HeldOK(g, F, T, {}) /\ Onward(f, g) /\ Shown(f, g, i, n)
<1> DEFINE g == OnItemDelta(f, i, n)
<1>1. f \in Sessions /\ Shape(f.rows) /\ ItemOK(f, i, F) /\ TextBound(f, T)
  BY DEF Good
<1>2. Eff(f, g, {i}) /\ ItemOK(g, i, F) /\ Shown(f, g, i, n)
  BY <1>1, OnItemDeltaOK
<1>3. NoFinal(f, g, i)
  BY <1>1, <1>2, DeltaNoFinal DEF Shown
<1> HIDE DEF g
<1>4. \A p \in 1 .. Len(g.text[i]) : g.text[i][p] <= T[i]
  BY <1>1, <1>2, ShownBound
<1>5. Good(g, F, T, W)
  BY <1>1, <1>2, <1>3, <1>4, GoodStep
<1>6. Onward(f, g) /\ g.held = f.held /\ g.replaying = f.replaying
  BY <1>2, EffOnward DEF Eff, Kept
<1>7. HeldOK(g, F, T, {})
  BY <1>2, <1>6 DEF HeldOK, Shown
<1>8. QED
  BY <1>2, <1>5, <1>6, <1>7 DEF g

LEMMA TurnCompletedGood ==
  ASSUME NEW f, NEW F, NEW T \in [Items -> Nat], Good(f, F, T, {}), HeldOK(f, F, T, {}), NEW t \in Nat
  PROVE  LET g == TurnCompleted(f, t)
         IN Good(g, F, T, {}) /\ HeldOK(g, F, T, {}) /\ Onward(f, g) /\ Quietly(f, g)
<1> DEFINE a == IF f.active = t THEN 0 ELSE f.active
           c == IF f.checks = t THEN 0 ELSE f.checks
           r == IF f.retry = t THEN 0 ELSE f.retry
           e == SetTurn(f, a, c, r)
           h == FlushUnless(e, {})
           g == TurnCompleted(f, t)
<1>1. f \in Sessions
  BY DEF Good
<1>2. a \in Nat /\ c \in Nat /\ r \in Nat
  BY <1>1, SessionFields
<1>3. ClearRetry(SettleChecks([f EXCEPT !.active = IF @ = t THEN 0 ELSE @], t), t) = e
  BY <1>1 DEF ClearRetry, SettleChecks, Sessions, SetTurn
<1>4. g = Row(h, None, "turn")
  BY <1>3 DEF TurnCompleted, FlushAnchors
<1> HIDE DEF a, c, r
<1>5a. Good(e, F, T, {}) /\ Aside(f, e)
  BY <1>2, TurnFieldGood
<1>5. Good(e, F, T, {}) /\ SameFold(f, e) /\ Onward(f, e) /\ e.held = f.held
  BY <1>5a DEF Aside
<1> HIDE DEF e, g
<1>6. HeldOK(e, F, T, {})
  BY <1>5 DEF HeldOK, SameFold
<1>7. Good(h, F, T, Roots) /\ HeldOK(h, F, T, {}) /\ Onward(e, h) /\ Quietly(e, h)
  <2>1. {} \in SUBSET Items /\ {} \subseteq Roots \ {} /\ Roots \ {} = Roots
    OBVIOUS
  <2>2. QED
    BY <1>5, <1>6, <2>1, FlushGood
<1> HIDE DEF h
<1>8. Good(g, F, T, {}) /\ Onward(h, g) /\ g.held = h.held /\ g.done = h.done /\ g.text = h.text
  BY <1>4, <1>7, TurnRowGood
<1>9. HeldOK(g, F, T, {})
  BY <1>7, <1>8 DEF HeldOK, Onward
<1>10. Onward(f, g)
  BY <1>5, <1>7, <1>8, OnwardTrans
<1>11. Quietly(f, g)
  BY <1>5, <1>7, <1>8 DEF Quietly, SameFold
<1>12. QED
  BY <1>8, <1>9, <1>10, <1>11 DEF g

\* A session between two events.
Sound(f) == Good(f, {}, Tot, {}) /\ HeldOK(f, {}, Tot, {}) /\ ~f.replaying

\* From f to g event k was folded.
Folds(f, g, k) ==
  /\ Sound(g) /\ Onward(f, g) /\ Streams(f, g, k)
  /\ log[k].what = "completed" => Settled(g, log[k].item)

LEMMA FoldsSnapshot ==
  ASSUME NEW f, Sound(f), log \in Seq(Events), NEW k \in 1 .. Len(log),
         log[k].what \in {"started", "updated"}
  PROVE  Folds(f, OnItemSnapshot(f, Frame(log[k].item, k)), k)
<1> DEFINE x == Frame(log[k].item, k)
           g == OnItemSnapshot(f, x)
<1>1. x \in Frames
  BY EventType, FrameType DEF ItemEvents
<1> HIDE DEF x
<1>2. /\ Good(g, {}, Tot, {}) /\ HeldOK(g, {}, Tot, {}) /\ Onward(f, g) /\ g.done = f.done
      /\ g.text = f.text
  BY <1>1, SnapshotGood DEF Sound
<1> HIDE DEF g
<1>3. Streams(f, g, k)
  BY <1>2 DEF Streams
<1>4. Sound(g)
  BY <1>2 DEF Sound, Onward
<1>5. QED
  BY <1>2, <1>3, <1>4 DEF Folds, g, x

LEMMA FoldsDelta ==
  ASSUME NEW f, Sound(f), log \in Seq(Events), NEW k \in 1 .. Len(log), Clear(f, k),
         log[k].what = "delta"
  PROVE  Folds(f, OnItemDelta(f, log[k].item, log[k].n), k)
<1> DEFINE i == log[k].item
           n == log[k].n
           g == OnItemDelta(f, i, n)
<1>1. i \in Items /\ n \in Nat /\ Tot \in [Items -> Nat]
  BY EventType, TotType DEF ItemEvents
<1>2. (i \in f.done \/ Below(f, i, n)) /\ n <= Tot[i]
  BY DEF Clear
<1> HIDE DEF i, n
<1>3. Good(g, {}, Tot, {}) /\ HeldOK(g, {}, Tot, {}) /\ Onward(f, g) /\ Shown(f, g, i, n)
  BY <1>1, <1>2, DeltaGood DEF Sound
<1> HIDE DEF g
<1>4. f.text \in [Items -> Seq(Nat)]
  BY SessionFields DEF Sound, Good
<1>5. Streams(f, g, k)
  BY <1>1, <1>3, <1>4 DEF Streams, Shown, i, n
<1>6. Sound(g)
  BY <1>3 DEF Sound, Onward
<1>7. QED
  BY <1>3, <1>5, <1>6 DEF Folds, g, i, n

LEMMA FoldsCompleted ==
  ASSUME NEW f, Sound(f), log \in Seq(Events), NEW k \in 1 .. Len(log),
         log[k].what = "completed"
  PROVE  Folds(f, OnItemCompleted(f, Frame(log[k].item, k)), k)
<1> DEFINE i == log[k].item
           x == Frame(i, k)
           g == OnItemCompleted(f, x)
<1>1. i \in Items /\ Tot \in [Items -> Nat]
  BY EventType, TotType DEF ItemEvents
<1> HIDE DEF i
<1>2. x \in Frames /\ x.item = i /\ x.total = Total(i, k)
  BY <1>1, FrameType
<1>3. x.total <= Tot[x.item]
  <2>1. Len(log) \in Nat /\ k \in Nat /\ k <= Len(log)
    OBVIOUS
  <2>2. Total(i, k) <= Total(i, Len(log))
    BY <2>1, TotalMono
  <2>3. QED
    BY <1>1, <1>2, <2>2 DEF Tot
<1> HIDE DEF x
<1>4. {} \in SUBSET Roots /\ x.item \notin {}
  OBVIOUS
<1>5. Good(g, {}, Tot, {}) /\ HeldOK(g, {}, Tot, {}) /\ Onward(f, g) /\ Quietly(f, g)
      /\ Settled(g, i)
  BY <1>1, <1>2, <1>3, <1>4, OnItemCompletedGood DEF Sound
<1> HIDE DEF g
<1>6. Streams(f, g, k)
  BY <1>5 DEF Streams, Quietly
<1>7. Sound(g)
  BY <1>5 DEF Sound, Onward
<1>8. QED
  BY <1>5, <1>6, <1>7 DEF Folds, g, i, x

LEMMA FoldsTurn ==
  ASSUME NEW f, Sound(f), log \in Seq(Events), NEW k \in 1 .. Len(log),
         log[k].what \in TurnEvents
  PROVE  Folds(f, Fold(f, k), k)
<1> DEFINE n == log[k].n
<1>1. n \in Nat /\ f \in Sessions /\ Tot \in [Items -> Nat]
  BY EventType, TotType DEF Sound, Good
<1>2. /\ log[k].what \notin {"started", "updated", "delta", "completed"}
      /\ log[k].what \in {"turnStarted", "foreground", "retry", "turnDone"}
  BY DEF TurnEvents
<1> HIDE DEF n
<1>3. CASE log[k].what = "turnDone"
  <2> DEFINE g == TurnCompleted(f, n)
  <2>1. Fold(f, k) = g
    BY <1>3 DEF Fold, n
  <2>2. Good(g, {}, Tot, {}) /\ HeldOK(g, {}, Tot, {}) /\ Onward(f, g) /\ Quietly(f, g)
    BY <1>1, TurnCompletedGood DEF Sound
  <2> HIDE DEF g
  <2>3. Streams(f, g, k) /\ Sound(g)
    BY <2>2 DEF Streams, Quietly, Sound, Onward
  <2>4. QED
    BY <1>3, <2>1, <2>2, <2>3 DEF Folds
<1>4. CASE log[k].what # "turnDone"
  <2>1. PICK a \in Nat, c \in Nat, r \in Nat : Fold(f, k) = SetTurn(f, a, c, r)
    <3>1. CASE log[k].what = "turnStarted"
      <4>1. Fold(f, k) = [f EXCEPT !.active = n]
        BY <3>1 DEF Fold, TurnStarted, n
      <4>2. [f EXCEPT !.active = n] = SetTurn(f, n, f.checks, f.retry)
        BY <1>1 DEF SetTurn, Sessions
      <4>3. QED
        BY <1>1, <4>1, <4>2, SessionFields
    <3>2. CASE log[k].what = "foreground"
      <4>1. Fold(f, k) = IF f.active = n THEN [f EXCEPT !.checks = n] ELSE f
        BY <3>2 DEF Fold, Foreground, n
      <4>2. [f EXCEPT !.checks = n] = SetTurn(f, f.active, n, f.retry)
        BY <1>1 DEF SetTurn, Sessions
      <4>3. f = SetTurn(f, f.active, f.checks, f.retry)
        BY <1>1 DEF SetTurn, Sessions
      <4>4. QED
        BY <1>1, <4>1, <4>2, <4>3, SessionFields
    <3>3. CASE log[k].what = "retry"
      <4>1. Fold(f, k) = IF f.active = n THEN [f EXCEPT !.retry = n] ELSE f
        BY <3>3 DEF Fold, RetryScheduled, n
      <4>2. [f EXCEPT !.retry = n] = SetTurn(f, f.active, f.checks, n)
        BY <1>1 DEF SetTurn, Sessions
      <4>3. f = SetTurn(f, f.active, f.checks, f.retry)
        BY <1>1 DEF SetTurn, Sessions
      <4>4. QED
        BY <1>1, <4>1, <4>2, <4>3, SessionFields
    <3>4. QED
      BY <1>2, <1>4, <3>1, <3>2, <3>3
  <2> DEFINE g == SetTurn(f, a, c, r)
  <2>2. Good(g, {}, Tot, {}) /\ Aside(f, g)
    BY TurnFieldGood DEF Sound
  <2> HIDE DEF g
  <2>3. HeldOK(g, {}, Tot, {}) /\ ~g.replaying
    BY <2>2 DEF Sound, HeldOK, Aside, SameFold
  <2>4. Streams(f, g, k) /\ Sound(g) /\ Onward(f, g)
    BY <2>2, <2>3 DEF Streams, Aside, SameFold, Sound
  <2>5. QED
    BY <1>2, <2>1, <2>4 DEF Folds, g
<1>5. QED
  BY <1>3, <1>4

LEMMA FoldFolds ==
  ASSUME NEW f, Sound(f), log \in Seq(Events), NEW k \in 1 .. Len(log), Clear(f, k)
  PROVE  Folds(f, Fold(f, k), k)
<1>1. log[k].what \in ItemEvents \cup TurnEvents
  BY EventType
<1>2. CASE log[k].what \in {"started", "updated"}
  <2>1. Fold(f, k) = OnItemSnapshot(f, Frame(log[k].item, k))
    BY <1>2 DEF Fold
  <2>2. QED
    BY <1>2, <2>1, FoldsSnapshot
<1>3. CASE log[k].what = "delta"
  <2>1. Fold(f, k) = OnItemDelta(f, log[k].item, log[k].n)
    BY <1>3 DEF Fold
  <2>2. QED
    BY <1>3, <2>1, FoldsDelta
<1>4. CASE log[k].what = "completed"
  <2>1. Fold(f, k) = OnItemCompleted(f, Frame(log[k].item, k))
    BY <1>4 DEF Fold
  <2>2. QED
    BY <1>4, <2>1, FoldsCompleted
<1>5. CASE log[k].what \in TurnEvents
  BY <1>5, FoldsTurn
<1>6. QED
  BY <1>1, <1>2, <1>3, <1>4, <1>5 DEF ItemEvents

-----------------------------------------------------------------------------
(* handle_msp.                                                              *)

\* From f to g the event at cursor k was handled.
Handles(f, g, k) ==
  /\ Sound(g) /\ Streams(f, g, k) /\ f.done \subseteq g.done
  /\ \A j \in Items : Settled(f, j) => Settled(g, j)
  /\ g.cursor = k /\ g.twins = f.twins \ {k}
  /\ f.seen \subseteq g.seen /\ g.seen \subseteq f.seen \cup {k}
  /\ log[k].what = "completed" /\ k \notin f.twins \cup f.seen => Settled(g, log[k].item)
  /\ log[k].what \in ItemEvents /\ k \notin f.twins => k \in g.seen

\* The bookkeeping of a cursor.
Marks(f, g, k) ==
  /\ g.cursor = k /\ g.twins = f.twins \ {k}
  /\ f.seen \subseteq g.seen /\ g.seen \subseteq f.seen \cup {k}
  /\ log[k].what \in ItemEvents /\ k \notin f.twins => k \in g.seen

Mark(f, k, seen) == [f EXCEPT !.cursor = k, !.twins = @ \ {k}, !.seen = seen]

Marked(f, g, k, seen) ==
  /\ Sound(g) /\ SameFold(f, g) /\ g.held = f.held /\ g.cursor = k
  /\ g.twins = f.twins \ {k} /\ g.seen = seen

LEMMA MarksSound ==
  ASSUME NEW f, Sound(f), NEW k \in Nat, NEW seen \in SUBSET Nat
  PROVE  Marked(f, Mark(f, k, seen), k, seen)
<1> DEFINE g == Mark(f, k, seen)
<1>1. f \in Sessions
  BY DEF Sound, Good
<1>2. f.twins \ {k} \in SUBSET Nat
  BY <1>1, SessionFields
<1>3. g \in Sessions
  BY <1>1, <1>2 DEF Sessions, Mark
<1>4. /\ SameFold(f, g) /\ g.held = f.held /\ g.cursor = k
      /\ g.twins = f.twins \ {k} /\ g.seen = seen
  BY <1>1 DEF Sessions, SameFold, Mark
<1> HIDE DEF g
<1>5. Good(g, {}, Tot, {})
  BY <1>3, <1>4, GoodSame DEF Sound
<1>6. HeldOK(g, {}, Tot, {}) /\ ~g.replaying
  BY <1>4 DEF HeldOK, Sound, SameFold
<1>7. QED
  BY <1>4, <1>5, <1>6 DEF Sound, Marked, g

LEMMA HandleMspHandles ==
  ASSUME NEW f, Sound(f), log \in Seq(Events), NEW k \in 1 .. Len(log), Clear(f, k)
  PROVE  Handles(f, HandleMsp(f, k), k)
<1> DEFINE replayable == log[k].what \in ItemEvents
           seen == IF replayable /\ k \notin f.twins THEN f.seen \cup {k} ELSE f.seen
           g == Mark(f, k, seen)
           twin == k \in f.twins
           old == replayable /\ k \in f.seen
           h == HandleMsp(f, k)
<1>0. f \in Sessions /\ k \in Nat /\ seen \in SUBSET Nat
  BY SessionFields DEF Sound, Good
<1>1. h = IF twin \/ old THEN g ELSE Fold(g, k)
  BY <1>0 DEF HandleMsp, Sessions, Mark
<1>2. /\ Sound(g) /\ SameFold(f, g) /\ g.held = f.held /\ g.cursor = k
      /\ g.twins = f.twins \ {k} /\ g.seen = seen
  <2> HIDE DEF seen
  <2>1. Marked(f, g, k, seen)
    BY <1>0, MarksSound
  <2>2. QED
    BY <2>1 DEF Marked
<1>3. Marks(f, g, k)
  BY <1>2 DEF Marks
<1> HIDE DEF g, h
<1>4. CASE twin \/ old
  <2>1. \A j \in Items : Settled(f, j) => Settled(g, j)
    BY <1>2 DEF Settled, SameFold
  <2>2. Streams(f, g, k) /\ f.done \subseteq g.done
    BY <1>2 DEF Streams, SameFold
  <2>3. log[k].what = "completed" /\ k \notin f.twins \cup f.seen => FALSE
    BY <1>4
  <2>4. QED
    BY <1>1, <1>2, <1>3, <1>4, <2>1, <2>2, <2>3 DEF Handles, Marks, h
<1>5. CASE ~(twin \/ old)
  <2>1. Clear(g, k)
    BY <1>2 DEF Clear, SameFold, Below
  <2>2. Folds(g, Fold(g, k), k) /\ h = Fold(g, k)
    BY <1>1, <1>2, <1>5, <2>1, FoldFolds
  <2>3. Sound(h) /\ Onward(g, h) /\ Streams(g, h, k)
        /\ (log[k].what = "completed" => Settled(h, log[k].item))
    BY <2>2 DEF Folds
  <2>4. Marks(f, h, k)
    BY <1>3, <2>3 DEF Onward, Marks
  <2>5. \A j \in Items : Settled(f, j) => Settled(h, j)
    <3>1. \A j \in Items : Settled(f, j) => Settled(g, j)
      BY <1>2 DEF Settled, SameFold
    <3>2. QED
      BY <2>3, <3>1, OnwardSettled
  <2>6. Streams(f, h, k) /\ f.done \subseteq h.done
    BY <1>2, <2>3 DEF Streams, SameFold, Onward
  <2>7. QED
    BY <2>3, <2>4, <2>5, <2>6 DEF Handles, Marks, h
<1>6. QED
  BY <1>4, <1>5

-----------------------------------------------------------------------------
(* The events of a page.                                                    *)

LEMMA HandleAllIn ==
  ASSUME NEW ks \in Seq(Nat), NEW I, NEW f \in I[0],
         \A n \in 1 .. Len(ks) : \A g \in I[n - 1] : HandleMsp(g, ks[n]) \in I[n]
  PROVE  HandleAll(f, ks) \in I[Len(ks)]
<1> DEFINE N == Len(ks)
           F == [n \in 1 .. N |-> [g \in I[n - 1] |-> HandleMsp(g, ks[n])]]
           E(h) == h = [n \in 0 .. N |-> IF n = 0 THEN f ELSE HandleMsp(h[n - 1], ks[n])]
           after == CHOOSE h : E(h)
<1>1. N \in Nat
  OBVIOUS
<1>2. \E h : E(h)
  <2>1. \A n \in 1 .. N : \A g \in I[n - 1] : F[n][g] = HandleMsp(g, ks[n])
    OBVIOUS
  <2>2. \A n \in 1 .. N : \A g \in I[n - 1] : F[n][g] \in I[n]
    BY <2>1
  <2>3. PICK h : Run(h, N, I, f, F)
    <3> HIDE DEF F, N
    <3>1. QED
      BY <1>1, <2>2, RunExists
  <2>4. h = [n \in 0 .. N |-> h[n]] /\ h[0] = f
    BY <2>3 DEF Run
  <2>5. \A n \in 0 .. N : h[n] = IF n = 0 THEN f ELSE HandleMsp(h[n - 1], ks[n])
    <3> TAKE n \in 0 .. N
    <3>1. CASE n # 0
      <4>1. n \in 1 .. N
        BY <1>1, <3>1
      <4>2. h[n - 1] \in I[n - 1] /\ h[n] = F[n][h[n - 1]]
        BY <2>3, <4>1 DEF Run
      <4>3. QED
        BY <2>1, <3>1, <4>1, <4>2
    <3>2. QED
      BY <2>4, <3>1
  <2>7. E(h)
    <3> HIDE DEF F, N
    <3>1. QED
      BY <2>4, <2>5
  <2>8. QED
    BY <2>7
<1>3. E(after)
  BY <1>2
<1>4. \A n \in 1 .. N : after[n - 1] \in I[n - 1] => after[n] \in I[n]
  <2> TAKE n \in 1 .. N
  <2>1. after[n] = HandleMsp(after[n - 1], ks[n])
    <3> HIDE DEF after
    <3>1. QED
      BY <1>3
  <2> HIDE DEF after
  <2>2. QED
    BY <2>1
<1>5. after[0] = f
  <2> HIDE DEF after
  <2>1. QED
    BY <1>1, <1>3
<1>6. after[N] \in I[N]
  <2> HIDE DEF after, N
  <2>1. N \in 0 .. N
    BY <1>1
  <2>2. QED
    BY <1>1, <1>4, <1>5, <2>1, StaysIn
<1>7. HandleAll(f, ks) = after[N]
  BY DEF HandleAll
<1>8. QED
  BY <1>6, <1>7

\* Whatever the bookkeeping holds of a completion, its item is settled.
Honest(f) ==
  \A k \in 1 .. Len(log) :
    log[k].what = "completed" /\ k \in f.twins \cup f.seen => Settled(f, log[k].item)

\* From f to g the events at the cursors S were handled, and none of them is a delta.
HandlesAll(f, g, S) ==
  /\ Sound(g) /\ Quietly(f, g) /\ f.done \subseteq g.done
  /\ \A j \in Items : Settled(f, j) => Settled(g, j)
  /\ Honest(f) => Honest(g) /\
       \A k \in S : log[k].what = "completed" => Settled(g, log[k].item)
  /\ g.twins \subseteq f.twins
  /\ f.seen \subseteq g.seen /\ g.seen \subseteq f.seen \cup S
  /\ IF S = {} THEN g.cursor = f.cursor ELSE g.cursor \in S

LEMMA HandlesOne ==
  ASSUME log \in Seq(Events), NEW f, NEW g, NEW h, NEW S \in SUBSET (1 .. Len(log)),
         NEW k \in 1 .. Len(log), Durable(k),
         HandlesAll(f, g, S), Handles(g, h, k)
  PROVE  HandlesAll(f, h, S \cup {k})
<1>2. Sound(h) /\ f.done \subseteq h.done /\ \A j \in Items : Settled(f, j) => Settled(h, j)
  BY DEF Handles, HandlesAll
<1>3. Quietly(f, h)
  BY DEF Handles, HandlesAll, Quietly, Streams, Durable
<1>4. \A n \in 1 .. Len(log) : log[n].what = "completed" => log[n].item \in Items
  BY EventType DEF ItemEvents
<1>5. ASSUME Honest(f)
      PROVE  Honest(h) /\ \A n \in S \cup {k} : log[n].what = "completed" =>
                             Settled(h, log[n].item)
  <2>1. Honest(g) /\ \A n \in S : log[n].what = "completed" => Settled(g, log[n].item)
    BY <1>5 DEF HandlesAll
  <2>2. \A j \in Items : Settled(g, j) => Settled(h, j)
    BY DEF Handles
  <2>3. log[k].what = "completed" => Settled(h, log[k].item)
    <3>1. log[k].what = "completed" /\ k \in g.twins \cup g.seen => Settled(g, log[k].item)
      BY <2>1 DEF Honest
    <3>2. QED
      BY <1>4, <2>2, <3>1 DEF Handles
  <2>4. \A n \in 1 .. Len(log) : log[n].what = "completed" /\ n \in h.twins \cup h.seen =>
           n = k \/ n \in g.twins \cup g.seen
    BY DEF Handles
  <2>5. Honest(h)
    BY <1>4, <2>1, <2>2, <2>3, <2>4 DEF Honest
  <2>6. QED
    BY <1>4, <2>1, <2>2, <2>3, <2>5
<1>6. /\ h.twins \subseteq f.twins
      /\ f.seen \subseteq h.seen /\ h.seen \subseteq f.seen \cup S \cup {k} /\ h.cursor = k
  BY DEF Handles, HandlesAll
<1>7. QED
  BY <1>2, <1>3, <1>5, <1>6 DEF HandlesAll

LEMMA HandleAllHandles ==
  ASSUME log \in Seq(Events), NEW f, Sound(f), NEW ks \in Seq(Nat),
         \A n \in 1 .. Len(ks) : ks[n] \in 1 .. Len(log) /\ Durable(ks[n])
  PROVE  HandlesAll(f, HandleAll(f, ks), Range(ks))
<1> DEFINE N == Len(ks)
           A(n) == {ks[k] : k \in 1 .. n}
           I == [n \in 0 .. N |-> {g \in Sessions : HandlesAll(f, g, A(n))}]
<1>1. N \in Nat /\ f \in Sessions
  BY DEF Sound, Good
<1>2. f \in I[0]
  <2>1. A(0) = {} /\ 0 \in 0 .. N
    BY <1>1
  <2> HIDE DEF A
  <2>2. HandlesAll(f, f, A(0))
    BY <2>1 DEF HandlesAll, Quietly
  <2>3. QED
    BY <1>1, <2>1, <2>2
<1>3. \A n \in 1 .. N : \A g \in I[n - 1] : HandleMsp(g, ks[n]) \in I[n]
  <2> TAKE n \in 1 .. N
  <2>1. n - 1 \in 0 .. N /\ n \in 0 .. N
    BY <1>1
  <2> TAKE g \in I[n - 1]
  <2> DEFINE k == ks[n]
             h == HandleMsp(g, k)
  <2>2. A(n) = A(n - 1) \cup {k}
    <3>1. \A j \in 1 .. n : j \in 1 .. n - 1 \/ j = n
      OBVIOUS
    <3>2. \A j \in 1 .. n - 1 : j \in 1 .. n
      OBVIOUS
    <3>3. n \in 1 .. n
      OBVIOUS
    <3>4. QED
      BY <3>1, <3>2, <3>3
  <2>3. A(n - 1) \in SUBSET (1 .. Len(log))
    <3>1. \A j \in 1 .. n - 1 : j \in 1 .. Len(ks)
      OBVIOUS
    <3>2. QED
      BY <3>1
  <2>4. k \in 1 .. Len(log) /\ Durable(k)
    OBVIOUS
  <2> HIDE DEF A, k
  <2>5. HandlesAll(f, g, A(n - 1))
    BY <2>1
  <2>6. Clear(g, k)
    BY <2>4 DEF Clear, Durable
  <2>7. Handles(g, h, k)
    BY <2>4, <2>5, <2>6, HandleMspHandles DEF HandlesAll
  <2> HIDE DEF h
  <2>8. HandlesAll(f, h, A(n))
    BY <2>2, <2>3, <2>4, <2>5, <2>7, HandlesOne, SMTT(30)
  <2>9. h \in Sessions
    BY <2>8 DEF HandlesAll, Sound, Good
  <2>10. QED
    BY <2>1, <2>8, <2>9 DEF h, k
<1>4. HandleAll(f, ks) \in I[N]
  <2> HIDE DEF I
  <2>1. QED
    BY <1>2, <1>3, HandleAllIn
<1>5. A(N) = Range(ks)
  BY DEF Range
<1>6. N \in 0 .. N
  BY <1>1
<1>7. QED
  <2> HIDE DEF A
  <2>1. QED
    BY <1>4, <1>5, <1>6

-----------------------------------------------------------------------------
(* The cursors of a page.                                                   *)

LEMMA CursorsAre ==
  ASSUME log \in Seq(Events), NEW S \in SUBSET (1 .. Len(log))
  PROVE  /\ Cursors(S) \in Seq(1 .. Len(log)) /\ Cursors(S) \in Seq(Nat) /\ Range(Cursors(S)) = S
         /\ \A a, b \in 1 .. Len(Cursors(S)) : a < b => Cursors(S)[a] < Cursors(S)[b]
<1> DEFINE N == Len(log)
           X == 1 .. N
           all == [k \in DOMAIN log |-> k]
           r == Among(all, S)
<1>1. N \in Nat /\ DOMAIN log = X /\ all \in Seq(X) /\ Len(all) = N /\ \A k \in X : all[k] = k
  OBVIOUS
<1>2. Range(all) = X
  BY <1>1 DEF Range
<1> HIDE DEF all
<1>3. r \in Seq(X) /\ \A y : y \in Range(r) <=> y \in Range(all) /\ y \in S
  BY <1>1, AmongMembers
<1>4. Range(r) = S
  BY <1>2, <1>3
<1>5. PICK h : Picks(r, h, all, S, Len(all))
  BY <1>1, AmongIs
<1>6. \A a, b \in 1 .. Len(r) : a < b => r[a] < r[b]
  BY <1>1, <1>5 DEF Picks
<1>7. r \in Seq(Nat)
  <2> HIDE DEF r
  <2>1. X \subseteq Nat
    BY <1>1
  <2>2. QED
    BY <1>3, <2>1
<1>8. Cursors(S) = r
  BY DEF Cursors, all
<1>9. QED
  BY <1>3, <1>4, <1>6, <1>7, <1>8

\* A page holds durable events after a cursor, without a hole.
PageOK(p, c) ==
  /\ p \in Seq(Nat) /\ p \in Seq(1 .. Len(log))
  /\ \A k \in Range(p) : k \in 1 .. Len(log) /\ k > c /\ Durable(k)
  /\ \A k \in 1 .. Len(log) : k > c /\ Durable(k) /\ k \notin Range(p) =>
       p # <<>> /\ k > Last(p)
  /\ p # <<>> => Last(p) \in Range(p) /\ \A k \in Range(p) : k <= Last(p)

LEMMA PageIs ==
  ASSUME log \in Seq(Events), NEW c \in Nat
  PROVE  PageOK(Page(c), c)
<1> DEFINE S == {k \in DOMAIN log : k > c /\ Durable(k)}
           rest == Suffix(c)
           M == IF Len(rest) < PageSize THEN Len(rest) ELSE PageSize
           p == Page(c)
<1>1. S \in SUBSET (1 .. Len(log)) /\ rest = Cursors(S)
  BY DEF Suffix
<1>2. \A k : k \in S <=> k \in 1 .. Len(log) /\ k > c /\ Durable(k)
  OBVIOUS
<1> HIDE DEF S
<1>3. /\ rest \in Seq(1 .. Len(log)) /\ Range(rest) = S
      /\ \A a, b \in 1 .. Len(rest) : a < b => rest[a] < rest[b]
  BY <1>1, CursorsAre
<1> HIDE DEF rest
<1>4. M \in Nat /\ M <= Len(rest) /\ Len(rest) \in Nat /\ (M = 0 => Len(rest) = 0)
      /\ DOMAIN rest = 1 .. Len(rest)
  BY <1>3, TranscriptAssumption
<1>5. p = SubSeq(rest, 1, M)
  BY DEF Page, rest
<1> HIDE DEF M
<1>6. /\ p \in Seq(1 .. Len(log)) /\ Len(p) = M /\ DOMAIN p = 1 .. M
      /\ \A a \in 1 .. M : p[a] = rest[a]
  BY <1>3, <1>4, <1>5
<1> HIDE DEF p
<1>7. p \in Seq(Nat)
  <2>1. 1 .. Len(log) \subseteq Nat
    OBVIOUS
  <2>2. QED
    BY <1>6, <2>1
<1>8. \A k \in Range(p) : k \in 1 .. Len(log) /\ k > c /\ Durable(k)
  <2> TAKE k \in Range(p)
  <2>1. PICK a \in 1 .. M : k = rest[a]
    BY <1>6 DEF Range
  <2>2. k \in Range(rest)
    BY <1>4, <2>1 DEF Range
  <2>3. QED
    BY <1>2, <1>3, <2>2
<1>9. p # <<>> => M # 0 /\ Last(p) = rest[M]
  BY <1>4, <1>6 DEF Last
<1>10. \A a \in 1 .. M : a # M => rest[a] < rest[M]
  BY <1>3, <1>4
<1>11. p # <<>> => Last(p) \in Range(p) /\ \A k \in Range(p) : k <= Last(p)
  <2> HAVE p # <<>>
  <2>1. M \in 1 .. M
    BY <1>4, <1>9
  <2>2. Last(p) \in Range(p)
    BY <1>6, <1>9, <2>1 DEF Range
  <2>3. \A k \in Range(p) : k <= Last(p)
    <3> TAKE k \in Range(p)
    <3>1. PICK a \in 1 .. M : k = rest[a]
      BY <1>6 DEF Range
    <3>2. rest[a] \in Nat /\ rest[M] \in Nat
      BY <1>3, <1>4, <2>1
    <3>3. QED
      BY <1>9, <1>10, <3>1, <3>2
  <2>4. QED
    BY <2>2, <2>3
<1>12. \A k \in 1 .. Len(log) : k > c /\ Durable(k) /\ k \notin Range(p) => p # <<>> /\ k > Last(p)
  <2> SUFFICES ASSUME NEW k \in 1 .. Len(log), k > c, Durable(k), k \notin Range(p)
               PROVE  p # <<>> /\ k > Last(p)
    OBVIOUS
  <2>1. k \in Range(rest)
    BY <1>2, <1>3
  <2>2. PICK b \in 1 .. Len(rest) : k = rest[b]
    BY <1>4, <2>1 DEF Range
  <2>3. b \notin 1 .. M
    BY <1>6, <2>2 DEF Range
  <2>4. M < b /\ M # 0
    BY <1>4, <2>2, <2>3
  <2>5. M \in 1 .. Len(rest) /\ p # <<>>
    BY <1>4, <1>6, <2>4
  <2>6. rest[M] < rest[b]
    BY <1>3, <2>4, <2>5
  <2>7. rest[M] \in Nat /\ rest[b] \in Nat
    BY <1>3, <2>5
  <2>8. QED
    BY <1>9, <2>2, <2>5, <2>6, <2>7
<1>13. QED
  BY <1>6, <1>7, <1>8, <1>11, <1>12 DEF PageOK, p

\* What a step of a walk takes of its page.
Taken(p, next) == Among(p, {k \in Range(p) : next \in Range(p) => k < next})

LEMMA TakenIs ==
  ASSUME log \in Seq(Events), NEW c \in Nat, NEW p, PageOK(p, c), NEW next \in Nat
  PROVE  /\ Taken(p, next) \in Seq(Nat)
         /\ \A n \in 1 .. Len(Taken(p, next)) :
              Taken(p, next)[n] \in 1 .. Len(log) /\ Durable(Taken(p, next)[n])
         /\ \A k : k \in Range(Taken(p, next)) <=> k \in Range(p) /\ (next \in Range(p) => k < next)
<1> DEFINE S == {k \in Range(p) : next \in Range(p) => k < next}
           t == Taken(p, next)
<1>1. t \in Seq(Nat) /\ \A k : k \in Range(t) <=> k \in Range(p) /\ k \in S
  BY AmongMembers DEF PageOK, Taken
<1> HIDE DEF t
<1>2. \A n \in 1 .. Len(t) : t[n] \in Range(t)
  BY <1>1 DEF Range
<1>3. QED
  BY <1>1, <1>2 DEF t, PageOK

-----------------------------------------------------------------------------
(* History.                                                                 *)

\* The reply so far of an item in flight, as one piece.
Prefix(f, x) == Row(ShowText([f EXCEPT !.streamed[x.item] = x.total], x), x.item, "chunk")

LEMMA PrefixOK ==
  ASSUME NEW f \in Sessions, NEW x \in Frames, NEW F, ItemOK(f, x.item, F), Shape(f.rows),
         x.item \notin f.done, Kind[x.item] = "message", f.role[x.item] = "message",
         f.streamed[x.item] = 0, x.total > 0
  PROVE  LET g == Prefix(f, x)
         IN /\ Eff(f, g, {x.item}) /\ ItemOK(g, x.item, F) /\ g.done = f.done
            /\ Told(f, g, x.item, x.total)
<1> DEFINE i == x.item
           n == x.total
           g == Prefix(f, x)
<1>0. i \in Items /\ n \in Nat /\ n > 0
  BY DEF Frames
<1>1. f.text[i] = <<>>
  BY <1>0, TextEmpty
<1>2. f.text[i] \o [k \in 1 .. n |-> k] = Whole(n) /\ Whole(n) \in Seq(Nat)
  BY <1>0, <1>1, WholeIs DEF Whole
<1>3. /\ Append(f.rows, <<i, "chunk">>) \in Seq(Lines)
      /\ [f.streamed EXCEPT ![i] = n] \in [Items -> Nat]
      /\ [f.text EXCEPT ![i] = f.text[i] \o [k \in 1 .. n |-> k]] \in [Items -> Seq(Nat)]
  <2>1. f.rows \in Seq(Lines) /\ <<i, "chunk">> \in Lines
    BY <1>0, SessionFields DEF Words, Lines
  <2>2. f.streamed \in [Items -> Nat] /\ f.text \in [Items -> Seq(Nat)]
    BY SessionFields
  <2> HIDE DEF n, i
  <2>3. [f.streamed EXCEPT ![i] = n] \in [Items -> Nat]
    BY <1>0, <2>2
  <2>4. QED
    BY <1>0, <1>2, <2>1, <2>2, <2>3, AppendType
<1>4. /\ g.role = f.role /\ g.shells = f.shells
      /\ g.rows = Append(f.rows, <<i, "chunk">>) /\ g.streamed = [f.streamed EXCEPT ![i] = n]
      /\ g.text = [f.text EXCEPT ![i] = f.text[i] \o [k \in 1 .. n |-> k]]
      /\ g.done = f.done /\ g.cut = f.cut /\ g.terminals = f.terminals
      /\ Kept(f, g)
  BY SessionFields DEF Prefix, ShowText, Row, Sessions, Kept
<1>5. g \in Sessions
  BY <1>3 DEF Prefix, ShowText, Row, Sessions
<1>6. g.text = [f.text EXCEPT ![i] = Whole(n)]
  BY <1>2, <1>4
<1>7. f.role[i] = Kind[i] /\ Kind[i] = "message" /\ i \notin f.done
  OBVIOUS
<1> HIDE DEF g, i, n
<1>8. \A j \in Items : j # i => Same(f, g, j)
  BY <1>4, SessionFields DEF Same
<1>9. Adds(f.rows, g.rows, i, "chunk")
  <2>1. ~HasRow(f.rows, i, "final")
    BY <1>7 DEF ItemOK, i
  <2>2. QED
    BY <1>4, <2>1 DEF Adds, Words, Single
<1>10. Eff(f, g, {i}) /\ \A v : HasRow(g.rows, i, v) <=> HasRow(f.rows, i, v) \/ v = "chunk"
  <2> DEFINE w == "chunk"
  <2>0. Adds(f.rows, g.rows, i, w)
    BY <1>9
  <2>1. Kept(f, g) /\ f.done \subseteq g.done /\ f.cut \subseteq g.cut
    BY <1>4
  <2> HIDE DEF w
  <2>2. Eff(f, g, {i}) /\ \A v : HasRow(g.rows, i, v) <=> HasRow(f.rows, i, v) \/ v = w
    BY <1>0, <1>5, <1>8, <2>0, <2>1, EffRow
  <2>3. QED
    BY <2>2 DEF w
<1>11. g.text[i] = Whole(n) /\ g.streamed[i] = n
  BY <1>0, <1>4, <1>6, SessionFields, ZenonT(30)
<1>12. TextOK(g, i)
  <2>1. \A p, q \in 1 .. Len(g.text[i]) : p < q => g.text[i][p] < g.text[i][q]
    BY <1>0, <1>11, WholeIncreases
  <2>2. g.role[i] = Kind[i] /\ g.streamed[i] > 0 /\ Kind[i] \in {"message", "thought"}
    BY <1>0, <1>4, <1>7, <1>11
  <2>3. QED
    BY <2>1, <2>2 DEF TextOK
<1>13. ItemOK(g, i, F)
  <2>1. ItemOK(f, i, F)
    BY DEF i
  <2>2. HasAny(f.rows, i) => HasAny(g.rows, i)
    BY <1>0, <1>7, <1>10 DEF Eff, HasAny, Grows
  <2>3. Kind[i] \notin Showing
    BY <1>7 DEF Showing
  <2>4. QED
    BY <1>4, <1>7, <1>10, <1>12, <2>1, <2>3 DEF ItemOK, Kept
<1>14. Told(f, g, i, n)
  BY <1>1, <1>6 DEF Told, i
<1>15. QED
  BY <1>4, <1>10, <1>13, <1>14 DEF g, i, n

\* A message from history settles.
LEMMA ReplayMessageOK ==
  ASSUME NEW f \in Sessions, NEW x \in Frames, NEW F, ItemOK(f, x.item, F), Shape(f.rows),
         x.item \notin f.done, Kind[x.item] = "message", f.replaying, x.item \notin F
  PROVE  LET g == ReplaySettled(f, x)
         IN Eff(f, g, {x.item}) /\ ItemOK(g, x.item, F) /\ Closes(f, g, x)
<1> DEFINE i == x.item
           g == ReplaySettled(f, x)
           h == [f EXCEPT !.done = @ \cup {i}]
<1>0. i \in Items /\ Kind[i] # "shell" /\ Kind[i] \in {"message", "thought"}
      /\ Kind[i] \notin Showing
  BY DEF Frames, Showing
<1>1. /\ i \notin f.shells /\ i \notin f.terminals /\ TextOK(f, i)
      /\ ~HasRow(f.rows, i, "final") /\ (HasRow(f.rows, i, "mark") => i \in f.cut)
  BY <1>0, MayGo
<1>2. f.role[i] = "none"
  BY DEF ItemOK
<1>3. f.text[i] = <<>>
  BY <1>0, <1>2, TextEmpty
<1>4. h = Gone(f, i)
  <2>1. [f.role EXCEPT ![i] = "none"] = f.role
    BY <1>0, <1>2, SessionFields
  <2>2. QED
    BY <2>1 DEF Gone, Sessions
<1>5. CASE x.total = 0
  <2>1. g = Gone(f, i)
    BY <1>4, <1>5 DEF ReplaySettled
  <2> HIDE DEF g
  <2>2. Eff(f, g, {i}) /\ ItemOK(g, i, F) /\ EndsRows(f, g, i)
    BY <1>0, <1>1, <2>1, GoneOK
  <2>3. QED
    BY <2>2 DEF Closes, Told, EndsRows, g
<1>6. CASE x.total # 0
  <2> DEFINE c == Row(ShowText(Gone(f, i), x), i, "final")
  <2>1. Eff(f, c, {i}) /\ ItemOK(c, i, F) /\ Closes(f, c, x)
    BY <1>0, <1>3, SpokenOK
  <2>2. g = [ClaimCutOff(c, x) EXCEPT !.last = i]
    BY <1>4, <1>6 DEF ReplaySettled, ChunkLine
  <2>3. c \in Sessions /\ Shape(c.rows)
    BY <2>1 DEF Eff
  <2> HIDE DEF c, g
  <2>4. Eff(c, g, {i}) /\ ItemOK(g, i, F) /\ Calm(c, g, i, c.role[i])
    BY <2>1, <2>2, <2>3, MarkedOK
  <2>5. Eff(f, g, {i})
    BY <2>1, <2>4, EffTrans1
  <2>6. Closes(f, g, x)
    BY <2>1, <2>4, ClosesCalm
  <2>7. QED
    BY <2>4, <2>5, <2>6 DEF g
<1>7. QED
  BY <1>5, <1>6

Flying == {i \in Items : InFlight(i)}

\* A session while its history is replayed.
Replays(f, W) ==
  /\ Good(f, Flying, Tot, W) /\ HeldOK(f, Flying, Tot, {}) /\ f.replaying

\* Nothing settled is forgotten, and the bookkeeping stays.
Further(f, g) ==
  /\ f.done \subseteq g.done /\ \A j \in Items : Settled(f, j) => Settled(g, j)
  /\ g.cursor = f.cursor /\ g.seen = f.seen /\ g.twins = f.twins

LEMMA FurtherTrans ==
  ASSUME NEW f, NEW g, NEW h, Further(f, g), Further(g, h)
  PROVE  Further(f, h)
BY DEF Further

LEMMA OnwardFurther ==
  ASSUME NEW f, NEW g, Onward(f, g)
  PROVE  Further(f, g)
BY OnwardSettled DEF Further, Onward

\* Item i was replayed; what waits for it was not released yet.
Replayed(f, g, i, W) ==
  /\ Good(g, Flying, Tot, W) /\ HeldOK(g, Flying, Tot, {i}) /\ g.replaying /\ Further(f, g)
  /\ Has("completed", i) => Settled(g, i)
  /\ Kind[i] \in Showing => HasAny(g.rows, i) \/ Anchor[i] # None

LEMMA HeldOKWider ==
  ASSUME NEW f, NEW F, NEW T, NEW A, HeldOK(f, F, T, {})
  PROVE  HeldOK(f, F, T, A)
BY DEF HeldOK

LEMMA ReplayFrame ==
  ASSUME log \in Seq(Events), NEW i \in Items
  PROVE  /\ Frame(i, Len(log)) \in Frames /\ Frame(i, Len(log)).item = i
         /\ Frame(i, Len(log)).total = Tot[i]
<1>1. Len(log) \in Nat
  OBVIOUS
<1>2. QED
  BY <1>1, FrameType DEF Tot

LEMMA ReplayInFlightGood ==
  ASSUME log \in Seq(Events), NEW W \in SUBSET Roots, NEW f, Replays(f, W), NEW i \in Items,
         i \notin W, i \notin f.done, InFlight(i), NEW prefix \in BOOLEAN
  PROVE  Replayed(f, ReplayInFlight(f, Frame(i, Len(log)), prefix), i, W)
<1> DEFINE x == Frame(i, Len(log))
           h == OnItemSnapshot(f, x)
           g == ReplayInFlight(f, x, prefix)
           unshown == Kind[i] = "message" /\ prefix /\ x.total > 0 /\ h.streamed[i] = 0
<1>1. x \in Frames /\ x.item = i /\ x.total = Tot[i]
  BY ReplayFrame
<1>2. g = IF unshown THEN ClaimCutOff(Prefix(h, x), x) ELSE h
  BY <1>1 DEF ReplayInFlight, Prefix, ChunkLine
<1>3. Good(f, Flying, Tot, W) /\ HeldOK(f, Flying, Tot, {}) /\ f.replaying /\ i \in Flying
  BY DEF Replays, Flying
<1> HIDE DEF x
<1>4. /\ Good(h, Flying, Tot, W) /\ HeldOK(h, Flying, Tot, {}) /\ Onward(f, h) /\ h.done = f.done
      /\ h.text = f.text
      /\ Kind[x.item] \in Showing => HasAny(h.rows, x.item)
      /\ Kind[x.item] = "message" /\ x.item \notin f.done => h.role[x.item] = "message"
  BY <1>1, <1>3, SnapshotGood
<1> HIDE DEF g, h
<1>5. h.replaying /\ Further(f, h) /\ ~Has("completed", i)
  BY <1>3, <1>4, OnwardFurther DEF Onward, InFlight
<1>6. CASE ~unshown
  <2>1. g = h
    BY <1>2, <1>6
  <2>2. HeldOK(h, Flying, Tot, {i})
    BY <1>4, HeldOKWider
  <2>3. QED
    BY <1>1, <1>4, <1>5, <2>1, <2>2 DEF Replayed, g, x
<1>7. CASE unshown
  <2> DEFINE c == Prefix(h, x)
  <2>1. g = ClaimCutOff(c, x)
    BY <1>2, <1>7
  <2>2. /\ h \in Sessions /\ ItemOK(h, x.item, Flying) /\ Shape(h.rows) /\ x.item \notin h.done
        /\ h.role[x.item] = "message" /\ TextBound(h, Tot)
    BY <1>1, <1>4, <1>7 DEF Good
  <2>3. Eff(h, c, {i}) /\ ItemOK(c, i, Flying) /\ c.done = h.done /\ Told(h, c, i, x.total)
    BY <1>1, <1>7, <2>2, PrefixOK
  <2> HIDE DEF c
  <2>4. c \in Sessions /\ Shape(c.rows)
    BY <2>3 DEF Eff
  <2>5. /\ Eff(c, g, {i}) /\ ItemOK(g, i, Flying) /\ g.done = c.done /\ g.text = c.text
    BY <1>1, <2>1, <2>3, <2>4, ClaimCutOffOK
  <2>6. Eff(h, g, {i})
    BY <2>2, <2>3, <2>5, EffTrans1
  <2>7. NoFinal(h, g, i) /\ Told(h, g, i, x.total)
    BY <1>1, <2>2, <2>3, <2>5 DEF NoFinal, ItemOK, Told
  <2>8. \A p \in 1 .. Len(g.text[i]) : g.text[i][p] <= Tot[i]
    <3>1. Tot \in [Items -> Nat] /\ x.total <= Tot[i]
      BY <1>1, TotType
    <3>2. QED
      BY <1>1, <2>2, <2>7, <3>1, ToldBound
  <2>9. Good(g, Flying, Tot, W)
    BY <1>4, <2>5, <2>6, <2>7, <2>8, GoodStep
  <2>10. Onward(h, g) /\ g.held = h.held /\ g.replaying = h.replaying /\ g.done = h.done
    BY <2>3, <2>5, <2>6, EffOnward DEF Eff, Kept
  <2>11. HeldOK(g, Flying, Tot, {i})
    BY <1>4, <2>10 DEF HeldOK
  <2>12. Further(f, g)
    BY <1>5, <2>10, OnwardFurther, FurtherTrans
  <2>13. Kind[i] \notin Showing
    BY <1>7 DEF Showing
  <2>14. QED
    BY <1>5, <2>9, <2>10, <2>11, <2>12, <2>13 DEF Replayed, g, x
<1>8. QED
  BY <1>6, <1>7

LEMMA ReplaySettledGood ==
  ASSUME log \in Seq(Events), NEW W \in SUBSET Roots, NEW f, Replays(f, W), NEW i \in Items,
         i \notin W, i \notin f.done, ~InFlight(i)
  PROVE  Replayed(f, ReplaySettled(f, Frame(i, Len(log))), i, W)
<1> DEFINE x == Frame(i, Len(log))
           g == ReplaySettled(f, x)
<1>1. x \in Frames /\ x.item = i /\ x.total = Tot[i]
  BY ReplayFrame
<1>2. Good(f, Flying, Tot, W) /\ HeldOK(f, Flying, Tot, {}) /\ f.replaying /\ i \notin Flying
  BY DEF Replays, Flying
<1>3. Tot \in [Items -> Nat] /\ Tot[i] \in Nat /\ x.total <= Tot[x.item]
  BY <1>1, TotType
<1> HIDE DEF x
<1>4. CASE Kind[i] # "message"
  <2>1. g = OnItemCompleted(f, x)
    BY <1>1, <1>4 DEF ReplaySettled
  <2> HIDE DEF g
  <2>2. /\ Good(g, Flying, Tot, W) /\ HeldOK(g, Flying, Tot, {}) /\ Onward(f, g)
        /\ Settled(g, x.item) /\ (Anchor[x.item] = None => x.item \in g.done)
    BY <1>1, <1>2, <1>3, <2>1, OnItemCompletedGood
  <2>3. HeldOK(g, Flying, Tot, {i}) /\ Further(f, g) /\ g.replaying
    BY <1>2, <2>2, HeldOKWider, OnwardFurther DEF Onward
  <2>4. Kind[i] \in Showing => HasAny(g.rows, i) \/ Anchor[i] # None
    <3>1. ItemOK(g, i, Flying)
      BY <2>2 DEF Good
    <3>2. QED
      BY <1>1, <2>2, <3>1 DEF ItemOK
  <2>5. QED
    BY <1>1, <2>2, <2>3, <2>4 DEF Replayed, g, x
<1>5. CASE Kind[i] = "message"
  <2>1. f \in Sessions /\ ItemOK(f, i, Flying) /\ Shape(f.rows) /\ TextBound(f, Tot)
    BY <1>2 DEF Good
  <2>2. Eff(f, g, {i}) /\ ItemOK(g, i, Flying) /\ Closes(f, g, x)
    BY <1>1, <1>2, <1>5, <2>1, ReplayMessageOK
  <2> HIDE DEF g
  <2>3. g.done = f.done \cup {i} /\ Told(f, g, i, x.total)
    BY <1>1, <2>2 DEF Closes
  <2>4. \A p \in 1 .. Len(g.text[i]) : g.text[i][p] <= Tot[i]
    BY <1>1, <1>3, <2>1, <2>3, ToldBound
  <2>5. ~Anchored(i) /\ Kind[i] \notin Showing
    BY <1>5 DEF Anchored, Showing
  <2>6. Good(g, Flying, Tot, W)
    BY <1>2, <2>2, <2>4, <2>5, GoodStep
  <2>7. Onward(f, g) /\ g.held = f.held /\ g.replaying
    BY <1>2, <2>2, EffOnward DEF Eff, Kept
  <2>8. HeldOK(g, Flying, Tot, {i})
    BY <1>2, <2>3, <2>7 DEF HeldOK
  <2>9. Further(f, g) /\ Settled(g, i)
    BY <2>3, <2>7, OnwardFurther DEF Settled
  <2>10. QED
    BY <2>5, <2>6, <2>7, <2>8, <2>9 DEF Replayed, g, x
<1>6. QED
  BY <1>4, <1>5

LEMMA ReplayItemGood ==
  ASSUME log \in Seq(Events), NEW W \in SUBSET Roots, NEW f, Replays(f, W), NEW i \in Items,
         i \notin W, NEW prefix \in BOOLEAN
  PROVE  Replayed(f, ReplayItem(f, i, prefix), i, W)
<1>1. CASE i \in f.done
  <2>1. ReplayItem(f, i, prefix) = f
    BY <1>1 DEF ReplayItem, Known
  <2>2. ItemOK(f, i, Flying)
    BY DEF Replays, Good
  <2>3. HeldOK(f, Flying, Tot, {i})
    BY HeldOKWider DEF Replays
  <2>4. QED
    BY <1>1, <2>1, <2>2, <2>3 DEF Replayed, Replays, Further, Settled, ItemOK
<1>2. CASE i \notin f.done /\ InFlight(i)
  <2>1. ReplayItem(f, i, prefix) = ReplayInFlight(f, Frame(i, Len(log)), prefix)
    BY <1>2 DEF ReplayItem, Known
  <2>2. QED
    BY <1>2, <2>1, ReplayInFlightGood
<1>3. CASE i \notin f.done /\ ~InFlight(i)
  <2>1. ReplayItem(f, i, prefix) = ReplaySettled(f, Frame(i, Len(log)))
    BY <1>3 DEF ReplayItem, Known
  <2>2. QED
    BY <1>3, <2>1, ReplaySettledGood
<1>4. QED
  BY <1>1, <1>2, <1>3

\* The anchors the batch shows no row of from item n on.
Behind(batch, n) == Roots \ {batch[j] : j \in n .. Len(batch)}

\* From f to g the batch was replayed up to its n-th item.
Progress(f, g, batch, n) ==
  /\ Replays(g, Behind(batch, n + 1)) /\ Further(f, g)
  /\ \A m \in 1 .. n : Has("completed", batch[m]) => Settled(g, batch[m])

LEMMA ReplaysWider ==
  ASSUME NEW f, NEW V, NEW W, Replays(f, V), V \subseteq W
  PROVE  Replays(f, W)
<1>1. RowsOK(f.rows, W)
  BY RowsWider DEF Replays, Good
<1>2. QED
  BY <1>1 DEF Replays, Good

LEMMA ReplayStepGood ==
  ASSUME log \in Seq(Events), NEW batch \in Seq(Items), NEW n \in 1 .. Len(batch),
         NEW prefix \in BOOLEAN, NEW f, Replays(f, Behind(batch, n))
  PROVE  LET g == ReplayStep(f, batch, n, prefix)
         IN /\ Replays(g, Behind(batch, n + 1)) /\ Further(f, g)
            /\ Has("completed", batch[n]) => Settled(g, batch[n])
<1> DEFINE i == batch[n]
           bound == n = 1 \/ TurnOf(batch[n - 1]) # TurnOf(batch[n])
           coming == {batch[j] : j \in n .. Len(batch)}
           V == Behind(batch, n)
           W == Behind(batch, n + 1)
           e == IF bound THEN FlushUnless(f, coming) ELSE f
           h == ReplayItem(e, i, prefix)
           g == ReplayStep(f, batch, n, prefix)
<1>1. i \in Items /\ n \in Nat /\ n \in n .. Len(batch) /\ Tot \in [Items -> Nat]
  BY TotType
<1>2. coming \in SUBSET Items /\ V = Roots \ coming /\ V \in SUBSET Roots /\ i \notin V
  <2>1. \A j \in n .. Len(batch) : batch[j] \in Items
    BY <1>1
  <2>2. QED
    BY <1>1, <2>1 DEF Behind
<1>3. V \subseteq W
  <2>1. \A j \in n + 1 .. Len(batch) : j \in n .. Len(batch)
    BY <1>1
  <2>2. QED
    BY <2>1 DEF Behind
<1>4. g = Release(h, {i})
  BY DEF ReplayStep, ReleaseAnchor
<1> HIDE DEF bound, coming, V, W, i
<1>5. Replays(e, V) /\ Further(f, e)
  <2>1. CASE bound
    <3>1. e = FlushUnless(f, coming)
      BY <2>1
    <3> HIDE DEF e
    <3>2. Good(f, Flying, Tot, V) /\ HeldOK(f, Flying, Tot, {}) /\ f.replaying /\ V \subseteq Roots \ coming
      BY <1>2 DEF Replays, V
    <3>3. /\ Good(e, Flying, Tot, Roots \ coming) /\ HeldOK(e, Flying, Tot, {})
          /\ Onward(f, e)
      BY <1>1, <1>2, <3>1, <3>2, FlushGood
    <3>4. QED
      BY <1>2, <3>2, <3>3, OnwardFurther DEF Replays, Onward
  <2>2. CASE ~bound
    BY <2>2 DEF V, Further
  <2>3. QED
    BY <2>1, <2>2
<1> HIDE DEF e
<1>6. Replayed(e, h, i, V)
  BY <1>1, <1>2, <1>5, ReplayItemGood
<1> HIDE DEF h, g
<1>7. /\ Good(h, Flying, Tot, V) /\ HeldOK(h, Flying, Tot, {i}) /\ h.replaying /\ Further(e, h)
      /\ Has("completed", i) => Settled(h, i)
      /\ Kind[i] \in Showing => HasAny(h.rows, i) \/ Anchor[i] # None
  BY <1>6 DEF Replayed
<1>8. Good(g, Flying, Tot, V) /\ HeldOK(g, Flying, Tot, {}) /\ Releases(h, g, {i})
  <2>1. \A a \in {i} : Kind[a] \in Showing => HasAny(h.rows, a) \/ a \in V \/ Anchor[a] # None \/ a = None
    BY <1>7
  <2>2. QED
    BY <1>1, <1>2, <1>4, <1>7, <2>1, ReleaseGood
<1>9. Onward(h, g)
  BY <1>8, ReleasesOnward
<1>10. Replays(g, V)
  BY <1>7, <1>8, <1>9 DEF Replays, Onward
<1>11. Further(h, g)
  BY <1>9, OnwardFurther
<1>12. Further(f, g)
  BY <1>5, <1>7, <1>11, FurtherTrans
<1>13. Replays(g, W)
  BY <1>3, <1>10, ReplaysWider
<1>14. Has("completed", i) => Settled(g, i)
  BY <1>1, <1>7, <1>11 DEF Further
<1>15. QED
  BY <1>12, <1>13, <1>14 DEF g, i, W

StartReplay(f) == [f EXCEPT !.replaying = TRUE]
EndReplay(f) == [f EXCEPT !.replaying = FALSE]

\* The steps of a replay lead from I[n - 1] to I[n].
Leads(I, batch, prefix) ==
  \A n \in 1 .. Len(batch) : \A g \in I[n - 1] : ReplayStep(g, batch, n, prefix) \in I[n]

\* What a replay leaves is the end of something in S.
EndsIn(f, prefix, S) ==
  \E h \in S : ReplayHistory(f, prefix) = Row(EndReplay(FlushAnchors(h)), None, "turn")

LEMMA ReplayHistoryIn ==
  ASSUME CollectHistory \in Seq(Items), NEW prefix, NEW I, NEW f,
         StartReplay(f) \in I[0], Leads(I, CollectHistory, prefix)
  PROVE  EndsIn(f, prefix, I[Len(CollectHistory)])
<1> DEFINE batch == CollectHistory
           N == Len(batch)
           b == StartReplay(f)
           F == [n \in 1 .. N |-> [g \in I[n - 1] |-> ReplayStep(g, batch, n, prefix)]]
           E(h) == h = [n \in 0 .. N |-> IF n = 0 THEN b ELSE ReplayStep(h[n - 1], batch, n, prefix)]
           after == CHOOSE h : E(h)
<1>1. N \in Nat
  OBVIOUS
<1>0. ReplayHistory(f, prefix) = Row(EndReplay(FlushAnchors(after[N])), None, "turn")
  BY DEF ReplayHistory, StartReplay, EndReplay
<1> HIDE DEF b
<1> HIDE DEF batch
<1>a. \A n \in 1 .. N : \A g \in I[n - 1] : ReplayStep(g, batch, n, prefix) \in I[n]
  BY DEF Leads, batch
<1>2. \E h : E(h)
  <2>1. \A n \in 1 .. N : \A g \in I[n - 1] : F[n][g] = ReplayStep(g, batch, n, prefix)
    OBVIOUS
  <2>2. \A n \in 1 .. N : \A g \in I[n - 1] : F[n][g] \in I[n]
    BY <1>a, <2>1
  <2>3. PICK h : Run(h, N, I, b, F)
    <3>1. b \in I[0]
      BY DEF b
    <3> HIDE DEF F, N
    <3>2. QED
      BY <1>1, <2>2, <3>1, RunExists
  <2>4. h = [n \in 0 .. N |-> h[n]] /\ h[0] = b
    BY <2>3 DEF Run
  <2>5. \A n \in 0 .. N : h[n] = IF n = 0 THEN b ELSE ReplayStep(h[n - 1], batch, n, prefix)
    <3> TAKE n \in 0 .. N
    <3>1. CASE n # 0
      <4>1. n \in 1 .. N
        BY <1>1, <3>1
      <4>2. h[n - 1] \in I[n - 1] /\ h[n] = F[n][h[n - 1]]
        BY <2>3, <4>1 DEF Run
      <4>3. QED
        BY <2>1, <3>1, <4>1, <4>2
    <3>2. QED
      BY <2>4, <3>1
  <2>7. E(h)
    <3> HIDE DEF F, N
    <3>1. QED
      BY <2>4, <2>5
  <2>8. QED
    BY <2>7
<1>3. E(after)
  BY <1>2
<1>4. \A n \in 1 .. N : after[n - 1] \in I[n - 1] => after[n] \in I[n]
  <2> TAKE n \in 1 .. N
  <2>1. after[n] = ReplayStep(after[n - 1], batch, n, prefix)
    <3> HIDE DEF after
    <3>1. QED
      BY <1>3
  <2> HIDE DEF after
  <2>2. QED
    BY <1>a, <2>1
<1>5. after[0] = b
  <2> HIDE DEF after
  <2>1. QED
    BY <1>1, <1>3
<1>6. after[N] \in I[N]
  <2>0. after[0] \in I[0]
    BY <1>5 DEF b
  <2> HIDE DEF after, N
  <2>1. N \in 0 .. N
    BY <1>1
  <2>2. QED
    BY <1>1, <1>4, <2>0, <2>1, StaysIn
<1>7. QED
  <2> HIDE DEF after
  <2>1. QED
    BY <1>0, <1>6 DEF EndsIn, batch

LEMMA CollectHistoryIs ==
  ASSUME log \in Seq(Events)
  PROVE  /\ CollectHistory \in Seq(Items)
         /\ \A i \in Items : Has("started", i) =>
              \E n \in 1 .. Len(CollectHistory) : CollectHistory[n] = i
<1> DEFINE S == {k \in DOMAIN log : log[k].what = "started"}
           starts == Cursors(S)
           batch == CollectHistory
<1>1. S \in SUBSET (1 .. Len(log)) /\ DOMAIN log = 1 .. Len(log)
  OBVIOUS
<1>2. \A k \in S : log[k].item \in Items
  BY <1>1, EventType DEF ItemEvents
<1>3. \A k : k \in S <=> k \in DOMAIN log /\ log[k].what = "started"
  OBVIOUS
<1>4. batch = [n \in DOMAIN starts |-> log[starts[n]].item]
  BY DEF CollectHistory
<1> HIDE DEF S
<1>5. starts \in Seq(1 .. Len(log)) /\ Range(starts) = S
  BY <1>1, CursorsAre
<1> HIDE DEF starts, batch
<1>6. DOMAIN starts = 1 .. Len(starts) /\ Len(starts) \in Nat
      /\ \A n \in 1 .. Len(starts) : starts[n] \in S
  BY <1>5 DEF Range
<1>7. \A n \in 1 .. Len(starts) : log[starts[n]].item \in Items
  BY <1>2, <1>6
<1>8. batch \in Seq(Items) /\ Len(batch) = Len(starts)
      /\ \A n \in 1 .. Len(starts) : batch[n] = log[starts[n]].item
  BY <1>4, <1>6, <1>7
<1>9. ASSUME NEW i \in Items, Has("started", i)
      PROVE  \E n \in 1 .. Len(batch) : batch[n] = i
  <2>1. PICK k \in DOMAIN log : log[k].what = "started" /\ log[k].item = i
    BY <1>9 DEF Has
  <2>2. k \in Range(starts)
    BY <1>3, <1>5, <2>1
  <2>3. PICK n \in 1 .. Len(starts) : starts[n] = k
    BY <1>6, <2>2 DEF Range
  <2>4. QED
    BY <1>8, <2>1, <2>3
<1>10. QED
  BY <1>8, <1>9 DEF batch

LEMMA FreshIs ==
  ASSUME NEW v \in {1, 2}, NEW c \in Nat
  PROVE  Fresh(v, c) \in Sessions
<1>1. /\ [i \in Items |-> "none"] \in [Items -> Roles] /\ [i \in Items |-> 0] \in [Items -> Nat]
      /\ [i \in Items |-> <<>>] \in [Items -> Seq(Nat)]
      /\ <<>> \in Seq(Frames) /\ <<>> \in Seq(Lines)
  BY DEF Roles
<1>2. QED
  BY <1>1 DEF Fresh, Sessions

\* Nothing is shown.
Blank(f) ==
  /\ f \in Sessions /\ f.rows = <<>> /\ f.held = <<>> /\ f.done = {} /\ f.cut = {}
  /\ f.role = [i \in Items |-> "none"] /\ f.text = [i \in Items |-> <<>>]
  /\ f.shells = {} /\ f.terminals = {}

LEMMA BlankGood ==
  ASSUME NEW f, Blank(f), NEW F, NEW T, NEW W
  PROVE  Good(f, F, T, W) /\ HeldOK(f, F, T, {})
<1>1. /\ Shape(f.rows) /\ NoneOK(f.rows) /\ RowsOK(f.rows, W) /\ \A i, w : ~HasRow(f.rows, i, w)
  <2>1. Len(f.rows) = 0 /\ f.rows \in Seq(Lines)
    BY DEF Blank
  <2>2. 1 .. Len(f.rows) = {}
    BY <2>1
  <2>3. QED
    BY <2>1, <2>2 DEF Shape, NoneOK, RowsOK, Ordered, HasRow
<1>2. \A i \in Items : f.text[i] = <<>> /\ f.role[i] = "none" /\ Len(f.text[i]) = 0
  BY DEF Blank
<1>3. TextBound(f, T)
  BY <1>2 DEF TextBound
<1>4. \A i \in Items : ItemOK(f, i, F)
  <2> TAKE i \in Items
  <2>1. TextOK(f, i)
    BY <1>2 DEF TextOK
  <2>2. QED
    BY <1>1, <1>2, <2>1 DEF ItemOK, Blank
<1>5. HeldOK(f, F, T, {})
  <2>1. Range(f.held) = {}
    BY DEF Blank, Range
  <2>2. QED
    BY <2>1 DEF HeldOK
<1>6. QED
  BY <1>1, <1>3, <1>4, <1>5 DEF Good, Blank

LEMMA StartReplayIs ==
  ASSUME NEW v \in {1, 2}, NEW c \in Nat
  PROVE  LET b == StartReplay(Fresh(v, c))
         IN Blank(b) /\ b.replaying /\ b.cursor = c /\ b.twins = {}
<1> DEFINE f == Fresh(v, c)
           b == StartReplay(f)
<1>1. f \in Sessions
  BY FreshIs
<1>2. b \in Sessions
  BY <1>1 DEF StartReplay, Sessions
<1>3. /\ b.rows = <<>> /\ b.held = <<>> /\ b.done = {} /\ b.cut = {}
      /\ b.role = [i \in Items |-> "none"] /\ b.text = [i \in Items |-> <<>>]
      /\ b.shells = {} /\ b.terminals = {} /\ b.replaying /\ b.cursor = c /\ b.twins = {}
  BY DEF StartReplay, Fresh
<1>4. QED
  BY <1>2, <1>3 DEF Blank

LEMMA EndReplayGood ==
  ASSUME NEW f, NEW F, NEW T, NEW W, Good(f, F, T, W), HeldOK(f, F, T, {})
  PROVE  LET g == EndReplay(f)
         IN /\ Good(g, {}, T, W) /\ HeldOK(g, {}, T, {}) /\ ~g.replaying
            /\ Further(f, g)
<1> DEFINE g == EndReplay(f)
<1>1. f \in Sessions
  BY DEF Good
<1>2. g \in Sessions
  BY <1>1 DEF EndReplay, Sessions
<1>3. /\ g.role = f.role /\ g.streamed = f.streamed /\ g.text = f.text /\ g.done = f.done
      /\ g.cut = f.cut /\ g.shells = f.shells /\ g.terminals = f.terminals /\ g.rows = f.rows
      /\ g.held = f.held /\ ~g.replaying
      /\ g.cursor = f.cursor /\ g.seen = f.seen /\ g.twins = f.twins
  BY <1>1 DEF EndReplay, Sessions
<1> HIDE DEF g
<1>4. Shape(g.rows) /\ NoneOK(g.rows) /\ RowsOK(g.rows, W) /\ TextBound(g, T)
  BY <1>3 DEF Good, TextBound
<1>5. \A i \in Items : ItemOK(g, i, {})
  <2> TAKE i \in Items
  <2>1. ItemOK(f, i, F)
    BY DEF Good
  <2>2. TextOK(g, i)
    BY <1>3, <2>1 DEF ItemOK, TextOK
  <2>3. QED
    BY <1>3, <2>1, <2>2 DEF ItemOK
<1>6. HeldOK(g, {}, T, {})
  BY <1>3 DEF HeldOK
<1>7. Further(f, g)
  BY <1>3 DEF Further, Settled
<1>8. QED
  BY <1>2, <1>3, <1>4, <1>5, <1>6, <1>7 DEF Good, g

\* Every completion of the log is settled.
AllSettled(f) == \A i \in Items : Has("completed", i) => Settled(f, i)

LEMMA ReplayHistoryGood ==
  ASSUME log \in Seq(Events), \A i \in Items : Has("completed", i) => Has("started", i),
         NEW v \in {1, 2}, NEW c \in Nat, NEW prefix \in BOOLEAN
  PROVE  LET g == ReplayHistory(Fresh(v, c), prefix)
         IN Sound(g) /\ AllSettled(g) /\ g.cursor = c /\ g.twins = {}
<1> DEFINE batch == CollectHistory
           N == Len(batch)
           b == StartReplay(Fresh(v, c))
           g == ReplayHistory(Fresh(v, c), prefix)
           I == [n \in 0 .. N |-> {h \in Sessions : Progress(b, h, batch, n)}]
<1>1. /\ batch \in Seq(Items) /\ N \in Nat /\ 0 \in 0 .. N /\ N \in 0 .. N
      /\ \A i \in Items : Has("started", i) => \E n \in 1 .. N : batch[n] = i
  BY CollectHistoryIs
<1>2. Blank(b) /\ b.replaying /\ b.cursor = c /\ b.twins = {}
  BY StartReplayIs
<1>3. b \in I[0]
  <2> HIDE DEF b, batch
  <2>1. Good(b, Flying, Tot, Behind(batch, 0 + 1)) /\ HeldOK(b, Flying, Tot, {})
    BY <1>2, BlankGood
  <2>2. Replays(b, Behind(batch, 0 + 1)) /\ Further(b, b)
    BY <1>2, <2>1 DEF Replays, Further
  <2>3. Progress(b, b, batch, 0)
    BY <2>2 DEF Progress
  <2>4. QED
    BY <1>1, <1>2, <2>3 DEF Blank
<1>4. \A n \in 1 .. N : \A f \in I[n - 1] : ReplayStep(f, batch, n, prefix) \in I[n]
  <2> HIDE DEF b, batch
  <2> TAKE n \in 1 .. N
  <2>1. n - 1 \in 0 .. N /\ n \in 0 .. N /\ n - 1 + 1 = n /\ n \in Nat
    BY <1>1
  <2> TAKE f \in I[n - 1]
  <2> DEFINE h == ReplayStep(f, batch, n, prefix)
  <2>2. f \in Sessions /\ Progress(b, f, batch, n - 1)
    BY <2>1
  <2>3. Replays(f, Behind(batch, n)) /\ Further(b, f)
    BY <2>1, <2>2 DEF Progress
  <2>4. /\ Replays(h, Behind(batch, n + 1)) /\ Further(f, h)
        /\ Has("completed", batch[n]) => Settled(h, batch[n])
    BY <1>1, <2>3, ReplayStepGood
  <2> HIDE DEF h
  <2>5. \A m \in 1 .. n : Has("completed", batch[m]) => Settled(h, batch[m])
    <3> TAKE m \in 1 .. n
    <3>1. CASE m = n
      BY <2>4, <3>1
    <3>2. CASE m # n
      <4>1. m \in 1 .. n - 1 /\ batch[m] \in Items
        BY <1>1, <2>1, <3>2
      <4>2. QED
        BY <2>2, <2>4, <4>1 DEF Progress, Further
    <3>3. QED
      BY <3>1, <3>2
  <2>6. Progress(b, h, batch, n)
    BY <2>3, <2>4, <2>5, FurtherTrans DEF Progress
  <2>7. h \in Sessions
    BY <2>4 DEF Replays, Good
  <2>8. QED
    BY <2>1, <2>6, <2>7 DEF h
<1>5. PICK h \in I[N] : g = Row(EndReplay(FlushAnchors(h)), None, "turn")
  <2> DEFINE f == Fresh(v, c)
  <2>1. StartReplay(f) \in I[0] /\ CollectHistory \in Seq(Items)
    BY <1>1, <1>3
  <2>2. Leads(I, CollectHistory, prefix)
    BY <1>4 DEF Leads
  <2> HIDE DEF I, f
  <2>3. EndsIn(f, prefix, I[Len(CollectHistory)])
    BY <2>1, <2>2, ReplayHistoryIn
  <2>4. QED
    BY <2>3 DEF EndsIn, f
<1>6. Progress(b, h, batch, N)
  BY <1>1
<1> HIDE DEF g, I, b, batch
<1> DEFINE e == FlushUnless(h, {})
           d == EndReplay(e)
<1>7. g = Row(d, None, "turn")
  BY <1>5 DEF FlushAnchors
<1>8. Replays(h, Behind(batch, N + 1)) /\ Further(b, h)
  BY <1>6 DEF Progress
<1>9. Good(e, Flying, Tot, Roots) /\ HeldOK(e, Flying, Tot, {}) /\ Onward(h, e)
  <2> DEFINE V == Behind(batch, N + 1)
             no == {}
  <2>1. no \in SUBSET Items /\ V \subseteq Roots \ no /\ Roots \ no = Roots
    BY DEF Behind
  <2>2. Good(h, Flying, Tot, V) /\ HeldOK(h, Flying, Tot, {})
    BY <1>8 DEF Replays
  <2>3. e = FlushUnless(h, no) /\ Tot \in [Items -> Nat]
    BY TotType
  <2> HIDE DEF e, V, no
  <2>4. Good(e, Flying, Tot, Roots \ no) /\ HeldOK(e, Flying, Tot, {}) /\ Onward(h, e)
    BY <2>1, <2>2, <2>3, FlushGood
  <2>5. QED
    BY <2>1, <2>4
<1> HIDE DEF e
<1>10. Good(d, {}, Tot, Roots) /\ HeldOK(d, {}, Tot, {}) /\ ~d.replaying /\ Further(e, d)
  BY <1>9, EndReplayGood
<1> HIDE DEF d
<1>11. Good(g, {}, Tot, {}) /\ Onward(d, g) /\ g.held = d.held /\ g.done = d.done
  BY <1>7, <1>10, TurnRowGood
<1>12. Sound(g)
  BY <1>10, <1>11 DEF Sound, HeldOK, Onward
<1>13. Further(h, g)
  BY <1>9, <1>10, <1>11, OnwardFurther, FurtherTrans
<1>14. Further(b, g)
  BY <1>8, <1>13, FurtherTrans
<1>15. g.cursor = c /\ g.twins = {}
  BY <1>2, <1>14 DEF Further
<1>16. ASSUME NEW i \in Items, Has("completed", i) PROVE Settled(g, i)
  <2>1. PICK n \in 1 .. N : batch[n] = i
    BY <1>1, <1>16
  <2>2. Settled(h, i)
    BY <1>1, <1>6, <1>16, <2>1 DEF Progress
  <2>3. QED
    BY <1>13, <2>2 DEF Further
<1>17. QED
  BY <1>12, <1>15, <1>16 DEF AllSettled, g


-----------------------------------------------------------------------------
(* The log and what is on its way.                                          *)

\* The pieces of item i among the first c events of v.
TotalIn(v, i, c) == Cardinality({k \in 1 .. c : v[k].what = "delta" /\ v[k].item = i})

TotOf(v) == [i \in Items |-> TotalIn(v, i, Len(v))]

LEMMA TotIs == Tot = TotOf(log)
BY DEF Tot, TotOf, Total, TotalIn

LEMMA TotalInNat ==
  ASSUME NEW v, NEW i, NEW c \in Nat
  PROVE  TotalIn(v, i, c) \in Nat
<1> DEFINE S == {k \in 1 .. c : v[k].what = "delta" /\ v[k].item = i}
<1>1. IsFiniteSet(1 .. c)
  BY FS_Interval
<1>2. IsFiniteSet(S)
  BY <1>1, FS_Subset
<1>3. Cardinality(S) \in Nat
  <2> HIDE DEF S
  <2>1. QED
    BY <1>2, FS_CardinalityType
<1>4. QED
  BY <1>3 DEF TotalIn

LEMMA TotalInSame ==
  ASSUME NEW v, NEW w, NEW i, NEW c \in Nat, \A k \in 1 .. c : v[k] = w[k]
  PROVE  TotalIn(v, i, c) = TotalIn(w, i, c)
<1>1. {k \in 1 .. c : v[k].what = "delta" /\ v[k].item = i}
        = {k \in 1 .. c : w[k].what = "delta" /\ w[k].item = i}
  OBVIOUS
<1>2. QED
  BY <1>1 DEF TotalIn

LEMMA TotalInNext ==
  ASSUME NEW v, NEW i, NEW c \in Nat
  PROVE  TotalIn(v, i, c + 1) =
           IF v[c + 1].what = "delta" /\ v[c + 1].item = i THEN TotalIn(v, i, c) + 1
           ELSE TotalIn(v, i, c)
<1> DEFINE S(d) == {k \in 1 .. d : v[k].what = "delta" /\ v[k].item = i}
<1>1. IsFiniteSet(1 .. c)
  BY FS_Interval
<1>2. IsFiniteSet(S(c)) /\ c + 1 \notin S(c)
  BY <1>1, FS_Subset
<1>3. \A k : k \in 1 .. c + 1 <=> k \in 1 .. c \/ k = c + 1
  OBVIOUS
<1>4. CASE v[c + 1].what = "delta" /\ v[c + 1].item = i
  <2>1. S(c + 1) = S(c) \cup {c + 1}
    BY <1>3, <1>4
  <2>2. Cardinality(S(c) \cup {c + 1}) = Cardinality(S(c)) + 1
    <3> HIDE DEF S
    <3>1. QED
      BY <1>2, FS_AddElement
  <2>3. QED
    BY <1>4, <2>1, <2>2 DEF TotalIn
<1>5. CASE ~(v[c + 1].what = "delta" /\ v[c + 1].item = i)
  <2>1. S(c + 1) = S(c)
    BY <1>3, <1>5
  <2>2. QED
    BY <1>5, <2>1 DEF TotalIn
<1>6. QED
  BY <1>4, <1>5

LEMMA TotOfType ==
  ASSUME NEW v \in Seq(Events)
  PROVE  TotOf(v) \in [Items -> Nat]
<1>1. Len(v) \in Nat
  OBVIOUS
<1>2. QED
  BY <1>1, TotalInNat DEF TotOf

\* An event more.
LEMMA TotOfAppend ==
  ASSUME NEW v \in Seq(Events), NEW e \in Events
  PROVE  LET w == Append(v, e)
         IN \A i \in Items : TotOf(w)[i] =
              IF e.what = "delta" /\ e.item = i THEN TotOf(v)[i] + 1 ELSE TotOf(v)[i]
<1> DEFINE w == Append(v, e)
           c == Len(v)
<1>1. c \in Nat /\ Len(w) = c + 1 /\ w[c + 1] = e /\ \A k \in 1 .. c : w[k] = v[k]
  OBVIOUS
<1> HIDE DEF w, c
<1>2. SUFFICES ASSUME NEW i \in Items
               PROVE  TotOf(w)[i] = IF e.what = "delta" /\ e.item = i THEN TotOf(v)[i] + 1
                                    ELSE TotOf(v)[i]
  BY DEF w
<1>3. TotalIn(w, i, c) = TotalIn(v, i, c)
  BY <1>1, TotalInSame
<1>4. TotalIn(w, i, c + 1) = IF e.what = "delta" /\ e.item = i THEN TotalIn(w, i, c) + 1
                             ELSE TotalIn(w, i, c)
  BY <1>1, TotalInNext
<1>5. TotOf(w)[i] = TotalIn(w, i, c + 1) /\ TotOf(v)[i] = TotalIn(v, i, c)
  BY <1>1 DEF TotOf, c
<1>6. QED
  BY <1>3, <1>4, <1>5

\* Good and HeldOK are kept when there are more pieces.
AtMost(T, U) == \A i \in Items : T[i] <= U[i]

LEMMA GoodMore ==
  ASSUME NEW f, NEW F, NEW T \in [Items -> Nat], NEW U \in [Items -> Nat], NEW W,
         AtMost(T, U), Good(f, F, T, W), HeldOK(f, F, T, {})
  PROVE  Good(f, F, U, W) /\ HeldOK(f, F, U, {})
<1>1. f \in Sessions
  BY DEF Good
<1>2. TextBound(f, U)
  <2> SUFFICES ASSUME NEW i \in Items, NEW p \in 1 .. Len(f.text[i])
               PROVE  f.text[i][p] <= U[i]
    BY DEF TextBound
  <2>1. f.text[i] \in Seq(Nat) /\ T[i] \in Nat /\ U[i] \in Nat /\ T[i] <= U[i]
    BY <1>1, SessionFields DEF AtMost
  <2>2. f.text[i][p] \in Nat /\ f.text[i][p] <= T[i]
    BY <2>1 DEF Good, TextBound
  <2>3. QED
    BY <2>1, <2>2
<1>3. HeldOK(f, F, U, {})
  <2> SUFFICES ASSUME NEW x \in Range(f.held) PROVE x.total <= U[x.item]
    BY DEF HeldOK
  <2>1. f.held \in Seq(Frames)
    BY <1>1, SessionFields
  <2>2. x \in Frames
    BY <2>1 DEF Range
  <2>3. x.item \in Items /\ x.total \in Nat /\ x.total <= T[x.item]
    BY <2>2 DEF Frames, HeldOK
  <2>4. T[x.item] \in Nat /\ U[x.item] \in Nat /\ T[x.item] <= U[x.item]
    BY <2>3 DEF AtMost
  <2>5. QED
    BY <2>3, <2>4
<1>4. QED
  BY <1>2, <1>3 DEF Good

-----------------------------------------------------------------------------
(* Deltas on their way.                                                     *)

\* d delivers a delta of item i.
Carries(v, d, i) == d.t = "event" /\ v[d.cur].what = "delta" /\ v[d.cur].item = i

\* Every live event is in the log, and a delta of an item that is not settled
\* continues the text shown; T[i] pieces were produced of i.
LiveGood(v, q, f, T) ==
  /\ \A m \in 1 .. Len(q) : q[m].t = "event" => q[m].cur \in 1 .. Len(v)
  /\ \A m \in 1 .. Len(q), i \in Items : Carries(v, q[m], i) =>
       (i \in f.done \/ Below(f, i, v[q[m].cur].n)) /\ v[q[m].cur].n <= T[i]
  /\ \A a, b \in 1 .. Len(q), i \in Items :
       a < b /\ Carries(v, q[a], i) /\ Carries(v, q[b], i) => v[q[a].cur].n < v[q[b].cur].n

\* q is part of r, from its element after c.
PartOf(q, r, c) == \A m \in 1 .. Len(q) : m + c \in 1 .. Len(r) /\ q[m] = r[m + c]

LEMMA LiveGoodPart ==
  ASSUME NEW v, NEW q, NEW r, NEW f, NEW T, NEW c \in Nat, LiveGood(v, r, f, T), PartOf(q, r, c),
         Len(q) \in Nat
  PROVE  LiveGood(v, q, f, T)
<1>1. \A m \in 1 .. Len(q) : m + c \in 1 .. Len(r) /\ q[m] = r[m + c]
  BY DEF PartOf
<1>2. \A a, b \in 1 .. Len(q) : a < b => a + c < b + c
  OBVIOUS
<1>3. QED
  BY <1>1, <1>2 DEF LiveGood

LEMMA LiveGoodQuietly ==
  ASSUME NEW v, NEW q, NEW f, NEW g, NEW T, LiveGood(v, q, f, T), Quietly(f, g),
         f.done \subseteq g.done
  PROVE  LiveGood(v, q, g, T)
<1>1. \A n : \A i \in Items : i \in f.done \/ Below(f, i, n) => i \in g.done \/ Below(g, i, n)
  BY DEF Quietly, Below
<1>2. QED
  BY <1>1 DEF LiveGood

\* An event was read.
LEMMA LiveGoodRead ==
  ASSUME log \in Seq(Events), NEW q \in Seq(Deliveries), q # <<>>, NEW f \in Sessions, NEW g,
         LiveGood(log, q, f, Tot), Head(q).t = "event", Streams(f, g, Head(q).cur),
         f.done \subseteq g.done
  PROVE  LiveGood(log, Tail(q), g, Tot)
<1> DEFINE r == Tail(q)
           k == Head(q).cur
<1>1. /\ Len(r) \in Nat /\ Len(q) \in Nat /\ Len(r) = Len(q) - 1 /\ k = q[1].cur /\ q[1].t = "event"
      /\ \A m \in 1 .. Len(r) : m + 1 \in 1 .. Len(q) /\ r[m] = q[m + 1]
      /\ 1 \in 1 .. Len(q)
  OBVIOUS
<1>2. LiveGood(log, r, f, Tot)
  <2>1. PartOf(r, q, 1)
    BY <1>1 DEF PartOf
  <2>2. QED
    BY <1>1, <2>1, LiveGoodPart
<1>3. k \in 1 .. Len(log)
  BY <1>1 DEF LiveGood
<1>4. ASSUME NEW m \in 1 .. Len(r), NEW i \in Items, Carries(log, r[m], i)
      PROVE  i \in g.done \/ Below(g, i, log[r[m].cur].n)
  <2> DEFINE n == log[r[m].cur].n
  <2>1. i \in f.done \/ Below(f, i, n)
    BY <1>2, <1>4 DEF LiveGood
  <2>2. CASE i \in g.done
    BY <2>2
  <2>3. CASE i \notin g.done /\ g.text[i] = f.text[i]
    BY <2>1, <2>3 DEF Below
  <2>4. CASE i \notin g.done /\ g.text[i] # f.text[i]
    <3>1. log[k].what = "delta" /\ log[k].item = i /\ g.text[i] = Append(f.text[i], log[k].n)
      BY <2>4 DEF Streams
    <3>2. Carries(log, q[1], i) /\ Carries(log, q[m + 1], i) /\ m + 1 \in 1 .. Len(q) /\ 1 < m + 1
      BY <1>1, <1>4, <3>1 DEF Carries
    <3>3. log[k].n < n
      BY <1>1, <3>2 DEF LiveGood
    <3>4. log[k].n \in Nat /\ f.text[i] \in Seq(Nat)
      BY <1>3, EventType, SessionFields
    <3>5. Below(f, i, n)
      BY <2>1, <2>4
    <3> DEFINE t == f.text[i]
               e == log[k].n
    <3>6. \A p \in 1 .. Len(t) : t[p] < n
      BY <3>5 DEF Below
    <3>9. t \in Seq(Nat) /\ e \in Nat /\ e < n
      BY <3>3, <3>4
    <3> HIDE DEF t, e, n
    <3>7. \A p \in 1 .. Len(Append(t, e)) : Append(t, e)[p] < n
      <4> TAKE p \in 1 .. Len(Append(t, e))
      <4>1. CASE p \in 1 .. Len(t)
        BY <3>6, <3>9, <4>1
      <4>2. CASE p = Len(t) + 1
        BY <3>9, <4>2
      <4>3. QED
        BY <3>9, <4>1, <4>2
    <3>8. QED
      BY <3>1, <3>7 DEF Below, t, e, n
  <2>5. QED
    BY <2>2, <2>3, <2>4
<1> HIDE DEF r, k
<1>5. QED
  BY <1>2, <1>4 DEF LiveGood, r

\* Without a delta there is nothing to say.
LEMMA LiveGoodDurable ==
  ASSUME log \in Seq(Events), NEW q, NEW f, NEW T,
         \A m \in 1 .. Len(q) : q[m].cur \in 1 .. Len(log) /\ Durable(q[m].cur)
  PROVE  LiveGood(log, q, f, T)
BY DEF LiveGood, Carries, Durable

\* q was extended by at most one event, the one at cursor k.
Sends(q, r, k) ==
  /\ Len(q) <= Len(r) /\ \A m \in 1 .. Len(q) : r[m] = q[m]
  /\ \A m \in Len(q) + 1 .. Len(r) : r[m].t = "event" => r[m].cur = k
  /\ \A a, b \in Len(q) + 1 .. Len(r) : r[a].t = "event" /\ r[b].t = "event" => a = b

LEMMA LiveGoodSend ==
  ASSUME NEW v \in Seq(Events), NEW e \in Events,
         e.what = "delta" => e.n = TotOf(v)[e.item] + 1,
         NEW f \in Sessions, TextBound(f, TotOf(v)), NEW q \in Seq(Deliveries), NEW r \in Seq(Deliveries),
         LiveGood(v, q, f, TotOf(v)), Sends(q, r, Len(v) + 1)
  PROVE  LiveGood(Append(v, e), r, f, TotOf(Append(v, e)))
<1> DEFINE w == Append(v, e)
           k == Len(v) + 1
           T == TotOf(v)
           U == TotOf(w)
<1>1. /\ k \in Nat /\ Len(v) \in Nat /\ k = Len(v) + 1 /\ Len(w) = k /\ w[k] = e /\ \A j \in 1 .. Len(v) : w[j] = v[j]
      /\ w \in Seq(Events) /\ Len(q) \in Nat /\ Len(r) \in Nat
  OBVIOUS
<1>2. T \in [Items -> Nat] /\ U \in [Items -> Nat]
  BY <1>1, TotOfType
<1>3. \A i \in Items : U[i] = IF e.what = "delta" /\ e.item = i THEN T[i] + 1 ELSE T[i]
  BY TotOfAppend
<1>4. \A j \in 1 .. Len(v) : v[j].n \in Nat
  BY DEF Events
<1> HIDE DEF w, k, T, U
<1>5. \A m \in 1 .. Len(r) : \/ m \in 1 .. Len(q) /\ r[m] = q[m]
                             \/ m \in Len(q) + 1 .. Len(r) /\ (r[m].t = "event" => r[m].cur = k)
  BY <1>1 DEF Sends, k
<1>6. \A m \in 1 .. Len(q) : r[m] = q[m] /\ (q[m].t = "event" => q[m].cur \in 1 .. Len(v)
                                               /\ w[q[m].cur] = v[q[m].cur])
  BY <1>1 DEF LiveGood, Sends
<1>7. \A m \in 1 .. Len(r) : r[m].t = "event" => r[m].cur \in 1 .. Len(w)
  BY <1>1, <1>5, <1>6
<1>8. ASSUME NEW m \in 1 .. Len(q), NEW i \in Items, Carries(w, r[m], i)
      PROVE  /\ Carries(v, q[m], i) /\ (i \in f.done \/ Below(f, i, w[r[m].cur].n))
             /\ w[r[m].cur].n = v[q[m].cur].n /\ w[r[m].cur].n \in Nat /\ w[r[m].cur].n <= T[i]
  <2>1. Carries(v, q[m], i) /\ r[m] = q[m] /\ w[r[m].cur] = v[q[m].cur] /\ q[m].cur \in 1 .. Len(v)
    BY <1>6, <1>8 DEF Carries
  <2>2. (i \in f.done \/ Below(f, i, v[q[m].cur].n)) /\ v[q[m].cur].n <= T[i]
    BY <2>1 DEF LiveGood, T
  <2>3. QED
    BY <1>4, <2>1, <2>2
<1>9. ASSUME NEW m \in Len(q) + 1 .. Len(r), NEW i \in Items, Carries(w, r[m], i)
      PROVE  w[r[m].cur].n = T[i] + 1 /\ U[i] = T[i] + 1 /\ Below(f, i, T[i] + 1)
  <2>1. r[m].cur = k /\ e.what = "delta" /\ e.item = i
    BY <1>1, <1>9 DEF Carries, Sends, k
  <2>2. Below(f, i, T[i] + 1)
    <3>1. \A p \in 1 .. Len(f.text[i]) : f.text[i][p] \in Nat /\ f.text[i][p] <= T[i]
      BY SessionFields DEF TextBound, T
    <3>2. T[i] \in Nat
      BY <1>2
    <3>3. \A p \in 1 .. Len(f.text[i]) : f.text[i][p] < T[i] + 1
      BY <3>1, <3>2, SMTT(30)
    <3>4. QED
      BY <3>3 DEF Below
  <2>3. QED
    BY <1>1, <1>3, <2>1, <2>2 DEF T
<1>10. \A m \in 1 .. Len(r), i \in Items : Carries(w, r[m], i) =>
         (i \in f.done \/ Below(f, i, w[r[m].cur].n)) /\ w[r[m].cur].n <= U[i]
  <2> TAKE m \in 1 .. Len(r), i \in Items
  <2> HAVE Carries(w, r[m], i)
  <2>1. T[i] \in Nat /\ U[i] \in Nat /\ T[i] <= U[i]
    BY <1>2, <1>3
  <2>2. CASE m \in 1 .. Len(q)
    BY <1>8, <2>1, <2>2
  <2>3. CASE m \in Len(q) + 1 .. Len(r)
    BY <1>9, <2>1, <2>3
  <2>4. QED
    BY <1>5, <2>2, <2>3
<1>11. \A a, b \in 1 .. Len(r), i \in Items :
         a < b /\ Carries(w, r[a], i) /\ Carries(w, r[b], i) => w[r[a].cur].n < w[r[b].cur].n
  <2> TAKE a \in 1 .. Len(r), b \in 1 .. Len(r), i \in Items
  <2> HAVE a < b /\ Carries(w, r[a], i) /\ Carries(w, r[b], i)
  <2>1. CASE b \in 1 .. Len(q)
    <3>1. a \in 1 .. Len(q)
      BY <1>1, <2>1
    <3>2. QED
      BY <1>8, <2>1, <3>1 DEF LiveGood
  <2>2. CASE a \in 1 .. Len(q) /\ b \in Len(q) + 1 .. Len(r)
    <3>1. w[r[a].cur].n \in Nat /\ w[r[a].cur].n <= T[i]
      BY <1>8, <2>2
    <3>2. w[r[b].cur].n = T[i] + 1
      BY <1>9, <2>2
    <3>3. T[i] \in Nat
      BY <1>2
    <3>4. QED
      BY <3>1, <3>2, <3>3
  <2>3. CASE a \in Len(q) + 1 .. Len(r) /\ b \in Len(q) + 1 .. Len(r)
    <3>1. a = b
      BY <2>3 DEF Sends, Carries
    <3>2. QED
      BY <3>1
  <2>4. QED
    BY <1>1, <1>5, <2>1, <2>2, <2>3
<1>12. QED
  BY <1>7, <1>10, <1>11 DEF LiveGood, w, U

-----------------------------------------------------------------------------
(* The inductive invariant.                                                 *)

LogOK ==
  /\ view \in Views /\ log \in Seq(Events) /\ Len(log) <= Len(view)
  /\ \A k \in 1 .. Len(log) : log[k] = view[k]

BookOK ==
  /\ s.cursor \in 0 .. Len(log) /\ s.seen \cup s.twins \subseteq 1 .. Len(log)
  /\ walk \in Walks \cup {None} /\ hole \in 0 .. Len(log) \cup {None}
  /\ walk # None => walk.live \in 0 .. Len(log) /\ walk.delivered \subseteq 1 .. Len(log)

LiveType == live \in Seq(Deliveries) /\ \A m \in 1 .. Len(live) : live[m].cur \in 0 .. Len(log)

RestType ==
  up \in BOOLEAN /\ excused \in BOOLEAN /\ crashes \in 0 .. MaxCrashes /\ faults \in 0 .. MaxFaults

IInv ==
  /\ LogOK /\ BookOK /\ LiveType /\ RestType
  /\ Sound(s) /\ LiveGood(log, live, s, Tot)

LEMMA IInvType == IInv => TypeOK
<1> SUFFICES ASSUME IInv PROVE TypeOK
  OBVIOUS
<1>1. DOMAIN live = 1 .. Len(live)
  BY DEF IInv, LiveType
<1>2. s \in Sessions
  BY DEF IInv, Sound, Good
<1>3. QED
  BY <1>1, <1>2 DEF IInv, LogOK, BookOK, LiveType, RestType, TypeOK

\* The log is one event longer; what is on its way is r.
LEMMA LogGrows ==
  ASSUME LogOK, Sound(s), LiveGood(log, live, s, Tot), LiveType, live' \in Seq(Deliveries),
         Len(log) < Len(view), log' = Append(log, view[Len(log) + 1]), view' = view, s' = s,
         Sends(live, live', Len(log) + 1)
  PROVE  LogOK' /\ Sound(s)' /\ LiveGood(log, live, s, Tot)' /\ Len(log') = Len(log) + 1
<1> DEFINE k == Len(log) + 1
           e == view[k]
           T == TotOf(log)
           U == TotOf(log')
<1>1. /\ view \in Seq(Events) /\ WellFormed(view) /\ log \in Seq(Events) /\ Len(log) \in Nat
      /\ k \in 1 .. Len(view)
  BY ViewsAssumption DEF LogOK
<1>2. e \in Events
  BY <1>1
<1>3. /\ Len(log') = k /\ log'[k] = e /\ \A j \in 1 .. Len(log) : log'[j] = log[j]
      /\ log' \in Seq(Events) /\ \A j \in 1 .. k : j \in 1 .. Len(log) \/ j = k
  BY <1>1, <1>2
<1>4. LogOK'
  BY <1>1, <1>3 DEF LogOK
<1>5. Tot = T /\ Tot' = U
  BY DEF Tot, TotOf, Total, TotalIn
<1>6. T \in [Items -> Nat] /\ U \in [Items -> Nat]
  BY <1>1, <1>3, TotOfType
<1>7. \A i \in Items : U[i] = IF e.what = "delta" /\ e.item = i THEN T[i] + 1 ELSE T[i]
  BY <1>1, <1>2, TotOfAppend
<1>8. AtMost(T, U)
  <2> SUFFICES ASSUME NEW i \in Items PROVE T[i] <= U[i]
    BY DEF AtMost
  <2>1. T[i] \in Nat /\ (U[i] = T[i] + 1 \/ U[i] = T[i])
    BY <1>6, <1>7
  <2>2. QED
    BY <2>1
<1>9. e.what = "delta" => e.n = T[e.item] + 1
  <2> HAVE e.what = "delta"
  <2>1. e.item \in Items
    BY <1>2 DEF Events, TurnEvents
  <2>2. e.n = Cardinality({j \in 1 .. k - 1 : view[j].what = "delta" /\ view[j].item = e.item}) + 1
    <3>1. DOMAIN view = 1 .. Len(view)
      BY <1>1
    <3>2. QED
      BY <1>1, <3>1 DEF WellFormed
  <2>3. e.n = TotalIn(view, e.item, Len(log)) + 1
    <3>1. k - 1 = Len(log)
      BY <1>1
    <3>2. QED
      BY <2>2, <3>1 DEF TotalIn
  <2>4. TotalIn(view, e.item, Len(log)) = TotalIn(log, e.item, Len(log))
    BY <1>1, TotalInSame, SMTT(30) DEF LogOK
  <2>5. QED
    BY <2>1, <2>3, <2>4 DEF TotOf
<1> HIDE DEF T, U
<1>10. Good(s, {}, U, {}) /\ HeldOK(s, {}, U, {}) /\ ~s.replaying
  <2>1. Good(s, {}, T, {}) /\ HeldOK(s, {}, T, {}) /\ ~s.replaying
    BY <1>5 DEF Sound
  <2>2. QED
    BY <1>6, <1>8, <2>1, GoodMore
<1>11. Sound(s)'
  BY <1>5, <1>10 DEF Sound
<1>12. LiveGood(log', live', s, U)
  <2>1. s \in Sessions /\ TextBound(s, T)
    BY <1>5 DEF Sound, Good
  <2>2. LiveGood(log, live, s, TotOf(log))
    BY <1>5 DEF T
  <2>3. live \in Seq(Deliveries)
    BY DEF LiveType
  <2> HIDE DEF e
  <2>4. LiveGood(Append(log, e), live', s, TotOf(Append(log, e)))
    BY <1>1, <1>2, <1>9, <2>1, <2>2, <2>3, LiveGoodSend DEF T
  <2>5. log' = Append(log, e)
    BY DEF e
  <2>6. QED
    BY <2>4, <2>5 DEF U
<1>13. QED
  BY <1>3, <1>4, <1>5, <1>11, <1>12

-----------------------------------------------------------------------------
(* Steps.                                                                   *)

\* From f to g only the bookkeeping changed.
Beside(f, g) == g \in Sessions /\ SameFold(f, g) /\ g.held = f.held

LEMMA BesideSound ==
  ASSUME NEW f, NEW g, Sound(f), Beside(f, g)
  PROVE  Sound(g) /\ Quietly(f, g) /\ f.done = g.done /\ \A j : Settled(f, j) <=> Settled(g, j)
<1>1. Good(g, {}, Tot, {})
  BY GoodSame DEF Sound, Beside
<1>2. HeldOK(g, {}, Tot, {}) /\ ~g.replaying
  BY DEF Sound, Beside, SameFold, HeldOK
<1>3. QED
  BY <1>1, <1>2 DEF Sound, Beside, SameFold, Quietly, Settled

LEMMA SameTot ==
  ASSUME log' = log
  PROVE  Tot' = Tot
BY DEF Tot, Total

\* What holds if the log stays.
LEMMA LogStays ==
  ASSUME IInv, log' = log, view' = view, LiveType', BookOK', RestType',
         Sound(s'), LiveGood(log, live', s', Tot)
  PROVE  IInv'
<1>1. LogOK'
  BY DEF IInv, LogOK
<1>2. Sound(s)'
  BY SameTot DEF Sound
<1>3. LiveGood(log, live, s, Tot)'
  BY SameTot
<1>4. QED
  BY <1>1, <1>2, <1>3 DEF IInv

LEMMA LivePart ==
  ASSUME LiveType, NEW q \in Seq(Deliveries), NEW c \in Nat, PartOf(q, live, c)
  PROVE  \A m \in 1 .. Len(q) : q[m].cur \in 0 .. Len(log)
BY DEF LiveType, PartOf

LEMMA TailPart ==
  ASSUME NEW q \in Seq(Deliveries), q # <<>>
  PROVE  Tail(q) \in Seq(Deliveries) /\ PartOf(Tail(q), q, 1)
BY DEF PartOf

LEMMA HeadIs ==
  ASSUME LiveType, live # <<>>
  PROVE  /\ Head(live) = live[1] /\ 1 \in 1 .. Len(live) /\ Head(live) \in Deliveries
         /\ Head(live).after \in Nat /\ Head(live).next \in Nat
<1>1. Head(live) = live[1] /\ 1 \in 1 .. Len(live) /\ Head(live) \in Deliveries
  BY DEF LiveType
<1>2. QED
  BY <1>1 DEF Deliveries

LEMMA ReadEventStep ==
  ASSUME IInv, ReadEvent
  PROVE  IInv' /\ Handles(s, s', Head(live).cur) /\ Head(live).cur \in 1 .. Len(log)
<1> DEFINE k == Head(live).cur
<1>1. /\ LogOK /\ BookOK /\ LiveType /\ RestType /\ Sound(s) /\ LiveGood(log, live, s, Tot)
      /\ live \in Seq(Deliveries) /\ log \in Seq(Events)
  BY DEF IInv, LogOK, LiveType
<1>2. /\ walk = None /\ live # <<>> /\ Head(live).t = "event" /\ live' = Tail(live)
      /\ s' = HandleMsp(s, k) /\ log' = log /\ view' = view
      /\ UNCHANGED <<hole, up, walk, excused, crashes, faults>>
  BY DEF ReadEvent
<1>3. Head(live) = live[1] /\ 1 \in 1 .. Len(live)
  BY <1>1, <1>2, HeadIs
<1>4. k \in 1 .. Len(log)
  BY <1>1, <1>2, <1>3 DEF LiveGood
<1>5. Clear(s, k)
  <2> SUFFICES ASSUME log[k].what = "delta"
               PROVE  /\ log[k].item \in s.done \/ Below(s, log[k].item, log[k].n)
                      /\ log[k].n <= Tot[log[k].item]
    BY DEF Clear
  <2>1. log[k].item \in Items
    BY <1>1, <1>4, EventType DEF ItemEvents
  <2>2. Carries(log, live[1], log[k].item)
    BY <1>2, <1>3 DEF Carries
  <2>3. QED
    BY <1>1, <1>3, <2>1, <2>2 DEF LiveGood
<1>6. Handles(s, s', k)
  BY <1>1, <1>2, <1>4, <1>5, HandleMspHandles
<1>7. Sound(s') /\ s \in Sessions
  BY <1>1, <1>6 DEF Handles, Sound, Good
<1>8. LiveGood(log, live', s', Tot)
  BY <1>1, <1>2, <1>6, <1>7, LiveGoodRead DEF Handles
<1>9. LiveType'
  <2>1. live' \in Seq(Deliveries) /\ PartOf(live', live, 1)
    BY <1>1, <1>2, TailPart
  <2>2. \A m \in 1 .. Len(live') : live'[m].cur \in 0 .. Len(log)
    BY <1>1, <2>1, LivePart
  <2>3. QED
    BY <1>2, <2>1, <2>2 DEF LiveType
<1>10. BookOK'
  BY <1>1, <1>2, <1>4, <1>6 DEF BookOK, Handles
<1>11. RestType'
  BY <1>1, <1>2 DEF RestType
<1>12. IInv'
  BY <1>2, <1>7, <1>8, <1>9, <1>10, <1>11, LogStays
<1>13. QED
  BY <1>4, <1>6, <1>12

LEMMA ReadGapStep ==
  ASSUME IInv, ReadGap
  PROVE  IInv'
<1>1. /\ LogOK /\ BookOK /\ LiveType /\ RestType /\ Sound(s) /\ LiveGood(log, live, s, Tot)
      /\ live \in Seq(Deliveries) /\ s \in Sessions
  BY DEF IInv, LiveType, Sound, Good
<1>2. /\ live # <<>> /\ live' = Tail(live) /\ s' = s /\ log' = log /\ view' = view
      /\ walk' = [cursor |-> WalkFrom(Head(live)), after |-> Head(live).after,
                  next |-> Head(live).next, live |-> s.cursor, delivered |-> {}]
      /\ UNCHANGED <<hole, up, excused, crashes, faults>>
  BY DEF ReadGap
<1>3. live' \in Seq(Deliveries) /\ PartOf(live', live, 1)
  BY <1>1, <1>2, TailPart
<1>4. LiveGood(log, live', s', Tot)
  <2>1. Len(live') \in Nat
    BY <1>3
  <2>2. QED
    BY <1>1, <1>2, <1>3, <2>1, LiveGoodPart
<1>5. LiveType'
  BY <1>1, <1>2, <1>3, LivePart DEF LiveType
<1>6. BookOK'
  <2>1. walk' \in Walks /\ walk'.live = s.cursor /\ walk'.delivered = {}
    <3>1. Head(live).after \in Nat /\ Head(live).next \in Nat /\ s.cursor \in Nat
      BY <1>1, <1>2, HeadIs, SessionFields
    <3>2. QED
      BY <1>2, <3>1 DEF Walks, WalkFrom
  <2>2. QED
    BY <1>1, <1>2, <2>1 DEF BookOK
<1>7. RestType'
  BY <1>1, <1>2 DEF RestType
<1>8. QED
  BY <1>1, <1>2, <1>4, <1>5, <1>6, <1>7, LogStays

\* The bracket and the event of an emission.
LEMMA EmitSends ==
  ASSUME NEW q \in Seq(Deliveries), NEW k \in Nat, NEW h \in Nat \cup {None}, NEW r,
         \/ r = Append(q, Ev(k))
         \/ h # None /\ r = q \o <<Ev(k), Gap(h, k)>>
         \/ h # None /\ r = q \o <<Gap(h, k), Ev(k)>>
  PROVE  /\ r \in Seq(Deliveries) /\ Sends(q, r, k)
         /\ \A m \in 1 .. Len(r) : r[m] \in Range(q) \/ r[m] = Ev(k) \/ (h # None /\ r[m] = Gap(h, k))
<1>1. /\ Ev(k) \in Deliveries /\ Ev(k).t = "event" /\ Ev(k).cur = k
      /\ h # None => Gap(h, k) \in Deliveries /\ Gap(h, k).t = "gap"
  BY DEF Ev, Gap, Deliveries
<1> DEFINE a == Ev(k)
           b == Gap(h, k)
<1> HIDE DEF a, b
<1>2. \A m \in 1 .. Len(q) : q[m] \in Range(q)
  BY DEF Range
<1>3. CASE r = Append(q, a)
  BY <1>1, <1>2, <1>3 DEF Sends, a, b
<1>4. CASE h # None /\ r = q \o <<a, b>>
  <2>1. a \in Deliveries /\ b \in Deliveries /\ a.t = "event" /\ a.cur = k /\ b.t = "gap"
    BY <1>1, <1>4 DEF a, b
  <2>2. /\ r \in Seq(Deliveries) /\ Len(r) = Len(q) + 2 /\ \A m \in 1 .. Len(q) : r[m] = q[m]
        /\ r[Len(q) + 1] = a /\ r[Len(q) + 2] = b
    BY <1>4, <2>1
  <2>3. \A m \in 1 .. Len(r) : m \in 1 .. Len(q) \/ m = Len(q) + 1 \/ m = Len(q) + 2
    BY <2>2
  <2>4. QED
    BY <1>2, <1>4, <2>1, <2>2, <2>3, SMTT(30) DEF Sends, a, b
<1>5. CASE h # None /\ r = q \o <<b, a>>
  <2>1. a \in Deliveries /\ b \in Deliveries /\ a.t = "event" /\ a.cur = k /\ b.t = "gap"
    BY <1>1, <1>5 DEF a, b
  <2>2. /\ r \in Seq(Deliveries) /\ Len(r) = Len(q) + 2 /\ \A m \in 1 .. Len(q) : r[m] = q[m]
        /\ r[Len(q) + 1] = b /\ r[Len(q) + 2] = a
    BY <1>5, <2>1
  <2>3. \A m \in 1 .. Len(r) : m \in 1 .. Len(q) \/ m = Len(q) + 1 \/ m = Len(q) + 2
    BY <2>2
  <2>4. QED
    BY <1>2, <1>5, <2>1, <2>2, <2>3, SMTT(30) DEF Sends, a, b
<1>6. QED
  BY <1>3, <1>4, <1>5 DEF a, b

LEMMA HostEmitStep ==
  ASSUME IInv, HostEmit
  PROVE  IInv'
<1> DEFINE k == Len(log) + 1
<1>1. /\ LogOK /\ BookOK /\ LiveType /\ RestType /\ Sound(s) /\ LiveGood(log, live, s, Tot)
      /\ live \in Seq(Deliveries) /\ Len(log) \in Nat /\ k \in Nat
  BY DEF IInv, LiveType, LogOK
<1>2. /\ Len(log) < Len(view) /\ log' = Append(log, view[k]) /\ view' = view /\ s' = s /\ hole' = None
      /\ UNCHANGED <<up, walk, excused, crashes, faults>>
  BY DEF HostEmit
<1>3. \/ live' = Append(live, Ev(k))
      \/ hole # None /\ live' = live \o <<Ev(k), Gap(hole, k)>>
      \/ hole # None /\ live' = live \o <<Gap(hole, k), Ev(k)>>
  BY DEF HostEmit
<1>4. hole \in Nat \cup {None}
  BY <1>1 DEF BookOK
<1> HIDE DEF k
<1>5. /\ live' \in Seq(Deliveries) /\ Sends(live, live', k)
      /\ \A m \in 1 .. Len(live') :
           live'[m] \in Range(live) \/ live'[m] = Ev(k) \/ (hole # None /\ live'[m] = Gap(hole, k))
  BY <1>1, <1>3, <1>4, EmitSends, ZenonT(30)
<1>6. LogOK' /\ Sound(s)' /\ LiveGood(log, live, s, Tot)' /\ Len(log') = k
  <2>1. QED
    BY <1>1, <1>2, <1>5, LogGrows DEF k
<1>7. \A m \in 1 .. Len(live') : live'[m].cur \in 0 .. k
  <2> TAKE m \in 1 .. Len(live')
  <2>1. CASE live'[m] \in Range(live)
    <3>1. PICK j \in 1 .. Len(live) : live'[m] = live[j]
      BY <1>1, <2>1 DEF Range
    <3>2. live[j].cur \in 0 .. Len(log)
      BY <1>1 DEF LiveType
    <3>3. QED
      BY <1>1, <3>1, <3>2 DEF k
  <2>2. CASE live'[m] = Ev(k)
    BY <1>1, <2>2 DEF Ev
  <2>3. CASE live'[m] = Gap(hole, k)
    BY <1>1, <2>3 DEF Gap
  <2>4. QED
    BY <1>5, <2>1, <2>2, <2>3
<1>8. LiveType'
  BY <1>5, <1>6, <1>7 DEF LiveType
<1>9. BookOK'
  <2>1. 0 .. Len(log) \subseteq 0 .. k /\ 1 .. Len(log) \subseteq 1 .. k
    BY <1>1 DEF k
  <2>2. QED
    BY <1>1, <1>2, <1>6, <2>1 DEF BookOK
<1>10. RestType'
  BY <1>1, <1>2 DEF RestType
<1>11. QED
  BY <1>6, <1>8, <1>9, <1>10 DEF IInv

LEMMA HostDropStep ==
  ASSUME IInv, HostDrop
  PROVE  IInv'
<1> DEFINE k == Len(log) + 1
<1>1. /\ LogOK /\ BookOK /\ LiveType /\ RestType /\ Sound(s) /\ LiveGood(log, live, s, Tot)
      /\ live \in Seq(Deliveries) /\ Len(log) \in Nat /\ k \in Nat
  BY DEF IInv, LiveType, LogOK
<1>2. /\ Len(log) < Len(view) /\ log' = Append(log, view[k]) /\ view' = view /\ s' = s /\ live' = live
      /\ \/ hole' = hole /\ faults' = faults
         \/ hole' = Len(log) /\ faults < MaxFaults /\ faults' = faults + 1
      /\ UNCHANGED <<up, walk, excused, crashes>>
  BY DEF HostDrop
<1>3. Sends(live, live', k)
  BY <1>1, <1>2 DEF Sends
<1>4. LogOK' /\ Sound(s)' /\ LiveGood(log, live, s, Tot)' /\ Len(log') = k
  BY <1>1, <1>2, <1>3, LogGrows
<1>5. 0 .. Len(log) \subseteq 0 .. k /\ 1 .. Len(log) \subseteq 1 .. k /\ Len(log) \in 0 .. k
  BY <1>1
<1> HIDE DEF k
<1>6. LiveType'
  <2> SUFFICES ASSUME NEW m \in 1 .. Len(live) PROVE live[m].cur \in 0 .. k
    BY <1>1, <1>2, <1>4 DEF LiveType
  <2>1. live[m].cur \in 0 .. Len(log)
    BY <1>1 DEF LiveType
  <2>2. QED
    BY <1>5, <2>1
<1>7. BookOK'
  BY <1>1, <1>2, <1>4, <1>5 DEF BookOK
<1>8. RestType'
  BY <1>1, <1>2, TranscriptAssumption DEF RestType
<1>9. QED
  BY <1>4, <1>6, <1>7, <1>8 DEF IInv

LEMMA HostCrashStep ==
  ASSUME IInv, HostCrash
  PROVE  IInv'
<1>1. /\ LogOK /\ BookOK /\ LiveType /\ RestType /\ Sound(s) /\ LiveGood(log, live, s, Tot)
      /\ live \in Seq(Deliveries)
  BY DEF IInv, LiveType
<1>2. /\ crashes < MaxCrashes /\ faults < MaxFaults /\ up' = FALSE /\ hole' = None
      /\ crashes' = crashes + 1 /\ faults' = faults + 1
      /\ UNCHANGED <<view, log, s, walk>>
  BY DEF HostCrash
<1>3. PICK n \in 0 .. Len(live) :
        /\ live' = SubSeq(live, 1, n)
        /\ excused' = (excused \/ \E m \in n + 1 .. Len(live) :
                         /\ live[m].t = "gap"
                         /\ ~\E j \in n + 1 .. Len(live) : live[j].cur = live[m].next)
  BY DEF HostCrash
<1>4. live' \in Seq(Deliveries) /\ Len(live') = n /\ PartOf(live', live, 0)
  BY <1>1, <1>3 DEF PartOf
<1>5. LiveGood(log, live', s', Tot)
  BY <1>1, <1>2, <1>4, LiveGoodPart
<1>6. LiveType'
  BY <1>1, <1>2, <1>4, LivePart DEF LiveType
<1>7. BookOK'
  BY <1>1, <1>2 DEF BookOK
<1>8. RestType'
  <2>1. excused' \in BOOLEAN
    BY <1>1, <1>3 DEF RestType
  <2>2. crashes' \in 0 .. MaxCrashes /\ faults' \in 0 .. MaxFaults
    <3>1. MaxCrashes \in Nat /\ MaxFaults \in Nat
      BY TranscriptAssumption
    <3>2. QED
      BY <1>1, <1>2, <3>1 DEF RestType
  <2>3. QED
    BY <1>2, <2>1, <2>2 DEF RestType
<1>9. QED
  BY <1>1, <1>2, <1>5, <1>6, <1>7, <1>8, LogStays

LEMMA TurnsNat ==
  ASSUME log \in Seq(Events), NEW w
  PROVE  Turns(w) \in Nat
<1>1. DOMAIN log = 1 .. Len(log) /\ Len(log) \in Nat
  OBVIOUS
<1>2. IsFiniteSet(1 .. Len(log))
  BY <1>1, FS_Interval
<1>3. IsFiniteSet({k \in DOMAIN log : log[k].what = w})
  BY <1>1, <1>2, FS_Subset
<1>4. QED
  BY <1>3, FS_CardinalityType DEF Turns

\* What the end of a walk leaves of the session.
Ended(f, g, delivered, reached) ==
  /\ Beside(f, g) /\ g.seen = f.seen
  /\ g.cursor \in {f.cursor, walk.live} /\ (walk.after # walk.live => g.cursor = walk.live)
  /\ (walk.after = walk.live => g.cursor = f.cursor)
  /\ g.twins = (IF reached THEN f.twins ELSE f.twins \cup delivered)

LEMMA EndWalkBeside ==
  ASSUME NEW f, Sound(f), NEW delivered \in SUBSET Nat, NEW reached \in BOOLEAN, walk.live \in Nat
  PROVE  Ended(f, EndWalk(f, delivered, reached), delivered, reached)
<1> DEFINE twins == IF reached THEN f.twins ELSE f.twins \cup delivered
           cursor == IF walk.after # walk.live THEN walk.live ELSE f.cursor
           g == [f EXCEPT !.twins = twins, !.cursor = cursor]
<1>1. f \in Sessions
  BY DEF Sound, Good
<1>2. EndWalk(f, delivered, reached) = g
  BY <1>1 DEF EndWalk, Sessions
<1>3. twins \in SUBSET Nat /\ cursor \in Nat
  BY <1>1, SessionFields
<1> HIDE DEF twins, cursor
<1>4. g \in Sessions
  BY <1>1, <1>3 DEF Sessions
<1>5. SameFold(f, g) /\ g.held = f.held /\ g.seen = f.seen /\ g.cursor = cursor /\ g.twins = twins
  BY <1>1 DEF Sessions, SameFold
<1> HIDE DEF g
<1>6. QED
  BY <1>2, <1>4, <1>5 DEF Beside, cursor, twins, Ended

\* One step of a walk: what the page brought was handled.
WalkHandles(f, page, take) ==
  /\ PageOK(page, walk.cursor) /\ page = Page(walk.cursor)
  /\ \A k : k \in Range(take) <=> k \in Range(page) /\ (walk.next \in Range(page) => k < walk.next)
  /\ f = HandleAll(s, take) /\ HandlesAll(s, f, Range(take))

LEMMA WalkPageHandles ==
  ASSUME LogOK, BookOK, Sound(s), walk # None,
         NEW page, page = Page(walk.cursor), NEW take, take = Taken(page, walk.next)
  PROVE  WalkHandles(HandleAll(s, take), page, take)
<1>1. walk.cursor \in Nat /\ walk.next \in Nat /\ log \in Seq(Events)
  BY DEF BookOK, Walks, LogOK
<1>2. PageOK(page, walk.cursor)
  BY <1>1, PageIs
<1>3. /\ take \in Seq(Nat)
      /\ \A n \in 1 .. Len(take) : take[n] \in 1 .. Len(log) /\ Durable(take[n])
      /\ \A k : k \in Range(take) <=> k \in Range(page) /\ (walk.next \in Range(page) => k < walk.next)
  BY <1>1, <1>2, TakenIs
<1>4. HandlesAll(s, HandleAll(s, take), Range(take))
  BY <1>1, <1>3, HandleAllHandles
<1>5. QED
  BY <1>2, <1>3, <1>4 DEF WalkHandles

LEMMA WalkPageStep ==
  ASSUME IInv, WalkPage
  PROVE  IInv'
<1> DEFINE page == Page(walk.cursor)
           take == Taken(page, walk.next)
           reached == walk.next \in Range(page)
           f == HandleAll(s, take)
           delivered == walk.delivered \cup Range(take)
           end == IF page = <<>> THEN TRUE ELSE Page(Last(page)) = <<>>
<1>1. /\ LogOK /\ BookOK /\ LiveType /\ RestType /\ Sound(s) /\ LiveGood(log, live, s, Tot)
      /\ log \in Seq(Events)
  BY DEF IInv, LogOK
<1>2. /\ walk # None
      /\ \/ s' = EndWalk(f, delivered, reached) /\ walk' = None
         \/ /\ ~end /\ s' = f
            /\ walk' = [walk EXCEPT !.cursor = Last(page), !.delivered = delivered]
      /\ UNCHANGED <<view, log, hole, live, up, excused, crashes, faults>>
  BY DEF WalkPage, Taken
<1>3. reached \in BOOLEAN /\ (~end => page # <<>>)
  OBVIOUS
<1>4. WalkHandles(f, page, take)
  BY <1>1, <1>2, WalkPageHandles
<1> HIDE DEF take, f, end, page, reached
<1>5. /\ PageOK(page, walk.cursor) /\ HandlesAll(s, f, Range(take))
      /\ \A k \in Range(take) : k \in Range(page)
  BY <1>4 DEF WalkHandles
<1>6. Range(take) \subseteq 1 .. Len(log) /\ Len(log) \in Nat
  BY <1>1, <1>5 DEF PageOK
<1>7. /\ walk \in Walks /\ walk.live \in 0 .. Len(log) /\ walk.live \in Nat
      /\ delivered \subseteq 1 .. Len(log) /\ delivered \in SUBSET Nat
  BY <1>1, <1>2, <1>6 DEF BookOK
<1> HIDE DEF delivered
<1>8. /\ Sound(f) /\ Quietly(s, f) /\ s.done \subseteq f.done
      /\ f.cursor \in 0 .. Len(log) /\ f.seen \cup f.twins \subseteq 1 .. Len(log)
  BY <1>1, <1>5, <1>6 DEF HandlesAll, BookOK
<1>9. /\ Sound(s') /\ Quietly(s, s') /\ s.done \subseteq s'.done
      /\ s'.cursor \in 0 .. Len(log) /\ s'.seen \cup s'.twins \subseteq 1 .. Len(log)
  <2>1. CASE s' = f
    BY <1>8, <2>1
  <2>2. CASE s' = EndWalk(f, delivered, reached)
    <3> DEFINE g == EndWalk(f, delivered, reached)
    <3>0. Ended(f, g, delivered, reached)
      BY <1>3, <1>7, <1>8, EndWalkBeside
    <3> HIDE DEF g
    <3>1. /\ Beside(f, g) /\ g.seen = f.seen /\ g.cursor \in {f.cursor, walk.live}
          /\ g.twins = (IF reached THEN f.twins ELSE f.twins \cup delivered)
      BY <3>0 DEF Ended
    <3>2. Sound(g) /\ Quietly(f, g) /\ f.done = g.done
      BY <1>8, <3>1, BesideSound
    <3>3. Quietly(s, g)
      BY <1>8, <3>2, QuietlyTrans
    <3>4. g.cursor \in 0 .. Len(log) /\ g.seen \cup g.twins \subseteq 1 .. Len(log)
      BY <1>7, <1>8, <3>1
    <3>5. s' = g
      BY <2>2 DEF g
    <3>6. QED
      BY <1>8, <3>2, <3>3, <3>4, <3>5
  <2>3. QED
    BY <1>2, <2>1, <2>2
<1>10. LiveGood(log, live', s', Tot)
  BY <1>1, <1>2, <1>9, LiveGoodQuietly
<1>11. walk' \in Walks \cup {None} /\ (walk' # None => walk'.live \in 0 .. Len(log)
          /\ walk'.delivered \subseteq 1 .. Len(log))
  <2>1. CASE walk' = None
    BY <2>1
  <2>2. CASE ~end /\ walk' = [walk EXCEPT !.cursor = Last(page), !.delivered = delivered]
    <3>1. Last(page) \in Nat
      <4>1. Last(page) \in Range(page)
        BY <1>3, <1>5, <2>2 DEF PageOK
      <4>2. QED
        BY <1>5, <4>1 DEF PageOK
    <3>2. walk' \in Walks /\ walk'.live = walk.live /\ walk'.delivered = delivered
      BY <1>7, <2>2, <3>1 DEF Walks
    <3>3. QED
      BY <1>7, <3>2
  <2>3. QED
    BY <1>2, <2>1, <2>2
<1>12. BookOK'
  BY <1>1, <1>2, <1>9, <1>11 DEF BookOK
<1>13. LiveType' /\ RestType'
  BY <1>1, <1>2 DEF LiveType, RestType
<1>14. QED
  BY <1>1, <1>2, <1>9, <1>10, <1>12, <1>13, LogStays

LEMMA WalkFailsStep ==
  ASSUME IInv, WalkFails
  PROVE  IInv'
<1> DEFINE g == EndWalk(s, walk.delivered, FALSE)
<1>1. /\ LogOK /\ BookOK /\ LiveType /\ RestType /\ Sound(s) /\ LiveGood(log, live, s, Tot)
      /\ Len(log) \in Nat
  BY DEF IInv, LogOK
<1>2. /\ walk # None /\ s' = g /\ walk' = None /\ excused' = TRUE
      /\ UNCHANGED <<view, log, hole, live, up, crashes, faults>>
  BY DEF WalkFails
<1>3. /\ walk.live \in 0 .. Len(log) /\ walk.live \in Nat
      /\ walk.delivered \subseteq 1 .. Len(log) /\ walk.delivered \in SUBSET Nat
  BY <1>1, <1>2 DEF BookOK
<1>0. Ended(s, g, walk.delivered, FALSE)
  <2>1. FALSE \in BOOLEAN
    OBVIOUS
  <2>2. QED
    BY <1>1, <1>3, <2>1, EndWalkBeside
<1> HIDE DEF g
<1>4. /\ Beside(s, g) /\ g.seen = s.seen /\ g.cursor \in {s.cursor, walk.live}
      /\ g.twins = s.twins \cup walk.delivered
  BY <1>0 DEF Ended
<1>5. Sound(g) /\ Quietly(s, g) /\ s.done = g.done
  BY <1>1, <1>4, BesideSound
<1>6. LiveGood(log, live', s', Tot)
  BY <1>1, <1>2, <1>5, LiveGoodQuietly
<1>7. BookOK'
  BY <1>1, <1>2, <1>3, <1>4 DEF BookOK
<1>8. LiveType' /\ RestType'
  BY <1>1, <1>2 DEF LiveType, RestType
<1>9. QED
  BY <1>1, <1>2, <1>5, <1>6, <1>7, <1>8, LogStays

LEMMA SuffixIs ==
  ASSUME log \in Seq(Events), NEW c \in Nat
  PROVE  /\ Suffix(c) \in Seq(1 .. Len(log))
         /\ \A k : k \in Range(Suffix(c)) <=> k \in 1 .. Len(log) /\ k > c /\ Durable(k)
<1> DEFINE S == {k \in DOMAIN log : k > c /\ Durable(k)}
<1>1. S \in SUBSET (1 .. Len(log)) /\ Suffix(c) = Cursors(S)
  BY DEF Suffix
<1>2. \A k : k \in S <=> k \in 1 .. Len(log) /\ k > c /\ Durable(k)
  OBVIOUS
<1> HIDE DEF S
<1>3. Cursors(S) \in Seq(1 .. Len(log)) /\ Range(Cursors(S)) = S
  BY <1>1, CursorsAre
<1>4. QED
  BY <1>1, <1>2, <1>3

\* The head the session moves to, and its turn.
Heads(g, act) == [g EXCEPT !.cursor = Len(log), !.active = act]

LEMMA HeadsBeside ==
  ASSUME NEW f, Sound(f), log \in Seq(Events), NEW act \in Nat
  PROVE  LET g == Heads(f, act)
         IN Beside(f, g) /\ g.cursor = Len(log) /\ g.seen = f.seen /\ g.twins = f.twins
<1> DEFINE g == Heads(f, act)
<1>1. f \in Sessions /\ Len(log) \in Nat
  BY DEF Sound, Good
<1>2. g \in Sessions
  BY <1>1 DEF Heads, Sessions
<1>3. /\ SameFold(f, g) /\ g.held = f.held /\ g.cursor = Len(log) /\ g.seen = f.seen
      /\ g.twins = f.twins
  BY <1>1 DEF Heads, Sessions, SameFold
<1>4. QED
  BY <1>2, <1>3 DEF Beside

LEMMA ActiveNat ==
  ASSUME log \in Seq(Events)
  PROVE  (IF InTurn THEN Turns("turnStarted") ELSE 0) \in Nat
BY TurnsNat

\* What a re-attach sends.
Resent(c, twice) ==
  [n \in 1 .. (Len(Suffix(c)) + twice) |->
     Ev(Suffix(c)[IF n > Len(Suffix(c)) THEN Len(Suffix(c)) ELSE n])]

LEMMA ResentIs ==
  ASSUME log \in Seq(Events), NEW c \in Nat, NEW twice \in 0 .. (IF Suffix(c) = <<>> THEN 0 ELSE 1)
  PROVE  LET q == Resent(c, twice)
         IN /\ q \in Seq(Deliveries) /\ \A m \in 1 .. Len(q) : q[m].t = "event" /\ q[m].cur \in Range(Suffix(c))
            /\ \A k \in Range(Suffix(c)) : \E m \in 1 .. Len(q) : q[m].t = "event" /\ q[m].cur = k
<1> DEFINE r == Suffix(c)
           N == Len(r)
           q == Resent(c, twice)
<1>1. r \in Seq(1 .. Len(log))
  BY SuffixIs
<1>2. q = [n \in 1 .. (N + twice) |-> Ev(r[IF n > N THEN N ELSE n])]
  BY DEF Resent
<1>3. twice \in Nat /\ (twice = 0 \/ (twice = 1 /\ r # <<>>))
  OBVIOUS
<1> HIDE DEF r, q
<1>4. N \in Nat /\ DOMAIN r = 1 .. N /\ (r # <<>> => N # 0) /\ \A n \in 1 .. N : r[n] \in 1 .. Len(log)
  BY <1>1
<1> HIDE DEF N
<1>5. \A n \in 1 .. (N + twice) : (IF n > N THEN N ELSE n) \in 1 .. N
  BY <1>3, <1>4
<1>6. \A k \in Nat : Ev(k) \in Deliveries /\ Ev(k).t = "event" /\ Ev(k).cur = k
  BY DEF Ev, Deliveries
<1>7. \A n \in 1 .. (N + twice) : q[n] = Ev(r[IF n > N THEN N ELSE n]) /\ q[n] \in Deliveries
  <2> TAKE n \in 1 .. (N + twice)
  <2> DEFINE j == IF n > N THEN N ELSE n
  <2>1. j \in 1 .. N
    BY <1>5
  <2>2. q[n] = Ev(r[j])
    BY <1>2
  <2> HIDE DEF j
  <2>3. r[j] \in Nat
    BY <1>4, <2>1
  <2>4. QED
    BY <1>6, <2>2, <2>3 DEF j
<1>8. q \in Seq(Deliveries) /\ Len(q) = N + twice
  BY <1>2, <1>3, <1>4, <1>7
<1>9. \A m \in 1 .. Len(q) : q[m].t = "event" /\ q[m].cur \in Range(r)
  <2> TAKE m \in 1 .. Len(q)
  <2> DEFINE j == IF m > N THEN N ELSE m
  <2>1. j \in 1 .. N /\ q[m] = Ev(r[j])
    BY <1>5, <1>7, <1>8
  <2> HIDE DEF j
  <2>2. r[j] \in Nat
    BY <1>4, <2>1
  <2>3. q[m].t = "event" /\ q[m].cur = r[j]
    BY <1>6, <2>1, <2>2
  <2>4. QED
    BY <1>4, <2>1, <2>3 DEF Range
<1>10. ASSUME NEW k \in Range(r)
       PROVE  \E m \in 1 .. Len(q) : q[m].t = "event" /\ q[m].cur = k
  <2>1. PICK n \in 1 .. N : r[n] = k
    BY <1>4 DEF Range
  <2>2. n \in 1 .. Len(q) /\ ~(n > N) /\ k \in Nat
    BY <1>3, <1>4, <1>8, <2>1
  <2>3. q[n] = Ev(k)
    BY <1>7, <1>8, <2>1, <2>2
  <2>4. QED
    BY <1>6, <2>2, <2>3
<1>11. QED
  BY <1>8, <1>9, <1>10 DEF q, r

\* The turn a re-attached or loaded session takes over.
TurnNow == IF InTurn THEN Turns("turnStarted") ELSE 0

Headed(f, g) ==
  Beside(f, g) /\ g.cursor = Len(log) /\ g.seen = f.seen /\ g.twins = f.twins

LEMMA HeadedIs ==
  ASSUME NEW f, Sound(f), log \in Seq(Events)
  PROVE  Headed(f, Heads(f, TurnNow))
<1>1. TurnNow \in Nat
  BY ActiveNat DEF TurnNow
<1>2. QED
  BY <1>1, HeadsBeside DEF Headed

\* A session at the head of the log keeps the invariant, if what is on its way does.
LEMMA HeadedKeeps ==
  ASSUME IInv, NEW g, Headed(s, g), s' = g, walk = None, walk' = None, log' = log, view' = view,
         hole' = hole, LiveType', RestType', LiveGood(log, live', g, Tot)
  PROVE  IInv'
<1>1. /\ LogOK /\ BookOK /\ Sound(s) /\ log \in Seq(Events) /\ Len(log) \in Nat
  BY DEF IInv, LogOK
<1>2. Sound(g)
  BY <1>1, BesideSound DEF Headed
<1>3. g.cursor \in 0 .. Len(log) /\ g.seen \cup g.twins \subseteq 1 .. Len(log)
  BY <1>1 DEF Headed, BookOK
<1>4. BookOK'
  BY <1>1, <1>3 DEF BookOK
<1>5. QED
  BY <1>2, <1>4, LogStays

LEMMA ReattachStep ==
  ASSUME IInv, Reattach
  PROVE  IInv'
<1> DEFINE g == Heads(s, TurnNow)
<1>1. /\ LogOK /\ BookOK /\ RestType /\ Sound(s) /\ log \in Seq(Events)
      /\ s \in Sessions /\ s.cursor \in Nat
  BY SessionFields DEF IInv, LogOK, Sound, Good
<1>2. /\ walk = None /\ walk' = None /\ s' = g /\ up' = TRUE
      /\ UNCHANGED <<view, log, hole, excused, crashes, faults>>
      /\ \E twice \in 0 .. (IF Suffix(s.cursor) = <<>> THEN 0 ELSE 1) : live' = Resent(s.cursor, twice)
  BY DEF Reattach, Heads, TurnNow, Resent
<1>3. Headed(s, g)
  BY <1>1, HeadedIs
<1> HIDE DEF g
<1>4. PICK twice \in 0 .. (IF Suffix(s.cursor) = <<>> THEN 0 ELSE 1) : live' = Resent(s.cursor, twice)
  BY <1>2
<1>5. /\ live' \in Seq(Deliveries)
      /\ \A m \in 1 .. Len(live') : live'[m].t = "event" /\ live'[m].cur \in Range(Suffix(s.cursor))
  BY <1>1, <1>4, ResentIs
<1>6. \A k \in Range(Suffix(s.cursor)) : k \in 1 .. Len(log) /\ Durable(k)
  BY <1>1, SuffixIs
<1>7. \A m \in 1 .. Len(live') : live'[m].cur \in 1 .. Len(log) /\ Durable(live'[m].cur)
  BY <1>5, <1>6
<1>8. LiveGood(log, live', g, Tot)
  BY <1>1, <1>7, LiveGoodDurable
<1>9. LiveType' /\ RestType'
  BY <1>1, <1>2, <1>5, <1>7 DEF LiveType, RestType
<1>10. QED
  BY <1>2, <1>3, <1>8, <1>9, HeadedKeeps

LEMMA ReattachFailsStep ==
  ASSUME IInv, ReattachFails
  PROVE  IInv'
<1> DEFINE g == Heads(s, TurnNow)
<1>1. /\ LiveType /\ RestType /\ Sound(s) /\ log \in Seq(Events)
  BY DEF IInv, LogOK
<1>2. /\ walk = None /\ walk' = None /\ s' = g /\ up' = TRUE /\ live = <<>> /\ live' = live
      /\ excused' = (excused \/ Suffix(s.cursor) # <<>>)
      /\ UNCHANGED <<view, log, hole, crashes, faults>>
  BY DEF ReattachFails, Heads, TurnNow
<1>3. Headed(s, g)
  BY <1>1, HeadedIs
<1> HIDE DEF g
<1>4. \A m \in 1 .. Len(live') : live'[m].cur \in 1 .. Len(log) /\ Durable(live'[m].cur)
  BY <1>2
<1>5. LiveGood(log, live', g, Tot)
  BY <1>1, <1>4, LiveGoodDurable
<1>6. LiveType' /\ RestType'
  BY <1>1, <1>2 DEF LiveType, RestType
<1>7. QED
  BY <1>2, <1>3, <1>5, <1>6, HeadedKeeps

-----------------------------------------------------------------------------
(* A history replay.                                                        *)

\* The session a load or a fork leaves.
Loaded(f, fork, act) == [f EXCEPT !.seen = IF fork THEN Range(Suffix(0)) ELSE {}, !.active = act]

LEMMA LoadedBeside ==
  ASSUME NEW f, Sound(f), log \in Seq(Events), NEW fork \in BOOLEAN, NEW act \in Nat
  PROVE  LET g == Loaded(f, fork, act)
         IN Beside(f, g) /\ g.cursor = f.cursor /\ g.twins = f.twins /\ g.seen \subseteq 1 .. Len(log)
<1> DEFINE seen == IF fork THEN Range(Suffix(0)) ELSE {}
           g == [f EXCEPT !.seen = seen, !.active = act]
<1>1. f \in Sessions
  BY DEF Sound, Good
<1>2. Loaded(f, fork, act) = g
  BY DEF Loaded
<1>3. seen \subseteq 1 .. Len(log) /\ seen \in SUBSET Nat
  <2>1. \A k \in Range(Suffix(0)) : k \in 1 .. Len(log)
    BY SuffixIs
  <2>2. seen \subseteq 1 .. Len(log)
    BY <2>1
  <2>3. QED
    BY <2>2
<1> HIDE DEF seen
<1>4. g \in Sessions
  BY <1>1, <1>3 DEF Sessions
<1>5. SameFold(f, g) /\ g.held = f.held /\ g.seen = seen /\ g.cursor = f.cursor /\ g.twins = f.twins
  BY <1>1 DEF Sessions, SameFold
<1> HIDE DEF g
<1>6. QED
  BY <1>2, <1>3, <1>4, <1>5 DEF Beside

\* In a log that is part of a well formed view an item that completed has started.
LEMMA CompletedStarted ==
  ASSUME LogOK
  PROVE  \A i \in Items : Has("completed", i) => Has("started", i)
<1> SUFFICES ASSUME NEW i \in Items, Has("completed", i) PROVE Has("started", i)
  OBVIOUS
<1>1. /\ view \in Seq(Events) /\ WellFormed(view) /\ log \in Seq(Events) /\ Len(log) \in Nat
      /\ Len(log) <= Len(view) /\ DOMAIN log = 1 .. Len(log) /\ DOMAIN view = 1 .. Len(view)
      /\ \A k \in 1 .. Len(log) : log[k] = view[k]
  BY ViewsAssumption DEF LogOK
<1>2. PICK k \in 1 .. Len(log) : log[k].what = "completed" /\ log[k].item = i
  BY <1>1 DEF Has
<1>3. k \in 1 .. Len(view) /\ view[k].what = "completed" /\ view[k].item = i
  BY <1>1, <1>2
<1>4. {j \in 1 .. k - 1 : view[j].what = "started" /\ view[j].item = view[k].item} # {}
  BY <1>1, <1>3 DEF WellFormed, ItemEvents
<1>5. PICK j \in 1 .. k - 1 : view[j].what = "started" /\ view[j].item = i
  BY <1>3, <1>4
<1>6. j \in 1 .. Len(log)
  BY <1>1, <1>5
<1>7. QED
  BY <1>1, <1>5, <1>6 DEF Has

\* What a load leaves of the session.
LoadLeaves(g) ==
  /\ Sound(g) /\ AllSettled(g) /\ g.twins = {} /\ g.cursor = Len(log)
  /\ g.seen \subseteq 1 .. Len(log)

LEMMA LoadIs ==
  ASSUME LogOK, Sound(s), Load
  PROVE  LoadLeaves(s')
<1>1. log \in Seq(Events) /\ Len(log) \in Nat /\ s \in Sessions
  BY DEF LogOK, Sound, Good
<1>2. PICK prefix \in BOOLEAN, fork \in BOOLEAN :
        s' = Loaded(ReplayHistory(Fresh(s.ver, Len(log)), prefix), fork, TurnNow)
  BY DEF Load, Loaded, TurnNow
<1> DEFINE f == ReplayHistory(Fresh(s.ver, Len(log)), prefix)
<1>3. s.ver \in {1, 2}
  BY <1>1 DEF Sessions
<1>4. Sound(f) /\ AllSettled(f) /\ f.cursor = Len(log) /\ f.twins = {}
  BY <1>1, <1>3, CompletedStarted, ReplayHistoryGood
<1> HIDE DEF f
<1>5. TurnNow \in Nat
  BY <1>1, ActiveNat DEF TurnNow
<1>6. /\ s' = Loaded(f, fork, TurnNow)
      /\ Beside(f, s') /\ s'.cursor = f.cursor /\ s'.twins = f.twins /\ s'.seen \subseteq 1 .. Len(log)
  <2>1. s' = Loaded(f, fork, TurnNow)
    BY <1>2 DEF f
  <2>2. QED
    BY <1>1, <1>4, <1>5, <2>1, LoadedBeside
<1>7. Sound(s') /\ \A j : Settled(f, j) <=> Settled(s', j)
  BY <1>4, <1>6, BesideSound
<1>8. AllSettled(s')
  BY <1>4, <1>7 DEF AllSettled
<1>9. QED
  BY <1>4, <1>6, <1>7, <1>8 DEF LoadLeaves

LEMMA LoadStep ==
  ASSUME IInv, Load
  PROVE  IInv'
<1>1. /\ LogOK /\ BookOK /\ RestType /\ Sound(s) /\ log \in Seq(Events) /\ Len(log) \in Nat
  BY DEF IInv, LogOK
<1>2. /\ walk = None /\ walk' = None /\ live' = <<>> /\ hole' = None /\ excused' = FALSE
      /\ faults < MaxFaults /\ faults' = faults + 1
      /\ UNCHANGED <<view, log, up, crashes>>
  BY DEF Load
<1>3. LoadLeaves(s')
  BY <1>1, LoadIs
<1>4. \A m \in 1 .. Len(live') : live'[m].cur \in 1 .. Len(log) /\ Durable(live'[m].cur)
  BY <1>2
<1>5. LiveGood(log, live', s', Tot)
  BY <1>1, <1>4, LiveGoodDurable
<1>6. LiveType'
  BY <1>2 DEF LiveType
<1>7. RestType'
  <2>1. excused' \in BOOLEAN
    BY <1>2
  <2>2. faults' \in 0 .. MaxFaults
    BY <1>1, <1>2, TranscriptAssumption DEF RestType
  <2>3. QED
    BY <1>1, <1>2, <2>1, <2>2 DEF RestType
<1>8. BookOK'
  BY <1>1, <1>2, <1>3 DEF BookOK, LoadLeaves
<1>9. QED
  BY <1>2, <1>3, <1>5, <1>6, <1>7, <1>8, LogStays DEF LoadLeaves

-----------------------------------------------------------------------------
(* The invariant.                                                           *)

LEMMA IInvInit == Init => IInv
<1> SUFFICES ASSUME Init PROVE IInv
  OBVIOUS
<1>1. PICK v \in Versions : s = Fresh(v, 0)
  BY DEF Init
<1>2. v \in {1, 2} /\ Views # {} /\ MaxCrashes \in Nat /\ MaxFaults \in Nat
  BY TranscriptAssumption DEF Init
<1>3. /\ view \in Views /\ log = <<>> /\ hole = None /\ live = <<>> /\ up = TRUE /\ walk = None
      /\ excused = FALSE /\ crashes = 0 /\ faults = 0
  BY DEF Init
<1>4. s \in Sessions
  BY <1>1, <1>2, FreshIs
<1>5. Blank(s) /\ s.cursor = 0 /\ s.seen = {} /\ s.twins = {} /\ ~s.replaying
  BY <1>1, <1>4 DEF Fresh, Blank
<1>6. Sound(s)
  BY <1>5, BlankGood DEF Sound
<1>7. view \in Seq(Events)
  BY <1>3, ViewsAssumption
<1>8. LogOK
  BY <1>3, <1>7 DEF LogOK
<1>9. BookOK
  BY <1>3, <1>5 DEF BookOK
<1>10. LiveType
  BY <1>3 DEF LiveType
<1>11. RestType
  <2>1. up \in BOOLEAN /\ excused \in BOOLEAN
    BY <1>3
  <2>2. crashes \in 0 .. MaxCrashes /\ faults \in 0 .. MaxFaults
    BY <1>2, <1>3
  <2>3. QED
    BY <2>1, <2>2 DEF RestType
<1>12. LiveGood(log, live, s, Tot)
  BY <1>3 DEF LiveGood
<1>13. QED
  BY <1>6, <1>8, <1>9, <1>10, <1>11, <1>12 DEF IInv

LEMMA IInvStep == IInv /\ [Next]_vars => IInv'
<1> SUFFICES ASSUME IInv, [Next]_vars PROVE IInv'
  OBVIOUS
<1>1. CASE HostEmit
  BY <1>1, HostEmitStep
<1>2. CASE HostDrop
  BY <1>2, HostDropStep
<1>3. CASE HostCrash
  BY <1>3, HostCrashStep
<1>4. CASE ReadEvent
  BY <1>4, ReadEventStep
<1>5. CASE ReadGap
  BY <1>5, ReadGapStep
<1>6. CASE WalkPage
  BY <1>6, WalkPageStep
<1>7. CASE WalkFails
  BY <1>7, WalkFailsStep
<1>8. CASE Reattach
  BY <1>8, ReattachStep
<1>9. CASE ReattachFails
  BY <1>9, ReattachFailsStep
<1>10. CASE Load
  BY <1>10, LoadStep
<1>11. CASE UNCHANGED vars
  <2>1. LogOK' /\ BookOK' /\ LiveType' /\ RestType'
    BY <1>11 DEF vars, IInv, LogOK, BookOK, LiveType, RestType
  <2>2. log' = log /\ view' = view /\ s' = s /\ live' = live
    BY <1>11 DEF vars
  <2>3. Sound(s') /\ LiveGood(log, live', s', Tot)
    BY <2>2 DEF IInv
  <2>4. QED
    BY <2>1, <2>2, <2>3, LogStays
<1>12. QED
  BY <1>1, <1>2, <1>3, <1>4, <1>5, <1>6, <1>7, <1>8, <1>9, <1>10, <1>11 DEF Next

LEMMA IInvHolds == Spec => []IInv
BY IInvInit, IInvStep, PTL DEF Spec

LEMMA OneAtMost ==
  ASSUME NEW S, \A a \in S, b \in S : a = b
  PROVE  Cardinality(S) <= 1
<1>1. CASE S = {}
  BY <1>1, FS_EmptySet
<1>2. CASE S # {}
  <2>1. PICK a \in S : TRUE
    BY <1>2
  <2>2. S = {a}
    BY <2>1
  <2>3. QED
    BY <2>2, FS_Singleton
<1>3. QED
  BY <1>1, <1>2

\* The rows of the session, by position.
LEMMA RowsAt ==
  ASSUME s \in Sessions, NEW i, NEW w
  PROVE  /\ Len(s.rows) \in Nat
         /\ \A p : p \in At(i, w) <=> p \in 1 .. Len(s.rows) /\ s.rows[p] = <<i, w>>
         /\ \A p : p \in RowsOf(i) <=> p \in 1 .. Len(s.rows) /\ s.rows[p][1] = i
<1>1. s.rows \in Seq(Lines)
  BY SessionFields
<1>2. DOMAIN s.rows = 1 .. Len(s.rows) /\ Len(s.rows) \in Nat
  BY <1>1
<1>3. QED
  BY <1>2 DEF At, RowsOf

LEMMA SettlesOnceIs == IInv => SettlesOnce
<1> SUFFICES ASSUME IInv, NEW i \in Items
             PROVE  /\ \A w \in {"final", "open", "exit", "mark"} : Cardinality(At(i, w)) <= 1
                    /\ \A p \in At(i, "final"), q \in RowsOf(i) : q > p => s.rows[q][2] = "mark"
                    /\ \A p \in At(i, "exit") : (\E q \in At(i, "open") : q < p) /\ i \notin s.terminals
                    /\ i \in s.done => i \notin s.terminals
  BY DEF SettlesOnce
<1>1. s \in Sessions /\ Shape(s.rows) /\ ItemOK(s, i, {})
  BY DEF IInv, Sound, Good
<1>2. Len(s.rows) \in Nat
  BY <1>1, RowsAt
<1>3. \A p, r \in 1 .. Len(s.rows) : p < r /\ s.rows[p][1] = s.rows[r][1] =>
        (s.rows[p][2] = "final" => s.rows[r][2] = "mark")
        /\ (s.rows[p][2] = s.rows[r][2] => s.rows[p][2] \notin Single)
  BY <1>1 DEF Shape
<1>4. ASSUME NEW w \in Single PROVE Cardinality(At(i, w)) <= 1
  <2>1. ASSUME NEW a \in At(i, w), NEW b \in At(i, w) PROVE a = b
    <3>1. /\ a \in 1 .. Len(s.rows) /\ b \in 1 .. Len(s.rows)
          /\ s.rows[a] = <<i, w>> /\ s.rows[b] = <<i, w>>
      BY <1>1, <2>1, RowsAt
    <3>2. ~(a < b) /\ ~(b < a)
      BY <1>3, <1>4, <3>1
    <3>3. QED
      BY <1>2, <3>1, <3>2
  <2>2. QED
    BY <2>1, OneAtMost
<1>5. ASSUME NEW p \in At(i, "final"), NEW q \in RowsOf(i), q > p
      PROVE  s.rows[q][2] = "mark"
  <2> DEFINE w == "final"
  <2>1. p \in At(i, w) /\ w = "final"
    OBVIOUS
  <2> HIDE DEF w
  <2>2. /\ p \in 1 .. Len(s.rows) /\ q \in 1 .. Len(s.rows) /\ s.rows[p] = <<i, w>>
        /\ s.rows[q][1] = i
    BY <1>1, <2>1, RowsAt
  <2>3. p < q
    BY <1>2, <1>5, <2>2
  <2>4. QED
    BY <1>3, <2>1, <2>2, <2>3
<1>6. ASSUME NEW p \in At(i, "exit")
      PROVE  (\E q \in At(i, "open") : q < p) /\ i \notin s.terminals
  <2> DEFINE w == "exit"
             v == "open"
  <2>1. p \in At(i, w) /\ w = "exit" /\ v = "open"
    OBVIOUS
  <2> HIDE DEF w, v
  <2>2. p \in 1 .. Len(s.rows) /\ s.rows[p] = <<i, w>>
    BY <1>1, <2>1, RowsAt
  <2>3. PICK q \in 1 .. Len(s.rows) : q < p /\ s.rows[q] = <<i, v>>
    <3>1. s.rows[p][2] = "exit" /\ s.rows[p][1] = i
      BY <2>1, <2>2
    <3>2. \A r \in 1 .. Len(s.rows) : s.rows[r][2] = "exit" =>
            \E q \in 1 .. Len(s.rows) : q < r /\ s.rows[q] = <<s.rows[r][1], "open">>
      BY <1>1 DEF Shape
    <3>3. \E q \in 1 .. Len(s.rows) : q < p /\ s.rows[q] = <<s.rows[p][1], "open">>
      BY <2>2, <3>1, <3>2
    <3>4. QED
      BY <2>1, <3>1, <3>3
  <2>4. q \in At(i, v)
    BY <1>1, <2>3, RowsAt
  <2>5. i \notin s.terminals
    BY <1>1, <2>1, <2>2 DEF ItemOK, HasRow
  <2>6. QED
    BY <2>1, <2>3, <2>4, <2>5
<1>7. i \in s.done => i \notin s.terminals
  BY <1>1 DEF ItemOK
<1>8. QED
  BY <1>4, <1>5, <1>6, <1>7 DEF Single

LEMMA AnchorOrderIs == IInv => AnchorOrder
<1> SUFFICES ASSUME IInv, NEW i \in Items, Anchored(i)
             PROVE  AfterAnchor(i)
  BY DEF AnchorOrder, Anchored
<1>1. s \in Sessions /\ RowsOK(s.rows, {})
  BY DEF IInv, Sound, Good
<1>2. Ordered(s.rows, i)
  BY <1>1 DEF RowsOK
<1> DEFINE w == "final"
           v == "turn"
           a == Anchor[i]
<1> SUFFICES ASSUME NEW p \in At(i, w), NEW q \in RowsOf(a), q > p,
                    \A r \in RowsOf(a) : q <= r
             PROVE  \E e \in At(None, v) : e \in p .. q
  BY DEF AfterAnchor
<1>3. w = "final" /\ v = "turn"
  OBVIOUS
<1> HIDE DEF w, v, a
<1>4. /\ p \in 1 .. Len(s.rows) /\ q \in 1 .. Len(s.rows) /\ s.rows[p] = <<i, w>>
      /\ s.rows[q][1] = a /\ Len(s.rows) \in Nat
  BY <1>1, RowsAt
<1>5. \/ \E r \in 1 .. p - 1 : s.rows[r][1] = a
      \/ \E e \in p .. Len(s.rows) : s.rows[e] = <<None, v>> /\ \A r \in 1 .. e : s.rows[r][1] # a
  BY <1>2, <1>3, <1>4 DEF Ordered, a
<1>6. ASSUME NEW r \in 1 .. p - 1, s.rows[r][1] = a PROVE FALSE
  <2>1. r \in 1 .. Len(s.rows) /\ r < p
    BY <1>4, <1>6
  <2>2. r \in RowsOf(a)
    BY <1>1, <1>6, <2>1, RowsAt
  <2>3. q <= r
    BY <2>2
  <2>4. QED
    BY <1>4, <2>1, <2>3
<1>7. ASSUME NEW e \in p .. Len(s.rows), s.rows[e] = <<None, v>>,
             \A r \in 1 .. e : s.rows[r][1] # a
      PROVE  e \in At(None, v) /\ e \in p .. q
  <2>1. e \in 1 .. Len(s.rows)
    BY <1>4, <1>7
  <2>2. e \in At(None, v)
    BY <1>1, <1>7, <2>1, RowsAt
  <2>3. ~(q <= e)
    BY <1>4, <1>7
  <2>4. QED
    BY <1>4, <1>7, <2>2, <2>3
<1>8. QED
  BY <1>5, <1>6, <1>7

LEMMA NoRepeatIs == IInv => NoRepeat
<1> SUFFICES ASSUME IInv, NEW i \in Items
             PROVE  \A p, q \in DOMAIN s.text[i] : p < q => s.text[i][p] < s.text[i][q]
  BY DEF NoRepeat
<1>1. s \in Sessions /\ ItemOK(s, i, {})
  BY DEF IInv, Sound, Good
<1>2. s.text[i] \in Seq(Nat)
  BY <1>1, SessionFields
<1>3. DOMAIN s.text[i] = 1 .. Len(s.text[i])
  BY <1>2
<1>4. QED
  BY <1>1, <1>3 DEF ItemOK, TextOK

-----------------------------------------------------------------------------
\* Every variable of the transcript stays in its type: what is on its way names cursors
\* of the log, and the session's cursor, seen and twin sets stay inside it (handle_msp
\* with its view/gap arm, reattach_view, replay_history).
THEOREM TypeCorrect == Spec => []TypeOK
BY IInvHolds, IInvType, PTL

\* An item settles once: one final row, nothing after it but the cut-off mark, and one
\* terminal opened before its single exit, whatever is delivered again by a refill, a
\* re-attach or a replay (complete_item, finish_terminal).
THEOREM SettlesOnceHolds == Spec => []SettlesOnce
BY IInvHolds, SettlesOnceIs, PTL

\* No piece of a reply or a thought is shown twice or out of order (handle_msp's cursor
\* bookkeeping, complete_item's resend).
THEOREM NoRepeatHolds == Spec => []NoRepeat
BY IInvHolds, NoRepeatIs, PTL

\* A row the host anchored comes after its anchor's first row, or after the end of a turn in
\* which the anchor did not appear (deferring_for_anchor, flush_awaiting_anchor).  This is
\* about rows other than messages, anchored to a tool, shell, card, monitor or compaction
\* that has no anchor of its own: of a row anchored to a message or a thought it is false
\* (RowAfterItsAnchor), and so it is of the inner row of a chain of anchors.
THEOREM AnchorOrderHolds == Spec => []AnchorOrder
BY IInvHolds, AnchorOrderIs, PTL

-----------------------------------------------------------------------------
(* Nothing is lost: every completion that is not settled is still on its way. *)

Queued(q, k) == \E m \in 1 .. Len(q) : q[m].t = "event" /\ q[m].cur = k
HasGap(q) == \E m \in 1 .. Len(q) : q[m].t = "gap"
InGap(q, k) == \E m \in 1 .. Len(q) : q[m].t = "gap" /\ q[m].after < k /\ k < q[m].next

\* A completion whose item is not settled.
Open(k) == k \in 1 .. Len(log) /\ log[k].what = "completed" /\ ~Settled(s, log[k].item)

\* The process is gone and a hole is still to be refilled: the refill will fail.
Doomed == ~up /\ (walk # None \/ HasGap(live))

\* The cursor the adapter will have read to when the pipe is empty.
ReadTo == IF live = <<>> THEN s.cursor ELSE live[Len(live)].cur

\* What brings the event at k: the pipe, the bracket of a hole, a refill, or the suffix
\* a re-attach asks for.
Coming(k) ==
  \/ Queued(live, k) \/ InGap(live, k)
  \/ hole # None /\ k > hole
  \/ walk # None /\ walk.cursor < k /\ k < walk.next
  \/ Doomed
  \/ ~up /\ k > ReadTo

OpenComing == ~excused => \A k \in 1 .. Len(log) : Open(k) => Coming(k)

\* The cursors a refill delivered, and those it passed, are settled.
WalkDone ==
  walk # None =>
    /\ walk.after <= walk.cursor /\ walk.cursor <= Len(log)
    /\ \A k \in 1 .. Len(log) :
         log[k].what = "completed" /\ (k \in walk.delivered \/ (walk.after < k /\ k <= walk.cursor)) =>
           Settled(s, log[k].item)

GapsInside == \A m \in 1 .. Len(live) : live[m].t = "gap" => live[m].after <= Len(log)
Down == ~up => hole = None /\ crashes # 0

Trust == Honest(s) /\ WalkDone /\ GapsInside /\ Down

\* What is settled stays settled.
Keeps(f, g) == \A j \in Items : Settled(f, j) => Settled(g, j)

LEMMA CompletedItem ==
  ASSUME log \in Seq(Events)
  PROVE  \A k \in 1 .. Len(log) : log[k].what = "completed" => log[k].item \in Items
BY EventType DEF ItemEvents

LEMMA OpenStays ==
  ASSUME log \in Seq(Events), log' = log, Keeps(s, s')
  PROVE  \A k : Open(k)' => Open(k)
BY CompletedItem DEF Open, Keeps

\* The log stays, and the refill or its end with it.
LEMMA TrustStays ==
  ASSUME Trust, log \in Seq(Events), log' = log, Keeps(s, s'), Honest(s'),
         walk' = walk \/ walk' = None, GapsInside', Down'
  PROVE  Trust'
<1>1. Honest(s)'
  BY DEF Honest
<1>2. WalkDone'
  <2>1. CASE walk' = None
    BY <2>1 DEF WalkDone
  <2>2. CASE walk' = walk
    BY <2>2, CompletedItem DEF WalkDone, Keeps, Trust
  <2>3. QED
    BY <2>1, <2>2
<1>3. QED
  BY <1>1, <1>2 DEF Trust

LEMMA BesideKeeps ==
  ASSUME NEW f, NEW g, Sound(f), Beside(f, g)
  PROVE  Keeps(f, g) /\ \A j : Settled(f, j) <=> Settled(g, j)
BY BesideSound DEF Keeps

LEMMA ReadEventTrust ==
  ASSUME IInv, Trust, ReadEvent
  PROVE  Trust' /\ Keeps(s, s')
         /\ (log[Head(live).cur].what = "completed" => Settled(s', log[Head(live).cur].item))
<1> DEFINE k == Head(live).cur
<1>1. /\ live \in Seq(Deliveries) /\ log \in Seq(Events)
  BY DEF IInv, LogOK, LiveType
<1>2. /\ walk = None /\ walk' = None /\ live # <<>> /\ live' = Tail(live)
      /\ UNCHANGED <<view, log, hole, up, walk, excused, crashes, faults>>
  BY DEF ReadEvent
<1>3. Handles(s, s', k) /\ k \in 1 .. Len(log)
  BY ReadEventStep
<1> HIDE DEF k
<1>4. Keeps(s, s')
  BY <1>3 DEF Handles, Keeps
<1>5. log[k].what = "completed" => Settled(s', log[k].item)
  <2>1. log[k].what = "completed" /\ k \in s.twins \cup s.seen => Settled(s, log[k].item)
    BY <1>3 DEF Trust, Honest
  <2>2. QED
    BY <1>1, <1>3, <1>4, <2>1, CompletedItem DEF Handles, Keeps
<1>6. Honest(s')
  <2>1. \A n \in 1 .. Len(log) : log[n].what = "completed" /\ n \in s'.twins \cup s'.seen =>
          n = k \/ n \in s.twins \cup s.seen
    BY <1>3 DEF Handles
  <2>2. QED
    BY <1>1, <1>4, <1>5, <2>1, CompletedItem DEF Honest, Trust, Keeps
<1>7. GapsInside'
  <2>1. PartOf(live', live, 1)
    BY <1>1, <1>2, TailPart
  <2>2. QED
    BY <1>2, <2>1 DEF PartOf, GapsInside, Trust
<1>8. Down'
  BY <1>2 DEF Down, Trust
<1>9. QED
  BY <1>1, <1>2, <1>4, <1>5, <1>6, <1>7, <1>8, TrustStays DEF k

LEMMA ReadGapTrust ==
  ASSUME IInv, Trust, ReadGap
  PROVE  Trust'
<1>1. /\ live \in Seq(Deliveries) /\ log \in Seq(Events) /\ LiveType
  BY DEF IInv, LogOK, LiveType
<1>2. /\ live # <<>> /\ Head(live).t = "gap" /\ live' = Tail(live)
      /\ walk' = [cursor |-> WalkFrom(Head(live)), after |-> Head(live).after,
                  next |-> Head(live).next, live |-> s.cursor, delivered |-> {}]
      /\ UNCHANGED <<view, log, hole, up, s, excused, crashes, faults>>
  BY DEF ReadGap
<1>3. Head(live) = live[1] /\ 1 \in 1 .. Len(live) /\ Head(live).after \in Nat
  BY <1>1, <1>2, HeadIs
<1>4. Head(live).after <= Len(log)
  BY <1>2, <1>3 DEF Trust, GapsInside
<1>5. /\ walk'.cursor = Head(live).after /\ walk'.after = Head(live).after /\ walk'.delivered = {}
  BY <1>2 DEF WalkFrom
<1>6. WalkDone'
  <2>1. walk'.after <= walk'.cursor /\ walk'.cursor <= Len(log')
    BY <1>2, <1>3, <1>4, <1>5
  <2>2. ASSUME NEW k \in 1 .. Len(log') PROVE ~(k \in walk'.delivered \/ (walk'.after < k /\ k <= walk'.cursor))
    BY <1>1, <1>2, <1>3, <1>5, <2>2
  <2>3. QED
    BY <2>1, <2>2 DEF WalkDone
<1>7. GapsInside'
  <2>1. PartOf(live', live, 1)
    BY <1>1, <1>2, TailPart
  <2>2. QED
    BY <1>2, <2>1 DEF PartOf, GapsInside, Trust
<1>8. Down' /\ Honest(s)'
  BY <1>2 DEF Down, Trust, Honest
<1>9. QED
  BY <1>6, <1>7, <1>8 DEF Trust

LEMMA HostCrashTrust ==
  ASSUME IInv, Trust, HostCrash
  PROVE  Trust' /\ s' = s /\ log' = log
<1>1. /\ live \in Seq(Deliveries) /\ log \in Seq(Events) /\ crashes \in Nat
  BY TranscriptAssumption DEF IInv, LogOK, LiveType, RestType
<1>2. /\ up' = FALSE /\ hole' = None /\ crashes' = crashes + 1 /\ UNCHANGED <<view, log, s, walk>>
  BY DEF HostCrash
<1>3. PICK n \in 0 .. Len(live) : live' = SubSeq(live, 1, n)
  BY DEF HostCrash
<1>4. PartOf(live', live, 0)
  BY <1>1, <1>3 DEF PartOf
<1>5. GapsInside'
  BY <1>1, <1>2, <1>3, <1>4 DEF PartOf, GapsInside, Trust
<1>6. Down'
  BY <1>1, <1>2 DEF Down
<1>7. Honest(s') /\ Keeps(s, s')
  BY <1>2 DEF Trust, Honest, Keeps
<1>8. QED
  BY <1>1, <1>2, <1>5, <1>6, <1>7, TrustStays

\* The completions between two cursors are settled in f.
SettledIn(f, from, to) ==
  \A k \in 1 .. Len(log) : log[k].what = "completed" /\ from < k /\ k < to => Settled(f, log[k].item)

\* What one page of a refill does.
RefillEnds ==
  /\ walk' = None /\ SettledIn(s', walk.cursor, walk.next)
  /\ \/ SettledIn(s', walk.cursor, Len(log) + 1)
     \/ s'.cursor = walk.live \/ s'.cursor = s.cursor \/ s'.cursor < walk.next

RefillGoesOn ==
  /\ walk' # None /\ walk'.after = walk.after /\ walk'.next = walk.next /\ walk'.live = walk.live
  /\ walk'.cursor \in 1 .. Len(log) /\ walk'.cursor > walk.cursor
  /\ SettledIn(s', walk.cursor, walk'.cursor + 1)
  /\ \A k \in walk'.delivered : k \in walk.delivered \/
       (log[k].what = "completed" => Settled(s', log[k].item))
  /\ s'.cursor = s.cursor \/ s'.cursor <= walk'.cursor

\* The completions a page takes, or has none of.
LEMMA PageSettles ==
  ASSUME log \in Seq(Events), NEW c \in Nat, NEW page, PageOK(page, c), NEW next \in Nat,
         NEW S, \A k : k \in S <=> k \in Range(page) /\ (next \in Range(page) => k < next),
         NEW f, \A k \in S : log[k].what = "completed" => Settled(f, log[k].item)
  PROVE  /\ next \in Range(page) => SettledIn(f, c, next)
         /\ next \notin Range(page) /\ page # <<>> => SettledIn(f, c, Last(page) + 1)
         /\ next \notin Range(page) /\ page = <<>> => SettledIn(f, c, Len(log) + 1)
<1>1. \A k \in 1 .. Len(log) : log[k].what = "completed" => Durable(k)
  BY DEF Durable
<1>2. /\ \A k \in 1 .. Len(log) : k > c /\ Durable(k) /\ k \notin Range(page) =>
           page # <<>> /\ k > Last(page)
      /\ page # <<>> => Last(page) \in Range(page) /\ \A k \in Range(page) : k <= Last(page)
      /\ \A k \in Range(page) : k \in 1 .. Len(log)
  BY DEF PageOK
<1>3. ASSUME next \in Range(page) PROVE SettledIn(f, c, next)
  <2> SUFFICES ASSUME NEW k \in 1 .. Len(log), log[k].what = "completed", c < k, k < next
               PROVE  k \in S
    BY DEF SettledIn
  <2>1. k \in Range(page)
    <3>1. page # <<>>
      BY <1>3 DEF Range
    <3>2. next <= Last(page) /\ Last(page) \in Nat
      <4>1. Last(page) \in Range(page)
        BY <1>2, <3>1
      <4>2. Last(page) \in Nat
        BY <1>2, <4>1
      <4>3. next <= Last(page)
        BY <1>2, <1>3, <3>1
      <4>4. QED
        BY <4>2, <4>3
    <3>3. ~(k > Last(page))
      BY <3>2
    <3>4. QED
      BY <1>1, <1>2, <3>3
  <2>2. QED
    BY <2>1
<1>4. ASSUME next \notin Range(page), page # <<>> PROVE SettledIn(f, c, Last(page) + 1)
  <2>1. Last(page) \in Nat
    BY <1>2, <1>4
  <2> SUFFICES ASSUME NEW k \in 1 .. Len(log), log[k].what = "completed", c < k, k < Last(page) + 1
               PROVE  k \in S
    BY DEF SettledIn
  <2>2. k \in Range(page)
    BY <1>1, <1>2, <2>1
  <2>3. QED
    BY <1>4, <2>2
<1>5. ASSUME next \notin Range(page), page = <<>> PROVE SettledIn(f, c, Len(log) + 1)
  <2> SUFFICES ASSUME NEW k \in 1 .. Len(log), log[k].what = "completed", c < k PROVE k \in S
    BY DEF SettledIn
  <2>1. QED
    BY <1>1, <1>2, <1>5
<1>6. QED
  BY <1>3, <1>4, <1>5

LEMMA WalkPageRefills ==
  ASSUME IInv, Trust, WalkPage
  PROVE  Keeps(s, s') /\ Honest(s') /\ (RefillEnds \/ RefillGoesOn)
<1> DEFINE page == Page(walk.cursor)
           take == Taken(page, walk.next)
           reached == walk.next \in Range(page)
           f == HandleAll(s, take)
           delivered == walk.delivered \cup Range(take)
           end == IF page = <<>> THEN TRUE ELSE Page(Last(page)) = <<>>
           g == EndWalk(f, delivered, reached)
<1>1. /\ LogOK /\ BookOK /\ Sound(s) /\ log \in Seq(Events) /\ Len(log) \in Nat
  BY DEF IInv, LogOK
<1>2. /\ walk # None
      /\ \/ (reached \/ end) /\ s' = g /\ walk' = None
         \/ /\ ~reached /\ ~end /\ s' = f
            /\ walk' = [walk EXCEPT !.cursor = Last(page), !.delivered = delivered]
  BY DEF WalkPage, Taken
<1>3. reached \in BOOLEAN /\ (~end => page # <<>>)
      /\ (page = <<>> => end) /\ (end => page = <<>> \/ Page(Last(page)) = <<>>)
      /\ (reached <=> walk.next \in Range(page))
  OBVIOUS
<1>4. WalkHandles(f, page, take)
  BY <1>1, <1>2, WalkPageHandles
<1>5. delivered = walk.delivered \cup Range(take)
  OBVIOUS
<1>a. walk.live \in Nat /\ delivered \in SUBSET Nat /\ Sound(f) => Ended(f, g, delivered, reached)
  BY <1>3, EndWalkBeside
<1> HIDE DEF take, f, end, page, reached, delivered, g
<1>6. /\ PageOK(page, walk.cursor) /\ HandlesAll(s, f, Range(take))
      /\ \A k : k \in Range(take) <=> k \in Range(page) /\ (walk.next \in Range(page) => k < walk.next)
  BY <1>4 DEF WalkHandles
<1>7. /\ walk \in Walks /\ walk.live \in Nat /\ walk.cursor \in Nat /\ walk.next \in Nat
      /\ walk.delivered \subseteq 1 .. Len(log)
  BY <1>1, <1>2 DEF BookOK, Walks
<1>8. /\ \A k \in Range(page) : k \in 1 .. Len(log) /\ k > walk.cursor
      /\ page # <<>> => Last(page) \in Range(page) /\ \A k \in Range(page) : k <= Last(page)
  BY <1>6 DEF PageOK
<1>9. /\ Sound(f) /\ Keeps(s, f) /\ Honest(f)
      /\ \A k \in Range(take) : log[k].what = "completed" => Settled(f, log[k].item)
      /\ IF Range(take) = {} THEN f.cursor = s.cursor ELSE f.cursor \in Range(take)
  BY <1>6 DEF HandlesAll, Keeps, Trust
<1>10. /\ reached => SettledIn(f, walk.cursor, walk.next)
       /\ ~reached /\ page # <<>> => SettledIn(f, walk.cursor, Last(page) + 1)
       /\ ~reached /\ page = <<>> => SettledIn(f, walk.cursor, Len(log) + 1)
  BY <1>1, <1>3, <1>6, <1>7, <1>9, PageSettles
<1>11. ASSUME reached \/ end, s' = g, walk' = None
       PROVE  Keeps(s, s') /\ Honest(s') /\ RefillEnds
  <2>1. delivered \in SUBSET Nat
    BY <1>5, <1>6, <1>7, <1>8
  <2>2. Ended(f, g, delivered, reached)
    BY <1>a, <1>7, <1>9, <2>1
  <2>3. Beside(f, g) /\ g.seen = f.seen /\ g.cursor \in {f.cursor, walk.live}
        /\ g.twins \subseteq f.twins \cup delivered
    BY <2>2 DEF Ended
  <2>4. \A j : Settled(f, j) <=> Settled(g, j)
    BY <1>9, <2>3, BesideKeeps
  <2>5. \A k \in delivered : log[k].what = "completed" => Settled(f, log[k].item)
    <3>1. \A k \in walk.delivered : k \in 1 .. Len(log) /\
            (log[k].what = "completed" => Settled(s, log[k].item) /\ log[k].item \in Items)
      BY <1>1, <1>2, <1>7, CompletedItem DEF Trust, WalkDone
    <3>2. QED
      BY <1>5, <1>9, <3>1 DEF Keeps
  <2>6. Keeps(s, g)
    BY <1>9, <2>4 DEF Keeps
  <2>7. Honest(g)
    BY <1>9, <2>3, <2>4, <2>5 DEF Honest
  <2>8. CASE reached
    <3>1. SettledIn(g, walk.cursor, walk.next)
      BY <1>10, <2>4, <2>8 DEF SettledIn
    <3>2. \A k \in Range(take) : k < walk.next
      BY <1>3, <1>6, <2>8
    <3>3. g.cursor = walk.live \/ g.cursor = s.cursor \/ g.cursor < walk.next
      BY <1>9, <2>3, <3>2
    <3>4. QED
      BY <1>11, <2>6, <2>7, <3>1, <3>3 DEF RefillEnds
  <2>9. CASE ~reached
    <3>1. SettledIn(f, walk.cursor, Len(log) + 1)
      <4>1. CASE page = <<>>
        BY <1>10, <2>9, <4>1
      <4>2. CASE page # <<>>
        <5>1. Page(Last(page)) = <<>> /\ Last(page) \in Nat
          BY <1>3, <1>8, <1>11, <2>9, <4>2
        <5>2. PageOK(<<>>, Last(page))
          BY <1>1, <5>1, PageIs
        <5>3. \A k \in 1 .. Len(log) : k > Last(page) => ~Durable(k)
          <6>1. Range(<<>>) = {}
            BY DEF Range
          <6>2. QED
            BY <5>2, <6>1 DEF PageOK
        <5>4. SettledIn(f, walk.cursor, Last(page) + 1)
          BY <1>10, <2>9, <4>2
        <5>5. QED
          BY <5>1, <5>3, <5>4 DEF SettledIn, Durable
      <4>3. QED
        BY <4>1, <4>2
    <3>2. SettledIn(g, walk.cursor, Len(log) + 1)
      BY <2>4, <3>1 DEF SettledIn
    <3>3. SettledIn(g, walk.cursor, walk.next)
      BY <1>1, <3>2 DEF SettledIn
    <3>4. QED
      BY <1>11, <2>6, <2>7, <3>2, <3>3 DEF RefillEnds
  <2>10. QED
    BY <2>8, <2>9
<1>12. ASSUME ~reached, ~end, s' = f,
              walk' = [walk EXCEPT !.cursor = Last(page), !.delivered = delivered]
       PROVE  RefillGoesOn
  <2>1. page # <<>> /\ Last(page) \in Range(page)
    BY <1>3, <1>8, <1>12
  <2>2. Last(page) \in 1 .. Len(log) /\ Last(page) > walk.cursor
    BY <1>8, <2>1
  <2>3. /\ walk'.after = walk.after /\ walk'.next = walk.next /\ walk'.live = walk.live
        /\ walk'.cursor = Last(page) /\ walk'.delivered = delivered /\ walk' \in Walks
    <3>1. delivered \in SUBSET Nat
      BY <1>5, <1>6, <1>7, <1>8
    <3> DEFINE last == Last(page)
    <3>2. last \in Nat /\ walk' = [walk EXCEPT !.cursor = last, !.delivered = delivered]
      BY <1>12, <2>2
    <3> HIDE DEF last
    <3>3. /\ walk'.after = walk.after /\ walk'.next = walk.next /\ walk'.live = walk.live
          /\ walk'.cursor = last /\ walk'.delivered = delivered
      BY <1>7, <3>2 DEF Walks
    <3>4. walk' \in Walks
      BY <1>7, <3>1, <3>2 DEF Walks
    <3>5. QED
      BY <3>3, <3>4 DEF last
  <2>4. SettledIn(f, walk.cursor, Last(page) + 1)
    BY <1>10, <1>12, <2>1
  <2>5. s'.cursor = s.cursor \/ s'.cursor <= Last(page)
    BY <1>6, <1>8, <1>9, <1>12, <2>1
  <2>6. walk' # None
    BY <2>3, TranscriptAssumption
  <2>7. \A k \in delivered : k \in walk.delivered \/
          (log[k].what = "completed" => Settled(f, log[k].item))
    BY <1>5, <1>9
  <2>8. QED
    BY <1>12, <2>2, <2>3, <2>4, <2>5, <2>6, <2>7 DEF RefillGoesOn
<1>13. QED
  BY <1>2, <1>9, <1>11, <1>12

LEMMA DeliveryFields ==
  ASSUME NEW q \in Seq(Deliveries), NEW m \in 1 .. Len(q)
  PROVE  /\ q[m].t \in {"event", "gap"} /\ q[m].cur \in Nat
         /\ q[m].after \in Nat /\ q[m].next \in Nat
<1>1. q[m] \in Deliveries
  OBVIOUS
<1>2. QED
  BY <1>1 DEF Deliveries

\* The log is one event longer.
Longer ==
  /\ Len(log') = Len(log) + 1 /\ Len(log) \in Nat
  /\ \A j \in 1 .. Len(log) : log'[j] = log[j]

LEMMA LongerIs ==
  ASSUME LogOK, log' = Append(log, view[Len(log) + 1])
  PROVE  Longer
BY DEF LogOK, Longer

LEMMA LongerTrust ==
  ASSUME IInv, Trust, Longer, s' = s, walk' = walk, GapsInside', Down'
  PROVE  Trust'
<1>1. /\ BookOK /\ \A j \in 1 .. Len(log') : j \in 1 .. Len(log) \/ j = Len(log) + 1
      /\ Len(log) + 1 \notin 1 .. Len(log) /\ Len(log) \in Nat /\ Len(log') = Len(log) + 1
      /\ \A j \in 1 .. Len(log) : log'[j] = log[j]
  BY DEF IInv, Longer
<1>2. Honest(s)'
  BY <1>1 DEF Honest, Trust, BookOK
<1>3. WalkDone'
  <2> SUFFICES ASSUME walk # None PROVE WalkDone'
    BY DEF WalkDone
  <2>1. walk.after <= walk.cursor /\ walk.cursor <= Len(log') /\ ~(Len(log) + 1 <= walk.cursor) /\ Len(log) + 1 \notin walk.delivered
    BY <1>1 DEF Trust, WalkDone, BookOK, Walks
  <2>2. QED
    BY <1>1, <2>1 DEF WalkDone, Trust
<1>4. QED
  BY <1>2, <1>3 DEF Trust

LEMMA HostEmitTrust ==
  ASSUME IInv, Trust, HostEmit
  PROVE  Trust' /\ Longer
<1> DEFINE k == Len(log) + 1
<1>1. /\ LogOK /\ BookOK /\ live \in Seq(Deliveries) /\ Len(log) \in Nat /\ k \in Nat
  BY DEF IInv, LiveType, LogOK
<1>2. /\ up /\ log' = Append(log, view[k]) /\ view' = view /\ s' = s /\ hole' = None
      /\ UNCHANGED <<up, walk, excused, crashes, faults>>
  BY DEF HostEmit
<1>3. \/ live' = Append(live, Ev(k))
      \/ hole # None /\ live' = live \o <<Ev(k), Gap(hole, k)>>
      \/ hole # None /\ live' = live \o <<Gap(hole, k), Ev(k)>>
  BY DEF HostEmit
<1>4. hole \in Nat \cup {None} /\ (hole # None => hole <= Len(log))
  BY <1>1 DEF BookOK
<1>5. Longer
  BY <1>1, <1>2, LongerIs
<1> HIDE DEF k
<1>6. \A m \in 1 .. Len(live') :
        live'[m] \in Range(live) \/ live'[m] = Ev(k) \/ (hole # None /\ live'[m] = Gap(hole, k))
  BY <1>1, <1>3, <1>4, EmitSends, ZenonT(30)
<1>7. GapsInside'
  <2> SUFFICES ASSUME NEW m \in 1 .. Len(live'), live'[m].t = "gap"
               PROVE  live'[m].after <= Len(log')
    BY DEF GapsInside
  <2>1. CASE live'[m] \in Range(live)
    <3>1. PICK n \in 1 .. Len(live) : live'[m] = live[n]
      BY <1>1, <2>1 DEF Range
    <3>2. live[n].after <= Len(log) /\ live[n].after \in Nat
      BY <1>1, <3>1, DeliveryFields DEF Trust, GapsInside
    <3>3. QED
      BY <1>5, <3>1, <3>2 DEF Longer
  <2>2. CASE live'[m] = Ev(k)
    BY <2>2 DEF Ev
  <2>3. CASE hole # None /\ live'[m] = Gap(hole, k)
    BY <1>4, <1>5, <2>3 DEF Gap, Longer
  <2>4. QED
    BY <1>6, <2>1, <2>2, <2>3
<1>8. Down'
  BY <1>2 DEF Down
<1>9. QED
  BY <1>2, <1>5, <1>7, <1>8, LongerTrust

LEMMA HostDropTrust ==
  ASSUME IInv, Trust, HostDrop
  PROVE  Trust' /\ Longer
<1>1. /\ LogOK /\ BookOK /\ live \in Seq(Deliveries) /\ Len(log) \in Nat
  BY DEF IInv, LiveType, LogOK
<1>2. /\ up /\ log' = Append(log, view[Len(log) + 1]) /\ view' = view /\ s' = s /\ live' = live
      /\ UNCHANGED <<up, walk, excused, crashes>>
  BY DEF HostDrop
<1>3. Longer
  BY <1>1, <1>2, LongerIs
<1>4. GapsInside'
  <2> SUFFICES ASSUME NEW m \in 1 .. Len(live), live[m].t = "gap" PROVE live[m].after <= Len(log')
    BY <1>2 DEF GapsInside
  <2>1. live[m].after <= Len(log) /\ live[m].after \in Nat
    BY <1>1, DeliveryFields DEF Trust, GapsInside
  <2>2. QED
    BY <1>3, <2>1 DEF Longer
<1>5. Down'
  BY <1>2 DEF Down
<1>6. QED
  BY <1>2, <1>3, <1>4, <1>5, LongerTrust

LEMMA WalkPageTrust ==
  ASSUME IInv, Trust, WalkPage
  PROVE  Trust'
<1>1. log \in Seq(Events) /\ walk # None /\ live' = live /\ log' = log
      /\ UNCHANGED <<hole, up, crashes>>
  BY DEF IInv, LogOK, WalkPage
<1>2. Keeps(s, s') /\ Honest(s') /\ (RefillEnds \/ RefillGoesOn)
  BY WalkPageRefills
<1>3. GapsInside' /\ Down'
  BY <1>1 DEF Trust, GapsInside, Down
<1>4. CASE RefillEnds
  <2>1. walk' = None
    BY <1>4 DEF RefillEnds
  <2>2. QED
    BY <1>1, <1>2, <1>3, <2>1, TrustStays
<1>5. CASE RefillGoesOn
  <2>1. /\ walk'.after = walk.after /\ walk'.cursor \in 1 .. Len(log) /\ walk'.cursor > walk.cursor
        /\ SettledIn(s', walk.cursor, walk'.cursor + 1)
        /\ \A k \in walk'.delivered : k \in walk.delivered \/
             (log[k].what = "completed" => Settled(s', log[k].item))
    BY <1>5 DEF RefillGoesOn
  <2>2. walk.cursor \in Nat /\ Len(log) \in Nat
    BY <1>1 DEF IInv, BookOK, Walks
  <2>3. ASSUME NEW k \in 1 .. Len(log), log[k].what = "completed",
               k \in walk'.delivered \/ (walk'.after < k /\ k <= walk'.cursor)
        PROVE  Settled(s', log[k].item)
    <3>1. CASE k \in walk.delivered \/ (walk.after < k /\ k <= walk.cursor)
      BY <1>1, <1>2, <2>3, <3>1, CompletedItem DEF Trust, WalkDone, Keeps
    <3>2. CASE walk.cursor < k /\ k <= walk'.cursor
      <4>1. k < walk'.cursor + 1
        BY <2>1, <3>2
      <4>2. QED
        BY <2>1, <2>3, <3>2, <4>1 DEF SettledIn
    <3>3. CASE k \in walk'.delivered
      BY <2>1, <2>3, <3>1, <3>3
    <3>4. k <= walk.cursor \/ walk.cursor < k
      BY <2>2
    <3>5. QED
      BY <2>1, <2>3, <3>1, <3>2, <3>3, <3>4
  <2>4. WalkDone'
    <3>1. walk.after <= walk.cursor /\ walk.after \in Nat
      BY <1>1 DEF IInv, BookOK, Walks, Trust, WalkDone
    <3>2. walk'.after <= walk'.cursor
      BY <2>1, <2>2, <3>1
    <3>3. QED
      BY <1>1, <2>1, <2>3, <3>2 DEF WalkDone
  <2>5. Honest(s)'
    BY <1>1, <1>2 DEF Honest
  <2>6. QED
    BY <1>3, <2>4, <2>5 DEF Trust
<1>6. QED
  BY <1>2, <1>4, <1>5

LEMMA WalkFailsTrust ==
  ASSUME IInv, Trust, WalkFails
  PROVE  Trust' /\ Keeps(s, s')
<1> DEFINE g == EndWalk(s, walk.delivered, FALSE)
<1>1. /\ BookOK /\ Sound(s) /\ log \in Seq(Events)
  BY DEF IInv, LogOK
<1>2. /\ walk # None /\ s' = g /\ walk' = None /\ excused' = TRUE
      /\ UNCHANGED <<view, log, hole, live, up, crashes, faults>>
  BY DEF WalkFails
<1>3. /\ walk.live \in Nat /\ walk.delivered \subseteq 1 .. Len(log) /\ walk.delivered \in SUBSET Nat
  BY <1>1, <1>2 DEF BookOK
<1>4. Ended(s, g, walk.delivered, FALSE)
  <2>1. FALSE \in BOOLEAN
    OBVIOUS
  <2>2. QED
    BY <1>1, <1>3, <2>1, EndWalkBeside
<1> HIDE DEF g
<1>5. Beside(s, g) /\ g.seen = s.seen /\ g.twins = s.twins \cup walk.delivered
  BY <1>4 DEF Ended
<1>6. Keeps(s, g) /\ \A j : Settled(s, j) <=> Settled(g, j)
  BY <1>1, <1>5, BesideKeeps
<1>7. Honest(g)
  BY <1>2, <1>5, <1>6 DEF Honest, Trust, WalkDone
<1>8. GapsInside' /\ Down'
  BY <1>2 DEF Trust, GapsInside, Down
<1>9. QED
  BY <1>1, <1>2, <1>6, <1>7, <1>8, TrustStays

LEMMA HeadedTrust ==
  ASSUME IInv, Trust, Headed(s, s'), log' = log, walk' = walk, GapsInside', Down'
  PROVE  Trust' /\ Keeps(s, s')
<1>1. Sound(s) /\ log \in Seq(Events)
  BY DEF IInv, LogOK
<1>2. Beside(s, s') /\ s'.seen = s.seen /\ s'.twins = s.twins
  BY DEF Headed
<1>3. Keeps(s, s') /\ \A j : Settled(s, j) <=> Settled(s', j)
  BY <1>1, <1>2, BesideKeeps
<1>4. Honest(s')
  BY <1>2, <1>3 DEF Trust, Honest
<1>5. QED
  BY <1>1, <1>3, <1>4, TrustStays

LEMMA ReattachTrust ==
  ASSUME IInv, Trust, Reattach
  PROVE  Trust' /\ Keeps(s, s')
         /\ \A k \in Range(Suffix(s.cursor)) : Queued(live', k)
<1>1. /\ Sound(s) /\ log \in Seq(Events) /\ s.cursor \in Nat
  BY SessionFields DEF IInv, LogOK, Sound, Good
<1>2. /\ walk' = walk /\ s' = Heads(s, TurnNow) /\ up' = TRUE
      /\ UNCHANGED <<view, log, hole, excused, crashes, faults>>
      /\ \E twice \in 0 .. (IF Suffix(s.cursor) = <<>> THEN 0 ELSE 1) : live' = Resent(s.cursor, twice)
  BY DEF Reattach, Heads, TurnNow, Resent
<1>3. Headed(s, s')
  BY <1>1, <1>2, HeadedIs
<1>4. PICK twice \in 0 .. (IF Suffix(s.cursor) = <<>> THEN 0 ELSE 1) : live' = Resent(s.cursor, twice)
  BY <1>2
<1>5. /\ \A m \in 1 .. Len(live') : live'[m].t = "event"
      /\ \A k \in Range(Suffix(s.cursor)) :
           \E m \in 1 .. Len(live') : live'[m].t = "event" /\ live'[m].cur = k
  BY <1>1, <1>4, ResentIs
<1>6. GapsInside' /\ Down'
  BY <1>2, <1>5 DEF GapsInside, Down
<1>7. QED
  BY <1>2, <1>3, <1>5, <1>6, HeadedTrust DEF Queued

LEMMA ReattachFailsTrust ==
  ASSUME IInv, Trust, ReattachFails
  PROVE  Trust' /\ Keeps(s, s')
<1>1. /\ Sound(s) /\ log \in Seq(Events)
  BY DEF IInv, LogOK
<1>2. /\ walk' = walk /\ s' = Heads(s, TurnNow) /\ up' = TRUE
      /\ UNCHANGED <<view, log, hole, live, crashes, faults>>
  BY DEF ReattachFails, Heads, TurnNow
<1>3. Headed(s, s')
  BY <1>1, <1>2, HeadedIs
<1>4. GapsInside' /\ Down'
  BY <1>2 DEF GapsInside, Down, Trust
<1>5. QED
  BY <1>2, <1>3, <1>4, HeadedTrust

LEMMA LoadTrust ==
  ASSUME IInv, Trust, Load
  PROVE  Trust' /\ \A k \in 1 .. Len(log) : log[k].what = "completed" => Settled(s', log[k].item)
<1>1. /\ LogOK /\ Sound(s) /\ log \in Seq(Events)
  BY DEF IInv, LogOK
<1>2. /\ up /\ walk = None /\ walk' = None /\ live' = <<>> /\ UNCHANGED <<view, log, up, crashes>>
  BY DEF Load
<1>3. AllSettled(s')
  BY <1>1, LoadIs DEF LoadLeaves
<1>4. \A k \in 1 .. Len(log) : log[k].what = "completed" => Settled(s', log[k].item)
  <2> SUFFICES ASSUME NEW k \in 1 .. Len(log), log[k].what = "completed"
               PROVE  Settled(s', log[k].item)
    OBVIOUS
  <2>1. Has("completed", log[k].item)
    <3>1. DOMAIN log = 1 .. Len(log)
      BY <1>1
    <3>2. QED
      BY <3>1 DEF Has
  <2>2. QED
    BY <1>1, <1>3, <2>1, CompletedItem DEF AllSettled
<1>5. Honest(s)'
  BY <1>2, <1>4 DEF Honest
<1>6. WalkDone' /\ GapsInside' /\ Down'
  BY <1>2 DEF WalkDone, GapsInside, Down
<1>7. QED
  BY <1>4, <1>5, <1>6 DEF Trust

-----------------------------------------------------------------------------
(* What is on its way, step by step.                                        *)

\* r continues q and brings the event at k, and the bracket of the hole, if any.
Brings(q, r, k, h) ==
  /\ Len(q) <= Len(r) /\ Len(q) \in Nat /\ Len(r) \in Nat /\ \A m \in 1 .. Len(q) : r[m] = q[m]
  /\ Queued(r, k)
  /\ h # None => \E m \in 1 .. Len(r) : r[m] = Gap(h, k)

LEMMA EmitBrings ==
  ASSUME NEW q \in Seq(Deliveries), NEW k \in Nat, NEW h \in Nat \cup {None}, NEW r,
         \/ h = None /\ r = Append(q, Ev(k))
         \/ h # None /\ r = q \o <<Ev(k), Gap(h, k)>>
         \/ h # None /\ r = q \o <<Gap(h, k), Ev(k)>>
  PROVE  Brings(q, r, k, h)
<1>1. Ev(k) \in Deliveries /\ Ev(k).t = "event" /\ Ev(k).cur = k
  BY DEF Ev, Deliveries
<1>2. h # None => Gap(h, k) \in Deliveries
  BY DEF Gap, Deliveries
<1> DEFINE a == Ev(k)
           b == Gap(h, k)
<1> HIDE DEF a, b
<1>3. CASE h = None /\ r = Append(q, a)
  <2>1. a \in Deliveries /\ a.t = "event" /\ a.cur = k
    BY <1>1 DEF a
  <2>2. Len(r) = Len(q) + 1 /\ r[Len(q) + 1] = a /\ \A m \in 1 .. Len(q) : r[m] = q[m]
    BY <1>3, <2>1
  <2>3. Queued(r, k)
    BY <2>1, <2>2 DEF Queued
  <2>4. QED
    BY <1>3, <2>2, <2>3 DEF Brings
<1>4. CASE h # None /\ r = q \o <<a, b>>
  <2>1. a \in Deliveries /\ b \in Deliveries /\ a.t = "event" /\ a.cur = k
    BY <1>1, <1>2, <1>4 DEF a, b
  <2>2. /\ Len(r) = Len(q) + 2 /\ \A m \in 1 .. Len(q) : r[m] = q[m]
        /\ r[Len(q) + 1] = a /\ r[Len(q) + 2] = b
        /\ Len(q) + 1 \in 1 .. Len(r) /\ Len(q) + 2 \in 1 .. Len(r)
    BY <1>4, <2>1
  <2>3. Queued(r, k)
    BY <2>1, <2>2 DEF Queued
  <2>4. QED
    BY <2>2, <2>3 DEF Brings, b
<1>5. CASE h # None /\ r = q \o <<b, a>>
  <2>1. a \in Deliveries /\ b \in Deliveries /\ a.t = "event" /\ a.cur = k
    BY <1>1, <1>2, <1>5 DEF a, b
  <2>2. /\ Len(r) = Len(q) + 2 /\ \A m \in 1 .. Len(q) : r[m] = q[m]
        /\ r[Len(q) + 1] = b /\ r[Len(q) + 2] = a
        /\ Len(q) + 1 \in 1 .. Len(r) /\ Len(q) + 2 \in 1 .. Len(r)
    BY <1>5, <2>1
  <2>3. Queued(r, k)
    BY <2>1, <2>2 DEF Queued
  <2>4. QED
    BY <2>2, <2>3 DEF Brings, b
<1>6. QED
  BY <1>3, <1>4, <1>5 DEF a, b

LEMMA LongerOpen ==
  ASSUME Longer, s' = s
  PROVE  /\ \A k : k \in 1 .. Len(log') => k \in 1 .. Len(log) \/ k = Len(log) + 1
         /\ \A k \in 1 .. Len(log) : Open(k)' => Open(k)
BY DEF Longer, Open

LEMMA HostEmitComing ==
  ASSUME IInv, Trust, OpenComing, HostEmit
  PROVE  OpenComing'
<1> DEFINE k == Len(log) + 1
<1>1. /\ BookOK /\ live \in Seq(Deliveries) /\ Len(log) \in Nat /\ k \in Nat
  BY DEF IInv, LiveType, LogOK
<1>2. /\ up /\ s' = s /\ hole' = None /\ UNCHANGED <<up, walk, excused>>
      /\ \/ hole = None /\ live' = Append(live, Ev(k))
         \/ hole # None /\ live' = live \o <<Ev(k), Gap(hole, k)>>
         \/ hole # None /\ live' = live \o <<Gap(hole, k), Ev(k)>>
  BY DEF HostEmit
<1>3. hole \in Nat \cup {None}
  BY <1>1 DEF BookOK
<1>4. Longer
  BY HostEmitTrust
<1> HIDE DEF k
<1>5. Brings(live, live', k, hole)
  BY <1>1, <1>2, <1>3, EmitBrings
<1> SUFFICES ASSUME ~excused, NEW n \in 1 .. Len(log'), Open(n)'
             PROVE  Coming(n)'
  BY <1>2 DEF OpenComing
<1>6. CASE n = k
  BY <1>5, <1>6 DEF Brings, Coming
<1>7. CASE n \in 1 .. Len(log)
  <2>1. Coming(n)
    BY <1>2, <1>4, <1>7, LongerOpen DEF OpenComing
  <2>2. n \in Nat /\ n < k
    BY <1>1, <1>7 DEF k
  <2>3. CASE Queued(live, n)
    <3>1. Queued(live', n)
      BY <1>5, <2>3 DEF Queued, Brings
    <3>2. QED
      BY <3>1 DEF Coming
  <2>4. CASE InGap(live, n)
    <3>1. InGap(live', n)
      BY <1>5, <2>4 DEF InGap, Brings
    <3>2. QED
      BY <3>1 DEF Coming
  <2>5. CASE hole # None /\ n > hole
    <3>1. InGap(live', n)
      BY <1>3, <1>5, <2>2, <2>5 DEF InGap, Brings, Gap
    <3>2. QED
      BY <3>1 DEF Coming
  <2>6. CASE walk # None /\ walk.cursor < n /\ n < walk.next
    BY <1>2, <2>6 DEF Coming
  <2>7. QED
    BY <1>2, <2>1, <2>3, <2>4, <2>5, <2>6 DEF Coming, Doomed
<1>8. QED
  BY <1>2, <1>4, <1>6, <1>7, LongerOpen DEF k

LEMMA HostDropComing ==
  ASSUME IInv, Trust, OpenComing, HostDrop
  PROVE  OpenComing'
<1>1. /\ BookOK /\ Len(log) \in Nat
  BY DEF IInv, LogOK
<1>2. /\ up /\ s' = s /\ UNCHANGED <<live, up, walk, excused>>
      /\ (hole # None /\ hole' = hole) \/ (hole = None /\ hole' = Len(log))
  BY DEF HostDrop
<1>3. Longer
  BY HostDropTrust
<1>4. hole' # None /\ hole' \in Nat /\ hole' <= Len(log)
  <2>1. Len(log) # None
    BY <1>1, TranscriptAssumption
  <2>2. QED
    BY <1>1, <1>2, <2>1 DEF BookOK
<1> SUFFICES ASSUME ~excused, NEW n \in 1 .. Len(log'), Open(n)'
             PROVE  Coming(n)'
  BY <1>2 DEF OpenComing
<1>5. CASE n = Len(log) + 1
  BY <1>1, <1>4, <1>5 DEF Coming
<1>6. CASE n \in 1 .. Len(log)
  <2>1. Coming(n)
    BY <1>2, <1>3, <1>6, LongerOpen DEF OpenComing
  <2>2. QED
    BY <1>2, <2>1 DEF Coming, Doomed
<1>7. QED
  BY <1>2, <1>3, <1>5, <1>6, LongerOpen

\* What the rest of the queue still brings.
LEMMA TailBrings ==
  ASSUME NEW q \in Seq(Deliveries), q # <<>>
  PROVE  /\ \A k : Queued(q, k) => (Head(q).t = "event" /\ Head(q).cur = k) \/ Queued(Tail(q), k)
         /\ \A k : InGap(q, k) => InGap(Tail(q), k) \/
              (Head(q).t = "gap" /\ Head(q).after < k /\ k < Head(q).next)
         /\ HasGap(q) => Head(q).t = "gap" \/ HasGap(Tail(q))
         /\ IF Tail(q) = <<>> THEN q[Len(q)] = Head(q) ELSE Tail(q)[Len(Tail(q))] = q[Len(q)]
<1>1. Head(q) = q[1] /\ Len(q) \in Nat /\ Len(q) # 0 /\ Len(Tail(q)) = Len(q) - 1
  OBVIOUS
<1>2. \A m \in 1 .. Len(q) - 1 : Tail(q)[m] = q[m + 1]
  OBVIOUS
<1>3. \A m \in 1 .. Len(q) : m = 1 \/ (m - 1 \in 1 .. Len(Tail(q)) /\ Tail(q)[m - 1] = q[m])
  <2> TAKE m \in 1 .. Len(q)
  <2>1. CASE m # 1
    <3>1. m - 1 \in 1 .. Len(q) - 1 /\ (m - 1) + 1 = m
      BY <1>1, <2>1
    <3>2. QED
      BY <1>1, <1>2, <3>1
  <2>2. QED
    BY <2>1
<1>4. Tail(q) = <<>> => Len(q) = 1
  <2> DEFINE t == Tail(q)
  <2>a. Len(t) = Len(q) - 1
    BY <1>1
  <2> HIDE DEF t
  <2>b. t = <<>> => Len(t) = 0
    OBVIOUS
  <2>1. t = <<>> => Len(q) = 1
    <3> DEFINE m == Len(q)
               l == Len(t)
    <3>1. m \in Nat /\ l = m - 1 /\ (t = <<>> => l = 0)
      BY <1>1, <2>a, <2>b
    <3> HIDE DEF m, l
    <3>2. t = <<>> => m = 1
      BY <3>1
    <3>3. QED
      BY <3>2 DEF m
  <2>2. QED
    BY <2>1 DEF t
<1>5. Tail(q) # <<>> => Len(q) # 1
  <2>1. Tail(q) \in Seq(Deliveries)
    OBVIOUS
  <2>2. QED
    BY <1>1, <2>1
<1>6. \A k : Queued(q, k) => (Head(q).t = "event" /\ Head(q).cur = k) \/ Queued(Tail(q), k)
  BY <1>1, <1>3 DEF Queued
<1>7. \A k : InGap(q, k) => InGap(Tail(q), k) \/
              (Head(q).t = "gap" /\ Head(q).after < k /\ k < Head(q).next)
  BY <1>1, <1>3 DEF InGap
<1>8. HasGap(q) => Head(q).t = "gap" \/ HasGap(Tail(q))
  BY <1>1, <1>3 DEF HasGap
<1>9. IF Tail(q) = <<>> THEN q[Len(q)] = Head(q) ELSE Tail(q)[Len(Tail(q))] = q[Len(q)]
  <2>1. Len(q) \in 1 .. Len(q)
    BY <1>1
  <2>2. QED
    BY <1>1, <1>3, <1>4, <1>5, <2>1
<1>10. QED
  BY <1>6, <1>7, <1>8, <1>9

LEMMA ReadEventComing ==
  ASSUME IInv, Trust, OpenComing, ReadEvent
  PROVE  OpenComing'
<1> DEFINE k == Head(live).cur
<1>1. live \in Seq(Deliveries) /\ log \in Seq(Events)
  BY DEF IInv, LogOK, LiveType
<1>2. /\ walk = None /\ live # <<>> /\ Head(live).t = "event" /\ live' = Tail(live)
      /\ UNCHANGED <<view, log, hole, up, walk, excused, crashes, faults>>
  BY DEF ReadEvent
<1>3. Keeps(s, s') /\ (log[k].what = "completed" => Settled(s', log[k].item))
  BY ReadEventTrust
<1>4. s'.cursor = k
  BY ReadEventStep DEF Handles
<1> HIDE DEF k
<1> SUFFICES ASSUME ~excused, NEW n \in 1 .. Len(log), Open(n)'
             PROVE  Coming(n)'
  BY <1>2 DEF OpenComing
<1>5. Open(n) /\ n # k
  BY <1>1, <1>2, <1>3, OpenStays DEF Open
<1>6. Coming(n)
  BY <1>5 DEF OpenComing
<1>7. CASE Queued(live, n)
  BY <1>1, <1>2, <1>5, <1>7, TailBrings DEF Coming, k
<1>8. CASE InGap(live, n)
  BY <1>1, <1>2, <1>8, TailBrings DEF Coming
<1>9. CASE hole # None /\ n > hole
  BY <1>2, <1>9 DEF Coming
<1>10. CASE Doomed
  BY <1>1, <1>2, <1>10, TailBrings DEF Coming, Doomed
<1>11. CASE ~up /\ n > ReadTo
  <2>1. ReadTo = live[Len(live)].cur
    BY <1>2 DEF ReadTo
  <2>2. ReadTo' = ReadTo
    <3>1. CASE Tail(live) = <<>>
      <4>1. ReadTo' = k
        BY <1>2, <1>4, <3>1 DEF ReadTo
      <4>2. live[Len(live)] = Head(live)
        BY <1>1, <1>2, <3>1, TailBrings
      <4>3. QED
        BY <2>1, <4>1, <4>2 DEF k
    <3>2. CASE Tail(live) # <<>>
      <4>1. ReadTo' = Tail(live)[Len(Tail(live))].cur
        BY <1>2, <3>2 DEF ReadTo
      <4>2. QED
        BY <1>1, <1>2, <2>1, <3>2, <4>1, TailBrings
    <3>3. QED
      BY <3>1, <3>2
  <2>3. QED
    BY <1>2, <1>11, <2>2 DEF Coming
<1>12. QED
  BY <1>2, <1>6, <1>7, <1>8, <1>9, <1>10, <1>11 DEF Coming

LEMMA ReadGapComing ==
  ASSUME IInv, Trust, OpenComing, ReadGap
  PROVE  OpenComing'
<1>1. live \in Seq(Deliveries)
  BY DEF IInv, LiveType
<1>2. /\ walk = None /\ live # <<>> /\ Head(live).t = "gap" /\ live' = Tail(live)
      /\ walk'.cursor = Head(live).after /\ walk'.next = Head(live).next
      /\ UNCHANGED <<view, log, hole, up, s, excused, crashes, faults>>
  BY DEF ReadGap, WalkFrom
<1>3. walk' # None
  <2>1. walk' \in Walks
    <3>1. Head(live).after \in Nat /\ Head(live).next \in Nat /\ s.cursor \in Nat
      BY <1>2, HeadIs, SessionFields DEF IInv, Sound, Good
    <3>2. QED
      BY <3>1 DEF ReadGap, WalkFrom, Walks
  <2>2. QED
    BY <2>1, TranscriptAssumption
<1> SUFFICES ASSUME ~excused, NEW n \in 1 .. Len(log), Open(n)'
             PROVE  Coming(n)'
  BY <1>2 DEF OpenComing
<1>4. Open(n) /\ Coming(n)
  BY <1>2 DEF OpenComing, Open
<1>5. CASE ~up
  BY <1>2, <1>3, <1>5 DEF Coming, Doomed
<1>6. CASE Queued(live, n)
  BY <1>1, <1>2, <1>6, TailBrings DEF Coming
<1>7. CASE InGap(live, n)
  BY <1>1, <1>2, <1>3, <1>7, TailBrings DEF Coming
<1>8. CASE hole # None /\ n > hole
  BY <1>2, <1>8 DEF Coming
<1>9. QED
  BY <1>2, <1>4, <1>5, <1>6, <1>7, <1>8 DEF Coming, Doomed

\* Until the first crash the deliveries are in order: d before e.
Precedes(d, e) ==
  IF d.t = "event"
  THEN IF e.t = "event" THEN d.cur < e.cur ELSE d.cur <= e.after \/ d.cur = e.next
  ELSE IF e.t = "event" THEN d.next <= e.cur ELSE d.next <= e.after

InOrder(q) == \A a, b \in 1 .. Len(q) : a < b => Precedes(q[a], q[b])

Within(q, h) ==
  \A a \in 1 .. Len(q) :
    IF q[a].t = "event" THEN q[a].cur <= h
    ELSE q[a].cur = 0 /\ q[a].after < q[a].next /\ q[a].next <= h

\* The cursor live delivery has come to.
Sent == IF hole = None THEN Len(log) ELSE hole

\* The event is on its way, not only by the bracket of a hole whose later event was read.
Pending(k) ==
  \/ Queued(live, k)
  \/ hole # None /\ k > hole
  \/ \E m \in 1 .. Len(live) : /\ live[m].t = "gap" /\ live[m].after < k /\ k < live[m].next
                               /\ Queued(live, live[m].next)

\* What is on its way is ahead of the session's cursor, or of the one a refill returns to.
PendingAhead ==
  \A k \in 1 .. Len(log) : Open(k) /\ Pending(k) =>
    IF walk = None THEN k > s.cursor ELSE k > walk.after /\ k > walk.live

WalkCursor == walk # None => s.cursor <= walk.live \/ s.cursor <= walk.cursor

Early == crashes = 0 => InOrder(live) /\ Within(live, Sent) /\ PendingAhead /\ WalkCursor

\* What a crash leaves of the queue reaches at most to the cursors it cuts off.
LEMMA CutOffAhead ==
  ASSUME NEW q \in Seq(Deliveries), InOrder(q), NEW h \in Nat, Within(q, h),
         NEW n \in 1 .. Len(q), q[n].t = "event", NEW k \in Nat
  PROVE  /\ \A m \in n + 1 .. Len(q) : q[m].t = "event" /\ q[m].cur = k => k > q[n].cur
         /\ k > h => k > q[n].cur
         /\ \A m \in n + 1 .. Len(q) : q[m].t = "gap" /\ q[m].after < k =>
              k > q[n].cur \/ ~\E j \in n + 1 .. Len(q) : q[j].cur = q[m].next
<1>1. \A m \in 1 .. Len(q) : /\ q[m].t \in {"event", "gap"} /\ q[m].cur \in Nat
                             /\ q[m].after \in Nat /\ q[m].next \in Nat
  BY DeliveryFields
<1>2. \A m \in n + 1 .. Len(q) : m \in 1 .. Len(q) /\ n < m
  OBVIOUS
<1>3. \A m \in n + 1 .. Len(q) : q[m].t = "event" => q[n].cur < q[m].cur
  BY <1>2 DEF InOrder, Precedes
<1>4. k > h => k > q[n].cur
  BY <1>1 DEF Within
<1>5. ASSUME NEW m \in n + 1 .. Len(q), q[m].t = "gap", q[m].after < k,
             NEW j \in n + 1 .. Len(q), q[j].cur = q[m].next
      PROVE  k > q[n].cur
  <2>1. q[n].cur <= q[m].after \/ q[n].cur = q[m].next
    BY <1>2, <1>5 DEF InOrder, Precedes
  <2>2. q[m].next # 0
    <3>1. q[m].after < q[m].next
      BY <1>2, <1>5 DEF Within
    <3>2. QED
      BY <1>1, <1>2, <3>1
  <2>3. q[j].t = "event"
    <3>1. q[j].t # "event" => q[j].cur = 0
      BY <1>2 DEF Within
    <3>2. QED
      BY <1>5, <2>2, <3>1
  <2>4. q[n].cur < q[m].next
    BY <1>3, <1>5, <2>3
  <2>5. q[n].cur <= q[m].after
    BY <1>1, <1>2, <2>1, <2>4
  <2>6. QED
    BY <1>1, <1>2, <1>5, <2>5
<1>6. QED
  BY <1>3, <1>4, <1>5

LEMMA HostCrashComing ==
  ASSUME IInv, Trust, OpenComing, Early, crashes = 0, HostCrash
  PROVE  OpenComing'
<1>1. /\ live \in Seq(Deliveries) /\ Len(log) \in Nat /\ BookOK /\ s.cursor \in Nat
  BY SessionFields DEF IInv, LogOK, LiveType, Sound, Good
<1>2. /\ up = TRUE /\ up' = FALSE /\ hole' = None /\ UNCHANGED <<view, log, s, walk>>
  BY DEF HostCrash, IInv, RestType
<1>3. PICK n \in 0 .. Len(live) :
        /\ live' = SubSeq(live, 1, n)
        /\ excused' = (excused \/ \E m \in n + 1 .. Len(live) :
                         /\ live[m].t = "gap"
                         /\ ~\E j \in n + 1 .. Len(live) : live[j].cur = live[m].next)
  BY DEF HostCrash
<1>4. Len(live') = n /\ \A m \in 1 .. n : live'[m] = live[m] /\ m \in 1 .. Len(live)
  BY <1>1, <1>3
<1>5. /\ InOrder(live) /\ Within(live, Sent) /\ PendingAhead
      /\ Sent \in Nat /\ (hole # None => Sent = hole)
  BY <1>1 DEF Early, Sent, BookOK
<1> SUFFICES ASSUME ~excused', NEW k \in 1 .. Len(log), Open(k)', ~Doomed'
             PROVE  Coming(k)'
  BY <1>2 DEF OpenComing, Coming
<1>6. /\ ~excused /\ Open(k) /\ walk = None /\ ~HasGap(live')
      /\ \A m \in n + 1 .. Len(live) : live[m].t = "gap" =>
           \E j \in n + 1 .. Len(live) : live[j].cur = live[m].next
  BY <1>2, <1>3 DEF Open, Doomed
<1>7. Queued(live, k) \/ InGap(live, k) \/ (hole # None /\ k > hole)
  BY <1>2, <1>6 DEF OpenComing, Coming, Doomed
<1>8. SUFFICES ASSUME ~Queued(live', k) PROVE k > ReadTo'
  BY <1>2 DEF Coming
<1>9. \A m \in 1 .. Len(live) : m \in 1 .. n \/ m \in n + 1 .. Len(live)
  BY <1>1
<1>10. /\ Queued(live, k) => \E m \in n + 1 .. Len(live) : live[m].t = "event" /\ live[m].cur = k
       /\ InGap(live, k) => \E m \in n + 1 .. Len(live) :
            live[m].t = "gap" /\ live[m].after < k /\ k < live[m].next
  BY <1>4, <1>6, <1>8, <1>9 DEF Queued, InGap, HasGap
<1>11. CASE n = 0
  <2>1. live' = <<>>
    BY <1>1, <1>3, <1>11
  <2>2. ReadTo' = s.cursor
    BY <1>2, <2>1 DEF ReadTo
  <2>3. Pending(k)
    <3>1. CASE Queued(live, k) \/ (hole # None /\ k > hole)
      BY <3>1 DEF Pending
    <3>2. CASE InGap(live, k)
      <4>1. PICK m \in n + 1 .. Len(live) :
              live[m].t = "gap" /\ live[m].after < k /\ k < live[m].next
        BY <1>10, <3>2
      <4>2. PICK j \in n + 1 .. Len(live) : live[j].cur = live[m].next
        BY <1>6, <4>1
      <4>3. j \in 1 .. Len(live) /\ m \in 1 .. Len(live)
        BY <1>11
      <4>4. live[j].t = "event"
        <5>1. live[m].next # 0
          <6>1. live[m].after < live[m].next /\ live[m].after \in Nat /\ live[m].next \in Nat
            BY <1>1, <1>5, <4>1, <4>3, DeliveryFields DEF Within
          <6>2. QED
            BY <6>1
        <5>2. QED
          BY <1>5, <4>2, <4>3, <5>1 DEF Within
      <4>5. Queued(live, live[m].next)
        BY <4>2, <4>3, <4>4 DEF Queued
      <4>6. QED
        BY <4>1, <4>3, <4>5 DEF Pending
    <3>3. QED
      BY <1>7, <3>1, <3>2
  <2>4. k > s.cursor
    BY <1>5, <1>6, <2>3 DEF PendingAhead
  <2>5. QED
    BY <2>2, <2>4
<1>12. CASE n # 0
  <2>1. n \in 1 .. Len(live) /\ n \in 1 .. n /\ live' # <<>>
    BY <1>1, <1>4, <1>12
  <2>2. ReadTo' = live[n].cur
    BY <1>4, <2>1 DEF ReadTo
  <2>3. live[n].t = "event"
    <3>1. live[n].t # "gap"
      BY <1>4, <1>6, <2>1 DEF HasGap
    <3>2. QED
      BY <1>1, <2>1, <3>1, DeliveryFields
  <2>4. k \in Nat
    OBVIOUS
  <2>5. /\ \A m \in n + 1 .. Len(live) : live[m].t = "event" /\ live[m].cur = k => k > live[n].cur
        /\ k > Sent => k > live[n].cur
        /\ \A m \in n + 1 .. Len(live) : live[m].t = "gap" /\ live[m].after < k =>
             k > live[n].cur \/ ~\E j \in n + 1 .. Len(live) : live[j].cur = live[m].next
    BY <1>1, <1>5, <2>1, <2>3, <2>4, CutOffAhead
  <2>6. k > live[n].cur
    BY <1>5, <1>6, <1>7, <1>10, <2>5
  <2>7. QED
    BY <2>2, <2>6
<1>13. QED
  BY <1>11, <1>12

LEMMA WalkPageComing ==
  ASSUME IInv, Trust, OpenComing, WalkPage
  PROVE  OpenComing'
<1>1. log \in Seq(Events) /\ walk # None /\ up /\ UNCHANGED <<log, live, hole, up, excused>>
  BY DEF IInv, LogOK, WalkPage
<1>2. Keeps(s, s') /\ (RefillEnds \/ RefillGoesOn)
  BY WalkPageRefills
<1> SUFFICES ASSUME ~excused, NEW k \in 1 .. Len(log), Open(k)'
             PROVE  Coming(k)'
  BY <1>1 DEF OpenComing
<1>3. Coming(k)
  BY <1>1, <1>2, OpenStays DEF OpenComing
<1>4. ~Settled(s', log[k].item) /\ log[k].what = "completed"
  BY <1>1 DEF Open
<1>5. CASE walk.cursor < k /\ k < walk.next
  <2>1. ~RefillEnds
    BY <1>4, <1>5 DEF RefillEnds, SettledIn
  <2>2. RefillGoesOn
    BY <1>2, <2>1
  <2>3. /\ walk' # None /\ walk'.next = walk.next /\ walk'.cursor \in 1 .. Len(log)
        /\ SettledIn(s', walk.cursor, walk'.cursor + 1)
    BY <2>2 DEF RefillGoesOn
  <2>4. ~(k < walk'.cursor + 1)
    BY <1>4, <1>5, <2>3 DEF SettledIn
  <2>5. walk'.cursor < k
    BY <2>3, <2>4
  <2>6. QED
    BY <1>5, <2>3, <2>5 DEF Coming
<1>6. QED
  BY <1>1, <1>3, <1>5 DEF Coming, Doomed

\* A session that lost its process and has read everything misses only the suffix.
LEMMA DownMisses ==
  ASSUME IInv, Trust, OpenComing, ~excused, ~up, live = <<>>, walk = None,
         NEW k \in 1 .. Len(log), Open(k)
  PROVE  k \in Range(Suffix(s.cursor))
<1>1. log \in Seq(Events) /\ s.cursor \in Nat
  BY SessionFields DEF IInv, LogOK, Sound, Good
<1>2. Coming(k) /\ hole = None
  BY DEF OpenComing, Trust, Down
<1>3. 1 .. Len(live) = {}
  OBVIOUS
<1>4. ~Queued(live, k) /\ ~InGap(live, k) /\ ~Doomed
  BY <1>3 DEF Queued, InGap, Doomed, HasGap
<1>5. k > s.cursor
  BY <1>2, <1>4 DEF Coming, ReadTo
<1>6. Durable(k)
  BY DEF Durable, Open
<1>7. QED
  BY <1>1, <1>5, <1>6, SuffixIs

LEMMA ReattachComing ==
  ASSUME IInv, Trust, OpenComing, Reattach
  PROVE  OpenComing'
<1>1. log \in Seq(Events) /\ ~up /\ live = <<>> /\ walk = None /\ UNCHANGED <<log, excused>>
  BY DEF IInv, LogOK, Reattach
<1>2. Keeps(s, s') /\ \A k \in Range(Suffix(s.cursor)) : Queued(live', k)
  BY ReattachTrust
<1> SUFFICES ASSUME ~excused, NEW k \in 1 .. Len(log), Open(k)'
             PROVE  Coming(k)'
  BY <1>1 DEF OpenComing
<1>3. Open(k)
  BY <1>1, <1>2, OpenStays
<1>4. Queued(live', k)
  BY <1>1, <1>2, <1>3, DownMisses
<1>5. QED
  BY <1>4 DEF Coming

LEMMA ReattachFailsComing ==
  ASSUME IInv, Trust, OpenComing, ReattachFails
  PROVE  OpenComing'
<1>1. /\ log \in Seq(Events) /\ ~up /\ live = <<>> /\ walk = None /\ log' = log
      /\ excused' = (excused \/ Suffix(s.cursor) # <<>>)
  BY DEF IInv, LogOK, ReattachFails
<1>2. Keeps(s, s')
  BY ReattachFailsTrust
<1> SUFFICES ASSUME ~excused, Suffix(s.cursor) = <<>>, NEW k \in 1 .. Len(log), Open(k)'
             PROVE  FALSE
  BY <1>1 DEF OpenComing
<1>3. Open(k)
  BY <1>1, <1>2, OpenStays
<1>4. k \in Range(Suffix(s.cursor))
  BY <1>1, <1>3, DownMisses
<1>5. QED
  BY <1>4 DEF Range

LEMMA LoadComing ==
  ASSUME IInv, Trust, Load
  PROVE  OpenComing'
<1>1. log' = log
  BY DEF Load
<1>2. \A k \in 1 .. Len(log) : log[k].what = "completed" => Settled(s', log[k].item)
  BY LoadTrust
<1>3. QED
  BY <1>1, <1>2 DEF OpenComing, Open

-----------------------------------------------------------------------------
(* The order of deliveries, step by step.                                   *)

LEMMA PartOrdered ==
  ASSUME NEW q \in Seq(Deliveries), NEW r \in Seq(Deliveries), NEW c \in Nat, PartOf(r, q, c),
         InOrder(q), NEW h, Within(q, h)
  PROVE  InOrder(r) /\ Within(r, h)
<1>1. \A a, b \in 1 .. Len(r) : a < b => a + c < b + c
  OBVIOUS
<1>2. InOrder(r)
  BY <1>1 DEF PartOf, InOrder
<1>3. Within(r, h)
  BY DEF PartOf, Within
<1>4. QED
  BY <1>2, <1>3

LEMMA EmitOrdered ==
  ASSUME NEW q \in Seq(Deliveries), NEW k \in Nat, NEW h \in Nat \cup {None}, NEW e \in Nat, e < k,
         h # None => h = e, InOrder(q), Within(q, e), NEW r,
         \/ h = None /\ r = Append(q, Ev(k))
         \/ h # None /\ r = q \o <<Ev(k), Gap(h, k)>>
         \/ h # None /\ r = q \o <<Gap(h, k), Ev(k)>>
  PROVE  InOrder(r) /\ Within(r, k)
<1> DEFINE a == Ev(k)
           b == Gap(h, k)
<1>1. a \in Deliveries /\ a.t = "event" /\ a.cur = k
  BY DEF Ev, Deliveries
<1>2. h # None => b \in Deliveries /\ b.t = "gap" /\ b.cur = 0 /\ b.after = e /\ b.next = k
  BY DEF Gap, Deliveries
<1>3. \A m \in 1 .. Len(q) : /\ q[m].t \in {"event", "gap"} /\ q[m].cur \in Nat
                             /\ q[m].after \in Nat /\ q[m].next \in Nat
  BY DeliveryFields
<1> HIDE DEF a, b
<1>4. \A m \in 1 .. Len(q) : Precedes(q[m], a) /\ (h # None => Precedes(q[m], b))
  <2> TAKE m \in 1 .. Len(q)
  <2>1. IF q[m].t = "event" THEN q[m].cur <= e
        ELSE q[m].cur = 0 /\ q[m].after < q[m].next /\ q[m].next <= e
    BY DEF Within
  <2>2. Precedes(q[m], a)
    BY <1>1, <1>3, <2>1 DEF Precedes
  <2>3. h # None => Precedes(q[m], b)
    BY <1>2, <1>3, <2>1 DEF Precedes
  <2>4. QED
    BY <2>2, <2>3
<1>5. Within(q, k)
  <2> SUFFICES ASSUME NEW m \in 1 .. Len(q)
               PROVE  IF q[m].t = "event" THEN q[m].cur <= k
                      ELSE q[m].cur = 0 /\ q[m].after < q[m].next /\ q[m].next <= k
    BY DEF Within
  <2>1. IF q[m].t = "event" THEN q[m].cur <= e
        ELSE q[m].cur = 0 /\ q[m].after < q[m].next /\ q[m].next <= e
    BY DEF Within
  <2>2. QED
    BY <1>3, <2>1
<1>6. CASE h = None /\ r = Append(q, a)
  <2>1. /\ Len(q) \in Nat /\ Len(r) = Len(q) + 1 /\ \A m \in 1 .. Len(q) : r[m] = q[m]
        /\ r[Len(q) + 1] = a
    BY <1>1, <1>6
  <2>2. \A m \in 1 .. Len(r) : m \in 1 .. Len(q) \/ m = Len(q) + 1
    BY <2>1
  <2>3. InOrder(r)
    BY <1>4, <2>1, <2>2 DEF InOrder
  <2>4. Within(r, k)
    BY <1>1, <1>5, <2>1, <2>2 DEF Within
  <2>5. QED
    BY <2>3, <2>4
<1>7. CASE h # None /\ r = q \o <<a, b>>
  <2>0. a \in Deliveries /\ b \in Deliveries
    BY <1>1, <1>2, <1>7
  <2>1. /\ Len(q) \in Nat /\ Len(r) = Len(q) + 2 /\ \A m \in 1 .. Len(q) : r[m] = q[m]
        /\ r[Len(q) + 1] = a /\ r[Len(q) + 2] = b
    BY <1>7, <2>0
  <2>2. \A m \in 1 .. Len(r) : m \in 1 .. Len(q) \/ m = Len(q) + 1 \/ m = Len(q) + 2
    BY <2>1
  <2>3. Precedes(a, b)
    BY <1>1, <1>2, <1>7 DEF Precedes
  <2>4. InOrder(r)
    BY <1>4, <1>7, <2>1, <2>2, <2>3 DEF InOrder
  <2>5. Within(r, k)
    BY <1>1, <1>2, <1>5, <1>7, <2>1, <2>2 DEF Within
  <2>6. QED
    BY <2>4, <2>5
<1>8. CASE h # None /\ r = q \o <<b, a>>
  <2>0. a \in Deliveries /\ b \in Deliveries
    BY <1>1, <1>2, <1>8
  <2>1. /\ Len(q) \in Nat /\ Len(r) = Len(q) + 2 /\ \A m \in 1 .. Len(q) : r[m] = q[m]
        /\ r[Len(q) + 1] = b /\ r[Len(q) + 2] = a
    BY <1>8, <2>0
  <2>2. \A m \in 1 .. Len(r) : m \in 1 .. Len(q) \/ m = Len(q) + 1 \/ m = Len(q) + 2
    BY <2>1
  <2>3. Precedes(b, a)
    BY <1>1, <1>2, <1>8 DEF Precedes
  <2>4. InOrder(r)
    BY <1>4, <1>8, <2>1, <2>2, <2>3 DEF InOrder
  <2>5. Within(r, k)
    BY <1>1, <1>2, <1>5, <1>8, <2>1, <2>2 DEF Within
  <2>6. QED
    BY <2>4, <2>5
<1>9. QED
  BY <1>6, <1>7, <1>8 DEF a, b

\* What an emission adds to the queue: the event at k, and the bracket of hole h.
BringsOnly(r, q, h, k) ==
  /\ \A n : n # k /\ Queued(r, n) => Queued(q, n)
  /\ \A m \in 1 .. Len(r) : r[m].t = "gap" /\ Queued(r, r[m].next) =>
       \/ h # None /\ r[m].after = h
       \/ \E j \in 1 .. Len(q) : r[m] = q[j] /\ Queued(q, q[j].next)

LEMMA EmitPending ==
  ASSUME NEW q \in Seq(Deliveries), NEW k \in Nat, NEW h \in Nat \cup {None}, NEW e \in Nat, e < k,
         Within(q, e), NEW r,
         \/ h = None /\ r = Append(q, Ev(k))
         \/ h # None /\ r = q \o <<Ev(k), Gap(h, k)>>
         \/ h # None /\ r = q \o <<Gap(h, k), Ev(k)>>
  PROVE  BringsOnly(r, q, h, k)
<1>1. \A m \in 1 .. Len(r) : r[m] \in Range(q) \/ r[m] = Ev(k) \/ (h # None /\ r[m] = Gap(h, k))
  BY EmitSends, ZenonT(30)
<1>2. \A m \in 1 .. Len(r) :
        (\E j \in 1 .. Len(q) : r[m] = q[j]) \/ (r[m].t = "event" /\ r[m].cur = k)
        \/ (h # None /\ r[m].t = "gap" /\ r[m].after = h)
  <2> TAKE m \in 1 .. Len(r)
  <2>1. CASE r[m] \in Range(q)
    BY <2>1 DEF Range
  <2>2. CASE r[m] = Ev(k)
    BY <2>2 DEF Ev
  <2>3. CASE h # None /\ r[m] = Gap(h, k)
    BY <2>3 DEF Gap
  <2>4. QED
    BY <1>1, <2>1, <2>2, <2>3
<1>3. \A n : n # k /\ Queued(r, n) => Queued(q, n)
  BY <1>2 DEF Queued
<1>4. \A j \in 1 .. Len(q) : q[j].t = "gap" => q[j].next # k
  <2> TAKE j \in 1 .. Len(q)
  <2> HAVE q[j].t = "gap"
  <2>1. q[j].next <= e /\ q[j].next \in Nat
    BY DeliveryFields DEF Within
  <2>2. QED
    BY <2>1
<1>5. ASSUME NEW m \in 1 .. Len(r), r[m].t = "gap", Queued(r, r[m].next)
      PROVE  \/ h # None /\ r[m].after = h
             \/ \E j \in 1 .. Len(q) : r[m] = q[j] /\ Queued(q, q[j].next)
  <2>1. CASE \E j \in 1 .. Len(q) : r[m] = q[j]
    <3>1. PICK j \in 1 .. Len(q) : r[m] = q[j]
      BY <2>1
    <3>2. q[j].next # k
      BY <1>4, <1>5, <3>1
    <3>3. Queued(q, q[j].next)
      BY <1>3, <1>5, <3>1, <3>2
    <3>4. QED
      BY <3>1, <3>3
  <2>2. CASE r[m].t = "event" /\ r[m].cur = k
    BY <1>5, <2>2
  <2>3. CASE h # None /\ r[m].t = "gap" /\ r[m].after = h
    BY <2>3
  <2>4. QED
    BY <1>2, <2>1, <2>2, <2>3
<1>6. QED
  BY <1>3, <1>5 DEF BringsOnly

\* What the invariant says until the first crash.
Orderly == InOrder(live) /\ Within(live, Sent) /\ PendingAhead /\ WalkCursor

LEMMA EarlyFacts ==
  ASSUME IInv
  PROVE  /\ live \in Seq(Deliveries) /\ log \in Seq(Events) /\ Len(log) \in Nat
         /\ hole \in Nat \cup {None} /\ (hole # None => hole <= Len(log))
         /\ Sent \in Nat /\ Sent <= Len(log) /\ s.cursor \in Nat /\ s.cursor <= Len(log)
         /\ walk # None => /\ walk \in Walks /\ walk.live \in Nat /\ walk.live <= Len(log)
                           /\ walk.after \in Nat /\ walk.cursor \in Nat /\ walk.next \in Nat
<1>1. LogOK /\ BookOK /\ LiveType
  BY DEF IInv
<1>2. walk # None => /\ walk \in Walks /\ walk.live \in Nat /\ walk.live <= Len(log)
                     /\ walk.after \in Nat /\ walk.cursor \in Nat /\ walk.next \in Nat
  BY <1>1 DEF BookOK, Walks
<1>3. live \in Seq(Deliveries) /\ log \in Seq(Events) /\ Len(log) \in Nat
  BY <1>1 DEF LogOK, LiveType
<1>4. /\ hole \in Nat \cup {None} /\ (hole # None => hole <= Len(log))
      /\ s.cursor \in Nat /\ s.cursor <= Len(log)
  BY <1>1, <1>3 DEF BookOK
<1>5. Sent \in Nat /\ Sent <= Len(log)
  BY <1>3, <1>4 DEF Sent
<1>6. QED
  BY <1>2, <1>3, <1>4, <1>5

\* A cursor the log had not reached is ahead of all.
LEMMA NewAhead ==
  ASSUME IInv, Trust
  PROVE  IF walk = None THEN Len(log) + 1 > s.cursor
         ELSE Len(log) + 1 > walk.after /\ Len(log) + 1 > walk.live
<1>1. walk # None => walk.after <= walk.cursor /\ walk.cursor <= Len(log)
  BY DEF Trust, WalkDone
<1>2. walk # None => walk.after \in Nat /\ walk.cursor \in Nat /\ walk.live \in Nat /\ walk.live <= Len(log)
  BY EarlyFacts
<1>3. s.cursor \in Nat /\ s.cursor <= Len(log) /\ Len(log) \in Nat
  BY EarlyFacts
<1>4. QED
  BY <1>1, <1>2, <1>3

LEMMA HostEmitOrderly ==
  ASSUME IInv, Trust, Orderly, HostEmit
  PROVE  Orderly'
<1> DEFINE k == Len(log) + 1
<1>1. /\ s' = s /\ walk' = walk /\ hole' = None
      /\ \/ hole = None /\ live' = Append(live, Ev(k))
         \/ hole # None /\ live' = live \o <<Ev(k), Gap(hole, k)>>
         \/ hole # None /\ live' = live \o <<Gap(hole, k), Ev(k)>>
  BY DEF HostEmit
<1>2. /\ live \in Seq(Deliveries) /\ Len(log) \in Nat /\ k \in Nat /\ Len(log) = k - 1
      /\ hole \in Nat \cup {None} /\ (hole # None => hole = Sent) /\ Sent \in Nat /\ Sent < k
      /\ (hole # None => hole <= Len(log))
  BY EarlyFacts DEF Sent
<1>3. Longer /\ Len(log') = k
  BY HostEmitTrust DEF Longer
<1>4. IF walk = None THEN k > s.cursor ELSE k > walk.after /\ k > walk.live
  BY NewAhead
<1> HIDE DEF k
<1>5. InOrder(live') /\ Within(live', k)
  BY <1>1, <1>2, EmitOrdered DEF Orderly
<1>6. Sent' = k
  BY <1>1, <1>3 DEF Sent
<1>7. /\ \A n : n # k /\ Queued(live', n) => Queued(live, n)
      /\ \A m \in 1 .. Len(live') : live'[m].t = "gap" /\ Queued(live', live'[m].next) =>
           \/ hole # None /\ live'[m].after = hole
           \/ \E j \in 1 .. Len(live) : live'[m] = live[j] /\ Queued(live, live[j].next)
  <2>1. Within(live, Sent)
    BY DEF Orderly
  <2>2. BringsOnly(live', live, hole, k)
    BY <1>1, <1>2, <2>1, EmitPending
  <2>3. QED
    BY <2>2 DEF BringsOnly
<1>8. ASSUME NEW n \in 1 .. Len(log), Pending(n)' PROVE Pending(n)
  <2>1. n # k
    BY <1>2, <1>8
  <2>2. CASE Queued(live', n)
    BY <1>7, <2>1, <2>2 DEF Pending
  <2>3. CASE \E m \in 1 .. Len(live') : /\ live'[m].t = "gap" /\ live'[m].after < n
                                        /\ n < live'[m].next /\ Queued(live', live'[m].next)
    <3>1. PICK m \in 1 .. Len(live') : /\ live'[m].t = "gap" /\ live'[m].after < n
                                       /\ n < live'[m].next /\ Queued(live', live'[m].next)
      BY <2>3
    <3>2. CASE hole # None /\ live'[m].after = hole
      BY <1>2, <3>1, <3>2 DEF Pending
    <3>3. CASE \E j \in 1 .. Len(live) : live'[m] = live[j] /\ Queued(live, live[j].next)
      BY <3>1, <3>3 DEF Pending
    <3>4. QED
      BY <1>7, <3>1, <3>2, <3>3
  <2>4. QED
    BY <1>1, <1>8, <2>2, <2>3 DEF Pending
<1>9. PendingAhead'
  <2> SUFFICES ASSUME NEW n \in 1 .. Len(log'), Open(n)', Pending(n)'
               PROVE  IF walk = None THEN n > s.cursor ELSE n > walk.after /\ n > walk.live
    BY <1>1 DEF PendingAhead
  <2>1. CASE n = k
    BY <1>4, <2>1
  <2>2. CASE n \in 1 .. Len(log)
    <3>1. Open(n) /\ Pending(n)
      BY <1>1, <1>3, <1>8, <2>2, LongerOpen
    <3>2. QED
      BY <2>2, <3>1 DEF Orderly, PendingAhead
  <2>3. n \in 1 .. Len(log) \/ n = k
    BY <1>1, <1>3, LongerOpen DEF k
  <2>4. QED
    BY <2>1, <2>2, <2>3
<1>10. WalkCursor'
  BY <1>1 DEF Orderly, WalkCursor
<1>11. QED
  BY <1>5, <1>6, <1>9, <1>10 DEF Orderly

LEMMA HostDropOrderly ==
  ASSUME IInv, Trust, Orderly, HostDrop
  PROVE  Orderly'
<1>1. /\ s' = s /\ walk' = walk /\ live' = live
      /\ (hole # None /\ hole' = hole) \/ (hole = None /\ hole' = Len(log))
  BY DEF HostDrop
<1>2. Len(log) \in Nat /\ Len(log) # None /\ Longer
  BY EarlyFacts, HostDropTrust, TranscriptAssumption
<1>3. Sent' = Sent
  BY <1>1, <1>2 DEF Sent
<1>4. IF walk = None THEN Len(log) + 1 > s.cursor
      ELSE Len(log) + 1 > walk.after /\ Len(log) + 1 > walk.live
  BY NewAhead
<1>5. PendingAhead'
  <2> SUFFICES ASSUME NEW n \in 1 .. Len(log'), Open(n)', Pending(n)'
               PROVE  IF walk = None THEN n > s.cursor ELSE n > walk.after /\ n > walk.live
    BY <1>1 DEF PendingAhead
  <2>1. CASE n = Len(log) + 1
    BY <1>4, <2>1
  <2>2. CASE n \in 1 .. Len(log)
    <3>1. Open(n)
      BY <1>1, <1>2, <2>2, LongerOpen
    <3>2. Pending(n)
      <4>1. n <= Len(log) /\ n \in Nat
        BY <2>2
      <4>2. hole' = Len(log) => ~(n > hole')
        BY <1>2, <4>1
      <4>3. QED
        BY <1>1, <4>2 DEF Pending
    <3>3. QED
      BY <2>2, <3>1, <3>2 DEF Orderly, PendingAhead
  <2>3. n \in 1 .. Len(log) \/ n = Len(log) + 1
    BY <1>1, <1>2, LongerOpen
  <2>4. QED
    BY <2>1, <2>2, <2>3
<1>6. QED
  BY <1>1, <1>3, <1>5 DEF Orderly, WalkCursor

LEMMA ReadEventOrderly ==
  ASSUME IInv, Trust, Orderly, ReadEvent
  PROVE  Orderly'
<1> DEFINE k == Head(live).cur
<1>1. /\ walk = None /\ live # <<>> /\ Head(live).t = "event" /\ live' = Tail(live)
      /\ UNCHANGED <<log, hole, walk>>
  BY DEF ReadEvent
<1>2. live \in Seq(Deliveries) /\ Sent \in Nat /\ log \in Seq(Events)
  BY EarlyFacts
<1>3. Head(live) = live[1] /\ 1 \in 1 .. Len(live) /\ k \in Nat
  BY <1>1, HeadIs, DeliveryFields, <1>2 DEF IInv
<1>4. live' \in Seq(Deliveries) /\ PartOf(live', live, 1)
  BY <1>1, <1>2, TailPart
<1>5. Sent' = Sent
  BY <1>1 DEF Sent
<1>6. InOrder(live') /\ Within(live', Sent)
  BY <1>2, <1>4, PartOrdered DEF Orderly
<1>7. s'.cursor = k
  BY ReadEventStep DEF Handles
<1>8. k <= Sent
  BY <1>1, <1>3 DEF Orderly, Within
<1>9. \A m \in 1 .. Len(live') : /\ m + 1 \in 1 .. Len(live) /\ 1 < m + 1 /\ live'[m] = live[m + 1]
                                 /\ Precedes(live[1], live'[m])
  BY <1>3, <1>4 DEF PartOf, Orderly, InOrder
<1>10. \A n : Queued(live', n) => k < n
  BY <1>1, <1>3, <1>9 DEF Queued, Precedes
<1> HIDE DEF k
<1>11. PendingAhead'
  <2> SUFFICES ASSUME NEW n \in 1 .. Len(log), Pending(n)' PROVE n > k
    BY <1>1, <1>7 DEF PendingAhead
  <2>1. CASE Queued(live', n)
    BY <1>3, <1>10, <2>1
  <2>2. CASE hole # None /\ n > hole
    BY <1>2, <1>3, <1>8, <2>2 DEF Sent
  <2>3. CASE \E m \in 1 .. Len(live') : /\ live'[m].t = "gap" /\ live'[m].after < n
                                        /\ n < live'[m].next /\ Queued(live', live'[m].next)
    <3>1. PICK m \in 1 .. Len(live') : /\ live'[m].t = "gap" /\ live'[m].after < n
                                       /\ n < live'[m].next /\ Queued(live', live'[m].next)
      BY <2>3
    <3>2. k <= live'[m].after \/ k = live'[m].next
      BY <1>1, <1>3, <1>9, <3>1 DEF Precedes, k
    <3>3. live'[m].after \in Nat /\ live'[m].next \in Nat
      BY <1>4, DeliveryFields
    <3>4. k < live'[m].next
      BY <1>10, <3>1
    <3>5. QED
      BY <1>3, <3>1, <3>2, <3>3, <3>4
  <2>4. QED
    BY <1>1, <2>1, <2>2, <2>3 DEF Pending
<1>12. QED
  BY <1>1, <1>5, <1>6, <1>11 DEF Orderly, WalkCursor

LEMMA ReadGapOrderly ==
  ASSUME IInv, Trust, Orderly, ReadGap
  PROVE  Orderly'
<1>1. /\ walk = None /\ live # <<>> /\ Head(live).t = "gap" /\ live' = Tail(live)
      /\ walk'.after = Head(live).after /\ walk'.live = s.cursor
      /\ UNCHANGED <<log, hole, s>>
  BY DEF ReadGap
<1>2. /\ live \in Seq(Deliveries) /\ Sent \in Nat /\ log \in Seq(Events) /\ s.cursor \in Nat
      /\ hole \in Nat \cup {None}
  BY EarlyFacts
<1>3. /\ Head(live) = live[1] /\ 1 \in 1 .. Len(live)
      /\ Head(live).after \in Nat /\ Head(live).next \in Nat
  BY <1>1, HeadIs DEF IInv
<1>4. live' \in Seq(Deliveries) /\ PartOf(live', live, 1)
  BY <1>1, <1>2, TailPart
<1>5. Sent' = Sent
  BY <1>1 DEF Sent
<1>6. InOrder(live') /\ Within(live', Sent)
  BY <1>2, <1>4, PartOrdered DEF Orderly
<1>7. \A m \in 1 .. Len(live') : /\ m + 1 \in 1 .. Len(live) /\ 1 < m + 1 /\ live'[m] = live[m + 1]
                                 /\ Precedes(live[1], live'[m])
  BY <1>3, <1>4 DEF PartOf, Orderly, InOrder
<1>8. Head(live).after < Head(live).next /\ Head(live).next <= Sent
  BY <1>1, <1>3 DEF Orderly, Within
<1>9. \A n : Queued(live', n) => Queued(live, n)
  BY <1>7 DEF Queued
<1>10. ASSUME NEW n \in 1 .. Len(log), Pending(n)'
       PROVE  Pending(n) /\ n > Head(live).after
  <2>1. CASE Queued(live', n)
    <3>1. PICK m \in 1 .. Len(live') : live'[m].t = "event" /\ live'[m].cur = n
      BY <2>1 DEF Queued
    <3>2. Head(live).next <= n
      BY <1>1, <1>3, <1>7, <3>1 DEF Precedes
    <3>3. n > Head(live).after
      BY <1>3, <1>8, <3>2
    <3>4. QED
      BY <1>9, <2>1, <3>3 DEF Pending
  <2>2. CASE hole # None /\ n > hole
    <3>1. n > Head(live).after
      BY <1>2, <1>3, <1>8, <2>2 DEF Sent
    <3>2. QED
      BY <2>2, <3>1 DEF Pending
  <2>3. CASE \E m \in 1 .. Len(live') : /\ live'[m].t = "gap" /\ live'[m].after < n
                                        /\ n < live'[m].next /\ Queued(live', live'[m].next)
    <3>1. PICK m \in 1 .. Len(live') : /\ live'[m].t = "gap" /\ live'[m].after < n
                                       /\ n < live'[m].next /\ Queued(live', live'[m].next)
      BY <2>3
    <3>2. Head(live).next <= live'[m].after
      BY <1>1, <1>3, <1>7, <3>1 DEF Precedes
    <3>3. live'[m].after \in Nat
      BY <1>4, DeliveryFields
    <3>4. n > Head(live).after
      BY <1>3, <1>8, <3>1, <3>2, <3>3
    <3>5. Pending(n)
      BY <1>7, <1>9, <3>1 DEF Pending
    <3>6. QED
      BY <3>4, <3>5
  <2>4. QED
    BY <1>1, <1>10, <2>1, <2>2, <2>3 DEF Pending
<1>11. walk' # None
  <2>1. walk' \in Walks
    BY <1>2, <1>3 DEF ReadGap, WalkFrom, Walks
  <2>2. QED
    BY <2>1, TranscriptAssumption
<1>12. PendingAhead'
  <2> SUFFICES ASSUME NEW n \in 1 .. Len(log), Open(n)', Pending(n)'
               PROVE  n > Head(live).after /\ n > s.cursor
    BY <1>1, <1>11 DEF PendingAhead
  <2>1. Open(n)
    BY <1>1 DEF Open
  <2>2. QED
    BY <1>1, <1>10, <2>1 DEF Orderly, PendingAhead
<1>13. WalkCursor'
  BY <1>1, <1>2 DEF WalkCursor
<1>14. QED
  BY <1>5, <1>6, <1>12, <1>13 DEF Orderly

LEMMA WalkPageOrderly ==
  ASSUME IInv, Trust, Orderly, WalkPage
  PROVE  Orderly'
<1>1. walk # None /\ UNCHANGED <<log, live, hole>>
  BY DEF WalkPage
<1>2. Keeps(s, s') /\ (RefillEnds \/ RefillGoesOn)
  BY WalkPageRefills
<1>3. /\ log \in Seq(Events) /\ s.cursor \in Nat /\ walk.live \in Nat /\ walk.after \in Nat
      /\ walk.cursor \in Nat /\ walk.next \in Nat
  BY <1>1, EarlyFacts
<1>4. Sent' = Sent
  BY <1>1 DEF Sent
<1>5. ASSUME NEW n \in 1 .. Len(log), Open(n)', Pending(n)'
      PROVE  /\ Open(n) /\ n > walk.after /\ n > walk.live /\ n > walk.cursor
  <2>1. Open(n) /\ Pending(n)
    BY <1>1, <1>2, <1>3, <1>5, OpenStays DEF Pending
  <2>2. n > walk.after /\ n > walk.live
    BY <1>1, <2>1 DEF Orderly, PendingAhead
  <2>3. ~(n <= walk.cursor)
    BY <1>1, <2>1, <2>2 DEF Trust, WalkDone, Open
  <2>4. QED
    BY <1>3, <2>1, <2>2, <2>3
<1>6. s.cursor <= walk.live \/ s.cursor <= walk.cursor
  BY <1>1 DEF Orderly, WalkCursor
<1>7. CASE RefillGoesOn
  <2>1. /\ walk' # None /\ walk'.after = walk.after /\ walk'.live = walk.live
        /\ walk'.cursor \in 1 .. Len(log) /\ walk'.cursor > walk.cursor
        /\ s'.cursor = s.cursor \/ s'.cursor <= walk'.cursor
    BY <1>7 DEF RefillGoesOn
  <2>2. PendingAhead'
    BY <1>1, <1>5, <2>1 DEF PendingAhead
  <2>3. WalkCursor'
    BY <1>3, <1>6, <2>1 DEF WalkCursor
  <2>4. QED
    BY <1>1, <1>4, <2>2, <2>3 DEF Orderly
<1>8. CASE RefillEnds
  <2>1. /\ walk' = None /\ SettledIn(s', walk.cursor, walk.next)
        /\ \/ SettledIn(s', walk.cursor, Len(log) + 1)
           \/ s'.cursor = walk.live \/ s'.cursor = s.cursor \/ s'.cursor < walk.next
    BY <1>8 DEF RefillEnds
  <2>2. s'.cursor \in Nat
    <3>1. IInv'
      BY WalkPageStep
    <3>2. QED
      BY <3>1 DEF IInv, BookOK
  <2>3. ASSUME NEW n \in 1 .. Len(log), Open(n)', Pending(n)' PROVE n > s'.cursor
    <3>1. n > walk.live /\ n > walk.cursor /\ n < Len(log) + 1
      BY <1>5, <2>3
    <3>2. ~Settled(s', log[n].item) /\ log[n].what = "completed"
      BY <1>1, <2>3 DEF Open
    <3>3. ~(n < walk.next)
      BY <2>1, <3>1, <3>2 DEF SettledIn
    <3>4. ~SettledIn(s', walk.cursor, Len(log) + 1)
      BY <3>1, <3>2 DEF SettledIn
    <3>5. n \in Nat
      OBVIOUS
    <3>6. CASE s'.cursor = s.cursor
      BY <1>3, <1>6, <3>1, <3>5, <3>6
    <3>7. CASE s'.cursor < walk.next
      BY <1>3, <2>2, <3>3, <3>5, <3>7
    <3>8. QED
      BY <2>1, <3>1, <3>4, <3>6, <3>7
  <2>4. PendingAhead'
    BY <1>1, <2>1, <2>3 DEF PendingAhead
  <2>5. QED
    BY <1>1, <1>4, <2>1, <2>4 DEF Orderly, WalkCursor
<1>9. QED
  BY <1>2, <1>7, <1>8

LEMMA LoadOrderly ==
  ASSUME IInv, Trust, Load
  PROVE  Orderly'
<1>1. live' = <<>> /\ walk' = None /\ log' = log
  BY DEF Load
<1>2. \A k \in 1 .. Len(log) : log[k].what = "completed" => Settled(s', log[k].item)
  BY LoadTrust
<1>3. PendingAhead'
  BY <1>1, <1>2 DEF PendingAhead, Open
<1>4. QED
  BY <1>1, <1>3 DEF Orderly, InOrder, Within, WalkCursor

-----------------------------------------------------------------------------
(* Nothing is lost until a second crash: the invariant.                     *)

Complete == IInv /\ Trust /\ OpenComing /\ Early

LEMMA EarlyIs == Early <=> (crashes = 0 => Orderly)
BY DEF Early, Orderly

\* A step while the process is up and no crash has happened keeps the order.
LEMMA EarlyKept ==
  ASSUME crashes' = crashes, crashes = 0 => Orderly'
  PROVE  Early'
BY DEF Early, Orderly

\* Down after a crash: the order is no longer claimed.
LEMMA EarlyOver ==
  ASSUME Trust, ~up, crashes' = crashes
  PROVE  Early'
BY DEF Early, Trust, Down

LEMMA CompleteInit ==
  ASSUME Init
  PROVE  Complete
<1>1. IInv
  BY IInvInit
<1>2. /\ log = <<>> /\ hole = None /\ live = <<>> /\ up = TRUE /\ walk = None /\ excused = FALSE
  BY DEF Init
<1>3. Len(log) = 0 /\ Len(live) = 0 /\ 1 .. 0 = {}
  BY <1>2
<1>4. Honest(s)
  BY <1>3 DEF Honest
<1>5. Trust
  BY <1>2, <1>3, <1>4 DEF Trust, WalkDone, GapsInside, Down
<1>6. OpenComing
  BY <1>3 DEF OpenComing
<1>7. Early
  BY <1>2, <1>3 DEF Early, InOrder, Within, PendingAhead, WalkCursor
<1>8. QED
  BY <1>1, <1>5, <1>6, <1>7 DEF Complete

LEMMA WalkFailsComplete ==
  ASSUME Complete, WalkFails
  PROVE  Complete'
<1>1. IInv /\ Trust /\ ~up /\ excused' = TRUE /\ crashes' = crashes
  BY DEF Complete, WalkFails
<1>2. IInv' /\ Trust'
  BY <1>1, WalkFailsStep, WalkFailsTrust
<1>3. OpenComing'
  BY <1>1 DEF OpenComing
<1>4. Early'
  BY <1>1, EarlyOver
<1>5. QED
  BY <1>2, <1>3, <1>4 DEF Complete

\* The only step that needs the bound: a second crash may cut off a suffix whose
\* events the cursor has already passed.
LEMMA HostCrashComplete ==
  ASSUME crashes' <= 1, Complete, HostCrash
  PROVE  Complete'
<1>1. IInv /\ Trust /\ OpenComing /\ Early
  BY DEF Complete
<1>2. crashes = 0 /\ crashes' = 1
  <2>1. crashes \in 0 .. MaxCrashes /\ crashes' = crashes + 1
    BY <1>1 DEF IInv, RestType, HostCrash
  <2>2. MaxCrashes \in Nat
    BY TranscriptAssumption
  <2>3. QED
    BY <2>1, <2>2
<1>3. IInv' /\ Trust'
  BY <1>1, HostCrashStep, HostCrashTrust
<1>4. OpenComing'
  BY <1>1, <1>2, HostCrashComing
<1>5. Early'
  BY <1>2 DEF Early
<1>6. QED
  BY <1>3, <1>4, <1>5 DEF Complete

LEMMA CompleteStutters ==
  ASSUME Complete, UNCHANGED vars
  PROVE  Complete'
<1>1. IInv'
  BY IInvStep DEF Complete
<1>2. Trust'
  BY DEF Complete, vars, Trust, Honest, Settled, WalkDone, GapsInside, Down
<1>3. OpenComing'
  BY DEF Complete, vars, OpenComing, Open, Settled, Coming, Doomed, HasGap, ReadTo
<1>4. Early'
  BY DEF Complete, vars, Early, Sent, PendingAhead, Open, Settled, Pending, WalkCursor
<1>5. QED
  BY <1>1, <1>2, <1>3, <1>4 DEF Complete

LEMMA CompleteStep ==
  ASSUME crashes' <= 1, Complete, [Next]_vars
  PROVE  Complete'
<1>0. IInv /\ Trust /\ OpenComing /\ (crashes = 0 => Orderly)
  BY EarlyIs DEF Complete
<1>1. CASE HostEmit
  <2>1. crashes' = crashes
    BY <1>1 DEF HostEmit
  <2>2. QED
    BY <1>0, <1>1, <2>1, HostEmitStep, HostEmitTrust, HostEmitComing, HostEmitOrderly, EarlyKept
    DEF Complete
<1>2. CASE HostDrop
  <2>1. crashes' = crashes
    BY <1>2 DEF HostDrop
  <2>2. QED
    BY <1>0, <1>2, <2>1, HostDropStep, HostDropTrust, HostDropComing, HostDropOrderly, EarlyKept
    DEF Complete
<1>3. CASE HostCrash
  BY <1>3, HostCrashComplete
<1>4. CASE ReadEvent
  <2>1. crashes' = crashes
    BY <1>4 DEF ReadEvent
  <2>2. IInv'
    BY <1>0, <1>4, IInvStep DEF Next
  <2>3. QED
    BY <1>0, <1>4, <2>1, <2>2, ReadEventTrust, ReadEventComing, ReadEventOrderly, EarlyKept
    DEF Complete
<1>5. CASE ReadGap
  <2>1. crashes' = crashes
    BY <1>5 DEF ReadGap
  <2>2. QED
    BY <1>0, <1>5, <2>1, ReadGapStep, ReadGapTrust, ReadGapComing, ReadGapOrderly, EarlyKept
    DEF Complete
<1>6. CASE WalkPage
  <2>1. crashes' = crashes
    BY <1>6 DEF WalkPage
  <2>2. IInv'
    BY <1>0, <1>6, IInvStep DEF Next
  <2>3. QED
    BY <1>0, <1>6, <2>1, <2>2, WalkPageTrust, WalkPageComing, WalkPageOrderly, EarlyKept
    DEF Complete
<1>7. CASE WalkFails
  BY <1>7, WalkFailsComplete
<1>8. CASE Reattach
  <2>1. crashes' = crashes /\ ~up
    BY <1>8 DEF Reattach
  <2>2. QED
    BY <1>0, <1>8, <2>1, ReattachStep, ReattachTrust, ReattachComing, EarlyOver DEF Complete
<1>9. CASE ReattachFails
  <2>1. crashes' = crashes /\ ~up
    BY <1>9 DEF ReattachFails
  <2>2. QED
    BY <1>0, <1>9, <2>1, ReattachFailsStep, ReattachFailsTrust, ReattachFailsComing, EarlyOver
    DEF Complete
<1>10. CASE Load
  <2>1. crashes' = crashes
    BY <1>10 DEF Load
  <2>2. QED
    BY <1>0, <1>10, <2>1, LoadStep, LoadTrust, LoadComing, LoadOrderly, EarlyKept DEF Complete
<1>11. CASE UNCHANGED vars
  BY <1>11, CompleteStutters
<1>12. QED
  BY <1>1, <1>2, <1>3, <1>4, <1>5, <1>6, <1>7, <1>8, <1>9, <1>10, <1>11 DEF Next

LEMMA CompleteNothingLost ==
  ASSUME Complete
  PROVE  NothingLost
<1> SUFFICES ASSUME Quiet, ~excused, NEW i \in Items, Has("completed", i), i \notin s.done
             PROVE  /\ \E n \in DOMAIN s.held : s.held[n].item = i
                    /\ Anchor[i] \in s.done => Anchor[Anchor[i]] # None
  BY DEF NothingLost
<1>1. /\ log \in Seq(Events) /\ s \in Sessions /\ HeldOK(s, {}, Tot, {})
      /\ s.held \in Seq(Frames) /\ OpenComing
  BY SessionFields DEF Complete, IInv, LogOK, Sound, Good
<1>2. PICK k \in 1 .. Len(log) : log[k].what = "completed" /\ log[k].item = i
  BY <1>1 DEF Has
<1>3. ~Coming(k)
  BY DEF Quiet, Coming, Queued, InGap, Doomed
<1>4. Settled(s, i)
  BY <1>1, <1>2, <1>3 DEF OpenComing, Open
<1>5. PICK y \in Range(s.held) : y.item = i
  BY <1>4 DEF Settled
<1>6. PICK n \in DOMAIN s.held : s.held[n] = y
  BY <1>5 DEF Range
<1>7. Anchor[i] \in s.done => Anchor[Anchor[i]] # None
  BY <1>1, <1>5 DEF HeldOK
<1>8. QED
  BY <1>5, <1>6, <1>7

LEMMA CrashesGrow ==
  ASSUME IInv, [Next]_vars, crashes' <= 1
  PROVE  crashes <= 1
<1>1. crashes \in Nat
  BY TranscriptAssumption DEF IInv, RestType
<1>2. crashes' = crashes \/ crashes' = crashes + 1
  BY DEF Next, vars, HostEmit, HostDrop, HostCrash, ReadEvent, ReadGap, WalkPage, WalkFails, Reattach,
         ReattachFails, Load
<1>3. QED
  BY <1>1, <1>2

\* Until the host has crashed twice, every item it completed is settled or waits for its
\* anchor once delivery has caught up, whatever holes, refills, re-attachments and replays
\* came together (handle_msp with its view/gap arm,
\* reattach_view, replay_history).
THEOREM NothingLostHolds == Spec => [](crashes <= 1 => NothingLost)
<1> DEFINE Inv == IInv /\ (crashes <= 1 => Complete)
<1>1. Init => Inv
  BY CompleteInit, IInvInit
<1>2. Inv /\ [Next]_vars => Inv'
  <2> SUFFICES ASSUME Inv, [Next]_vars PROVE Inv'
    OBVIOUS
  <2>1. IInv'
    BY IInvStep
  <2>2. ASSUME crashes' <= 1 PROVE Complete'
    BY <2>2, CrashesGrow, CompleteStep
  <2>3. QED
    BY <2>1, <2>2
<1>3. Inv => (crashes <= 1 => NothingLost)
  BY CompleteNothingLost
<1>4. QED
  BY <1>1, <1>2, <1>3, PTL DEF Spec
=============================================================================
