------------------------------ MODULE HostsProofs ------------------------------
(* Theorems about Hosts, for any sessions, restart budget and number of       *)
(* processes, exits, moves and deletes.                                       *)
EXTENDS Hosts, SequenceTheorems, TLAPS

USE HostsAssumption

-----------------------------------------------------------------------------
(* The inductive invariant.                                                  *)

Said(q) == {q[i] : i \in DOMAIN q}
Closed == [m |-> "closed"]
Outcome(e) == e.m # "closed"

\* The exit of the process of this kind was read, and its restart has begun.
Handled(k) == loop.at = "launch" /\ loop.kind = k /\ loop.moving = "none"

\* Every process that is not dead is in the slot of its kind; what a slot holds
\* before a launch is dead; a process that ended has said so, and the loop has
\* not read it yet unless it is restarting that kind.
SlotKind == \A k \in Kinds : slot[k] # 0 => proc[slot[k]].kind = k
LaunchFree == loop.at = "launch" => slot[loop.kind] = 0 \/ proc[slot[loop.kind]].st = "dead"
Exits ==
    /\ \A p \in DOMAIN proc : Closed \in Said(out[p]) => proc[p].st # "up"
    /\ \A k \in Kinds : slot[k] # 0 /\ proc[slot[k]].st # "up" /\ ~Handled(k) /\ loop.at # "gone"
                           => Closed \in Said(out[slot[k]])
\* One outcome of a delete of a session is unread at a time.
Once(q) == \A i, j \in DOMAIN q : Outcome(q[i]) /\ Outcome(q[j]) /\ q[i].s = q[j].s => i = j
Single == \A p \in DOMAIN proc : Once(out[p])
Tracked == SlotKind /\ NoLeakedHost /\ LaunchFree /\ Exits /\ Single
Holders == \A s \in Sessions : loaded[s] # 0 => proc[loaded[s]].st # "dead"

\* An unread outcome is of a delete that waits for this process.
Outcomes ==
    \A p \in DOMAIN proc : IsCurrent(p) /\ ~Handled(proc[p].kind) =>
       \A e \in Said(out[p]) : Outcome(e) => pending[e.s] = p
\* A delete waits for a process that is current and not being replaced, or was
\* shut down by a move.
Deletes ==
    \A s \in Sessions : pending[s] # 0 =>
        /\ \/ pending[s] \in retired
           \/ IsCurrent(pending[s]) /\ ~(loop.at = "launch" /\ loop.kind = proc[pending[s]].kind)
        /\ owner[s] = "none" => proc[pending[s]].kind = "main"
Unborn ==
    \A s \in Sessions : disk[s] = "none" =>
        owner[s] = "none" /\ loaded[s] = 0 /\ s \notin open /\ pending[s] = 0
Answerable == Outcomes /\ Deletes /\ Unborn

\* The owner of an open session is the host that enforces its mode; a session
\* that moves is held by nobody, and has changed its owner but not its mode.
Moving ==
    /\ loop.at \in {"idle", "gone"} => loop.moving = "none"
    /\ loop.at \in {"open", "back"} => loop.moving # "none"
    /\ loop.moving # "none" =>
        /\ loop.moving \in open /\ loaded[loop.moving] = 0
        /\ HostForMode(loop.target) # loop.kind /\ HostForMode(mode[loop.moving]) = loop.kind
Places ==
    \A s \in open :
        Owner(s) = HostForMode(IF loop.at = "open" /\ s = loop.moving THEN loop.target ELSE mode[s])
Attaching ==
    loop.at = "attach" => slot[loop.kind] # 0 /\ loop.todo \subseteq Owned(loop.kind) \ {loop.moving}
Placement == Moving /\ Places /\ Attaching /\ ModeIsEnforced

\* A session is held, or its loss is on the way, or the loop still has to attach it.
Held(s) ==
    LET p == slot[Owner(s)]
    IN  p # 0 /\ (loaded[s] = p \/ Closed \in Said(out[p]) \/ [m |-> "deleted", s |-> s] \in Said(out[p]))
Waits(s) ==
    \/ loop.at = "launch" /\ Owner(s) = loop.kind
    \/ loop.at = "attach" /\ s \in loop.todo
    \/ s = loop.moving
Kept ==
    /\ \A s \in open \ lost : Waits(s) \/ Held(s)
    /\ loop.at = "launch" /\ loop.moving # "none" /\ slot[loop.kind] = 0 => Owned(loop.kind) \subseteq lost

\* What was abandoned has no work and no host; a session to attach has no host yet, and
\* one that moves has no work.
Abandoned ==
    /\ \A s \in lost : s \notin busy /\ loaded[s] = 0
    /\ loop.at = "attach" => \A s \in loop.todo : loaded[s] = 0
    /\ loop.moving \notin busy

-----------------------------------------------------------------------------
(* Sequences of processes and of events.                                     *)

LEMMA SeqOfFunction ==
    ASSUME NEW S, NEW n \in Nat, NEW f \in [1..n -> S]
    PROVE  f \in Seq(S) /\ Len(f) = n /\ DOMAIN f = 1..n
BY SeqDef

LEMMA Slots ==
    ASSUME ProcsOK
    PROVE  /\ DOMAIN proc = 1..Len(proc) /\ Len(proc) \in Nat /\ DOMAIN out = DOMAIN proc
           /\ 0 \notin DOMAIN proc
           /\ \A p \in DOMAIN proc : /\ proc[p] \in Processes /\ proc[p].kind \in Kinds
                                     /\ proc[p].st \in {"up", "exited", "dead"}
                                     /\ out[p] \in Seq(Events)
           /\ \A k \in Kinds : slot[k] \in DOMAIN proc \cup {0}
           /\ slot["main"] \in DOMAIN proc /\ DOMAIN slot = Kinds
<1>1. DOMAIN proc = 1..Len(proc) /\ Len(proc) \in Nat /\ DOMAIN out = DOMAIN proc
  BY DEF ProcsOK
<1>2. \A p \in DOMAIN proc : /\ proc[p] \in Processes /\ out[p] \in Seq(Events)
  BY <1>1 DEF ProcsOK
<1>3. slot["main"] \in DOMAIN proc /\ DOMAIN slot = Kinds /\ slot["ro"] \in DOMAIN proc \cup {0}
  BY DEF ProcsOK, Kinds
<1>4. QED
  BY <1>1, <1>2, <1>3 DEF Processes, Kinds

\* A process is launched: the others, and what they have said, stay.
LEMMA Launches ==
    ASSUME ProcsOK, NEW k \in Kinds, NEW p, Launch(k, p)
    PROVE  /\ proc' \in Seq(Processes) /\ out' \in Seq(Seq(Events)) /\ Len(out') = Len(proc')
           /\ slot' \in [main : DOMAIN proc', ro : DOMAIN proc' \cup {0}]
           /\ p \notin DOMAIN proc /\ p # 0 /\ DOMAIN proc' = DOMAIN proc \cup {p}
           /\ \A q \in DOMAIN proc : proc'[q] = proc[q] /\ out'[q] = out[q]
           /\ proc'[p].kind = k /\ proc'[p].st = "up" /\ out'[p] = <<>>
           /\ slot'[k] = p /\ \A j \in Kinds : j # k => slot'[j] = slot[j]
<1> DEFINE e == [kind |-> k, st |-> "up"]
<1>1. e \in Processes /\ e.kind = k /\ e.st = "up"
  BY DEF Processes
<1>2. /\ p = Len(proc) + 1 /\ proc' = Append(proc, e) /\ out' = Append(out, <<>>)
      /\ slot' = [slot EXCEPT ![k] = p]
  BY DEF Launch
<1> HIDE DEF e
<1>3. /\ proc' \in Seq(Processes) /\ Len(proc') = Len(proc) + 1 /\ DOMAIN proc' = DOMAIN proc \cup {p}
      /\ \A q \in DOMAIN proc : proc'[q] = proc[q]
      /\ proc'[p] = e /\ p \notin DOMAIN proc /\ p # 0
  BY SMTT(30), <1>1, <1>2 DEF ProcsOK
<1>4. /\ out' \in Seq(Seq(Events)) /\ Len(out') = Len(out) + 1
      /\ \A q \in DOMAIN out : out'[q] = out[q]
      /\ out'[p] = <<>>
  <2>1. out \in Seq(Seq(Events)) /\ <<>> \in Seq(Events) /\ p = Len(out) + 1
    BY <1>2 DEF ProcsOK
  <2>2. QED
    BY <1>2, <2>1, AppendProperties
<1>5. /\ slot' \in [main : DOMAIN proc', ro : DOMAIN proc' \cup {0}]
      /\ slot'[k] = p /\ \A j \in Kinds : j # k => slot'[j] = slot[j]
  BY <1>2, <1>3 DEF ProcsOK, Kinds
<1>6. QED
  BY <1>1, <1>3, <1>4, <1>5, Slots DEF ProcsOK

\* What a process said, and one event more.
LEMMA Says ==
    ASSUME NEW q \in Seq(Events), NEW e \in Events
    PROVE  /\ Append(q, e) \in Seq(Events)
           /\ Said(Append(q, e)) = Said(q) \cup {e}
           /\ Once(q) /\ (Outcome(e) => \A d \in Said(q) : Outcome(d) => d.s # e.s) => Once(Append(q, e))
<1> DEFINE r == Append(q, e)
<1>1. /\ Len(q) \in Nat /\ DOMAIN q = 1..Len(q)
      /\ r \in Seq(Events) /\ DOMAIN r = 1..Len(q) + 1
      /\ r[Len(q) + 1] = e /\ \A i \in DOMAIN q : r[i] = q[i]
  OBVIOUS
<1> HIDE DEF r
<1>2. DOMAIN r = DOMAIN q \cup {Len(q) + 1} /\ Len(q) + 1 \notin DOMAIN q
  BY <1>1
<1>3. Said(r) = Said(q) \cup {e}
  BY SMTT(30), <1>1, <1>2 DEF Said
<1>4. ASSUME Once(q), Outcome(e) => \A d \in Said(q) : Outcome(d) => d.s # e.s PROVE Once(r)
  <2>1. \A i \in DOMAIN q : Outcome(e) /\ Outcome(q[i]) => q[i].s # e.s
    BY <1>4 DEF Said
  <2>2. QED
    BY <1>1, <1>2, <1>4, <2>1 DEF Once
<1>5. QED
  BY <1>1, <1>3, <1>4 DEF r

\* The loop takes the first event.
LEMMA Takes ==
    ASSUME NEW q \in Seq(Events), q # <<>>
    PROVE  /\ Head(q) \in Events /\ Tail(q) \in Seq(Events)
           /\ Said(q) = Said(Tail(q)) \cup {Head(q)}
           /\ Once(q) => Once(Tail(q))
           /\ Once(q) /\ Outcome(Head(q)) => \A d \in Said(Tail(q)) : Outcome(d) => d.s # Head(q).s
<1> DEFINE r == Tail(q)
<1>1. /\ Len(q) \in Nat /\ Len(q) >= 1 /\ DOMAIN q = 1..Len(q) /\ Head(q) = q[1] /\ q[1] \in Events
      /\ r \in Seq(Events) /\ DOMAIN r = 1..Len(q) - 1
      /\ \A i \in 1..Len(q) - 1 : r[i] = q[i + 1]
  <2>1. Len(q) \in Nat /\ Len(q) >= 1 /\ DOMAIN q = 1..Len(q) /\ Head(q) = q[1]
    BY EmptySeq
  <2>2. QED
    BY <2>1, HeadTailProperties, LenProperties
<1> HIDE DEF r
<1>2. \A i \in DOMAIN q : i = 1 \/ (i - 1 \in DOMAIN r /\ r[i - 1] = q[i])
  BY <1>1
<1>3. \A i \in DOMAIN r : i + 1 \in DOMAIN q /\ r[i] = q[i + 1] /\ i + 1 # 1 /\ i \in Int
  BY <1>1
<1>4. 1 \in DOMAIN q
  BY <1>1
<1>5. Said(q) = Said(r) \cup {q[1]}
  <2>1. \A d \in Said(q) : d = q[1] \/ d \in Said(r)
    BY <1>2 DEF Said
  <2>2. \A d \in Said(r) : d \in Said(q)
    BY <1>3 DEF Said
  <2>3. q[1] \in Said(q)
    BY <1>4 DEF Said
  <2>4. QED
    BY <2>1, <2>2, <2>3
<1>6. ASSUME Once(q) PROVE Once(r)
  <2>1. ASSUME NEW i \in DOMAIN r, NEW j \in DOMAIN r, Outcome(r[i]), Outcome(r[j]), r[i].s = r[j].s PROVE i = j
    <3>1. i + 1 = j + 1
      BY <1>3, <1>6, <2>1 DEF Once
    <3>2. QED
      BY <1>3, <3>1
  <2>2. QED
    BY <2>1 DEF Once
<1>7. ASSUME Once(q), Outcome(q[1]) PROVE \A d \in Said(r) : Outcome(d) => d.s # q[1].s
  BY <1>3, <1>4, <1>7 DEF Said, Once
<1>8. QED
  BY <1>1, <1>5, <1>6, <1>7 DEF r

LEMMA Silence == <<>> \in Seq(Events) /\ Said(<<>>) = {} /\ Once(<<>>)
BY DEF Said, Once

\* Some processes are shut down.
LEMMA Stops ==
    ASSUME ProcsOK, NEW P
    PROVE  /\ Stopped(P) \in Seq(Processes) /\ Len(Stopped(P)) = Len(proc) /\ DOMAIN Stopped(P) = DOMAIN proc
           /\ \A p \in DOMAIN proc : /\ Stopped(P)[p].kind = proc[p].kind
                                     /\ p \in P => Stopped(P)[p].st = "dead"
                                     /\ p \notin P => Stopped(P)[p] = proc[p]
<1>1. DOMAIN proc = 1..Len(proc) /\ Len(proc) \in Nat /\ \A p \in DOMAIN proc : proc[p] \in Processes
  BY Slots
<1>2. Stopped(P) \in [1..Len(proc) -> Processes]
  BY <1>1 DEF Stopped, Processes
<1>3. \A p \in DOMAIN proc : /\ Stopped(P)[p].kind = proc[p].kind
                             /\ p \in P => Stopped(P)[p].st = "dead"
                             /\ p \notin P => Stopped(P)[p] = proc[p]
  BY <1>1 DEF Stopped, Processes
<1>4. Stopped(P) \in Seq(Processes) /\ Len(Stopped(P)) = Len(proc) /\ DOMAIN Stopped(P) = DOMAIN proc
  BY <1>1, <1>2, SeqOfFunction
<1>5. QED
  BY <1>3, <1>4

LEMMA StopsSay ==
    ASSUME ProcsOK, NEW P
    PROVE  /\ StoppedOut(P) \in Seq(Seq(Events)) /\ Len(StoppedOut(P)) = Len(proc)
           /\ DOMAIN StoppedOut(P) = DOMAIN proc
           /\ \A p \in DOMAIN proc :
                /\ p \in P /\ proc[p].st = "up" => Said(StoppedOut(P)[p]) = Said(out[p]) \cup {Closed}
                /\ p \notin P \/ proc[p].st # "up" => StoppedOut(P)[p] = out[p]
                /\ Once(out[p]) => Once(StoppedOut(P)[p])
<1>1. DOMAIN out = 1..Len(proc) /\ DOMAIN proc = 1..Len(proc) /\ Len(proc) \in Nat
      /\ \A p \in DOMAIN proc : out[p] \in Seq(Events)
  BY Slots
<1>2. Closed \in Events /\ ~Outcome(Closed)
  BY DEF Closed, Events, Outcome
<1>3. \A p \in DOMAIN proc : StoppedOut(P)[p] = IF p \in P /\ proc[p].st = "up" THEN Append(out[p], Closed) ELSE out[p]
  BY <1>1 DEF StoppedOut, Closed
<1>4. DOMAIN StoppedOut(P) = 1..Len(proc)
  BY <1>1 DEF StoppedOut
<1>5. ASSUME NEW p \in DOMAIN proc
      PROVE  /\ StoppedOut(P)[p] \in Seq(Events)
             /\ p \in P /\ proc[p].st = "up" => Said(StoppedOut(P)[p]) = Said(out[p]) \cup {Closed}
             /\ p \notin P \/ proc[p].st # "up" => StoppedOut(P)[p] = out[p]
             /\ Once(out[p]) => Once(StoppedOut(P)[p])
  <2>1. out[p] \in Seq(Events)
    BY <1>1
  <2>2. CASE p \in P /\ proc[p].st = "up"
    <3>1. StoppedOut(P)[p] = Append(out[p], Closed)
      BY <1>3, <2>2
    <3>2. QED
      BY <1>2, <2>1, <2>2, <3>1, Says
  <2>3. CASE ~(p \in P /\ proc[p].st = "up")
    <3>1. StoppedOut(P)[p] = out[p]
      BY <1>3, <2>3
    <3>2. QED
      BY <2>1, <2>3, <3>1
  <2>4. QED
    BY <2>2, <2>3
<1>6. StoppedOut(P) \in [1..Len(proc) -> Seq(Events)]
  <2>1. StoppedOut(P) = [p \in 1..Len(proc) |-> StoppedOut(P)[p]]
    BY <1>1 DEF StoppedOut
  <2>2. QED
    BY <1>1, <1>5, <2>1
<1>7. StoppedOut(P) \in Seq(Seq(Events)) /\ Len(StoppedOut(P)) = Len(proc)
  BY <1>1, <1>6, SeqOfFunction
<1>8. QED
  BY <1>1, <1>4, <1>5, <1>7
-----------------------------------------------------------------------------
(* The shapes of the steps.                                                  *)

Lists ==
    /\ proc \in Seq(Processes)
    /\ out \in Seq(Seq(Events)) /\ Len(out) = Len(proc)
    /\ slot \in [main : DOMAIN proc, ro : DOMAIN proc \cup {0}]

\* Nothing happens to the processes, or one is started in an empty slot.
Grown ==
    /\ Lists'
    /\ DOMAIN proc \subseteq DOMAIN proc'
    /\ \A q \in DOMAIN proc : proc'[q] = proc[q] /\ out'[q] = out[q]
    /\ \A k \in Kinds : slot[k] # 0 => slot'[k] = slot[k]
    /\ \A k \in Kinds : \/ slot'[k] = slot[k]
                        \/ slot'[k] \in DOMAIN proc' \ DOMAIN proc /\ proc'[slot'[k]].kind = k
    /\ \A q \in DOMAIN proc' \ DOMAIN proc :
          /\ proc'[q].kind \in Kinds /\ proc'[q].st = "up" /\ out'[q] = <<>>
          /\ slot[proc'[q].kind] = 0 /\ slot'[proc'[q].kind] = q

LEMMA Stays ==
    ASSUME ProcsOK, UNCHANGED <<proc, out, slot>>
    PROVE  Grown
BY DEF Grown, Lists, ProcsOK

LEMMA Routes ==
    ASSUME ProcsOK, SlotKind, NEW k \in Kinds, NEW p, Routed(k, p)
    PROVE  Grown /\ slot'[k] = p /\ p \in DOMAIN proc' /\ p # 0 /\ proc'[p].kind = k
<1>1. CASE slot[k] # 0 /\ p = slot[k] /\ UNCHANGED <<proc, out, slot>>
  <2>1. p \in DOMAIN proc /\ proc[p].kind = k
    BY <1>1, Slots DEF SlotKind
  <2>2. QED
    BY <1>1, <2>1, Stays
<1>2. CASE slot[k] = 0 /\ Launch(k, p)
  <2>1. /\ proc' \in Seq(Processes) /\ out' \in Seq(Seq(Events)) /\ Len(out') = Len(proc')
        /\ slot' \in [main : DOMAIN proc', ro : DOMAIN proc' \cup {0}]
    BY <1>2, Launches
  <2>2. /\ p \notin DOMAIN proc /\ p # 0 /\ DOMAIN proc' = DOMAIN proc \cup {p}
        /\ \A q \in DOMAIN proc : proc'[q] = proc[q] /\ out'[q] = out[q]
        /\ proc'[p].kind = k /\ proc'[p].st = "up" /\ out'[p] = <<>>
    BY <1>2, Launches
  <2>3. slot'[k] = p /\ \A j \in Kinds : j # k => slot'[j] = slot[j]
    BY <1>2, Launches
  <2>4. Lists'
    BY <2>1 DEF Lists
  <2>5. QED
    BY <1>2, <2>2, <2>3, <2>4 DEF Grown
<1>3. QED
  BY <1>1, <1>2 DEF Routed

Starts(s) == Owner(s) = "main" /\ slot["ro"] = 0
Others(s) == Owned(Owner(s)) \ {s}

LEMMA Kindred == \A s \in Sessions : SessionsOK => Owner(s) \in Kinds
BY DEF SessionsOK, Owner, Kinds

\* What a move does to the processes before it launches one.
LEMMA Moves ==
    ASSUME ProcsOK, SessionsOK, NEW s \in Sessions, NEW m \in Modes, MoveSession(s, m)
    PROVE  /\ Lists'
           /\ DOMAIN proc \subseteq DOMAIN proc'
           /\ \A q \in DOMAIN proc :
                 /\ proc'[q].kind = proc[q].kind
                 /\ q = slot[Owner(s)] => proc'[q].st = "dead"
                 /\ q = slot[Owner(s)] /\ proc[q].st = "up" => Said(out'[q]) = Said(out[q]) \cup {Closed}
                 /\ q # slot[Owner(s)] => proc'[q] = proc[q]
                 /\ q # slot[Owner(s)] \/ proc[q].st # "up" => out'[q] = out[q]
                 /\ Once(out[q]) => Once(out'[q])
           /\ \A q \in DOMAIN proc' \ DOMAIN proc :
                 Starts(s) /\ proc'[q].kind = "ro" /\ proc'[q].st = "up" /\ out'[q] = <<>> /\ slot'["ro"] = q
           /\ slot'["main"] = slot["main"]
           /\ slot'["ro"] = slot["ro"] \/ slot'["ro"] \in DOMAIN proc' \ DOMAIN proc
                \/ (slot'["ro"] = 0 /\ Owner(s) = "ro" /\ Others(s) = {})
           /\ Owner(s) = "ro" /\ Others(s) # {} => slot'["ro"] = slot["ro"]
           /\ Starts(s) => slot'["ro"] \in DOMAIN proc' \ DOMAIN proc
<1> DEFINE old == {slot[Owner(s)]} \ {0}
           e == [kind |-> "ro", st |-> "up"]
           np == IF Starts(s) THEN <<e>> ELSE <<>>
           no == IF Starts(s) THEN << <<>> >> ELSE <<>>
           a == Stopped(old)
           b == StoppedOut(old)
<1>1. /\ proc' = a \o np /\ out' = b \o no
      /\ slot' = IF Owner(s) = "main" \/ Others(s) # {}
                 THEN IF Starts(s) THEN [slot EXCEPT !["ro"] = Len(proc) + 1] ELSE slot
                 ELSE [slot EXCEPT !["ro"] = 0]
  BY DEF MoveSession, Starts, Others
<1>2. /\ Owner(s) \in Kinds /\ slot[Owner(s)] \in DOMAIN proc \cup {0} /\ 0 \notin DOMAIN proc
      /\ DOMAIN proc = 1..Len(proc) /\ Len(proc) \in Nat /\ slot["main"] \in DOMAIN proc
  BY Kindred, Slots
<1>3. /\ a \in Seq(Processes) /\ Len(a) = Len(proc) /\ DOMAIN a = DOMAIN proc
      /\ \A p \in DOMAIN proc : /\ a[p].kind = proc[p].kind
                                /\ p \in old => a[p].st = "dead"
                                /\ p \notin old => a[p] = proc[p]
  BY Stops
<1>4. /\ b \in Seq(Seq(Events)) /\ Len(b) = Len(proc) /\ DOMAIN b = DOMAIN proc
      /\ \A p \in DOMAIN proc :
           /\ p \in old /\ proc[p].st = "up" => Said(b[p]) = Said(out[p]) \cup {Closed}
           /\ p \notin old \/ proc[p].st # "up" => b[p] = out[p]
           /\ Once(out[p]) => Once(b[p])
  BY StopsSay
<1>5. e \in Processes /\ e.kind = "ro" /\ e.st = "up" /\ <<>> \in Seq(Events)
  BY DEF Processes, Kinds
<1>6. \A q \in DOMAIN proc : q \in old <=> q = slot[Owner(s)]
  BY <1>2
<1> HIDE DEF old, e, a, b
<1>7. CASE Starts(s)
  <2>1. proc' = a \o <<e>> /\ out' = b \o << <<>> >> /\ slot' = [slot EXCEPT !["ro"] = Len(proc) + 1]
    BY <1>1, <1>7 DEF Starts
  <2>2. /\ proc' \in Seq(Processes) /\ Len(proc') = Len(proc) + 1 /\ DOMAIN proc' = DOMAIN proc \cup {Len(proc) + 1}
        /\ Len(proc) + 1 \notin DOMAIN proc /\ Len(proc) + 1 # 0
        /\ proc'[Len(proc) + 1] = e /\ \A q \in DOMAIN proc : proc'[q] = a[q]
    <3>1. proc' = Append(a, e)
      BY <1>3, <1>5, <2>1, AppendIsConcat
    <3>2. /\ proc' \in Seq(Processes) /\ Len(proc') = Len(proc) + 1
          /\ proc'[Len(proc) + 1] = e /\ \A q \in 1..Len(proc) : proc'[q] = a[q]
      BY <1>2, <1>3, <1>5, <3>1, AppendProperties
    <3>3. DOMAIN proc' = 1..Len(proc) + 1
      BY <3>2
    <3>4. QED
      BY <1>2, <3>2, <3>3
  <2>3. /\ out' \in Seq(Seq(Events)) /\ Len(out') = Len(proc) + 1
        /\ out'[Len(proc) + 1] = <<>> /\ \A q \in DOMAIN proc : out'[q] = b[q]
    <3>1. b \in Seq(Seq(Events)) /\ <<>> \in Seq(Events) /\ Len(b) = Len(proc) /\ Len(proc) \in Nat
      BY <1>2, <1>4, <1>5
    <3>2. out' = Append(b, <<>>)
      BY <2>1, <3>1, AppendIsConcat
    <3>3. QED
      BY <1>2, <3>1, <3>2, AppendProperties
  <2>4. /\ slot' \in [main : DOMAIN proc', ro : DOMAIN proc' \cup {0}]
        /\ slot'["main"] = slot["main"] /\ slot'["ro"] = Len(proc) + 1
    BY <2>1, <2>2 DEF ProcsOK
  <2>5. Lists'
    BY <2>2, <2>3, <2>4 DEF Lists
  <2>6. Owner(s) = "main"
    BY <1>7 DEF Starts
  <2>7. \A q \in DOMAIN proc :
              /\ proc'[q].kind = proc[q].kind
              /\ q = slot[Owner(s)] => proc'[q].st = "dead"
              /\ q = slot[Owner(s)] /\ proc[q].st = "up" => Said(out'[q]) = Said(out[q]) \cup {Closed}
              /\ q # slot[Owner(s)] => proc'[q] = proc[q]
              /\ q # slot[Owner(s)] \/ proc[q].st # "up" => out'[q] = out[q]
              /\ Once(out[q]) => Once(out'[q])
    <3> SUFFICES ASSUME NEW q \in DOMAIN proc
                 PROVE  /\ proc'[q].kind = proc[q].kind
                        /\ q = slot[Owner(s)] => proc'[q].st = "dead"
                        /\ q = slot[Owner(s)] /\ proc[q].st = "up" => Said(out'[q]) = Said(out[q]) \cup {Closed}
                        /\ q # slot[Owner(s)] => proc'[q] = proc[q]
                        /\ q # slot[Owner(s)] \/ proc[q].st # "up" => out'[q] = out[q]
                        /\ Once(out[q]) => Once(out'[q])
      OBVIOUS
    <3>1. proc'[q] = a[q] /\ out'[q] = b[q] /\ (q \in old <=> q = slot[Owner(s)])
      BY <1>6, <2>2, <2>3
    <3>2. /\ a[q].kind = proc[q].kind
          /\ q \in old => a[q].st = "dead"
          /\ q \notin old => a[q] = proc[q]
      BY <1>3
    <3>3. /\ q \in old /\ proc[q].st = "up" => Said(b[q]) = Said(out[q]) \cup {Closed}
          /\ q \notin old \/ proc[q].st # "up" => b[q] = out[q]
          /\ Once(out[q]) => Once(b[q])
      BY <1>4
    <3>4. QED
      BY <3>1, <3>2, <3>3
  <2>8. \A q \in DOMAIN proc' \ DOMAIN proc :
           proc'[q].kind = "ro" /\ proc'[q].st = "up" /\ out'[q] = <<>> /\ slot'["ro"] = q
    BY <1>5, <2>2, <2>3, <2>4
  <2>9. slot'["ro"] \in DOMAIN proc' \ DOMAIN proc
    BY <2>2, <2>4
  <2>10. QED
    BY <1>7, <2>2, <2>4, <2>5, <2>6, <2>7, <2>8, <2>9
<1>8. CASE ~Starts(s)
  <2>1. proc' = a /\ out' = b
    BY <1>1, <1>3, <1>4, <1>8, ConcatEmptySeq
  <2>2. DOMAIN proc' = DOMAIN proc
    BY <1>3, <2>1
  <2>3. slot' = IF Owner(s) = "main" \/ Others(s) # {} THEN slot ELSE [slot EXCEPT !["ro"] = 0]
    BY <1>1, <1>8
  <2>4. /\ slot' \in [main : DOMAIN proc', ro : DOMAIN proc' \cup {0}]
        /\ slot'["main"] = slot["main"]
        /\ slot'["ro"] = slot["ro"] \/ (slot'["ro"] = 0 /\ Owner(s) = "ro" /\ Others(s) = {})
        /\ Owner(s) = "ro" /\ Others(s) # {} => slot'["ro"] = slot["ro"]
    BY <1>2, <2>2, <2>3 DEF ProcsOK, Kinds
  <2>5. Lists'
    BY <1>3, <1>4, <2>1, <2>2, <2>4 DEF Lists
  <2>6. QED
    BY <1>3, <1>4, <1>6, <1>8, <2>1, <2>2, <2>4, <2>5
<1>9. QED
  BY <1>7, <1>8

\* The queue of one process changes.
LEMMA OneQueue ==
    ASSUME ProcsOK, NEW p \in DOMAIN proc, NEW q \in Seq(Events), out' = [out EXCEPT ![p] = q]
    PROVE  /\ out' \in Seq(Seq(Events)) /\ Len(out') = Len(proc)
           /\ out'[p] = q /\ \A r \in DOMAIN proc : r # p => out'[r] = out[r]
<1>1. out \in Seq(Seq(Events)) /\ Len(out) = Len(proc) /\ DOMAIN proc = 1..Len(out) /\ DOMAIN proc = DOMAIN out
  BY DEF ProcsOK
<1>2. p \in 1..Len(out)
  BY <1>1
<1>3. /\ [out EXCEPT ![p] = q] \in Seq(Seq(Events))
      /\ Len([out EXCEPT ![p] = q]) = Len(out)
      /\ \A j \in 1..Len(out) : [out EXCEPT ![p] = q][j] = IF j = p THEN q ELSE out[j]
  BY <1>1, <1>2, ExceptSeq
<1>4. QED
  BY <1>1, <1>2, <1>3

LEMMA TakesFirst ==
    ASSUME ProcsOK, NEW p \in DOMAIN proc, out[p] # <<>>, out' = Taken(p)
    PROVE  /\ out' \in Seq(Seq(Events)) /\ Len(out') = Len(proc) /\ Head(out[p]) \in Events
           /\ \A r \in DOMAIN proc : r # p => out'[r] = out[r]
           /\ Said(out[p]) = Said(out'[p]) \cup {Head(out[p])}
           /\ Once(out[p]) => Once(out'[p])
           /\ Once(out[p]) /\ Outcome(Head(out[p])) =>
                 \A d \in Said(out'[p]) : Outcome(d) => d.s # Head(out[p]).s
<1>1. out[p] \in Seq(Events) /\ p \in DOMAIN out
  BY Slots
<1>2. /\ Head(out[p]) \in Events /\ Tail(out[p]) \in Seq(Events)
      /\ Said(out[p]) = Said(Tail(out[p])) \cup {Head(out[p])}
      /\ Once(out[p]) => Once(Tail(out[p]))
      /\ Once(out[p]) /\ Outcome(Head(out[p])) => \A d \in Said(Tail(out[p])) : Outcome(d) => d.s # Head(out[p]).s
  BY <1>1, Takes
<1>3. out' = [out EXCEPT ![p] = Tail(out[p])]
  BY DEF Taken
<1>4. /\ out' \in Seq(Seq(Events)) /\ Len(out') = Len(proc)
      /\ out'[p] = Tail(out[p]) /\ \A r \in DOMAIN proc : r # p => out'[r] = out[r]
  BY <1>2, <1>3, OneQueue
<1>5. QED
  BY <1>2, <1>4

LEMMA TellsOne ==
    ASSUME ProcsOK, NEW p \in DOMAIN proc, NEW e \in Events, Tells(p, e)
    PROVE  /\ out' \in Seq(Seq(Events)) /\ Len(out') = Len(proc)
           /\ \A r \in DOMAIN proc : r # p => out'[r] = out[r]
           /\ Said(out'[p]) = Said(out[p]) \cup {e}
           /\ Once(out[p]) /\ (Outcome(e) => \A d \in Said(out[p]) : Outcome(d) => d.s # e.s) => Once(out'[p])
<1>1. out[p] \in Seq(Events) /\ p \in DOMAIN out
  BY Slots
<1>2. /\ Append(out[p], e) \in Seq(Events) /\ Said(Append(out[p], e)) = Said(out[p]) \cup {e}
      /\ Once(out[p]) /\ (Outcome(e) => \A d \in Said(out[p]) : Outcome(d) => d.s # e.s) => Once(Append(out[p], e))
  BY <1>1, Says
<1>3. out' = [out EXCEPT ![p] = Append(out[p], e)]
  BY DEF Tells
<1>4. /\ out' \in Seq(Seq(Events)) /\ Len(out') = Len(proc)
      /\ out'[p] = Append(out[p], e) /\ \A r \in DOMAIN proc : r # p => out'[r] = out[r]
  BY <1>2, <1>3, OneQueue
<1>5. QED
  BY <1>2, <1>4

\* The end of the adapter.
LEMMA Ends ==
    ASSUME ProcsOK, NoLeakedHost, EndAdapter
    PROVE  /\ Lists' /\ DOMAIN proc' = DOMAIN proc /\ slot' = slot
           /\ \A p \in DOMAIN proc : /\ proc'[p].kind = proc[p].kind /\ proc'[p].st = "dead"
                                     /\ out'[p] = <<>>
<1>1. /\ proc' = Stopped(Current) /\ out' = [p \in DOMAIN out |-> <<>>] /\ slot' = slot
  BY DEF EndAdapter
<1>2. /\ proc' \in Seq(Processes) /\ Len(proc') = Len(proc) /\ DOMAIN proc' = DOMAIN proc
      /\ \A p \in DOMAIN proc : /\ proc'[p].kind = proc[p].kind
                                /\ p \in Current => proc'[p].st = "dead"
                                /\ p \notin Current => proc'[p] = proc[p]
  BY <1>1, Stops
<1>3. \A p \in DOMAIN proc : p \in Current \/ proc[p].st = "dead"
  BY Slots DEF NoLeakedHost, IsCurrent, Current
<1>4. DOMAIN out = 1..Len(proc) /\ Len(proc) \in Nat /\ DOMAIN proc = DOMAIN out
  BY Slots
<1>5. out' \in [1..Len(proc) -> Seq(Events)] /\ \A p \in DOMAIN proc : out'[p] = <<>>
  BY <1>1, <1>4, Silence
<1>6. out' \in Seq(Seq(Events)) /\ Len(out') = Len(proc)
  BY <1>4, <1>5, SeqOfFunction
<1>7. Lists'
  BY <1>1, <1>2, <1>6 DEF Lists, ProcsOK
<1>8. QED
  BY <1>1, <1>2, <1>3, <1>5, <1>7

\* The loop reads the end of a current process and reaps it.
Reaps(p) ==
    /\ Reads(p, "closed") /\ IsCurrent(p)
    /\ proc' = Stopped(Reaped(p)) /\ loaded' = Released(Reaped(p)) /\ out' = Taken(p)
    /\ pending' = FailDeletes(proc[p].kind)

LEMMA ReapsOne ==
    ASSUME ProcsOK, Tracked, NEW p \in DOMAIN proc, Reaps(p)
    PROVE  /\ proc' \in Seq(Processes) /\ Len(proc') = Len(proc) /\ DOMAIN proc' = DOMAIN proc
           /\ out' \in Seq(Seq(Events)) /\ Len(out') = Len(proc')
           /\ p = slot[proc[p].kind] /\ proc[p].kind \in Kinds
           /\ \A q \in DOMAIN proc : /\ proc'[q].kind = proc[q].kind
                                     /\ q # p => proc'[q] = proc[q] /\ out'[q] = out[q]
                                     /\ Once(out'[q]) /\ Said(out'[q]) \subseteq Said(out[q])
           /\ Head(out[p]) = Closed /\ proc[p].st # "up" /\ proc'[p].st = "dead"
           /\ \A d \in Said(out[p]) : Outcome(d) => d \in Said(out'[p])
           /\ \A s \in Sessions : loaded'[s] = IF loaded[s] = p THEN 0 ELSE loaded[s]
<1>1. /\ proc' \in Seq(Processes) /\ Len(proc') = Len(proc) /\ DOMAIN proc' = DOMAIN proc
      /\ \A q \in DOMAIN proc : /\ proc'[q].kind = proc[q].kind
                                /\ q \in {p} => proc'[q].st = "dead"
                                /\ q \notin {p} => proc'[q] = proc[q]
  BY Stops DEF Reaps, Reaped
<1>2. out[p] # <<>> /\ Head(out[p]).m = "closed" /\ out' = Taken(p)
  BY DEF Reaps, Reads
<1>3. /\ out' \in Seq(Seq(Events)) /\ Len(out') = Len(proc) /\ Head(out[p]) \in Events
      /\ \A r \in DOMAIN proc : r # p => out'[r] = out[r]
      /\ Said(out[p]) = Said(out'[p]) \cup {Head(out[p])}
      /\ Once(out[p]) => Once(out'[p])
  BY <1>2, TakesFirst
<1>4. Head(out[p]) = Closed
  BY <1>2, <1>3 DEF Events, Closed
<1>5. proc[p].st # "up"
  BY <1>3, <1>4 DEF Tracked, Exits
<1>6. \A s \in Sessions : loaded'[s] = IF loaded[s] = p THEN 0 ELSE loaded[s]
  BY DEF Reaps, Released, Reaped
<1>7. p = slot[proc[p].kind] /\ proc[p].kind \in Kinds
  BY Slots DEF Reaps, IsCurrent
<1>8. \A q \in DOMAIN proc : Once(out'[q]) /\ Said(out'[q]) \subseteq Said(out[q])
  BY <1>3 DEF Tracked, Single
<1>9. \A d \in Said(out[p]) : Outcome(d) => d \in Said(out'[p])
  BY <1>3, <1>4 DEF Outcome, Closed
<1>10. QED
  BY <1>1, <1>3, <1>4, <1>5, <1>6, <1>7, <1>8, <1>9

\* The steps that launch no process in place of another and lose none.
Handling == loop.at = "launch" /\ loop.moving = "none"
GivesUpMove == loop.at = "launch" /\ loop.moving # "none" /\ loop' = Idle
               /\ UNCHANGED <<durable, procVars, sessionVars, admitted, now, retired, rare>>
SessionStep(s) ==
    \/ NewSession(s) \/ LoadSession(s) \/ Prompt(s) \/ CloseSession(s) \/ DeleteSession(s)
    \/ \E n \in Sessions : ForkSession(s, n)
    \/ \E m \in Modes : RelabelMode(s, m)
    \/ Attach(s) \/ TurnEnds(s)
QuietStep ==
    \/ \E s \in Sessions : SessionStep(s)
    \/ MoveOpens \/ MoveRefused \/ MoveReturns \/ AttachDone \/ GivesUpMove
LoopQuiet == ~Handling /\ loop.at # "gone" /\ loop'.at \notin {"launch", "gone"}

LoopStates == [at : {"idle", "launch", "attach", "open", "back", "gone"}, kind : Kinds,
               todo : SUBSET open, moving : Sessions \cup {"none"}, target : Modes]

LEMMA LoopRecord ==
    ASSUME LoopOK
    PROVE  /\ loop \in LoopStates
           /\ loop.kind \in Kinds /\ loop.target \in Modes /\ loop.moving \in Sessions \cup {"none"}
           /\ loop.at \in {"idle", "launch", "attach", "open", "back", "gone"} /\ loop.todo \subseteq open
BY DEF LoopOK, LoopStates

LEMMA LoopMoves ==
    ASSUME LoopOK, NEW a \in {"idle", "launch", "attach", "open", "back", "gone"}, NEW T \in SUBSET open
    PROVE  /\ [loop EXCEPT !.at = a] \in LoopStates
           /\ [loop EXCEPT !.at = a].at = a /\ [loop EXCEPT !.at = a].kind = loop.kind
           /\ [loop EXCEPT !.at = a].todo = loop.todo /\ [loop EXCEPT !.at = a].moving = loop.moving
           /\ [loop EXCEPT !.at = a].target = loop.target
           /\ [loop EXCEPT !.todo = T] \in LoopStates
           /\ [loop EXCEPT !.todo = T].at = loop.at /\ [loop EXCEPT !.todo = T].kind = loop.kind
           /\ [loop EXCEPT !.todo = T].todo = T /\ [loop EXCEPT !.todo = T].moving = loop.moving
           /\ [loop EXCEPT !.todo = T].target = loop.target
<1>1. loop \in LoopStates
  BY LoopRecord
<1>2. /\ [loop EXCEPT !.at = a] \in LoopStates
      /\ [loop EXCEPT !.at = a].at = a /\ [loop EXCEPT !.at = a].kind = loop.kind
      /\ [loop EXCEPT !.at = a].todo = loop.todo /\ [loop EXCEPT !.at = a].moving = loop.moving
      /\ [loop EXCEPT !.at = a].target = loop.target
  BY <1>1 DEF LoopStates
<1>3. /\ [loop EXCEPT !.todo = T] \in LoopStates
      /\ [loop EXCEPT !.todo = T].at = loop.at /\ [loop EXCEPT !.todo = T].kind = loop.kind
      /\ [loop EXCEPT !.todo = T].todo = T /\ [loop EXCEPT !.todo = T].moving = loop.moving
      /\ [loop EXCEPT !.todo = T].target = loop.target
  BY <1>1 DEF LoopStates
<1>4. QED
  BY <1>2, <1>3

LEMMA PlacedKinds ==
    ASSUME SessionsOK, NEW s \in Sessions
    PROVE  PlacedKind(s) \in Kinds /\ Owner(s) \in Kinds /\ Placed(s) \in Kinds \cup {"none"}
BY DEF SessionsOK, PlacedKind, Placed, Owner, Kinds, HostForMode, Remembered

LEMMA QuietGrows ==
    ASSUME TypeOK, SlotKind, Moving, QuietStep
    PROVE  Grown /\ LoopQuiet /\ retired' = retired
<1> USE DEF procVars, sessionVars
<1>0. ProcsOK /\ SessionsOK /\ LoopOK
  BY DEF TypeOK
<1>1. ASSUME NEW s \in Sessions, SessionStep(s) PROVE Grown /\ LoopQuiet /\ retired' = retired
  <2>1. CASE NewSession(s) \/ (\E m \in Modes : RelabelMode(s, m)) \/ TurnEnds(s)
    BY <1>0, <2>1, Stays DEF NewSession, RelabelMode, TurnEnds, LoopQuiet, Handling, Ready, Idle
  <2>2. CASE Attach(s)
    BY <1>0, <2>2, Stays, LoopRecord DEF Attach, LoopStates, LoopQuiet, Handling
  <2>3. ASSUME Ready, loop' = loop, retired' = retired, NEW k \in Kinds, Unrouted(k) \/ \E p \in 1..MaxProcs : Routed(k, p)
        PROVE  Grown /\ LoopQuiet /\ retired' = retired
    BY <1>0, <2>3, Stays, Routes DEF LoopQuiet, Handling, Ready, Idle, Unrouted
  <2>4. CASE LoadSession(s) \/ \E n \in Sessions : ForkSession(s, n)
    BY <1>0, <2>3, <2>4, PlacedKinds DEF LoadSession, ForkSession
  <2>5. CASE Prompt(s) \/ CloseSession(s) \/ DeleteSession(s)
    BY <1>0, <2>3, <2>5, PlacedKinds DEF Prompt, CloseSession, DeleteSession
  <2>6. QED
    BY <1>1, <2>1, <2>2, <2>4, <2>5 DEF SessionStep
<1>2. CASE MoveOpens \/ MoveRefused \/ MoveReturns
  <2>1. loop.moving \in Sessions
    BY <1>0, <1>2, LoopRecord DEF Moving, MoveOpens, MoveRefused, MoveReturns
  <2>2. Owner(loop.moving) \in Kinds
    BY <1>0, <2>1, PlacedKinds
  <2>3. Unrouted(Owner(loop.moving)) \/ \E p \in 1..MaxProcs : Routed(Owner(loop.moving), p)
    BY <1>2 DEF MoveOpens, MoveRefused, MoveReturns
  <2>4. Grown
    BY <1>0, <2>2, <2>3, Stays, Routes DEF Unrouted
  <2>5. loop.at \in {"open", "back"} /\ loop'.at \in {"idle", "back"} /\ retired' = retired
    BY <1>0, <1>2, LoopRecord DEF MoveOpens, MoveRefused, MoveReturns, Idle, LoopStates
  <2>6. QED
    BY <2>4, <2>5 DEF LoopQuiet, Handling
<1>3. CASE AttachDone
  BY <1>0, <1>3, Stays, LoopRecord DEF AttachDone, LoopStates, LoopQuiet, Handling, Idle
<1>4. CASE GivesUpMove
  BY <1>0, <1>4, Stays DEF GivesUpMove, LoopQuiet, Handling, Idle
<1>5. QED
  BY <1>1, <1>2, <1>3, <1>4 DEF QuietStep

-----------------------------------------------------------------------------
(* No process is lost.                                                       *)

LEMMA TrackedGrown ==
    ASSUME ProcsOK, Tracked, Grown, LoopQuiet
    PROVE  Tracked'
<1>1. /\ \A q \in DOMAIN proc : proc'[q] = proc[q] /\ out'[q] = out[q]
      /\ \A k \in Kinds : slot[k] # 0 => slot'[k] = slot[k]
      /\ \A k \in Kinds : \/ slot'[k] = slot[k]
                          \/ slot'[k] \in DOMAIN proc' \ DOMAIN proc /\ proc'[slot'[k]].kind = k
      /\ \A q \in DOMAIN proc' \ DOMAIN proc :
          proc'[q].st = "up" /\ out'[q] = <<>> /\ slot'[proc'[q].kind] = q
  BY DEF Grown
<1>2. \A k \in Kinds : slot[k] \in DOMAIN proc \cup {0}
  BY Slots
<1>3. SlotKind'
  BY <1>1, <1>2 DEF Tracked, SlotKind
<1>4. NoLeakedHost'
  <2>1. ASSUME NEW q \in DOMAIN proc', proc'[q].st # "dead" PROVE slot'[proc'[q].kind] = q
    <3>1. CASE q \in DOMAIN proc
      BY <1>1, <2>1, <3>1, Slots DEF Tracked, NoLeakedHost, IsCurrent
    <3>2. QED
      BY <1>1, <3>1
  <2>2. QED
    BY <2>1 DEF NoLeakedHost, IsCurrent, LoopQuiet
<1>5. LaunchFree'
  BY DEF LaunchFree, LoopQuiet
<1>6. Exits'
  <2>1. \A p \in DOMAIN proc' : Closed \in Said(out'[p]) => proc'[p].st # "up"
    BY <1>1, Silence DEF Tracked, Exits
  <2>2. ASSUME NEW k \in Kinds, slot'[k] # 0, proc'[slot'[k]].st # "up" PROVE Closed \in Said(out'[slot'[k]])
    <3>1. slot'[k] = slot[k]
      BY <1>1, <2>2
    <3>2. slot[k] \in DOMAIN proc /\ proc[slot[k]].st # "up"
      BY <1>1, <1>2, <2>2, <3>1
    <3>3. Closed \in Said(out[slot[k]])
      BY <3>2, Slots DEF Tracked, Exits, Handled, LoopQuiet, Handling
    <3>4. QED
      BY <1>1, <3>1, <3>2, <3>3
  <2>3. QED
    BY <2>1, <2>2 DEF Exits
<1>7. Single'
  BY <1>1, Silence DEF Tracked, Single
<1>8. QED
  BY <1>3, <1>4, <1>5, <1>6, <1>7 DEF Tracked

\* The other steps.
AbandonStep ==
    /\ loop.at = "launch" /\ loop.moving = "none" /\ loop.kind = "ro" /\ AbandonReadOnly
    /\ UNCHANGED <<durable, proc, out, loaded, owner, open, mode, saved, disk, home, pending,
                   admitted, now, retired, rare>>
MainRestarts(p) ==
    /\ Reaps(p) /\ proc[p].kind = "main" /\ Ready /\ Admit("main")
    /\ loop' = [Idle EXCEPT !.at = "launch"]
    /\ UNCHANGED <<durable, slot, owner, open, mode, busy, saved, disk, home, lost, retired, rare>>
TakesOutcome(p) == DeleteCompleted(p) \/ DeleteFailed(p)

LEMMA NextCases ==
    ASSUME [Next]_vars
    PROVE  \/ QuietStep \/ Relaunch \/ EndAdapter \/ AbandonStep
           \/ \E s \in Sessions, m \in Modes : MoveSession(s, m)
           \/ \E p \in DOMAIN proc : DropStale(p) \/ TakesOutcome(p) \/ ReadOnlyClosed(p) \/ MainRestarts(p)
           \/ /\ loop.at # "gone"
              /\ \/ \E p \in DOMAIN proc : HostExits(p)
                 \/ \E s \in Sessions : HostDeletes(s) \/ \E m \in Modes : OtherSaves(s, m)
           \/ UNCHANGED vars
<1>1. CASE Editor
  BY <1>1 DEF Editor, EditorGone, QuietStep, SessionStep
<1>2. CASE Restart
  BY <1>2 DEF Restart, RelaunchFails, QuietStep, SessionStep, GivesUpMove, AbandonStep
<1>3. CASE Move
  BY <1>3 DEF Move, QuietStep
<1>4. CASE Event
  <2>1. ASSUME NEW p \in DOMAIN proc, MainClosed(p) PROVE MainRestarts(p) \/ EndAdapter
    BY <2>1 DEF MainClosed, MainRestarts, Reaps, Reads
  <2>2. QED
    BY <1>4, <2>1 DEF Event, QuietStep, SessionStep, TakesOutcome
<1>5. CASE loop.at # "gone" /\ Environment
  BY <1>5 DEF Environment
<1>6. CASE Ended \/ UNCHANGED vars
  BY <1>6 DEF Ended
<1>7. QED
  BY <1>1, <1>2, <1>3, <1>4, <1>5, <1>6 DEF Next

\* A host of the kind that the loop restarts is launched.
LEMMA RelaunchShape ==
    ASSUME ProcsOK, LoopOK, Relaunch
    PROVE  /\ loop.at = "launch" /\ loop.kind \in Kinds /\ loop'.at = "attach" /\ loop'.kind = loop.kind
           /\ loop'.moving = loop.moving /\ loop'.target = loop.target
           /\ loop'.todo = Owned(loop.kind) \ {loop.moving}
           /\ UNCHANGED <<loaded, owner, open, mode, busy, saved, disk, home, lost, pending, retired>>
           /\ \E p \in 1..MaxProcs :
                /\ p \notin DOMAIN proc /\ p # 0 /\ DOMAIN proc' = DOMAIN proc \cup {p}
                /\ \A q \in DOMAIN proc : proc'[q] = proc[q] /\ out'[q] = out[q]
                /\ proc'[p].kind = loop.kind /\ proc'[p].st = "up" /\ out'[p] = <<>>
                /\ slot'[loop.kind] = p /\ \A j \in Kinds : j # loop.kind => slot'[j] = slot[j]
<1>1. PICK p \in 1..MaxProcs : Launch(loop.kind, p)
  BY DEF Relaunch
<1>2. /\ loop.at = "launch" /\ loop.kind \in Kinds /\ loop'.at = "attach" /\ loop'.kind = loop.kind
      /\ loop'.moving = loop.moving /\ loop'.target = loop.target
      /\ loop'.todo = Owned(loop.kind) \ {loop.moving}
      /\ UNCHANGED <<loaded, owner, open, mode, busy, saved, disk, home, lost, pending, retired>>
  BY LoopRecord DEF Relaunch, LoopStates, AttachList, sessionVars
<1>3. /\ p \notin DOMAIN proc /\ p # 0 /\ DOMAIN proc' = DOMAIN proc \cup {p}
      /\ \A q \in DOMAIN proc : proc'[q] = proc[q] /\ out'[q] = out[q]
      /\ proc'[p].kind = loop.kind /\ proc'[p].st = "up" /\ out'[p] = <<>>
      /\ slot'[loop.kind] = p /\ \A j \in Kinds : j # loop.kind => slot'[j] = slot[j]
  <2>1. loop.kind \in Kinds
    BY <1>2
  <2> DEFINE k == loop.kind
  <2>2. k \in Kinds /\ Launch(k, p)
    BY <1>1, <2>1
  <2> HIDE DEF k
  <2>3. /\ p \notin DOMAIN proc /\ p # 0 /\ DOMAIN proc' = DOMAIN proc \cup {p}
        /\ \A q \in DOMAIN proc : proc'[q] = proc[q] /\ out'[q] = out[q]
        /\ proc'[p].kind = k /\ proc'[p].st = "up" /\ out'[p] = <<>>
        /\ slot'[k] = p /\ \A j \in Kinds : j # k => slot'[j] = slot[j]
    BY ZenonT(40), <2>2, Launches
  <2>4. QED
    BY <2>3 DEF k
<1>4. QED
  BY <1>2, <1>3

LEMMA TrackedRelaunch ==
    ASSUME ProcsOK, LoopOK, Tracked, Relaunch
    PROVE  Tracked'
<1>1. /\ loop.at = "launch" /\ loop'.at = "attach" /\ loop.kind \in Kinds
      /\ \E p \in 1..MaxProcs :
           /\ p \notin DOMAIN proc /\ p # 0 /\ DOMAIN proc' = DOMAIN proc \cup {p}
           /\ \A q \in DOMAIN proc : proc'[q] = proc[q] /\ out'[q] = out[q]
           /\ proc'[p].kind = loop.kind /\ proc'[p].st = "up" /\ out'[p] = <<>>
           /\ slot'[loop.kind] = p /\ \A j \in Kinds : j # loop.kind => slot'[j] = slot[j]
  BY RelaunchShape
<1>2. loop.at = "launch" /\ loop'.at = "attach" /\ loop.kind \in Kinds
  BY <1>1
<1>3. PICK p \in 1..MaxProcs :
           /\ p \notin DOMAIN proc /\ p # 0 /\ DOMAIN proc' = DOMAIN proc \cup {p}
           /\ \A q \in DOMAIN proc : proc'[q] = proc[q] /\ out'[q] = out[q]
           /\ proc'[p].kind = loop.kind /\ proc'[p].st = "up" /\ out'[p] = <<>>
           /\ slot'[loop.kind] = p /\ \A j \in Kinds : j # loop.kind => slot'[j] = slot[j]
  BY <1>1
<1>4. /\ \A k \in Kinds : slot[k] \in DOMAIN proc \cup {0}
      /\ 0 \notin DOMAIN proc /\ \A q \in DOMAIN proc : proc[q].kind \in Kinds
  BY Slots
<1>5. SlotKind'
  BY <1>3, <1>4 DEF Tracked, SlotKind
<1>6. NoLeakedHost'
  <2>1. ASSUME NEW q \in DOMAIN proc, proc[q].st # "dead" PROVE slot'[proc[q].kind] = q
    <3>1. slot[proc[q].kind] = q
      BY <2>1 DEF Tracked, NoLeakedHost, IsCurrent
    <3>2. proc[q].kind # loop.kind
      BY <1>2, <1>4, <2>1, <3>1 DEF Tracked, LaunchFree
    <3>3. QED
      BY <1>3, <1>4, <3>1, <3>2
  <2>2. QED
    BY <1>2, <1>3, <2>1 DEF NoLeakedHost, IsCurrent
<1>7. LaunchFree'
  BY <1>2 DEF LaunchFree
<1>8. Exits'
  <2>1. \A q \in DOMAIN proc' : Closed \in Said(out'[q]) => proc'[q].st # "up"
    BY <1>3, Silence DEF Tracked, Exits
  <2>2. ASSUME NEW k \in Kinds, slot'[k] # 0, proc'[slot'[k]].st # "up" PROVE Closed \in Said(out'[slot'[k]])
    <3>1. k # loop.kind /\ slot'[k] = slot[k]
      BY <1>3, <2>2
    <3>2. slot[k] \in DOMAIN proc /\ proc[slot[k]].st # "up"
      BY <1>3, <1>4, <2>2, <3>1
    <3>3. Closed \in Said(out[slot[k]])
      BY <1>2, <1>4, <3>1, <3>2 DEF Tracked, Exits, Handled
    <3>4. QED
      BY <1>3, <3>1, <3>2, <3>3
  <2>3. QED
    BY <2>1, <2>2 DEF Exits
<1>9. Single'
  BY <1>3, Silence DEF Tracked, Single
<1>10. QED
  BY <1>5, <1>6, <1>7, <1>8, <1>9 DEF Tracked

LEMMA TrackedMove ==
    ASSUME TypeOK, Tracked, NEW s \in Sessions, NEW m \in Modes, MoveSession(s, m)
    PROVE  Tracked'
<1>0. ProcsOK /\ SessionsOK /\ LoopOK
  BY DEF TypeOK
<1>1. /\ \A q \in DOMAIN proc :
            /\ proc'[q].kind = proc[q].kind
            /\ q = slot[Owner(s)] => proc'[q].st = "dead"
            /\ q = slot[Owner(s)] /\ proc[q].st = "up" => Said(out'[q]) = Said(out[q]) \cup {Closed}
            /\ q # slot[Owner(s)] => proc'[q] = proc[q]
            /\ q # slot[Owner(s)] \/ proc[q].st # "up" => out'[q] = out[q]
            /\ Once(out[q]) => Once(out'[q])
      /\ \A q \in DOMAIN proc' \ DOMAIN proc :
            Starts(s) /\ proc'[q].kind = "ro" /\ proc'[q].st = "up" /\ out'[q] = <<>> /\ slot'["ro"] = q
      /\ slot'["main"] = slot["main"]
      /\ slot'["ro"] = slot["ro"] \/ slot'["ro"] \in DOMAIN proc' \ DOMAIN proc
           \/ (slot'["ro"] = 0 /\ Owner(s) = "ro" /\ Others(s) = {})
      /\ Owner(s) = "ro" /\ Others(s) # {} => slot'["ro"] = slot["ro"]
      /\ Starts(s) => slot'["ro"] \in DOMAIN proc' \ DOMAIN proc
      /\ DOMAIN proc \subseteq DOMAIN proc'
  BY <1>0, Moves
<1>2. /\ \A k \in Kinds : slot[k] \in DOMAIN proc \cup {0}
      /\ 0 \notin DOMAIN proc /\ \A q \in DOMAIN proc : proc[q].kind \in Kinds
      /\ Owner(s) \in Kinds
  BY <1>0, Slots, Kindred
<1>3. /\ Ready /\ loop.at = "idle" /\ loop'.moving = s /\ s # "none"
      /\ loop'.at \in {"launch", "open"} /\ loop'.kind = Owner(s)
      /\ loop'.at = "launch" => Owner(s) = "main" \/ Others(s) # {}
  BY DEF MoveSession, Ready, Idle, Others
<1>4. SlotKind'
  <2>1. SlotKind
    BY DEF Tracked
  <2>2. slot'["main"] # 0 => proc'[slot'["main"]].kind = "main"
    BY <1>1, <1>2, <2>1 DEF SlotKind, Kinds
  <2>3. slot'["ro"] # 0 => proc'[slot'["ro"]].kind = "ro"
    BY <1>1, <1>2, <2>1 DEF SlotKind, Kinds
  <2>4. QED
    BY <2>2, <2>3 DEF SlotKind, Kinds
<1>5. NoLeakedHost'
  <2>1. ASSUME NEW q \in DOMAIN proc, proc'[q].st # "dead" PROVE slot'[proc'[q].kind] = q
    <3>1. q # slot[Owner(s)] /\ proc'[q] = proc[q]
      BY <1>1, <2>1
    <3>2. slot[proc[q].kind] = q
      BY <2>1, <3>1 DEF Tracked, NoLeakedHost, IsCurrent
    <3>3. proc[q].kind # Owner(s)
      BY <3>1, <3>2
    <3>4. slot[proc[q].kind] # 0
      BY <1>2, <3>2
    <3>5. slot'[proc[q].kind] = slot[proc[q].kind]
      BY <1>1, <1>2, <3>3, <3>4 DEF Starts, Kinds
    <3>6. QED
      BY <3>1, <3>2, <3>5
  <2>2. QED
    BY <1>1, <1>3, <2>1 DEF NoLeakedHost, IsCurrent
<1>6. LaunchFree'
  <2>1. ASSUME loop'.at = "launch" PROVE slot'[Owner(s)] = slot[Owner(s)]
    BY <1>1, <1>2, <1>3, <2>1 DEF Kinds
  <2>2. QED
    BY <1>1, <1>2, <1>3, <2>1 DEF LaunchFree
<1>7. Exits'
  <2>1. ASSUME NEW q \in DOMAIN proc', Closed \in Said(out'[q]) PROVE proc'[q].st # "up"
    <3>1. CASE q \in DOMAIN proc /\ q = slot[Owner(s)]
      BY <1>1, <3>1
    <3>2. CASE q \in DOMAIN proc /\ q # slot[Owner(s)]
      BY <1>1, <2>1, <3>2 DEF Tracked, Exits
    <3>3. CASE q \notin DOMAIN proc
      BY <1>1, <2>1, <3>3, Silence
    <3>4. QED
      BY <3>1, <3>2, <3>3
  <2>2. ASSUME NEW k \in Kinds, slot'[k] # 0, proc'[slot'[k]].st # "up" PROVE Closed \in Said(out'[slot'[k]])
    <3>1. slot'[k] = slot[k] /\ slot[k] \in DOMAIN proc
      BY <1>1, <1>2, <2>2 DEF Kinds
    <3>2. proc[slot[k]].st # "up" => Closed \in Said(out[slot[k]])
      BY <1>3, <2>2, <3>1 DEF Tracked, Exits, Handled
    <3>3. CASE proc[slot[k]].st # "up"
      BY <1>1, <3>1, <3>2, <3>3
    <3>4. CASE proc[slot[k]].st = "up"
      BY <1>1, <2>2, <3>1, <3>4
    <3>5. QED
      BY <3>3, <3>4
  <2>3. QED
    BY <2>1, <2>2 DEF Exits
<1>8. Single'
  BY <1>1, Silence DEF Tracked, Single
<1>9. QED
  BY <1>4, <1>5, <1>6, <1>7, <1>8 DEF Tracked

LEMMA TrackedEnd ==
    ASSUME ProcsOK, Tracked, EndAdapter
    PROVE  Tracked'
<1>1. /\ DOMAIN proc' = DOMAIN proc /\ slot' = slot
      /\ \A p \in DOMAIN proc : /\ proc'[p].kind = proc[p].kind /\ proc'[p].st = "dead" /\ out'[p] = <<>>
  BY Ends DEF Tracked
<1>2. loop'.at = "gone"
  BY DEF EndAdapter, Gone, Idle
<1>3. SlotKind'
  BY <1>1, Slots DEF Tracked, SlotKind
<1>4. NoLeakedHost' /\ LaunchFree' /\ Exits' /\ Single'
  BY <1>1, <1>2, Silence DEF NoLeakedHost, LaunchFree, Exits, Single
<1>5. QED
  BY <1>3, <1>4 DEF Tracked

\* The end of a process was read: its slot is emptied, or refilled next.
LEMMA TrackedReap ==
    ASSUME ProcsOK, Tracked, NEW p \in DOMAIN proc, Reaps(p), Ready,
           \A k \in Kinds : k # proc[p].kind => slot'[k] = slot[k],
           \/ slot'[proc[p].kind] = 0 /\ loop' = Idle
           \/ slot' = slot /\ loop'.at = "launch" /\ loop'.kind = proc[p].kind /\ loop'.moving = "none"
    PROVE  Tracked'
<1>1. /\ DOMAIN proc' = DOMAIN proc
      /\ p = slot[proc[p].kind] /\ proc[p].kind \in Kinds
      /\ \A q \in DOMAIN proc : /\ proc'[q].kind = proc[q].kind
                                /\ q # p => proc'[q] = proc[q] /\ out'[q] = out[q]
                                /\ Once(out'[q]) /\ Said(out'[q]) \subseteq Said(out[q])
      /\ proc'[p].st = "dead"
  BY ReapsOne
<1>2. /\ \A k \in Kinds : slot[k] \in DOMAIN proc \cup {0}
      /\ 0 \notin DOMAIN proc /\ \A q \in DOMAIN proc : proc[q].kind \in Kinds
  BY Slots
<1>3. loop.at = "idle" /\ loop'.at \in {"idle", "launch"}
  BY DEF Ready, Idle
<1>4. SlotKind'
  BY <1>1, <1>2 DEF Tracked, SlotKind
<1>5. NoLeakedHost'
  <2>1. ASSUME NEW q \in DOMAIN proc, proc'[q].st # "dead" PROVE slot'[proc'[q].kind] = q
    <3>1. q # p /\ proc'[q] = proc[q]
      BY <1>1, <2>1
    <3>2. slot[proc[q].kind] = q
      BY <2>1, <3>1 DEF Tracked, NoLeakedHost, IsCurrent
    <3>3. proc[q].kind # proc[p].kind
      BY <1>1, <3>1, <3>2
    <3>4. QED
      BY <1>2, <3>1, <3>2, <3>3
  <2>2. QED
    BY <1>1, <1>3, <2>1 DEF NoLeakedHost, IsCurrent
<1>6. LaunchFree'
  BY <1>1, <1>3 DEF LaunchFree, Idle
<1>7. Exits'
  <2>1. \A q \in DOMAIN proc' : Closed \in Said(out'[q]) => proc'[q].st # "up"
    BY <1>1 DEF Tracked, Exits
  <2>2. ASSUME NEW k \in Kinds, slot'[k] # 0, proc'[slot'[k]].st # "up", ~Handled(k)' PROVE Closed \in Said(out'[slot'[k]])
    <3>1. k # proc[p].kind /\ slot'[k] = slot[k]
      BY <2>2 DEF Handled
    <3>2. slot[k] \in DOMAIN proc /\ slot[k] # p
      BY <1>2, <2>2, <3>1 DEF Tracked, SlotKind
    <3>3. Closed \in Said(out[slot[k]])
      BY <1>1, <1>2, <1>3, <2>2, <3>1, <3>2 DEF Tracked, Exits, Handled
    <3>4. QED
      BY <1>1, <3>1, <3>2, <3>3
  <2>3. QED
    BY <2>1, <2>2 DEF Exits
<1>8. Single'
  BY <1>1 DEF Single
<1>9. QED
  BY <1>4, <1>5, <1>6, <1>7, <1>8 DEF Tracked

\* The three ways of recover_read_only_host, and the restart of the main host.
LEMMA ReapCases ==
    ASSUME ProcsOK, NEW p \in DOMAIN proc, ReadOnlyClosed(p) \/ MainRestarts(p)
    PROVE  /\ Reaps(p) /\ Ready
           /\ \A k \in Kinds : k # proc[p].kind => slot'[k] = slot[k]
           /\ \/ slot'[proc[p].kind] = 0 /\ loop' = Idle
              \/ slot' = slot /\ loop'.at = "launch" /\ loop'.kind = proc[p].kind /\ loop'.moving = "none"
<1>1. CASE ReadOnlyClosed(p)
  <2>1. Reaps(p) /\ Ready /\ proc[p].kind = "ro"
    BY <1>1 DEF ReadOnlyClosed, Reaps, Reads
  <2>2. \/ slot' = [slot EXCEPT !["ro"] = 0] /\ loop' = Idle
        \/ slot' = slot /\ loop' = [Idle EXCEPT !.at = "launch", !.kind = "ro"]
    BY <1>1, <2>1 DEF ReadOnlyClosed, AbandonReadOnly, Ready
  <2>3. DOMAIN slot = Kinds
    BY Slots
  <2>4. QED
    BY <2>1, <2>2, <2>3 DEF Idle, Kinds
<1>2. CASE MainRestarts(p)
  BY <1>2 DEF MainRestarts, Idle
<1>3. QED
  BY <1>1, <1>2

LEMMA TrackedAbandon ==
    ASSUME ProcsOK, Tracked, AbandonStep
    PROVE  Tracked'
<1>1. /\ proc' = proc /\ out' = out /\ slot'["ro"] = 0 /\ slot'["main"] = slot["main"] /\ loop' = Idle
      /\ loop.at = "launch" /\ loop.kind = "ro"
  BY Slots DEF AbandonStep, AbandonReadOnly, Kinds
<1>2. /\ \A k \in Kinds : slot[k] \in DOMAIN proc \cup {0}
      /\ 0 \notin DOMAIN proc /\ \A q \in DOMAIN proc : proc[q].kind \in Kinds
  BY Slots
<1>3. loop'.at = "idle"
  BY <1>1 DEF Idle
<1>4. SlotKind'
  BY <1>1 DEF Tracked, SlotKind, Kinds
<1>5. NoLeakedHost'
  <2>1. ASSUME NEW q \in DOMAIN proc, proc[q].st # "dead" PROVE slot'[proc[q].kind] = q
    <3>1. slot[proc[q].kind] = q
      BY <2>1 DEF Tracked, NoLeakedHost, IsCurrent
    <3>2. proc[q].kind # "ro"
      BY <1>1, <1>2, <2>1, <3>1 DEF Tracked, LaunchFree
    <3>3. QED
      BY <1>1, <1>2, <3>1, <3>2 DEF Kinds
  <2>2. QED
    BY <1>1, <1>3, <2>1 DEF NoLeakedHost, IsCurrent
<1>6. LaunchFree'
  BY <1>3 DEF LaunchFree
<1>7. Exits'
  <2>1. \A k \in Kinds : slot'[k] # 0 => k # "ro" /\ slot'[k] = slot[k]
    BY <1>1 DEF Kinds
  <2>2. QED
    BY <1>1, <2>1 DEF Tracked, Exits, Handled
<1>8. Single'
  BY <1>1 DEF Tracked, Single
<1>9. QED
  BY <1>4, <1>5, <1>6, <1>7, <1>8 DEF Tracked

\* Only what processes said changes; an end is not lost.
LEMMA TrackedQueues ==
    ASSUME ProcsOK, Tracked, UNCHANGED <<proc, slot, loop>>,
           \A q \in DOMAIN proc :
              /\ Once(out'[q])
              /\ Closed \in Said(out'[q]) => Closed \in Said(out[q])
              /\ IsCurrent(q) /\ Closed \in Said(out[q]) => Closed \in Said(out'[q])
    PROVE  Tracked'
<1>1. SlotKind' /\ NoLeakedHost' /\ LaunchFree' /\ Single'
  BY DEF Tracked, SlotKind, NoLeakedHost, LaunchFree, Single, IsCurrent
<1>2. \A k \in Kinds : slot[k] # 0 => slot[k] \in DOMAIN proc /\ IsCurrent(slot[k])
  BY Slots DEF Tracked, SlotKind, IsCurrent
<1>3. Exits'
  BY <1>2 DEF Tracked, Exits, Handled
<1>4. QED
  BY <1>1, <1>3 DEF Tracked

LEMMA DropsStale ==
    ASSUME ProcsOK, NEW p \in DOMAIN proc, DropStale(p)
    PROVE  /\ out' \in Seq(Seq(Events)) /\ Len(out') = Len(proc)
           /\ out'[p] = <<>> /\ \A r \in DOMAIN proc : r # p => out'[r] = out[r]
           /\ ~IsCurrent(p) /\ UNCHANGED <<proc, slot, loop>>
BY OneQueue, Silence DEF DropStale

LEMMA TakesShape ==
    ASSUME ProcsOK, Tracked, NEW p \in DOMAIN proc, TakesOutcome(p)
    PROVE  /\ out' \in Seq(Seq(Events)) /\ Len(out') = Len(proc) /\ Ready /\ IsCurrent(p)
           /\ UNCHANGED <<proc, slot, loop, loaded, disk, retired>>
           /\ Head(out[p]).s \in Sessions /\ Outcome(Head(out[p])) /\ Head(out[p]) \in Said(out[p])
           /\ \A r \in DOMAIN proc : r # p => out'[r] = out[r]
           /\ Said(out[p]) = Said(out'[p]) \cup {Head(out[p])}
           /\ Once(out'[p])
           /\ \A d \in Said(out'[p]) : Outcome(d) => d.s # Head(out[p]).s
<1>1. /\ out[p] # <<>> /\ out' = Taken(p) /\ Ready /\ IsCurrent(p)
      /\ UNCHANGED <<proc, slot, loop, loaded, disk, retired>>
      /\ Head(out[p]).m \in {"deleted", "kept"}
  BY DEF TakesOutcome, DeleteCompleted, DeleteFailed, Reads
<1>2. Once(out[p])
  BY DEF Tracked, Single
<1>3. /\ out' \in Seq(Seq(Events)) /\ Len(out') = Len(proc) /\ Head(out[p]) \in Events
      /\ \A r \in DOMAIN proc : r # p => out'[r] = out[r]
      /\ Said(out[p]) = Said(out'[p]) \cup {Head(out[p])}
      /\ Once(out'[p])
      /\ Outcome(Head(out[p])) => \A d \in Said(out'[p]) : Outcome(d) => d.s # Head(out[p]).s
  BY <1>1, <1>2, TakesFirst
<1>4. Outcome(Head(out[p])) /\ Head(out[p]).s \in Sessions
  BY <1>1, <1>3 DEF Outcome, Events
<1>5. QED
  BY <1>1, <1>3, <1>4

LEMMA DeletesShape ==
    ASSUME ProcsOK, Tracked, NEW s \in Sessions, HostDeletes(s)
    PROVE  /\ pending[s] \in DOMAIN proc /\ proc[pending[s]].st = "up"
           /\ UNCHANGED <<proc, slot, loop, owner, open, mode, busy, saved, home, lost, pending, retired>>
           /\ out' \in Seq(Seq(Events)) /\ Len(out') = Len(proc)
           /\ \A r \in DOMAIN proc : r # pending[s] => out'[r] = out[r]
           /\ \E e \in Events : /\ Outcome(e) /\ e.s = s /\ Said(out'[pending[s]]) = Said(out[pending[s]]) \cup {e}
                                /\ \/ e = [m |-> "deleted", s |-> s] /\ loaded[s] \in {0, pending[s]}
                                      /\ loaded' = [loaded EXCEPT ![s] = 0]
                                      /\ disk' = [disk EXCEPT ![s] = "erased"]
                                   \/ UNCHANGED <<loaded, disk>>
           /\ Once(out'[pending[s]])
<1> DEFINE p == pending[s]  d == [m |-> "deleted", s |-> s]  k == [m |-> "kept", s |-> s]
<1>1. /\ p # 0 /\ proc[p].st = "up" /\ {d, k} \cap Told(p) = {}
      /\ UNCHANGED <<proc, slot, loop, owner, open, mode, busy, saved, home, lost, pending, retired>>
      /\ \/ /\ loaded[s] \in {0, p} /\ Tells(p, d)
            /\ disk' = [disk EXCEPT ![s] = "erased"] /\ loaded' = [loaded EXCEPT ![s] = 0]
         \/ Tells(p, k) /\ UNCHANGED <<disk, loaded>>
  BY DEF HostDeletes
<1>2. p \in DOMAIN proc
  BY <1>1 DEF ProcsOK
<1>3. d \in Events /\ k \in Events /\ Outcome(d) /\ Outcome(k) /\ d.s = s /\ k.s = s
  BY DEF Events, Outcome
<1>4. \A e \in Said(out[p]) : e \in Events
  BY <1>2, Slots DEF Said
<1>5. \A e \in Said(out[p]) : Outcome(e) => e.s # s
  <2>1. \A e \in Events : Outcome(e) /\ e.s = s => e = d \/ e = k
    BY DEF Events, Outcome
  <2>2. d \notin Said(out[p]) /\ k \notin Said(out[p])
    BY <1>1 DEF Told, Said
  <2>3. QED
    BY <1>4, <2>1, <2>2
<1>6. Once(out[p])
  BY <1>2 DEF Tracked, Single
<1> HIDE DEF p, d, k
<1>7. ASSUME NEW e \in {d, k}, Tells(p, e)
      PROVE  /\ out' \in Seq(Seq(Events)) /\ Len(out') = Len(proc)
             /\ \A r \in DOMAIN proc : r # p => out'[r] = out[r]
             /\ Said(out'[p]) = Said(out[p]) \cup {e} /\ Once(out'[p])
  BY <1>2, <1>3, <1>5, <1>6, <1>7, TellsOne
<1>8. QED
  BY <1>1, <1>2, <1>3, <1>7 DEF p, d, k

LEMMA ExitsShape ==
    ASSUME ProcsOK, Tracked, NEW p \in DOMAIN proc, HostExits(p)
    PROVE  /\ proc' \in Seq(Processes) /\ Len(proc') = Len(proc) /\ DOMAIN proc' = DOMAIN proc
           /\ \A q \in DOMAIN proc : proc'[q].kind = proc[q].kind /\ (q # p => proc'[q] = proc[q] /\ out'[q] = out[q])
           /\ proc[p].st = "up" /\ proc'[p].st = "exited"
           /\ out' \in Seq(Seq(Events)) /\ Len(out') = Len(proc)
           /\ Said(out'[p]) = Said(out[p]) \cup {Closed} /\ Once(out'[p])
           /\ UNCHANGED <<slot, loaded, owner, open, mode, busy, saved, disk, home, lost, pending, loop, retired>>
<1> DEFINE e == [proc[p] EXCEPT !.st = "exited"]
<1>1. /\ proc[p].st = "up" /\ proc' = [proc EXCEPT ![p] = e] /\ Tells(p, Closed)
      /\ UNCHANGED <<slot, loaded, owner, open, mode, busy, saved, disk, home, lost, pending, loop, retired>>
  BY DEF HostExits, sessionVars, Closed
<1>2. e \in Processes /\ e.kind = proc[p].kind /\ e.st = "exited"
  BY Slots DEF Processes
<1>3. Closed \in Events /\ ~Outcome(Closed)
  BY DEF Closed, Events, Outcome
<1>4. Once(out[p])
  BY DEF Tracked, Single
<1>5. /\ out' \in Seq(Seq(Events)) /\ Len(out') = Len(proc)
      /\ \A r \in DOMAIN proc : r # p => out'[r] = out[r]
      /\ Said(out'[p]) = Said(out[p]) \cup {Closed}
      /\ Once(out'[p])
  BY <1>1, <1>3, <1>4, TellsOne
<1> HIDE DEF e
<1>6. /\ proc' \in Seq(Processes) /\ Len(proc') = Len(proc) /\ DOMAIN proc' = DOMAIN proc
      /\ proc'[p] = e /\ \A q \in DOMAIN proc : q # p => proc'[q] = proc[q]
  BY <1>1, <1>2 DEF ProcsOK
<1>7. QED
  BY <1>1, <1>2, <1>5, <1>6

LEMMA StepTracked ==
    ASSUME TypeOK, Tracked, Moving, [Next]_vars
    PROVE  Tracked'
<1>0. ProcsOK /\ SessionsOK /\ LoopOK
  BY DEF TypeOK
<1>1. CASE QuietStep
  BY <1>0, <1>1, QuietGrows, TrackedGrown DEF Tracked
<1>2. CASE Relaunch
  BY <1>0, <1>2, TrackedRelaunch
<1>3. CASE EndAdapter
  BY <1>0, <1>3, TrackedEnd
<1>4. CASE AbandonStep
  BY <1>0, <1>4, TrackedAbandon
<1>5. ASSUME NEW s \in Sessions, NEW m \in Modes, MoveSession(s, m) PROVE Tracked'
  BY <1>5, TrackedMove
<1>6. ASSUME NEW p \in DOMAIN proc, DropStale(p) PROVE Tracked'
  <2>1. \A q \in DOMAIN proc :
              /\ Once(out'[q])
              /\ Closed \in Said(out'[q]) => Closed \in Said(out[q])
              /\ IsCurrent(q) /\ Closed \in Said(out[q]) => Closed \in Said(out'[q])
    BY <1>0, <1>6, DropsStale, Silence DEF Tracked, Single
  <2>2. QED
    BY <1>0, <1>6, <2>1, DropsStale, TrackedQueues
<1>7. ASSUME NEW p \in DOMAIN proc, TakesOutcome(p) PROVE Tracked'
  <2>1. \A q \in DOMAIN proc :
              /\ Once(out'[q])
              /\ Closed \in Said(out'[q]) => Closed \in Said(out[q])
              /\ IsCurrent(q) /\ Closed \in Said(out[q]) => Closed \in Said(out'[q])
    <3>1. /\ \A r \in DOMAIN proc : r # p => out'[r] = out[r]
          /\ Said(out[p]) = Said(out'[p]) \cup {Head(out[p])} /\ Once(out'[p]) /\ Outcome(Head(out[p]))
      BY <1>0, <1>7, TakesShape
    <3>2. Head(out[p]) # Closed
      BY <3>1 DEF Outcome, Closed
    <3>3. Closed \in Said(out'[p]) <=> Closed \in Said(out[p])
      BY <3>1, <3>2
    <3>4. QED
      BY <3>1, <3>3 DEF Tracked, Single
  <2>2. QED
    BY <1>0, <1>7, <2>1, TakesShape, TrackedQueues
<1>8. ASSUME NEW p \in DOMAIN proc, ReadOnlyClosed(p) \/ MainRestarts(p) PROVE Tracked'
  BY <1>0, <1>8, ReapCases, TrackedReap
<1>9. ASSUME loop.at # "gone", NEW p \in DOMAIN proc, HostExits(p) PROVE Tracked'
  <2>1. /\ DOMAIN proc' = DOMAIN proc /\ slot' = slot /\ loop' = loop
        /\ \A q \in DOMAIN proc : proc'[q].kind = proc[q].kind /\ (q # p => proc'[q] = proc[q] /\ out'[q] = out[q])
        /\ proc[p].st = "up" /\ proc'[p].st = "exited"
        /\ Said(out'[p]) = Said(out[p]) \cup {Closed} /\ Once(out'[p])
    BY <1>0, <1>9, ExitsShape
  <2>2. /\ \A k \in Kinds : slot[k] \in DOMAIN proc \cup {0}
        /\ 0 \notin DOMAIN proc /\ loop.kind \in Kinds
    BY <1>0, Slots, LoopRecord
  <2>3. SlotKind' /\ NoLeakedHost'
    BY <2>1, <2>2 DEF Tracked, SlotKind, NoLeakedHost, IsCurrent
  <2>4. LaunchFree' /\ Single'
    BY <2>1, <2>2 DEF Tracked, LaunchFree, Single
  <2>5. Exits'
    BY <2>1, <2>2 DEF Tracked, Exits, Handled
  <2>6. QED
    BY <2>3, <2>4, <2>5 DEF Tracked
<1>10. ASSUME NEW s \in Sessions, HostDeletes(s) PROVE Tracked'
  <2>1. \A q \in DOMAIN proc :
              /\ Once(out'[q])
              /\ Closed \in Said(out'[q]) => Closed \in Said(out[q])
              /\ IsCurrent(q) /\ Closed \in Said(out[q]) => Closed \in Said(out'[q])
    <3>1. \A r \in DOMAIN proc : r # pending[s] => out'[r] = out[r]
      BY <1>0, <1>10, DeletesShape
    <3>2. Once(out'[pending[s]])
      BY <1>0, <1>10, DeletesShape
    <3>3. PICK e \in Events : Outcome(e) /\ Said(out'[pending[s]]) = Said(out[pending[s]]) \cup {e}
      BY <1>0, <1>10, DeletesShape
    <3>4. e # Closed
      BY <3>3 DEF Outcome, Closed
    <3>5. Closed \in Said(out'[pending[s]]) <=> Closed \in Said(out[pending[s]])
      BY <3>3, <3>4
    <3>6. QED
      BY <3>1, <3>2, <3>5 DEF Tracked, Single
  <2>2. QED
    BY <1>0, <1>10, <2>1, DeletesShape, TrackedQueues
<1>11. ASSUME NEW s \in Sessions, NEW m \in Modes, OtherSaves(s, m) PROVE Tracked'
  BY <1>11 DEF OtherSaves, procVars, Tracked, SlotKind, NoLeakedHost, LaunchFree, Exits, Single, IsCurrent, Handled
<1>12. CASE UNCHANGED vars
  BY <1>12 DEF vars, procVars, Tracked, SlotKind, NoLeakedHost, LaunchFree, Exits, Single, IsCurrent, Handled
<1>13. QED
  BY <1>1, <1>2, <1>3, <1>4, <1>5, <1>6, <1>7, <1>8, <1>9, <1>10, <1>11, <1>12, NextCases

-----------------------------------------------------------------------------
(* Type correctness.                                                         *)

Grows == Lists' /\ DOMAIN proc \subseteq DOMAIN proc'

LEMMA StepLists ==
    ASSUME TypeOK, Tracked, Moving, [Next]_vars
    PROVE  Grows
<1>0. ProcsOK /\ SessionsOK /\ LoopOK /\ Lists
  BY DEF TypeOK, ProcsOK, Lists
<1> USE DEF Grows
<1>1. CASE QuietStep
  BY <1>1, QuietGrows DEF Tracked, Grown
<1>2. CASE Relaunch
  <2>1. PICK p : Launch(loop.kind, p)
    BY <1>2 DEF Relaunch
  <2>2. loop.kind \in Kinds
    BY <1>0, LoopRecord
  <2>3. /\ proc' \in Seq(Processes) /\ out' \in Seq(Seq(Events)) /\ Len(out') = Len(proc')
        /\ slot' \in [main : DOMAIN proc', ro : DOMAIN proc' \cup {0}]
        /\ DOMAIN proc' = DOMAIN proc \cup {p}
    BY <1>0, <2>1, <2>2, Launches
  <2>4. QED
    BY <2>3 DEF Lists
<1>3. CASE EndAdapter
  BY <1>0, <1>3, Ends DEF Tracked
<1>4. CASE AbandonStep
  BY <1>0, <1>4 DEF AbandonStep, AbandonReadOnly, Lists, ProcsOK
<1>5. ASSUME NEW s \in Sessions, NEW m \in Modes, MoveSession(s, m) PROVE Grows
  BY <1>0, <1>5, Moves
<1>6. ASSUME NEW p \in DOMAIN proc, DropStale(p) PROVE Grows
  BY <1>0, <1>6, DropsStale DEF Lists
<1>7. ASSUME NEW p \in DOMAIN proc, TakesOutcome(p) PROVE Grows
  BY <1>0, <1>7, TakesShape DEF Lists
<1>8. ASSUME NEW p \in DOMAIN proc, ReadOnlyClosed(p) \/ MainRestarts(p) PROVE Grows
  <2>1. slot' \in [main : DOMAIN proc, ro : DOMAIN proc \cup {0}]
    BY <1>0, <1>8 DEF ReadOnlyClosed, MainRestarts, AbandonReadOnly, Lists
  <2>2. Reaps(p)
    BY <1>0, <1>8, ReapCases
  <2>3. QED
    BY <1>0, <2>1, <2>2, ReapsOne DEF Lists
<1>9. ASSUME NEW p \in DOMAIN proc, HostExits(p) PROVE Grows
  BY <1>0, <1>9, ExitsShape DEF Lists
<1>10. ASSUME NEW s \in Sessions, HostDeletes(s) PROVE Grows
  BY SMTT(30), <1>0, <1>10, DeletesShape DEF Lists
<1>11. ASSUME NEW s \in Sessions, NEW m \in Modes, OtherSaves(s, m) PROVE Grows
  BY <1>0, <1>11 DEF OtherSaves, procVars, Lists
<1>12. CASE UNCHANGED vars
  BY <1>0, <1>12 DEF vars, procVars, Lists
<1>13. QED
  BY <1>1, <1>2, <1>3, <1>4, <1>5, <1>6, <1>7, <1>8, <1>9, <1>10, <1>11, <1>12, NextCases

\* Which process holds a session, started it or was asked to delete it.
Tables == {loaded, home, pending} \subseteq [Sessions -> DOMAIN proc \cup {0}] /\ retired \subseteq DOMAIN proc

LEMMA ProcsParts == ProcsOK <=> Lists /\ Tables
BY DEF ProcsOK, Lists, Tables

\* A session is opened on a process that answers.
LEMMA OpensShape ==
    ASSUME ProcsOK, Grows, NEW s \in Sessions, NEW p \in DOMAIN proc', Opens(s, p)
    PROVE  /\ loaded' \in [Sessions -> DOMAIN proc' \cup {0}]
           /\ loaded'[s] = p /\ \A t \in Sessions : t # s => loaded'[t] = loaded[t]
           /\ proc'[p].st = "up" /\ loaded[s] \in {0, p}
BY DEF ProcsOK, Grows, Opens, Answers

LEMMA ReattachedShape ==
    ASSUME ProcsOK, SessionsOK, Grows, NEW s \in Sessions, NEW p \in DOMAIN proc', Reattached(s, p)
    PROVE  /\ loaded' \in [Sessions -> DOMAIN proc' \cup {0}]
           /\ loaded'[s] = p /\ \A t \in Sessions : t # s => loaded'[t] = loaded[t]
           /\ proc'[p].st = "up" /\ loaded[s] \in {0, p}
           /\ home' \in [Sessions -> DOMAIN proc' \cup {0}]
           /\ disk' \in [Sessions -> {"none", "fresh", "kept", "erased"}]
           /\ \A t \in Sessions : disk'[t] = "none" => disk[t] = "none" /\ t # s
<1>1. Opens(s, p) /\ disk' = [disk EXCEPT ![s] = IF @ = "kept" THEN @ ELSE "fresh"]
      /\ home' = [home EXCEPT ![s] = IF disk[s] = "kept" THEN @ ELSE p]
  BY DEF Reattached
<1>2. home' \in [Sessions -> DOMAIN proc' \cup {0}]
  BY <1>1 DEF ProcsOK, Grows
<1>3. /\ disk' \in [Sessions -> {"none", "fresh", "kept", "erased"}]
      /\ \A t \in Sessions : disk'[t] = "none" => disk[t] = "none" /\ t # s
  BY <1>1 DEF SessionsOK
<1>4. QED
  BY <1>1, <1>2, <1>3, OpensShape

\* What the quiet steps do to the tables.
Loads ==
    /\ {loaded', home', pending'} \subseteq [Sessions -> DOMAIN proc' \cup {0}]
    /\ \A s \in Sessions : \/ loaded'[s] \in {loaded[s], 0}
                           \/ loaded'[s] \in DOMAIN proc' /\ proc'[loaded'[s]].st = "up"
    /\ \A s \in Sessions : \/ pending'[s] = pending[s]
                           \/ /\ pending[s] = 0 /\ pending'[s] \in DOMAIN proc' /\ slot'[Owner(s)] = pending'[s]
                              /\ proc'[pending'[s]].kind = Owner(s) /\ owner' = owner /\ disk[s] # "none"

LEMMA QuietLoads ==
    ASSUME TypeOK, Tracked, Moving, Attaching, QuietStep, Grows
    PROVE  Loads
<1>0. /\ ProcsOK /\ SessionsOK /\ LoopOK /\ SlotKind
      /\ \A k \in Kinds : slot[k] \in DOMAIN proc \cup {0}
      /\ slot["main"] \in DOMAIN proc
  BY Slots DEF TypeOK, Tracked
<1>1. ASSUME UNCHANGED <<home, pending>>, loaded' \in [Sessions -> DOMAIN proc' \cup {0}], NEW t \in Sessions,
             \A s \in Sessions : s # t => loaded'[s] = loaded[s],
             \/ loaded'[t] \in {loaded[t], 0}
             \/ loaded'[t] \in DOMAIN proc' /\ proc'[loaded'[t]].st = "up"
      PROVE  Loads
  BY <1>0, <1>1 DEF Loads, ProcsOK, Grows
<1>2. ASSUME UNCHANGED <<loaded, home, pending>> PROVE Loads
  BY <1>0, <1>2 DEF Loads, ProcsOK, Grows
<1>3. ASSUME NEW s \in Sessions, NEW p \in DOMAIN proc', Opens(s, p), pending' = pending,
             home' \in [Sessions -> DOMAIN proc' \cup {0}]
      PROVE  Loads
  <2>1. /\ loaded' \in [Sessions -> DOMAIN proc' \cup {0}]
        /\ loaded'[s] = p /\ \A t \in Sessions : t # s => loaded'[t] = loaded[t]
        /\ proc'[p].st = "up"
    BY <1>0, <1>3, OpensShape
  <2>2. pending' \in [Sessions -> DOMAIN proc' \cup {0}]
    BY <1>0, <1>3 DEF ProcsOK, Grows
  <2>3. QED
    BY <1>3, <2>1, <2>2 DEF Loads
<1>4. ASSUME NEW s \in Sessions, NEW p \in DOMAIN proc', Reattached(s, p), pending' = pending
      PROVE  Loads
  BY <1>0, <1>3, <1>4, ReattachedShape DEF Reattached
<1>5. ASSUME NEW s \in Sessions, SessionStep(s) PROVE Loads
  <2>1. CASE NewSession(s)
    <3>1. /\ loaded' = [loaded EXCEPT ![s] = slot.main] /\ home' = [home EXCEPT ![s] = slot.main]
          /\ pending' = pending /\ proc' = proc /\ proc[slot.main].st = "up"
      BY <2>1 DEF NewSession
    <3>2. QED
      BY <1>0, <3>1 DEF Loads, ProcsOK
  <2>2. CASE LoadSession(s)
    <3>1. PICK p \in 1..MaxProcs : Routed(PlacedKind(s), p) /\ (Opens(s, p) \/ loaded' = loaded)
      BY <2>2 DEF LoadSession
    <3>2. p \in DOMAIN proc' /\ UNCHANGED <<home, pending>>
      BY <1>0, <2>2, <3>1, Routes, PlacedKinds DEF LoadSession
    <3>3. home' \in [Sessions -> DOMAIN proc' \cup {0}]
      BY <1>0, <3>2 DEF ProcsOK, Grows
    <3>4. QED
      BY <1>2, <1>3, <3>1, <3>2, <3>3
  <2>3. ASSUME NEW n \in Sessions, ForkSession(s, n) PROVE Loads
    <3>1. PICK p \in 1..MaxProcs : /\ Routed(PlacedKind(s), p)
                                   /\ \/ Opens(n, p) /\ home' = [home EXCEPT ![n] = p]
                                      \/ UNCHANGED <<loaded, home>>
      BY <2>3 DEF ForkSession
    <3>2. p \in DOMAIN proc' /\ pending' = pending
      BY <1>0, <2>3, <3>1, Routes, PlacedKinds DEF ForkSession
    <3>3. home' \in [Sessions -> DOMAIN proc' \cup {0}]
      BY <1>0, <3>1, <3>2 DEF ProcsOK, Grows
    <3>4. QED
      BY <1>2, <1>3, <3>1, <3>2, <3>3
  <2>4. CASE Prompt(s) \/ (\E m \in Modes : RelabelMode(s, m)) \/ TurnEnds(s)
    BY <1>2, <2>4 DEF Prompt, RelabelMode, TurnEnds, procVars
  <2>5. CASE CloseSession(s)
    <3>1. UNCHANGED <<home, pending>> /\ (loaded' = loaded \/ loaded' = [loaded EXCEPT ![s] = 0])
      BY <2>5 DEF CloseSession
    <3>2. loaded' \in [Sessions -> DOMAIN proc' \cup {0}]
      BY <1>0, <3>1 DEF ProcsOK, Grows
    <3>3. QED
      BY <1>0, <1>1, <1>2, <3>1, <3>2 DEF ProcsOK
  <2>6. CASE DeleteSession(s)
    <3>1. PICK p \in 1..MaxProcs :
            /\ Routed(Owner(s), p)
            /\ \/ pending' = [pending EXCEPT ![s] = p] /\ owner' = owner
               \/ pending' = pending
      BY <2>6 DEF DeleteSession
    <3>2. p \in DOMAIN proc' /\ slot'[Owner(s)] = p /\ proc'[p].kind = Owner(s)
      BY <1>0, <3>1, Routes, PlacedKinds
    <3>3. UNCHANGED <<home, loaded>> /\ disk[s] # "none" /\ pending[s] = 0
      BY <2>6 DEF DeleteSession
    <3>4. CASE pending' = pending
      BY <1>2, <3>3, <3>4
    <3>5. CASE pending' = [pending EXCEPT ![s] = p] /\ owner' = owner
      BY <1>0, <3>2, <3>3, <3>5 DEF Loads, ProcsOK, Grows
    <3>6. QED
      BY <3>1, <3>4, <3>5
  <2>7. CASE Attach(s)
    <3>1. slot[loop.kind] \in DOMAIN proc'
      BY <1>0, <2>7, LoopRecord DEF Attach, Attaching, Grows
    <3>2. pending' = pending /\ (Reattached(s, slot[loop.kind]) \/ UNCHANGED <<loaded, home>>)
      BY <2>7 DEF Attach
    <3>3. QED
      BY <1>2, <1>4, <3>1, <3>2
  <2>8. QED
    BY <1>5, <2>1, <2>2, <2>3, <2>4, <2>5, <2>6, <2>7 DEF SessionStep
<1>6. CASE MoveOpens \/ MoveRefused \/ MoveReturns
  <2>1. loop.moving \in Sessions /\ Owner(loop.moving) \in Kinds
    BY <1>0, <1>6, LoopRecord, PlacedKinds DEF Moving, MoveOpens, MoveRefused, MoveReturns
  <2>2. /\ pending' = pending
        /\ \/ UNCHANGED <<loaded, home>>
           \/ \E p \in 1..MaxProcs : Routed(Owner(loop.moving), p) /\ Reattached(loop.moving, p)
    BY <1>6 DEF MoveOpens, MoveRefused, MoveReturns
  <2>3. QED
    BY <1>0, <1>2, <1>4, <2>1, <2>2, Routes
<1>7. CASE AttachDone \/ GivesUpMove
  BY <1>2, <1>7 DEF AttachDone, GivesUpMove, procVars, sessionVars
<1>8. QED
  BY <1>5, <1>6, <1>7, QuietStep DEF QuietStep

LEMMA Hosting ==
    /\ \A m \in Modes : HostForMode(m) \in Kinds
    /\ \A m \in Modes, k \in Kinds : ModeOn(m, k) \in Modes /\ HostForMode(ModeOn(m, k)) = k
BY DEF HostForMode, ModeOn, Kinds

LEMMA SessionsDropped ==
    ASSUME SessionsOK, NEW S, Dropped(S), UNCHANGED disk,
           owner' \in [Sessions -> Kinds \cup {"none"}], saved' \in [Sessions -> Modes]
    PROVE  SessionsOK'
BY DEF SessionsOK, Dropped

LEMMA SessionsForgotten ==
    ASSUME SessionsOK, NEW s \in Sessions, Forget(s), UNCHANGED disk
    PROVE  SessionsOK'
<1>1. Dropped({s}) /\ owner' \in [Sessions -> Kinds \cup {"none"}] /\ saved' \in [Sessions -> Modes]
  BY DEF Forget, SessionsOK
<1>2. QED
  BY <1>1, SessionsDropped

LEMMA SessionsLearned ==
    ASSUME ProcsOK, SessionsOK, NEW s \in Sessions, NEW p \in DOMAIN proc, owner' = Learned(s, p),
           UNCHANGED <<open, mode, lost, saved, disk>>, busy' \subseteq busy
    PROVE  SessionsOK'
<1>1. proc[p].kind \in Kinds
  BY Slots
<1>2. owner' \in [Sessions -> Kinds \cup {"none"}]
  BY <1>1 DEF Learned, SessionsOK
<1>3. QED
  BY <1>2 DEF SessionsOK

LEMMA StepSessions ==
    ASSUME TypeOK, Tracked, Moving, Attaching, Grows, [Next]_vars
    PROVE  SessionsOK'
<1>0. /\ ProcsOK /\ SessionsOK /\ LoopOK /\ SlotKind
      /\ "default" \in Modes
  BY DEF TypeOK, Tracked
<1> USE DEF procVars, sessionVars
<1>1. ASSUME NEW s \in Sessions, SessionStep(s) PROVE SessionsOK'
  <2>1. CASE NewSession(s)
    BY <1>0, <2>1 DEF NewSession, SessionsOK
  <2>2. CASE LoadSession(s)
    <3>1. PlacedKind(s) \in Kinds /\ Placed(s) \in Kinds \cup {"none"}
      BY <1>0, PlacedKinds
    <3>2. ModeOn(saved[s], PlacedKind(s)) \in Modes
      BY <1>0, <3>1, Hosting DEF SessionsOK
    <3>3. owner' \in [Sessions -> Kinds \cup {"none"}] /\ UNCHANGED <<busy, saved, disk>>
      BY <1>0, <2>2, <3>1 DEF LoadSession, SessionsOK
    <3>4. \/ /\ open' = open \cup {s} /\ lost' = lost \ {s}
             /\ mode' = [mode EXCEPT ![s] = IF s \in open THEN @ ELSE ModeOn(saved[s], PlacedKind(s))]
          \/ UNCHANGED <<open, lost, mode>>
      BY <2>2 DEF LoadSession
    <3>5. mode' \in [Sessions -> Modes]
      BY <1>0, <3>2, <3>4 DEF SessionsOK
    <3>6. QED
      BY <1>0, <3>3, <3>4, <3>5 DEF SessionsOK
  <2>3. ASSUME NEW n \in Sessions, ForkSession(s, n) PROVE SessionsOK'
    <3> DEFINE r == ModeOn(Remembered(s), PlacedKind(s))
    <3>1. PlacedKind(s) \in Kinds /\ Placed(s) \in Kinds \cup {"none"}
      BY <1>0, PlacedKinds
    <3>2. r \in Modes
      <4>1. Remembered(s) \in Modes
        BY <1>0 DEF SessionsOK, Remembered
      <4>2. QED
        BY <3>1, <4>1, Hosting
    <3>3. /\ \/ disk' = [disk EXCEPT ![n] = "kept"]
             \/ disk' = disk
          /\ \/ owner' = [owner EXCEPT ![s] = Placed(s), ![n] = PlacedKind(s)]
             \/ owner' = [owner EXCEPT ![s] = Placed(s)]
          /\ \/ saved' = [saved EXCEPT ![n] = r]
             \/ saved' = saved
          /\ \/ open' = open \cup {n} /\ mode' = [mode EXCEPT ![n] = r]
             \/ UNCHANGED <<open, mode>>
          /\ UNCHANGED <<busy, lost>>
      BY <2>3 DEF ForkSession
    <3> HIDE DEF r
    <3>4. QED
      BY <1>0, <3>1, <3>2, <3>3 DEF SessionsOK
  <2>4. CASE Prompt(s) \/ (\E m \in Modes : RelabelMode(s, m))
    BY <1>0, <2>4 DEF Prompt, RelabelMode, SessionsOK
  <2>5. CASE CloseSession(s)
    BY <1>0, <2>5, SessionsDropped DEF CloseSession, SessionsOK
  <2>6. CASE DeleteSession(s)
    BY <1>0, <2>6, SessionsForgotten DEF DeleteSession, SessionsOK
  <2>7. CASE Attach(s)
    <3>1. /\ slot[loop.kind] \in DOMAIN proc' /\ s \in open
      BY <1>0, <2>7, LoopRecord, Slots DEF Attach, Attaching, Grows
    <3>2. disk' \in [Sessions -> {"none", "fresh", "kept", "erased"}]
      BY <1>0, <2>7, <3>1, ReattachedShape DEF Attach, SessionsOK
    <3>3. QED
      BY <1>0, <2>7, <3>1, <3>2 DEF Attach, SessionsOK
  <2>8. CASE TurnEnds(s)
    <3>1. loaded[s] \in DOMAIN proc
      BY <1>0, <2>8 DEF TurnEnds, ProcsOK
    <3>2. QED
      BY <1>0, <2>8, <3>1, SessionsLearned DEF TurnEnds
  <2>9. QED
    BY <1>1, <2>1, <2>2, <2>3, <2>4, <2>5, <2>6, <2>7, <2>8 DEF SessionStep
<1>2. CASE MoveOpens \/ MoveRefused \/ MoveReturns
  <2>1. /\ loop.moving \in Sessions /\ Owner(loop.moving) \in Kinds /\ loop.moving \in open
        /\ loop.target \in Modes /\ loop.kind \in Kinds
    BY <1>0, <1>2, LoopRecord, PlacedKinds DEF Moving, MoveOpens, MoveRefused, MoveReturns
  <2>2. disk' = disk \/ \E p \in 1..MaxProcs : Routed(Owner(loop.moving), p) /\ Reattached(loop.moving, p)
    BY <1>2 DEF MoveOpens, MoveRefused, MoveReturns
  <2>3. disk' \in [Sessions -> {"none", "fresh", "kept", "erased"}]
    <3>1. CASE disk' = disk
      BY <1>0, <3>1 DEF SessionsOK
    <3>2. ASSUME NEW p \in 1..MaxProcs, Routed(Owner(loop.moving), p), Reattached(loop.moving, p)
          PROVE  disk' \in [Sessions -> {"none", "fresh", "kept", "erased"}]
      <4>1. p \in DOMAIN proc'
        BY <1>0, <2>1, <3>2, Routes
      <4>2. QED
        BY <1>0, <2>1, <3>2, <4>1, ReattachedShape
    <3>3. QED
      BY <2>2, <3>1, <3>2
  <2>4. /\ owner' \in [Sessions -> Kinds \cup {"none"}]
        /\ mode' \in [Sessions -> Modes] /\ saved' \in [Sessions -> Modes]
    BY <1>0, <1>2, <2>1 DEF MoveOpens, MoveRefused, MoveReturns, OwnerBack, SessionsOK
  <2>5. /\ UNCHANGED <<open, busy>> /\ lost' \subseteq lost \cup {loop.moving}
    BY <1>2 DEF MoveOpens, MoveRefused, MoveReturns
  <2>6. QED
    BY <1>0, <2>1, <2>3, <2>4, <2>5 DEF SessionsOK
<1>3. CASE AttachDone
  <2>1. HostForMode(loop.target) \in Kinds
    BY <1>0, LoopRecord, Hosting
  <2>2. QED
    BY <1>0, <1>3, <2>1 DEF AttachDone, SessionsOK
<1>4. CASE GivesUpMove \/ Relaunch
  BY <1>0, <1>4 DEF GivesUpMove, Relaunch, SessionsOK
<1>5. CASE EndAdapter
  BY <1>0, <1>5, SessionsDropped DEF EndAdapter, SessionsOK
<1>6. CASE AbandonStep
  BY <1>0, <1>6 DEF AbandonStep, AbandonReadOnly, Owned, SessionsOK
<1>7. ASSUME NEW s \in Sessions, NEW m \in Modes, MoveSession(s, m) PROVE SessionsOK'
  <2>1. owner' \in [Sessions -> Kinds \cup {"none"}]
    BY <1>0, <1>7 DEF MoveSession, SessionsOK, Kinds
  <2>2. UNCHANGED <<open, mode, busy, saved, disk, lost>>
    BY <1>7 DEF MoveSession
  <2>3. QED
    BY <1>0, <2>1, <2>2 DEF SessionsOK
<1>8. ASSUME NEW p \in DOMAIN proc, TakesOutcome(p) PROVE SessionsOK'
  <2>1. Head(out[p]).s \in Sessions /\ UNCHANGED disk
    BY <1>0, <1>8, TakesShape
  <2>2. \/ Forget(Head(out[p]).s)
        \/ owner' = Learned(Head(out[p]).s, p) /\ UNCHANGED <<open, mode, busy, lost, saved>>
    BY <1>8 DEF TakesOutcome, DeleteCompleted, DeleteFailed
  <2>3. QED
    BY <1>0, <2>1, <2>2, SessionsForgotten, SessionsLearned
<1>9. ASSUME NEW p \in DOMAIN proc, ReadOnlyClosed(p) PROVE SessionsOK'
  <2>1. /\ UNCHANGED <<owner, open, mode, saved, disk>>
        /\ \/ UNCHANGED <<busy, lost>>
           \/ busy' = busy \ Owned("ro") /\ lost' = lost \cup Owned("ro")
    BY <1>9 DEF ReadOnlyClosed, AbandonReadOnly
  <2>2. QED
    BY <1>0, <2>1 DEF SessionsOK, Owned
<1>10. ASSUME NEW p \in DOMAIN proc, DropStale(p) \/ MainRestarts(p) \/ HostExits(p) PROVE SessionsOK'
  BY <1>0, <1>10 DEF DropStale, MainRestarts, HostExits, SessionsOK
<1>11. ASSUME NEW s \in Sessions, HostDeletes(s) PROVE SessionsOK'
  <2>1. /\ UNCHANGED <<owner, open, mode, busy, saved, lost>>
        /\ disk' = disk \/ disk' = [disk EXCEPT ![s] = "erased"]
    BY <1>11 DEF HostDeletes
  <2>2. QED
    BY <1>0, <2>1 DEF SessionsOK
<1>12. ASSUME NEW s \in Sessions, NEW m \in Modes, OtherSaves(s, m) PROVE SessionsOK'
  BY <1>0, <1>12 DEF OtherSaves, SessionsOK
<1>13. CASE UNCHANGED vars
  BY <1>0, <1>13 DEF vars, SessionsOK
<1>14. QED
  BY <1>1, <1>2, <1>3, <1>4, <1>5, <1>6, <1>7, <1>8, <1>9, <1>10, <1>11, <1>12, <1>13, NextCases DEF QuietStep

LEMMA StepTables ==
    ASSUME TypeOK, Tracked, Moving, Attaching, Grows, [Next]_vars
    PROVE  Tables'
<1>0. /\ ProcsOK /\ SessionsOK /\ LoopOK /\ Tables
      /\ DOMAIN proc \subseteq DOMAIN proc'
      /\ \A k \in Kinds : slot[k] \in DOMAIN proc \cup {0}
  BY Slots, ProcsParts DEF TypeOK, Grows
<1> USE DEF procVars, sessionVars
<1>1. CASE QuietStep
  BY <1>0, <1>1, QuietLoads, QuietGrows DEF Loads, Tables, Tracked
<1>2. CASE Relaunch \/ AbandonStep
  BY <1>0, <1>2 DEF Relaunch, AbandonStep, Tables
<1>3. CASE EndAdapter
  BY <1>0, <1>3 DEF EndAdapter, Released, Tables
<1>4. ASSUME NEW s \in Sessions, NEW m \in Modes, MoveSession(s, m) PROVE Tables'
  <2>1. Owner(s) \in Kinds
    BY <1>0, Kindred
  <2>2. /\ loaded' = Released({slot[Owner(s)]} \ {0}) /\ retired' = retired \cup ({slot[Owner(s)]} \ {0})
        /\ UNCHANGED <<home, pending>>
    BY <1>4 DEF MoveSession
  <2>3. QED
    BY <1>0, <2>1, <2>2 DEF Released, Tables
<1>5. ASSUME NEW p \in DOMAIN proc, ReadOnlyClosed(p) \/ MainRestarts(p) PROVE Tables'
  <2>1. Reaps(p) /\ UNCHANGED <<home, retired>>
    BY <1>0, <1>5, ReapCases DEF ReadOnlyClosed, MainRestarts
  <2>2. /\ loaded' = Released(Reaped(p)) /\ pending' = FailDeletes(proc[p].kind)
    BY <2>1 DEF Reaps
  <2>3. QED
    BY <1>0, <2>1, <2>2 DEF Released, FailDeletes, Tables
<1>6. ASSUME NEW p \in DOMAIN proc, TakesOutcome(p) PROVE Tables'
  <2>1. Head(out[p]).s \in Sessions /\ UNCHANGED <<loaded, home, retired>>
    BY <1>0, <1>6, TakesShape DEF TakesOutcome, DeleteCompleted, DeleteFailed
  <2>2. pending' = [pending EXCEPT ![Head(out[p]).s] = 0]
    BY <1>6 DEF TakesOutcome, DeleteCompleted, DeleteFailed
  <2>3. QED
    BY <1>0, <2>1, <2>2 DEF Tables
<1>7. ASSUME NEW p \in DOMAIN proc, DropStale(p) \/ HostExits(p) PROVE Tables'
  BY <1>0, <1>7 DEF DropStale, HostExits, Tables
<1>8. ASSUME NEW s \in Sessions, HostDeletes(s) PROVE Tables'
  <2>1. /\ UNCHANGED <<home, pending, retired>>
        /\ loaded' = loaded \/ loaded' = [loaded EXCEPT ![s] = 0]
    BY <1>8 DEF HostDeletes
  <2>2. QED
    BY <1>0, <2>1 DEF Tables
<1>9. ASSUME NEW s \in Sessions, NEW m \in Modes, OtherSaves(s, m) PROVE Tables'
  BY <1>0, <1>9 DEF OtherSaves, Tables
<1>10. CASE UNCHANGED vars
  BY <1>0, <1>10 DEF vars, Tables
<1>11. QED
  BY <1>1, <1>2, <1>3, <1>4, <1>5, <1>6, <1>7, <1>8, <1>9, <1>10, NextCases

LEMMA LoopParts ==
    LoopOK <=> /\ durable \in BOOLEAN /\ rare \in 0..MaxRare
               /\ admitted \in [Kinds -> Seq(0..MaxNow)] /\ now \in 0..MaxNow /\ loop \in LoopStates
BY DEF LoopOK, LoopStates

LEMMA LoopIdle ==
    /\ Idle.at = "idle" /\ Idle.moving = "none" /\ Idle.todo = {} /\ Idle.kind = "main"
    /\ Gone.at = "gone" /\ Gone.moving = "none" /\ Gone.todo = {}
    /\ [Idle EXCEPT !.at = "launch"].at = "launch" /\ [Idle EXCEPT !.at = "launch"].moving = "none"
    /\ [Idle EXCEPT !.at = "launch"].kind = "main" /\ [Idle EXCEPT !.at = "launch"].todo = {}
    /\ Idle \in LoopStates /\ Gone \in LoopStates /\ [Idle EXCEPT !.at = "launch"] \in LoopStates
    /\ [Idle EXCEPT !.at = "launch", !.kind = "ro"] \in LoopStates
    /\ [Idle EXCEPT !.at = "launch", !.kind = "ro"].todo = {}
BY DEF Idle, Gone, LoopStates, Kinds

LEMMA StepLoop ==
    ASSUME TypeOK, Tracked, Moving, [Next]_vars
    PROVE  LoopOK'
<1>0. /\ ProcsOK /\ SessionsOK /\ LoopOK
      /\ durable \in BOOLEAN /\ rare \in 0..MaxRare
      /\ admitted \in [Kinds -> Seq(0..MaxNow)] /\ now \in 0..MaxNow /\ loop \in LoopStates
      /\ MaxRare \in Nat /\ MaxNow \in Nat
  BY LoopParts DEF TypeOK
<1> USE DEF procVars, sessionVars
<1>1. durable' = durable
  <2>1. ASSUME NEW s \in Sessions, SessionStep(s) PROVE durable' = durable
    BY <2>1 DEF SessionStep, NewSession, LoadSession, Prompt, CloseSession, DeleteSession, ForkSession,
                RelabelMode, Attach, TurnEnds
  <2>2. QuietStep => durable' = durable
    BY <2>1 DEF QuietStep, MoveOpens, MoveRefused, MoveReturns, AttachDone, GivesUpMove
  <2>3. ASSUME NEW p \in DOMAIN proc, DropStale(p) \/ TakesOutcome(p) \/ ReadOnlyClosed(p) \/ MainRestarts(p) \/ HostExits(p)
        PROVE  durable' = durable
    BY <2>3 DEF DropStale, TakesOutcome, DeleteCompleted, DeleteFailed, ReadOnlyClosed, MainRestarts, HostExits
  <2>4. QED
    BY <2>2, <2>3, NextCases DEF Relaunch, EndAdapter, AbandonStep, MoveSession, HostDeletes, OtherSaves, vars
<1>2. rare' \in 0..MaxRare
  <2>1. Rare => rare' \in 0..MaxRare
    BY <1>0 DEF Rare
  <2>2. ASSUME NEW s \in Sessions, SessionStep(s) PROVE rare' = rare \/ Rare
    BY <2>2 DEF SessionStep, NewSession, LoadSession, Prompt, CloseSession, DeleteSession, ForkSession,
                RelabelMode, Attach, TurnEnds
  <2>3. QuietStep => rare' = rare \/ Rare
    BY <2>2 DEF QuietStep, MoveOpens, MoveRefused, MoveReturns, AttachDone, GivesUpMove
  <2>4. ASSUME NEW p \in DOMAIN proc, DropStale(p) \/ TakesOutcome(p) \/ ReadOnlyClosed(p) \/ MainRestarts(p) \/ HostExits(p)
        PROVE  rare' = rare \/ Rare
    BY <2>4 DEF DropStale, TakesOutcome, DeleteCompleted, DeleteFailed, ReadOnlyClosed, MainRestarts, HostExits
  <2>5. rare' = rare \/ Rare
    BY <2>3, <2>4, NextCases DEF Relaunch, EndAdapter, AbandonStep, MoveSession, HostDeletes, OtherSaves, vars
  <2>6. QED
    BY <1>0, <2>1, <2>5
<1>3. admitted' \in [Kinds -> Seq(0..MaxNow)] /\ now' \in 0..MaxNow
  <2>1. UNCHANGED <<admitted, now>> => admitted' \in [Kinds -> Seq(0..MaxNow)] /\ now' \in 0..MaxNow
    BY <1>0
  <2>2. ASSUME NEW k \in Kinds, Admit(k) PROVE admitted' \in [Kinds -> Seq(0..MaxNow)] /\ now' \in 0..MaxNow
    <3>1. PICK t \in now..MaxNow : now' = t /\ admitted' = [admitted EXCEPT ![k] = Append(admitted[k], t)]
      BY <2>2 DEF Admit
    <3>2. t \in 0..MaxNow
      BY <1>0
    <3>3. admitted[k] \in Seq(0..MaxNow)
      BY <1>0
    <3>4. Append(admitted[k], t) \in Seq(0..MaxNow)
      BY <3>2, <3>3
    <3>5. QED
      BY <1>0, <3>1, <3>2, <3>4
  <2>3. ASSUME NEW s \in Sessions, SessionStep(s) PROVE UNCHANGED <<admitted, now>>
    BY <2>3 DEF SessionStep, NewSession, LoadSession, Prompt, CloseSession, DeleteSession, ForkSession,
                RelabelMode, Attach, TurnEnds
  <2>4. QuietStep => UNCHANGED <<admitted, now>>
    BY <2>3 DEF QuietStep, MoveOpens, MoveRefused, MoveReturns, AttachDone, GivesUpMove
  <2>5. ASSUME NEW p \in DOMAIN proc, DropStale(p) \/ TakesOutcome(p) \/ ReadOnlyClosed(p) \/ MainRestarts(p) \/ HostExits(p)
        PROVE  UNCHANGED <<admitted, now>> \/ Admit("main") \/ Admit("ro")
    BY <2>5 DEF DropStale, TakesOutcome, DeleteCompleted, DeleteFailed, ReadOnlyClosed, MainRestarts, HostExits
  <2>6. CASE EndAdapter
    <3>1. \A k \in Kinds : <<>> \in Seq(0..MaxNow)
      OBVIOUS
    <3>2. QED
      BY <1>0, <2>6, <3>1 DEF EndAdapter
  <2>7. QED
    <3>1. \/ UNCHANGED <<admitted, now>> \/ Admit("main") \/ Admit("ro") \/ EndAdapter
      BY <2>4, <2>5, NextCases DEF Relaunch, AbandonStep, MoveSession, HostDeletes, OtherSaves, vars
    <3>2. "main" \in Kinds /\ "ro" \in Kinds
      BY DEF Kinds
    <3>3. QED
      BY <2>1, <2>2, <2>6, <3>1, <3>2
<1>4. loop' \in LoopStates'
  <2>1. ASSUME Ready, UNCHANGED loop PROVE loop' \in LoopStates'
    BY <1>0, <2>1 DEF Ready, Idle, LoopStates
  <2>2. ASSUME loop' = Idle \/ loop' = Gone \/ loop' = [Idle EXCEPT !.at = "launch"]
                 \/ loop' = [Idle EXCEPT !.at = "launch", !.kind = "ro"]
        PROVE  loop' \in LoopStates'
    <3>1. \A l \in LoopStates : l.todo = {} => l \in LoopStates'
      BY DEF LoopStates
    <3>2. loop' \in LoopStates /\ loop'.todo = {}
      BY <2>2, LoopIdle
    <3>3. QED
      BY <3>1, <3>2
  <2>3. ASSUME UNCHANGED open, loop' \in LoopStates PROVE loop' \in LoopStates'
    BY <2>3 DEF LoopStates
  <2>4. ASSUME NEW s \in Sessions, SessionStep(s) PROVE loop' \in LoopStates'
    <3>1. CASE Attach(s)
      BY <1>0, <2>3, <3>1, LoopMoves, LoopRecord DEF Attach
    <3>2. CASE ~Attach(s)
      <4>1. Ready /\ UNCHANGED loop
        BY <2>4, <3>2 DEF SessionStep, NewSession, LoadSession, Prompt, CloseSession, DeleteSession,
                          ForkSession, RelabelMode, TurnEnds
      <4>2. QED
        BY <2>1, <4>1
    <3>3. QED
      BY <3>1, <3>2
  <2>5. CASE MoveOpens \/ MoveReturns \/ GivesUpMove \/ AbandonStep \/ EndAdapter
    BY <2>2, <2>5 DEF MoveOpens, MoveReturns, GivesUpMove, AbandonStep, AbandonReadOnly, EndAdapter
  <2>6. CASE MoveRefused \/ AttachDone
    <3>1. loop' = Idle \/ loop' = [loop EXCEPT !.at = "back"] \/ loop' = [loop EXCEPT !.at = "open"]
      BY <2>6 DEF MoveRefused, AttachDone
    <3>2. UNCHANGED open
      BY <2>6 DEF MoveRefused, AttachDone
    <3>3. {} \in SUBSET open
      OBVIOUS
    <3>4. [loop EXCEPT !.at = "back"] \in LoopStates /\ [loop EXCEPT !.at = "open"] \in LoopStates
      BY <1>0, <3>3, LoopMoves
    <3>5. QED
      BY <2>2, <2>3, <3>1, <3>2, <3>4
  <2>7. CASE Relaunch
    <3>1. UNCHANGED open /\ loop' = [loop EXCEPT !.at = "attach", !.todo = AttachList(loop.kind, loop.moving)]
      BY <2>7 DEF Relaunch
    <3>2. AttachList(loop.kind, loop.moving) \in SUBSET open
      BY DEF AttachList, Owned
    <3> DEFINE l == AttachList(loop.kind, loop.moving)
    <3> HIDE DEF l
    <3>3. [loop EXCEPT !.at = "attach", !.todo = l] \in LoopStates
      BY <1>0, <3>2 DEF LoopStates, l
    <3>4. QED
      BY <2>3, <3>1, <3>3 DEF l
  <2>8. ASSUME NEW s \in Sessions, NEW m \in Modes, MoveSession(s, m) PROVE loop' \in LoopStates'
    <3>1. Owner(s) \in Kinds /\ Others(s) \in SUBSET open
      BY <1>0, Kindred DEF Others, Owned
    <3>2. /\ \/ loop' = [at |-> "launch", kind |-> Owner(s), todo |-> Others(s), moving |-> s, target |-> m]
             \/ loop' = [at |-> "open", kind |-> Owner(s), todo |-> {}, moving |-> s, target |-> m]
          /\ UNCHANGED open
      BY <2>8 DEF MoveSession, Others
    <3>3. loop' \in LoopStates
      BY <3>1, <3>2 DEF LoopStates
    <3>4. QED
      BY <2>3, <3>2, <3>3
  <2>9. ASSUME NEW p \in DOMAIN proc, DropStale(p) \/ TakesOutcome(p) \/ ReadOnlyClosed(p) \/ MainRestarts(p)
        PROVE  loop' \in LoopStates'
    <3>1. \/ Ready /\ UNCHANGED loop
          \/ loop' = Idle \/ loop' = [Idle EXCEPT !.at = "launch"]
          \/ loop' = [Idle EXCEPT !.at = "launch", !.kind = "ro"]
      BY <2>9 DEF DropStale, TakesOutcome, DeleteCompleted, DeleteFailed, ReadOnlyClosed, AbandonReadOnly, Reads, MainRestarts
    <3>2. QED
      BY <2>1, <2>2, <3>1
  <2>10. ASSUME UNCHANGED <<open, loop>> PROVE loop' \in LoopStates'
    BY <1>0, <2>3, <2>10
  <2>11. ((\E p \in DOMAIN proc : HostExits(p)) \/ (\E s \in Sessions : HostDeletes(s) \/ \E m \in Modes : OtherSaves(s, m))
            \/ UNCHANGED vars)
         => UNCHANGED <<open, loop>>
    BY DEF HostExits, HostDeletes, OtherSaves, vars
  <2>12. QED
    BY <2>4, <2>5, <2>6, <2>7, <2>8, <2>9, <2>10, <2>11, NextCases DEF QuietStep
<1>5. QED
  BY <1>0, <1>1, <1>2, <1>3, <1>4 DEF LoopOK, LoopStates

LEMMA StepType ==
    ASSUME TypeOK, Tracked, Moving, Attaching, [Next]_vars
    PROVE  TypeOK' /\ Grows
<1>1. Grows
  BY StepLists
<1>2. Lists' /\ Tables'
  BY <1>1, StepTables DEF Grows
<1>3. ProcsOK'
  BY <1>2 DEF ProcsOK, Lists, Tables
<1>4. QED
  BY <1>1, <1>3, StepSessions, StepLoop DEF TypeOK

-----------------------------------------------------------------------------
(* No session is held by a dead process.                                     *)

LEMMA StepHolders ==
    ASSUME TypeOK, Tracked, Moving, Attaching, Holders, [Next]_vars
    PROVE  Holders'
<1>0. /\ ProcsOK /\ SessionsOK /\ LoopOK /\ Grows
      /\ \A s \in Sessions : loaded[s] \in DOMAIN proc \cup {0}
      /\ \A k \in Kinds : slot[k] \in DOMAIN proc \cup {0}
      /\ 0 \notin DOMAIN proc
  BY Slots, StepLists DEF TypeOK, ProcsOK
<1> USE DEF procVars, sessionVars
<1>1. CASE QuietStep
  <2>1. Loads /\ Grown
    BY <1>0, <1>1, QuietLoads, QuietGrows DEF Tracked
  <2>2. QED
    BY <1>0, <2>1 DEF Loads, Grown, Holders
<1>2. CASE Relaunch
  <2>1. PICK p : Launch(loop.kind, p)
    BY <1>2 DEF Relaunch
  <2>2. \A q \in DOMAIN proc : proc'[q] = proc[q]
    BY <1>0, <2>1, LoopRecord, Launches
  <2>3. QED
    BY <1>0, <1>2, <2>2 DEF Relaunch, Holders
<1>3. CASE EndAdapter
  <2>1. ASSUME NEW s \in Sessions, loaded'[s] # 0 PROVE FALSE
    <3>1. loaded[s] \notin Current /\ loaded[s] # 0
      BY <1>3, <2>1 DEF EndAdapter, Released
    <3>2. loaded[s] \in DOMAIN proc /\ slot[proc[loaded[s]].kind] = loaded[s] /\ proc[loaded[s]].kind \in Kinds
      BY <1>0, <3>1, Slots DEF Holders, Tracked, NoLeakedHost, IsCurrent
    <3>3. QED
      BY <1>0, <3>1, <3>2 DEF Current
  <2>2. QED
    BY <2>1 DEF Holders
<1>4. ASSUME NEW s \in Sessions, NEW m \in Modes, MoveSession(s, m) PROVE Holders'
  <2>1. \A q \in DOMAIN proc : q # slot[Owner(s)] => proc'[q] = proc[q]
    BY <1>0, <1>4, Moves
  <2>2. loaded' = Released({slot[Owner(s)]} \ {0})
    BY <1>4 DEF MoveSession
  <2>3. QED
    BY <1>0, <2>1, <2>2 DEF Released, Holders
<1>5. ASSUME NEW p \in DOMAIN proc, ReadOnlyClosed(p) \/ MainRestarts(p) PROVE Holders'
  <2>1. Reaps(p)
    BY <1>0, <1>5, ReapCases
  <2>2. QED
    BY SMTT(30), <1>0, <2>1, ReapsOne DEF Holders
<1>6. ASSUME NEW p \in DOMAIN proc, TakesOutcome(p) PROVE Holders'
  BY <1>0, <1>6, TakesShape DEF Holders
<1>7. ASSUME NEW p \in DOMAIN proc, HostExits(p) PROVE Holders'
  BY <1>0, <1>7, ExitsShape DEF Holders
<1>8. ASSUME NEW s \in Sessions, HostDeletes(s) PROVE Holders'
  <2>1. proc' = proc /\ (loaded' = loaded \/ loaded' = [loaded EXCEPT ![s] = 0])
    BY <1>8 DEF HostDeletes
  <2>2. QED
    BY <1>0, <2>1 DEF Holders, ProcsOK
<1>9. ASSUME UNCHANGED <<proc, loaded>> PROVE Holders'
  BY <1>9 DEF Holders
<1>10. /\ AbandonStep => UNCHANGED <<proc, loaded>>
       /\ \A p \in DOMAIN proc : DropStale(p) => UNCHANGED <<proc, loaded>>
       /\ \A s \in Sessions, m \in Modes : OtherSaves(s, m) => UNCHANGED <<proc, loaded>>
       /\ UNCHANGED vars => UNCHANGED <<proc, loaded>>
  BY DEF AbandonStep, DropStale, OtherSaves, vars
<1>11. QED
  BY <1>1, <1>2, <1>3, <1>4, <1>5, <1>6, <1>7, <1>8, <1>9, <1>10, NextCases

-----------------------------------------------------------------------------
(* Deletes and their outcomes.                                               *)

\* A session that does not exist yet is left alone, except when it is created.
Births ==
    \A t \in Sessions : disk'[t] = "none" =>
        /\ disk[t] = "none" /\ owner'[t] = owner[t] /\ loaded'[t] \in {loaded[t], 0}
        /\ (t \in open' => t \in open) /\ pending'[t] \in {pending[t], 0}

LEMMA UnbornStays ==
    ASSUME Unborn, Births
    PROVE  Unborn'
BY DEF Unborn, Births

\* A session loses its owner when it is forgotten.
Disowns == \A t \in Sessions : owner'[t] = "none" => owner[t] = "none" \/ pending'[t] = 0

LEMMA QuietBirths ==
    ASSUME TypeOK, Tracked, Moving, Attaching, Unborn, QuietStep, Grows
    PROVE  Births /\ Disowns
<1>0. /\ ProcsOK /\ SessionsOK /\ LoopOK /\ SlotKind
      /\ \A k \in Kinds : slot[k] \in DOMAIN proc \cup {0}
      /\ \A t \in Sessions : t \in open \/ Exists(t) => disk[t] # "none"
      /\ "none" \notin Kinds
  BY Slots DEF TypeOK, Tracked, Unborn, Exists, Kinds
<1> USE DEF procVars, sessionVars
<1>1. ASSUME NEW s \in Sessions, disk[s] # "none" \/ disk'[s] # "none",
             \A t \in Sessions : t # s => /\ disk'[t] = "none" => disk[t] = "none"
                                          /\ owner'[t] = owner[t] /\ loaded'[t] = loaded[t]
                                          /\ t \in open' => t \in open
                                          /\ pending'[t] = pending[t],
             disk'[s] = "none" => disk[s] = "none", owner'[s] = "none" => owner[s] = "none" \/ pending'[s] = 0
      PROVE  Births /\ Disowns
  BY <1>1 DEF Births, Disowns
<1>2. ASSUME NEW s \in Sessions, NEW p \in DOMAIN proc', Opens(s, p)
      PROVE  \A t \in Sessions : t # s => loaded'[t] = loaded[t]
  BY <1>0, <1>2, OpensShape
<1>3. ASSUME NEW s \in Sessions, NEW p \in DOMAIN proc', Reattached(s, p)
      PROVE  /\ \A t \in Sessions : t # s => loaded'[t] = loaded[t]
             /\ \A t \in Sessions : disk'[t] = "none" => disk[t] = "none"
  BY <1>0, <1>3, ReattachedShape
<1>4. ASSUME NEW s \in Sessions, SessionStep(s) PROVE Births /\ Disowns
  <2>1. CASE NewSession(s)
    <3>1. /\ disk' = [disk EXCEPT ![s] = "fresh"] /\ open' = open \cup {s}
          /\ loaded' = [loaded EXCEPT ![s] = slot.main] /\ UNCHANGED <<owner, pending>>
      BY <2>1 DEF NewSession
    <3>2. QED
      BY <1>0, <1>1, <3>1 DEF SessionsOK, ProcsOK
  <2>2. CASE LoadSession(s)
    <3>1. PICK p \in 1..MaxProcs : Routed(PlacedKind(s), p) /\ (Opens(s, p) \/ loaded' = loaded)
      BY <2>2 DEF LoadSession
    <3>2. p \in DOMAIN proc'
      BY <1>0, <3>1, Routes, PlacedKinds
    <3>3. \A t \in Sessions : t # s => loaded'[t] = loaded[t]
      BY <1>2, <3>1, <3>2
    <3>4. /\ UNCHANGED <<disk, pending>> /\ owner' = [owner EXCEPT ![s] = Placed(s)]
          /\ open' = open \/ open' = open \cup {s}
          /\ disk[s] # "none"
      BY <1>0, <2>2 DEF LoadSession
    <3>5. Placed(s) = "none" => owner[s] = "none"
      BY <1>0 DEF Placed
    <3>6. QED
      BY <1>0, <1>1, <3>3, <3>4, <3>5 DEF SessionsOK
  <2>3. ASSUME NEW n \in Sessions, ForkSession(s, n) PROVE Births /\ Disowns
    <3>1. PICK p \in 1..MaxProcs :
            /\ Routed(PlacedKind(s), p)
            /\ \/ /\ Opens(n, p) /\ disk' = [disk EXCEPT ![n] = "kept"]
                  /\ owner' = [owner EXCEPT ![s] = Placed(s), ![n] = PlacedKind(s)]
               \/ owner' = [owner EXCEPT ![s] = Placed(s)] /\ UNCHANGED <<loaded, disk, open>>
            /\ open' = open \/ open' = open \cup {n}
      BY <2>3 DEF ForkSession
    <3>2. p \in DOMAIN proc' /\ PlacedKind(s) \in Kinds
      BY <1>0, <3>1, Routes, PlacedKinds
    <3>3. UNCHANGED pending /\ disk[s] # "none" /\ n # s
      BY <1>0, <2>3 DEF ForkSession
    <3>4. Placed(s) = "none" => owner[s] = "none"
      BY <1>0 DEF Placed
    <3>5. CASE owner' = [owner EXCEPT ![s] = Placed(s)] /\ UNCHANGED <<loaded, disk, open>>
      BY <1>0, <1>1, <3>3, <3>4, <3>5 DEF SessionsOK
    <3>6. CASE Opens(n, p) /\ disk' = [disk EXCEPT ![n] = "kept"]
               /\ owner' = [owner EXCEPT ![s] = Placed(s), ![n] = PlacedKind(s)]
      <4>1. \A t \in Sessions : t # n => loaded'[t] = loaded[t]
        BY <1>2, <3>2, <3>6
      <4>2. disk'[n] = "kept" /\ \A t \in Sessions : t # n => disk'[t] = disk[t]
        BY <1>0, <3>6 DEF SessionsOK
      <4>3. /\ owner'[n] = PlacedKind(s) /\ owner'[s] = Placed(s)
            /\ \A t \in Sessions : t # n /\ t # s => owner'[t] = owner[t]
        BY <1>0, <3>3, <3>6 DEF SessionsOK
      <4>4. Births
        BY <3>1, <3>3, <4>1, <4>2, <4>3 DEF Births
      <4>5. Disowns
        BY <1>0, <3>2, <3>4, <4>3 DEF Disowns
      <4>6. QED
        BY <4>4, <4>5
    <3>7. QED
      BY <3>1, <3>5, <3>6
  <2>4. CASE Prompt(s)
    <3>1. /\ disk' = disk \/ disk' = [disk EXCEPT ![s] = "kept"]
          /\ UNCHANGED <<owner, loaded, open, pending>> /\ disk[s] # "none"
      BY <1>0, <2>4 DEF Prompt
    <3>2. QED
      BY <1>0, <1>1, <3>1 DEF SessionsOK
  <2>5. CASE CloseSession(s)
    <3>1. /\ UNCHANGED <<owner, disk, pending>> /\ disk[s] # "none" /\ open' = open \ {s}
          /\ loaded' = loaded \/ loaded' = [loaded EXCEPT ![s] = 0]
      BY <1>0, <2>5 DEF CloseSession, Dropped
    <3>2. QED
      BY <1>0, <1>1, <3>1 DEF ProcsOK
  <2>6. CASE DeleteSession(s)
    <3>1. /\ UNCHANGED <<disk, loaded>> /\ disk[s] # "none" /\ pending[s] = 0
          /\ \/ (\E p \in 1..MaxProcs : pending' = [pending EXCEPT ![s] = p]) /\ UNCHANGED <<open, owner>>
             \/ pending' = pending /\ open' = open \ {s} /\ owner' = [owner EXCEPT ![s] = "none"]
      BY <2>6 DEF DeleteSession, Forget, Dropped
    <3>2. \A t \in Sessions : t # s => pending'[t] = pending[t] /\ owner'[t] = owner[t]
      BY <1>0, <3>1 DEF ProcsOK, SessionsOK
    <3>3. owner'[s] = "none" => owner[s] = "none" \/ pending'[s] = 0
      BY <1>0, <3>1 DEF ProcsOK, SessionsOK
    <3>4. open' \subseteq open
      BY <3>1
    <3>5. QED
      BY <1>1, <3>1, <3>2, <3>3, <3>4
  <2>7. CASE \E m \in Modes : RelabelMode(s, m)
    BY <1>0, <1>1, <2>7 DEF RelabelMode
  <2>8. CASE Attach(s)
    <3>1. slot[loop.kind] \in DOMAIN proc' /\ disk[s] # "none"
      BY <1>0, <2>8, LoopRecord DEF Attach, Attaching, Grows
    <3>2. /\ UNCHANGED <<owner, open, pending>>
          /\ Reattached(s, slot[loop.kind]) \/ UNCHANGED <<loaded, disk>>
      BY <2>8 DEF Attach
    <3>3. QED
      BY <1>1, <1>3, <3>1, <3>2
  <2>9. CASE TurnEnds(s)
    <3>1. /\ UNCHANGED <<disk, loaded, open, pending>> /\ owner' = Learned(s, loaded[s]) /\ s \in open
      BY <1>0, <2>9 DEF TurnEnds, SessionsOK
    <3>2. /\ \A t \in Sessions : t # s => owner'[t] = owner[t]
          /\ owner[s] # "none" => owner'[s] = owner[s]
      BY <1>0, <3>1 DEF Learned, SessionsOK
    <3>3. QED
      BY <1>0, <1>1, <3>1, <3>2
  <2>10. QED
    BY <1>4, <2>1, <2>2, <2>3, <2>4, <2>5, <2>6, <2>7, <2>8, <2>9 DEF SessionStep
<1>5. CASE MoveOpens \/ MoveRefused \/ MoveReturns
  <2>1. /\ loop.moving \in Sessions /\ Owner(loop.moving) \in Kinds /\ disk[loop.moving] # "none"
        /\ loop.kind \in Kinds
    BY <1>0, <1>5, LoopRecord, PlacedKinds DEF Moving, MoveOpens, MoveRefused, MoveReturns
  <2>2. /\ pending' = pending /\ open' = open
        /\ owner' = owner \/ owner' = [owner EXCEPT ![loop.moving] = loop.kind]
        /\ \/ UNCHANGED <<loaded, disk>>
           \/ \E p \in 1..MaxProcs : Routed(Owner(loop.moving), p) /\ Reattached(loop.moving, p)
    BY <1>5 DEF MoveOpens, MoveRefused, MoveReturns, OwnerBack
  <2>3. /\ \A t \in Sessions : t # loop.moving => loaded'[t] = loaded[t]
        /\ \A t \in Sessions : disk'[t] = "none" => disk[t] = "none"
    BY <1>0, <1>3, <2>1, <2>2, Routes
  <2>4. /\ \A t \in Sessions : t # loop.moving => owner'[t] = owner[t]
        /\ owner'[loop.moving] = "none" => owner[loop.moving] = "none"
    BY <1>0, <2>1, <2>2 DEF SessionsOK
  <2>5. QED
    BY <1>1, <2>1, <2>2, <2>3, <2>4
<1>6. CASE AttachDone
  <2>1. CASE loop.moving = "none"
    BY <1>6, <2>1 DEF AttachDone, Births, Disowns
  <2>2. CASE loop.moving # "none"
    <3>1. /\ loop.moving \in Sessions /\ disk[loop.moving] # "none"
      BY <1>0, <2>2, LoopRecord DEF Moving
    <3>2. /\ UNCHANGED <<disk, loaded, open, pending>>
          /\ owner' = [owner EXCEPT ![loop.moving] = HostForMode(loop.target)]
      BY <1>6, <2>2 DEF AttachDone
    <3>3. HostForMode(loop.target) # "none"
      BY DEF HostForMode
    <3>4. QED
      BY <1>0, <1>1, <3>1, <3>2, <3>3 DEF SessionsOK
  <2>3. QED
    BY <2>1, <2>2
<1>7. CASE GivesUpMove
  BY <1>7 DEF GivesUpMove, Births, Disowns
<1>8. QED
  BY <1>4, <1>5, <1>6, <1>7 DEF QuietStep

LEMMA AnswerableQuiet ==
    ASSUME TypeOK, Tracked, Moving, Attaching, Answerable, QuietStep
    PROVE  Answerable'
<1>0. /\ ProcsOK /\ SessionsOK /\ LoopOK
      /\ \A k \in Kinds : slot[k] \in DOMAIN proc \cup {0}
      /\ 0 \notin DOMAIN proc
      /\ \A s \in Sessions : pending[s] \in DOMAIN proc \cup {0}
      /\ \A p \in DOMAIN proc : proc[p].kind \in Kinds
      /\ \A p \in DOMAIN proc : \A e \in Said(out[p]) : Outcome(e) => e.s \in Sessions
  <2>1. ProcsOK
    BY DEF TypeOK
  <2>2. \A p \in DOMAIN proc : out[p] \in Seq(Events)
    BY <2>1, Slots
  <2>3. \A p \in DOMAIN proc : \A e \in Said(out[p]) : e \in Events
    BY <2>2 DEF Said
  <2>4. \A e \in Events : Outcome(e) => e.s \in Sessions
    BY DEF Events, Outcome
  <2>5. QED
    BY <2>1, <2>3, <2>4, Slots DEF TypeOK, ProcsOK
<1>1. Grown /\ LoopQuiet /\ retired' = retired
  BY QuietGrows DEF Tracked
<1>2. Grows
  BY <1>1 DEF Grown, Grows
<1>3. Loads /\ Births /\ Disowns
  BY <1>2, QuietLoads, QuietBirths DEF Answerable
<1>4. Unborn'
  BY <1>3, UnbornStays DEF Answerable
<1>5. ASSUME NEW p \in DOMAIN proc, IsCurrent(p) PROVE IsCurrent(p)' /\ proc'[p] = proc[p]
  BY <1>0, <1>1, <1>5 DEF Grown, IsCurrent
<1>6. ASSUME NEW p \in DOMAIN proc', IsCurrent(p)', ~Handled(proc[p].kind)', NEW e \in Said(out'[p]), Outcome(e)
      PROVE  pending'[e.s] = p
  <2>1. p \in DOMAIN proc
    BY <1>1, <1>6, Silence DEF Grown
  <2>2. proc'[p] = proc[p] /\ out'[p] = out[p]
    BY <1>1, <2>1 DEF Grown
  <2>3. IsCurrent(p)
    BY <1>0, <1>1, <1>6, <2>1, <2>2 DEF Grown, IsCurrent
  <2>4. ~Handled(proc[p].kind)
    BY <1>1 DEF LoopQuiet, Handling, Handled
  <2>5. pending[e.s] = p /\ e.s \in Sessions
    BY <1>0, <1>6, <2>1, <2>2, <2>3, <2>4 DEF Answerable, Outcomes
  <2>6. QED
    BY <1>0, <1>3, <2>1, <2>5 DEF Loads
<1>7. ASSUME NEW s \in Sessions, pending'[s] # 0
      PROVE  /\ \/ pending'[s] \in retired'
                \/ slot'[proc'[pending'[s]].kind] = pending'[s]
             /\ owner'[s] = "none" => proc'[pending'[s]].kind = "main"
  <2>1. CASE pending'[s] = pending[s]
    <3>1. /\ pending[s] \in retired \/ IsCurrent(pending[s])
          /\ owner[s] = "none" => proc[pending[s]].kind = "main"
          /\ pending[s] \in DOMAIN proc
      BY <1>0, <1>7, <2>1 DEF Answerable, Deletes
    <3>2. owner'[s] = "none" => owner[s] = "none"
      BY <1>3, <1>7 DEF Disowns
    <3>3. proc'[pending[s]] = proc[pending[s]]
      BY <1>1, <3>1 DEF Grown
    <3>4. pending[s] \in retired' \/ slot'[proc'[pending[s]].kind] = pending[s]
      BY <1>1, <1>5, <3>1 DEF IsCurrent
    <3>5. QED
      BY <2>1, <3>1, <3>2, <3>3, <3>4
  <2>2. CASE pending'[s] # pending[s]
    <3>1. /\ slot'[Owner(s)] = pending'[s] /\ proc'[pending'[s]].kind = Owner(s) /\ owner' = owner
      BY <1>3, <2>2 DEF Loads
    <3>2. QED
      BY <3>1 DEF Owner
  <2>3. QED
    BY <2>1, <2>2
<1>8. Outcomes'
  BY <1>6 DEF Outcomes
<1>9. Deletes'
  BY <1>1, <1>7 DEF Deletes, LoopQuiet, IsCurrent
<1>10. QED
  BY <1>4, <1>8, <1>9 DEF Answerable

LEMMA StepAnswerable ==
    ASSUME TypeOK, Tracked, Moving, Attaching, Answerable, [Next]_vars
    PROVE  Answerable'
<1>0. /\ ProcsOK /\ SessionsOK /\ LoopOK
      /\ \A k \in Kinds : slot[k] \in DOMAIN proc \cup {0}
      /\ 0 \notin DOMAIN proc
      /\ \A s \in Sessions : pending[s] \in DOMAIN proc \cup {0}
      /\ \A p \in DOMAIN proc : proc[p].kind \in Kinds
      /\ \A p \in DOMAIN proc : \A e \in Said(out[p]) : Outcome(e) => e.s \in Sessions
      /\ loop.kind \in Kinds
  <2>1. ProcsOK /\ loop.kind \in Kinds
    BY LoopRecord DEF TypeOK
  <2>2. \A p \in DOMAIN proc : out[p] \in Seq(Events)
    BY <2>1, Slots
  <2>3. \A p \in DOMAIN proc : \A e \in Said(out[p]) : e \in Events
    BY <2>2 DEF Said
  <2>4. \A e \in Events : Outcome(e) => e.s \in Sessions
    BY DEF Events, Outcome
  <2>5. QED
    BY <2>1, <2>3, <2>4, Slots DEF TypeOK, ProcsOK
<1>01. Outcomes /\ Deletes /\ Unborn
  BY DEF Answerable
<1> USE DEF procVars, sessionVars
<1>1. CASE QuietStep
  BY <1>1, AnswerableQuiet
<1>2. CASE Relaunch
  <2>1. /\ UNCHANGED <<owner, pending, disk, open, loaded, retired>> /\ loop.at = "launch" /\ loop'.at = "attach"
        /\ \E p \in 1..MaxProcs :
             /\ p \notin DOMAIN proc /\ p # 0 /\ DOMAIN proc' = DOMAIN proc \cup {p}
             /\ \A q \in DOMAIN proc : proc'[q] = proc[q] /\ out'[q] = out[q]
             /\ proc'[p].kind = loop.kind /\ proc'[p].st = "up" /\ out'[p] = <<>>
             /\ slot'[loop.kind] = p /\ \A j \in Kinds : j # loop.kind => slot'[j] = slot[j]
    BY <1>0, <1>2, RelaunchShape
  <2>2. PICK p \in 1..MaxProcs :
             /\ p \notin DOMAIN proc /\ p # 0 /\ DOMAIN proc' = DOMAIN proc \cup {p}
             /\ \A q \in DOMAIN proc : proc'[q] = proc[q] /\ out'[q] = out[q]
             /\ proc'[p].kind = loop.kind /\ proc'[p].st = "up" /\ out'[p] = <<>>
             /\ slot'[loop.kind] = p /\ \A j \in Kinds : j # loop.kind => slot'[j] = slot[j]
    BY <2>1
  <2>3. UNCHANGED <<owner, pending, disk, open, loaded, retired>> /\ loop.at = "launch" /\ loop'.at = "attach"
    BY <2>1
  <2>4. Unborn'
    BY <1>01, <2>3 DEF Unborn
  <2>5. Deletes'
    BY <1>0, <1>01, <2>2, <2>3 DEF Deletes, IsCurrent
  <2>6. ASSUME NEW q \in DOMAIN proc', slot'[proc'[q].kind] = q, NEW e \in Said(out'[q]), Outcome(e)
        PROVE  pending'[e.s] = q
    <3>1. q \in DOMAIN proc
      BY <2>2, <2>6, Silence
    <3>2. proc[q].kind # loop.kind /\ slot[proc[q].kind] = q
      BY <1>0, <2>2, <2>6, <3>1
    <3>3. QED
      BY <1>0, <1>01, <2>2, <2>3, <2>6, <3>1, <3>2 DEF Outcomes, IsCurrent, Handled
  <2>7. QED
    BY <2>4, <2>5, <2>6 DEF Answerable, Outcomes, IsCurrent
<1>3. CASE EndAdapter
  <2>1. /\ DOMAIN proc' = DOMAIN proc /\ \A p \in DOMAIN proc : out'[p] = <<>>
    BY <1>0, <1>3, Ends DEF Tracked
  <2>2. /\ \A s \in Sessions : pending'[s] = 0 /\ owner'[s] = "none" /\ loaded'[s] \in {loaded[s], 0}
        /\ open' = {} /\ disk' = disk
    BY <1>3 DEF EndAdapter, Released, Dropped
  <2>3. Outcomes'
    BY <2>1, Silence DEF Outcomes
  <2>4. QED
    BY <1>01, <2>2, <2>3 DEF Answerable, Deletes, Unborn
<1>4. CASE AbandonStep
  <2>1. /\ UNCHANGED <<proc, out, loaded, owner, open, disk, pending, retired>>
        /\ slot'["ro"] = 0 /\ slot'["main"] = slot["main"] /\ loop' = Idle
        /\ loop.at = "launch" /\ loop.kind = "ro"
    BY <1>0, <1>4, Slots DEF AbandonStep, AbandonReadOnly, Kinds
  <2>2. Unborn'
    BY <1>01, <2>1 DEF Unborn
  <2>3. Deletes'
    BY <1>0, <1>01, <2>1, LoopIdle DEF Deletes, IsCurrent, Kinds
  <2>4. ASSUME NEW q \in DOMAIN proc, slot'[proc[q].kind] = q PROVE proc[q].kind = "main" /\ slot["main"] = q
    BY <1>0, <2>1, <2>4 DEF Kinds
  <2>5. Outcomes'
    BY <1>0, <1>01, <2>1, <2>4 DEF Outcomes, IsCurrent, Handled
  <2>6. QED
    BY <2>2, <2>3, <2>5 DEF Answerable
<1>5. ASSUME NEW s \in Sessions, NEW m \in Modes, MoveSession(s, m) PROVE Answerable'
  <2>0. Owner(s) \in Kinds
    BY <1>0, Kindred
  <2>1. /\ UNCHANGED <<open, disk, pending>> /\ retired' = retired \cup ({slot[Owner(s)]} \ {0})
        /\ loaded' = Released({slot[Owner(s)]} \ {0})
        /\ owner' = owner \/ owner' = [owner EXCEPT ![s] = "main"]
        /\ s \in open /\ loop.at = "idle"
        /\ loop'.kind = Owner(s) /\ loop'.moving = s /\ s # "none"
    BY <1>5 DEF MoveSession, Ready, Idle
  <2>2. /\ DOMAIN proc \subseteq DOMAIN proc'
        /\ \A q \in DOMAIN proc :
              /\ proc'[q].kind = proc[q].kind
              /\ q = slot[Owner(s)] /\ proc[q].st = "up" => Said(out'[q]) = Said(out[q]) \cup {Closed}
              /\ q # slot[Owner(s)] \/ proc[q].st # "up" => out'[q] = out[q]
        /\ \A q \in DOMAIN proc' \ DOMAIN proc :
              Starts(s) /\ proc'[q].kind = "ro" /\ out'[q] = <<>> /\ slot'["ro"] = q
        /\ slot'["main"] = slot["main"]
        /\ slot'["ro"] = slot["ro"] \/ slot'["ro"] \in DOMAIN proc' \ DOMAIN proc
             \/ (slot'["ro"] = 0 /\ Owner(s) = "ro" /\ Others(s) = {})
    <3>1. ProcsOK /\ SessionsOK
      BY <1>0
    <3>2. \A q \in DOMAIN proc :
              /\ proc'[q].kind = proc[q].kind
              /\ q = slot[Owner(s)] /\ proc[q].st = "up" => Said(out'[q]) = Said(out[q]) \cup {Closed}
              /\ q # slot[Owner(s)] \/ proc[q].st # "up" => out'[q] = out[q]
      BY <1>5, <3>1, Moves
    <3>3. \A q \in DOMAIN proc' \ DOMAIN proc :
              Starts(s) /\ proc'[q].kind = "ro" /\ out'[q] = <<>> /\ slot'["ro"] = q
      BY <1>5, <3>1, Moves
    <3>4. /\ DOMAIN proc \subseteq DOMAIN proc'
          /\ slot'["main"] = slot["main"]
          /\ slot'["ro"] = slot["ro"] \/ slot'["ro"] \in DOMAIN proc' \ DOMAIN proc
               \/ (slot'["ro"] = 0 /\ Owner(s) = "ro" /\ Others(s) = {})
      BY <1>5, <3>1, Moves
    <3>5. QED
      BY <3>2, <3>3, <3>4
  <2>3. Unborn'
    <3>1. \A t \in Sessions : loaded'[t] \in {loaded[t], 0}
      BY <2>1 DEF Released
    <3>2. \A t \in Sessions : t # s => owner'[t] = owner[t]
      BY <1>0, <2>1 DEF SessionsOK
    <3>3. QED
      BY <1>01, <2>1, <3>1, <3>2 DEF Unborn
  <2>4. \A q \in DOMAIN proc : q # slot[Owner(s)] /\ IsCurrent(q) => slot'[proc'[q].kind] = q /\ proc[q].kind # Owner(s)
    <3>1. ASSUME NEW q \in DOMAIN proc, q # slot[Owner(s)], slot[proc[q].kind] = q PROVE slot'[proc[q].kind] = q
      <4>1. proc[q].kind # Owner(s) /\ q # 0
        BY <1>0, <3>1
      <4>2. CASE proc[q].kind = "main"
        BY <2>2, <3>1, <4>2
      <4>3. CASE proc[q].kind = "ro"
        BY <2>2, <3>1, <4>1, <4>3 DEF Starts
      <4>4. QED
        BY <1>0, <4>2, <4>3 DEF Kinds
    <3>2. QED
      BY <2>2, <3>1 DEF IsCurrent
  <2>5. Deletes'
    <3>1. ASSUME NEW t \in Sessions, pending[t] # 0
          PROVE  /\ \/ pending[t] \in retired'
                    \/ IsCurrent(pending[t])' /\ proc'[pending[t]].kind # Owner(s)
                 /\ owner'[t] = "none" => proc'[pending[t]].kind = "main"
      <4>1. /\ pending[t] \in retired \/ IsCurrent(pending[t])
            /\ owner[t] = "none" => proc[pending[t]].kind = "main"
            /\ pending[t] \in DOMAIN proc
        BY <1>0, <1>01, <3>1 DEF Deletes
      <4>2. owner'[t] = "none" => owner[t] = "none"
        BY <1>0, <2>1 DEF SessionsOK
      <4>3. CASE pending[t] = slot[Owner(s)]
        BY <2>1, <2>2, <3>1, <4>1, <4>2, <4>3
      <4>4. CASE pending[t] # slot[Owner(s)]
        BY <2>1, <2>2, <2>4, <4>1, <4>2, <4>4 DEF IsCurrent
      <4>5. QED
        BY <4>3, <4>4
    <3>2. QED
      BY <2>1, <3>1 DEF Deletes
  <2>6. ASSUME NEW q \in DOMAIN proc', slot'[proc'[q].kind] = q, NEW e \in Said(out'[q]), Outcome(e)
        PROVE  pending'[e.s] = q
    <3>1. q \in DOMAIN proc
      BY <2>2, <2>6, Silence
    <3>2. e \in Said(out[q])
      BY <2>2, <2>6, <3>1 DEF Outcome, Closed
    <3>3. slot[proc[q].kind] = q
      BY <1>0, <2>2, <2>6, <3>1 DEF Kinds
    <3>4. ~Handled(proc[q].kind)
      BY <2>1 DEF Handled
    <3>5. QED
      BY <1>01, <2>1, <2>6, <3>1, <3>2, <3>3, <3>4 DEF Outcomes, IsCurrent
  <2>7. QED
    BY <2>3, <2>5, <2>6 DEF Answerable, Outcomes, IsCurrent
<1>6. ASSUME NEW p \in DOMAIN proc, ReadOnlyClosed(p) \/ MainRestarts(p) PROVE Answerable'
  <2>1. /\ Reaps(p) /\ Ready
        /\ \A k \in Kinds : k # proc[p].kind => slot'[k] = slot[k]
        /\ \/ slot'[proc[p].kind] = 0 /\ loop' = Idle
           \/ slot' = slot /\ loop'.at = "launch" /\ loop'.kind = proc[p].kind /\ loop'.moving = "none"
    BY <1>0, <1>6, ReapCases
  <2>2. /\ DOMAIN proc' = DOMAIN proc
        /\ \A q \in DOMAIN proc : /\ proc'[q].kind = proc[q].kind
                                  /\ q # p => proc'[q] = proc[q] /\ out'[q] = out[q]
        /\ \A s \in Sessions : loaded'[s] = IF loaded[s] = p THEN 0 ELSE loaded[s]
        /\ p = slot[proc[p].kind] /\ proc[p].kind \in Kinds
    BY <1>0, <2>1, ReapsOne
  <2>3. /\ UNCHANGED <<owner, open, disk, retired>> /\ loop.at = "idle"
        /\ \A s \in Sessions : pending'[s] = IF pending[s] # 0 /\ proc[pending[s]].kind = proc[p].kind
                                             THEN 0 ELSE pending[s]
    BY <1>6, <2>1 DEF ReadOnlyClosed, MainRestarts, Reaps, FailDeletes, Ready, Idle
  <2>4. Unborn'
    BY <1>01, <2>2, <2>3 DEF Unborn
  <2>5. ASSUME NEW s \in Sessions, pending'[s] # 0
        PROVE  /\ \/ pending'[s] \in retired'
                  \/ slot'[proc'[pending'[s]].kind] = pending'[s] /\ ~(loop'.at = "launch" /\ loop'.kind = proc'[pending'[s]].kind)
               /\ owner'[s] = "none" => proc'[pending'[s]].kind = "main"
    <3>1. pending'[s] = pending[s] /\ pending[s] \in DOMAIN proc /\ proc[pending[s]].kind # proc[p].kind
      BY <1>0, <2>3, <2>5
    <3>2. /\ pending[s] \in retired \/ IsCurrent(pending[s])
          /\ owner[s] = "none" => proc[pending[s]].kind = "main"
      BY <1>01, <3>1, <2>5 DEF Deletes
    <3>3. proc'[pending[s]].kind = proc[pending[s]].kind /\ slot'[proc[pending[s]].kind] = slot[proc[pending[s]].kind]
      BY <1>0, <2>1, <2>2, <3>1
    <3>4. ~(loop'.at = "launch" /\ loop'.kind = proc[pending[s]].kind)
      BY <2>1, <3>1, LoopIdle
    <3>5. QED
      BY <2>3, <3>1, <3>2, <3>3, <3>4 DEF IsCurrent
  <2>6. Deletes'
    BY <2>5 DEF Deletes, IsCurrent
  <2>7. ASSUME NEW q \in DOMAIN proc, slot'[proc'[q].kind] = q, ~Handled(proc[q].kind)', NEW e \in Said(out'[q]), Outcome(e)
        PROVE  pending'[e.s] = q
    <3>1. proc[q].kind # proc[p].kind
      BY <1>0, <2>1, <2>2, <2>7 DEF Handled
    <3>2. q # p /\ slot[proc[q].kind] = q /\ out'[q] = out[q]
      BY <1>0, <2>1, <2>2, <2>7, <3>1
    <3>3. pending[e.s] = q /\ e.s \in Sessions
      BY <1>0, <1>01, <2>3, <2>7, <3>2 DEF Outcomes, IsCurrent, Handled
    <3>4. QED
      BY <2>3, <3>1, <3>3
  <2>8. Outcomes'
    BY <2>2, <2>7 DEF Outcomes, IsCurrent
  <2>9. QED
    BY <2>4, <2>6, <2>8 DEF Answerable
<1>7. ASSUME NEW p \in DOMAIN proc, TakesOutcome(p) PROVE Answerable'
  <2> DEFINE s == Head(out[p]).s
  <2>1. /\ Ready /\ IsCurrent(p) /\ UNCHANGED <<proc, slot, loop, loaded, disk, retired>>
        /\ s \in Sessions /\ Outcome(Head(out[p])) /\ Head(out[p]) \in Said(out[p])
        /\ \A r \in DOMAIN proc : r # p => out'[r] = out[r]
        /\ Said(out[p]) = Said(out'[p]) \cup {Head(out[p])}
        /\ \A d \in Said(out'[p]) : Outcome(d) => d.s # s
    BY <1>0, <1>7, TakesShape
  <2>2. /\ pending' = [pending EXCEPT ![s] = 0]
        /\ \/ Forget(s)
           \/ owner' = Learned(s, p) /\ UNCHANGED open
    BY <1>7 DEF TakesOutcome, DeleteCompleted, DeleteFailed
  <2>3. pending[s] = p
    BY <1>01, <2>1 DEF Outcomes, Ready, Idle, Handled
  <2> HIDE DEF s
  <2>4. pending'[s] = 0 /\ \A t \in Sessions : t # s => pending'[t] = pending[t]
    BY <1>0, <2>1, <2>2 DEF TypeOK, ProcsOK
  <2>5. \A t \in Sessions : t # s => owner'[t] = owner[t]
    BY <1>0, <2>1, <2>2 DEF SessionsOK, Forget, Learned
  <2>6. open' \subseteq open
    BY <2>2 DEF Forget, Dropped
  <2>7. Unborn'
    BY <1>0, <1>01, <2>1, <2>3, <2>4, <2>5, <2>6 DEF Unborn
  <2>8. Deletes'
    BY <1>01, <2>1, <2>4, <2>5 DEF Deletes, IsCurrent
  <2>9. ASSUME NEW q \in DOMAIN proc, IsCurrent(q), NEW e \in Said(out'[q]), Outcome(e)
        PROVE  pending'[e.s] = q
    <3>1. e \in Said(out[q]) /\ (e.s # s \/ q # p)
      BY <2>1, <2>9
    <3>2. pending[e.s] = q /\ e.s \in Sessions
      BY <1>0, <1>01, <2>1, <2>9, <3>1 DEF Outcomes, Handled, Ready, Idle
    <3>3. e.s # s
      BY <2>3, <3>1, <3>2
    <3>4. QED
      BY <2>4, <3>2, <3>3
  <2>10. Outcomes'
    BY <2>1, <2>9 DEF Outcomes, IsCurrent
  <2>11. QED
    BY <2>7, <2>8, <2>10 DEF Answerable
<1>8. ASSUME NEW p \in DOMAIN proc, DropStale(p) PROVE Answerable'
  <2>1. /\ out'[p] = <<>> /\ \A r \in DOMAIN proc : r # p => out'[r] = out[r]
        /\ UNCHANGED <<proc, slot, loop>>
    BY <1>0, <1>8, DropsStale
  <2>2. UNCHANGED <<loaded, sessionVars, retired>>
    BY <1>8 DEF DropStale
  <2>3. QED
    BY <1>01, <2>1, <2>2, Silence DEF Answerable, Outcomes, Deletes, Unborn, IsCurrent, Handled
<1>9. ASSUME NEW p \in DOMAIN proc, HostExits(p) PROVE Answerable'
  <2>1. /\ DOMAIN proc' = DOMAIN proc
        /\ \A q \in DOMAIN proc : proc'[q].kind = proc[q].kind /\ (q # p => proc'[q] = proc[q] /\ out'[q] = out[q])
        /\ Said(out'[p]) = Said(out[p]) \cup {Closed}
        /\ UNCHANGED <<slot, loaded, owner, open, mode, busy, saved, disk, home, lost, pending, loop, retired>>
    BY <1>0, <1>9, ExitsShape
  <2>2. ~Outcome(Closed)
    BY DEF Outcome, Closed
  <2>3. \A q \in DOMAIN proc : \A e \in Said(out'[q]) : Outcome(e) => e \in Said(out[q])
    BY <2>1, <2>2
  <2>4. Outcomes'
    BY <1>01, <2>1, <2>3 DEF Outcomes, IsCurrent, Handled
  <2>5. Deletes'
    BY <1>0, <1>01, <2>1 DEF Deletes, IsCurrent
  <2>6. QED
    BY <1>01, <2>1, <2>4, <2>5 DEF Answerable, Unborn
<1>10. ASSUME NEW s \in Sessions, HostDeletes(s) PROVE Answerable'
  <2>1. /\ UNCHANGED <<proc, slot, loop, owner, open, mode, busy, saved, home, lost, pending, retired>>
        /\ pending[s] \in DOMAIN proc
        /\ \A r \in DOMAIN proc : r # pending[s] => out'[r] = out[r]
    BY <1>0, <1>10, DeletesShape
  <2>2. PICK e \in Events :
               /\ Outcome(e) /\ e.s = s /\ Said(out'[pending[s]]) = Said(out[pending[s]]) \cup {e}
               /\ \/ loaded' = [loaded EXCEPT ![s] = 0] /\ disk' = [disk EXCEPT ![s] = "erased"]
                  \/ UNCHANGED <<loaded, disk>>
    BY <1>0, <1>10, DeletesShape
  <2>3. Outcomes'
    BY <1>01, <2>1, <2>2 DEF Outcomes, IsCurrent, Handled
  <2>4. Deletes'
    BY <1>01, <2>1 DEF Deletes, IsCurrent
  <2>5. \A t \in Sessions : disk'[t] = "none" => disk[t] = "none" /\ loaded'[t] \in {loaded[t], 0}
    BY <1>0, <2>2 DEF SessionsOK, ProcsOK
  <2>6. QED
    BY <1>01, <2>1, <2>3, <2>4, <2>5 DEF Answerable, Unborn
<1>11. ASSUME UNCHANGED <<proc, out, slot, loaded, owner, open, disk, pending, loop, retired>> PROVE Answerable'
  BY <1>11 DEF Answerable, Outcomes, Deletes, Unborn, IsCurrent, Handled
<1>12. /\ \A s \in Sessions, m \in Modes : OtherSaves(s, m) =>
            UNCHANGED <<proc, out, slot, loaded, owner, open, disk, pending, loop, retired>>
       /\ UNCHANGED vars => UNCHANGED <<proc, out, slot, loaded, owner, open, disk, pending, loop, retired>>
  BY DEF OtherSaves, vars
<1>13. QED
  BY <1>1, <1>2, <1>3, <1>4, <1>5, <1>6, <1>7, <1>8, <1>9, <1>10, <1>11, <1>12, NextCases

-----------------------------------------------------------------------------
(* Every session is placed on the host that enforces its mode.               *)

\* What holds an open session is the current process of its owner.
LEMMA HeldByOwner ==
    ASSUME TypeOK, Tracked, Holders, Placement, NEW s \in open, loaded[s] # 0
    PROVE  /\ loaded[s] \in DOMAIN proc /\ loaded[s] = slot[Owner(s)] /\ s # loop.moving
           /\ proc[loaded[s]].kind = Owner(s) /\ Owner(s) = HostForMode(mode[s])
<1>1. s \in Sessions /\ loaded[s] \in DOMAIN proc
  BY DEF TypeOK, ProcsOK, SessionsOK
<1>2. proc[loaded[s]].kind = HostForMode(mode[s])
  BY DEF Placement, ModeIsEnforced
<1>3. slot[proc[loaded[s]].kind] = loaded[s]
  BY <1>1 DEF Holders, Tracked, NoLeakedHost, IsCurrent
<1>4. s # loop.moving
  BY <1>1 DEF Placement, Moving, TypeOK
<1>5. Owner(s) = HostForMode(mode[s])
  BY <1>4 DEF Placement, Places
<1>6. QED
  BY <1>1, <1>2, <1>3, <1>4, <1>5

\* A session stays as it was placed, or is placed right by the step.
Same(t) ==
    /\ t \in open /\ Owner(t)' = Owner(t) /\ mode'[t] = mode[t] /\ loaded'[t] \in {0, loaded[t]}
    /\ loop.at = "open" => t # loop.moving
Right(t) ==
    /\ Owner(t)' = HostForMode(mode'[t])
    /\ loaded'[t] # 0 => proc'[loaded'[t]].kind = HostForMode(mode'[t])

SameKinds == \A q \in DOMAIN proc : proc'[q].kind = proc[q].kind

LEMMA Settles ==
    ASSUME TypeOK, Placement, SameKinds,
           loop'.moving = "none", loop'.at \notin {"open", "back", "attach"},
           \A t \in open' : Same(t) \/ Right(t)
    PROVE  Placement'
<1>1. \A t \in open : t \in Sessions /\ loaded[t] \in DOMAIN proc \cup {0}
  BY DEF TypeOK, ProcsOK, SessionsOK
<1>2. ASSUME NEW t \in open' PROVE Right(t)
  <2>1. CASE Same(t)
    <3>1. Owner(t)' = HostForMode(mode'[t])
      BY <2>1 DEF Same, Placement, Places
    <3>2. loaded'[t] # 0 => proc'[loaded'[t]].kind = HostForMode(mode'[t])
      BY <1>1, <2>1 DEF Same, Placement, ModeIsEnforced, SameKinds
    <3>3. QED
      BY <3>1, <3>2 DEF Right
  <2>2. QED
    BY <1>2, <2>1
<1>3. Moving' /\ Attaching'
  BY DEF Moving, Attaching
<1>4. Places'
  BY <1>2 DEF Places, Right
<1>5. ModeIsEnforced'
  BY <1>2 DEF ModeIsEnforced, Right
<1>6. QED
  BY <1>3, <1>4, <1>5 DEF Placement

\* The owner that place_session records is the one the session has, if it is open.
LEMMA PlacesOwner ==
    ASSUME TypeOK, Placement, Ready, NEW s \in Sessions, owner' = [owner EXCEPT ![s] = Placed(s)]
    PROVE  /\ Owner(s)' = PlacedKind(s)
           /\ s \in open => PlacedKind(s) = Owner(s)
           /\ \A t \in Sessions : t # s => Owner(t)' = Owner(t)
<1>1. owner'[s] = Placed(s) /\ \A t \in Sessions : t # s => owner'[t] = owner[t]
  BY DEF TypeOK, SessionsOK
<1>2. loop.at = "idle"
  BY DEF Ready, Idle
<1>3. s \in open => Owner(s) = HostForMode(mode[s])
  BY <1>2 DEF Placement, Places
<1>4. s \in open => Placed(s) = owner[s]
  BY <1>3 DEF Placed, Owner, Remembered
<1>5. QED
  BY <1>1, <1>4 DEF Owner, PlacedKind

LEMMA PlacementQuiet ==
    ASSUME TypeOK, Tracked, Holders, Answerable, Placement, QuietStep
    PROVE  Placement'
<1>0. /\ ProcsOK /\ SessionsOK /\ LoopOK /\ SlotKind /\ Unborn
      /\ \A k \in Kinds : slot[k] \in DOMAIN proc \cup {0}
      /\ slot["main"] \in DOMAIN proc /\ proc[slot["main"]].kind = "main"
      /\ \A s \in open : s \in Sessions
  <2>1. ProcsOK /\ SessionsOK /\ LoopOK /\ SlotKind /\ Unborn
    BY DEF TypeOK, Tracked, Answerable
  <2>2. /\ \A k \in Kinds : slot[k] \in DOMAIN proc \cup {0}
        /\ slot["main"] \in DOMAIN proc /\ 0 \notin DOMAIN proc /\ "main" \in Kinds
    BY <2>1, Slots DEF Kinds
  <2>3. QED
    BY <2>1, <2>2 DEF SlotKind, SessionsOK
<1>1. Grown /\ Grows /\ SameKinds /\ Moving /\ Attaching
  BY QuietGrows DEF Tracked, Placement, Grown, Grows, SameKinds
<1> USE DEF procVars, sessionVars
<1>2. ASSUME NEW s \in Sessions, SessionStep(s), ~Attach(s) PROVE Placement'
  <2>0. /\ Ready /\ loop' = loop /\ loop'.moving = "none" /\ loop.at = "idle" /\ loop'.at = "idle"
    <3>1. Ready /\ loop' = loop
      BY <1>2 DEF SessionStep, NewSession, LoadSession, Prompt, CloseSession, DeleteSession, ForkSession,
                  RelabelMode, TurnEnds
    <3>2. QED
      BY <3>1, LoopIdle DEF Ready
  <2>1. CASE NewSession(s)
    <3>1. /\ disk[s] = "none" /\ open' = open \cup {s} /\ mode' = [mode EXCEPT ![s] = "default"]
          /\ loaded' = [loaded EXCEPT ![s] = slot.main] /\ UNCHANGED <<owner, proc>>
      BY <2>1 DEF NewSession
    <3>2. owner[s] = "none"
      BY <1>0, <3>1 DEF Unborn
    <3>3. mode'[s] = "default" /\ loaded'[s] = slot["main"]
          /\ \A t \in Sessions : t # s => mode'[t] = mode[t] /\ loaded'[t] = loaded[t]
      BY <1>0, <3>1 DEF SessionsOK, ProcsOK
    <3>4. Right(s)
      BY <1>0, <3>1, <3>2, <3>3 DEF Right, Owner, HostForMode
    <3>5. \A t \in open' : t # s => Same(t)
      BY <1>0, <2>0, <3>1, <3>3 DEF Same, Owner
    <3>6. QED
      BY <1>1, <2>0, <3>4, <3>5, Settles
  <2>2. CASE LoadSession(s)
    <3>1. owner' = [owner EXCEPT ![s] = Placed(s)]
      BY <2>2 DEF LoadSession
    <3>2. /\ Owner(s)' = PlacedKind(s)
          /\ s \in open => PlacedKind(s) = Owner(s)
          /\ \A t \in Sessions : t # s => Owner(t)' = Owner(t)
      BY <2>0, <3>1, PlacesOwner
    <3>3. PICK p \in 1..MaxProcs :
            /\ Routed(PlacedKind(s), p)
            /\ \/ /\ Opens(s, p) /\ open' = open \cup {s}
                  /\ mode' = [mode EXCEPT ![s] = IF s \in open THEN @ ELSE ModeOn(saved[s], PlacedKind(s))]
               \/ UNCHANGED <<loaded, open, mode>>
      BY <2>2 DEF LoadSession
    <3>4. p \in DOMAIN proc' /\ proc'[p].kind = PlacedKind(s) /\ PlacedKind(s) \in Kinds
      BY <1>0, <3>3, Routes, PlacedKinds
    <3>5. CASE UNCHANGED <<loaded, open, mode>>
      <4>1. \A t \in open' : Same(t)
        BY <1>0, <2>0, <3>2, <3>5 DEF Same
      <4>2. QED
        BY <1>1, <2>0, <4>1, Settles
    <3>6. CASE /\ Opens(s, p) /\ open' = open \cup {s}
               /\ mode' = [mode EXCEPT ![s] = IF s \in open THEN @ ELSE ModeOn(saved[s], PlacedKind(s))]
      <4>1. loaded'[s] = p /\ \A t \in Sessions : t # s => loaded'[t] = loaded[t]
        BY <1>0, <1>1, <3>4, <3>6, OpensShape
      <4>2. mode'[s] = (IF s \in open THEN mode[s] ELSE ModeOn(saved[s], PlacedKind(s)))
            /\ \A t \in Sessions : t # s => mode'[t] = mode[t]
        BY <1>0, <3>6 DEF SessionsOK
      <4>3. HostForMode(mode'[s]) = PlacedKind(s)
        <5>1. CASE s \in open
          BY <2>0, <3>2, <4>2, <5>1 DEF Placement, Places
        <5>2. CASE s \notin open
          <6>1. saved[s] \in Modes /\ PlacedKind(s) \in Kinds
            BY <1>0, <3>4 DEF SessionsOK
          <6>2. HostForMode(ModeOn(saved[s], PlacedKind(s))) = PlacedKind(s)
            BY <6>1, Hosting
          <6>3. QED
            BY <4>2, <5>2, <6>2
        <5>3. QED
          BY <5>1, <5>2
      <4>4. Right(s)
        BY <3>2, <3>4, <4>1, <4>3 DEF Right
      <4>5. \A t \in open' : t # s => Same(t)
        BY <1>0, <2>0, <3>2, <3>6, <4>1, <4>2 DEF Same
      <4>6. QED
        BY <1>1, <2>0, <4>4, <4>5, Settles
    <3>7. QED
      BY <3>3, <3>5, <3>6
  <2>3. ASSUME NEW n \in Sessions, ForkSession(s, n) PROVE Placement'
    <3> DEFINE r == ModeOn(Remembered(s), PlacedKind(s))
    <3>1. PICK p \in 1..MaxProcs :
            /\ Routed(PlacedKind(s), p)
            /\ \/ /\ Opens(n, p)
                  /\ owner' = [owner EXCEPT ![s] = Placed(s), ![n] = PlacedKind(s)]
                  /\ \/ open' = open \cup {n} /\ mode' = [mode EXCEPT ![n] = r]
                     \/ UNCHANGED <<open, mode>>
               \/ owner' = [owner EXCEPT ![s] = Placed(s)] /\ UNCHANGED <<loaded, open, mode>>
      BY <2>3 DEF ForkSession
    <3>2. p \in DOMAIN proc' /\ proc'[p].kind = PlacedKind(s) /\ PlacedKind(s) \in Kinds
      BY <1>0, <3>1, Routes, PlacedKinds
    <3>3. HostForMode(r) = PlacedKind(s)
      <4>1. Remembered(s) \in Modes
        BY <1>0 DEF SessionsOK, Remembered
      <4>2. QED
        BY <3>2, <4>1, Hosting
    <3> HIDE DEF r
    <3>4. n # s /\ n \notin open
      BY <1>0, <2>3 DEF ForkSession, Exists, Unborn
    <3>5. CASE owner' = [owner EXCEPT ![s] = Placed(s)] /\ UNCHANGED <<loaded, open, mode>>
      <4>1. \A t \in open : Owner(t)' = Owner(t)
        BY <1>0, <2>0, <3>5, PlacesOwner
      <4>2. \A t \in open' : Same(t)
        BY <2>0, <3>5, <4>1 DEF Same
      <4>3. QED
        BY <1>1, <2>0, <4>2, Settles
    <3>6. CASE /\ Opens(n, p)
               /\ owner' = [owner EXCEPT ![s] = Placed(s), ![n] = PlacedKind(s)]
               /\ \/ open' = open \cup {n} /\ mode' = [mode EXCEPT ![n] = r]
                  \/ UNCHANGED <<open, mode>>
      <4>1. loaded'[n] = p /\ \A t \in Sessions : t # n => loaded'[t] = loaded[t]
        BY <1>0, <1>1, <3>2, <3>6, OpensShape
      <4>2. /\ owner'[n] = PlacedKind(s) /\ owner'[s] = Placed(s)
            /\ \A t \in Sessions : t # n /\ t # s => owner'[t] = owner[t]
        BY <1>0, <3>4, <3>6 DEF SessionsOK
      <4>3. s \in open => Placed(s) = owner[s]
        <5>1. s \in open => Owner(s) = HostForMode(mode[s])
          BY <2>0 DEF Placement, Places
        <5>2. QED
          BY <5>1 DEF Placed, Owner, Remembered
      <4>4. /\ n \in open' => mode'[n] = r
            /\ \A t \in Sessions : t # n => mode'[t] = mode[t]
            /\ \A t \in open' : t # n => t \in open
        BY <1>0, <3>4, <3>6 DEF SessionsOK
      <4>5. n \in open' => Right(n)
        <5>1. PlacedKind(s) # "none"
          BY <3>2 DEF Kinds
        <5>2. QED
          BY <3>2, <3>3, <4>1, <4>2, <4>4, <5>1 DEF Right, Owner
      <4>6. \A t \in open' : t # n => Same(t)
        <5>1. \A t \in open : t # n => owner'[t] = owner[t]
          BY <1>0, <4>2, <4>3
        <5>2. QED
          BY <1>0, <2>0, <4>1, <4>4, <5>1 DEF Same, Owner
      <4>7. QED
        BY <1>1, <2>0, <4>5, <4>6, Settles
    <3>7. QED
      BY <3>1, <3>5, <3>6
  <2>4. CASE Prompt(s)
    <3>1. UNCHANGED <<loaded, owner, open, mode>>
      BY <2>4 DEF Prompt
    <3>2. \A t \in open' : Same(t)
      BY <2>0, <3>1 DEF Same, Owner
    <3>3. QED
      BY <1>1, <2>0, <3>2, Settles
  <2>5. CASE CloseSession(s)
    <3>1. /\ owner' = owner /\ Dropped({s})
          /\ loaded' = loaded \/ loaded' = [loaded EXCEPT ![s] = 0]
      BY <2>5 DEF CloseSession
    <3>2. \A t \in open' : Same(t)
      BY <1>0, <2>0, <3>1 DEF Same, Owner, Dropped, ProcsOK
    <3>3. QED
      BY <1>1, <2>0, <3>2, Settles
  <2>6. CASE DeleteSession(s)
    <3>1. /\ loaded' = loaded
          /\ UNCHANGED <<owner, open, mode>> \/ Forget(s)
      BY <2>6 DEF DeleteSession
    <3>2. \A t \in open' : Same(t)
      BY <1>0, <2>0, <3>1 DEF Same, Owner, Forget, Dropped, SessionsOK
    <3>3. QED
      BY <1>1, <2>0, <3>2, Settles
  <2>7. ASSUME NEW m \in Modes, RelabelMode(s, m) PROVE Placement'
    <3>1. /\ s \in open /\ HostForMode(m) = Owner(s) /\ mode' = [mode EXCEPT ![s] = m]
          /\ UNCHANGED <<proc, owner, open, loaded>>
      BY <2>7 DEF RelabelMode
    <3>2. mode'[s] = m /\ \A t \in Sessions : t # s => mode'[t] = mode[t]
      BY <1>0, <3>1 DEF SessionsOK
    <3>3. Right(s)
      BY <3>1, <3>2, HeldByOwner DEF Right, Owner
    <3>4. \A t \in open' : t # s => Same(t)
      BY <1>0, <2>0, <3>1, <3>2 DEF Same, Owner
    <3>5. QED
      BY <1>1, <2>0, <3>3, <3>4, Settles
  <2>8. CASE TurnEnds(s)
    <3>1. /\ s \in open /\ loaded[s] # 0 /\ owner' = Learned(s, loaded[s])
          /\ UNCHANGED <<loaded, open, mode>>
      BY <1>0, <2>8 DEF TurnEnds, SessionsOK
    <3>2. proc[loaded[s]].kind = Owner(s)
      BY <3>1, HeldByOwner
    <3>3. \A t \in Sessions : Owner(t)' = Owner(t)
      BY <1>0, <3>1, <3>2 DEF Learned, Owner, SessionsOK
    <3>4. \A t \in open' : Same(t)
      BY <1>0, <2>0, <3>1, <3>3 DEF Same
    <3>5. QED
      BY <1>1, <2>0, <3>4, Settles
  <2>9. QED
    BY <1>2, <2>1, <2>2, <2>3, <2>4, <2>5, <2>6, <2>7, <2>8 DEF SessionStep
<1>3. ASSUME NEW s \in Sessions, Attach(s) PROVE Placement'
  <2>1. /\ loop.at = "attach" /\ s \in loop.todo
        /\ loop' = [loop EXCEPT !.todo = loop.todo \ {s}]
        /\ UNCHANGED <<proc, slot, owner, open, mode>>
        /\ Reattached(s, slot[loop.kind]) \/ UNCHANGED loaded
    BY <1>3 DEF Attach
  <2>2. loop.todo \ {s} \in SUBSET open
    BY <1>0, LoopRecord
  <2>3. /\ loop'.at = "attach" /\ loop'.kind = loop.kind /\ loop'.todo \subseteq loop.todo
        /\ loop'.moving = loop.moving /\ loop'.target = loop.target
    BY <1>0, <2>1, <2>2, LoopMoves
  <2>4. /\ s \in open /\ Owner(s) = loop.kind /\ s # loop.moving
        /\ slot[loop.kind] # 0 /\ loop.kind \in Kinds
    BY <1>0, <1>1, <2>1, LoopRecord DEF Attaching, Owned
  <2>5. slot[loop.kind] \in DOMAIN proc /\ proc[slot[loop.kind]].kind = loop.kind
    BY <1>0, <2>4 DEF SlotKind
  <2>6. /\ loaded'[s] \in {loaded[s], slot[loop.kind]}
        /\ \A t \in Sessions : t # s => loaded'[t] = loaded[t]
    BY <1>0, <1>1, <2>1, <2>4, <2>5, ReattachedShape DEF Grows
  <2>7. Moving'
    BY <1>1, <2>1, <2>3, <2>4, <2>6, <1>0, LoopRecord DEF Moving
  <2>8. Places'
    BY <2>1, <2>3 DEF Placement, Places, Owner
  <2>9. Attaching'
    BY <1>1, <2>1, <2>3 DEF Attaching, Owned, Owner
  <2>10. ModeIsEnforced'
    <3>1. HostForMode(mode[s]) = loop.kind
      BY <2>1, <2>4 DEF Placement, Places
    <3>2. QED
      BY <1>0, <2>1, <2>5, <2>6, <3>1 DEF Placement, ModeIsEnforced
  <2>11. QED
    BY <2>7, <2>8, <2>9, <2>10 DEF Placement
<1>4. CASE MoveOpens \/ MoveReturns
  <2>0. PICK s \in Sessions : s = loop.moving
    BY <1>0, <1>1, <1>4, LoopRecord DEF Moving, MoveOpens, MoveReturns
  <2>1. /\ s \in Sessions /\ s \in open /\ Owner(s) \in Kinds /\ loop.target \in Modes
    BY <1>0, <1>1, <1>4, <2>0, LoopRecord, PlacedKinds DEF Moving, MoveOpens, MoveReturns
  <2>2. /\ loop' = Idle /\ UNCHANGED <<owner, open>>
        /\ \/ loop.at = "open" /\ mode' = [mode EXCEPT ![s] = loop.target]
           \/ loop.at = "back" /\ mode' = mode
        /\ \/ loaded' = loaded /\ loop.at = "back"
           \/ \E p \in 1..MaxProcs : Routed(Owner(s), p) /\ Reattached(s, p)
    BY <1>4, <2>0 DEF MoveOpens, MoveReturns
  <2>3. loop'.moving = "none" /\ loop'.at = "idle"
    BY <2>2, LoopIdle
  <2>4. \A t \in Sessions : t # s => mode'[t] = mode[t]
    BY <1>0, <2>2 DEF SessionsOK
  <2>5. Owner(s) = HostForMode(mode'[s])
    BY <2>0, <1>0, <2>1, <2>2 DEF Placement, Places, SessionsOK
  <2>6. /\ \A t \in Sessions : t # s => loaded'[t] = loaded[t]
        /\ loaded'[s] = loaded[s] \/ (loaded'[s] # 0 => proc'[loaded'[s]].kind = Owner(s))
    <3>1. ASSUME NEW p \in 1..MaxProcs, Routed(Owner(s), p), Reattached(s, p)
          PROVE  loaded'[s] = p /\ proc'[p].kind = Owner(s) /\ \A t \in Sessions : t # s => loaded'[t] = loaded[t]
      <4>1. p \in DOMAIN proc' /\ proc'[p].kind = Owner(s)
        BY <1>0, <2>1, <3>1, Routes
      <4>2. QED
        BY <1>0, <1>1, <2>1, <3>1, <4>1, ReattachedShape
    <3>2. QED
      BY <2>2, <3>1
  <2>7. loaded[s] = 0
    BY <2>0, <1>1, <1>0, <2>1 DEF Moving
  <2>8. Right(s)
    BY <2>2, <2>5, <2>6, <2>7 DEF Right, Owner
  <2>9. \A t \in open' : t # s => Same(t)
    BY <2>0, <1>0, <2>2, <2>4, <2>6 DEF Same, Owner
  <2>10. QED
    BY <1>1, <2>3, <2>8, <2>9, Settles
<1>5. CASE MoveRefused
  <2>0. PICK s \in Sessions : s = loop.moving
    BY <1>0, <1>1, <1>5, LoopRecord DEF Moving, MoveRefused
  <2>1. /\ s \in Sessions /\ s # "none" /\ loop.kind \in Kinds
        /\ s \in open /\ loaded[s] = 0 /\ HostForMode(mode[s]) = loop.kind
    BY <1>0, <1>1, <1>5, <2>0, LoopRecord DEF Moving, MoveRefused
  <2>2. /\ loop.at = "open" /\ loop' = [loop EXCEPT !.at = "back"] /\ UNCHANGED <<loaded, open, mode>>
        /\ owner' = [owner EXCEPT ![s] = loop.kind]
    BY <1>5, <2>0 DEF MoveRefused, OwnerBack
  <2>3. loop'.at = "back" /\ loop'.kind = loop.kind /\ loop'.moving = loop.moving /\ loop'.target = loop.target
    BY <1>0, <2>2, LoopRecord DEF LoopStates
  <2>4. Moving' /\ Attaching'
    BY <1>1, <2>0, <2>1, <2>2, <2>3 DEF Moving, Attaching
  <2>5. owner'[s] = loop.kind /\ \A t \in Sessions : t # s => owner'[t] = owner[t]
    BY <1>0, <2>1, <2>2 DEF SessionsOK
  <2>6. loop.kind # "none"
    BY <2>1 DEF Kinds
  <2>7. \A t \in open : t # s => Owner(t) = HostForMode(mode[t])
    BY <2>0 DEF Placement, Places
  <2>8. Places'
    BY <1>0, <2>0, <2>1, <2>2, <2>3, <2>5, <2>6, <2>7 DEF Places, Owner
  <2>9. ModeIsEnforced'
    BY <1>0, <1>1, <2>2 DEF Placement, ModeIsEnforced, SameKinds, TypeOK, ProcsOK
  <2>10. QED
    BY <2>4, <2>8, <2>9 DEF Placement
<1>6. CASE GivesUpMove
  <2>1. loop.at = "launch" /\ loop' = Idle /\ UNCHANGED <<owner, open, mode, loaded>>
    BY <1>6 DEF GivesUpMove
  <2>2. \A t \in open' : Same(t)
    BY <2>1 DEF Same, Owner
  <2>3. QED
    BY <1>1, <2>1, <2>2, LoopIdle, Settles
<1>7. CASE AttachDone
  <2>1. CASE loop.moving = "none"
    <3>1. loop.at = "attach" /\ loop' = Idle /\ UNCHANGED <<owner, open, mode, loaded>>
      BY <1>7, <2>1 DEF AttachDone
    <3>2. \A t \in open' : Same(t)
      BY <3>1 DEF Same, Owner
    <3>3. QED
      BY <1>1, <3>1, <3>2, LoopIdle, Settles
  <2>2. CASE loop.moving # "none"
    <3>0. PICK s \in Sessions : s = loop.moving
      BY <1>0, <1>1, <2>2, LoopRecord DEF Moving
    <3>1. /\ s \in Sessions /\ s # "none" /\ loop.kind \in Kinds /\ loop.target \in Modes
          /\ s \in open /\ loaded[s] = 0 /\ HostForMode(mode[s]) = loop.kind
          /\ HostForMode(loop.target) # loop.kind
      BY <1>0, <1>1, <2>2, <3>0, LoopRecord DEF Moving
    <3>2. /\ loop.at = "attach" /\ loop' = [loop EXCEPT !.at = "open"] /\ UNCHANGED <<proc, loaded, open, mode>>
          /\ owner' = [owner EXCEPT ![s] = HostForMode(loop.target)]
      BY <1>7, <2>2, <3>0 DEF AttachDone
    <3>3. loop'.at = "open" /\ loop'.kind = loop.kind /\ loop'.moving = loop.moving /\ loop'.target = loop.target
      BY <1>0, <3>2, LoopRecord DEF LoopStates
    <3>4. Moving' /\ Attaching'
      BY <1>1, <3>0, <3>1, <3>2, <3>3 DEF Moving, Attaching
    <3>5. owner'[s] = HostForMode(loop.target) /\ \A t \in Sessions : t # s => owner'[t] = owner[t]
      BY <1>0, <3>1, <3>2 DEF SessionsOK
    <3>6. HostForMode(loop.target) # "none"
      BY DEF HostForMode
    <3>7. \A t \in open : Owner(t) = HostForMode(mode[t])
      BY <3>2 DEF Placement, Places
    <3>8. Places'
      <4>1. \A t \in open : t # s => Owner(t)' = Owner(t)
        BY <1>0, <3>5 DEF Owner
      <4>2. Owner(s)' = HostForMode(loop.target)
        BY <3>5, <3>6 DEF Owner
      <4>3. QED
        BY <3>0, <3>2, <3>3, <3>7, <4>1, <4>2 DEF Places
    <3>9. ModeIsEnforced'
      BY <3>2 DEF Placement, ModeIsEnforced
    <3>10. QED
      BY <3>4, <3>8, <3>9 DEF Placement
  <2>3. QED
    BY <2>1, <2>2
<1>8. QED
  BY <1>2, <1>3, <1>4, <1>5, <1>6, <1>7 DEF QuietStep

LEMMA StepPlacement ==
    ASSUME TypeOK, Tracked, Holders, Answerable, Placement, [Next]_vars
    PROVE  Placement'
<1>0. /\ ProcsOK /\ SessionsOK /\ LoopOK /\ SlotKind
      /\ Moving /\ Places /\ Attaching /\ ModeIsEnforced
      /\ \A s \in open : s \in Sessions
      /\ \A s \in Sessions : loaded[s] \in DOMAIN proc \cup {0}
      /\ 0 \notin DOMAIN proc
  BY Slots DEF TypeOK, Tracked, Placement, SessionsOK, ProcsOK
<1> USE DEF procVars, sessionVars
<1>1. CASE QuietStep
  BY <1>1, PlacementQuiet
<1>2. CASE Relaunch
  <2>1. /\ loop.at = "launch" /\ loop.kind \in Kinds /\ loop'.at = "attach" /\ loop'.kind = loop.kind
        /\ loop'.moving = loop.moving /\ loop'.target = loop.target
        /\ loop'.todo = Owned(loop.kind) \ {loop.moving}
        /\ UNCHANGED <<loaded, owner, open, mode, busy, saved, disk, home, lost, pending, retired>>
        /\ \E p \in 1..MaxProcs :
             /\ p \notin DOMAIN proc /\ p # 0 /\ DOMAIN proc' = DOMAIN proc \cup {p}
             /\ \A q \in DOMAIN proc : proc'[q] = proc[q] /\ out'[q] = out[q]
             /\ proc'[p].kind = loop.kind /\ proc'[p].st = "up" /\ out'[p] = <<>>
             /\ slot'[loop.kind] = p /\ \A j \in Kinds : j # loop.kind => slot'[j] = slot[j]
    BY <1>0, <1>2, RelaunchShape
  <2>2. slot'[loop.kind] # 0 /\ \A q \in DOMAIN proc : proc'[q] = proc[q]
    BY <2>1
  <2>3. Moving'
    BY <1>0, <2>1 DEF Moving
  <2>4. Places'
    BY <1>0, <2>1 DEF Places, Owner
  <2>5. Attaching'
    BY <2>1, <2>2 DEF Attaching, Owned, Owner
  <2>6. ModeIsEnforced'
    BY <1>0, <2>1, <2>2 DEF ModeIsEnforced
  <2>7. QED
    BY <2>3, <2>4, <2>5, <2>6 DEF Placement
<1>3. CASE EndAdapter
  <2>1. open' = {} /\ loop' = Gone
    BY <1>3 DEF EndAdapter, Dropped
  <2>2. QED
    BY <2>1, LoopIdle DEF Placement, Moving, Places, Attaching, ModeIsEnforced
<1>4. CASE AbandonStep
  <2>1. loop.at = "launch" /\ loop' = Idle /\ UNCHANGED <<proc, owner, open, mode, loaded>>
    BY <1>4 DEF AbandonStep, AbandonReadOnly
  <2>2. \A t \in open' : Same(t)
    BY <2>1 DEF Same, Owner
  <2>3. QED
    BY <2>1, <2>2, LoopIdle, Settles DEF SameKinds
<1>5. ASSUME NEW s \in Sessions, NEW m \in Modes, MoveSession(s, m) PROVE Placement'
  <2>0. Owner(s) \in Kinds
    BY <1>0, Kindred
  <2>1. /\ UNCHANGED <<open, mode>> /\ loop.at = "idle" /\ s \in open
        /\ loaded' = Released({slot[Owner(s)]} \ {0})
        /\ HostForMode(m) # Owner(s)
        /\ loop'.kind = Owner(s) /\ loop'.moving = s /\ s # "none" /\ loop'.target = m
        /\ \/ loop'.at = "launch" /\ owner' = owner
           \/ loop'.at = "open" /\ owner' = [owner EXCEPT ![s] = "main"] /\ Owner(s) # "main"
    BY <1>5 DEF MoveSession, Ready, Idle
  <2>2. \A q \in DOMAIN proc : proc'[q].kind = proc[q].kind
    BY <1>0, <1>5, Moves
  <2>3. loaded'[s] = 0
    BY <1>0, <2>1, HeldByOwner DEF Released
  <2>4. \A t \in Sessions : loaded'[t] \in {0, loaded[t]}
    BY <2>1 DEF Released
  <2>5. Moving'
    BY <1>0, <2>1, <2>3 DEF Moving, Places
  <2>6. Places'
    <3>1. \A t \in open : Owner(t) = HostForMode(mode[t])
      BY <1>0, <2>1 DEF Places
    <3>2. CASE loop'.at = "launch" /\ owner' = owner
      BY <2>1, <3>1, <3>2 DEF Places, Owner
    <3>3. CASE loop'.at = "open" /\ owner' = [owner EXCEPT ![s] = "main"] /\ Owner(s) # "main"
      <4>1. owner'[s] = "main" /\ \A t \in Sessions : t # s => owner'[t] = owner[t]
        BY <1>0, <3>3 DEF SessionsOK
      <4>2. HostForMode(m) = "main"
        BY <2>0, <2>1, <3>3, Hosting DEF Kinds
      <4>3. QED
        BY <1>0, <2>1, <3>1, <3>3, <4>1, <4>2 DEF Places, Owner
    <3>4. QED
      BY <2>1, <3>2, <3>3
  <2>7. Attaching'
    BY <2>1 DEF Attaching
  <2>8. ModeIsEnforced'
    BY <1>0, <2>1, <2>2, <2>4 DEF ModeIsEnforced
  <2>9. QED
    BY <2>5, <2>6, <2>7, <2>8 DEF Placement
<1>6. ASSUME NEW p \in DOMAIN proc, ReadOnlyClosed(p) \/ MainRestarts(p) PROVE Placement'
  <2>1. /\ Reaps(p) /\ Ready
        /\ \/ loop' = Idle
           \/ loop'.at = "launch" /\ loop'.moving = "none"
    BY <1>0, <1>6, ReapCases
  <2>2. /\ \A q \in DOMAIN proc : proc'[q].kind = proc[q].kind
        /\ \A t \in Sessions : loaded'[t] \in {0, loaded[t]}
    BY <1>0, <2>1, ReapsOne
  <2>3. UNCHANGED <<owner, open, mode>>
    BY <1>6 DEF ReadOnlyClosed, MainRestarts
  <2>4. \A t \in open' : Same(t)
    BY <1>0, <2>1, <2>2, <2>3, LoopIdle DEF Same, Owner, Ready
  <2>5. QED
    BY <2>1, <2>2, <2>4, LoopIdle, Settles DEF SameKinds
<1>7. ASSUME NEW p \in DOMAIN proc, TakesOutcome(p) PROVE Placement'
  <2> DEFINE s == Head(out[p]).s
  <2>1. /\ Ready /\ IsCurrent(p) /\ UNCHANGED <<proc, loop, loaded>>
        /\ s \in Sessions /\ Outcome(Head(out[p])) /\ Head(out[p]) \in Said(out[p])
    BY <1>0, <1>7, TakesShape
  <2>2. Forget(s) \/ (owner' = Learned(s, p) /\ UNCHANGED <<open, mode>>)
    BY <1>7 DEF TakesOutcome, DeleteCompleted, DeleteFailed
  <2>3. pending[s] = p
    BY <2>1 DEF Answerable, Outcomes, Ready, Idle, Handled
  <2> HIDE DEF s
  <2>4. owner[s] = "none" => proc[p].kind = "main"
    BY <1>0, <2>1, <2>3 DEF Answerable, Deletes
  <2>5. CASE Forget(s)
    <3>1. \A t \in open' : Same(t)
      BY <1>0, <2>1, <2>5, LoopIdle DEF Same, Owner, Ready, Forget, Dropped, SessionsOK
    <3>2. QED
      BY <2>1, <3>1, LoopIdle, Settles DEF SameKinds, Ready
  <2>6. CASE owner' = Learned(s, p) /\ UNCHANGED <<open, mode>>
    <3>1. \A t \in Sessions : Owner(t)' = Owner(t)
      BY <1>0, <2>4, <2>6 DEF Learned, Owner, SessionsOK
    <3>2. \A t \in open' : Same(t)
      BY <1>0, <2>1, <2>6, <3>1, LoopIdle DEF Same, Ready
    <3>3. QED
      BY <2>1, <3>2, LoopIdle, Settles DEF SameKinds, Ready
  <2>7. QED
    BY <2>2, <2>5, <2>6
<1>8. ASSUME UNCHANGED <<owner, open, mode, slot, loop>>, SameKinds,
             \A t \in Sessions : loaded'[t] \in {0, loaded[t]}
      PROVE  Placement'
  <2>1. Moving' /\ Attaching'
    BY <1>0, <1>8, LoopRecord DEF Moving, Attaching, Owned, Owner
  <2>2. Places'
    BY <1>0, <1>8 DEF Places, Owner
  <2>3. ModeIsEnforced'
    BY <1>0, <1>8 DEF ModeIsEnforced, SameKinds
  <2>4. QED
    BY <2>1, <2>2, <2>3 DEF Placement
<1>9. ASSUME NEW p \in DOMAIN proc, DropStale(p) \/ HostExits(p) PROVE Placement'
  <2>1. UNCHANGED <<owner, open, mode, slot, loop, loaded>> /\ SameKinds
    BY <1>0, <1>9, ExitsShape DEF DropStale, SameKinds, HostExits
  <2>2. QED
    BY <1>8, <2>1
<1>10. ASSUME NEW s \in Sessions, HostDeletes(s) PROVE Placement'
  <2>1. /\ UNCHANGED <<owner, open, mode, slot, loop, proc>>
        /\ loaded' = loaded \/ loaded' = [loaded EXCEPT ![s] = 0]
    BY <1>10 DEF HostDeletes
  <2>2. \A t \in Sessions : loaded'[t] \in {0, loaded[t]}
    BY <2>1 DEF TypeOK, ProcsOK
  <2>3. QED
    BY <1>8, <2>1, <2>2 DEF SameKinds
<1>11. ASSUME NEW s \in Sessions, NEW m \in Modes, OtherSaves(s, m) PROVE Placement'
  BY <1>8, <1>11 DEF OtherSaves, SameKinds
<1>12. CASE UNCHANGED vars
  BY <1>8, <1>12 DEF vars, SameKinds
<1>13. QED
  BY <1>1, <1>2, <1>3, <1>4, <1>5, <1>6, <1>7, <1>9, <1>10, <1>11, <1>12, NextCases

-----------------------------------------------------------------------------
(* Every open session is held, unless its loss is told or on its way.        *)

\* A session is left where it is, or is held by the host that the step chose.
Steady(t) == t \in open \ lost /\ ~Waits(t) /\ Owner(t)' = Owner(t) /\ loaded'[t] = loaded[t]
Regained(t) == slot'[Owner(t)'] # 0 /\ loaded'[t] = slot'[Owner(t)']

LEMMA Regains ==
    ASSUME TypeOK, Kept, Grown, loop'.at # "launch",
           \A t \in open' \ lost' : Waits(t)' \/ Regained(t) \/ Steady(t)
    PROVE  Kept'
<1>0. /\ ProcsOK /\ SessionsOK /\ \A k \in Kinds : slot[k] \in DOMAIN proc \cup {0}
      /\ \A s \in open : s \in Sessions
      /\ \A q \in DOMAIN proc : proc'[q] = proc[q] /\ out'[q] = out[q]
      /\ \A k \in Kinds : slot[k] # 0 => slot'[k] = slot[k]
  BY Slots DEF TypeOK, SessionsOK, Grown
<1>1. ASSUME NEW t \in open' \ lost' PROVE Waits(t)' \/ Held(t)'
  <2>1. CASE Regained(t)
    BY <2>1 DEF Regained, Held
  <2>2. CASE Steady(t)
    <3>1. Held(t) /\ t \in Sessions /\ Owner(t) \in Kinds
      BY <1>0, <2>2, Kindred DEF Steady, Kept
    <3>2. slot[Owner(t)] # 0 /\ slot'[Owner(t)] = slot[Owner(t)] /\ out'[slot[Owner(t)]] = out[slot[Owner(t)]]
      BY <1>0, <3>1 DEF Held
    <3>3. QED
      BY <2>2, <3>1, <3>2 DEF Steady, Held
  <2>3. QED
    BY <1>1, <2>1, <2>2
<1>2. QED
  BY <1>1 DEF Kept

\* In a loop that is idle nothing waits.
LEMMA NothingWaits ==
    ASSUME Ready, NEW t \in Sessions
    PROVE  ~Waits(t)
BY LoopIdle DEF Ready, Waits

LEMMA KeptQuiet ==
    ASSUME TypeOK, Tracked, Holders, Answerable, Placement, Kept, QuietStep
    PROVE  Kept'
<1>0. /\ ProcsOK /\ SessionsOK /\ LoopOK /\ SlotKind /\ Unborn
      /\ \A k \in Kinds : slot[k] \in DOMAIN proc \cup {0}
      /\ slot["main"] \in DOMAIN proc /\ 0 \notin DOMAIN proc
      /\ \A s \in open : s \in Sessions
      /\ "none" \notin Sessions /\ "none" \notin Kinds
  BY Slots DEF TypeOK, Tracked, Answerable, SessionsOK, Kinds
<1>1. Grown /\ Grows /\ Moving /\ Attaching /\ loop'.at # "launch"
  BY QuietGrows DEF Tracked, Placement, Grown, Grows, LoopQuiet
<1> USE DEF procVars, sessionVars
<1>2. ASSUME NEW s \in Sessions, SessionStep(s), ~Attach(s) PROVE Kept'
  <2>0. Ready /\ loop' = loop /\ \A t \in Sessions : ~Waits(t)
    BY <1>2, NothingWaits DEF SessionStep, NewSession, LoadSession, Prompt, CloseSession, DeleteSession, ForkSession,
                  RelabelMode, TurnEnds
  <2>1. CASE NewSession(s)
    <3>1. /\ disk[s] = "none" /\ open' = open \cup {s} /\ lost' = lost
          /\ loaded' = [loaded EXCEPT ![s] = slot.main] /\ UNCHANGED <<owner, slot>>
      BY <2>1 DEF NewSession
    <3>2. owner[s] = "none"
      BY <1>0, <3>1 DEF Unborn
    <3>3. loaded'[s] = slot["main"] /\ \A t \in Sessions : t # s => loaded'[t] = loaded[t]
      BY <1>0, <3>1 DEF ProcsOK
    <3>4. Regained(s)
      BY <1>0, <3>1, <3>2, <3>3 DEF Regained, Owner
    <3>5. \A t \in open' \ lost' : t # s => Steady(t)
      BY <1>0, <2>0, <3>1, <3>3 DEF Steady, Owner
    <3>6. QED
      BY <1>1, <3>4, <3>5, Regains
  <2>2. CASE LoadSession(s)
    <3>1. owner' = [owner EXCEPT ![s] = Placed(s)]
      BY <2>2 DEF LoadSession
    <3>2. /\ Owner(s)' = PlacedKind(s)
          /\ s \in open => PlacedKind(s) = Owner(s)
          /\ \A t \in Sessions : t # s => Owner(t)' = Owner(t)
      BY <2>0, <3>1, PlacesOwner
    <3>3. PICK p \in 1..MaxProcs :
            /\ Routed(PlacedKind(s), p)
            /\ \/ Opens(s, p) /\ open' = open \cup {s} /\ lost' = lost \ {s}
               \/ UNCHANGED <<loaded, open, lost>>
      BY <2>2 DEF LoadSession
    <3>4. p \in DOMAIN proc' /\ slot'[PlacedKind(s)] = p /\ p # 0
      BY <1>0, <3>3, Routes, PlacedKinds
    <3>5. CASE UNCHANGED <<loaded, open, lost>>
      <4>1. \A t \in open' \ lost' : Steady(t)
        BY <1>0, <2>0, <3>2, <3>5 DEF Steady
      <4>2. QED
        BY <1>1, <4>1, Regains
    <3>6. CASE Opens(s, p) /\ open' = open \cup {s} /\ lost' = lost \ {s}
      <4>1. loaded'[s] = p /\ \A t \in Sessions : t # s => loaded'[t] = loaded[t]
        BY <1>0, <1>1, <3>4, <3>6, OpensShape
      <4>2. Regained(s)
        BY <3>2, <3>4, <4>1 DEF Regained
      <4>3. \A t \in open' \ lost' : t # s => Steady(t)
        BY <1>0, <2>0, <3>2, <3>6, <4>1 DEF Steady
      <4>4. QED
        BY <1>1, <4>2, <4>3, Regains
    <3>7. QED
      BY <3>3, <3>5, <3>6
  <2>3. ASSUME NEW n \in Sessions, ForkSession(s, n) PROVE Kept'
    <3>1. PICK p \in 1..MaxProcs :
            /\ Routed(PlacedKind(s), p)
            /\ \/ /\ Opens(n, p)
                  /\ owner' = [owner EXCEPT ![s] = Placed(s), ![n] = PlacedKind(s)]
                  /\ open' = open \cup {n} \/ open' = open
               \/ owner' = [owner EXCEPT ![s] = Placed(s)] /\ UNCHANGED <<loaded, open>>
      BY <2>3 DEF ForkSession
    <3>2. p \in DOMAIN proc' /\ slot'[PlacedKind(s)] = p /\ p # 0 /\ PlacedKind(s) \in Kinds
      BY <1>0, <3>1, Routes, PlacedKinds
    <3>3. n # s /\ n \notin open /\ lost' = lost
      BY <1>0, <2>3 DEF ForkSession, Exists, Unborn
    <3>4. s \in open => Placed(s) = owner[s]
      <4>1. s \in open => Owner(s) = HostForMode(mode[s])
        BY <2>0, LoopIdle DEF Placement, Places, Ready
      <4>2. QED
        BY <4>1 DEF Placed, Owner, Remembered
    <3>5. CASE owner' = [owner EXCEPT ![s] = Placed(s)] /\ UNCHANGED <<loaded, open>>
      <4>1. \A t \in open : owner'[t] = owner[t]
        BY <1>0, <3>4, <3>5 DEF SessionsOK
      <4>2. \A t \in open' \ lost' : Steady(t)
        BY <1>0, <2>0, <3>3, <3>5, <4>1 DEF Steady, Owner
      <4>3. QED
        BY <1>1, <4>2, Regains
    <3>6. CASE /\ Opens(n, p)
               /\ owner' = [owner EXCEPT ![s] = Placed(s), ![n] = PlacedKind(s)]
               /\ open' = open \cup {n} \/ open' = open
      <4>1. loaded'[n] = p /\ \A t \in Sessions : t # n => loaded'[t] = loaded[t]
        BY <1>0, <1>1, <3>2, <3>6, OpensShape
      <4>2. owner'[n] = PlacedKind(s) /\ \A t \in open : owner'[t] = owner[t]
        BY <1>0, <3>3, <3>4, <3>6 DEF SessionsOK
      <4>3. Owner(n)' = PlacedKind(s)
        BY <1>0, <3>2, <4>2 DEF Owner
      <4>4. Regained(n)
        BY <3>2, <4>1, <4>3 DEF Regained
      <4>5. \A t \in open' \ lost' : t # n => Steady(t)
        BY <1>0, <2>0, <3>3, <3>6, <4>1, <4>2 DEF Steady, Owner
      <4>6. QED
        BY <1>1, <4>4, <4>5, Regains
    <3>7. QED
      BY <3>1, <3>5, <3>6
  <2>4. CASE Prompt(s) \/ \E m \in Modes : RelabelMode(s, m)
    <3>1. UNCHANGED <<loaded, owner, open, lost>>
      BY <2>4 DEF Prompt, RelabelMode
    <3>2. \A t \in open' \ lost' : Steady(t)
      BY <1>0, <2>0, <3>1 DEF Steady, Owner
    <3>3. QED
      BY <1>1, <3>2, Regains
  <2>5. CASE CloseSession(s)
    <3>1. /\ owner' = owner /\ Dropped({s})
          /\ loaded' = loaded \/ loaded' = [loaded EXCEPT ![s] = 0]
      BY <2>5 DEF CloseSession
    <3>2. \A t \in open' \ lost' : Steady(t)
      BY <1>0, <2>0, <3>1 DEF Steady, Owner, Dropped, ProcsOK
    <3>3. QED
      BY <1>1, <3>2, Regains
  <2>6. CASE DeleteSession(s)
    <3>1. /\ loaded' = loaded
          /\ UNCHANGED <<owner, open, lost>> \/ Forget(s)
      BY <2>6 DEF DeleteSession
    <3>2. \A t \in open' \ lost' : Steady(t)
      BY <1>0, <2>0, <3>1 DEF Steady, Owner, Forget, Dropped, SessionsOK
    <3>3. QED
      BY <1>1, <3>2, Regains
  <2>7. CASE TurnEnds(s)
    <3>1. /\ s \in open /\ loaded[s] # 0 /\ owner' = Learned(s, loaded[s])
          /\ UNCHANGED <<loaded, open, lost>>
      BY <1>0, <2>7 DEF TurnEnds, SessionsOK
    <3>2. proc[loaded[s]].kind = Owner(s)
      BY <3>1, HeldByOwner
    <3>3. \A t \in Sessions : Owner(t)' = Owner(t)
      BY <1>0, <3>1, <3>2 DEF Learned, Owner, SessionsOK
    <3>4. \A t \in open' \ lost' : Steady(t)
      BY <1>0, <2>0, <3>1, <3>3 DEF Steady
    <3>5. QED
      BY <1>1, <3>4, Regains
  <2>8. QED
    BY <1>2, <2>1, <2>2, <2>3, <2>4, <2>5, <2>6, <2>7 DEF SessionStep
<1>3. ASSUME NEW s \in Sessions, Attach(s) PROVE Kept'
  <2>1. /\ loop.at = "attach" /\ s \in loop.todo
        /\ loop' = [loop EXCEPT !.todo = loop.todo \ {s}]
        /\ UNCHANGED <<proc, slot, owner, open>>
        /\ \/ Reattached(s, slot[loop.kind]) /\ lost' = lost \ {s}
           \/ lost' = lost \cup {s} /\ UNCHANGED loaded
    BY <1>3 DEF Attach
  <2>2. loop.todo \ {s} \in SUBSET open
    BY <1>0, LoopRecord
  <2>3. loop'.at = "attach" /\ loop'.todo = loop.todo \ {s} /\ loop'.moving = loop.moving
    BY <1>0, <2>1, <2>2, LoopMoves
  <2>4. Owner(s) = loop.kind /\ slot[loop.kind] # 0 /\ loop.kind \in Kinds
    BY <1>0, <1>1, <2>1, LoopRecord DEF Attaching, Owned
  <2>5. slot[loop.kind] \in DOMAIN proc'
    BY <1>0, <1>1, <2>4 DEF Grows
  <2>6. CASE Reattached(s, slot[loop.kind]) /\ lost' = lost \ {s}
    <3>1. loaded'[s] = slot[loop.kind] /\ \A t \in Sessions : t # s => loaded'[t] = loaded[t]
      BY <1>0, <1>1, <2>5, <2>6, ReattachedShape
    <3>2. Regained(s)
      BY <2>1, <2>4, <3>1 DEF Regained, Owner
    <3>3. \A t \in open' \ lost' : t # s => Waits(t)' \/ Steady(t)
      BY <1>0, <2>1, <2>3, <2>6, <3>1 DEF Waits, Steady, Owner
    <3>4. QED
      BY <1>1, <3>2, <3>3, Regains
  <2>7. CASE lost' = lost \cup {s} /\ UNCHANGED loaded
    <3>1. \A t \in open' \ lost' : Waits(t)' \/ Steady(t)
      BY <1>0, <2>1, <2>3, <2>7 DEF Waits, Steady, Owner
    <3>2. QED
      BY <1>1, <3>1, Regains
  <2>8. QED
    BY <2>1, <2>6, <2>7
<1>4. CASE MoveOpens \/ MoveReturns
  <2>0. PICK s \in Sessions : s = loop.moving
    BY <1>0, <1>1, <1>4, LoopRecord DEF Moving, MoveOpens, MoveReturns
  <2>1. Owner(s) \in Kinds /\ loop.at \in {"open", "back"}
    BY <1>0, <1>4, PlacedKinds DEF MoveOpens, MoveReturns
  <2>2. /\ UNCHANGED <<owner, open>>
        /\ \/ loaded' = loaded /\ lost' = lost \cup {s}
           \/ lost' = lost \ {s} /\ \E p \in 1..MaxProcs : Routed(Owner(s), p) /\ Reattached(s, p)
    BY <1>4, <2>0 DEF MoveOpens, MoveReturns
  <2>3. CASE loaded' = loaded /\ lost' = lost \cup {s}
    <3>1. \A t \in open' \ lost' : Steady(t)
      BY <1>0, <2>0, <2>1, <2>2, <2>3 DEF Waits, Steady, Owner
    <3>2. QED
      BY <1>1, <3>1, Regains
  <2>4. ASSUME lost' = lost \ {s}, NEW p \in 1..MaxProcs, Routed(Owner(s), p), Reattached(s, p) PROVE Kept'
    <3>1. p \in DOMAIN proc' /\ slot'[Owner(s)] = p /\ p # 0
      BY <1>0, <2>1, <2>4, Routes
    <3>2. loaded'[s] = p /\ \A t \in Sessions : t # s => loaded'[t] = loaded[t]
      BY <1>0, <1>1, <2>4, <3>1, ReattachedShape
    <3>3. Regained(s)
      BY <2>2, <3>1, <3>2 DEF Regained, Owner
    <3>4. \A t \in open' \ lost' : t # s => Steady(t)
      BY <1>0, <2>0, <2>1, <2>2, <2>4, <3>2 DEF Waits, Steady, Owner
    <3>5. QED
      BY <1>1, <3>3, <3>4, Regains
  <2>5. QED
    BY <2>2, <2>3, <2>4
<1>5. CASE MoveRefused
  <2>0. PICK s \in Sessions : s = loop.moving
    BY <1>0, <1>1, <1>5, LoopRecord DEF Moving, MoveRefused
  <2>1. /\ loop.at = "open" /\ loop' = [loop EXCEPT !.at = "back"] /\ UNCHANGED <<loaded, open, lost>>
        /\ owner' = [owner EXCEPT ![s] = loop.kind]
    BY <1>5, <2>0 DEF MoveRefused, OwnerBack
  <2>2. loop'.moving = s
    BY <1>0, <2>0, <2>1, LoopRecord DEF LoopStates
  <2>3. \A t \in Sessions : t # s => owner'[t] = owner[t]
    BY <1>0, <2>1 DEF SessionsOK
  <2>4. \A t \in open' \ lost' : Waits(t)' \/ Steady(t)
    BY <1>0, <2>0, <2>1, <2>2, <2>3 DEF Waits, Steady, Owner
  <2>5. QED
    BY <1>1, <2>4, Regains
<1>6. CASE GivesUpMove
  <2>1. /\ loop.at = "launch" /\ loop.moving # "none" /\ loop' = Idle
        /\ UNCHANGED <<proc, out, slot, loaded, owner, open, lost>>
    BY <1>6 DEF GivesUpMove
  <2>2. /\ loop.kind \in Kinds /\ loop.moving \in Sessions
    BY <1>0, <2>1, LoopRecord
  <2>3. ASSUME NEW t \in open \ lost PROVE Held(t)
    <3>1. CASE Owner(t) = loop.kind
      <4>1. t \in Owned(loop.kind) /\ t \notin lost
        BY <2>3, <3>1 DEF Owned
      <4>2. slot[loop.kind] # 0
        BY <2>1, <4>1 DEF Kept
      <4>3. proc[slot[loop.kind]].st # "up"
        BY <2>1, <4>2 DEF Tracked, LaunchFree
      <4>4. Closed \in Said(out[slot[loop.kind]])
        BY <2>1, <2>2, <4>2, <4>3 DEF Tracked, Exits, Handled
      <4>5. QED
        BY <3>1, <4>2, <4>4 DEF Held
    <3>2. CASE Owner(t) # loop.kind
      <4>1. Owner(loop.moving) = loop.kind
        BY <1>1, <2>1 DEF Moving, Placement, Places
      <4>2. ~Waits(t)
        BY <2>1, <3>2, <4>1 DEF Waits
      <4>3. QED
        BY <2>3, <4>2 DEF Kept
    <3>3. QED
      BY <3>1, <3>2
  <2>4. QED
    BY <2>1, <2>3, LoopIdle DEF Kept, Held, Owner
<1>7. CASE AttachDone
  <2>1. CASE loop.moving = "none"
    <3>1. loop.at = "attach" /\ loop.todo = {} /\ UNCHANGED <<owner, open, lost, loaded>>
      BY <1>7, <2>1 DEF AttachDone
    <3>2. \A t \in open' \ lost' : Steady(t)
      BY <1>0, <2>1, <3>1 DEF Waits, Steady, Owner
    <3>3. QED
      BY <1>1, <3>2, Regains
  <2>2. CASE loop.moving # "none"
    <3>0. PICK s \in Sessions : s = loop.moving
      BY <1>0, <2>2, LoopRecord
    <3>1. /\ loop.at = "attach" /\ loop.todo = {} /\ loop' = [loop EXCEPT !.at = "open"]
          /\ UNCHANGED <<loaded, open, lost>>
          /\ owner' = [owner EXCEPT ![s] = HostForMode(loop.target)]
      BY <1>7, <2>2, <3>0 DEF AttachDone
    <3>2. loop'.moving = s
      BY <1>0, <3>0, <3>1, LoopRecord DEF LoopStates
    <3>3. \A t \in Sessions : t # s => owner'[t] = owner[t]
      BY <1>0, <3>1 DEF SessionsOK
    <3>4. \A t \in open' \ lost' : Waits(t)' \/ Steady(t)
      BY <1>0, <3>0, <3>1, <3>2, <3>3 DEF Waits, Steady, Owner
    <3>5. QED
      BY <1>1, <3>4, Regains
  <2>3. QED
    BY <2>1, <2>2
<1>8. QED
  BY <1>2, <1>3, <1>4, <1>5, <1>6, <1>7 DEF QuietStep

\* Nothing that an open session relies on changes, except that more is said.
LEMMA KeptStays ==
    ASSUME TypeOK, Kept, UNCHANGED <<slot, loop, owner, open, lost>>,
           \A k \in Kinds : slot[k] # 0 =>
              \A e \in Said(out[slot[k]]) : e = Closed \/ (\E t \in open' : e = [m |-> "deleted", s |-> t]) => e \in Said(out'[slot[k]]),
           \A t \in open : \/ loaded'[t] = loaded[t]
                           \/ loaded[t] # 0 /\ [m |-> "deleted", s |-> t] \in Said(out'[loaded[t]])
    PROVE  Kept'
<1>1. \A t \in open : t \in Sessions /\ Owner(t) \in Kinds
  BY Kindred DEF TypeOK, SessionsOK
<1>2. ASSUME NEW t \in open, Held(t) PROVE Held(t)'
  BY <1>1, <1>2 DEF Held, Owner
<1>3. \A t \in open : Waits(t) => Waits(t)'
  BY DEF Waits, Owner
<1>4. QED
  BY <1>2, <1>3 DEF Kept, Owned, Owner

LEMMA KeptMove ==
    ASSUME TypeOK, Tracked, Holders, Placement, Kept, NEW s \in Sessions, NEW m \in Modes, MoveSession(s, m)
    PROVE  Kept'
<1>0. /\ ProcsOK /\ SessionsOK /\ LoopOK /\ SlotKind
      /\ \A t \in open : t \in Sessions
  BY DEF TypeOK, Tracked, SessionsOK
<1>1. /\ \A k \in Kinds : slot[k] \in DOMAIN proc \cup {0}
      /\ slot["main"] \in DOMAIN proc /\ 0 \notin DOMAIN proc
      /\ \A t \in Sessions : Owner(t) \in Kinds
  BY <1>0, Slots, Kindred
<1>k. PICK k \in Kinds : k = Owner(s)
  BY <1>1
<1>2. /\ UNCHANGED <<open, lost>> /\ s \in open /\ Ready
      /\ loaded' = Released({slot[k]} \ {0})
      /\ loop'.kind = k /\ loop'.moving = s
      /\ \/ loop'.at = "launch" /\ owner' = owner /\ (k = "main" \/ Others(s) # {})
         \/ loop'.at = "open" /\ owner' = [owner EXCEPT ![s] = "main"] /\ Others(s) = {}
  BY <1>k DEF MoveSession, Others
<1>3. \A q \in DOMAIN proc : q # slot[k] => out'[q] = out[q]
  BY <1>0, <1>k, Moves
<1>4. /\ slot'["main"] = slot["main"]
      /\ slot'["ro"] = slot["ro"] \/ slot'["ro"] \in DOMAIN proc' \ DOMAIN proc
           \/ (slot'["ro"] = 0 /\ k = "ro" /\ Others(s) = {})
      /\ k = "ro" /\ Others(s) # {} => slot'["ro"] = slot["ro"]
  BY <1>0, <1>k, Moves
<1>5. \A q \in DOMAIN proc' \ DOMAIN proc : k = "main" /\ slot["ro"] = 0
  BY <1>0, <1>k, Moves DEF Starts
<1>7. \A t \in open \ lost : Held(t)
  BY <1>0, <1>2, NothingWaits DEF Kept
<1>8. ASSUME NEW t \in open \ lost, t # s PROVE Waits(t)' \/ Held(t)'
  <2>1. t \in Sessions /\ Owner(t) \in Kinds /\ Held(t)
    BY <1>0, <1>1, <1>7, <1>8
  <2>2. owner'[t] = owner[t] /\ Owner(t)' = Owner(t)
    BY <1>0, <1>2, <1>8, <2>1 DEF SessionsOK, Owner
  <2>3. CASE Owner(t) = k
    <3>1. t \in Others(s)
      BY <1>k, <1>8, <2>3 DEF Others, Owned
    <3>2. loop'.at = "launch"
      BY <1>2, <3>1
    <3>3. QED
      BY <1>2, <2>2, <2>3, <3>2 DEF Waits
  <2>4. CASE Owner(t) # k
    <3> DEFINE q == slot[Owner(t)]
    <3>1. q # 0 /\ q \in DOMAIN proc /\ q # slot[k]
      BY <1>0, <1>1, <1>k, <2>1, <2>4 DEF Held, SlotKind
    <3>2. slot'[Owner(t)] = q
      BY <1>1, <1>4, <1>5, <1>k, <2>1, <2>4, <3>1 DEF Kinds
    <3>3. out'[q] = out[q]
      BY <1>3, <3>1
    <3>4. loaded[t] = q => loaded'[t] = q
      BY <1>2, <2>1, <3>1 DEF Released
    <3>5. loaded[t] = q \/ Closed \in Said(out[q]) \/ [m |-> "deleted", s |-> t] \in Said(out[q])
      BY <2>1 DEF Held
    <3> HIDE DEF q
    <3>6. QED
      BY <2>2, <3>1, <3>2, <3>3, <3>4, <3>5 DEF Held
  <2>5. QED
    BY <2>3, <2>4
<1>9. ASSUME loop'.at = "launch", slot'[k] = 0 PROVE Owned(k)' \subseteq lost'
  <2>1. slot[k] = 0 /\ owner' = owner
    BY <1>1, <1>2, <1>4, <1>k, <1>9 DEF Kinds
  <2>2. \A t \in Owned(k) : t \in lost
    BY <1>7, <2>1 DEF Owned, Held
  <2>3. \A t \in Owned(k)' : t \in Owned(k)
    BY <1>2, <2>1 DEF Owned, Owner
  <2>4. QED
    BY <1>2, <2>2, <2>3
<1>10. QED
  <2>1. Waits(s)'
    BY <1>2 DEF Waits
  <2>2. \A t \in open' \ lost' : Waits(t)' \/ Held(t)'
    BY <1>2, <1>8, <2>1
  <2>3. loop'.at = "launch" /\ slot'[loop'.kind] = 0 => Owned(loop.kind)' \subseteq lost'
    BY <1>2, <1>9 DEF Owned
  <2>4. QED
    BY <2>2, <2>3 DEF Kept

\* The end of a process is read: its sessions wait for the restart, or are lost.
LEMMA KeptReap ==
    ASSUME TypeOK, Tracked, Holders, Placement, Kept, NEW p \in DOMAIN proc, ReadOnlyClosed(p) \/ MainRestarts(p)
    PROVE  Kept'
<1>0. /\ ProcsOK /\ SessionsOK /\ SlotKind
      /\ \A t \in open : t \in Sessions
      /\ "none" \notin Sessions
  BY DEF TypeOK, Tracked, SessionsOK
<1>1. /\ \A k \in Kinds : slot[k] \in DOMAIN proc \cup {0}
      /\ 0 \notin DOMAIN proc
      /\ \A t \in Sessions : Owner(t) \in Kinds
  BY <1>0, Slots, Kindred
<1>2. /\ Reaps(p) /\ Ready
      /\ \A k \in Kinds : k # proc[p].kind => slot'[k] = slot[k]
      /\ \/ loop' = Idle
         \/ loop'.at = "launch" /\ loop'.kind = proc[p].kind /\ loop'.moving = "none"
  BY <1>0, ReapCases
<1>3. /\ p = slot[proc[p].kind] /\ proc[p].kind \in Kinds
      /\ \A q \in DOMAIN proc : q # p => out'[q] = out[q]
      /\ \A s \in Sessions : loaded'[s] = IF loaded[s] = p THEN 0 ELSE loaded[s]
  BY <1>0, <1>2, ReapsOne
<1>4. UNCHANGED <<owner, open>> /\ lost \subseteq lost'
  BY DEF ReadOnlyClosed, AbandonReadOnly, MainRestarts
<1>5. loop' = Idle => \A t \in open \ lost' : Owner(t) # proc[p].kind
  <2>1. CASE MainRestarts(p)
    BY <2>1, LoopIdle DEF MainRestarts
  <2>2. CASE ReadOnlyClosed(p)
    <3>1. /\ proc[p].kind = "ro"
          /\ \/ Owned("ro") = {}
             \/ loop' = [Idle EXCEPT !.at = "launch", !.kind = "ro"]
             \/ lost' = lost \cup Owned("ro")
      BY <2>2 DEF ReadOnlyClosed, AbandonReadOnly
    <3>2. [Idle EXCEPT !.at = "launch", !.kind = "ro"] # Idle
      BY DEF Idle
    <3>3. QED
      BY <3>1, <3>2 DEF Owned
  <2>3. QED
    BY <2>1, <2>2
<1>6. \A t \in open \ lost : Held(t)
  BY <1>0, <1>2, NothingWaits DEF Kept
<1>7. ASSUME NEW t \in open \ lost' PROVE Waits(t)' \/ Held(t)'
  <2>1. t \in Sessions /\ Owner(t) \in Kinds /\ Held(t) /\ Owner(t)' = Owner(t)
    BY <1>0, <1>1, <1>4, <1>6, <1>7 DEF Owner
  <2>2. CASE Owner(t) = proc[p].kind
    BY <1>2, <1>5, <1>7, <2>1, <2>2 DEF Waits
  <2>3. CASE Owner(t) # proc[p].kind
    <3> DEFINE q == slot[Owner(t)]
    <3>1. q # 0 /\ q \in DOMAIN proc /\ q # p /\ slot'[Owner(t)] = q
      BY <1>0, <1>1, <1>2, <2>1, <2>3 DEF Held, SlotKind
    <3>2. out'[q] = out[q] /\ (loaded[t] = q => loaded'[t] = q)
      BY <1>3, <2>1, <3>1
    <3>3. loaded[t] = q \/ Closed \in Said(out[q]) \/ [m |-> "deleted", s |-> t] \in Said(out[q])
      BY <2>1 DEF Held
    <3> HIDE DEF q
    <3>4. QED
      BY <2>1, <3>1, <3>2, <3>3 DEF Held
  <2>4. QED
    BY <2>2, <2>3
<1>8. loop'.moving = "none"
  BY <1>2, LoopIdle
<1>9. QED
  BY <1>4, <1>7, <1>8 DEF Kept

LEMMA StepKept ==
    ASSUME TypeOK, Tracked, Holders, Answerable, Placement, Kept, [Next]_vars
    PROVE  Kept'
<1>0. /\ ProcsOK /\ SessionsOK /\ LoopOK /\ SlotKind
      /\ \A t \in open : t \in Sessions
      /\ "none" \notin Sessions
  BY DEF TypeOK, Tracked, SessionsOK
<1>01. /\ \A k \in Kinds : slot[k] \in DOMAIN proc \cup {0}
       /\ 0 \notin DOMAIN proc
       /\ \A t \in Sessions : Owner(t) \in Kinds
       /\ \A k \in Kinds : slot[k] # 0 => IsCurrent(slot[k])
  BY <1>0, Slots, Kindred DEF SlotKind, IsCurrent
<1> USE DEF procVars, sessionVars
<1>1. CASE QuietStep
  BY <1>1, KeptQuiet
<1>2. CASE Relaunch
  <2>1. /\ loop.at = "launch" /\ loop.kind \in Kinds /\ loop'.at = "attach"
        /\ loop'.moving = loop.moving
        /\ loop'.todo = Owned(loop.kind) \ {loop.moving}
        /\ UNCHANGED <<loaded, owner, open, mode, busy, saved, disk, home, lost, pending, retired>>
        /\ \E p \in 1..MaxProcs :
             /\ p \notin DOMAIN proc /\ p # 0 /\ DOMAIN proc' = DOMAIN proc \cup {p}
             /\ \A q \in DOMAIN proc : proc'[q] = proc[q] /\ out'[q] = out[q]
             /\ proc'[p].kind = loop.kind /\ proc'[p].st = "up" /\ out'[p] = <<>>
             /\ slot'[loop.kind] = p /\ \A j \in Kinds : j # loop.kind => slot'[j] = slot[j]
    BY <1>0, <1>2, RelaunchShape
  <2>2. /\ \A q \in DOMAIN proc : out'[q] = out[q]
        /\ \A j \in Kinds : j # loop.kind => slot'[j] = slot[j]
    BY <2>1
  <2>3. ASSUME NEW t \in open \ lost PROVE Waits(t)' \/ Held(t)'
    <3>1. CASE Owner(t) = loop.kind
      BY <2>1, <2>3, <3>1 DEF Owned, Waits
    <3>2. CASE t = loop.moving
      BY <2>1, <3>2 DEF Waits
    <3>3. CASE Owner(t) # loop.kind /\ t # loop.moving
      <4>1. Held(t) /\ Owner(t) \in Kinds /\ Owner(t)' = Owner(t)
        BY <1>0, <1>01, <2>1, <2>3, <3>3 DEF Kept, Waits, Owner
      <4>2. QED
        BY <1>01, <2>1, <2>2, <3>3, <4>1 DEF Held
    <3>4. QED
      BY <3>1, <3>2, <3>3
  <2>4. QED
    BY <2>1, <2>3 DEF Kept
<1>3. CASE EndAdapter
  <2>1. open' = {} /\ loop' = Gone
    BY <1>3 DEF EndAdapter, Dropped
  <2>2. QED
    BY <2>1, LoopIdle DEF Kept
<1>4. CASE AbandonStep
  <2>1. /\ loop.at = "launch" /\ loop.kind = "ro" /\ loop.moving = "none" /\ loop' = Idle
        /\ UNCHANGED <<out, owner, open, loaded>>
        /\ slot' = [slot EXCEPT !.ro = 0] /\ lost' = lost \cup Owned("ro")
    BY <1>4 DEF AbandonStep, AbandonReadOnly
  <2>2. slot'["main"] = slot["main"]
    BY <1>0, <2>1, Slots DEF Kinds
  <2>3. ASSUME NEW t \in open \ lost' PROVE Held(t)'
    <3>1. Owner(t) = "main" /\ t \in open \ lost /\ Owner(t)' = Owner(t)
      BY <1>0, <1>01, <2>1, <2>3 DEF Owned, Kinds, Owner
    <3>2. Held(t)
      BY <1>0, <2>1, <3>1 DEF Kept, Waits
    <3>3. QED
      BY <2>1, <2>2, <3>1, <3>2 DEF Held
  <2>4. QED
    BY <2>1, <2>3, LoopIdle DEF Kept
<1>5. ASSUME NEW s \in Sessions, NEW m \in Modes, MoveSession(s, m) PROVE Kept'
  BY <1>5, KeptMove
<1>6. ASSUME NEW p \in DOMAIN proc, ReadOnlyClosed(p) \/ MainRestarts(p) PROVE Kept'
  BY <1>6, KeptReap
<1>7. ASSUME NEW p \in DOMAIN proc, TakesOutcome(p) PROVE Kept'
  <2> DEFINE s == Head(out[p]).s
  <2>1. /\ Ready /\ UNCHANGED <<proc, slot, loop, loaded>>
        /\ s \in Sessions /\ Outcome(Head(out[p])) /\ Head(out[p]) \in Said(out[p])
        /\ \A r \in DOMAIN proc : r # p => out'[r] = out[r]
        /\ Said(out[p]) = Said(out'[p]) \cup {Head(out[p])}
        /\ IsCurrent(p)
    BY <1>0, <1>7, TakesShape
  <2>2. \/ Forget(s)
        \/ owner' = Learned(s, p) /\ UNCHANGED <<open, lost>> /\ Head(out[p]).m = "kept"
    BY <1>7 DEF TakesOutcome, DeleteCompleted, DeleteFailed, Reads
  <2>3. pending[s] = p
    BY <2>1 DEF Answerable, Outcomes, Ready, Idle, Handled
  <2>4. \A q \in DOMAIN proc : \A e \in Said(out[q]) : e # Head(out[p]) => e \in Said(out'[q])
    BY <2>1
  <2>5. Head(out[p]) # Closed
    BY <2>1 DEF Outcome, Closed
  <2>6. \A t \in Sessions : t # s \/ Head(out[p]).m = "kept" => Head(out[p]) # [m |-> "deleted", s |-> t]
    OBVIOUS
  <2> HIDE DEF s
  <2>7. owner[s] = "none" => proc[p].kind = "main"
    BY <1>0, <1>01, <2>1, <2>3 DEF Answerable, Deletes
  <2>8. \A t \in open \ lost : Held(t)
    BY <1>0, <2>1, NothingWaits DEF Kept
  <2>9. /\ \A t \in open' \ lost' : t \in open \ lost /\ (t # s \/ Head(out[p]).m = "kept")
        /\ \A t \in open' : Owner(t)' = Owner(t)
    <3>1. CASE Forget(s)
      BY <1>0, <2>1, <3>1 DEF Forget, Dropped, Owner, SessionsOK
    <3>2. CASE owner' = Learned(s, p) /\ UNCHANGED <<open, lost>> /\ Head(out[p]).m = "kept"
      <4>1. \A t \in Sessions : Owner(t)' = Owner(t)
        BY <1>0, <2>7, <3>2 DEF Learned, Owner, SessionsOK
      <4>2. QED
        BY <1>0, <3>2, <4>1
    <3>3. QED
      BY <2>2, <3>1, <3>2
  <2>10. ASSUME NEW t \in open' \ lost' PROVE Held(t)'
    <3> DEFINE q == slot[Owner(t)]
    <3>1. t \in Sessions /\ Owner(t) \in Kinds /\ Held(t) /\ Owner(t)' = Owner(t)
      BY <1>0, <1>01, <2>8, <2>9, <2>10
    <3>2. q # 0 /\ q \in DOMAIN proc /\ slot'[Owner(t)] = q /\ loaded'[t] = loaded[t]
      BY <1>01, <2>1, <3>1 DEF Held
    <3>3. loaded[t] = q \/ Closed \in Said(out[q]) \/ [m |-> "deleted", s |-> t] \in Said(out[q])
      BY <3>1 DEF Held
    <3> HIDE DEF q
    <3>4. /\ Closed \in Said(out[q]) => Closed \in Said(out'[q])
          /\ [m |-> "deleted", s |-> t] \in Said(out[q]) => [m |-> "deleted", s |-> t] \in Said(out'[q])
      BY <2>4, <2>5, <2>6, <2>9, <2>10, <3>1, <3>2
    <3>5. QED
      BY <3>1, <3>2, <3>3, <3>4 DEF Held
  <2>11. loop'.at # "launch"
    BY <2>1, LoopIdle DEF Ready
  <2>12. QED
    BY <2>10, <2>11 DEF Kept
<1>8. ASSUME NEW p \in DOMAIN proc, DropStale(p) PROVE Kept'
  <2>1. /\ \A r \in DOMAIN proc : r # p => out'[r] = out[r]
        /\ ~IsCurrent(p) /\ UNCHANGED <<slot, loop>>
    BY <1>0, <1>8, DropsStale
  <2>2. UNCHANGED <<owner, open, lost, loaded>>
    BY <1>8 DEF DropStale
  <2>3. \A k \in Kinds : slot[k] # 0 => out'[slot[k]] = out[slot[k]]
    BY <1>01, <2>1
  <2>4. QED
    BY <2>1, <2>2, <2>3, KeptStays
<1>9. ASSUME NEW p \in DOMAIN proc, HostExits(p) PROVE Kept'
  <2>1. /\ \A q \in DOMAIN proc : q # p => out'[q] = out[q]
        /\ Said(out'[p]) = Said(out[p]) \cup {Closed}
        /\ UNCHANGED <<slot, loaded, owner, open, lost, loop>>
    BY <1>0, <1>9, ExitsShape
  <2>2. \A q \in DOMAIN proc : Said(out[q]) \subseteq Said(out'[q])
    BY <2>1
  <2>3. QED
    BY <1>01, <2>1, <2>2, KeptStays
<1>10. ASSUME NEW s \in Sessions, HostDeletes(s) PROVE Kept'
  <2>1. /\ UNCHANGED <<slot, loop, owner, open, lost>>
        /\ pending[s] \in DOMAIN proc
        /\ \A r \in DOMAIN proc : r # pending[s] => out'[r] = out[r]
    BY <1>0, <1>10, DeletesShape
  <2>2. PICK e \in Events :
               /\ Said(out'[pending[s]]) = Said(out[pending[s]]) \cup {e}
               /\ \/ e = [m |-> "deleted", s |-> s] /\ loaded[s] \in {0, pending[s]} /\ loaded' = [loaded EXCEPT ![s] = 0]
                  \/ UNCHANGED loaded
    BY <1>0, <1>10, DeletesShape
  <2>3. \A q \in DOMAIN proc : Said(out[q]) \subseteq Said(out'[q])
    BY <2>1, <2>2
  <2>4. \A t \in Sessions : \/ loaded'[t] = loaded[t]
                            \/ t = s /\ loaded[t] # 0 /\ [m |-> "deleted", s |-> t] \in Said(out'[loaded[t]])
    BY <1>0, <2>2 DEF ProcsOK
  <2>5. QED
    BY <1>0, <1>01, <2>1, <2>3, <2>4, KeptStays
<1>11. ASSUME UNCHANGED <<out, slot, loop, owner, open, lost, loaded>> PROVE Kept'
  BY <1>11, KeptStays
<1>12. /\ \A s \in Sessions, m \in Modes : OtherSaves(s, m) => UNCHANGED <<out, slot, loop, owner, open, lost, loaded>>
       /\ UNCHANGED vars => UNCHANGED <<out, slot, loop, owner, open, lost, loaded>>
  BY DEF OtherSaves, vars
<1>13. QED
  BY <1>1, <1>2, <1>3, <1>4, <1>5, <1>6, <1>7, <1>8, <1>9, <1>10, <1>11, <1>12, NextCases

-----------------------------------------------------------------------------
(* What was abandoned.                                                       *)

\* A step after which the loop neither attaches nor moves anything.
LEMMA AbandonedSettles ==
    ASSUME TypeOK, Abandoned, loop'.at # "attach", loop'.moving = "none", busy' \subseteq open',
           open' \subseteq Sessions,
           \A t \in lost' : \/ t \in lost /\ loaded'[t] \in {loaded[t], 0} /\ (t \in busy' => t \in busy)
                            \/ t \notin busy' /\ loaded'[t] = 0
    PROVE  Abandoned'
<1>1. "none" \notin busy'
  OBVIOUS
<1>2. QED
  BY <1>1 DEF Abandoned

LEMMA AbandonedSession ==
    ASSUME TypeOK, Tracked, Answerable, Placement, Abandoned, SessionsOK', NEW s \in Sessions, SessionStep(s),
           ~Attach(s)
    PROVE  Abandoned'
<1>0. /\ ProcsOK /\ SessionsOK /\ LoopOK /\ Unborn /\ 0 \notin DOMAIN proc
      /\ loaded \in [Sessions -> DOMAIN proc \cup {0}] /\ lost \subseteq Sessions
      /\ loop.at = "idle" /\ loop.moving = "none" /\ loop' = loop
      /\ busy' \subseteq open' /\ open' \subseteq Sessions
  BY LoopIdle, Slots DEF TypeOK, ProcsOK, SessionsOK, Answerable, SessionStep, Ready, NewSession, LoadSession, Prompt,
     CloseSession, DeleteSession, ForkSession, RelabelMode, TurnEnds
<1> USE DEF procVars, sessionVars
<1> DEFINE Fine(t) == \/ t \in lost /\ loaded'[t] \in {loaded[t], 0} /\ (t \in busy' => t \in busy)
                      \/ t \notin busy' /\ loaded'[t] = 0
<1>00. SUFFICES \A t \in lost' : Fine(t)
  <2>1. loop'.at # "attach" /\ loop'.moving = "none"
    BY <1>0
  <2>2. ASSUME \A t \in lost' : Fine(t) PROVE Abandoned'
    <3>1. \A t \in lost' : t \notin busy' /\ loaded'[t] = 0
      BY <2>2 DEF Abandoned
    <3>2. loop'.moving \notin busy'
      BY <1>0, <2>1
    <3>3. QED
      BY <2>1, <3>1, <3>2 DEF Abandoned
  <2>3. QED
    BY <2>2
<1> SUFFICES ASSUME NEW t \in lost' PROVE Fine(t)
  OBVIOUS
<1>1. CASE NewSession(s)
  <2>1. UNCHANGED <<lost, busy>> /\ loaded' = [loaded EXCEPT ![s] = slot.main] /\ disk[s] = "none"
    BY <1>1 DEF NewSession
  <2>2. s \notin lost
    BY <1>0, <2>1 DEF Unborn, SessionsOK
  <2>3. QED
    BY <1>0, <2>1, <2>2
<1>2. CASE LoadSession(s)
  <2>1. /\ busy' = busy
        /\ \/ lost' = lost \ {s} /\ \E p \in 1..MaxProcs : loaded' = [loaded EXCEPT ![s] = p]
           \/ UNCHANGED <<loaded, lost>>
    BY <1>2 DEF LoadSession, Opens
  <2>2. QED
    BY <1>0, <2>1
<1>3. ASSUME NEW n \in Sessions, ForkSession(s, n) PROVE Fine(t)
  <2>1. /\ UNCHANGED <<lost, busy>> /\ disk[n] = "none"
        /\ loaded' = loaded \/ \E p \in 1..MaxProcs : loaded' = [loaded EXCEPT ![n] = p]
    BY <1>3 DEF ForkSession, Opens
  <2>2. n \notin lost
    BY <1>0, <2>1 DEF Unborn, SessionsOK
  <2>3. QED
    BY <1>0, <2>1, <2>2
<1>4. CASE Prompt(s)
  <2>1. PICK p \in 1..MaxProcs : busy' = busy \/ (busy' = busy \cup {s} /\ loaded[s] = p)
    BY <1>4 DEF Prompt
  <2>2. UNCHANGED <<lost, loaded>> /\ p # 0
    BY <1>4 DEF Prompt
  <2>3. QED
    BY <1>0, <2>1, <2>2 DEF Abandoned
<1>5. CASE CloseSession(s)
  <2>1. /\ lost' \subseteq lost /\ busy' \subseteq busy
        /\ loaded' = loaded \/ loaded' = [loaded EXCEPT ![s] = 0]
    BY <1>5 DEF CloseSession, Dropped
  <2>2. QED
    BY <1>0, <2>1
<1>6. CASE DeleteSession(s)
  <2>1. lost' \subseteq lost /\ busy' \subseteq busy /\ loaded' = loaded
    BY <1>6 DEF DeleteSession, Forget, Dropped
  <2>2. QED
    BY <1>0, <2>1
<1>7. CASE TurnEnds(s) \/ (\E m \in Modes : RelabelMode(s, m))
  <2>1. lost' = lost /\ busy' \subseteq busy /\ loaded' = loaded
    BY <1>7 DEF TurnEnds, RelabelMode
  <2>2. QED
    BY <1>0, <2>1
<1>8. QED
  BY <1>1, <1>2, <1>3, <1>4, <1>5, <1>6, <1>7 DEF SessionStep

LEMMA AbandonedRestart ==
    ASSUME TypeOK, Tracked, Placement, Abandoned, SessionsOK',
           (\E s \in Sessions : Attach(s)) \/ MoveOpens \/ MoveRefused \/ MoveReturns \/ AttachDone \/ GivesUpMove
    PROVE  Abandoned'
<1>0. /\ ProcsOK /\ SessionsOK /\ LoopOK /\ Moving /\ 0 \notin DOMAIN proc
      /\ loaded \in [Sessions -> DOMAIN proc \cup {0}] /\ lost \subseteq Sessions
      /\ busy' \subseteq open' /\ open' \subseteq Sessions /\ loop.todo \subseteq open /\ open \subseteq Sessions
  BY Slots, LoopRecord DEF TypeOK, ProcsOK, SessionsOK, Placement
<1> USE DEF procVars, sessionVars
<1>1. ASSUME NEW s \in Sessions, Attach(s) PROVE Abandoned'
  <2>1. /\ loop.at = "attach" /\ s \in loop.todo /\ loaded[s] = 0 /\ loop' = [loop EXCEPT !.todo = @ \ {s}]
        /\ busy' \subseteq busy
        /\ \/ lost' = lost \ {s} /\ loaded' = [loaded EXCEPT ![s] = slot[loop.kind]]
           \/ lost' = lost \cup {s} /\ s \notin busy' /\ loaded' = loaded
    BY <1>1 DEF Attach, Reattached, Opens, Abandoned
  <2>2. loop'.todo = loop.todo \ {s} /\ loop'.moving = loop.moving
    <3>1. loop.todo \ {s} \in SUBSET open
      BY <1>0
    <3>2. QED
      BY <1>0, <2>1, <3>1, LoopMoves
  <2>3. \A t \in lost' : t \notin busy' /\ loaded'[t] = 0
    BY <1>0, <2>1 DEF Abandoned
  <2>4. \A t \in loop'.todo : loaded'[t] = 0
    BY <1>0, <2>1, <2>2 DEF Abandoned
  <2>5. QED
    BY <2>1, <2>2, <2>3, <2>4 DEF Abandoned
<1>2. CASE MoveOpens \/ MoveReturns
  <2> DEFINE m == loop.moving
  <2>1. /\ loop' = Idle /\ busy' = busy
        /\ \/ lost' = lost \ {m} /\ \E p \in 1..MaxProcs : loaded' = [loaded EXCEPT ![m] = p]
           \/ lost' = lost \cup {m} /\ loaded' = loaded
    BY <1>2 DEF MoveOpens, MoveReturns, Reattached, Opens
  <2>2. m \notin busy /\ loaded[m] = 0
    BY <1>0, <1>2 DEF Abandoned, Moving, MoveOpens, MoveReturns
  <2>3. loop'.at # "attach" /\ loop'.moving = "none"
    BY <2>1, LoopIdle
  <2> HIDE DEF m
  <2>4. \A t \in lost' : t \notin busy' /\ loaded'[t] = 0
    BY <1>0, <2>1, <2>2 DEF Abandoned
  <2>5. QED
    BY <1>0, <2>3, <2>4, AbandonedSettles
<1>3. CASE MoveRefused
  <2>1. UNCHANGED <<lost, busy, loaded>> /\ loop' = [loop EXCEPT !.at = "back"]
    BY <1>3 DEF MoveRefused
  <2>2. loop'.at = "back" /\ loop'.moving = loop.moving
    BY <1>0, <2>1, LoopMoves
  <2>3. QED
    BY <2>1, <2>2 DEF Abandoned
<1>4. CASE AttachDone \/ GivesUpMove
  <2>1. UNCHANGED <<lost, busy, loaded>> /\ (loop' = Idle \/ loop' = [loop EXCEPT !.at = "open"])
    BY <1>4 DEF AttachDone, GivesUpMove
  <2>2. loop'.at # "attach" /\ loop'.moving \in {loop.moving, "none"}
    <3>1. [loop EXCEPT !.at = "open"].at = "open" /\ [loop EXCEPT !.at = "open"].moving = loop.moving
      BY <1>0, LoopMoves
    <3>2. QED
      BY <2>1, <3>1, LoopIdle
  <2>3. "none" \notin busy
    BY <1>0 DEF SessionsOK
  <2>4. QED
    BY <2>1, <2>2, <2>3 DEF Abandoned
<1>5. QED
  BY <1>1, <1>2, <1>3, <1>4

LEMMA StepAbandoned ==
    ASSUME TypeOK, Tracked, Holders, Answerable, Placement, Abandoned, SessionsOK', [Next]_vars
    PROVE  Abandoned'
<1>0. /\ ProcsOK /\ SessionsOK /\ LoopOK /\ LaunchFree /\ 0 \notin DOMAIN proc
      /\ loaded \in [Sessions -> DOMAIN proc \cup {0}] /\ lost \subseteq Sessions
      /\ busy' \subseteq open' /\ open' \subseteq Sessions /\ open \subseteq Sessions
  BY Slots DEF TypeOK, Tracked, ProcsOK, SessionsOK
<1> USE DEF procVars, sessionVars
<1>1. CASE QuietStep
  BY <1>1, AbandonedSession, AbandonedRestart DEF QuietStep
\* What waits for a launch has no host: the one it had is dead.
<1>2. ASSUME loop.at = "launch", NEW t \in Owned(loop.kind) PROVE loaded[t] = 0
  BY <1>0, <1>2, HeldByOwner DEF Owned, Holders, LaunchFree
<1>3. CASE Relaunch
  <2>1. /\ loop.at = "launch" /\ loop'.moving = loop.moving /\ loop'.todo \subseteq Owned(loop.kind)
        /\ UNCHANGED <<loaded, busy, lost>>
    BY <1>0, <1>3, RelaunchShape
  <2>2. QED
    BY <1>2, <2>1 DEF Abandoned
<1>4. CASE EndAdapter
  <2>1. lost' = {} /\ loop' = Gone
    BY <1>0, <1>4 DEF EndAdapter, Dropped, SessionsOK
  <2>2. QED
    BY <1>0, <2>1, LoopIdle, AbandonedSettles
<1>5. CASE AbandonStep
  <2>1. /\ loop.at = "launch" /\ loop.kind = "ro" /\ loop' = Idle /\ loaded' = loaded
        /\ busy' = busy \ Owned("ro") /\ lost' = lost \cup Owned("ro")
    BY <1>5 DEF AbandonStep, AbandonReadOnly
  <2>2. \A t \in lost' : t \notin busy' /\ loaded'[t] = 0
    BY <1>2, <2>1 DEF Abandoned
  <2>3. QED
    BY <1>0, <2>1, <2>2, LoopIdle, AbandonedSettles
<1>6. ASSUME NEW s \in Sessions, NEW m \in Modes, MoveSession(s, m) PROVE Abandoned'
  <2>1. /\ UNCHANGED <<busy, lost>> /\ s \in open /\ WorkOn(s) = {}
        /\ loaded' = Released({slot[Owner(s)]} \ {0})
        /\ loop'.at # "attach" /\ loop'.moving = s
    BY <1>6 DEF MoveSession
  <2>2. s \notin busy
    BY <2>1 DEF WorkOn, Owned
  <2>3. \A t \in Sessions : loaded'[t] \in {loaded[t], 0}
    BY <2>1 DEF Released
  <2>4. QED
    BY <1>0, <2>1, <2>2, <2>3 DEF Abandoned
<1>7. ASSUME NEW p \in DOMAIN proc, ReadOnlyClosed(p) \/ MainRestarts(p) PROVE Abandoned'
  <2>1. /\ Reaps(p) /\ loop'.at # "attach" /\ loop'.moving = "none"
    BY <1>0, <1>7, ReapCases, LoopIdle
  <2>2. /\ p = slot[proc[p].kind]
        /\ \A t \in Sessions : loaded'[t] = IF loaded[t] = p THEN 0 ELSE loaded[t]
    BY <1>0, <2>1, ReapsOne
  <2>3. \/ UNCHANGED <<busy, lost>>
        \/ proc[p].kind = "ro" /\ busy' = busy \ Owned("ro") /\ lost' = lost \cup Owned("ro")
    BY <1>7 DEF ReadOnlyClosed, MainRestarts, AbandonReadOnly
  <2>4. \A t \in Owned(proc[p].kind) : loaded'[t] = 0
    <3>1. ASSUME NEW t \in Owned(proc[p].kind) PROVE loaded[t] \in {0, p}
      BY <1>0, <2>2, HeldByOwner DEF Owned
    <3>2. QED
      BY <1>0, <2>2, <3>1 DEF Owned
  <2>5. \A t \in lost : t \notin busy /\ loaded'[t] = 0
    BY <1>0, <2>2 DEF Abandoned
  <2>6. \A t \in lost' : t \notin busy' /\ loaded'[t] = 0
    BY <2>3, <2>4, <2>5
  <2>7. QED
    BY <1>0, <2>1, <2>6, AbandonedSettles
<1>8. ASSUME UNCHANGED loop, busy' \subseteq busy, lost' \subseteq lost,
             \A t \in Sessions : loaded'[t] \in {loaded[t], 0}
      PROVE  Abandoned'
  <2>1. loop.todo \subseteq Sessions
    BY <1>0, LoopRecord
  <2>2. QED
    BY <1>0, <1>8, <2>1 DEF Abandoned
<1>9. ASSUME NEW p \in DOMAIN proc, TakesOutcome(p) PROVE Abandoned'
  <2>1. UNCHANGED <<loop, loaded>>
    BY <1>0, <1>9, TakesShape
  <2>2. busy' \subseteq busy /\ lost' \subseteq lost
    BY <1>9 DEF TakesOutcome, DeleteCompleted, DeleteFailed, Forget, Dropped
  <2>3. QED
    BY <1>8, <2>1, <2>2
<1>10. ASSUME NEW p \in DOMAIN proc, HostExits(p) \/ DropStale(p) PROVE Abandoned'
  BY <1>8, <1>10 DEF HostExits, DropStale
<1>11. ASSUME NEW s \in Sessions, HostDeletes(s) \/ (\E m \in Modes : OtherSaves(s, m)) PROVE Abandoned'
  <2>1. UNCHANGED <<loop, busy, lost>> /\ (loaded' = loaded \/ loaded' = [loaded EXCEPT ![s] = 0])
    BY <1>11 DEF HostDeletes, OtherSaves
  <2>2. QED
    BY <1>0, <1>8, <2>1
<1>12. CASE UNCHANGED vars
  BY <1>8, <1>12 DEF vars
<1>13. QED
  BY <1>1, <1>3, <1>4, <1>5, <1>6, <1>7, <1>9, <1>10, <1>11, <1>12, NextCases

-----------------------------------------------------------------------------
(* The theorems.                                                             *)

IInv == TypeOK /\ Tracked /\ Holders /\ Answerable /\ Placement /\ Kept /\ Abandoned

LEMMA InitIInv == Init => IInv
<1> SUFFICES ASSUME Init PROVE IInv
  OBVIOUS
<1>1. /\ proc = <<[kind |-> "main", st |-> "up"]>> /\ out = << <<>> >>
      /\ slot = [main |-> 1, ro |-> 0] /\ open = {} /\ busy = {} /\ lost = {} /\ retired = {}
      /\ owner = [s \in Sessions |-> "none"] /\ mode = [s \in Sessions |-> "default"]
      /\ saved \in [Sessions -> Modes]
      /\ disk = [s \in Sessions |-> IF s \in Old THEN "kept" ELSE "none"]
      /\ loaded = [s \in Sessions |-> 0] /\ home = loaded /\ pending = loaded
      /\ admitted = [k \in Kinds |-> <<>>] /\ now = 0 /\ loop = Idle /\ rare = 0 /\ durable \in BOOLEAN
  BY DEF Init
<1>2. [kind |-> "main", st |-> "up"] \in Processes
  BY DEF Processes, Kinds
<1>3. /\ DOMAIN proc = {1} /\ proc[1] = [kind |-> "main", st |-> "up"] /\ out[1] = <<>> /\ DOMAIN out = {1}
      /\ Len(proc) = 1 /\ Len(out) = 1
  BY <1>1
<1>4. proc \in Seq(Processes) /\ out \in Seq(Seq(Events))
  <2>1. <<>> \in Seq(Events)
    BY Silence
  <2>2. QED
    BY <1>1, <1>2, <2>1
<1>5. ProcsOK
  BY <1>1, <1>3, <1>4 DEF ProcsOK
<1>6. SessionsOK
  BY <1>1 DEF SessionsOK
<1>7. LoopOK
  <2>1. admitted \in [Kinds -> Seq(0..MaxNow)] /\ now \in 0..MaxNow /\ rare \in 0..MaxRare
    BY <1>1
  <2>2. QED
    BY <1>1, <2>1, LoopIdle, LoopParts
<1>8. loop.at = "idle" /\ loop.moving = "none"
  BY <1>1, LoopIdle
<1>9. Tracked
  <2>1. SlotKind /\ NoLeakedHost /\ LaunchFree
    BY <1>1, <1>3, <1>8 DEF SlotKind, NoLeakedHost, LaunchFree, IsCurrent, Kinds
  <2>2. Exits /\ Single
    BY <1>1, <1>3, Silence DEF Exits, Single, Kinds
  <2>3. QED
    BY <2>1, <2>2 DEF Tracked
<1>10. Holders /\ Answerable
  BY <1>1, <1>3, Silence DEF Holders, Answerable, Outcomes, Deletes, Unborn
<1>11. Placement /\ Kept
  BY <1>1, <1>8 DEF Placement, Moving, Places, Attaching, ModeIsEnforced, Kept
<1>12. Abandoned
  BY <1>1, <1>8 DEF Abandoned
<1>13. QED
  BY <1>5, <1>6, <1>7, <1>9, <1>10, <1>11, <1>12 DEF IInv, TypeOK

LEMMA StepIInv == IInv /\ [Next]_vars => IInv'
<1> SUFFICES ASSUME IInv, [Next]_vars PROVE IInv'
  OBVIOUS
<1>1. TypeOK' /\ Tracked' /\ Holders' /\ Answerable' /\ Placement' /\ Kept'
  BY StepType, StepTracked, StepHolders, StepAnswerable, StepPlacement, StepKept DEF IInv, Placement
<1>2. SessionsOK'
  BY <1>1 DEF TypeOK
<1>3. Abandoned'
  BY <1>2, StepAbandoned DEF IInv
<1>4. QED
  BY <1>1, <1>3 DEF IInv

LEMMA Invariant == Spec => []IInv
BY InitIInv, StepIInv, PTL DEF Spec

\* Types: every table names processes that were launched, the sessions that work or
\* are lost are open ones, and the loop's record is well formed in every phase of a
\* restart or a move.
THEOREM TypeCorrect == Spec => []TypeOK
<1>1. IInv => TypeOK
  BY DEF IInv
<1>2. QED
  BY <1>1, Invariant, PTL

\* Hosts: no launch, restart, failed restart or move loses track of a process that
\* still runs, and none outlives the adapter.
THEOREM NoLeakedHostHolds == Spec => []NoLeakedHost
<1>1. IInv => NoLeakedHost
  BY DEF IInv, Tracked
<1>2. QED
  BY <1>1, Invariant, PTL

\* mode_on_host, place_session and move_session: a session is held only by a host
\* that enforces its mode.
THEOREM ModeIsEnforcedHolds == Spec => []ModeIsEnforced
<1>1. IInv => ModeIsEnforced
  BY DEF IInv, Placement
<1>2. QED
  BY <1>1, Invariant, PTL

\* The idle loop: an open session is held by the current process of its owner, or an
\* unread event says why not; only an idle session that could not be opened again is
\* excepted, and none that has work.
THEOREM OpenIsHeldHolds == Spec => []OpenIsHeld
<1>1. IInv => OpenIsHeld
  <2> SUFFICES ASSUME IInv, Ready PROVE OpenIsHeld
    BY DEF OpenIsHeld
  <2>1. busy \cup (open \ lost) = open \ lost /\ open \subseteq Sessions
    BY DEF IInv, TypeOK, SessionsOK, Abandoned
  <2>2. \A s \in open \ lost : Held(s)
    BY <2>1, NothingWaits DEF IInv, Kept
  <2>3. QED
    BY <2>1, <2>2 DEF OpenIsHeld, Held, Said, Told, Closed
<1>2. QED
  BY <1>1, Invariant, PTL

\* fail_pending_deletes_for: a delete never waits for a process that is gone, unless a
\* move shut it down.
THEOREM CrashFailsDeletesHolds == Spec => []CrashFailsDeletes
<1>1. IInv => CrashFailsDeletes
  BY DEF IInv, Answerable, Deletes, CrashFailsDeletes
<1>2. QED
  BY <1>1, Invariant, PTL

\* move_session: a host that works is never shut down, except when the adapter ends.
THEOREM MovesInterruptNothingHolds == Spec => MovesInterruptNothing
<1> DEFINE A == \A p \in DOMAIN proc :
                   proc[p].st = "up" /\ proc'[p].st = "dead" /\ loop'.at # "gone"
                       => \A s \in busy : loaded[s] # p
<1>1. IInv /\ [Next]_vars => [A]_vars
  <2> SUFFICES ASSUME IInv, [Next]_vars, NEW p \in DOMAIN proc, proc[p].st = "up", proc'[p].st = "dead",
                      loop'.at # "gone", NEW s \in busy
               PROVE  loaded[s] # p
    OBVIOUS
  <2>0. /\ ProcsOK /\ SessionsOK /\ LoopOK /\ Tracked /\ Moving /\ 0 \notin DOMAIN proc /\ s \in open
    BY Slots DEF IInv, TypeOK, Placement, SessionsOK
  <2>1. ASSUME NEW r \in Sessions, NEW m \in Modes, MoveSession(r, m) PROVE loaded[s] # p
    <3>1. WorkOn(r) = {}
      BY <2>1 DEF MoveSession
    <3>2. p = slot[Owner(r)]
      BY <2>0, <2>1, Moves
    <3>3. Owner(r) \in Kinds
      BY <2>0, Kindred
    <3>4. proc[p].kind = Owner(r)
      BY <2>0, <3>2, <3>3 DEF Tracked, SlotKind
    <3>5. loaded[s] = p => Owner(s) = Owner(r)
      BY <2>0, <3>4, HeldByOwner DEF IInv
    <3>6. Owner(s) # Owner(r)
      BY <2>0, <3>1 DEF WorkOn, Owned
    <3>7. QED
      BY <3>5, <3>6
  <2>2. ASSUME NEW q \in DOMAIN proc, ReadOnlyClosed(q) \/ MainRestarts(q) PROVE FALSE
    BY <2>0, <2>2, ReapCases, ReapsOne
  <2>3. ASSUME QuietStep \/ Relaunch PROVE FALSE
    <3>1. CASE QuietStep
      BY <3>1, QuietGrows DEF IInv, Tracked, Placement, Grown
    <3>2. CASE Relaunch
      <4>1. \A q \in DOMAIN proc : proc'[q] = proc[q]
        BY <2>0, <3>2, RelaunchShape
      <4>2. QED
        BY <4>1
    <3>3. QED
      BY <2>3, <3>1, <3>2
  <2>4. ~EndAdapter
    BY LoopIdle DEF EndAdapter
  <2>5. ASSUME UNCHANGED proc PROVE FALSE
    BY <2>5
  <2>6. /\ AbandonStep => UNCHANGED proc
        /\ \A q \in DOMAIN proc : DropStale(q) => UNCHANGED proc
        /\ \A t \in Sessions : HostDeletes(t) => UNCHANGED proc
        /\ \A t \in Sessions, m \in Modes : OtherSaves(t, m) => UNCHANGED proc
        /\ UNCHANGED vars => UNCHANGED proc
    BY DEF AbandonStep, DropStale, HostDeletes, OtherSaves, vars, procVars
  <2>7. ASSUME NEW q \in DOMAIN proc, TakesOutcome(q) PROVE FALSE
    BY <2>0, <2>7, TakesShape
  <2>8. ASSUME NEW q \in DOMAIN proc, HostExits(q) PROVE FALSE
    BY <2>0, <2>8, ExitsShape
  <2>9. QED
    BY <2>1, <2>2, <2>3, <2>4, <2>5, <2>6, <2>7, <2>8, NextCases
<1>2. QED
  BY <1>1, Invariant, PTL DEF Spec, MovesInterruptNothing
==============================================================================
