--------------------------- MODULE UserInputProofs ---------------------------
(* Theorems about UserInput, for any user inputs with any number of          *)
(* questions, and any number of forms, commands and host deaths.             *)
EXTENDS UserInput, SequenceTheorems, FiniteSetTheorems, TLAPS

USE UserInputAssumption

Waits(e) == \E i \in DOMAIN wire : wire[i] = e
Replied(f) == \E i \in DOMAIN replies : replies[i].req = f

\* Answers to the questions of a user input, in their order.
Walked(p, s) ==
  \A i \in DOMAIN s :
    /\ s[i] \in DOMAIN forms /\ forms[s[i]].what = p /\ forms[s[i]].index = i
    /\ \A j \in DOMAIN s : j < i => s[j] < s[i]

\* The walk of an open user input: its form is about the question that follows
\* the confirmed ones.
OnWalk(p) ==
  ui[p].open =>
    /\ ui[p].req \in DOMAIN forms
    /\ forms[ui[p].req].kind = "question" /\ forms[ui[p].req].what = p
    /\ forms[ui[p].req].index = ui[p].index
    /\ ui[p].index = Len(ui[p].confirmed) + 1 /\ ui[p].index <= Questions[p]
    /\ Walked(p, ui[p].confirmed)
    /\ \A i \in DOMAIN ui[p].confirmed : ui[p].confirmed[i] < ui[p].req
Answering ==
  \A p \in Prompts :
    OnWalk(p) /\ Len(hostGot[p]) <= Questions[p] /\ Walked(p, hostGot[p])

\* A form on the screen is the current one of its user input, and the current
\* form of a user input is on the screen or its answer on the way.
OnScreen(f) ==
  forms[f].live =>
    /\ ~Replied(f)
    /\ forms[f].kind = "question" => ui[forms[f].what].open /\ ui[forms[f].what].req = f
Asked(p) == ui[p].open => forms[ui[p].req].live \/ Replied(ui[p].req)
Screen == (\A f \in DOMAIN forms : OnScreen(f)) /\ \A p \in Prompts : Asked(p)

\* What the host says of its user inputs, and what the loop made of it.
HeardOf(p) ==
  /\ hostQ[p] = "none" =>
       p \notin seen /\ ~ui[p].open /\ ~Waits(Event("requested", p))
  /\ hostQ[p] = "open" =>
       ui[p].open \/ p \in unsettled \/ (Waits(Event("requested", p)) /\ p \notin seen)
  /\ hostQ[p] = "settled" =>
       p \in missed \/ Waits(Event("settled", p)) \/ (~ui[p].open /\ p \in seen)
  /\ Waits(Event("settled", p)) => hostQ[p] = "settled"
Heard == \A p \in Prompts : HeardOf(p)

\* A command that waits has its form; no form stands for two of them.
Offered(o) == o = NoOffer \/ (o.req \in DOMAIN forms /\ o.command \in DOMAIN commands)
Offering ==
  /\ Offered(feedback) /\ Offered(login)
  /\ feedback # NoOffer => forms[feedback.req].kind = "feedback"
  /\ feedback # NoOffer /\ login # NoOffer => feedback.command # login.command
  /\ EveryCommandAnsweredOnce

IInv == TypeOK /\ Answering /\ Screen /\ Heard /\ Offering
-----------------------------------------------------------------------------
(* The parts of the steps.                                                   *)

LEMMA Elements ==
    ASSUME NEW S, NEW s \in Seq(S)
    PROVE  Len(s) \in Nat /\ DOMAIN s = 1 .. Len(s) /\ \A i \in DOMAIN s : s[i] \in S
OBVIOUS

\* A sequence and one entry more.
LEMMA Appended ==
    ASSUME NEW S, NEW s \in Seq(S), NEW e \in S, NEW t, t = Append(s, e)
    PROVE  /\ t \in Seq(S) /\ Len(t) = Len(s) + 1 /\ t[Len(s) + 1] = e
           /\ DOMAIN t = DOMAIN s \cup {Len(s) + 1} /\ Len(s) + 1 \notin DOMAIN s
           /\ \A i \in DOMAIN s : t[i] = s[i]
<1>1. /\ t \in Seq(S) /\ Len(t) = Len(s) + 1 /\ t[Len(s) + 1] = e
      /\ \A i \in 1 .. Len(s) : t[i] = s[i]
  BY AppendProperties
<1>2. Len(s) \in Nat /\ DOMAIN s = 1 .. Len(s) /\ DOMAIN t = 1 .. Len(s) + 1
  BY <1>1, Elements
<1>3. 1 .. Len(s) + 1 = 1 .. Len(s) \cup {Len(s) + 1} /\ Len(s) + 1 \notin 1 .. Len(s)
  BY <1>2
<1>4. QED
  BY <1>1, <1>2, <1>3

\* A sequence without its head.
LEMMA Rest ==
    ASSUME NEW S, NEW s \in Seq(S), s # <<>>, NEW t, t = Tail(s)
    PROVE  /\ t \in Seq(S) /\ Head(s) \in S /\ 1 \in DOMAIN s /\ Head(s) = s[1]
           /\ \A i \in DOMAIN t : i + 1 \in DOMAIN s /\ t[i] = s[i + 1]
           /\ \A i \in DOMAIN s : i = 1 \/ (i - 1 \in DOMAIN t /\ t[i - 1] = s[i])
<1>1. /\ t \in Seq(S) /\ Len(t) = Len(s) - 1 /\ Head(s) \in S /\ Head(s) = s[1]
      /\ \A i \in 1 .. Len(t) : t[i] = s[i + 1]
  BY HeadTailProperties
<1>2. Len(s) \in Nat /\ DOMAIN s = 1 .. Len(s) /\ DOMAIN t = 1 .. Len(s) - 1 /\ Len(s) # 0
  BY <1>1, Elements, EmptySeq
<1>3. \A i \in 1 .. Len(s) - 1 : i + 1 \in 1 .. Len(s)
  BY <1>2
<1>4. \A i \in 1 .. Len(s) : i = 1 \/ (i - 1 \in 1 .. Len(s) - 1 /\ (i - 1) + 1 = i)
  BY <1>2
<1>5. 1 \in 1 .. Len(s)
  BY <1>2
<1>6. QED
  BY <1>1, <1>2, <1>3, <1>4, <1>5

LEMMA Notified ==
    ASSUME NEW p \in Prompts
    PROVE  /\ Event("requested", p) \in Notices /\ Event("settled", p) \in Notices
           /\ Event("requested", p).kind = "requested" /\ Event("requested", p).what = p
           /\ Event("settled", p).kind = "settled" /\ Event("settled", p).what = p
BY DEF Event, Notices

\* A message more for the loop.
LEMMA Emits ==
    ASSUME HostOK, NEW e \in Notices, wire' = Append(wire, e),
           e.kind # "loginCompleted" => e.what \in Prompts
    PROVE  /\ wire' \in Seq(Notices)
           /\ \A i \in DOMAIN wire' : wire'[i].kind # "loginCompleted" => wire'[i].what \in Prompts
           /\ \A d : Waits(d)' <=> Waits(d) \/ d = e
<1>1. wire \in Seq(Notices)
  BY DEF HostOK
<1>2. /\ wire' \in Seq(Notices) /\ wire'[Len(wire) + 1] = e
      /\ DOMAIN wire' = DOMAIN wire \cup {Len(wire) + 1}
      /\ \A i \in DOMAIN wire : wire'[i] = wire[i]
  BY <1>1, Appended
<1>3. QED
  BY <1>2 DEF HostOK, Waits

\* A message read by the loop.
LEMMA Reads ==
    ASSUME HostOK, wire # <<>>, wire' = Tail(wire)
    PROVE  /\ wire' \in Seq(Notices) /\ Head(wire) \in Notices
           /\ Head(wire).kind # "loginCompleted" => Head(wire).what \in Prompts
           /\ \A i \in DOMAIN wire' : wire'[i].kind # "loginCompleted" => wire'[i].what \in Prompts
           /\ Waits(Head(wire)) /\ \A d : Waits(d) <=> Waits(d)' \/ d = Head(wire)
<1>1. wire \in Seq(Notices)
  BY DEF HostOK
<1>2. /\ wire' \in Seq(Notices) /\ Head(wire) \in Notices /\ 1 \in DOMAIN wire /\ Head(wire) = wire[1]
      /\ \A i \in DOMAIN wire' : i + 1 \in DOMAIN wire /\ wire'[i] = wire[i + 1]
      /\ \A i \in DOMAIN wire : i = 1 \/ (i - 1 \in DOMAIN wire' /\ wire'[i - 1] = wire[i])
  BY <1>1, Rest
<1>3. \A i \in DOMAIN wire' : wire'[i].kind # "loginCompleted" => wire'[i].what \in Prompts
  BY <1>2 DEF HostOK
<1>4. Head(wire).kind # "loginCompleted" => Head(wire).what \in Prompts
  BY <1>2 DEF HostOK
<1>5. \A d : Waits(d)' => Waits(d)
  BY <1>2 DEF Waits
<1>6. \A d : Waits(d) => Waits(d)' \/ d = Head(wire)
  BY <1>2 DEF Waits
<1>7. Waits(Head(wire))
  BY <1>2 DEF Waits
<1>8. QED
  BY <1>2, <1>3, <1>4, <1>5, <1>6, <1>7

\* An answer read by the loop.
LEMMA ReadsReply ==
    ASSUME FormsTable, RepliesOK, replies # <<>>, replies' = Tail(replies)
    PROVE  /\ replies' \in Seq([req : Nat, how : Hows])
           /\ Head(replies).req \in DOMAIN forms /\ Head(replies).req # 0
           /\ \A i \in DOMAIN replies' : replies'[i].req \in DOMAIN forms
           /\ Replied(Head(replies).req)
           /\ \A f : Replied(f) <=> Replied(f)' \/ f = Head(replies).req
<1>1. replies \in Seq([req : Nat, how : Hows])
  BY DEF RepliesOK
<1>2. /\ replies' \in Seq([req : Nat, how : Hows]) /\ 1 \in DOMAIN replies /\ Head(replies) = replies[1]
      /\ \A i \in DOMAIN replies' : i + 1 \in DOMAIN replies /\ replies'[i] = replies[i + 1]
      /\ \A i \in DOMAIN replies : i = 1 \/ (i - 1 \in DOMAIN replies' /\ replies'[i - 1] = replies[i])
  BY <1>1, Rest
<1>3. Head(replies).req \in DOMAIN forms /\ \A i \in DOMAIN replies' : replies'[i].req \in DOMAIN forms
  BY <1>2 DEF RepliesOK
<1>4. 0 \notin DOMAIN forms
  <2>1. DOMAIN forms = 1 .. Len(forms)
    BY Elements DEF FormsTable
  <2>2. QED
    BY <2>1
<1>5. \A f : Replied(f)' => Replied(f)
  BY <1>2 DEF Replied
<1>6. \A f : Replied(f) => Replied(f)' \/ f = Head(replies).req
  BY <1>2 DEF Replied
<1>7. Replied(Head(replies).req)
  BY <1>2 DEF Replied
<1>8. QED
  BY <1>2, <1>3, <1>4, <1>5, <1>6, <1>7
-----------------------------------------------------------------------------
(* Forms only come and lose their life.                                      *)

FormsStay ==
  /\ DOMAIN forms \subseteq DOMAIN forms'
  /\ \A f \in DOMAIN forms :
       /\ forms'[f].kind = forms[f].kind /\ forms'[f].what = forms[f].what
       /\ forms'[f].index = forms[f].index
       /\ forms'[f].live => forms[f].live

LEMMA Asks ==
    ASSUME FormsTable, NEW form \in Forms, form.kind = "question" => form.what \in Prompts, Ask(form)
    PROVE  /\ FormsTable' /\ FormsStay
           /\ DOMAIN forms' = DOMAIN forms \cup {NewForm} /\ NewForm \notin DOMAIN forms
           /\ forms'[NewForm] = form /\ \A f \in DOMAIN forms : forms'[f] = forms[f]
           /\ NewForm \in Nat /\ NewForm # 0 /\ \A f \in DOMAIN forms : f < NewForm
<1>1. /\ forms \in Seq(Forms) /\ forms' = Append(forms, form)
      /\ Len(forms) < MaxForms /\ MaxForms \in Nat
  BY DEF FormsTable, Ask, CanAsk
<1>2. /\ forms' \in Seq(Forms) /\ Len(forms') = Len(forms) + 1 /\ forms'[Len(forms) + 1] = form
      /\ DOMAIN forms' = DOMAIN forms \cup {Len(forms) + 1} /\ Len(forms) + 1 \notin DOMAIN forms
      /\ \A i \in DOMAIN forms : forms'[i] = forms[i]
  BY <1>1, Appended
<1>3. Len(forms) \in Nat /\ DOMAIN forms = 1 .. Len(forms)
  BY <1>1, Elements
<1>4. Len(forms') <= MaxForms
  BY <1>1, <1>2, <1>3
<1>5. \A f \in DOMAIN forms' : forms'[f].kind = "question" => forms'[f].what \in Prompts
  BY <1>2 DEF FormsTable
<1>6. FormsStay
  BY <1>2 DEF FormsStay
<1>7. Len(forms) + 1 \in Nat /\ Len(forms) + 1 # 0 /\ \A f \in DOMAIN forms : f < Len(forms) + 1
  BY <1>3
<1>8. QED
  BY <1>2, <1>4, <1>5, <1>6, <1>7 DEF FormsTable, NewForm

LEMMA Expires ==
    ASSUME FormsTable, NEW r \in DOMAIN forms, forms' = [forms EXCEPT ![r].live = FALSE]
    PROVE  /\ FormsTable' /\ FormsStay /\ DOMAIN forms' = DOMAIN forms
           /\ ~forms'[r].live /\ \A f \in DOMAIN forms : f # r => forms'[f] = forms[f]
<1>1. /\ forms \in Seq(Forms) /\ Len(forms) \in Nat /\ DOMAIN forms = 1 .. Len(forms)
      /\ \A f \in DOMAIN forms : forms[f] \in Forms
  BY Elements DEF FormsTable
<1> DEFINE e == [forms[r] EXCEPT !.live = FALSE]
<1>2. /\ e \in Forms /\ ~e.live /\ e.kind = forms[r].kind /\ e.what = forms[r].what
      /\ e.index = forms[r].index
  BY <1>1 DEF Forms
<1>3. forms' = [forms EXCEPT ![r] = e]
  OBVIOUS
<1> HIDE DEF e
<1>4. forms' \in Seq(Forms) /\ Len(forms') = Len(forms) /\ DOMAIN forms' = DOMAIN forms
  <2>1. r \in 1 .. Len(forms)
    BY <1>1
  <2>2. forms' \in Seq(Forms) /\ Len(forms') = Len(forms)
    <3>1. forms \in Seq(Forms) /\ e \in Forms
      BY <1>1, <1>2
    <3>2. [forms EXCEPT ![r] = e] \in Seq(Forms) /\ Len([forms EXCEPT ![r] = e]) = Len(forms)
      BY <2>1, <3>1, ExceptSeq
    <3>3. QED
      BY <1>3, <3>2
  <2>3. QED
    BY <1>3, <2>2
<1>5. forms'[r] = e /\ \A f \in DOMAIN forms : f # r => forms'[f] = forms[f]
  BY <1>3
<1>6. FormsStay
  BY <1>2, <1>4, <1>5 DEF FormsStay
<1>7. FormsTable'
  BY <1>2, <1>4, <1>5 DEF FormsTable
<1>8. QED
  BY <1>2, <1>4, <1>5, <1>6, <1>7

LEMMA Withdraws ==
    ASSUME FormsTable, NEW r \in DOMAIN forms \cup {0}, Withdraw(r)
    PROVE  /\ FormsTable' /\ FormsStay /\ DOMAIN forms' = DOMAIN forms
           /\ r # 0 => ~forms'[r].live
           /\ \A f \in DOMAIN forms : f # r => forms'[f] = forms[f]
<1>1. CASE r = 0
  <2>1. forms' = forms
    BY <1>1 DEF Withdraw, None
  <2>2. QED
    BY <1>1, <2>1 DEF FormsTable, FormsStay
<1>2. CASE r # 0
  <2>1. forms' = [forms EXCEPT ![r].live = FALSE]
    BY <1>2 DEF Withdraw, None
  <2>2. QED
    BY <1>2, <2>1, Expires
<1>3. QED
  BY <1>1, <1>2

LEMMA StaysStill ==
    ASSUME FormsTable, UNCHANGED forms
    PROVE  FormsTable' /\ FormsStay
BY DEF FormsTable, FormsStay

\* A question put to the user.
LEMMA Shows ==
    ASSUME FormsTable, ui \in [Prompts -> Walks], NEW p \in Prompts, NEW index \in Nat,
           NEW confirmed \in Seq(Nat), ShowPendingUi(p, index, confirmed)
    PROVE  /\ FormsTable' /\ FormsStay
           /\ DOMAIN forms' = DOMAIN forms \cup {NewForm} /\ NewForm \notin DOMAIN forms
           /\ \A f \in DOMAIN forms : forms'[f] = forms[f]
           /\ NewForm \in Nat /\ NewForm # 0 /\ \A f \in DOMAIN forms : f < NewForm
           /\ forms'[NewForm].kind = "question" /\ forms'[NewForm].what = p
           /\ forms'[NewForm].index = index /\ forms'[NewForm].live
           /\ ui' \in [Prompts -> Walks] /\ \A q \in Prompts : q # p => ui'[q] = ui[q]
           /\ ui'[p].open /\ ui'[p].req = NewForm /\ ui'[p].index = index
           /\ ui'[p].confirmed = confirmed
<1> DEFINE form == Form("question", p, index)
           w == [open |-> TRUE, req |-> NewForm, index |-> index, confirmed |-> confirmed]
<1>1. /\ form \in Forms /\ form.kind = "question" /\ form.what = p /\ form.index = index /\ form.live
  BY DEF Forms, Form
<1>2. Ask(form) /\ ui' = [ui EXCEPT ![p] = w]
  BY DEF ShowPendingUi
<1> HIDE DEF form
<1>3. /\ FormsTable' /\ FormsStay
      /\ DOMAIN forms' = DOMAIN forms \cup {NewForm} /\ NewForm \notin DOMAIN forms
      /\ forms'[NewForm] = form /\ \A f \in DOMAIN forms : forms'[f] = forms[f]
      /\ NewForm \in Nat /\ NewForm # 0 /\ \A f \in DOMAIN forms : f < NewForm
  BY <1>1, <1>2, Asks
<1>4. w \in Walks /\ w.open /\ w.req = NewForm /\ w.index = index /\ w.confirmed = confirmed
  BY <1>3 DEF Walks
<1> HIDE DEF w
<1>5. ui' \in [Prompts -> Walks] /\ ui'[p] = w /\ \A q \in Prompts : q # p => ui'[q] = ui[q]
  BY <1>2, <1>4
<1>6. QED
  BY <1>1, <1>3, <1>4, <1>5

LEMMA Closes ==
    ASSUME ui \in [Prompts -> Walks], NEW p \in Prompts, ui' = [ui EXCEPT ![p] = Closed]
    PROVE  /\ ui' \in [Prompts -> Walks] /\ ~ui'[p].open
           /\ \A q \in Prompts : q # p => ui'[q] = ui[q]
<1>1. Closed \in Walks /\ ~Closed.open
  BY DEF Closed, Walks, None
<1>2. QED
  BY <1>1

\* What a command leaves behind that the host admits.
LEMMA Admits ==
    ASSUME HostOK, NEW p \in Prompts, NEW answers \in Seq(Nat), Admitted(p, answers), UNCHANGED flow
    PROVE  /\ HostOK'
           /\ hostQ[p] = "open" /\ hostQ'[p] = "settled" /\ hostGot'[p] = answers
           /\ \A q \in Prompts : q # p => hostQ'[q] = hostQ[q] /\ hostGot'[q] = hostGot[q]
           /\ \A d : Waits(d)' <=> Waits(d) \/ d = Event("settled", p)
<1>1. /\ hostQ[p] = "open" /\ hostQ' = [hostQ EXCEPT ![p] = "settled"]
      /\ hostGot' = [hostGot EXCEPT ![p] = answers]
      /\ wire' = Append(wire, Event("settled", p))
  BY DEF Admitted
<1>2. /\ wire' \in Seq(Notices)
      /\ \A i \in DOMAIN wire' : wire'[i].kind # "loginCompleted" => wire'[i].what \in Prompts
      /\ \A d : Waits(d)' <=> Waits(d) \/ d = Event("settled", p)
  BY <1>1, Notified, Emits
<1>3. /\ hostQ' \in [Prompts -> {"none", "open", "settled"}]
      /\ hostGot' \in [Prompts -> Seq(Nat)]
      /\ hostQ'[p] = "settled" /\ hostGot'[p] = answers
      /\ \A q \in Prompts : q # p => hostQ'[q] = hostQ[q] /\ hostGot'[q] = hostGot[q]
  BY <1>1 DEF HostOK
<1>4. QED
  BY <1>1, <1>2, <1>3 DEF HostOK

LEMMA SeqOfFunction ==
    ASSUME NEW S, NEW n \in Nat, NEW f \in [1..n -> S]
    PROVE  f \in Seq(S) /\ Len(f) = n /\ DOMAIN f = 1..n
OBVIOUS

LEMMA Ordered ==
    ASSUME NEW S, IsFiniteSet(S), NEW s \in Orders(S)
    PROVE  \E n \in Nat : /\ s \in [1..n -> S] /\ DOMAIN s = 1..n
                          /\ \A x : (\E i \in 1..n : s[i] = x) <=> x \in S
<1>1. Cardinality(S) \in Nat
  BY FS_CardinalityType
<1>2. s \in [1..Cardinality(S) -> S] /\ ToSet(s) = S
  BY DEF Orders
<1>3. QED
  BY <1>1, <1>2 DEF ToSet

\* One sequence of messages after another.
Holds(c, a, b) ==
  /\ \A i \in DOMAIN c : (\E j \in DOMAIN a : a[j] = c[i]) \/ (\E j \in DOMAIN b : b[j] = c[i])
  /\ \A i \in DOMAIN a : \E j \in DOMAIN c : c[j] = a[i]
  /\ \A i \in DOMAIN b : \E j \in DOMAIN c : c[j] = b[i]

LEMMA Joined ==
    ASSUME NEW a \in Seq(Notices), NEW b \in Seq(Notices), NEW c, c = a \o b
    PROVE  c \in Seq(Notices) /\ Holds(c, a, b)
<1> DEFINE n == Len(a)  m == Len(b)
<1>1. n \in Nat /\ m \in Nat /\ DOMAIN a = 1..n /\ DOMAIN b = 1..m
  BY Elements
<1>2. /\ c \in Seq(Notices) /\ Len(c) = n + m
      /\ \A i \in 1 .. n + m : c[i] = IF i <= n THEN a[i] ELSE b[i - n]
  BY ConcatProperties
<1> HIDE DEF n, m
<1>3. DOMAIN c = 1 .. n + m
  BY <1>2, Elements
<1>4. /\ \A i \in 1..n : i \in 1..n + m /\ i <= n
      /\ \A i \in 1..m : n + i \in 1..n + m /\ ~(n + i <= n) /\ (n + i) - n = i
      /\ \A i \in 1..n + m : i \in 1..n \/ (~(i <= n) /\ i - n \in 1..m)
  BY <1>1
<1>5. ASSUME NEW i \in DOMAIN c
      PROVE  (\E j \in DOMAIN a : a[j] = c[i]) \/ (\E j \in DOMAIN b : b[j] = c[i])
  BY <1>1, <1>2, <1>3, <1>4, <1>5
<1>6. ASSUME NEW i \in DOMAIN a PROVE \E j \in DOMAIN c : c[j] = a[i]
  BY <1>1, <1>2, <1>3, <1>4
<1>7. ASSUME NEW i \in DOMAIN b PROVE \E j \in DOMAIN c : c[j] = b[i]
  <2>1. n + i \in 1..n + m /\ ~(n + i <= n) /\ (n + i) - n = i
    BY <1>1, <1>4
  <2>2. c[n + i] = b[(n + i) - n]
    BY <1>2, <2>1
  <2>3. c[n + i] = b[i] /\ n + i \in DOMAIN c
    BY <1>3, <2>1, <2>2
  <2>4. QED
    BY <2>3
<1>8. QED
  BY <1>2, <1>5, <1>6, <1>7 DEF Holds

\* What a resumed host says: its open questions, and perhaps the settlements
\* the loop had not read.
LEMMA Restarts ==
    ASSUME HostOK, missed \subseteq Prompts, HostRestarts
    PROVE  /\ HostOK' /\ missed \subseteq missed' /\ missed' \subseteq Prompts
           /\ \A p \in Prompts :
                /\ Waits(Event("requested", p))' <=> hostQ[p] = "open"
                /\ Waits(Event("settled", p))' => Waits(Event("settled", p))
                /\ Waits(Event("settled", p)) => Waits(Event("settled", p))' \/ p \in missed'
<1> DEFINE Opened == {p \in Prompts : hostQ[p] = "open"}
<1>1. PICK order \in Orders(Opened) :
        LET again == [i \in DOMAIN order |-> Event("requested", order[i])]
        IN  \/ /\ \E at \in Orders(Settlements) : wire' = [i \in DOMAIN at |-> wire[at[i]]] \o again
               /\ UNCHANGED missed
            \/ /\ wire' = again
               /\ missed' = missed \cup {wire[i].what : i \in Settlements}
  BY DEF HostRestarts
<1> DEFINE again == [i \in DOMAIN order |-> Event("requested", order[i])]
<1>2. PICK m \in Nat : /\ order \in [1..m -> Opened] /\ DOMAIN order = 1..m
                       /\ \A p : (\E i \in 1..m : order[i] = p) <=> p \in Opened
  <2>1. IsFiniteSet(Opened)
    BY FS_Subset
  <2> HIDE DEF Opened
  <2>2. QED
    BY <2>1, Ordered
<1>3. /\ again \in [1..m -> Notices] /\ \A i \in 1..m : again[i] = Event("requested", order[i])
      /\ \A p \in Prompts : (\E i \in 1..m : again[i] = Event("requested", p)) <=> hostQ[p] = "open"
      /\ \A p \in Prompts, i \in 1..m : again[i] # Event("settled", p)
      /\ \A i \in 1..m : again[i].kind = "requested" /\ again[i].what \in Prompts
  <2>1. \A i \in 1..m : order[i] \in Prompts /\ again[i] = Event("requested", order[i])
    BY <1>2
  <2>2. again \in [1..m -> Notices]
    BY <1>2, <2>1, Notified
  <2>3. \A p \in Prompts : (\E i \in 1..m : order[i] = p) <=> hostQ[p] = "open"
    BY <1>2
  <2> HIDE DEF again
  <2>4. \A p \in Prompts : (\E i \in 1..m : again[i] = Event("requested", p)) <=> hostQ[p] = "open"
    BY <2>1, <2>3, Notified
  <2>5. /\ \A p \in Prompts, i \in 1..m : again[i] # Event("settled", p)
        /\ \A i \in 1..m : again[i].kind = "requested" /\ again[i].what \in Prompts
    BY <2>1, Notified
  <2>6. QED
    BY <2>1, <2>2, <2>4, <2>5
<1>4. UNCHANGED <<hostQ, hostGot>> /\ flow' = 0
  BY DEF HostRestarts
<1>5. wire \in Seq(Notices) /\ Len(wire) \in Nat /\ DOMAIN wire = 1..Len(wire)
      /\ \A i \in DOMAIN wire : wire[i] \in Notices
  BY Elements DEF HostOK
<1>6. Settlements \subseteq DOMAIN wire
      /\ \A i \in Settlements : wire[i].kind = "settled" /\ wire[i].what \in Prompts
  BY DEF Settlements, HostOK
<1>7. \A p \in Prompts, i \in DOMAIN wire : wire[i] = Event("settled", p) =>
        i \in Settlements /\ wire[i].what = p
  BY Notified DEF Settlements
<1> HIDE DEF again, Opened
<1>8. CASE \E at \in Orders(Settlements) :
             wire' = [i \in DOMAIN at |-> wire[at[i]]] \o again /\ UNCHANGED missed
  <2>1. PICK at \in Orders(Settlements) : wire' = [i \in DOMAIN at |-> wire[at[i]]] \o again
    BY <1>8
  <2> DEFINE kept == [i \in DOMAIN at |-> wire[at[i]]]
  <2>2. IsFiniteSet(Settlements)
    <3>1. IsFiniteSet(1..Len(wire))
      BY <1>5, FS_Interval
    <3>2. QED
      BY <1>5, <1>6, <3>1, FS_Subset
  <2>3. PICK n \in Nat : /\ at \in [1..n -> Settlements] /\ DOMAIN at = 1..n
                         /\ \A j : (\E i \in 1..n : at[i] = j) <=> j \in Settlements
    BY <2>2, Ordered
  <2>4. kept \in [1..n -> Notices] /\ \A i \in 1..n : kept[i] = wire[at[i]]
    BY <1>5, <1>6, <2>3
  <2>5. wire' = kept \o again
    BY <2>1
  <2> HIDE DEF kept
  <2>6. /\ wire' \in Seq(Notices)
        /\ \A i \in DOMAIN wire' :
             (\E j \in 1..n : kept[j] = wire'[i]) \/ (\E j \in 1..m : again[j] = wire'[i])
        /\ \A i \in 1..n : \E j \in DOMAIN wire' : wire'[j] = kept[i]
        /\ \A i \in 1..m : \E j \in DOMAIN wire' : wire'[j] = again[i]
    <3>1. kept \in Seq(Notices) /\ again \in Seq(Notices)
      BY <1>3, <2>4, SeqOfFunction
    <3>2. DOMAIN kept = 1..n /\ DOMAIN again = 1..m
      BY <1>3, <2>4
    <3>3. wire' \in Seq(Notices) /\ Holds(wire', kept, again)
      BY <2>5, <3>1, Joined
    <3>4. QED
      BY <3>2, <3>3 DEF Holds
  <2>7. /\ \A d : Waits(d)' <=> (\E i \in Settlements : wire[i] = d) \/ (\E i \in 1..m : again[i] = d)
        /\ \A i \in 1..n : \E j \in Settlements : wire[j] = kept[i]
    <3>1. \A i \in 1..n : at[i] \in Settlements /\ kept[i] = wire[at[i]]
      BY <2>3, <2>4
    <3>2. ASSUME NEW j \in Settlements PROVE \E i \in 1..n : kept[i] = wire[j]
      <4>1. PICK i \in 1..n : at[i] = j
        BY <2>3
      <4>2. QED
        BY <3>1, <4>1
    <3>3. \A d : (\E i \in 1..n : kept[i] = d) <=> \E i \in Settlements : wire[i] = d
      BY <3>1, <3>2
    <3>4. ASSUME NEW d, Waits(d)'
          PROVE  (\E i \in Settlements : wire[i] = d) \/ (\E i \in 1..m : again[i] = d)
      BY ZenonT(60), <2>6, <3>3, <3>4 DEF Waits
    <3>5. ASSUME NEW d, (\E i \in Settlements : wire[i] = d) \/ (\E i \in 1..m : again[i] = d)
          PROVE  Waits(d)'
      <4>1. CASE \E i \in Settlements : wire[i] = d
        <5>1. PICK i \in 1..n : kept[i] = d
          BY <3>3, <4>1
        <5>2. QED
          BY <2>6, <5>1 DEF Waits
      <4>2. CASE \E i \in 1..m : again[i] = d
        BY <2>6, <4>2 DEF Waits
      <4>3. QED
        BY <3>5, <4>1, <4>2
    <3>6. QED
      BY <3>1, <3>4, <3>5
  <2>8. \A i \in DOMAIN wire' : wire'[i].kind # "loginCompleted" => wire'[i].what \in Prompts
    <3>1. ASSUME NEW i \in DOMAIN wire' PROVE wire'[i].what \in Prompts
      <4>1. (\E j \in 1..n : kept[j] = wire'[i]) \/ (\E j \in 1..m : again[j] = wire'[i])
        BY <2>6
      <4>2. QED
        BY <1>3, <1>6, <2>7, <4>1
    <3>2. QED
      BY <3>1
  <2>9. \A p \in Prompts : Waits(Event("settled", p)) <=> Waits(Event("settled", p))'
    BY <1>3, <1>6, <1>7, <2>7 DEF Waits
  <2>10. \A p \in Prompts : Waits(Event("requested", p))' <=> hostQ[p] = "open"
    <3>1. \A p \in Prompts, i \in Settlements : wire[i] # Event("requested", p)
      BY <1>6, Notified
    <3>2. QED
      BY <1>3, <2>7, <3>1
  <2>11. HostOK'
    BY <1>4, <2>6, <2>8 DEF HostOK
  <2>12. QED
    BY <1>8, <2>9, <2>10, <2>11
<1>9. CASE wire' = again /\ missed' = missed \cup {wire[i].what : i \in Settlements}
  <2>1. wire' \in Seq(Notices) /\ DOMAIN wire' = 1..m
    BY <1>3, <1>9, SeqOfFunction
  <2>2. \A d : Waits(d)' <=> \E i \in 1..m : again[i] = d
    BY <1>9, <2>1 DEF Waits
  <2>3. \A i \in DOMAIN wire' : wire'[i].kind # "loginCompleted" => wire'[i].what \in Prompts
    BY <1>3, <1>9, <2>1
  <2>4. missed' \subseteq Prompts /\ missed \subseteq missed'
    BY <1>6, <1>9
  <2>5. \A p \in Prompts : Waits(Event("settled", p)) => p \in missed'
    BY <1>7, <1>9 DEF Waits
  <2>6. HostOK'
    BY <1>4, <2>1, <2>3 DEF HostOK
  <2>7. QED
    BY <1>3, <2>2, <2>4, <2>5, <2>6
<1>10. QED
  BY <1>1, <1>8, <1>9 DEF again
-----------------------------------------------------------------------------
(* What an answer to a question does.                                        *)

\* The answers a command may carry.
MayGive(p, a) ==
  \/ a = <<>> \/ a = ui[p].confirmed
  \/ a = ConfirmedWith(p) /\ ui[p].index = Questions[p]

Gives(p) == Refused \/ \E a \in Seq(Nat) : MayGive(p, a) /\ Admitted(p, a)

\* Where the walk goes: it ends, asks the same question or the next one.
GoesOn(p) ==
  \/ Forget(p) /\ UNCHANGED forms /\ (hostQ'[p] # "open" \/ p \in unsettled')
  \/ ShowPendingUi(p, ui[p].index, ui[p].confirmed)
  \/ ui[p].index < Questions[p] /\ ShowPendingUi(p, ui[p].index + 1, ConfirmedWith(p))

Answer(p) ==
  /\ ui[p].open /\ ui[p].req = Head(replies).req
  /\ Gives(p) /\ GoesOn(p)
  /\ state' \in {state, "running"} /\ unsettled \subseteq unsettled' /\ unsettled' \subseteq Prompts

LEMMA WalkParts ==
    ASSUME TypeOK, NEW p \in Prompts, replies # <<>>
    PROVE  /\ ui[p].confirmed \in Seq(Nat) /\ ui[p].index \in Nat /\ ui[p].req \in Nat
           /\ ui[p].open \in BOOLEAN /\ ConfirmedWith(p) \in Seq(Nat) /\ <<>> \in Seq(Nat)
           /\ Len(ConfirmedWith(p)) = Len(ui[p].confirmed) + 1
           /\ ConfirmedWith(p)[Len(ui[p].confirmed) + 1] = Head(replies).req
           /\ DOMAIN ConfirmedWith(p) = DOMAIN ui[p].confirmed \cup {Len(ui[p].confirmed) + 1}
           /\ \A i \in DOMAIN ui[p].confirmed : ConfirmedWith(p)[i] = ui[p].confirmed[i]
<1>1. ui[p] \in Walks
  BY DEF TypeOK
<1>2. /\ ui[p].confirmed \in Seq(Nat) /\ ui[p].index \in Nat /\ ui[p].req \in Nat
      /\ ui[p].open \in BOOLEAN
  BY <1>1 DEF Walks
<1>3. Head(replies).req \in Nat
  <2>1. replies \in Seq([req : Nat, how : Hows])
    BY DEF TypeOK, RepliesOK
  <2>2. Head(replies) \in [req : Nat, how : Hows]
    BY <2>1, Rest
  <2>3. QED
    BY <2>2
<1>4. <<>> \in Seq(Nat)
  OBVIOUS
<1>5. QED
  <2>1. PICK c \in Seq(Nat), r \in Nat : c = ui[p].confirmed /\ r = Head(replies).req
    BY <1>2, <1>3
  <2>2. ConfirmedWith(p) = Append(c, r)
    BY <2>1 DEF ConfirmedWith
  <2>3. /\ ConfirmedWith(p) \in Seq(Nat) /\ Len(ConfirmedWith(p)) = Len(c) + 1
        /\ ConfirmedWith(p)[Len(c) + 1] = r
        /\ DOMAIN ConfirmedWith(p) = DOMAIN c \cup {Len(c) + 1}
        /\ \A i \in DOMAIN c : ConfirmedWith(p)[i] = c[i]
    BY <2>2, Appended
  <2>4. QED
    BY <1>2, <1>4, <2>1, <2>3

LEMMA Completes ==
    ASSUME TypeOK, CompleteElicitation
    PROVE  \E p \in Prompts : Answer(p)
<1>1. replies # <<>>
  BY DEF CompleteElicitation, Reply
<1>2. PICK p \in Prompts : DeclineQuestion(p) \/ RejectAnswer(p) \/ NextQuestion(p) \/ AnswerQuestion(p)
  BY DEF CompleteElicitation
<1>3. /\ ui[p].confirmed \in Seq(Nat) /\ ConfirmedWith(p) \in Seq(Nat) /\ <<>> \in Seq(Nat)
  BY <1>1, WalkParts
<1>4. CurrentUi(p) => ui[p].open /\ ui[p].req = Head(replies).req
  BY DEF CurrentUi
<1>5. unsettled \subseteq Prompts /\ hostQ \in [Prompts -> {"none", "open", "settled"}]
  BY DEF TypeOK, HostOK
<1>6. CASE DeclineQuestion(p)
  <2>1. CurrentUi(p) /\ Forget(p) /\ UNCHANGED <<state, forms>>
        /\ unsettled' = IF hostQ'[p] = "open" THEN unsettled \cup {p} ELSE unsettled
    BY <1>6 DEF DeclineQuestion
  <2>2. Refused \/ Admitted(p, ui[p].confirmed)
    BY <1>6 DEF DeclineQuestion, Command
  <2>3. Gives(p)
    BY <1>3, <2>2 DEF Gives, MayGive
  <2>4. GoesOn(p)
    BY <2>1 DEF GoesOn
  <2>5. QED
    BY <1>4, <1>5, <2>1, <2>3, <2>4 DEF Answer
<1>7. CASE RejectAnswer(p)
  <2>1. CurrentUi(p) /\ ShowPendingUi(p, ui[p].index, ui[p].confirmed) /\ Refused
        /\ UNCHANGED <<state, unsettled>>
    BY <1>7 DEF RejectAnswer, ReissuePendingUi, Refused
  <2>2. QED
    BY <1>4, <1>5, <2>1 DEF Answer, Gives, GoesOn
<1>8. CASE NextQuestion(p)
  <2>1. CurrentUi(p) /\ ui[p].index < Questions[p] /\ ShowPendingUi(p, ui[p].index + 1, ConfirmedWith(p))
        /\ Refused /\ UNCHANGED <<state, unsettled>>
    BY <1>8 DEF NextQuestion, AskNextUiQuestion, Refused
  <2>2. QED
    BY <1>4, <1>5, <2>1 DEF Answer, Gives, GoesOn
<1>9. CASE AnswerQuestion(p)
  <2>1. PICK a \in Seq(Nat) : MayGive(p, a) /\ Submit(p, a)
    BY <1>3, <1>9 DEF AnswerQuestion, MayGive
  <2>2. CurrentUi(p) /\ UNCHANGED unsettled
    BY <1>9 DEF AnswerQuestion
  <2>3. CASE Command(p, a, TRUE) /\ Forget(p) /\ state' = "running" /\ UNCHANGED forms
    <3>1. Admitted(p, a)
      BY <2>3 DEF Command
    <3>2. hostQ'[p] # "open"
      BY <1>5, <3>1 DEF Admitted
    <3>3. Gives(p) /\ GoesOn(p)
      BY <2>1, <2>3, <3>1, <3>2 DEF Gives, GoesOn
    <3>4. QED
      BY <1>4, <1>5, <2>2, <2>3, <3>3 DEF Answer
  <2>4. CASE Command(p, a, FALSE) /\ ReissueRejected(p, a) /\ UNCHANGED state
    <3>1. Refused \/ Admitted(p, a)
      BY <2>4 DEF Command
    <3>2. Gives(p) /\ GoesOn(p)
      BY <2>1, <2>4, <3>1 DEF Gives, GoesOn, ReissueRejected, ReissuePendingUi
    <3>3. QED
      BY <1>4, <1>5, <2>2, <2>4, <3>2 DEF Answer
  <2>5. QED
    BY <2>1, <2>3, <2>4 DEF Submit
<1>10. QED
  BY <1>2, <1>6, <1>7, <1>8, <1>9

\* The host's side of an answer, or of session/cancel.
LEMMA Given ==
    ASSUME TypeOK, NEW p \in Prompts, Gives(p), UNCHANGED flow
    PROVE  /\ HostOK'
           /\ \/ UNCHANGED <<hostQ, hostGot, wire>>
              \/ /\ hostQ[p] = "open" /\ hostQ'[p] = "settled" /\ MayGive(p, hostGot'[p])
                 /\ \A q \in Prompts : q # p => hostQ'[q] = hostQ[q] /\ hostGot'[q] = hostGot[q]
                 /\ \A d : Waits(d)' <=> Waits(d) \/ d = Event("settled", p)
<1>1. CASE Refused
  BY <1>1 DEF Refused, TypeOK, HostOK
<1>2. CASE \E a \in Seq(Nat) : MayGive(p, a) /\ Admitted(p, a)
  <2>1. PICK a \in Seq(Nat) : MayGive(p, a) /\ Admitted(p, a)
    BY <1>2
  <2>2. QED
    BY <2>1, Admits DEF TypeOK
<1>3. QED
  BY <1>1, <1>2 DEF Gives
-----------------------------------------------------------------------------
(* Types.                                                                    *)

InvForms == TypeOK /\ Answering /\ Offering

LEMMA StepHost ==
    ASSUME TypeOK, Next
    PROVE  HostOK'
<1>0. HostOK /\ flow \in Nat /\ wire \in Seq(Notices) /\ missed \subseteq Prompts
  BY DEF TypeOK, HostOK
<1>1. ASSUME NEW p \in Prompts, HostAsks(p) \/ HostSettles(p) PROVE HostOK'
  <2>1. PICK e \in {Event("requested", p), Event("settled", p)} : wire' = Append(wire, e)
    BY <1>1 DEF HostAsks, HostSettles
  <2>2. /\ wire' \in Seq(Notices)
        /\ \A i \in DOMAIN wire' : wire'[i].kind # "loginCompleted" => wire'[i].what \in Prompts
    BY <1>0, <2>1, Notified, Emits
  <2>3. hostQ' \in [Prompts -> {"none", "open", "settled"}] /\ UNCHANGED <<hostGot, flow>>
    BY <1>0, <1>1 DEF HostAsks, HostSettles, HostOK
  <2>4. QED
    BY <1>0, <2>2, <2>3 DEF HostOK
<1>2. ASSUME NEW p \in Prompts, HostRepeats(p) PROVE HostOK'
  <2>1. wire' = Append(wire, Event("requested", p)) /\ UNCHANGED <<hostQ, hostGot, flow>>
    BY <1>2 DEF HostRepeats, hostVars
  <2>2. /\ wire' \in Seq(Notices)
        /\ \A i \in DOMAIN wire' : wire'[i].kind # "loginCompleted" => wire'[i].what \in Prompts
    BY <1>0, <2>1, Notified, Emits
  <2>3. QED
    BY <1>0, <2>1, <2>2 DEF HostOK
<1>3. Event("loginCompleted", flow) \in Notices /\ Event("loginCompleted", flow).kind = "loginCompleted"
  BY <1>0 DEF Event, Notices
<1>4. ASSUME flow' = 0, UNCHANGED <<hostQ, hostGot>>, wire' = Append(wire, Event("loginCompleted", flow))
      PROVE  HostOK'
  <2>1. /\ wire' \in Seq(Notices)
        /\ \A i \in DOMAIN wire' : wire'[i].kind # "loginCompleted" => wire'[i].what \in Prompts
    BY <1>0, <1>3, <1>4, Emits
  <2>2. QED
    BY <1>0, <1>4, <2>1 DEF HostOK
<1>5. CASE HostEndsLogin
  BY <1>4, <1>5 DEF HostEndsLogin
<1>6. CASE HostRestarts
  BY <1>0, <1>6, Restarts
<1>7. CASE BridgeUserInput \/ UserInputSettled \/ FinishDeviceLogin
  <2>1. wire # <<>> /\ wire' = Tail(wire) /\ UNCHANGED <<hostQ, hostGot, flow>>
    BY <1>7 DEF BridgeUserInput, UserInputSettled, FinishDeviceLogin, Take, hostVars
  <2>2. /\ wire' \in Seq(Notices)
        /\ \A i \in DOMAIN wire' : wire'[i].kind # "loginCompleted" => wire'[i].what \in Prompts
    BY <1>0, <2>1, Reads
  <2>3. QED
    BY <1>0, <2>1, <2>2 DEF HostOK
<1>8. CASE (\E f \in FormIds, how \in Hows : EditorAnswers(f, how)) \/ EditorSendsFeedback
           \/ StaleReply \/ CompleteFeedback
  <2>1. UNCHANGED <<hostQ, hostGot, flow, wire>>
    BY <1>8 DEF EditorAnswers, EditorSendsFeedback, StaleReply, CompleteFeedback, hostVars
  <2>2. QED
    BY <1>0, <2>1 DEF HostOK
<1>9. CASE StartDeviceLogin
  <2>1. UNCHANGED <<hostQ, hostGot, wire>> /\ flow' \in {flow, NewCommand}
    BY <1>9 DEF StartDeviceLogin
  <2>2. NewCommand \in Nat
    BY Elements DEF TypeOK, NewCommand
  <2>3. QED
    BY <1>0, <2>1, <2>2 DEF HostOK
<1>10. CASE CompleteElicitation
  <2>1. PICK p \in Prompts : Gives(p)
    BY <1>10, Completes DEF Answer
  <2>2. UNCHANGED flow
    BY <1>10 DEF CompleteElicitation
  <2>3. QED
    BY <2>1, <2>2, Given
<1>11. CASE CompleteDeviceLogin
  <2>1. UNCHANGED <<hostQ, hostGot>>
        /\ (UNCHANGED <<flow, wire>> \/ (flow' = 0 /\ wire' = Append(wire, Event("loginCompleted", flow))))
    BY <1>11 DEF CompleteDeviceLogin
  <2>2. CASE UNCHANGED <<flow, wire>>
    BY <1>0, <2>1, <2>2 DEF HostOK
  <2>3. QED
    BY <1>4, <2>1, <2>2
<1>12. CASE SessionCancel
  <2>1. UNCHANGED flow
    BY <1>12 DEF SessionCancel
  <2>2. CASE Refused
    BY <1>0, <2>1, <2>2 DEF Refused, HostOK
  <2>3. CASE ~Refused
    <3>1. PICK p \in Prompts, ok \in BOOLEAN : Command(p, ui[p].confirmed, ok)
      BY <1>12, <2>3 DEF SessionCancel
    <3>2. Admitted(p, ui[p].confirmed) /\ ui[p].confirmed \in Seq(Nat)
      BY <2>3, <3>1 DEF Command, TypeOK, Walks
    <3>3. QED
      BY <1>0, <2>1, <3>2, Admits
  <2>4. QED
    BY <2>2, <2>3
<1>13. QED
  BY <1>1, <1>2, <1>5, <1>6, <1>7, <1>8, <1>9, <1>10, <1>11, <1>12 DEF Next, Host, Editor, Loop
LEMMA RepliesStay ==
    ASSUME RepliesOK, FormsStay, UNCHANGED replies
    PROVE  RepliesOK'
BY DEF RepliesOK, FormsStay

LEMMA RepliesRead ==
    ASSUME FormsTable, RepliesOK, FormsStay, replies # <<>>, replies' = Tail(replies)
    PROVE  RepliesOK'
<1>1. /\ replies' \in Seq([req : Nat, how : Hows])
      /\ \A i \in DOMAIN replies' : replies'[i].req \in DOMAIN forms
  BY ReadsReply
<1>2. QED
  BY <1>1 DEF RepliesOK, FormsStay

LEMMA FormTyped ==
    ASSUME NEW kind \in {"feedback", "login"}
    PROVE  /\ Form(kind, 0, 1) \in Forms /\ Form(kind, 0, 1).kind = kind
           /\ Form(kind, 0, 1).kind # "question"
BY DEF Form, Forms

\* The forms and replies of a step, and what happens to the walks.
OffersForm(kind) == Ask(Form(kind, 0, 1)) /\ UNCHANGED <<ui, replies>>
OpensWalk(p) == ~ui[p].open /\ ShowPendingUi(p, 1, <<>>) /\ UNCHANGED replies
EndsWalk(p) ==
  /\ ui[p].open /\ ui' = [ui EXCEPT ![p] = Closed] /\ Withdraw(ui[p].req) /\ UNCHANGED replies
Fills(f) ==
  /\ f \in DOMAIN forms /\ forms[f].live
  /\ \E how \in Hows : replies' = Append(replies, [req |-> f, how |-> how])
  /\ forms' = [forms EXCEPT ![f].live = FALSE] /\ UNCHANGED ui
Discards ==
  /\ replies # <<>> /\ replies' = Tail(replies) /\ UNCHANGED ui
  /\ \A p \in Prompts : ui[p].open => ui[p].req # Head(replies).req
  /\ UNCHANGED forms \/ Ask(Form("feedback", 0, 1))
Answers(p) == replies # <<>> /\ replies' = Tail(replies) /\ Answer(p)
WithdrawsOffer == feedback # NoOffer /\ Withdraw(feedback.req) /\ UNCHANGED <<ui, replies>>

LEMMA Kinds ==
    ASSUME InvForms, Next
    PROVE  \/ UNCHANGED <<ui, forms, replies>>
           \/ \E kind \in {"feedback", "login"} : OffersForm(kind)
           \/ \E p \in Prompts : OpensWalk(p) \/ EndsWalk(p) \/ Answers(p)
           \/ \E f \in DOMAIN forms : Fills(f)
           \/ Discards \/ WithdrawsOffer
<1> DEFINE Goal == \/ UNCHANGED <<ui, forms, replies>>
                   \/ \E kind \in {"feedback", "login"} : OffersForm(kind)
                   \/ \E p \in Prompts : OpensWalk(p) \/ EndsWalk(p) \/ Answers(p)
                   \/ \E f \in DOMAIN forms : Fills(f)
                   \/ Discards \/ WithdrawsOffer
<1> SUFFICES Goal
  OBVIOUS
<1> HIDE DEF Goal
<1>0. TypeOK /\ HostOK /\ FormsTable /\ RepliesOK /\ Answering
  BY DEF InvForms, TypeOK
<1>1. ASSUME NEW p \in Prompts, HostAsks(p) \/ HostRepeats(p) \/ HostSettles(p) PROVE Goal
  BY <1>1 DEF Goal, HostAsks, HostRepeats, HostSettles
<1>2. CASE HostEndsLogin \/ HostRestarts \/ FinishDeviceLogin
  BY <1>2 DEF Goal, HostEndsLogin, HostRestarts, FinishDeviceLogin
<1>3. CASE BridgeUserInput
  <2>1. Head(wire).kind = "requested" /\ wire # <<>>
    BY <1>3 DEF BridgeUserInput, Take
  <2>2. Head(wire).what \in Prompts
    <3>1. wire' = Tail(wire)
      BY <1>3 DEF BridgeUserInput, Take
    <3>2. QED
      BY <1>0, <2>1, <3>1, Reads
  <2>3. UNCHANGED <<ui, forms, replies>> \/ OpensWalk(Head(wire).what)
    BY <1>3 DEF BridgeUserInput, OpensWalk
  <2>4. QED
    BY <2>2, <2>3 DEF Goal
<1>4. CASE UserInputSettled
  <2>1. Head(wire).kind = "settled" /\ wire # <<>> /\ wire' = Tail(wire)
    BY <1>4 DEF UserInputSettled, Take
  <2>2. Head(wire).what \in Prompts
    BY <1>0, <2>1, Reads
  <2>3. UNCHANGED <<ui, forms, replies>> \/ EndsWalk(Head(wire).what)
    BY <1>4 DEF UserInputSettled, EndsWalk
  <2>4. QED
    BY <2>2, <2>3 DEF Goal
<1>5. ASSUME NEW f \in FormIds, NEW how \in Hows, EditorAnswers(f, how) PROVE Goal
  <2>1. f \in DOMAIN forms /\ Fills(f)
    BY <1>5 DEF EditorAnswers, Fills
  <2>2. QED
    BY <2>1 DEF Goal
<1>6. CASE EditorSendsFeedback
  <2>1. UNCHANGED <<ui, replies>> /\ (UNCHANGED forms \/ Ask(Form("feedback", 0, 1)))
    BY <1>6 DEF EditorSendsFeedback, StartFeedback
  <2>2. QED
    BY <2>1 DEF Goal, OffersForm
<1>7. CASE StartDeviceLogin
  <2>1. UNCHANGED <<ui, replies>> /\ (UNCHANGED forms \/ Ask(Form("login", 0, 1)))
    BY <1>7 DEF StartDeviceLogin
  <2>2. QED
    BY <2>1 DEF Goal, OffersForm
<1>8. \A p \in Prompts : ui[p].open => forms[ui[p].req].kind = "question" /\ forms[ui[p].req].what = p
  BY <1>0 DEF Answering, OnWalk
<1>9. CASE StaleReply
  <2>1. ~CurrentUi(forms[Head(replies).req].what) /\ UNCHANGED <<ui, forms>>
        /\ replies # <<>> /\ replies' = Tail(replies)
    BY <1>9 DEF StaleReply, Reply
  <2>2. \A p \in Prompts : ui[p].open => ui[p].req # Head(replies).req
    BY <1>8, <2>1 DEF CurrentUi
  <2>3. QED
    BY <2>1, <2>2 DEF Goal, Discards
<1>10. CASE CompleteElicitation
  <2>1. PICK p \in Prompts : Answer(p)
    BY <1>0, <1>10, Completes
  <2>2. replies # <<>> /\ replies' = Tail(replies)
    BY <1>10 DEF CompleteElicitation, Reply
  <2>3. QED
    BY <2>1, <2>2 DEF Goal, Answers
<1>11. CASE CompleteFeedback
  <2>1. /\ replies # <<>> /\ replies' = Tail(replies) /\ forms[Head(replies).req].kind = "feedback"
        /\ UNCHANGED ui /\ (UNCHANGED forms \/ Ask(Form("feedback", 0, 1)))
    BY <1>11 DEF CompleteFeedback, Reply, SubmitFeedback
  <2>2. \A p \in Prompts : ui[p].open => ui[p].req # Head(replies).req
    BY <1>8, <2>1
  <2>3. QED
    BY <2>1, <2>2 DEF Goal, Discards
<1>12. CASE CompleteDeviceLogin
  <2>1. /\ replies # <<>> /\ replies' = Tail(replies) /\ forms[Head(replies).req].kind = "login"
        /\ UNCHANGED <<ui, forms>>
    BY <1>12 DEF CompleteDeviceLogin, Reply
  <2>2. \A p \in Prompts : ui[p].open => ui[p].req # Head(replies).req
    BY <1>8, <2>1
  <2>3. QED
    BY <2>1, <2>2 DEF Goal, Discards
<1>13. CASE SessionCancel
  <2>1. UNCHANGED <<ui, replies>> /\ (UNCHANGED forms \/ (feedback # NoOffer /\ Withdraw(feedback.req)))
    BY <1>13 DEF SessionCancel, SettleFeedbackCancelled
  <2>2. QED
    BY <2>1 DEF Goal, WithdrawsOffer
<1>14. QED
  <2>1. CASE Host
    BY <1>1, <1>2, <2>1 DEF Host
  <2>2. CASE Editor
    BY <1>5, <1>6, <1>7, <1>13, <2>2 DEF Editor
  <2>3. CASE Loop
    BY <1>2, <1>3, <1>4, <1>9, <1>10, <1>11, <1>12, <2>3 DEF Loop
  <2>4. QED
    BY <2>1, <2>2, <2>3 DEF Next
LEMMA StepForms ==
    ASSUME InvForms, Next
    PROVE  /\ FormsTable' /\ FormsStay /\ RepliesOK' /\ ui' \in [Prompts -> Walks]
<1>0. /\ TypeOK /\ FormsTable /\ RepliesOK /\ ui \in [Prompts -> Walks]
      /\ \A p \in Prompts : OnWalk(p)
      /\ Offered(feedback)
  BY DEF InvForms, TypeOK, Answering, Offering
<1>1. CASE UNCHANGED <<ui, forms, replies>>
  BY <1>0, <1>1, StaysStill, RepliesStay
<1>2. ASSUME NEW kind \in {"feedback", "login"}, OffersForm(kind)
      PROVE  /\ FormsTable' /\ FormsStay /\ RepliesOK' /\ ui' \in [Prompts -> Walks]
  <2>1. Form(kind, 0, 1) \in Forms /\ Form(kind, 0, 1).kind # "question"
    BY FormTyped
  <2>2. FormsTable' /\ FormsStay
    BY <1>0, <1>2, <2>1, Asks DEF OffersForm
  <2>3. QED
    BY <1>0, <1>2, <2>2, RepliesStay DEF OffersForm
<1>3. ASSUME NEW p \in Prompts, OpensWalk(p)
      PROVE  /\ FormsTable' /\ FormsStay /\ RepliesOK' /\ ui' \in [Prompts -> Walks]
  <2>1. 1 \in Nat /\ <<>> \in Seq(Nat)
    OBVIOUS
  <2>2. FormsTable' /\ FormsStay /\ ui' \in [Prompts -> Walks]
    BY <1>0, <1>3, <2>1, Shows DEF OpensWalk
  <2>3. QED
    BY <1>0, <1>3, <2>2, RepliesStay DEF OpensWalk
<1>4. ASSUME NEW p \in Prompts, EndsWalk(p)
      PROVE  /\ FormsTable' /\ FormsStay /\ RepliesOK' /\ ui' \in [Prompts -> Walks]
  <2>1. ui[p].req \in DOMAIN forms \cup {0}
    BY <1>0, <1>4 DEF EndsWalk, OnWalk
  <2>2. FormsTable' /\ FormsStay
    BY <1>0, <1>4, <2>1, Withdraws DEF EndsWalk
  <2>3. ui' \in [Prompts -> Walks]
    BY <1>0, <1>4, Closes DEF EndsWalk
  <2>4. QED
    BY <1>0, <1>4, <2>2, <2>3, RepliesStay DEF EndsWalk
<1>5. ASSUME NEW p \in Prompts, Answers(p)
      PROVE  /\ FormsTable' /\ FormsStay /\ RepliesOK' /\ ui' \in [Prompts -> Walks]
  <2>1. replies # <<>> /\ replies' = Tail(replies) /\ GoesOn(p)
    BY <1>5 DEF Answers, Answer
  <2>2. /\ ui[p].confirmed \in Seq(Nat) /\ ui[p].index \in Nat /\ ui[p].index + 1 \in Nat
        /\ ConfirmedWith(p) \in Seq(Nat)
    <3>1. ui[p].confirmed \in Seq(Nat) /\ ui[p].index \in Nat /\ ConfirmedWith(p) \in Seq(Nat)
      BY <1>0, <2>1, WalkParts
    <3>2. QED
      BY <3>1
  <2>3. FormsTable' /\ FormsStay /\ ui' \in [Prompts -> Walks]
    <3>1. CASE Forget(p) /\ UNCHANGED forms
      BY <1>0, <3>1, StaysStill, Closes DEF Forget
    <3>2. CASE ShowPendingUi(p, ui[p].index, ui[p].confirmed)
      BY <1>0, <2>2, <3>2, Shows
    <3>3. CASE ShowPendingUi(p, ui[p].index + 1, ConfirmedWith(p))
      BY <1>0, <2>2, <3>3, Shows
    <3>4. QED
      BY <2>1, <3>1, <3>2, <3>3 DEF GoesOn
  <2>4. QED
    BY <1>0, <2>1, <2>3, RepliesRead
<1>6. ASSUME NEW f \in DOMAIN forms, Fills(f)
      PROVE  /\ FormsTable' /\ FormsStay /\ RepliesOK' /\ ui' \in [Prompts -> Walks]
  <2>1. FormsTable' /\ FormsStay
    BY <1>0, <1>6, Expires DEF Fills
  <2>2. PICK how \in Hows : replies' = Append(replies, [req |-> f, how |-> how])
    BY <1>6 DEF Fills
  <2>3. replies \in Seq([req : Nat, how : Hows])
    BY <1>0 DEF RepliesOK
  <2>4. [req |-> f, how |-> how] \in [req : Nat, how : Hows]
    <3>1. f \in 1..Len(forms) /\ Len(forms) \in Nat
      BY <1>0, Elements DEF FormsTable
    <3>2. QED
      BY <3>1
  <2>5. /\ replies' \in Seq([req : Nat, how : Hows])
        /\ replies'[Len(replies) + 1] = [req |-> f, how |-> how]
        /\ DOMAIN replies' = DOMAIN replies \cup {Len(replies) + 1}
        /\ \A i \in DOMAIN replies : replies'[i] = replies[i]
    BY <2>2, <2>3, <2>4, Appended
  <2>6. \A i \in DOMAIN replies' : replies'[i].req \in DOMAIN forms
    BY <1>0, <2>5 DEF RepliesOK
  <2>7. RepliesOK'
    BY <2>1, <2>5, <2>6 DEF RepliesOK, FormsStay
  <2>8. QED
    BY <1>0, <1>6, <2>1, <2>7 DEF Fills
<1>7. CASE Discards
  <2>1. FormsTable' /\ FormsStay
    <3>1. CASE UNCHANGED forms
      BY <1>0, <3>1, StaysStill
    <3>2. CASE Ask(Form("feedback", 0, 1))
      <4>1. Form("feedback", 0, 1) \in Forms /\ Form("feedback", 0, 1).kind # "question"
        BY FormTyped
      <4>2. QED
        BY <1>0, <3>2, <4>1, Asks
    <3>3. QED
      BY <1>7, <3>1, <3>2 DEF Discards
  <2>2. QED
    BY <1>0, <1>7, <2>1, RepliesRead DEF Discards
<1>8. CASE WithdrawsOffer
  <2>1. feedback.req \in DOMAIN forms \cup {0}
    BY <1>0, <1>8 DEF WithdrawsOffer, Offered
  <2>2. FormsTable' /\ FormsStay
    BY <1>0, <1>8, <2>1, Withdraws DEF WithdrawsOffer
  <2>3. QED
    BY <1>0, <1>8, <2>2, RepliesStay DEF WithdrawsOffer
<1>9. QED
  BY <1>1, <1>2, <1>3, <1>4, <1>5, <1>6, <1>7, <1>8, Kinds
-----------------------------------------------------------------------------
(* What the host is given is what the user confirmed.                        *)

LEMMA WalkedStays ==
    ASSUME FormsStay, NEW p \in Prompts, NEW s, Walked(p, s)
    PROVE  \A i \in DOMAIN s :
             /\ s[i] \in DOMAIN forms' /\ forms'[s[i]].what = p /\ forms'[s[i]].index = i
             /\ \A j \in DOMAIN s : j < i => s[j] < s[i]
BY DEF FormsStay, Walked

LEMMA WalkStays ==
    ASSUME FormsStay, NEW p \in Prompts, OnWalk(p), ui'[p] = ui[p]
    PROVE  OnWalk(p)'
<1>1. CASE ~ui[p].open
  BY <1>1 DEF OnWalk
<1>2. CASE ui[p].open
  <2>1. /\ ui[p].req \in DOMAIN forms
        /\ forms[ui[p].req].kind = "question" /\ forms[ui[p].req].what = p
        /\ forms[ui[p].req].index = ui[p].index
        /\ ui[p].index = Len(ui[p].confirmed) + 1 /\ ui[p].index <= Questions[p]
        /\ Walked(p, ui[p].confirmed)
        /\ \A i \in DOMAIN ui[p].confirmed : ui[p].confirmed[i] < ui[p].req
    BY <1>2 DEF OnWalk
  <2>2. /\ ui[p].req \in DOMAIN forms'
        /\ forms'[ui[p].req].kind = "question" /\ forms'[ui[p].req].what = p
        /\ forms'[ui[p].req].index = ui[p].index
    BY <2>1 DEF FormsStay
  <2>3. Walked(p, ui[p].confirmed)'
    <3>1. PICK c : c = ui[p].confirmed
      OBVIOUS
    <3>2. Walked(p, c)'
      BY <2>1, <3>1, WalkedStays DEF Walked
    <3>3. c = ui'[p].confirmed
      BY <3>1
    <3>4. QED
      BY <3>2, <3>3
  <2>4. QED
    BY <2>1, <2>2, <2>3 DEF OnWalk
<1>3. QED
  BY <1>1, <1>2

\* The form that is answered is about the question after the confirmed ones.
LEMMA WalksOn ==
    ASSUME TypeOK, NEW p \in Prompts, OnWalk(p), replies # <<>>,
           ui[p].open, ui[p].req = Head(replies).req
    PROVE  /\ Walked(p, ConfirmedWith(p)) /\ Len(ConfirmedWith(p)) = ui[p].index
           /\ \A i \in DOMAIN ConfirmedWith(p) : ConfirmedWith(p)[i] \in DOMAIN forms
<1> DEFINE c == ui[p].confirmed  n == Len(c) + 1  w == ConfirmedWith(p)
<1>1. /\ c \in Seq(Nat) /\ Len(w) = n /\ w[n] = ui[p].req
      /\ DOMAIN w = DOMAIN c \cup {n} /\ \A i \in DOMAIN c : w[i] = c[i]
  BY WalkParts
<1>2. /\ ui[p].req \in DOMAIN forms /\ forms[ui[p].req].what = p
      /\ forms[ui[p].req].index = n /\ ui[p].index = n
      /\ Walked(p, c) /\ \A i \in DOMAIN c : c[i] < ui[p].req
  BY DEF OnWalk
<1>3. DOMAIN c = 1..Len(c) /\ Len(c) \in Nat /\ \A i \in DOMAIN c : ~(n < i)
  BY <1>1, Elements
<1> HIDE DEF w, c, n
<1>4. ASSUME NEW i \in DOMAIN w
      PROVE  /\ w[i] \in DOMAIN forms /\ forms[w[i]].what = p /\ forms[w[i]].index = i
             /\ \A j \in DOMAIN w : j < i => w[j] < w[i]
  <2>1. CASE i \in DOMAIN c
    BY <1>1, <1>2, <1>3, <2>1 DEF Walked
  <2>2. CASE i = n
    <3>1. \A j \in DOMAIN w : j < i => j \in DOMAIN c
      BY <1>1, <1>3, <2>2 DEF n
    <3>2. QED
      BY <1>1, <1>2, <2>2, <3>1
  <2>3. QED
    BY <1>1, <2>1, <2>2
<1>5. QED
  BY <1>1, <1>2, <1>4 DEF Walked, w
\* A walk that is shown is at the question it shows.
LEMMA ShowsWalk ==
    ASSUME TypeOK, NEW p \in Prompts, NEW c \in Seq(Nat), NEW n \in Nat, ShowPendingUi(p, n, c),
           n = Len(c) + 1, n <= Questions[p], Walked(p, c)
    PROVE  OnWalk(p)'
<1>1. FormsTable /\ ui \in [Prompts -> Walks]
  BY DEF TypeOK
<1>2. /\ FormsStay /\ DOMAIN forms' = DOMAIN forms \cup {NewForm}
      /\ \A f \in DOMAIN forms : f < NewForm
      /\ forms'[NewForm].kind = "question" /\ forms'[NewForm].what = p /\ forms'[NewForm].index = n
      /\ ui'[p].open /\ ui'[p].req = NewForm /\ ui'[p].index = n /\ ui'[p].confirmed = c
  BY <1>1, Shows
<1>3. Walked(p, c)'
  BY <1>2, WalkedStays DEF Walked
<1>4. \A i \in DOMAIN c : c[i] < NewForm
  BY <1>2 DEF Walked
<1>5. QED
  BY <1>2, <1>3, <1>4 DEF OnWalk

LEMMA StepWalks ==
    ASSUME InvForms, Next
    PROVE  \A p \in Prompts : OnWalk(p)'
<1>0. /\ TypeOK /\ FormsTable /\ ui \in [Prompts -> Walks]
      /\ \A p \in Prompts : OnWalk(p)
      /\ FormsStay
  BY StepForms DEF InvForms, TypeOK, Answering
<1>1. ASSUME NEW p \in Prompts, ui'[p] = ui[p] PROVE OnWalk(p)'
  BY <1>0, <1>1, WalkStays
<1>2. CASE UNCHANGED ui
  BY <1>1, <1>2
<1>3. ASSUME NEW q \in Prompts, OpensWalk(q) PROVE \A p \in Prompts : OnWalk(p)'
  <2>1. ShowPendingUi(q, 1, <<>>)
    BY <1>3 DEF OpensWalk
  <2>2. 1 \in Nat /\ <<>> \in Seq(Nat) /\ Len(<<>>) = 0 /\ 1 <= Questions[q] /\ Walked(q, <<>>)
    BY DEF Walked
  <2>3. OnWalk(q)'
    <3>1. PICK c \in Seq(Nat), n \in Nat : c = <<>> /\ n = 1
      BY <2>2
    <3>2. ShowPendingUi(q, n, c) /\ Walked(q, c)
      BY <2>1, <2>2, <3>1
    <3>3. n = Len(c) + 1 /\ n <= Questions[q]
      BY <2>2, <3>1
    <3>4. QED
      BY <1>0, <3>2, <3>3, ShowsWalk
  <2>4. \A p \in Prompts : p # q => ui'[p] = ui[p]
    BY <1>0, <2>1, <2>2, Shows
  <2>5. QED
    BY <1>1, <2>3, <2>4
<1>4. ASSUME NEW q \in Prompts, EndsWalk(q) \/ Forget(q) PROVE \A p \in Prompts : OnWalk(p)'
  <2>1. ~ui'[q].open /\ \A p \in Prompts : p # q => ui'[p] = ui[p]
    BY <1>0, <1>4, Closes DEF EndsWalk, Forget
  <2>2. OnWalk(q)'
    BY <2>1 DEF OnWalk
  <2>3. QED
    BY <1>1, <2>1, <2>2
<1>5. ASSUME NEW q \in Prompts, Answers(q) PROVE \A p \in Prompts : OnWalk(p)'
  <2>1. /\ replies # <<>> /\ GoesOn(q) /\ ui[q].open /\ ui[q].req = Head(replies).req
    BY <1>5 DEF Answers, Answer
  <2>2. /\ ui[q].confirmed \in Seq(Nat) /\ ui[q].index \in Nat /\ ConfirmedWith(q) \in Seq(Nat)
    BY <1>0, <2>1, WalkParts
  <2>3. /\ ui[q].index = Len(ui[q].confirmed) + 1 /\ ui[q].index <= Questions[q]
        /\ Walked(q, ui[q].confirmed)
    BY <1>0, <2>1 DEF OnWalk
  <2>4. CASE ShowPendingUi(q, ui[q].index, ui[q].confirmed)
    <3>1. OnWalk(q)'
      BY <1>0, <2>2, <2>3, <2>4, ShowsWalk
    <3>2. \A p \in Prompts : p # q => ui'[p] = ui[p]
      BY <1>0, <2>2, <2>4, Shows
    <3>3. QED
      BY <1>1, <3>1, <3>2
  <2>5. CASE ui[q].index < Questions[q] /\ ShowPendingUi(q, ui[q].index + 1, ConfirmedWith(q))
    <3>1. /\ Walked(q, ConfirmedWith(q)) /\ Len(ConfirmedWith(q)) = ui[q].index
      BY <1>0, <2>1, WalksOn
    <3>2. ui[q].index + 1 \in Nat /\ ui[q].index + 1 <= Questions[q]
      BY <2>2, <2>5
    <3>3. OnWalk(q)'
      BY <1>0, <2>2, <2>5, <3>1, <3>2, ShowsWalk
    <3>4. \A p \in Prompts : p # q => ui'[p] = ui[p]
      BY <1>0, <2>2, <2>5, <3>2, Shows
    <3>5. QED
      BY <1>1, <3>3, <3>4
  <2>6. QED
    BY <1>4, <2>1, <2>4, <2>5 DEF GoesOn
<1>6. CASE (\E kind \in {"feedback", "login"} : OffersForm(kind)) \/ (\E f \in DOMAIN forms : Fills(f))
           \/ Discards \/ WithdrawsOffer
  <2>1. UNCHANGED ui
    BY <1>6 DEF OffersForm, Fills, Discards, WithdrawsOffer
  <2>2. QED
    BY <1>1, <2>1
<1>7. QED
  BY <1>2, <1>3, <1>4, <1>5, <1>6, Kinds

\* The answers a step gives the host are those of a walk that was open.
GotFrom(p) ==
  \/ hostGot'[p] = hostGot[p]
  \/ /\ ui[p].open
     /\ \/ hostGot'[p] = <<>> \/ hostGot'[p] = ui[p].confirmed
        \/ /\ replies # <<>> /\ ui[p].req = Head(replies).req
           /\ hostGot'[p] = ConfirmedWith(p) /\ ui[p].index = Questions[p]

LEMMA StepGot ==
    ASSUME TypeOK, Next
    PROVE  \A p \in Prompts : GotFrom(p)
<1>0. HostOK
  BY DEF TypeOK
<1>1. CASE UNCHANGED hostGot
  BY <1>1 DEF GotFrom
<1>2. CASE CompleteElicitation
  <2>1. PICK q \in Prompts : Answer(q)
    BY <1>2, Completes
  <2>2. replies # <<>> /\ UNCHANGED flow
    BY <1>2 DEF CompleteElicitation, Reply
  <2>3. ui[q].open /\ ui[q].req = Head(replies).req /\ Gives(q)
    BY <2>1 DEF Answer
  <2>4. \/ UNCHANGED hostGot
        \/ /\ MayGive(q, hostGot'[q])
           /\ \A p \in Prompts : p # q => hostGot'[p] = hostGot[p]
    BY <2>2, <2>3, Given
  <2>5. QED
    BY <1>1, <2>2, <2>3, <2>4 DEF MayGive, GotFrom
<1>3. CASE SessionCancel
  <2>1. CASE Refused
    BY <1>1, <2>1 DEF Refused
  <2>2. CASE ~Refused
    <3>1. PICK q \in Prompts, ok \in BOOLEAN : ui[q].open /\ Command(q, ui[q].confirmed, ok)
      BY <1>3, <2>2 DEF SessionCancel
    <3>2. Admitted(q, ui[q].confirmed)
      BY <2>2, <3>1 DEF Command
    <3>3. hostGot' = [hostGot EXCEPT ![q] = ui[q].confirmed]
      BY <3>2 DEF Admitted
    <3>4. QED
      BY <1>0, <3>1, <3>3 DEF GotFrom, HostOK
  <2>3. QED
    BY <2>1, <2>2
<1>4. CASE Host
  <2>1. UNCHANGED hostGot
    BY <1>4 DEF Host, HostAsks, HostRepeats, HostSettles, HostEndsLogin, HostRestarts, hostVars
  <2>2. QED
    BY <1>1, <2>1
<1>5. CASE (\E f \in FormIds, how \in Hows : EditorAnswers(f, how)) \/ EditorSendsFeedback \/ StartDeviceLogin
  <2>1. UNCHANGED hostGot
    BY <1>5 DEF EditorAnswers, EditorSendsFeedback, StartDeviceLogin, hostVars
  <2>2. QED
    BY <1>1, <2>1
<1>6. CASE BridgeUserInput \/ UserInputSettled \/ FinishDeviceLogin \/ StaleReply
           \/ CompleteFeedback \/ CompleteDeviceLogin
  <2>1. UNCHANGED hostGot
    BY <1>6 DEF BridgeUserInput, UserInputSettled, FinishDeviceLogin, StaleReply,
       CompleteFeedback, CompleteDeviceLogin, hostVars
  <2>2. QED
    BY <1>1, <2>1
<1>7. QED
  BY <1>2, <1>3, <1>4, <1>5, <1>6 DEF Next, Editor, Loop

LEMMA StepAnswering ==
    ASSUME InvForms, Next
    PROVE  Answering'
<1>0. TypeOK /\ FormsStay /\ \A p \in Prompts : OnWalk(p)'
  BY StepForms, StepWalks DEF InvForms
<1>1. ASSUME NEW p \in Prompts
      PROVE  Len(hostGot'[p]) <= Questions[p] /\ Walked(p, hostGot[p])'
  <2>0. /\ OnWalk(p) /\ Len(hostGot[p]) <= Questions[p] /\ Walked(p, hostGot[p])
        /\ GotFrom(p) /\ Questions[p] \in Nat
    BY <1>0, StepGot DEF InvForms, Answering
  <2>1. PICK a : a = hostGot'[p]
    OBVIOUS
  <2>2. Len(a) <= Questions[p] /\ Walked(p, a)
    <3>1. CASE a = hostGot[p]
      BY <2>0, <3>1
    <3>2. CASE a = <<>>
      BY <2>0, <3>2 DEF Walked
    <3>3. CASE ui[p].open /\ a = ui[p].confirmed
      <4>1. /\ ui[p].index = Len(ui[p].confirmed) + 1 /\ ui[p].index <= Questions[p]
            /\ Walked(p, ui[p].confirmed)
        BY <2>0, <3>3 DEF OnWalk
      <4>2. Len(ui[p].confirmed) \in Nat
        BY <1>0, Elements DEF TypeOK, Walks
      <4>3. QED
        BY <2>0, <3>3, <4>1, <4>2
    <3>4. CASE /\ ui[p].open /\ replies # <<>> /\ ui[p].req = Head(replies).req
               /\ a = ConfirmedWith(p) /\ ui[p].index = Questions[p]
      BY <1>0, <2>0, <3>4, WalksOn
    <3>5. QED
      BY <2>0, <2>1, <3>1, <3>2, <3>3, <3>4 DEF GotFrom
  <2>3. Walked(p, a)'
    BY <1>0, <2>2, WalkedStays DEF Walked
  <2>4. QED
    BY <2>1, <2>2, <2>3
<1>2. QED
  BY <1>0, <1>1 DEF Answering
-----------------------------------------------------------------------------
(* The screen.                                                               *)

LEMMA Fill ==
    ASSUME FormsTable, RepliesOK, NEW f \in DOMAIN forms, Fills(f)
    PROVE  /\ replies' \in Seq([req : Nat, how : Hows])
           /\ \A i \in DOMAIN replies' : replies'[i].req \in DOMAIN forms
           /\ \A g : Replied(g)' <=> Replied(g) \/ g = f
<1>1. PICK how \in Hows : replies' = Append(replies, [req |-> f, how |-> how])
  BY DEF Fills
<1>2. replies \in Seq([req : Nat, how : Hows])
  BY DEF RepliesOK
<1>3. [req |-> f, how |-> how] \in [req : Nat, how : Hows]
  <2>1. f \in 1..Len(forms) /\ Len(forms) \in Nat
    BY Elements DEF FormsTable
  <2>2. QED
    BY <2>1
<1>4. /\ replies' \in Seq([req : Nat, how : Hows])
      /\ replies'[Len(replies) + 1] = [req |-> f, how |-> how]
      /\ DOMAIN replies' = DOMAIN replies \cup {Len(replies) + 1}
      /\ \A i \in DOMAIN replies : replies'[i] = replies[i]
  BY <1>1, <1>2, <1>3, Appended
<1>5. QED
  BY <1>4 DEF RepliesOK, Replied

LEMMA StepScreen ==
    ASSUME InvForms, Screen, Next
    PROVE  Screen'
<1>0. /\ TypeOK /\ FormsTable /\ RepliesOK /\ ui \in [Prompts -> Walks]
      /\ \A p \in Prompts : OnWalk(p)
      /\ feedback # NoOffer => feedback.req \in DOMAIN forms /\ forms[feedback.req].kind = "feedback"
      /\ \A f \in DOMAIN forms : OnScreen(f)
      /\ \A p \in Prompts : Asked(p)
  BY DEF InvForms, TypeOK, Answering, Offering, Offered, Screen
<1>1. \A f : Replied(f) => f \in DOMAIN forms
  BY <1>0 DEF RepliesOK, Replied
<1>2. \A p \in Prompts : ui[p].open =>
        /\ ui[p].req \in DOMAIN forms /\ forms[ui[p].req].kind = "question"
        /\ forms[ui[p].req].what = p
  BY <1>0 DEF OnWalk
<1>3. \A f \in DOMAIN forms : forms[f].kind = "question" => forms[f].what \in Prompts
  BY <1>0 DEF FormsTable
<1>4. UNCHANGED replies => \A f : Replied(f)' <=> Replied(f)
  BY DEF Replied
<1>5. CASE UNCHANGED <<ui, forms, replies>>
  <2>1. \A f \in DOMAIN forms' : OnScreen(f)'
    BY <1>0, <1>4, <1>5 DEF OnScreen
  <2>2. \A p \in Prompts : Asked(p)'
    BY <1>0, <1>5 DEF Asked, Replied
  <2>3. QED
    BY <2>1, <2>2 DEF Screen
<1>6. ASSUME NEW kind \in {"feedback", "login"}, OffersForm(kind) PROVE Screen'
  <2>1. /\ Form(kind, 0, 1) \in Forms /\ Form(kind, 0, 1).kind # "question"
        /\ Ask(Form(kind, 0, 1)) /\ UNCHANGED <<ui, replies>>
    BY <1>6, FormTyped DEF OffersForm
  <2>2. /\ DOMAIN forms' = DOMAIN forms \cup {NewForm} /\ NewForm \notin DOMAIN forms
        /\ forms'[NewForm].kind # "question" /\ \A f \in DOMAIN forms : forms'[f] = forms[f]
    BY <1>0, <2>1, Asks
  <2>3. \A f \in DOMAIN forms' : OnScreen(f)'
    BY <1>0, <1>1, <1>4, <2>1, <2>2 DEF OnScreen
  <2>4. \A p \in Prompts : Asked(p)'
    BY <1>0, <1>2, <2>1, <2>2 DEF Asked, Replied
  <2>5. QED
    BY <2>3, <2>4 DEF Screen
<1>7. ASSUME NEW q \in Prompts, OpensWalk(q) PROVE Screen'
  <2>1. ~ui[q].open /\ ShowPendingUi(q, 1, <<>>) /\ UNCHANGED replies
    BY <1>7 DEF OpensWalk
  <2>2. PICK n \in Nat, c \in Seq(Nat) : n = 1 /\ c = <<>>
    <3>1. 1 \in Nat /\ <<>> \in Seq(Nat)
      OBVIOUS
    <3>2. QED
      BY <3>1
  <2>3. ShowPendingUi(q, n, c)
    BY <2>1, <2>2
  <2>4. /\ DOMAIN forms' = DOMAIN forms \cup {NewForm} /\ NewForm \notin DOMAIN forms
        /\ \A f \in DOMAIN forms : forms'[f] = forms[f]
        /\ forms'[NewForm].what = q /\ forms'[NewForm].live
        /\ \A p \in Prompts : p # q => ui'[p] = ui[p]
        /\ ui'[q].open /\ ui'[q].req = NewForm
    BY <1>0, <2>3, Shows
  <2>5. \A f \in DOMAIN forms' : OnScreen(f)'
    BY <1>0, <1>1, <1>3, <1>4, <2>1, <2>4 DEF OnScreen
  <2>6. \A p \in Prompts : Asked(p)'
    BY <1>0, <1>2, <2>1, <2>4 DEF Asked, Replied
  <2>7. QED
    BY <2>5, <2>6 DEF Screen
<1>8. ASSUME NEW q \in Prompts, EndsWalk(q) PROVE Screen'
  <2>1. ui[q].open /\ ui' = [ui EXCEPT ![q] = Closed] /\ Withdraw(ui[q].req) /\ UNCHANGED replies
    BY <1>8 DEF EndsWalk
  <2>2. PICK r \in DOMAIN forms : r = ui[q].req /\ r # 0
    <3>1. DOMAIN forms = 1 .. Len(forms) /\ Len(forms) \in Nat
      BY <1>0, Elements DEF FormsTable
    <3>2. QED
      BY <1>2, <2>1, <3>1
  <2>3. /\ DOMAIN forms' = DOMAIN forms /\ ~forms'[r].live
        /\ \A f \in DOMAIN forms : f # r => forms'[f] = forms[f]
    BY <1>0, <2>1, <2>2, Withdraws
  <2>4. ~ui'[q].open /\ \A p \in Prompts : p # q => ui'[p] = ui[p]
    BY <1>0, <2>1, Closes
  <2>5. \A f \in DOMAIN forms' : OnScreen(f)'
    BY <1>0, <1>3, <1>4, <2>1, <2>2, <2>3, <2>4 DEF OnScreen
  <2>6. \A p \in Prompts : Asked(p)'
    BY <1>0, <1>2, <2>1, <2>2, <2>3, <2>4 DEF Asked, Replied
  <2>7. QED
    BY <2>5, <2>6 DEF Screen
<1>9. ASSUME NEW q \in Prompts, Answers(q) PROVE Screen'
  <2>1. /\ replies # <<>> /\ replies' = Tail(replies) /\ GoesOn(q)
        /\ ui[q].open /\ ui[q].req = Head(replies).req
    BY <1>9 DEF Answers, Answer
  <2>2. PICK r \in DOMAIN forms : r = ui[q].req
    BY <1>2, <2>1
  <2>3. Replied(r) /\ \A f : Replied(f) <=> Replied(f)' \/ f = r
    BY <1>0, <2>1, <2>2, ReadsReply
  <2>4. ~forms[r].live /\ forms[r].what = q
    BY <1>0, <1>2, <2>1, <2>2, <2>3 DEF OnScreen
  <2>5. \A f \in DOMAIN forms : forms[f].live /\ forms[f].kind = "question" => forms[f].what # q
    BY <1>0, <2>2, <2>4 DEF OnScreen
  <2>6. \A p \in Prompts : p # q /\ ui[p].open =>
          forms[ui[p].req].live \/ (Replied(ui[p].req) /\ ui[p].req # r)
    BY <1>0, <1>2, <2>4 DEF Asked
  <2>7. CASE Forget(q) /\ UNCHANGED forms
    <3>1. ~ui'[q].open /\ \A p \in Prompts : p # q => ui'[p] = ui[p]
      BY <1>0, <2>7, Closes DEF Forget
    <3>2. \A f \in DOMAIN forms' : OnScreen(f)'
      BY <1>0, <1>3, <2>3, <2>5, <2>7, <3>1 DEF OnScreen
    <3>3. \A p \in Prompts : Asked(p)'
      <4>1. ASSUME NEW p \in Prompts, ui'[p].open PROVE Asked(p)'
        <5>1. p # q /\ ui'[p] = ui[p]
          BY <3>1, <4>1
        <5>2. PICK g : g = ui[p].req
          OBVIOUS
        <5>3. forms[g].live \/ (Replied(g) /\ g # r)
          BY <2>6, <4>1, <5>1, <5>2
        <5>4. forms'[g].live \/ Replied(g)'
          BY <2>3, <2>7, <5>3
        <5>5. QED
          BY <5>1, <5>2, <5>4 DEF Asked, Replied
      <4>2. QED
        BY <4>1 DEF Asked, Replied
    <3>4. QED
      BY <3>2, <3>3 DEF Screen
  <2>8. ASSUME NEW n \in Nat, NEW c \in Seq(Nat), ShowPendingUi(q, n, c) PROVE Screen'
    <3>1. /\ DOMAIN forms' = DOMAIN forms \cup {NewForm} /\ NewForm \notin DOMAIN forms
          /\ \A f \in DOMAIN forms : forms'[f] = forms[f]
          /\ forms'[NewForm].what = q /\ forms'[NewForm].live
          /\ \A p \in Prompts : p # q => ui'[p] = ui[p]
          /\ ui'[q].open /\ ui'[q].req = NewForm
      BY <1>0, <2>8, Shows
    <3>2. \A f \in DOMAIN forms' : OnScreen(f)'
      BY <1>0, <1>1, <1>3, <2>3, <2>5, <3>1 DEF OnScreen
    <3>3. \A p \in Prompts : Asked(p)'
      <4>1. ASSUME NEW p \in Prompts, ui'[p].open PROVE Asked(p)'
        <5>1. CASE p = q
          BY <3>1, <5>1 DEF Asked, Replied
        <5>2. CASE p # q
          <6>1. ui'[p] = ui[p]
            BY <3>1, <5>2
          <6>2. PICK g : g = ui[p].req /\ g \in DOMAIN forms
            BY <1>2, <4>1, <6>1
          <6>3. forms[g].live \/ (Replied(g) /\ g # r)
            BY <2>6, <4>1, <5>2, <6>1, <6>2
          <6>4. forms'[g].live \/ Replied(g)'
            BY <2>3, <3>1, <6>2, <6>3
          <6>5. QED
            BY <6>1, <6>2, <6>4 DEF Asked, Replied
        <5>3. QED
          BY <5>1, <5>2
      <4>2. QED
        BY <4>1 DEF Asked, Replied
    <3>4. QED
      BY <3>2, <3>3 DEF Screen
  <2>9. /\ ui[q].confirmed \in Seq(Nat) /\ ui[q].index \in Nat /\ ConfirmedWith(q) \in Seq(Nat)
    BY <1>0, <2>1, WalkParts
  <2>10. ui[q].index + 1 \in Nat
    BY <2>9
  <2>11. QED
    BY <2>1, <2>7, <2>8, <2>9, <2>10 DEF GoesOn
<1>10. ASSUME NEW r \in DOMAIN forms, Fills(r) PROVE Screen'
  <2>1. \A g : Replied(g)' <=> Replied(g) \/ g = r
    BY <1>0, <1>10, Fill
  <2>2. UNCHANGED ui /\ forms' = [forms EXCEPT ![r].live = FALSE]
    BY <1>10 DEF Fills
  <2>3. /\ DOMAIN forms' = DOMAIN forms /\ ~forms'[r].live
        /\ \A f \in DOMAIN forms : f # r => forms'[f] = forms[f]
    BY <1>0, <2>2, Expires
  <2>4. \A f \in DOMAIN forms' : OnScreen(f)'
    BY <1>0, <2>1, <2>2, <2>3 DEF OnScreen
  <2>5. \A p \in Prompts : Asked(p)'
    <3>1. ASSUME NEW p \in Prompts, ui[p].open PROVE Asked(p)'
      <4>1. PICK g \in DOMAIN forms : g = ui[p].req /\ (forms[g].live \/ Replied(g))
        BY <1>0, <1>2, <3>1 DEF Asked
      <4>2. forms'[g].live \/ Replied(g)'
        BY <2>1, <2>3, <4>1
      <4>3. QED
        BY <2>2, <4>1, <4>2 DEF Asked, Replied
    <3>2. QED
      BY <2>2, <3>1 DEF Asked, Replied
  <2>6. QED
    BY <2>4, <2>5 DEF Screen
<1>11. CASE Discards
  <2>1. /\ replies # <<>> /\ replies' = Tail(replies) /\ UNCHANGED ui
        /\ \A p \in Prompts : ui[p].open => ui[p].req # Head(replies).req
        /\ UNCHANGED forms \/ Ask(Form("feedback", 0, 1))
    BY <1>11 DEF Discards
  <2>2. \A f : Replied(f) <=> Replied(f)' \/ f = Head(replies).req
    BY <1>0, <2>1, ReadsReply
  <2>3. /\ DOMAIN forms \subseteq DOMAIN forms' /\ \A f \in DOMAIN forms : forms'[f] = forms[f]
        /\ \A f \in DOMAIN forms' \ DOMAIN forms : forms'[f].kind # "question"
    <3>1. CASE UNCHANGED forms
      BY <3>1
    <3>2. CASE Ask(Form("feedback", 0, 1))
      <4>1. Form("feedback", 0, 1) \in Forms /\ Form("feedback", 0, 1).kind # "question"
        BY FormTyped
      <4>2. QED
        BY <1>0, <3>2, <4>1, Asks
    <3>3. QED
      BY <2>1, <3>1, <3>2
  <2>4. \A f \in DOMAIN forms' : OnScreen(f)'
    BY <1>0, <1>1, <2>1, <2>2, <2>3 DEF OnScreen
  <2>5. \A p \in Prompts : Asked(p)'
    <3>1. ASSUME NEW p \in Prompts, ui[p].open PROVE Asked(p)'
      <4>1. PICK g \in DOMAIN forms : g = ui[p].req /\ (forms[g].live \/ Replied(g))
        BY <1>0, <1>2, <3>1 DEF Asked
      <4>2. forms'[g].live \/ Replied(g)'
        BY <2>1, <2>2, <2>3, <3>1, <4>1
      <4>3. QED
        BY <2>1, <4>1, <4>2 DEF Asked, Replied
    <3>2. QED
      BY <2>1, <3>1 DEF Asked, Replied
  <2>6. QED
    BY <2>4, <2>5 DEF Screen
<1>12. CASE WithdrawsOffer
  <2>1. feedback # NoOffer /\ Withdraw(feedback.req) /\ UNCHANGED <<ui, replies>>
    BY <1>12 DEF WithdrawsOffer
  <2>2. PICK r \in DOMAIN forms : r = feedback.req /\ forms[r].kind = "feedback"
    BY <1>0, <2>1
  <2>3. /\ DOMAIN forms' = DOMAIN forms
        /\ \A f \in DOMAIN forms : f # r => forms'[f] = forms[f]
        /\ ~forms'[r].live
    <3>1. DOMAIN forms = 1 .. Len(forms) /\ Len(forms) \in Nat
      BY <1>0, Elements DEF FormsTable
    <3>2. r # 0
      BY <3>1
    <3>3. QED
      BY <1>0, <2>1, <2>2, <3>2, Withdraws
  <2>4. \A f \in DOMAIN forms' : OnScreen(f)'
    BY <1>0, <1>4, <2>1, <2>3 DEF OnScreen
  <2>5. \A p \in Prompts : Asked(p)'
    BY <1>0, <1>2, <2>1, <2>2, <2>3 DEF Asked, Replied
  <2>6. QED
    BY <2>4, <2>5 DEF Screen
<1>13. QED
  BY <1>5, <1>6, <1>7, <1>8, <1>9, <1>10, <1>11, <1>12, Kinds
-----------------------------------------------------------------------------
(* The commands of the editor and the forms that stand for them.             *)

Cmds == [kind : {"feedback", "login"}, answers : Nat]
CommandsOK == commands \in Seq(Cmds) /\ Len(commands) <= MaxCommands

LEMMA Commanded ==
    ASSUME CommandsOK, NEW kind \in {"feedback", "login"}, NEW a \in Nat,
           Len(commands) < MaxCommands,
           commands' = Append(commands, [kind |-> kind, answers |-> a])
    PROVE  /\ CommandsOK' /\ DOMAIN commands' = DOMAIN commands \cup {NewCommand}
           /\ NewCommand \notin DOMAIN commands /\ NewCommand \in Nat /\ NewCommand # 0
           /\ commands'[NewCommand].answers = a
           /\ \A c \in DOMAIN commands : commands'[c] = commands[c]
<1>1. commands \in Seq(Cmds) /\ [kind |-> kind, answers |-> a] \in Cmds
  BY DEF CommandsOK, Cmds
<1>2. /\ commands' \in Seq(Cmds) /\ Len(commands') = Len(commands) + 1
      /\ commands'[Len(commands) + 1] = [kind |-> kind, answers |-> a]
      /\ DOMAIN commands' = DOMAIN commands \cup {Len(commands) + 1}
      /\ Len(commands) + 1 \notin DOMAIN commands
      /\ \A c \in DOMAIN commands : commands'[c] = commands[c]
  BY <1>1, Appended
<1>3. Len(commands) \in Nat
  BY <1>1, Elements
<1>4. Len(commands') <= MaxCommands /\ Len(commands) + 1 \in Nat /\ Len(commands) + 1 # 0
  BY <1>2, <1>3
<1>5. QED
  BY <1>2, <1>4 DEF CommandsOK, NewCommand

LEMMA Answereds ==
    ASSUME CommandsOK, NEW c \in DOMAIN commands, Answered(c)
    PROVE  /\ CommandsOK' /\ DOMAIN commands' = DOMAIN commands
           /\ commands'[c].answers = commands[c].answers + 1
           /\ \A d \in DOMAIN commands : d # c => commands'[d] = commands[d]
<1>1. /\ commands \in Seq(Cmds) /\ DOMAIN commands = 1 .. Len(commands)
      /\ \A d \in DOMAIN commands : commands[d] \in Cmds
  BY Elements DEF CommandsOK
<1> DEFINE e == [commands[c] EXCEPT !.answers = @ + 1]
<1>2. e \in Cmds /\ e.answers = commands[c].answers + 1
  BY <1>1 DEF Cmds
<1>3. commands' = [commands EXCEPT ![c] = e]
  BY DEF Answered
<1> HIDE DEF e
<1>4. [commands EXCEPT ![c] = e] \in Seq(Cmds) /\ Len([commands EXCEPT ![c] = e]) = Len(commands)
  <2>1. commands \in Seq(Cmds) /\ e \in Cmds /\ c \in 1 .. Len(commands)
    BY <1>1, <1>2
  <2>2. QED
    BY <2>1, ExceptSeq
<1>5. commands'[c] = e /\ DOMAIN commands' = DOMAIN commands
      /\ \A d \in DOMAIN commands : d # c => commands'[d] = commands[d]
  BY <1>3
<1>6. QED
  BY <1>2, <1>3, <1>4, <1>5 DEF CommandsOK

\* What a step does with the commands.
Refuses(kind) ==
  /\ Len(commands) < MaxCommands
  /\ commands' = Append(commands, [kind |-> kind, answers |-> 1])
  /\ UNCHANGED <<feedback, login>>
OffersFeedback ==
  /\ feedback = NoOffer /\ Request("feedback") /\ Ask(Form("feedback", 0, 1))
  /\ feedback' = [NoOffer EXCEPT !.req = NewForm, !.command = NewCommand] /\ UNCHANGED login
OffersLogin ==
  /\ login = NoOffer /\ Request("login") /\ Ask(Form("login", 0, 1))
  /\ login' = [req |-> NewForm, command |-> NewCommand, flow |-> NewCommand] /\ UNCHANGED feedback
EndsFeedback ==
  /\ feedback # NoOffer /\ feedback' = NoOffer /\ Answered(feedback.command) /\ UNCHANGED login
EndsLogin ==
  /\ login # NoOffer /\ login' = NoOffer /\ Answered(login.command) /\ UNCHANGED feedback
OffersAgain ==
  /\ feedback # NoOffer /\ Ask(Form("feedback", 0, 1))
  /\ feedback' = [feedback EXCEPT !.req = NewForm] /\ UNCHANGED <<login, commands>>

LEMMA Commands ==
    ASSUME TypeOK, Next
    PROVE  \/ UNCHANGED <<feedback, login, commands>>
           \/ \E kind \in {"feedback", "login"} : Refuses(kind)
           \/ OffersFeedback \/ OffersLogin \/ EndsFeedback \/ EndsLogin \/ OffersAgain
<1> DEFINE Goal == \/ UNCHANGED <<feedback, login, commands>>
                   \/ \E kind \in {"feedback", "login"} : Refuses(kind)
                   \/ OffersFeedback \/ OffersLogin \/ EndsFeedback \/ EndsLogin \/ OffersAgain
<1> SUFFICES Goal
  OBVIOUS
<1> HIDE DEF Goal
<1>1. CASE Host
  <2>1. UNCHANGED <<feedback, login, commands>>
    BY <1>1 DEF Host, HostAsks, HostRepeats, HostSettles, HostEndsLogin, HostRestarts
  <2>2. QED
    BY <2>1 DEF Goal
<1>2. CASE (\E f \in FormIds, how \in Hows : EditorAnswers(f, how)) \/ BridgeUserInput
           \/ UserInputSettled \/ StaleReply \/ CompleteElicitation
  <2>1. UNCHANGED <<feedback, login, commands>>
    BY <1>2 DEF EditorAnswers, BridgeUserInput, UserInputSettled, StaleReply, CompleteElicitation
  <2>2. QED
    BY <2>1 DEF Goal
<1>3. CASE EditorSendsFeedback
  <2>1. OffersFeedback \/ Refuses("feedback")
    BY <1>3 DEF EditorSendsFeedback, StartFeedback, OffersFeedback, Refuses
  <2>2. QED
    BY <2>1 DEF Goal
<1>4. CASE StartDeviceLogin
  <2>1. OffersLogin \/ Refuses("login")
    BY <1>4 DEF StartDeviceLogin, OffersLogin, Refuses
  <2>2. QED
    BY <2>1 DEF Goal
<1>5. CASE SessionCancel
  <2>1. EndsFeedback \/ UNCHANGED <<feedback, login, commands>>
    BY <1>5 DEF SessionCancel, SettleFeedbackCancelled, EndsFeedback
  <2>2. QED
    BY <2>1 DEF Goal
<1>6. CASE FinishDeviceLogin
  <2>1. EndsLogin \/ UNCHANGED <<feedback, login, commands>>
    BY <1>6 DEF FinishDeviceLogin, EndsLogin
  <2>2. QED
    BY <2>1 DEF Goal
<1>7. FormsTable /\ RepliesOK
  BY DEF TypeOK
<1>8. replies # <<>> /\ replies' = Tail(replies) => Head(replies).req # NoOffer.req
  BY <1>7, ReadsReply DEF NoOffer, None
<1>9. CASE CompleteFeedback
  <2>1. replies # <<>> /\ replies' = Tail(replies)
    BY <1>9 DEF CompleteFeedback, Reply
  <2>2. CASE feedback.req # Head(replies).req
    BY <1>9, <2>2 DEF CompleteFeedback, Goal
  <2>3. CASE feedback.req = Head(replies).req
    <3>1. feedback # NoOffer
      BY <1>8, <2>1, <2>3
    <3>2. OffersAgain \/ EndsFeedback
      BY <1>9, <2>3, <3>1 DEF CompleteFeedback, SubmitFeedback, OffersAgain, EndsFeedback
    <3>3. QED
      BY <3>2 DEF Goal
  <2>4. QED
    BY <2>2, <2>3
<1>10. CASE CompleteDeviceLogin
  <2>1. replies # <<>> /\ replies' = Tail(replies) /\ UNCHANGED feedback
    BY <1>10 DEF CompleteDeviceLogin, Reply
  <2>2. CASE UNCHANGED <<login, commands>>
    BY <2>1, <2>2 DEF Goal
  <2>3. CASE login.req = Head(replies).req /\ login' = NoOffer /\ Answered(login.command)
    <3>1. login # NoOffer
      BY <1>8, <2>1, <2>3
    <3>2. QED
      BY <2>1, <2>3, <3>1 DEF Goal, EndsLogin
  <2>4. QED
    BY <1>10, <2>2, <2>3 DEF CompleteDeviceLogin
<1>11. QED
  BY <1>1, <1>2, <1>3, <1>4, <1>5, <1>6, <1>9, <1>10 DEF Next, Editor, Loop

LEMMA StepOffering ==
    ASSUME InvForms, Next
    PROVE  CommandsOK' /\ feedback' \in Offers /\ login' \in Offers /\ Offering'
<1>0. /\ TypeOK /\ FormsTable /\ CommandsOK /\ feedback \in Offers /\ login \in Offers
      /\ FormsStay /\ Offering /\ Offered(feedback) /\ Offered(login)
  BY StepForms DEF InvForms, TypeOK, Offering, CommandsOK, Cmds
<1>1. /\ feedback # NoOffer =>
           /\ feedback.req \in DOMAIN forms /\ forms[feedback.req].kind = "feedback"
           /\ feedback.command \in DOMAIN commands
      /\ login # NoOffer => login.req \in DOMAIN forms /\ login.command \in DOMAIN commands
      /\ feedback # NoOffer /\ login # NoOffer => feedback.command # login.command
  BY <1>0 DEF Offering, Offered
<1>2. \A c \in DOMAIN commands :
        commands[c].answers = IF c \in {feedback.command, login.command} THEN 0 ELSE 1
  BY <1>0 DEF Offering, EveryCommandAnsweredOnce
<1>3. 0 \notin DOMAIN commands /\ NoOffer.command = 0 /\ NoOffer \in Offers
  <2>1. DOMAIN commands = 1 .. Len(commands)
    BY <1>0, Elements DEF CommandsOK
  <2>2. QED
    BY <2>1 DEF NoOffer, None, Offers
<1>4. /\ feedback # NoOffer => feedback.req \in DOMAIN forms' /\ forms'[feedback.req].kind = "feedback"
      /\ login # NoOffer => login.req \in DOMAIN forms'
  BY <1>0, <1>1 DEF FormsStay
<1> DEFINE Goal == CommandsOK' /\ feedback' \in Offers /\ login' \in Offers /\ Offering'
<1> SUFFICES Goal
  OBVIOUS
<1> HIDE DEF Goal
<1>5. CASE UNCHANGED <<feedback, login, commands>>
  <2>1. Offered(feedback)' /\ Offered(login)'
    BY <1>1, <1>4, <1>5 DEF Offered
  <2>2. EveryCommandAnsweredOnce'
    BY <1>2, <1>5 DEF EveryCommandAnsweredOnce
  <2>3. QED
    BY <1>0, <1>1, <1>4, <1>5, <2>1, <2>2 DEF Goal, Offering, CommandsOK
<1>6. ASSUME NEW kind \in {"feedback", "login"}, Refuses(kind) PROVE Goal
  <2>1. /\ UNCHANGED <<feedback, login>> /\ Len(commands) < MaxCommands
        /\ commands' = Append(commands, [kind |-> kind, answers |-> 1])
    BY <1>6 DEF Refuses
  <2>2. 1 \in Nat
    OBVIOUS
  <2>3. /\ CommandsOK' /\ DOMAIN commands' = DOMAIN commands \cup {NewCommand}
        /\ NewCommand \notin DOMAIN commands /\ NewCommand # 0
        /\ commands'[NewCommand].answers = 1
        /\ \A c \in DOMAIN commands : commands'[c] = commands[c]
    BY <1>0, <2>1, <2>2, Commanded
  <2>4. Offered(feedback)' /\ Offered(login)'
    BY <1>1, <1>4, <2>1, <2>3 DEF Offered
  <2>5. NewCommand \notin {feedback.command, login.command}
    BY <1>1, <1>3, <2>3
  <2>6. EveryCommandAnsweredOnce'
    BY <1>2, <2>1, <2>3, <2>5 DEF EveryCommandAnsweredOnce
  <2>7. QED
    BY <1>0, <1>1, <1>4, <2>1, <2>3, <2>4, <2>6 DEF Goal, Offering
<1>7. ASSUME NEW kind \in {"feedback", "login"}, Request(kind), Ask(Form(kind, 0, 1))
      PROVE  /\ CommandsOK' /\ DOMAIN commands' = DOMAIN commands \cup {NewCommand}
             /\ NewCommand \notin DOMAIN commands /\ NewCommand \in Nat /\ NewCommand # 0
             /\ commands'[NewCommand].answers = 0
             /\ \A c \in DOMAIN commands : commands'[c] = commands[c]
             /\ NewForm \in Nat /\ NewForm # 0 /\ NewForm \in DOMAIN forms'
             /\ forms'[NewForm].kind = kind
  <2>1. /\ Len(commands) < MaxCommands
        /\ commands' = Append(commands, [kind |-> kind, answers |-> 0])
    BY <1>7 DEF Request
  <2>2. 0 \in Nat
    OBVIOUS
  <2>3. /\ CommandsOK' /\ DOMAIN commands' = DOMAIN commands \cup {NewCommand}
        /\ NewCommand \notin DOMAIN commands /\ NewCommand \in Nat /\ NewCommand # 0
        /\ commands'[NewCommand].answers = 0
        /\ \A c \in DOMAIN commands : commands'[c] = commands[c]
    BY <1>0, <2>1, <2>2, Commanded
  <2>4. Form(kind, 0, 1) \in Forms /\ Form(kind, 0, 1).kind = kind /\ Form(kind, 0, 1).kind # "question"
    BY FormTyped
  <2>5. /\ DOMAIN forms' = DOMAIN forms \cup {NewForm} /\ forms'[NewForm] = Form(kind, 0, 1)
        /\ NewForm \in Nat /\ NewForm # 0
    BY <1>0, <1>7, <2>4, Asks
  <2>6. QED
    BY <2>3, <2>4, <2>5
<1>8. CASE OffersFeedback
  <2>1. /\ feedback = NoOffer /\ Request("feedback") /\ Ask(Form("feedback", 0, 1)) /\ UNCHANGED login
        /\ feedback' = [NoOffer EXCEPT !.req = NewForm, !.command = NewCommand]
    BY <1>8 DEF OffersFeedback
  <2>2. /\ CommandsOK' /\ DOMAIN commands' = DOMAIN commands \cup {NewCommand}
        /\ NewCommand \notin DOMAIN commands /\ NewCommand \in Nat /\ NewCommand # 0
        /\ commands'[NewCommand].answers = 0
        /\ \A c \in DOMAIN commands : commands'[c] = commands[c]
        /\ NewForm \in Nat /\ NewForm # 0 /\ NewForm \in DOMAIN forms'
        /\ forms'[NewForm].kind = "feedback"
    BY <1>7, <2>1
  <2>3. feedback' \in Offers /\ feedback'.req = NewForm /\ feedback'.command = NewCommand
    BY <2>1, <2>2 DEF NoOffer, Offers, None
  <2>4. Offered(feedback)' /\ Offered(login)'
    BY <1>1, <1>4, <2>1, <2>2, <2>3 DEF Offered
  <2>5. EveryCommandAnsweredOnce'
    BY <1>1, <1>2, <1>3, <2>1, <2>2, <2>3 DEF EveryCommandAnsweredOnce
  <2>6. /\ forms'[feedback'.req].kind = "feedback"
        /\ login' # NoOffer => feedback'.command # login'.command
    BY <1>1, <2>1, <2>2, <2>3
  <2>7. QED
    BY <1>0, <2>1, <2>2, <2>3, <2>4, <2>5, <2>6 DEF Goal, Offering
<1>9. CASE OffersLogin
  <2>1. /\ login = NoOffer /\ Request("login") /\ Ask(Form("login", 0, 1)) /\ UNCHANGED feedback
        /\ login' = [req |-> NewForm, command |-> NewCommand, flow |-> NewCommand]
    BY <1>9 DEF OffersLogin
  <2>2. /\ CommandsOK' /\ DOMAIN commands' = DOMAIN commands \cup {NewCommand}
        /\ NewCommand \notin DOMAIN commands /\ NewCommand \in Nat /\ NewCommand # 0
        /\ commands'[NewCommand].answers = 0
        /\ \A c \in DOMAIN commands : commands'[c] = commands[c]
        /\ NewForm \in Nat /\ NewForm # 0 /\ NewForm \in DOMAIN forms'
    BY <1>7, <2>1
  <2>3. login' \in Offers /\ login'.req = NewForm /\ login'.command = NewCommand
    BY <2>1, <2>2 DEF Offers
  <2>4. Offered(feedback)' /\ Offered(login)'
    BY <1>1, <1>4, <2>1, <2>2, <2>3 DEF Offered
  <2>5. EveryCommandAnsweredOnce'
    BY <1>1, <1>2, <1>3, <2>1, <2>2, <2>3 DEF EveryCommandAnsweredOnce
  <2>6. /\ feedback' # NoOffer => forms'[feedback'.req].kind = "feedback"
        /\ feedback' # NoOffer => feedback'.command # login'.command
    BY <1>1, <1>4, <2>1, <2>2, <2>3
  <2>7. QED
    BY <1>0, <2>1, <2>2, <2>3, <2>4, <2>5, <2>6 DEF Goal, Offering
<1>10. CASE EndsFeedback
  <2>1. feedback # NoOffer /\ feedback' = NoOffer /\ Answered(feedback.command) /\ UNCHANGED login
    BY <1>10 DEF EndsFeedback
  <2>2. PICK d \in DOMAIN commands : d = feedback.command
    BY <1>1, <2>1
  <2>3. /\ CommandsOK' /\ DOMAIN commands' = DOMAIN commands
        /\ commands'[d].answers = commands[d].answers + 1
        /\ \A c \in DOMAIN commands : c # d => commands'[c] = commands[c]
    BY <1>0, <2>1, <2>2, Answereds
  <2>4. Offered(feedback)' /\ Offered(login)'
    BY <1>1, <1>4, <2>1, <2>3 DEF Offered
  <2>5. d # login.command
    BY <1>1, <1>3, <2>1, <2>2
  <2>6. EveryCommandAnsweredOnce'
    BY <1>2, <1>3, <2>1, <2>2, <2>3, <2>5 DEF EveryCommandAnsweredOnce
  <2>7. QED
    BY <1>0, <1>3, <2>1, <2>3, <2>4, <2>6 DEF Goal, Offering
<1>11. CASE EndsLogin
  <2>1. login # NoOffer /\ login' = NoOffer /\ Answered(login.command) /\ UNCHANGED feedback
    BY <1>11 DEF EndsLogin
  <2>2. PICK d \in DOMAIN commands : d = login.command
    BY <1>1, <2>1
  <2>3. /\ CommandsOK' /\ DOMAIN commands' = DOMAIN commands
        /\ commands'[d].answers = commands[d].answers + 1
        /\ \A c \in DOMAIN commands : c # d => commands'[c] = commands[c]
    BY <1>0, <2>1, <2>2, Answereds
  <2>4. Offered(feedback)' /\ Offered(login)'
    BY <1>1, <1>4, <2>1, <2>3 DEF Offered
  <2>5. d # feedback.command
    BY <1>1, <1>3, <2>1, <2>2
  <2>6. EveryCommandAnsweredOnce'
    BY <1>2, <1>3, <2>1, <2>2, <2>3, <2>5 DEF EveryCommandAnsweredOnce
  <2>7. QED
    BY <1>0, <1>3, <1>4, <2>1, <2>3, <2>4, <2>6 DEF Goal, Offering
<1>12. CASE OffersAgain
  <2>1. /\ feedback # NoOffer /\ Ask(Form("feedback", 0, 1)) /\ UNCHANGED <<login, commands>>
        /\ feedback' = [feedback EXCEPT !.req = NewForm]
    BY <1>12 DEF OffersAgain
  <2>2. Form("feedback", 0, 1) \in Forms /\ Form("feedback", 0, 1).kind = "feedback"
        /\ Form("feedback", 0, 1).kind # "question"
    BY FormTyped
  <2>3. /\ DOMAIN forms' = DOMAIN forms \cup {NewForm} /\ forms'[NewForm] = Form("feedback", 0, 1)
        /\ NewForm \in Nat /\ NewForm # 0
    BY <1>0, <2>1, <2>2, Asks
  <2>4. feedback' \in Offers /\ feedback'.req = NewForm /\ feedback'.command = feedback.command
    BY <1>0, <2>1, <2>3 DEF Offers
  <2>5. Offered(feedback)' /\ Offered(login)'
    BY <1>1, <1>4, <2>1, <2>3, <2>4 DEF Offered
  <2>6. EveryCommandAnsweredOnce'
    BY <1>2, <2>1, <2>4 DEF EveryCommandAnsweredOnce
  <2>7. forms'[feedback'.req].kind = "feedback"
    BY <2>2, <2>3, <2>4
  <2>8. QED
    BY <1>0, <1>1, <2>1, <2>4, <2>5, <2>6, <2>7 DEF Goal, Offering, CommandsOK
<1>13. QED
  BY <1>0, <1>5, <1>6, <1>8, <1>9, <1>10, <1>11, <1>12, Commands
-----------------------------------------------------------------------------
(* What the host says and what the loop has made of it.                      *)

LEMMA Told ==
    ASSUME NEW e \in Notices
    PROVE  e = Event(e.kind, e.what)
BY DEF Notices, Event

LEMMA Distinct ==
    ASSUME NEW p, NEW q, NEW kind, NEW other
    PROVE  Event(kind, p) = Event(other, q) => kind = other /\ p = q
BY DEF Event

LEMMA HeardStays ==
    ASSUME NEW p \in Prompts, HeardOf(p), hostQ'[p] = hostQ[p], ui'[p] = ui[p],
           p \in seen' <=> p \in seen,
           unsettled \subseteq unsettled', missed \subseteq missed',
           Waits(Event("requested", p))' <=> Waits(Event("requested", p)),
           Waits(Event("settled", p))' <=> Waits(Event("settled", p))
    PROVE  HeardOf(p)'
BY DEF HeardOf

\* Only the end of a login flow is put on the wire, or read from it.
LEMMA HeardLogin ==
    ASSUME HostOK, Heard, UNCHANGED <<hostQ, ui, seen, unsettled, missed>>,
           \/ UNCHANGED wire
           \/ \E n \in Nat : wire' = Append(wire, Event("loginCompleted", n))
           \/ wire # <<>> /\ Head(wire).kind = "loginCompleted" /\ wire' = Tail(wire)
    PROVE  Heard'
<1>1. \A p \in Prompts, kind \in {"requested", "settled"} :
        Waits(Event(kind, p))' <=> Waits(Event(kind, p))
  <2>1. CASE UNCHANGED wire
    BY <2>1 DEF Waits
  <2>2. ASSUME NEW n \in Nat, wire' = Append(wire, Event("loginCompleted", n))
        PROVE  \A p \in Prompts, kind \in {"requested", "settled"} :
                 Waits(Event(kind, p))' <=> Waits(Event(kind, p))
    <3>1. Event("loginCompleted", n) \in Notices /\ Event("loginCompleted", n).kind = "loginCompleted"
      BY DEF Event, Notices
    <3>2. \A d : Waits(d)' <=> Waits(d) \/ d = Event("loginCompleted", n)
      BY <2>2, <3>1, Emits
    <3>3. QED
      BY <3>2, Distinct
  <2>3. CASE wire # <<>> /\ Head(wire).kind = "loginCompleted" /\ wire' = Tail(wire)
    <3>1. \A d : Waits(d) <=> Waits(d)' \/ d = Head(wire)
      BY <2>3, Reads
    <3>2. \A p \in Prompts, kind \in {"requested", "settled"} : Event(kind, p) # Head(wire)
      BY <2>3 DEF Event
    <3>3. QED
      BY <3>1, <3>2
  <2>4. QED
    BY <2>1, <2>2, <2>3
<1>2. ASSUME NEW p \in Prompts PROVE HeardOf(p)'
  BY <1>1, HeardStays DEF Heard
<1>3. QED
  BY <1>2 DEF Heard

LEMMA StepHeardHost ==
    ASSUME TypeOK, Heard, Host
    PROVE  Heard'
<1>0. /\ HostOK /\ hostQ \in [Prompts -> {"none", "open", "settled"}] /\ missed \subseteq Prompts
      /\ \A p \in Prompts : HeardOf(p)
  BY DEF TypeOK, HostOK, Heard
<1>1. ASSUME NEW q \in Prompts, HostAsks(q) PROVE Heard'
  <2>1. /\ hostQ[q] = "none" /\ hostQ' = [hostQ EXCEPT ![q] = "open"]
        /\ wire' = Append(wire, Event("requested", q))
        /\ UNCHANGED <<ui, seen, unsettled, missed>>
    BY <1>1 DEF HostAsks
  <2>2. \A d : Waits(d)' <=> Waits(d) \/ d = Event("requested", q)
    BY <1>0, <2>1, Notified, Emits
  <2>3. \A p \in Prompts : Event("settled", p) # Event("requested", q)
    BY Notified
  <2>4. HeardOf(q)'
    BY <1>0, <2>1, <2>2, <2>3 DEF HeardOf
  <2>5. ASSUME NEW p \in Prompts, p # q PROVE HeardOf(p)'
    <3>1. Event("requested", p) # Event("requested", q)
      BY <2>5, Distinct
    <3>2. hostQ'[p] = hostQ[p]
      BY <1>0, <2>1, <2>5
    <3>3. QED
      BY <1>0, <2>1, <2>2, <2>3, <3>1, <3>2, HeardStays
  <2>6. QED
    BY <2>4, <2>5 DEF Heard
<1>2. ASSUME NEW q \in Prompts, HostRepeats(q) PROVE Heard'
  <2>1. /\ hostQ[q] = "open" /\ UNCHANGED <<hostQ, ui, seen, unsettled, missed>>
        /\ wire' = Append(wire, Event("requested", q))
    BY <1>2 DEF HostRepeats, hostVars
  <2>2. \A d : Waits(d)' <=> Waits(d) \/ d = Event("requested", q)
    BY <1>0, <2>1, Notified, Emits
  <2>3. \A p \in Prompts : Event("settled", p) # Event("requested", q)
    BY Notified
  <2>4. HeardOf(q)'
    BY <1>0, <2>1, <2>2, <2>3 DEF HeardOf
  <2>5. ASSUME NEW p \in Prompts, p # q PROVE HeardOf(p)'
    <3>1. Event("requested", p) # Event("requested", q)
      BY <2>5, Distinct
    <3>2. QED
      BY <1>0, <2>1, <2>2, <2>3, <3>1, HeardStays
  <2>6. QED
    BY <2>4, <2>5 DEF Heard
<1>3. ASSUME NEW q \in Prompts, HostSettles(q) PROVE Heard'
  <2>1. /\ hostQ[q] = "open" /\ hostQ' = [hostQ EXCEPT ![q] = "settled"]
        /\ wire' = Append(wire, Event("settled", q))
        /\ UNCHANGED <<ui, seen, unsettled, missed>>
    BY <1>3 DEF HostSettles
  <2>2. \A d : Waits(d)' <=> Waits(d) \/ d = Event("settled", q)
    BY <1>0, <2>1, Notified, Emits
  <2>3. hostQ'[q] = "settled" /\ \A p \in Prompts : p # q => hostQ'[p] = hostQ[p]
    BY <1>0, <2>1
  <2>4. HeardOf(q)'
    BY <2>2, <2>3 DEF HeardOf
  <2>5. ASSUME NEW p \in Prompts, p # q PROVE HeardOf(p)'
    <3>1. Event("settled", p) # Event("settled", q) /\ Event("requested", p) # Event("settled", q)
      BY <2>5, Distinct
    <3>2. QED
      BY <1>0, <2>1, <2>2, <2>3, <2>5, <3>1, HeardStays
  <2>6. QED
    BY <2>4, <2>5 DEF Heard
<1>4. CASE HostEndsLogin
  <2>1. flow \in Nat /\ wire' = Append(wire, Event("loginCompleted", flow))
        /\ UNCHANGED <<hostQ, ui, seen, unsettled, missed>>
    BY <1>0, <1>4 DEF HostEndsLogin, HostOK
  <2>2. QED
    BY <1>0, <2>1, HeardLogin
<1>5. CASE HostRestarts
  <2>1. UNCHANGED <<hostQ, ui, seen, unsettled>>
    BY <1>5 DEF HostRestarts
  <2>2. /\ missed \subseteq missed'
        /\ \A p \in Prompts :
             /\ Waits(Event("requested", p))' <=> hostQ[p] = "open"
             /\ Waits(Event("settled", p))' => Waits(Event("settled", p))
             /\ Waits(Event("settled", p)) => Waits(Event("settled", p))' \/ p \in missed'
    BY <1>0, <1>5, Restarts
  <2>3. ASSUME NEW p \in Prompts PROVE HeardOf(p)'
    BY <1>0, <2>1, <2>2 DEF HeardOf
  <2>4. QED
    BY <2>3 DEF Heard
<1>6. QED
  BY <1>1, <1>2, <1>3, <1>4, <1>5 DEF Host

LEMMA StepHeardLoop ==
    ASSUME TypeOK, Heard, BridgeUserInput \/ UserInputSettled
    PROVE  Heard'
<1>0. /\ HostOK /\ FormsTable /\ ui \in [Prompts -> Walks]
      /\ \A p \in Prompts : HeardOf(p)
  BY DEF TypeOK, Heard
<1>1. wire # <<>> /\ wire' = Tail(wire) /\ Head(wire).kind \in {"requested", "settled"}
      /\ UNCHANGED <<hostQ, unsettled, missed>>
  BY DEF BridgeUserInput, UserInputSettled, Take, hostVars
<1>2. PICK q : q = Head(wire).what
  OBVIOUS
<1>3. /\ q \in Prompts /\ Head(wire) = Event(Head(wire).kind, q) /\ Waits(Head(wire))
      /\ \A d : Waits(d) <=> Waits(d)' \/ d = Head(wire)
  BY <1>0, <1>1, <1>2, Reads, Told
<1>4. CASE BridgeUserInput
  <2>1. Head(wire) = Event("requested", q)
    BY <1>3, <1>4 DEF BridgeUserInput, Take
  <2>2. \A p \in Prompts : Waits(Event("settled", p))' <=> Waits(Event("settled", p))
    BY <1>3, <2>1, Distinct
  <2>3. \A p \in Prompts : p # q =>
          (Waits(Event("requested", p))' <=> Waits(Event("requested", p)))
    BY <1>3, <2>1, Distinct
  <2>4. Waits(Event("requested", q)) /\ hostQ[q] # "none"
    BY <1>0, <1>3, <2>1 DEF HeardOf
  <2>0. HeardOf(q) /\ (Waits(Event("settled", q))' <=> Waits(Event("settled", q)))
    BY <1>0, <1>3, <2>2
  <2>5. CASE ui[q].open \/ q \in seen
    <3>1. UNCHANGED <<ui, seen>>
      BY <1>2, <1>4, <2>5 DEF BridgeUserInput
    <3>2. HeardOf(q)'
      BY <1>1, <2>0, <2>4, <2>5, <3>1 DEF HeardOf
    <3>3. ASSUME NEW p \in Prompts, p # q PROVE HeardOf(p)'
      BY <1>0, <1>1, <2>2, <2>3, <3>1, <3>3, HeardStays
    <3>4. QED
      BY <3>2, <3>3 DEF Heard
  <2>6. CASE ~(ui[q].open \/ q \in seen)
    <3>1. seen' = seen \cup {q} /\ ShowPendingUi(q, 1, <<>>)
      BY <1>2, <1>4, <2>6 DEF BridgeUserInput
    <3>2. 1 \in Nat /\ <<>> \in Seq(Nat)
      OBVIOUS
    <3>3. ui'[q].open /\ \A p \in Prompts : p # q => ui'[p] = ui[p]
      BY <1>0, <1>3, <3>1, <3>2, Shows
    <3>4. HeardOf(q)'
      BY <1>1, <2>0, <2>4, <2>6, <3>1, <3>3 DEF HeardOf
    <3>5. ASSUME NEW p \in Prompts, p # q PROVE HeardOf(p)'
      BY <1>0, <1>1, <2>2, <2>3, <3>1, <3>3, <3>5, HeardStays
    <3>6. QED
      BY <3>4, <3>5 DEF Heard
  <2>7. QED
    BY <2>5, <2>6
<1>5. CASE UserInputSettled
  <2>1. Head(wire) = Event("settled", q)
    BY <1>3, <1>5 DEF UserInputSettled, Take
  <2>2. \A p \in Prompts : Waits(Event("requested", p))' <=> Waits(Event("requested", p))
    BY <1>3, <2>1, Distinct
  <2>3. \A p \in Prompts : p # q => (Waits(Event("settled", p))' <=> Waits(Event("settled", p)))
    BY <1>3, <2>1, Distinct
  <2>4. hostQ[q] = "settled"
    BY <1>0, <1>3, <2>1 DEF HeardOf
  <2>5. seen' = seen \cup {q}
        /\ (ui' = [ui EXCEPT ![q] = Closed] \/ (~ui[q].open /\ UNCHANGED ui))
    BY <1>2, <1>5 DEF UserInputSettled
  <2>6. ~ui'[q].open /\ \A p \in Prompts : p # q => ui'[p] = ui[p]
    BY <1>0, <1>3, <2>5, Closes
  <2>7. HeardOf(q)'
    BY <1>1, <2>4, <2>5, <2>6 DEF HeardOf
  <2>8. ASSUME NEW p \in Prompts, p # q PROVE HeardOf(p)'
    BY <1>0, <1>1, <2>2, <2>3, <2>5, <2>6, <2>8, HeardStays
  <2>9. QED
    BY <2>7, <2>8 DEF Heard
<1>6. QED
  BY <1>4, <1>5

LEMMA StepHeardAnswer ==
    ASSUME TypeOK, Heard, CompleteElicitation \/ SessionCancel
    PROVE  Heard'
<1>0. /\ HostOK /\ FormsTable /\ ui \in [Prompts -> Walks]
      /\ \A p \in Prompts : HeardOf(p)
  BY DEF TypeOK, Heard
<1>1. ASSUME NEW q \in Prompts, ui[q].open, UNCHANGED <<flow, seen, missed>>, Gives(q),
             unsettled \subseteq unsettled',
             \A p \in Prompts : p # q => ui'[p] = ui[p],
             ui'[q].open \/ hostQ'[q] # "open" \/ q \in unsettled',
             hostQ'[q] = "settled" => hostQ[q] = "open" \/ UNCHANGED <<hostQ, wire>>
      PROVE  Heard'
  <2>1. \/ UNCHANGED <<hostQ, wire>>
        \/ /\ hostQ[q] = "open" /\ hostQ'[q] = "settled"
           /\ \A p \in Prompts : p # q => hostQ'[p] = hostQ[p]
           /\ \A d : Waits(d)' <=> Waits(d) \/ d = Event("settled", q)
    BY <1>1, Given
  <2>2. \A p \in Prompts : /\ Waits(Event("requested", p))' <=> Waits(Event("requested", p))
                           /\ p # q => (Waits(Event("settled", p))' <=> Waits(Event("settled", p)))
                           /\ p # q => hostQ'[p] = hostQ[p]
    <3>1. CASE UNCHANGED <<hostQ, wire>>
      BY <3>1 DEF Waits
    <3>2. CASE /\ \A p \in Prompts : p # q => hostQ'[p] = hostQ[p]
               /\ \A d : Waits(d)' <=> Waits(d) \/ d = Event("settled", q)
      BY <3>2, Distinct
    <3>3. QED
      BY <2>1, <3>1, <3>2
  <2>3. HeardOf(q)'
    <3>1. CASE UNCHANGED <<hostQ, wire>>
      <4>1. \A d : Waits(d)' <=> Waits(d)
        BY <3>1 DEF Waits
      <4>2. QED
        BY <1>0, <1>1, <3>1, <4>1 DEF HeardOf
    <3>2. CASE hostQ'[q] = "settled" /\ \A d : Waits(d)' <=> Waits(d) \/ d = Event("settled", q)
      BY <3>2 DEF HeardOf
    <3>3. QED
      BY <2>1, <3>1, <3>2
  <2>4. ASSUME NEW p \in Prompts, p # q PROVE HeardOf(p)'
    BY <1>0, <1>1, <2>2, <2>4, HeardStays
  <2>5. QED
    BY <2>3, <2>4 DEF Heard
<1>2. CASE CompleteElicitation
  <2>1. PICK q \in Prompts : Answer(q)
    BY <1>2, Completes
  <2>2. replies # <<>> /\ UNCHANGED <<flow, seen, missed>>
    BY <1>2 DEF CompleteElicitation, Reply
  <2>3. ui[q].open /\ Gives(q) /\ GoesOn(q) /\ unsettled \subseteq unsettled'
    BY <2>1 DEF Answer
  <2>4. /\ ui[q].confirmed \in Seq(Nat) /\ ui[q].index \in Nat /\ ConfirmedWith(q) \in Seq(Nat)
    BY <2>2, WalkParts
  <2>5. ui[q].index + 1 \in Nat
    BY <2>4
  <2>6. /\ \A p \in Prompts : p # q => ui'[p] = ui[p]
        /\ ui'[q].open \/ hostQ'[q] # "open" \/ q \in unsettled'
    <3>1. CASE Forget(q) /\ (hostQ'[q] # "open" \/ q \in unsettled')
      BY <1>0, <3>1, Closes DEF Forget
    <3>2. CASE ShowPendingUi(q, ui[q].index, ui[q].confirmed)
      BY <1>0, <2>4, <3>2, Shows
    <3>3. CASE ShowPendingUi(q, ui[q].index + 1, ConfirmedWith(q))
      BY <1>0, <2>4, <2>5, <3>3, Shows
    <3>4. QED
      BY <2>3, <3>1, <3>2, <3>3 DEF GoesOn
  <2>7. QED
    BY <1>1, <2>2, <2>3, <2>6, Given
<1>3. CASE SessionCancel
  <2>1. UNCHANGED <<flow, ui, seen, unsettled, missed>>
    BY <1>3 DEF SessionCancel
  <2>2. CASE Refused
    <3>1. UNCHANGED <<hostQ, wire>>
      BY <2>2 DEF Refused
    <3>2. QED
      BY <1>0, <2>1, <3>1, HeardLogin
  <2>3. CASE ~Refused
    <3>1. PICK q \in Prompts, ok \in BOOLEAN : ui[q].open /\ Command(q, ui[q].confirmed, ok)
      BY <1>3, <2>3 DEF SessionCancel
    <3>2. Admitted(q, ui[q].confirmed) /\ ui[q].confirmed \in Seq(Nat)
      BY <1>0, <2>3, <3>1 DEF Command, Walks
    <3>3. Gives(q)
      BY <3>2 DEF Gives, MayGive
    <3>4. QED
      BY <1>1, <2>1, <3>1, <3>3, Given
  <2>4. QED
    BY <2>2, <2>3
<1>4. QED
  BY <1>2, <1>3

LEMMA StepHeard ==
    ASSUME TypeOK, Heard, Next
    PROVE  Heard'
<1>0. HostOK /\ flow \in Nat
  BY DEF TypeOK, HostOK
<1>1. CASE (\E f \in FormIds, how \in Hows : EditorAnswers(f, how)) \/ EditorSendsFeedback
           \/ StartDeviceLogin \/ StaleReply \/ CompleteFeedback
  <2>1. UNCHANGED <<hostQ, wire, ui, seen, unsettled, missed>>
    BY <1>1 DEF EditorAnswers, EditorSendsFeedback, StartDeviceLogin, StaleReply,
       CompleteFeedback, hostVars
  <2>2. QED
    BY <1>0, <2>1, HeardLogin
<1>2. CASE FinishDeviceLogin
  <2>1. wire # <<>> /\ Head(wire).kind = "loginCompleted" /\ wire' = Tail(wire)
        /\ UNCHANGED <<hostQ, ui, seen, unsettled, missed>>
    BY <1>2 DEF FinishDeviceLogin, Take, hostVars
  <2>2. QED
    BY <1>0, <2>1, HeardLogin
<1>3. CASE CompleteDeviceLogin
  <2>1. UNCHANGED <<hostQ, ui, seen, unsettled, missed>>
        /\ (UNCHANGED wire \/ wire' = Append(wire, Event("loginCompleted", flow)))
    BY <1>3 DEF CompleteDeviceLogin
  <2>2. QED
    BY <1>0, <2>1, HeardLogin
<1>4. QED
  BY <1>1, <1>2, <1>3, StepHeardHost, StepHeardLoop, StepHeardAnswer DEF Next, Editor, Loop
-----------------------------------------------------------------------------
(* The invariant.                                                            *)

LEMMA StepRest ==
    ASSUME TypeOK, Next
    PROVE  /\ seen' \subseteq Prompts /\ state' \in {"running", "requires_action", Idle}
           /\ unsettled' \subseteq Prompts /\ missed' \subseteq Prompts
           /\ crashes' \in 0 .. MaxCrashes
<1>0. /\ HostOK /\ seen \subseteq Prompts /\ state \in {"running", "requires_action", Idle}
      /\ unsettled \subseteq Prompts /\ missed \subseteq Prompts /\ crashes \in 0 .. MaxCrashes
  BY DEF TypeOK
<1>1. CASE (\E p \in Prompts : HostAsks(p) \/ HostRepeats(p) \/ HostSettles(p)) \/ HostEndsLogin
  <2>1. UNCHANGED <<seen, state, unsettled, missed, crashes>>
    BY <1>1 DEF HostAsks, HostRepeats, HostSettles, HostEndsLogin
  <2>2. QED
    BY <1>0, <2>1
<1>2. CASE HostRestarts
  <2>1. crashes < MaxCrashes /\ crashes' = crashes + 1 /\ UNCHANGED <<seen, state, unsettled>>
    BY <1>2 DEF HostRestarts
  <2>2. missed' \subseteq Prompts
    BY <1>0, <1>2, Restarts
  <2>3. crashes' \in 0 .. MaxCrashes
    BY <1>0, <2>1
  <2>4. QED
    BY <1>0, <2>1, <2>2, <2>3
<1>3. CASE (\E f \in FormIds, how \in Hows : EditorAnswers(f, how)) \/ StartDeviceLogin
           \/ FinishDeviceLogin \/ StaleReply \/ CompleteDeviceLogin
  <2>1. UNCHANGED <<seen, state, unsettled, missed, crashes>>
    BY <1>3 DEF EditorAnswers, StartDeviceLogin, FinishDeviceLogin, StaleReply, CompleteDeviceLogin
  <2>2. QED
    BY <1>0, <2>1
<1>4. CASE BridgeUserInput \/ UserInputSettled
  <2>1. /\ wire # <<>> /\ wire' = Tail(wire) /\ Head(wire).kind # "loginCompleted"
        /\ seen' \subseteq seen \cup {Head(wire).what}
        /\ state' \in {state, "running", "requires_action"}
        /\ UNCHANGED <<unsettled, missed, crashes>>
    BY <1>4 DEF BridgeUserInput, UserInputSettled, Take
  <2>2. Head(wire).what \in Prompts
    BY <1>0, <2>1, Reads
  <2>3. QED
    BY <1>0, <2>1, <2>2
<1>5. CASE CompleteElicitation
  <2>1. UNCHANGED <<seen, missed, crashes>>
    BY <1>5 DEF CompleteElicitation
  <2>2. state' \in {state, "running"} /\ unsettled' \subseteq Prompts
    BY <1>5, Completes DEF Answer
  <2>3. QED
    BY <1>0, <2>1, <2>2
<1>6. CASE EditorSendsFeedback \/ CompleteFeedback \/ SessionCancel
  <2>1. /\ UNCHANGED <<seen, unsettled, missed, crashes>>
        /\ state' \in {state, "running", "requires_action", Idle}
    BY <1>6 DEF EditorSendsFeedback, StartFeedback, CompleteFeedback, SubmitFeedback,
       SessionCancel, SettleFeedbackCancelled
  <2>2. QED
    BY <1>0, <2>1
<1>7. QED
  BY <1>1, <1>2, <1>3, <1>4, <1>5, <1>6 DEF Next, Host, Editor, Loop

LEMMA InitIInv == Init => IInv
<1> SUFFICES ASSUME Init PROVE IInv
  OBVIOUS
<1>1. /\ hostQ = [p \in Prompts |-> "none"] /\ hostGot = [p \in Prompts |-> <<>>] /\ flow = 0
      /\ wire = <<>> /\ replies = <<>> /\ ui = [p \in Prompts |-> Closed] /\ seen = {}
      /\ state = "running" /\ feedback = NoOffer /\ login = NoOffer /\ forms = <<>>
      /\ commands = <<>> /\ unsettled = {} /\ missed = {} /\ crashes = 0
  BY DEF Init
<1>2. \A i : i \notin DOMAIN wire /\ i \notin DOMAIN replies /\ i \notin DOMAIN forms
             /\ i \notin DOMAIN commands
  BY <1>1
<1>3. HostOK
  BY <1>1, <1>2 DEF HostOK
<1>4. FormsTable
  BY <1>1, <1>2 DEF FormsTable
<1>5. RepliesOK
  BY <1>1, <1>2 DEF RepliesOK
<1>6. ui \in [Prompts -> Walks] /\ \A p \in Prompts : ~ui[p].open
  BY <1>1 DEF Closed, Walks, None
<1>7. NoOffer \in Offers
  BY DEF NoOffer, Offers, None
<1>8. crashes \in 0 .. MaxCrashes /\ Len(commands) <= MaxCommands
  BY <1>1
<1>9. commands \in Seq([kind : {"feedback", "login"}, answers : Nat])
  BY <1>1
<1>10. TypeOK
  BY <1>1, <1>3, <1>4, <1>5, <1>6, <1>7, <1>8, <1>9 DEF TypeOK
<1>11. Answering
  <2>1. ASSUME NEW p \in Prompts
        PROVE  OnWalk(p) /\ Len(hostGot[p]) <= Questions[p] /\ Walked(p, hostGot[p])
    <3>1. OnWalk(p)
      BY <1>6 DEF OnWalk
    <3>2. hostGot[p] = <<>> /\ Questions[p] \in Nat
      BY <1>1
    <3>3. QED
      BY <3>1, <3>2 DEF Walked
  <2>2. QED
    BY <2>1 DEF Answering
<1>12. Screen
  BY <1>2, <1>6 DEF Screen, Asked
<1>13. Heard
  <2>1. ASSUME NEW p \in Prompts PROVE HeardOf(p)
    BY <1>1, <1>2, <1>6 DEF HeardOf, Waits
  <2>2. QED
    BY <2>1 DEF Heard
<1>14. Offering
  BY <1>1, <1>2 DEF Offering, Offered, EveryCommandAnsweredOnce
<1>15. QED
  BY <1>10, <1>11, <1>12, <1>13, <1>14 DEF IInv

LEMMA StepIInv ==
    ASSUME IInv, Next
    PROVE  IInv'
<1>1. TypeOK /\ Answering /\ Screen /\ Heard /\ Offering /\ InvForms
  BY DEF IInv, InvForms
<1>2. HostOK' /\ FormsTable' /\ RepliesOK' /\ ui' \in [Prompts -> Walks]
  BY <1>1, StepHost, StepForms
<1>3. CommandsOK' /\ feedback' \in Offers /\ login' \in Offers /\ Offering'
  BY <1>1, StepOffering
<1>4. TypeOK'
  BY <1>1, <1>2, <1>3, StepRest DEF TypeOK, CommandsOK, Cmds
<1>5. Answering' /\ Screen' /\ Heard'
  BY <1>1, StepAnswering, StepScreen, StepHeard
<1>6. QED
  BY <1>3, <1>4, <1>5 DEF IInv

LEMMA StutterIInv ==
    ASSUME IInv, UNCHANGED vars
    PROVE  IInv'
<1>1. UNCHANGED <<hostQ, hostGot, flow, wire, ui, seen, state, feedback, login, forms,
                  replies, commands, unsettled, missed, crashes>>
  BY DEF vars
<1>2. TypeOK'
  BY <1>1 DEF IInv, TypeOK, HostOK, FormsTable, RepliesOK
<1>3. Answering'
  BY <1>1 DEF IInv, Answering, OnWalk, Walked
<1>4. Screen'
  BY <1>1 DEF IInv, Screen, OnScreen, Asked, Replied
<1>5. Heard'
  BY <1>1 DEF IInv, Heard, HeardOf, Waits
<1>6. Offering'
  BY <1>1 DEF IInv, Offering, Offered, EveryCommandAnsweredOnce
<1>7. QED
  BY <1>2, <1>3, <1>4, <1>5, <1>6 DEF IInv

\* The forms on the screen are those of the open walks, a form answered or
\* withdrawn is neither, and every event of the host still counts until read.
LEMMA Invariant == Spec => []IInv
<1>1. IInv /\ [Next]_vars => IInv'
  BY StepIInv, StutterIInv
<1>2. QED
  BY InitIInv, <1>1, PTL DEF Spec

\* Every table the loop keeps of questions, forms and commands has its type in
\* every state, so every id that is looked up exists.
THEOREM TypeCorrect == Spec => []TypeOK
<1>1. IInv => TypeOK
  BY DEF IInv
<1>2. QED
  BY Invariant, <1>1, PTL

\* The answers a settling command carries (AnswerQuestion, DeclineQuestion and
\* SessionCancel) are those of forms about the questions of that user input, in
\* the questions' order and in the order the forms were put.
THEOREM AnswersAreTheUsersHolds == Spec => []AnswersAreTheUsers
<1>1. IInv => AnswersAreTheUsers
  <2>1. SUFFICES ASSUME IInv, NEW p \in Prompts
                 PROVE  /\ Len(hostGot[p]) <= Questions[p]
                        /\ \A i \in DOMAIN hostGot[p] :
                             /\ forms[hostGot[p][i]].what = p /\ forms[hostGot[p][i]].index = i
                             /\ \A j \in DOMAIN hostGot[p] : j < i => hostGot[p][j] < hostGot[p][i]
    BY DEF AnswersAreTheUsers
  <2>2. QED
    BY <2>1 DEF IInv, Answering, Walked
<1>2. QED
  BY Invariant, <1>1, PTL

\* A /feedback prompt or a login request is unanswered exactly while it is the
\* one pending_feedback or DEVICE_LOGIN names, and then answered once: by its
\* form, by session/cancel, by the end of the flow, or at once as a second one.
THEOREM EveryCommandAnsweredOnceHolds == Spec => []EveryCommandAnsweredOnce
<1>1. IInv => EveryCommandAnsweredOnce
  BY DEF IInv, Offering
<1>2. QED
  BY Invariant, <1>1, PTL

\* With nothing on its way, a question the host waits for has one live form,
\* the current one of its walk, and a settled one has none.
THEOREM FormForEveryQuestionHolds == Spec => []FormForEveryQuestion
<1>1. IInv => FormForEveryQuestion
  <2> SUFFICES ASSUME IInv, Quiet, NEW p \in Prompts
               PROVE  /\ hostQ[p] = "open" /\ p \notin unsettled => ui[p].open
                      /\ hostQ[p] = "settled" /\ p \notin missed => ~ui[p].open
                      /\ {f \in DOMAIN forms : /\ forms[f].live /\ forms[f].kind = "question"
                                               /\ forms[f].what = p}
                           = IF ui[p].open THEN {ui[p].req} ELSE {}
                      /\ ui[p].open => forms[ui[p].req].index = Len(ui[p].confirmed) + 1
    BY DEF FormForEveryQuestion
  <2>1. \A e : ~Waits(e)
    BY DEF Quiet, Waits
  <2>2. \A f : ~Replied(f)
    BY DEF Quiet, Replied
  <2>3. HeardOf(p) /\ OnWalk(p) /\ Asked(p) /\ \A f \in DOMAIN forms : OnScreen(f)
    BY DEF IInv, Heard, Answering, Screen
  <2>4. /\ hostQ[p] = "open" /\ p \notin unsettled => ui[p].open
        /\ hostQ[p] = "settled" /\ p \notin missed => ~ui[p].open
    BY <2>1, <2>3 DEF HeardOf
  <2>5. ui[p].open =>
          /\ ui[p].req \in DOMAIN forms /\ forms[ui[p].req].live
          /\ forms[ui[p].req].kind = "question" /\ forms[ui[p].req].what = p
          /\ forms[ui[p].req].index = Len(ui[p].confirmed) + 1
    BY <2>2, <2>3 DEF OnWalk, Asked
  <2>6. \A f \in DOMAIN forms :
          forms[f].live /\ forms[f].kind = "question" /\ forms[f].what = p =>
            ui[p].open /\ ui[p].req = f
    BY <2>3 DEF OnScreen
  <2>7. {f \in DOMAIN forms : forms[f].live /\ forms[f].kind = "question" /\ forms[f].what = p}
          = IF ui[p].open THEN {ui[p].req} ELSE {}
    <3>1. CASE ui[p].open
      BY <2>5, <2>6, <3>1
    <3>2. CASE ~ui[p].open
      BY <2>6, <3>2
    <3>3. QED
      BY <3>1, <3>2
  <2>8. QED
    BY <2>4, <2>5, <2>7
<1>2. QED
  BY Invariant, <1>1, PTL
==============================================================================
