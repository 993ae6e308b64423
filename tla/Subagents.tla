------------------------------ MODULE Subagents ------------------------------
(***************************************************************************)
(* The child sessions of a prompt (subagents), from fold.rs and main.rs.   *)
(* The host reports one child as an item of its owner session.  The main   *)
(* loop folds each report under the session lock, sends the lines after    *)
(* the lock is released, and starts at most one thread per child run that  *)
(* reads the child's transcript (drill_down_subagent_child).  An AIR       *)
(* client sees a child end at its first terminal state: when it runs again *)
(* it is announced as a new generation.  A client of the subagents RFD     *)
(* sees one child whose state changes.                                     *)
(*                                                                         *)
(* One child is modelled: every table of the code is keyed by the child.   *)
(***************************************************************************)
EXTENDS Naturals, Sequences, SequencesExt, FiniteSets

CONSTANTS MaxFrames,   \* reports the host makes about the child
          MaxGens,     \* generations the client is told of
          MaxTexts     \* transcript items of the child on the host

ASSUME BoundsAssumption ==
  /\ MaxFrames \in Nat \ {0}
  /\ MaxGens \in Nat \ {0}
  /\ MaxTexts \in Nat

VARIABLES
  air,      \* the client negotiated AIR subagents (else the subagents RFD)
  life,     \* the host's state of the child
  item,     \* the host item that stands for the child now; a reopened child gets a new one
  frames,   \* reports made so far
  wire,     \* item frames not yet read by the main loop, in order
  texts,    \* transcript items of the child on the host
  fold,     \* the owner session's fold, the fields about this child
  loop,     \* the main loop inside handle_msp: its step, the frame, the lines to send
  shown,    \* the child's fold: transcript items it has rendered (or none yet)
  reads,    \* the drill-down threads, one per generation
  sent      \* the lines the client received

hostVars == <<life, item, frames, wire, texts>>
vars == <<air, life, item, frames, wire, texts, fold, loop, shown, reads, sent>>

Gens == 1 .. MaxGens
None == "none"
Open == {"accepted", "running", "ready", "error", "recovery"}
Closed == {"completed", "failed", "cancelled"}
States == {"completed", "failed", "cancelled", "disconnected"}
NoFold == 0                    \* the child has no fold yet (shown counts from 1)

Frame == [item |-> item, life |-> life]
Line(kind, gen, value) == [kind |-> kind, gen |-> gen, value |-> value]
NoRead == [step |-> "idle", got |-> 0, lines |-> <<>>]

----------------------------------------------------------------------------
(* The host (external): the life of the child, reported item by item.      *)

\* What may follow a state of the child: its own run, the owner's commands, a
\* host recovery.  A closed child runs again only as a new item.
Follows ==
  [none      |-> {"accepted", "running"},
   accepted  |-> {"running", "cancelled"},
   running   |-> {"ready", "error", "recovery", "failed", "cancelled"},
   ready     |-> {"running", "completed"},
   error     |-> {"running", "failed"},
   recovery  |-> {"running", "failed"},
   completed |-> {"running"},
   failed    |-> {"running"},
   cancelled |-> {"running"}]

Moves(next) ==
  /\ frames < MaxFrames
  /\ next \in Follows[life]
  /\ life' = next
  /\ item' = IF life \in Closed \cup {None} THEN item + 1 ELSE item
  /\ frames' = frames + 1
  /\ wire' = Append(wire, [item |-> item', life |-> next])

\* The child's run moves on by itself or by its owner model.
HostMoves ==
  /\ \E next \in Open \cup Closed : Moves(next)
  /\ UNCHANGED <<air, texts, fold, loop, shown, reads, sent>>

\* An item/updated that changes nothing the adapter reads.
HostRepeats ==
  /\ frames < MaxFrames
  /\ life \in Open
  /\ frames' = frames + 1
  /\ wire' = Append(wire, Frame)
  /\ UNCHANGED <<air, life, item, texts, fold, loop, shown, reads, sent>>

\* The child writes one more item into its own transcript.
HostWrites ==
  /\ life = "running"
  /\ texts < MaxTexts
  /\ texts' = texts + 1
  /\ UNCHANGED <<air, life, item, frames, wire, fold, loop, shown, reads, sent>>

----------------------------------------------------------------------------
(* The fold, fold.rs.                                                      *)

Init ==
  /\ air \in BOOLEAN
  /\ life = None /\ item = 0 /\ frames = 0 /\ wire = <<>> /\ texts = 0
  /\ fold = [spawned |-> FALSE, state |-> None, gen |-> 1, wantRead |-> FALSE,
             inFlight |-> {}, held |-> [g \in Gens |-> None], done |-> {},
             observed |-> None]
  /\ loop = [step |-> "idle", frame |-> [item |-> 0, life |-> None], lines |-> <<>>]
  /\ shown = NoFold
  /\ reads = [g \in Gens |-> NoRead]
  /\ sent = <<>>

\* The state a report settles the child in; None while it runs.  A result that
\* is ready settles the child although its item stays in progress.
SubagentState(l) ==
  CASE l \in {"ready", "completed"}  -> "completed"
    [] l \in {"error", "failed"}     -> "failed"
    [] l = "cancelled"               -> "cancelled"
    [] l = "recovery"                -> "disconnected"
    [] OTHER                         -> None

ChildFinished(f) == air /\ f.state # None

\* The child runs after it settled: AIR gets the held state of the ended
\* generation and a new one, the RFD a state.
RunsAgain(f) ==
  IF air
  THEN LET next == f.gen + 1
       IN  [fold |-> [f EXCEPT !.state = None, !.held[f.gen] = None,
                               !.gen = next, !.wantRead = TRUE],
            out  |-> (IF f.held[f.gen] = None THEN <<>>
                      ELSE <<Line("state", f.gen, f.held[f.gen])>>)
                     \o <<Line("spawned", next, None)>>]
  ELSE [fold |-> [f EXCEPT !.state = None],
        out  |-> <<Line("state", f.gen, "running")>>]

\* A state: sent once per generation to AIR, and held while the transcript of
\* that generation is being read.
Settles(f, state) ==
  LET settled == [f EXCEPT !.state = state]
  IN  IF air /\ f.gen \in f.inFlight
      THEN [fold |-> [settled EXCEPT !.held[f.gen] = state], out |-> <<>>]
      ELSE [fold |-> settled, out |-> <<Line("state", f.gen, state)>>]

\* Mutant: every terminal report settles the child.
SettleAlways(f, l) ==
  LET state == SubagentState(l)
  IN  IF state = None
      THEN IF l = "running" /\ f.state # None THEN RunsAgain(f)
           ELSE [fold |-> f, out |-> <<>>]
      ELSE IF f.state = state THEN [fold |-> f, out |-> <<>>]
           ELSE Settles(f, state)

SettleSubagent(f, l) ==
  LET state == SubagentState(l)
  IN  IF state = None
      THEN IF l = "running" /\ f.state # None THEN RunsAgain(f)
           ELSE [fold |-> f, out |-> <<>>]
      ELSE IF f.state = state \/ ChildFinished(f)
           THEN [fold |-> f, out |-> <<>>]
           ELSE Settles(f, state)

\* The announcement of a child the fold has not seen.
Spawn(f, l) ==
  IF f.spawned THEN [fold |-> f, out |-> <<>>]
  ELSE [fold |-> [f EXCEPT !.spawned = TRUE],
        out  |-> <<Line("spawned", 1, IF ~air /\ SubagentState(l) = None
                                      THEN "running" ELSE None)>>]

\* A snapshot announces the child, if need be, and settles it.
OnItemSnapshot(f, fr) ==
  LET spawn   == Spawn(f, fr.life)
      settled == SettleSubagent(spawn.fold, fr.life)
  IN  [fold |-> settled.fold, out |-> spawn.out \o settled.out]

\* A completion is the last frame of its item: a reconnecting client may see
\* no other, so it also announces the child before it settles it.
CompleteItem(f, fr) == OnItemSnapshot([f EXCEPT !.done = @ \cup {fr.item}], fr)

\* An item that has completed is observed for the controls and ignored.
OnItem(f0, fr) ==
  LET f == [f0 EXCEPT !.observed = fr.life]
  IN  IF fr.item \in f.done       THEN [fold |-> f, out |-> <<>>]
      ELSE IF fr.life \in Closed  THEN CompleteItem(f, fr)
      ELSE OnItemSnapshot(f, fr)

----------------------------------------------------------------------------
(* The main loop: fold under the lock, send after it, then drill down.     *)

HandleItem ==
  /\ loop.step = "idle" /\ wire # <<>>
  /\ LET r == OnItem(fold, Head(wire))
     IN  /\ r.fold.gen <= MaxGens
         /\ fold' = r.fold
         /\ loop' = [step |-> "send", frame |-> Head(wire), lines |-> r.out]
  /\ wire' = Tail(wire)
  /\ UNCHANGED <<air, life, item, frames, texts, shown, reads, sent>>

SendFoldOutput ==
  /\ loop.step = "send"
  /\ IF loop.lines = <<>>
     THEN /\ loop' = [loop EXCEPT !.step = "drill"]
          /\ UNCHANGED sent
     ELSE /\ sent' = Append(sent, Head(loop.lines))
          /\ loop' = [loop EXCEPT !.lines = Tail(@)]
  /\ UNCHANGED <<air, hostVars, fold, shown, reads>>

\* A transcript is read once for the child and once for each new generation.
NeedsRead == shown = NoFold \/ fold.wantRead

FoldKept == IF shown = NoFold THEN 1 ELSE shown

DrillDown ==
  /\ loop.step = "drill"
  /\ loop' = [loop EXCEPT !.step = "idle"]
  /\ shown' = FoldKept
  /\ IF NeedsRead
     THEN /\ fold' = [fold EXCEPT !.wantRead = FALSE, !.inFlight = @ \cup {fold.gen}]
          /\ reads' = [reads EXCEPT ![fold.gen].step = "reading"]
     ELSE UNCHANGED <<fold, reads>>
  /\ UNCHANGED <<air, hostVars, sent>>

----------------------------------------------------------------------------
(* The drill-down thread of one generation.                                *)

\* session/read returns the transcript as it is now.
ReadReturns(g) ==
  /\ reads[g].step = "reading"
  /\ reads' = [reads EXCEPT ![g] = [step |-> "replay", got |-> texts, lines |-> <<>>]]
  /\ UNCHANGED <<air, hostVars, fold, loop, shown, sent>>

ReadFails(g) ==
  /\ reads[g].step = "reading"
  /\ reads' = [reads EXCEPT ![g] = [step |-> "replay", got |-> 0, lines |-> <<>>]]
  /\ UNCHANGED <<air, hostVars, fold, loop, shown, sent>>

\* Mutant: a read that may not be sent loses the state held for it.
EndChildReadUnsent(f, g) ==
  LET sendable == ~(air /\ (f.gen # g \/ ChildFinished(f)))
  IN  [sendable |-> sendable,
       held     |-> IF sendable THEN f.held[g] ELSE None,
       fold     |-> [f EXCEPT !.inFlight = @ \ {g}, !.held[g] = None]]

\* The transcript may still be sent, and the state held for it.
EndChildRead(f, g) ==
  [sendable |-> ~(air /\ f.held[g] = None /\ (f.gen # g \/ ChildFinished(f))),
   held     |-> f.held[g],
   fold     |-> [f EXCEPT !.inFlight = @ \ {g}, !.held[g] = None]]

\* Under the lock: the child's fold renders what it has not seen, and the read
\* ends.  What may not be sent is dropped although the fold has seen it.
ReplayTranscript(g) ==
  /\ reads[g].step = "replay"
  /\ LET end   == EndChildRead(fold, g)
         fresh == [i \in 1 .. (IF reads[g].got >= shown
                               THEN reads[g].got - shown + 1 ELSE 0)
                     |-> Line("text", g, None)]
     IN  /\ shown' = shown + Len(fresh)
         /\ fold' = end.fold
         /\ reads' = [reads EXCEPT ![g] =
              [step  |-> "send", got |-> 0,
               lines |-> (IF end.sendable THEN fresh ELSE <<>>)
                         \o (IF end.held = None THEN <<>>
                             ELSE <<Line("state", g, end.held)>>)]]
  /\ UNCHANGED <<air, hostVars, loop, sent>>

\* Without the lock, one line at a time.
SendTranscript(g) ==
  /\ reads[g].step = "send"
  /\ IF reads[g].lines = <<>>
     THEN /\ reads' = [reads EXCEPT ![g] = NoRead]
          /\ UNCHANGED sent
     ELSE /\ sent' = Append(sent, Head(reads[g].lines))
          /\ reads' = [reads EXCEPT ![g].lines = Tail(@)]
  /\ UNCHANGED <<air, hostVars, fold, loop, shown>>

----------------------------------------------------------------------------
(* The editor's commands on the child (_subagent/...).                     *)

\* What each command needs the last observed report to say.
Allowed ==
  [sendMessage  |-> {"running"},
   interrupt    |-> {"running"},
   stop         |-> {"accepted", "running"},
   followupTask |-> {"ready", "error"},
   resume       |-> {"recovery"},
   close        |-> {"accepted", "running", "ready", "error"},
   readResult   |-> {"ready", "error"},
   reopen       |-> Closed]

\* What the host does with the command where it admits it (external).
Effect(method, l) ==
  CASE method \in {"followupTask", "resume", "reopen"} -> "running"
    [] method \in {"stop", "interrupt"}                -> "cancelled"
    [] method \in {"close", "readResult"} ->
         IF l = "error" THEN "failed"
         ELSE IF l \in {"accepted", "running"} THEN "cancelled" ELSE "completed"
    [] OTHER                                           -> l

\* One adapter request is one host command, sent only when the observed state
\* allows it; the host admits it by its own, later state.
SubagentControl(method) ==
  /\ loop.step = "idle"
  /\ fold.observed \in Allowed[method]
  /\ life \in Allowed[method]
  /\ Effect(method, life) # life
  /\ Moves(Effect(method, life))
  /\ UNCHANGED <<air, texts, fold, loop, shown, reads, sent>>

----------------------------------------------------------------------------
Thread(g) == ReadReturns(g) \/ ReadFails(g) \/ ReplayTranscript(g) \/ SendTranscript(g)

Next ==
  \/ HostMoves \/ HostRepeats \/ HostWrites
  \/ HandleItem \/ SendFoldOutput \/ DrillDown
  \/ \E g \in Gens : Thread(g)
  \/ \E method \in DOMAIN Allowed : SubagentControl(method)

Spec == Init /\ [][Next]_vars

----------------------------------------------------------------------------
(* Properties.                                                             *)

Lives == Open \cup Closed \cup {None}
Frames == [item : Nat, life : Lives]
Lines == [kind : {"spawned", "state", "text"}, gen : Gens,
          value : States \cup {None, "running"}]

TypeOK ==
  /\ air \in BOOLEAN /\ life \in Lives /\ item \in Nat /\ frames \in 0 .. MaxFrames
  /\ wire \in Seq(Frames) /\ sent \in Seq(Lines)
  /\ texts \in 0 .. MaxTexts /\ shown \in 0 .. MaxTexts + 1
  /\ fold \in [spawned : BOOLEAN, state : States \cup {None}, gen : Gens,
               wantRead : BOOLEAN, inFlight : SUBSET Gens,
               held : [Gens -> States \cup {None}], done : SUBSET Nat, observed : Lives]
  /\ loop \in [step : {"idle", "send", "drill"}, frame : Frames, lines : Seq(Lines)]
  /\ reads \in [Gens -> [step : {"idle", "reading", "replay", "send"},
                         got : 0 .. MaxTexts, lines : Seq(Lines)]]

Sent(kind, g) == {i \in DOMAIN sent : sent[i].kind = kind /\ sent[i].gen = g}

\* Whatever the drill-down threads do, an AIR client gets at most one
\* announcement and one terminal state per generation, and no line of a
\* generation before its announcement.
OneEndPerGeneration ==
  air => \A g \in Gens :
    /\ Cardinality(Sent("spawned", g)) <= 1
    /\ Cardinality(Sent("state", g)) <= 1
    /\ \A i \in Sent("state", g) \cup Sent("text", g) :
         \E j \in Sent("spawned", g) : j < i

Quiet ==
  /\ wire = <<>> /\ loop.step = "idle"
  /\ \A g \in Gens : reads[g].step = "idle"

LastState(g) ==
  LET told == Sent("state", g) \cup {i \in Sent("spawned", g) : sent[i].value # None}
  IN  IF told = {} THEN None
      ELSE sent[CHOOSE i \in told : \A j \in told : j <= i].value

\* Once every report is handled and no transcript is being read, the client
\* has the host's truth: no terminal state is still held for a finished read,
\* every earlier generation has ended, and the current one has ended exactly
\* when the host says the child is not running (for the RFD, the last state is
\* the child's).
ClientHasTheTruth ==
  Quiet /\ life # None =>
    IF air
    THEN /\ \A g \in 1 .. (fold.gen - 1) : Sent("state", g) # {}
         /\ (Sent("state", fold.gen) # {}) = (SubagentState(life) # None)
    ELSE LastState(1) = IF SubagentState(life) = None
                        THEN "running" ELSE SubagentState(life)

\* docs/acp-extensions.md:78: "A child ends at its first terminal state:
\* nothing more is sent for it."  The thread sends its transcript after it
\* released the session lock, so a terminal state handled in between
\* overtakes it.
EndsAtTerminal ==
  air => \A g \in Gens : \A i \in Sent("state", g), j \in Sent("text", g) : j < i
==============================================================================
