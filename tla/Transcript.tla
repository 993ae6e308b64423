------------------------------ MODULE Transcript ------------------------------
(***************************************************************************)
(* One session's transcript: how the adapter folds the host's view events  *)
(* into the rows the editor shows (fold.rs), and how it stays complete when *)
(* delivery is not: holes announced by view/gap and refilled from           *)
(* view/page, a host crash and the re-attach that replays a durable suffix, *)
(* and a history replay into an empty transcript.                           *)
(*                                                                         *)
(* The host's view is a log; an event's cursor is its index.  Item deltas   *)
(* are ephemeral: they have a cursor but no page returns them.  The text of *)
(* a message is the sequence of piece numbers shown for it.                 *)
(***************************************************************************)
EXTENDS Naturals, FiniteSets, SequencesExt

CONSTANTS
  Items,       \* item ids of the session
  Kind,        \* what each item is: an element of Kinds
  Anchor,      \* the item whose rows each item's final row follows, or None
  Versions,    \* ACP versions the editor may speak, a subset of {1, 2}
  None,        \* no value
  Views,       \* the views the host may produce: sequences of events
  Budget,      \* max_content: streamed output pieces a card may show
  PageSize,    \* the limit of one view/page
  MaxQueue,    \* bound: the adapter's lag behind live delivery
  MaxCrashes,  \* bound: crashes of the host process
  MaxFaults    \* bound: holes, crashes and history replays together

Kinds == {"message", "thought", "tool", "shell", "monitor", "card", "untitled",
          "compaction", "silent"}

\* A gap refill in progress.
Walks == [cursor : Nat, after : Nat, next : Nat, live : Nat, delivered : SUBSET Nat]

ASSUME TranscriptAssumption ==
  /\ Kind \in [Items -> Kinds] /\ Anchor \in [Items -> Items \cup {None}]
  /\ None \notin Items \cup Nat \cup Walks /\ Versions \subseteq {1, 2}
  /\ {Budget, PageSize, MaxQueue, MaxCrashes, MaxFaults} \subseteq Nat
  /\ PageSize > 0

VARIABLES
  view,     \* the events this host will produce
  log,      \* the host's view so far: durable but for the deltas
  hole,     \* the cursor live delivery stopped after, or None
  live,     \* delivered to the adapter, not handled yet
  up,       \* a host process serves the session
  s,        \* the adapter's session: cursors, fold state and rows
  walk,     \* the gap refill in progress, or None
  excused,  \* something was lost that no page or suffix can bring back
  crashes,  \* crashes so far
  faults    \* holes, crashes and replays so far

vars == <<view, log, hole, live, up, s, walk, excused, crashes, faults>>

-----------------------------------------------------------------------------
(* The host's view.                                                         *)

ItemEvents == {"started", "delta", "updated", "completed"}
TurnEvents == {"turnStarted", "foreground", "retry", "turnDone"}

ViewEvent(w, i, n, ok) == [what |-> w, item |-> i, n |-> n, ok |-> ok]

Events == [what : ItemEvents, item : Items, n : Nat, ok : BOOLEAN]
          \cup [what : TurnEvents, item : {None}, n : Nat, ok : BOOLEAN]

Has(w, i) == \E k \in DOMAIN log : log[k].what = w /\ log[k].item = i
Turns(w) == Cardinality({k \in DOMAIN log : log[k].what = w})
InTurn == Turns("turnStarted") > Turns("turnDone")
Durable(k) == log[k].what # "delta"

\* The pieces of an item's text, and whether its reply is cut off, as of cursor c.
Total(i, c) == Cardinality({k \in 1..c : log[k].what = "delta" /\ log[k].item = i})
CutOff(i, c) == \E k \in 1..c : log[k].what = "updated" /\ log[k].item = i

InFlight(i) == Has("started", i) /\ ~Has("completed", i)

\* A view a host can produce: an item starts once, then streams its
\* deltas in order and completes at most once.
WellFormed(v) ==
  LET Before(k, w) == {j \in 1..k - 1 : v[j].what = w /\ v[j].item = v[k].item}
  IN \A k \in DOMAIN v :
       /\ v[k].what = "started" => Before(k, "started") = {}
       /\ v[k].what \in ItemEvents \ {"started"} => Before(k, "started") # {}
       /\ v[k].what \in {"delta", "completed"} => Before(k, "completed") = {}
       /\ v[k].what = "delta" => v[k].n = Cardinality(Before(k, "delta")) + 1

ASSUME ViewsAssumption == \A v \in Views : v \in Seq(Events) /\ WellFormed(v)

-----------------------------------------------------------------------------
(* The fold: SessionFold's state and its handlers, on the session record.   *)

\* A session of an editor speaking v, with nothing shown.
Fresh(v, c) ==
  [ver |-> v, cursor |-> c, seen |-> {}, twins |-> {},
   role |-> [i \in Items |-> "none"], announced |-> {}, streamed |-> [i \in Items |-> 0],
   part |-> [i \in Items |-> 0], done |-> {}, held |-> <<>>, cut |-> {}, last |-> None,
   shells |-> {}, terminals |-> {}, monitors |-> {}, active |-> 0, checks |-> 0, retry |-> 0,
   replaying |-> FALSE, text |-> [i \in Items |-> <<>>], rows |-> <<>>]

\* The members of S in a sequence, in their order.
Among(xs, S) ==
  LET picked[n \in 0..Len(xs)] ==
        IF n = 0 THEN <<>>
        ELSE IF xs[n] \in S THEN Append(picked[n - 1], xs[n]) ELSE picked[n - 1]
  IN picked[Len(xs)]

Row(f, i, w) == [f EXCEPT !.rows = Append(@, <<i, w>>)]

\* The lines the fold emits; what they say is left out.
ToolLine(f, i, w) == Row(f, i, w)
CardLine(f, i, w) == Row(f, i, w)
CompactionLine(f, i, w) == Row(f, i, w)
ChunkLine(f, i, w) == Row(f, i, w)
MarkLine(f, i) == Row(f, i, "mark")
TerminalLine(f, i, w) == Row(f, i, w)

\* An item whose parts give no title gets no card.
Titled(i) == Kind[i] # "untitled"

\* An item frame: the item as the host reports it at cursor c.
Frame(i, c) == [item |-> i, total |-> Total(i, c), cut |-> CutOff(i, c),
                ok |-> \E k \in 1..c : log[k].what = "completed" /\ log[k].item = i /\ log[k].ok]

MessageStreaming(f) == \E i \in Items : f.role[i] = "message" /\ f.streamed[i] > 0

ClaimCutOff(f, x) ==
  IF x.cut /\ x.item \notin f.cut
  THEN MarkLine([f EXCEPT !.cut = @ \cup {x.item}], x.item) ELSE f

\* The reply the mark would attach to is on screen: it is streaming, or it is the
\* latest settled one (on ACP v1, while no newer one streams).
Markable(f, i) ==
  \/ f.role[i] = "message" /\ f.streamed[i] > 0
  \/ f.role[i] = "none" /\ f.last = i /\ (f.ver = 2 \/ ~MessageStreaming(f))

MarkCutOff(f, x) == IF Markable(f, x.item) THEN ClaimCutOff(f, x) ELSE f

HostItemRole(f, i) == IF f.role[i] = "tool" THEN f ELSE [f EXCEPT !.role[i] = "tool"]

NoteShell(f, i) ==
  IF f.ver = 2 /\ Kind[i] = "shell" THEN [f EXCEPT !.shells = @ \cup {i}] ELSE f

MonitorCard(f, i, w) ==
  CardLine([f EXCEPT !.role[i] = "monitor", !.monitors = @ \cup {i}], i,
      IF i \in f.monitors THEN w ELSE IF w = "final" THEN "final" ELSE "create")

\* Mutant: only an item still on screen counts as known.
KnownRole(f, i) == i \in f.done /\ f.role[i] # "none"

Known(f, i) == i \in f.done

SnapshotMessage(f, x) == MarkCutOff([f EXCEPT !.role[x.item] = "message"], x)
SnapshotThought(f, i) == [f EXCEPT !.role[i] = "thought"]

SnapshotTool(f, i) ==
  NoteShell(ToolLine([HostItemRole(f, i) EXCEPT !.announced = @ \cup {i}], i,
                     IF i \in f.announced THEN "update" ELSE "create"), i)

\* A host card is never noted as announced: every snapshot sends it as new.
SnapshotCard(f, i) ==
  IF Titled(i) THEN CardLine(HostItemRole(f, i), i, "create")
  ELSE [f EXCEPT !.role[i] = IF @ = "none" THEN "ignored" ELSE @]

SnapshotSilent(f, i) == [f EXCEPT !.role[i] = IF @ = "none" THEN "ignored" ELSE @]

\* item/started and item/updated.
OnItemSnapshot(f, x) ==
  LET i == x.item
  IN IF Known(f, i) THEN MarkCutOff(f, x)
     ELSE CASE Kind[i] = "message" -> SnapshotMessage(f, x)
            [] Kind[i] = "thought" -> SnapshotThought(f, i)
            [] Kind[i] \in {"tool", "shell"} -> SnapshotTool(f, i)
            [] Kind[i] \in {"card", "untitled"} -> SnapshotCard(f, i)
            [] Kind[i] = "monitor" -> MonitorCard(f, i, "update")
            [] Kind[i] = "compaction" -> CompactionLine(f, i, "update")
            [] Kind[i] = "silent" -> SnapshotSilent(f, i)

OpenTerminal(f, i) ==
  IF i \in f.terminals THEN f ELSE TerminalLine([f EXCEPT !.terminals = @ \cup {i}], i, "open")

\* Streamed output stops at the display budget.
Output(f, i) ==
  IF f.streamed[i] < Budget THEN TerminalLine([f EXCEPT !.streamed[i] = @ + 1], i, "output") ELSE f

\* A card's output streams on ACP v2 only, a shell's into its terminal.
DeltaOutput(f, i) ==
  CASE i \in f.shells -> Output(OpenTerminal(f, i), i)
    [] i \notin f.shells /\ f.ver = 2 /\ f.role[i] = "tool" -> Output(f, i)
    [] OTHER -> f

\* A piece of text for an item nobody started is not shown.
DeltaText(f, i, n) ==
  CASE f.role[i] = "message" ->
         ChunkLine([f EXCEPT !.streamed[i] = @ + 1, !.text[i] = Append(@, n)], i, "chunk")
    [] f.role[i] = "monitor" -> CardLine(f, i, "update")
    [] OTHER -> f

\* A stale replay of an earlier part of a summary is dropped.
DeltaSummary(f, i, n) ==
  IF f.role[i] # "thought" \/ n < f.part[i] THEN f
  ELSE ChunkLine([f EXCEPT !.streamed[i] = @ + 1, !.part[i] = n, !.text[i] = Append(@, n)],
                 i, "chunk")

OnItemDelta(f, i, n) ==
  CASE Kind[i] \in {"tool", "shell"} -> DeltaOutput(f, i)
    [] Kind[i] = "thought" -> DeltaSummary(f, i, n)
    [] OTHER -> DeltaText(f, i, n)

\* A command that never ran (rejected before any output) gets no terminal.
FinishTerminal(f, i, ok) ==
  LET ran == i \in f.terminals \/ ok
      gone == [OpenTerminal(f, i) EXCEPT !.terminals = @ \ {i}, !.shells = @ \ {i}]
  IN IF i \notin f.shells THEN f
     ELSE IF ran THEN TerminalLine(gone, i, "exit") ELSE [f EXCEPT !.shells = @ \ {i}]

\* The whole text of an item, shown when none of it was streamed.
ShowText(f, x) ==
  [f EXCEPT !.text[x.item] = @ \o [n \in 1..x.total |-> n]]

\* Mutant: a completion always resends its text.
ResendAlways(f, x) == x.total > 0

\* The completed text is sent only when none of it was streamed.
Resend(f, x) ==
  x.total > 0 /\ (f.role[x.item] \in {"message", "thought"} => f.streamed[x.item] = 0)

Gone(f, i) == [f EXCEPT !.done = @ \cup {i}, !.role[i] = "none"]

\* The completion declares the reply's phase, on the resent text or an empty chunk.
CompleteMessage(f, x) ==
  LET i == x.item
      shown == IF Resend(f, x) THEN ShowText(Gone(f, i), x) ELSE Gone(f, i)
  IN IF Resend(f, x) \/ (f.role[i] = "message" /\ f.streamed[i] > 0)
     THEN [ClaimCutOff(ChunkLine(shown, i, "final"), x) EXCEPT !.last = i]
     ELSE Gone(f, i)

CompleteThought(f, x) ==
  IF Resend(f, x) THEN ChunkLine(ShowText(Gone(f, x.item), x), x.item, "final")
  ELSE Gone(f, x.item)

\* A finished command from history opens no terminal.
CompleteTool(f, x) ==
  LET i == x.item
      ended == IF f.replaying THEN f ELSE FinishTerminal(NoteShell(f, i), i, x.ok)
  IN ToolLine(Gone(ended, i), i, "final")

CompleteCard(f, i) == IF Titled(i) THEN CardLine(Gone(f, i), i, "final") ELSE Gone(f, i)
CompleteCompaction(f, i) ==
  CompactionLine([f EXCEPT !.done = @ \cup {i}], i, "final")
CompleteMonitor(f, i) == Gone(MonitorCard(f, i, "final"), i)

\* The final object of an item.
CompleteItem(f, x) ==
  LET i == x.item
  IN IF Known(f, i) THEN MarkCutOff(f, x)
     ELSE CASE Kind[i] = "message" -> CompleteMessage(f, x)
            [] Kind[i] = "thought" -> CompleteThought(f, x)
            [] Kind[i] \in {"tool", "shell"} -> CompleteTool(f, x)
            [] Kind[i] \in {"card", "untitled"} -> CompleteCard(f, i)
            [] Kind[i] = "compaction" -> CompleteCompaction(f, i)
            [] Kind[i] = "monitor" -> CompleteMonitor(f, i)
            [] Kind[i] = "silent" -> Gone(f, i)

\* Mutant: an anchor that started defers, one still ahead does not.
DeferringStarted(f, i) ==
  Anchor[i] \notin {None, i} /\ f.role[Anchor[i]] # "none" /\ Anchor[i] \notin f.done

\* The anchor's rows exist once it has started; only an anchor still ahead defers.
Deferring(f, i) ==
  /\ Anchor[i] \notin {None, i}
  /\ f.role[Anchor[i]] = "none" /\ Anchor[i] \notin f.done

CompleteAll(f, xs) ==
  LET after[n \in 0..Len(xs)] == IF n = 0 THEN f ELSE CompleteItem(after[n - 1], xs[n])
  IN after[Len(xs)]

\* The frames that wait for an anchor in A are completed.
Release(f, A) ==
  LET ready == {x \in Range(f.held) : Anchor[x.item] \in A}
  IN CompleteAll([f EXCEPT !.held = Among(@, Range(@) \ ready)], Among(f.held, ready))

ReleaseAnchor(f, a) == Release(f, {a})

\* Held rows whose anchor is not among the items still coming.
FlushUnless(f, coming) == Release(f, (Items \cup {None}) \ coming)

FlushAnchors(f) == FlushUnless(f, {})

OnItemCompleted(f, x) ==
  IF Deferring(f, x.item)
  THEN IF \E n \in DOMAIN f.held : f.held[n].item = x.item THEN f
       ELSE [f EXCEPT !.held = Append(@, x)]
  ELSE ReleaseAnchor(CompleteItem(f, x), x.item)

-----------------------------------------------------------------------------
(* Turn events.                                                             *)

SettleChecks(f, t) == IF f.checks = t THEN [f EXCEPT !.checks = 0] ELSE f
ClearRetry(f, t) == IF f.retry = t THEN [f EXCEPT !.retry = 0] ELSE f

TurnCompleted(f, t) ==
  LET ended == [f EXCEPT !.active = IF @ = t THEN 0 ELSE @]
  IN Row(FlushAnchors(ClearRetry(SettleChecks(ended, t), t)), None, "turn")

\* A replayed notice for a turn that already ended is stale.
Foreground(f, t) == IF f.active = t THEN [f EXCEPT !.checks = t] ELSE f
RetryScheduled(f, t) == IF f.active = t THEN [f EXCEPT !.retry = t] ELSE f
TurnStarted(f, t) == [f EXCEPT !.active = t]

-----------------------------------------------------------------------------
(* handle_msp: cursor bookkeeping, then the event's own handler.            *)

Fold(f, k) ==
  LET e == log[k]
  IN CASE e.what \in {"started", "updated"} -> OnItemSnapshot(f, Frame(e.item, k))
       [] e.what = "delta" -> OnItemDelta(f, e.item, e.n)
       [] e.what = "completed" -> OnItemCompleted(f, Frame(e.item, k))
       [] e.what = "turnStarted" -> TurnStarted(f, e.n)
       [] e.what = "foreground" -> Foreground(f, e.n)
       [] e.what = "retry" -> RetryScheduled(f, e.n)
       [] e.what = "turnDone" -> TurnCompleted(f, e.n)

\* A twin of a refilled event is refused once; an item event at a cursor already
\* folded is refused.
HandleMsp(f, k) ==
  LET twin == k \in f.twins
      replayable == log[k].what \in ItemEvents
      old == replayable /\ k \in f.seen
      g == [f EXCEPT !.cursor = k, !.twins = @ \ {k},
                     !.seen = IF replayable /\ ~twin THEN @ \cup {k} ELSE @]
  IN IF twin \/ old THEN g ELSE Fold(g, k)

-----------------------------------------------------------------------------
(* History: the latest state of every item, in order of first appearance.   *)

Cursors(S) == Among([k \in DOMAIN log |-> k], S)

CollectHistory ==
  LET starts == Cursors({k \in DOMAIN log : log[k].what = "started"})
  IN [n \in DOMAIN starts |-> log[starts[n]].item]

TurnOf(i) == Cardinality({k \in DOMAIN log : log[k].what = "turnStarted" /\
                          \E j \in k..Len(log) : log[j].what = "started" /\ log[j].item = i})

\* An in-flight item is not settled: the live stream still
\* delivers its deltas and completion.  prefix: the item carries its text so far.
ReplayInFlight(f, x, prefix) ==
  LET i == x.item
      snap == OnItemSnapshot(f, x)
      unshown == Kind[i] = "message" /\ prefix /\ x.total > 0 /\ snap.streamed[i] = 0
  IN IF unshown
     THEN ClaimCutOff(ChunkLine(ShowText([snap EXCEPT !.streamed[i] = x.total], x), i, "chunk"), x)
     ELSE snap

ReplaySettled(f, x) ==
  LET g == [f EXCEPT !.done = @ \cup {x.item}]
  IN IF Kind[x.item] # "message" THEN OnItemCompleted(f, x)
     ELSE IF x.total = 0 THEN g
     ELSE [ClaimCutOff(ChunkLine(ShowText(g, x), x.item, "final"), x) EXCEPT !.last = x.item]

ReplayItem(f, i, prefix) ==
  LET x == Frame(i, Len(log))
  IN IF Known(f, i) THEN f
     ELSE IF InFlight(i) THEN ReplayInFlight(f, x, prefix) ELSE ReplaySettled(f, x)

\* The n-th item of a batch.  A new turn flushes the rows whose anchor the rest of
\* the batch does not hold.
ReplayStep(f, batch, n, prefix) ==
  LET bound == n = 1 \/ TurnOf(batch[n - 1]) # TurnOf(batch[n])
      g == IF bound THEN FlushUnless(f, {batch[j] : j \in n..Len(batch)}) ELSE f
  IN ReleaseAnchor(ReplayItem(g, batch[n], prefix), batch[n])

\* The batch's end ends its last turn.
ReplayHistory(f, prefix) ==
  LET batch == CollectHistory
      after[n \in 0..Len(batch)] ==
        IF n = 0 THEN [f EXCEPT !.replaying = TRUE] ELSE ReplayStep(after[n - 1], batch, n, prefix)
  IN Row([FlushAnchors(after[Len(batch)]) EXCEPT !.replaying = FALSE], None, "turn")

-----------------------------------------------------------------------------
(* The host.                                                                *)

Ev(k) == [t |-> "event", cur |-> k, after |-> 0, next |-> 0]
Gap(a, n) == [t |-> "gap", cur |-> 0, after |-> a, next |-> n]

\* Append an event and deliver it.  The first delivery after a hole also carries
\* the hole's bracket, before the event or (usually) after it.
HostEmit ==
  /\ up /\ Len(log) < Len(view) /\ Len(live) < MaxQueue
  /\ LET k == Len(log) + 1 IN
       /\ log' = Append(log, view[k])
       /\ \/ hole = None /\ live' = Append(live, Ev(k))
          \/ hole # None /\ live' = live \o <<Ev(k), Gap(hole, k)>>
          \/ hole # None /\ live' = live \o <<Gap(hole, k), Ev(k)>>
  /\ hole' = None
  /\ UNCHANGED <<view, up, s, walk, excused, crashes, faults>>

\* Append an event that live delivery drops.
HostDrop ==
  /\ up /\ Len(log) < Len(view)
  /\ \/ hole # None /\ UNCHANGED <<hole, faults>>
     \/ hole = None /\ faults < MaxFaults /\ hole' = Len(log) /\ faults' = faults + 1
  /\ log' = Append(log, view[Len(log) + 1])
  /\ UNCHANGED <<view, live, up, s, walk, excused, crashes>>

\* The process dies; the adapter still reads what reached the pipe.  A bracket cut
\* off behind its event names a hole nobody will hear of.
HostCrash ==
  /\ up /\ crashes < MaxCrashes /\ faults < MaxFaults
  /\ \E n \in 0..Len(live) :
       /\ live' = SubSeq(live, 1, n)
       /\ excused' = (excused \/ \E m \in n + 1..Len(live) :
                        /\ live[m].t = "gap"
                        /\ ~\E j \in n + 1..Len(live) : live[j].cur = live[m].next)
  /\ up' = FALSE /\ hole' = None /\ crashes' = crashes + 1 /\ faults' = faults + 1
  /\ UNCHANGED <<view, log, s, walk>>

-----------------------------------------------------------------------------
(* The adapter's main loop.                                                 *)

ReadEvent ==
  /\ walk = None /\ live # <<>> /\ Head(live).t = "event"
  /\ live' = Tail(live)
  /\ s' = HandleMsp(s, Head(live).cur)
  /\ UNCHANGED <<view, log, hole, up, walk, excused, crashes, faults>>

\* Mutant: the refill pages from the live position.
WalkFromLive(gap) == s.cursor

\* The refill starts at the hole's lower end: live delivery is usually past it.
WalkFrom(gap) == gap.after

\* view/gap.
ReadGap ==
  /\ walk = None /\ live # <<>> /\ Head(live).t = "gap"
  /\ live' = Tail(live)
  /\ walk' = [cursor |-> WalkFrom(Head(live)), after |-> Head(live).after,
              next |-> Head(live).next, live |-> s.cursor, delivered |-> {}]
  /\ UNCHANGED <<view, log, hole, up, s, excused, crashes, faults>>

\* What the refill leaves behind: unless it met `next` it may have delivered events
\* the live stream still owns, and the live position is kept when it was past the hole.
EndWalk(f, delivered, reached) ==
  [f EXCEPT !.twins = IF reached THEN @ ELSE @ \cup delivered,
            !.cursor = IF walk.after # walk.live THEN walk.live ELSE @]

\* The durable events after a cursor, and the first page of them.
Suffix(c) == Cursors({k \in DOMAIN log : k > c /\ Durable(k)})

Page(c) ==
  LET rest == Suffix(c)
  IN SubSeq(rest, 1, IF Len(rest) < PageSize THEN Len(rest) ELSE PageSize)

HandleAll(f, ks) ==
  LET after[n \in 0..Len(ks)] == IF n = 0 THEN f ELSE HandleMsp(after[n - 1], ks[n])
  IN after[Len(ks)]

\* One view/page and the events it returns, up to `next`.  The walk ends at `next` or
\* at the end of the durable view.
WalkPage ==
  /\ walk # None /\ up
  /\ LET page == Page(walk.cursor)
         reached == walk.next \in Range(page)
         take == Among(page, {k \in Range(page) : reached => k < walk.next})
         f == HandleAll(s, take)
         delivered == walk.delivered \cup Range(take)
         end == IF page = <<>> THEN TRUE ELSE Page(Last(page)) = <<>>
     IN \/ /\ reached \/ end
           /\ s' = EndWalk(f, delivered, reached) /\ walk' = None
        \/ /\ ~reached /\ ~end
           /\ s' = f /\ walk' = [walk EXCEPT !.cursor = Last(page), !.delivered = delivered]
  /\ UNCHANGED <<view, log, hole, live, up, excused, crashes, faults>>

\* view/page is refused, or the process is gone: the rest of the hole stays missing.
WalkFails ==
  /\ walk # None /\ ~up
  /\ s' = EndWalk(s, walk.delivered, FALSE) /\ walk' = None
  /\ excused' = TRUE
  /\ UNCHANGED <<view, log, hole, live, up, crashes, faults>>

\* Restart and reattach_view: the suffix after the last cursor delivered is replayed,
\* its end twice when the resume's own subscription overlaps it.  The cursor moves to
\* the head at once.
Reattach ==
  /\ ~up /\ live = <<>> /\ walk = None
  /\ up' = TRUE
  /\ LET suffix == Suffix(s.cursor) IN
     \E twice \in 0..(IF suffix = <<>> THEN 0 ELSE 1) :
       live' = [n \in 1..(Len(suffix) + twice) |->
                  Ev(suffix[IF n > Len(suffix) THEN Len(suffix) ELSE n])]
  /\ s' = [s EXCEPT !.cursor = Len(log),
                    !.active = IF InTurn THEN Turns("turnStarted") ELSE 0]
  /\ UNCHANGED <<view, log, hole, walk, excused, crashes, faults>>

\* view/subscribe is refused: the resume's subscription delivers from the head on.
ReattachFails ==
  /\ ~up /\ live = <<>> /\ walk = None
  /\ up' = TRUE
  /\ s' = [s EXCEPT !.cursor = Len(log),
                    !.active = IF InTurn THEN Turns("turnStarted") ELSE 0]
  /\ excused' = (excused \/ Suffix(s.cursor) # <<>>)
  /\ UNCHANGED <<view, log, hole, live, walk, crashes, faults>>

\* session/load or a fork into an empty transcript: the history is replayed and live
\* delivery starts at its head.  A fork also remembers the cursors it read.
Load ==
  /\ up /\ walk = None /\ faults < MaxFaults /\ faults' = faults + 1
  /\ live' = <<>> /\ hole' = None
  /\ \E prefix \in BOOLEAN, fork \in BOOLEAN :
       s' = [ReplayHistory(Fresh(s.ver, Len(log)), prefix) EXCEPT
               !.seen = IF fork THEN Range(Suffix(0)) ELSE {},
               !.active = IF InTurn THEN Turns("turnStarted") ELSE 0]
  /\ excused' = FALSE
  /\ UNCHANGED <<view, log, up, walk, crashes>>

-----------------------------------------------------------------------------
Init ==
  /\ view \in Views /\ log = <<>> /\ hole = None /\ live = <<>> /\ up = TRUE /\ walk = None
  /\ s \in {Fresh(v, 0) : v \in Versions}
  /\ excused = FALSE /\ crashes = 0 /\ faults = 0

Next ==
  \/ HostEmit \/ HostDrop \/ HostCrash
  \/ ReadEvent \/ ReadGap \/ WalkPage \/ WalkFails
  \/ Reattach \/ ReattachFails \/ Load

Spec == Init /\ [][Next]_vars

-----------------------------------------------------------------------------
(* Properties.                                                              *)

At(i, w) == {p \in DOMAIN s.rows : s.rows[p] = <<i, w>>}
RowsOf(i) == {p \in DOMAIN s.rows : s.rows[p][1] = i}

Roles == {"none", "message", "thought", "tool", "monitor", "ignored"}
Words == {"create", "update", "chunk", "output", "final", "open", "exit", "mark", "turn"}
Lines == (Items \cup {None}) \X Words
Frames == [item : Items, total : Nat, cut : BOOLEAN, ok : BOOLEAN]
Deliveries == [t : {"event", "gap"}, cur : Nat, after : Nat, next : Nat]

Sessions ==
  [ver : {1, 2}, cursor : Nat, seen : SUBSET Nat, twins : SUBSET Nat,
   role : [Items -> Roles], announced : SUBSET Items, streamed : [Items -> Nat],
   part : [Items -> Nat], done : SUBSET Items, held : Seq(Frames), cut : SUBSET Items,
   last : Items \cup {None}, shells : SUBSET Items, terminals : SUBSET Items,
   monitors : SUBSET Items, active : Nat, checks : Nat, retry : Nat, replaying : BOOLEAN,
   text : [Items -> Seq(Nat)], rows : Seq(Lines)]

TypeOK ==
  /\ view \in Views /\ log \in Seq(Events) /\ hole \in 0..Len(log) \cup {None}
  /\ live \in Seq(Deliveries) /\ \A m \in DOMAIN live : live[m].cur \in 0..Len(log)
  /\ up \in BOOLEAN /\ walk \in Walks \cup {None}
  /\ s \in Sessions /\ s.cursor \in 0..Len(log) /\ s.seen \cup s.twins \subseteq 1..Len(log)
  /\ excused \in BOOLEAN /\ crashes \in 0..MaxCrashes /\ faults \in 0..MaxFaults

\* No piece of a reply or a thought is shown twice or out of order, whatever
\* mixture of live delivery, refill, re-attach and replay brought it
\* (handle_msp's cursor bookkeeping and complete_item's resend).
NoRepeat ==
  \A i \in Items : \A p, q \in DOMAIN s.text[i] : p < q => s.text[i][p] < s.text[i][q]

\* An item settles once: one final row, after which nothing is added to it but the
\* cut-off mark, one terminal opened before its single exit (complete_item,
\* finish_terminal).
SettlesOnce ==
  \A i \in Items :
    /\ \A w \in {"final", "open", "exit", "mark"} : Cardinality(At(i, w)) <= 1
    /\ \A p \in At(i, "final"), q \in RowsOf(i) : q > p => s.rows[q][2] = "mark"
    /\ \A p \in At(i, "exit") : (\E q \in At(i, "open") : q < p) /\ i \notin s.terminals
    /\ i \in s.done => i \notin s.terminals

Quiet == up /\ live = <<>> /\ walk = None /\ hole = None

\* Once delivery has caught up, every item the host completed is settled in the
\* transcript, or its row waits for an anchor that has not settled (or that waited
\* for an anchor of its own: its release releases no other row before the turn
\* ends): no hole, crash or overlap loses a durable event (view/gap refill,
\* reattach_view).
NothingLost ==
  Quiet /\ ~excused =>
    \A i \in Items : Has("completed", i) =>
      \/ i \in s.done
      \/ /\ \E n \in DOMAIN s.held : s.held[n].item = i
         /\ Anchor[i] \in s.done => Anchor[Anchor[i]] # None

\* The final row of an item comes after its anchor's first row, unless its turn ended
\* before the anchor appeared.
AfterAnchor(i) ==
  \A p \in At(i, "final"), q \in RowsOf(Anchor[i]) :
    (q > p /\ \A r \in RowsOf(Anchor[i]) : q <= r) =>
      \E e \in At(None, "turn") : e \in p..q

Showing == {"tool", "shell", "card", "monitor", "compaction"}

\* A row the host anchored comes after its anchor (deferring_for_anchor,
\* flush_awaiting_anchor), where the anchor is of a kind whose start shows a row and
\* has no anchor of its own.  A replayed message never waits.
AnchorOrder ==
  \A i \in Items : Kind[i] # "message" /\ Anchor[i] # None =>
    (Kind[Anchor[i]] \in Showing /\ Anchor[Anchor[i]] = None => AfterAnchor(i))

\* fold.rs:3003: "The host names the anchor so the row renders after their rows."
\* fold.rs:3010: an anchor is seen when "its rows exist, which a started item already
\* satisfies".
RowAfterItsAnchor ==
  \A i \in Items : Kind[i] = "monitor" /\ Anchor[i] # None => AfterAnchor(i)

\* An ended turn is not left active, nor its background checks pending, once delivery
\* has caught up (turn/completed).
EndedTurnIsOver ==
  Quiet /\ ~excused /\ ~InTurn => s.active = 0 /\ s.checks = 0 /\ s.retry = 0

\* A settled reply shows the whole text its completion carried.
CompletedIsTruth ==
  \A i \in Items : Kind[i] = "message" /\ At(i, "final") # {} =>
    Len(s.text[i]) = Total(i, Len(log))
=============================================================================
