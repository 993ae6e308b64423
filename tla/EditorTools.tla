----------------------------- MODULE EditorTools -----------------------------
(***************************************************************************)
(* The editor tools of bridge.rs: an MCP server on 127.0.0.1 whose calls   *)
(* become fs/ and terminal/ requests to the editor.  Every call runs on    *)
(* the thread of its connection and blocks on one editor request after     *)
(* another (Editor::request_blocking); session/cancel and Muse's own       *)
(* notifications/cancelled stop it at its next poll.  What a finished call *)
(* has to show is kept until the main loop folds the completed item.       *)
(*                                                                         *)
(* Paths, texts and commands are abstracted: all calls of one tool name    *)
(* the same file or command, the case in which cards can be confused.      *)
(* The editor and Muse are external: the editor may answer, fail or ignore *)
(* a request and may still act on one that was withdrawn.                  *)
(***************************************************************************)
EXTENDS Naturals, Sequences, SequencesExt, FiniteSets

CONSTANTS Calls,          \* tools/call requests of Muse
          Sessions,       \* ACP sessions
          Tools,          \* the tools the client's capabilities allow
          Reads,          \* the client advertised fs.readTextFile
          MaxConnections, \* MAX_CONNECTIONS
          MaxCards,       \* cards kept
          MaxCancels      \* bound: cancels of a session

AllTools == {"read", "write", "edit", "terminal"}

ASSUME EditorToolsAssumption ==
  /\ Tools \subseteq AllTools
  /\ "edit" \in Tools => Reads
  /\ Reads \in BOOLEAN
  /\ MaxConnections \in Nat \ {0} /\ MaxCards \in Nat \ {0} /\ MaxCancels \in Nat

VARIABLES
  callIds,   \* Muse sends a callId with each call (1.4.11)
  bound,     \* TOKENS: open sessions whose token names them
  gens,      \* CANCELS
  call,      \* each call: where it is and what it captured
  ask,       \* the editor's view of the call's current request
  idle,      \* connections kept open between calls: each holds a slot
  running,   \* RUNNING
  flags,     \* the flag of each running call
  term,      \* the terminal the editor opened for a call
  item,      \* the call's item in the fold: "none", "shown", "done"
  cards,     \* CARDS
  shown,     \* ghost: <<item, call>>: the item's card got content of the call
  lost       \* ghost: calls of which the editor failed or ignored the release

sessionVars == <<bound, gens>>
cardVars == <<item, cards, shown>>
vars == <<callIds, sessionVars, call, ask, idle, running, flags, term, cardVars, lost>>

None == 0
Blank == [at |-> "none", s |-> None, tool |-> "read", gen |-> 0, step |-> "none",
          why |-> "ok", result |-> "none"]

Init ==
  /\ callIds \in BOOLEAN
  /\ bound = {}
  /\ gens = [s \in Sessions |-> 0]
  /\ call = [c \in Calls |-> Blank] /\ ask = [c \in Calls |-> "none"]
  /\ idle = 0 /\ running = {} /\ flags = {}
  /\ term = [c \in Calls |-> "none"] /\ item = [c \in Calls |-> "none"]
  /\ cards = <<>> /\ shown = {} /\ lost = {}

----------------------------------------------------------------------------
(* Sessions, as far as the tools see them.                                 *)

\* session/new or session/resume: the session is in the map, its token bound.
Bind(s) ==
  /\ s \notin bound
  /\ bound' = bound \cup {s}
  /\ UNCHANGED <<callIds, gens, call, ask, idle, running, flags, term, cardVars, lost>>

\* session/cancel, also without a turn in flight.
CancelSession(s) ==
  /\ s \in bound /\ gens[s] < MaxCancels
  /\ gens' = [gens EXCEPT ![s] = @ + 1]
  /\ UNCHANGED <<callIds, bound, call, ask, idle, running, flags, term, cardVars, lost>>

\* notifications/cancelled: only a call that is registered hears it.
NotificationCancelled(c) ==
  /\ c \in running \ flags
  /\ flags' = flags \cup {c}
  /\ UNCHANGED <<callIds, sessionVars, call, ask, idle, running, term, cardVars, lost>>

----------------------------------------------------------------------------
(* The call's thread.                                                      *)

Set(c, rec) == call' = [call EXCEPT ![c] = rec]

\* record_card: the oldest cards may have aged out, the oldest one makes room.
RecordCard(c) ==
  \E n \in {k \in 1..Len(cards) + 1 : Len(cards) - k < MaxCards - 1} :
    cards' = Append(SubSeq(cards, n, Len(cards)),
                    [of |-> c, s |-> call[c].s, tool |-> call[c].tool, id |-> callIds])

\* A call ends: its locals and its registration go, its connection is kept.
Finish(c, result, shows) ==
  /\ Set(c, [Blank EXCEPT !.at = "done", !.s = call[c].s, !.tool = call[c].tool,
                          !.step = call[c].step, !.result = result])
  /\ ask' = [ask EXCEPT ![c] = "none"]
  /\ idle' = idle + 1
  /\ running' = running \ {c} /\ flags' = flags \ {c}
  /\ IF shows THEN RecordCard(c) ELSE UNCHANGED cards

Fail(c) == Finish(c, "failed", FALSE)

\* EditorClient::call: the request is written first; the abort is only polled.
Send(c, step, why) ==
  /\ Set(c, [call[c] EXCEPT !.at = "asking", !.step = step, !.why = why])
  /\ ask' = [ask EXCEPT ![c] = "sent"]
  /\ UNCHANGED <<idle, running, flags, cards>>

Active == {c \in Calls : call[c].at \in {"asking", "embed"}}
Slots == Cardinality(Active) + idle
Writing(tool) == tool \in {"write", "edit", "terminal"}

\* try_connection_slot: a call comes on a kept connection or opens a new one.
TakeConnection ==
  \/ idle > 0 /\ idle' = idle - 1
  \/ Slots < MaxConnections /\ UNCHANGED idle

\* serve_connection: IDLE_TIMEOUT, or Muse closes.
CloseIdle ==
  /\ idle > 0
  /\ idle' = idle - 1
  /\ UNCHANGED <<callIds, sessionVars, call, ask, running, flags, term, cardVars, lost>>

FirstStep(tool) ==
  CASE tool \in {"read", "edit"} -> "read"
    [] tool = "write"            -> IF Reads THEN "read" ELSE "write"
    [] tool = "terminal"         -> "create"

\* tool_names: what the client's capabilities allow.
Offered(tool) == tool \in Tools

\* allowed: session_mode as the call's context has it; it is not read again.
Allowed(tool, mode) == Writing(tool) => mode = "default"

\* call and run_tool up to the first request: the call is registered, the
\* generation of the session's cancels read.
Begin(c, s, tool, mode) ==
  /\ call[c].at = "none" /\ s \in bound
  /\ TakeConnection
  /\ Offered(tool) /\ Allowed(tool, mode)
  /\ Set(c, [Blank EXCEPT !.at = "asking", !.s = s, !.tool = tool, !.gen = gens[s],
                          !.step = FirstStep(tool)])
  /\ ask' = [ask EXCEPT ![c] = "sent"]
  /\ running' = running \cup {c}
  /\ UNCHANGED <<callIds, sessionVars, flags, term, cardVars, lost>>

\* A call that never asks the editor: the request cannot be read or is not
\* admitted, the token is not bound to an open session, the mode forbids the
\* tool, an argument is bad; or the connection was one too many, and dropped.  A connection opened for it may be kept.
Refuse(c, s, tool) ==
  /\ call[c].at = "none"
  /\ \/ UNCHANGED idle
     \/ Slots < MaxConnections /\ idle' = idle + 1
  /\ Set(c, [Blank EXCEPT !.at = "done", !.s = s, !.tool = tool, !.result = "failed"])
  /\ UNCHANGED <<callIds, sessionVars, ask, running, flags, term, cardVars, lost>>

\* resolve_path: no path, or one that leads out of the session's roots.
RefusePath(c, s, tool) == s \in bound /\ Offered(tool) /\ Refuse(c, s, tool)

\* What the tool does with the outcome of its request: read_tool, edit_tool,
\* write_tool (previous_text falls back to the disk whatever went wrong) and
\* terminal_tool.
AfterRead(c, why) ==
  CASE call[c].tool = "write" -> Send(c, "write", "ok")
    [] call[c].tool = "read"  -> Finish(c, IF why = "ok" THEN "ok" ELSE "failed", FALSE)
    [] call[c].tool = "edit"  -> \/ why = "ok" /\ Send(c, "write", "ok")
                                 \/ Fail(c)

\* A call without a terminal id fails, also one that the editor answered with an empty id.
AfterCreate(c, why) ==
  \/ /\ why = "ok"
     /\ Set(c, [call[c] EXCEPT !.at = "embed"])
     /\ ask' = [ask EXCEPT ![c] = "none"]
     /\ UNCHANGED <<idle, running, flags, cards>>
  \/ Fail(c)

AfterStep(c, why) ==
  CASE call[c].step = "read"    -> AfterRead(c, why)
    [] call[c].step = "write"   -> IF why = "ok" THEN \E shows \in BOOLEAN : Finish(c, "ok", shows) ELSE Fail(c)
    [] call[c].step = "create"  -> AfterCreate(c, why)
    [] call[c].step = "wait"    -> IF why = "ok" THEN Send(c, "output", "ok") ELSE Send(c, "kill", "err")
    [] call[c].step = "kill"    -> Send(c, "output", call[c].why)
    [] call[c].step = "output"  -> Send(c, "release", call[c].why)
    [] call[c].step = "release" -> Finish(c, IF call[c].why = "ok" THEN "ok" ELSE "failed", TRUE)

Waiting(c) == call[c].at = "asking" /\ ask[c] = "sent"
Cleanup == {"kill", "output", "release"}
Cancelled(c) == c \in flags \/ gens[call[c].s] # call[c].gen

\* The answer was there when the thread looked for it.
Receives(c) ==
  /\ call[c].at = "asking" /\ ask[c] \in {"ok", "err"}
  /\ AfterStep(c, ask[c])
  /\ UNCHANGED <<callIds, sessionVars, term, item, shown, lost>>

\* What a request does in the editor (external).
Effect(c, step) ==
  term' = [term EXCEPT ![c] =
    CASE step = "create"                -> "running"
      [] step = "kill" /\ @ = "running" -> "exited"
      [] step = "release"               -> "released"
      [] OTHER                          -> @]

\* $/cancel_request: the editor drops the request, or acts on it all the same.
Withdraw(c) == UNCHANGED term \/ (ask[c] = "sent" /\ Effect(c, call[c].step))

\* Mutant: a cancel also aborts the clean-up.
CanAbortAlways(c) == Cancelled(c)
CanAbort(c) == Cancelled(c) /\ call[c].step \notin Cleanup

\* request_blocking: no answer at the last look, and the poll finds a cancel: the
\* request is withdrawn, though its answer may have arrived in between.
Aborts(c) ==
  /\ call[c].at = "asking" /\ CanAbort(c)
  /\ Withdraw(c)
  /\ AfterStep(c, "cancelled")
  /\ UNCHANGED <<callIds, sessionVars, item, shown, lost>>

\* Mutant: the clean-up has no time limit.
TimeLimitAsk(c) == call[c].step \notin Cleanup
TimeLimit(c) == TRUE

\* CLIENT_TIMEOUT, the command's own limit, or the limit of a clean-up.
TimesOut(c) ==
  /\ call[c].at = "asking" /\ TimeLimit(c)
  /\ Withdraw(c)
  /\ AfterStep(c, "timedOut")
  /\ lost' = IF ask[c] = "sent" /\ call[c].step = "release" THEN lost \cup {c} ELSE lost
  /\ UNCHANGED <<callIds, sessionVars, item, shown>>

\* editor_card: the card of the call's id, else one of the same tool and key.
CardOf(c) == IF callIds THEN {d \in {c} : item[d] = "shown"}
             ELSE {d \in Calls : item[d] = "shown" /\ call[d].s = call[c].s /\ call[d].tool = "terminal"}

\* embed_in_card: wait a little for the card, show the terminal on it, go on.
EmbedInCard(c) ==
  /\ call[c].at = "embed"
  /\ \/ \E d \in CardOf(c) : shown' = shown \cup {<<d, c>>}
     \/ CardOf(c) = {} /\ UNCHANGED shown
  /\ Send(c, "wait", "ok")
  /\ UNCHANGED <<callIds, sessionVars, term, item, lost>>

----------------------------------------------------------------------------
(* The editor (external).                                                  *)

EditorAnswers(c) ==
  /\ Waiting(c)
  /\ call[c].step = "wait" => term[c] # "running"
  /\ Effect(c, call[c].step)
  /\ ask' = [ask EXCEPT ![c] = "ok"]
  /\ UNCHANGED <<callIds, sessionVars, call, idle, running, flags, cardVars, lost>>

EditorFails(c) ==
  /\ Waiting(c)
  /\ ask' = [ask EXCEPT ![c] = "err"]
  /\ lost' = IF call[c].step = "release" THEN lost \cup {c} ELSE lost
  /\ UNCHANGED <<callIds, sessionVars, call, idle, running, flags, term, cardVars>>

CommandExits(c) ==
  /\ term[c] = "running" /\ c \in Active
  /\ term' = [term EXCEPT ![c] = "exited"]
  /\ UNCHANGED <<callIds, sessionVars, call, ask, idle, running, flags, cardVars, lost>>

----------------------------------------------------------------------------
(* The fold of the calls' items.                                           *)

ItemStarts(c) ==
  /\ call[c].at # "none" /\ item[c] = "none"
  /\ item' = [item EXCEPT ![c] = "shown"]
  /\ UNCHANGED <<callIds, sessionVars, call, ask, idle, running, flags, term, cards, shown, lost>>

\* Mutant: any content of the session and tool will do.
MatchByKey(c) == {i \in DOMAIN cards : cards[i].s = call[c].s /\ cards[i].tool = call[c].tool}
\* take_card_content: by call id, else the oldest with the item's tool and key.
Match(c) ==
  LET byCall == {i \in DOMAIN cards : cards[i].s = call[c].s /\ cards[i].id /\ cards[i].of = c}
      byKey  == {i \in DOMAIN cards : cards[i].s = call[c].s /\ ~cards[i].id
                                      /\ cards[i].tool = call[c].tool}
  IN  IF byCall # {} THEN byCall ELSE byKey

\* The item completes with its call, or before it when the turn was stopped.
ItemCompletes(c) ==
  /\ item[c] = "shown"
  /\ call[c].at = "done" \/ Cancelled(c)
  /\ item' = [item EXCEPT ![c] = "done"]
  /\ IF Match(c) = {} THEN UNCHANGED <<cards, shown>>
     ELSE \E i \in Match(c) : /\ \A j \in Match(c) : i <= j
                              /\ shown' = shown \cup {<<c, cards[i].of>>}
                              /\ cards' = RemoveAt(cards, i)
  /\ UNCHANGED <<callIds, sessionVars, call, ask, idle, running, flags, term, lost>>

----------------------------------------------------------------------------
Session == \E s \in Sessions : Bind(s) \/ CancelSession(s)

Thread(c) == Receives(c) \/ Aborts(c) \/ TimesOut(c) \/ EmbedInCard(c)

Editor == \E c \in Calls : EditorAnswers(c) \/ EditorFails(c) \/ CommandExits(c)

Next == \/ Session \/ Editor \/ CloseIdle
        \/ \E c \in Calls : \/ \E s \in Sessions, tool \in AllTools :
                                 \/ \E mode \in {"default", "readOnly"} : Begin(c, s, tool, mode)
                                 \/ Refuse(c, s, tool) \/ RefusePath(c, s, tool)
                            \/ Thread(c)
                            \/ NotificationCancelled(c) \/ ItemStarts(c) \/ ItemCompletes(c)

Spec == Init /\ [][Next]_vars

\* A connection's thread runs, and its waits are bounded by the clock; nothing
\* is assumed of the editor, of Muse or of the main loop.
FairSpec == Spec /\ \A c \in Calls : WF_vars(Thread(c))

----------------------------------------------------------------------------
(* Properties.                                                             *)

Steps == {"none", "read", "write", "create", "wait", "kill", "output", "release"}
CallStates == [at : {"none", "asking", "embed", "done"}, s : Sessions \cup {None}, tool : AllTools,
               gen : Nat, step : Steps, why : {"ok", "err"}, result : {"none", "ok", "failed"}]
Cards == [of : Calls, s : Sessions \cup {None}, tool : AllTools, id : BOOLEAN]

SessionsOK ==
  /\ callIds \in BOOLEAN
  /\ bound \subseteq Sessions /\ gens \in [Sessions -> Nat]
CallsOK ==
  /\ call \in [Calls -> CallStates]
  /\ ask \in [Calls -> {"none", "sent", "ok", "err"}]
  /\ term \in [Calls -> {"none", "running", "exited", "released"}]
  /\ running \subseteq Calls /\ flags \subseteq Calls /\ lost \subseteq Calls
ItemsOK ==
  /\ item \in [Calls -> {"none", "shown", "done"}]
  /\ cards \in Seq(Cards) /\ Len(cards) <= MaxCards
  /\ shown \subseteq Calls \X Calls
SlotsOK == idle \in Nat /\ Slots <= MaxConnections

TypeOK == SessionsOK /\ CallsOK /\ ItemsOK /\ SlotsOK

\* A card never shows what another call did: with call ids, a completed item
\* carries its own call's content or none, and a terminal is embedded in the
\* card of the call that opened it; without them, still one of the same
\* session and tool (take_card_content, editor_card).
CardIsOwn ==
  \A p \in shown :
    /\ callIds => p[1] = p[2]
    /\ call[p[1]].s = call[p[2]].s /\ call[p[1]].tool = call[p[2]].tool

\* A call that was given a terminal is over only when it has released it: whatever
\* stopped its wait, the clean-up is gone through, unless the editor ignored or failed
\* the release itself (terminal_tool, CLEANUP).  A call that ended at terminal/create
\* is no part of this: the editor may open a terminal for it after it stopped waiting,
\* or answer with an empty id.
NoRunawayTerminal ==
  \A c \in Calls :
    call[c].at = "done" /\ call[c].step # "create" => term[c] \in {"none", "released"} \/ c \in lost

\* A call ends, whatever the editor does: an answer, a cancel or the clock gets
\* its thread through every request, the clean-up ones included.
EveryCallEnds ==
  \A c \in Calls : call[c].at = "asking" ~> call[c].at = "done"
==============================================================================
