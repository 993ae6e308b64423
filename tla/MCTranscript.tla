---------------------------- MODULE MCTranscript ----------------------------
(* Five views: a cut-off reply around a monitor whose row waits for a shell  *)
(* command; a command streaming past its output budget; a thought and two    *)
(* replies; an anchor that only appears in the next turn; background checks. *)
EXTENDS Transcript, TLC

CONSTANTS reply, reply2, thought, shell, monitor, card

MCItems == {reply, reply2, thought, shell, monitor, card}
MCKind == (reply :> "message") @@ (reply2 :> "message") @@ (thought :> "thought")
          @@ (shell :> "shell") @@ (monitor :> "monitor") @@ (card :> "card")
MCAnchor == [i \in MCItems |-> IF i = monitor THEN shell ELSE None]

On(w, i) == ViewEvent(w, i, 0, TRUE)
Piece(i, n) == ViewEvent("delta", i, n, TRUE)
Turn(w, n) == ViewEvent(w, None, n, TRUE)
S(i) == On("started", i)
C(i) == On("completed", i)
Cut(i) == On("updated", i)
Rejected(i) == ViewEvent("completed", i, 0, FALSE)
Begin(n) == Turn("turnStarted", n)
End(n) == Turn("turnDone", n)

MCViews == {
  <<Begin(1), S(reply), Piece(reply, 1), S(monitor), Piece(reply, 2), C(monitor),
    C(reply), S(shell), Cut(reply), C(shell), End(1)>>,
  <<Begin(1), S(shell), Piece(shell, 1), S(monitor), Piece(shell, 2), C(monitor),
    C(shell), S(card), C(card)>>,
  <<Begin(1), S(thought), Piece(thought, 1), S(reply), Piece(reply, 1), C(thought), C(reply),
    S(reply2), Cut(reply), Piece(reply2, 1), C(reply2), Cut(reply2)>>,
  <<Begin(1), S(monitor), C(monitor), End(1), Begin(2), S(shell), Rejected(shell), End(2)>>,
  <<Begin(1), S(reply), Piece(reply, 1), C(reply), Turn("retry", 1), Turn("foreground", 1), End(1)>>}

\* A monitor that belongs after a reply which has started and shown nothing yet.
MCReplyAnchor == [i \in MCItems |-> IF i = monitor THEN reply ELSE None]
MCReplyViews == {
  <<Begin(1), S(reply), S(monitor), C(monitor), Piece(reply, 1), C(reply), End(1)>>}
=============================================================================
