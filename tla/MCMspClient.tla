----------------------------- MODULE MCMspClient -----------------------------
(* Model-checking instance of MspClient: one caller, one closing thread.   *)
EXTENDS MspClient, TLC

CONSTANTS r1, reader, closer

MCClosers == {closer}
=============================================================================
