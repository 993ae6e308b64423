--------------------------- MODULE RequestContract ---------------------------
(***************************************************************************)
(* What the MSP client promises of a request, whatever its threads, its    *)
(* pipes and its host do: start_request and wait return once, a success is *)
(* only reported for a request the host has read, and a request reported   *)
(* as not written was not read and never will be, so its command can be    *)
(* sent again without running twice.  One that timed out waiting, was      *)
(* cancelled or lost its connection may or may not have run.               *)
(***************************************************************************)
CONSTANT Reqs

VARIABLES
    fate,    \* what the caller knows of each request
    served   \* the requests the host has read

Returned == {"answered", "unwritten", "unknown"}

Init == fate = [r \in Reqs |-> "new"] /\ served = {}

Start(r) ==
    /\ fate[r] = "new"
    /\ fate' = [fate EXCEPT ![r] = "open"]
    /\ UNCHANGED served

Serve(r) ==
    /\ r \notin served /\ fate[r] \in {"open", "unknown"}
    /\ served' = served \cup {r}
    /\ UNCHANGED fate

Return(r, verdict) ==
    /\ fate[r] = "open"
    /\ verdict = "answered" => r \in served
    /\ verdict = "unwritten" => r \notin served
    /\ fate' = [fate EXCEPT ![r] = verdict]
    /\ UNCHANGED served

Next ==
    \E r \in Reqs : Start(r) \/ Serve(r) \/ \E v \in Returned : Return(r, v)

Spec == Init /\ [][Next]_<<fate, served>>
=============================================================================
