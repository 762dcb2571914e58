--------------------------- MODULE EnqueueContract ---------------------------
(***************************************************************************)
(* What prism-api's Storage.EnqueueCommands promises its callers, the      *)
(* pool's workers and postCommands: while a call is open it may publish    *)
(* any of its payloads, in any order; it answers nil only when all of them *)
(* are in the Command Queue; once it has answered, nothing is published on *)
(* its behalf any more.                                                    *)
(***************************************************************************)
CONSTANT Payload

VARIABLES
    batch,       \* the payloads of the call
    published,   \* payloads the Command Queue has accepted
    result       \* "open", then "nil" or "error"

vars == <<batch, published, result>>

Init == batch \in SUBSET Payload /\ published = {} /\ result = "open"

Publish(p) ==
    /\ result = "open"
    /\ p \in batch
    /\ published' = published \cup {p}
    /\ UNCHANGED <<batch, result>>

Return(r) ==
    /\ result = "open"
    /\ r = "nil" => published = batch
    /\ result' = r
    /\ UNCHANGED <<batch, published>>

Next == (\E p \in Payload : Publish(p)) \/ (\E r \in {"nil", "error"} : Return(r))

Spec == Init /\ [][Next]_vars
=============================================================================
