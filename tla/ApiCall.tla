------------------------------ MODULE ApiCall ------------------------------
(***************************************************************************)
(* What one SDK call promises its caller about the provider, with no       *)
(* attempt, permit, timeout, status or body.  A mutation reaches the       *)
(* provider at most once; the call then returns a verdict, and a verdict   *)
(* that names what happened is true: "done" means the provider performed   *)
(* the operation, "not_done" means it did not.  "unknown" is kept for      *)
(* mutations that the provider may have received.                          *)
(*                                                                         *)
(* Transport.tla implements this specification.                            *)
(***************************************************************************)
EXTENDS Naturals

VARIABLES safety,     \* the safety class of the endpoint
          delivered,  \* how many requests the provider received
          performed,  \* whether the provider performed the operation
          verdict     \* what the caller may conclude, "none" until then

callVars == <<safety, delivered, performed, verdict>>

SafetyClass == {"ReadOnly", "Mutation", "PaidMutation"}

Init ==
    /\ safety \in SafetyClass
    /\ delivered = 0
    /\ performed = FALSE
    /\ verdict = "none"

Verdicts == {"done", "not_done", "unknown", "server_error", "abandoned"}

(* The provider receives a request and performs the operation, or not. *)
Receive(p) ==
    /\ safety # "ReadOnly" => delivered = 0
    /\ delivered' = delivered + 1
    /\ performed' = (performed \/ p)

(* What a verdict says of a call after n deliveries, performed or not. *)
Truthful(v, n, p) ==
    /\ v = "done" /\ safety # "ReadOnly" => p
    /\ v = "not_done" /\ safety # "ReadOnly" => ~p
    /\ v = "unknown" => safety # "ReadOnly"
    /\ v = "server_error" => n > 0  \* the provider's own word, with a 5xx

Deliver(p) ==
    /\ verdict = "none"
    /\ Receive(p)
    /\ UNCHANGED <<safety, verdict>>

(* "abandoned": the caller stopped waiting. *)
Return(v) ==
    /\ verdict = "none"
    /\ Truthful(v, delivered, performed)
    /\ verdict' = v
    /\ UNCHANGED <<safety, delivered, performed>>

(* The request is received and the call ends without its answer. *)
LoseAnswer(p, v) ==
    /\ verdict = "none"
    /\ Receive(p)
    /\ Truthful(v, delivered', performed')
    /\ verdict' = v
    /\ UNCHANGED safety

Next ==
    \/ \E p \in BOOLEAN : Deliver(p)
    \/ \E v \in Verdicts : Return(v)
    \/ \E p \in BOOLEAN, v \in {"not_done", "unknown", "abandoned"} : LoseAnswer(p, v)

Spec == Init /\ [][Next]_callVars
=============================================================================
