-------------------------- MODULE MessageLifecycle --------------------------
(***************************************************************************)
(* The lifecycle of one netlink message, as the specification states it   *)
(* (4.7): Fresh -> Finalized -> Serialized.  Construction gives a Fresh    *)
(* message, finalize() and parsing a Finalized one, and to_bytes() may     *)
(* serialise only a Finalized (or already Serialized) message.             *)
(*                                                                         *)
(* What a mutation does is the parameter MutationResets:                   *)
(*   TRUE  - the specification: "backward transitions require a fresh      *)
(*           finalize() after any mutation", a mutated message is Fresh;   *)
(*   FALSE - the contract the code documents on to_bytes: only a message   *)
(*           never finalized (nor parsed) is refused; a mutation only      *)
(*           makes a serialised message no longer the serialised one.      *)
(***************************************************************************)
CONSTANT MutationResets

VARIABLE state

States == {"Fresh", "Finalized", "Serialized"}

Init == state = "Fresh"

Construct == state' = "Fresh"

Parse == state' = "Finalized"

Finalize == state' = "Finalized"

Mutate ==
    state' = IF MutationResets THEN "Fresh"
             ELSE IF state = "Serialized" THEN "Finalized" ELSE state

Serialize ==
    /\ state \in {"Finalized", "Serialized"}
    /\ state' = "Serialized"

Next == Construct \/ Parse \/ Finalize \/ Mutate \/ Serialize

Spec == Init /\ [][Next]_state

=============================================================================
