------------------------------ MODULE MCOwner ------------------------------
(***************************************************************************)
(* Small instances of what requests of the owner's browser do while others *)
(* are under way, in one state space: the account and the decision about   *)
(* an opportunity.  They have no row in common; so each behaviour moves    *)
(* one component, its focus, and the other stays at its initial value.     *)
(***************************************************************************)
EXTENDS Account, Pursuit, TLC

CONSTANT Focuses  \* the components that move

VARIABLE focus

ASSUME Assumptions == ThrottleLegal

\* A component that does not move has one initial state.
Init == /\ focus \in Focuses
        /\ AccountInit /\ (focus # "account" => issued = {} /\ owner[Legacy] = "unused")
        /\ PursuitInit

AccountStep == focus = "account" /\ AccountNext /\ UNCHANGED <<focus, pursuitVars>>

DecisionStep == focus = "decision" /\ PursuitNext /\ UNCHANGED <<focus, accountVars>>

Next == AccountStep \/ DecisionStep

Spec == Init /\ [][Next]_<<focus, accountVars, pursuitVars>>

\* The tokens of sessions and the keys of commands are the same values.
MCSymmetry == Permutations(Clients) \cup Permutations(Keys)
=============================================================================
