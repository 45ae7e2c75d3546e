-------------------------- MODULE MCTicketWorkflow --------------------------
(* Small instances of TicketWorkflow for TLC.                                *)
EXTENDS TicketWorkflow

Never == <<0, 0, 0>>
AmendsFirst == <<1, 0, 0>>
Counts(S) == [p \in Counted |-> IF p \in S THEN 1 ELSE 0]

\* One ticket, with or without review: remediation, one grant after a failure or delivery.
OneProfiles == {[class |-> "ordinary", review |-> FALSE], [class |-> "ordinary", review |-> TRUE]}
OneUsed == {"implementation", "verification"} \cup Reviews \cup {"remediation"}
OnePausable == OneUsed \cup {"none"}
OneGrants == {Counts({"remediation", "final_review"})}

\* A consequential ticket: design, challenge and reset.
DesignProfiles == {[class |-> c, review |-> TRUE] : c \in {"consequential", "ordinary"}}
DesignUsed == {"design", "challenge", "design_reset", "implementation",
               "verification", "initial_review"}
DesignPausable == {"design_reset", "initial_review"}

\* A lineage: one allocation of the slots of a parent, and one granted slot.
SplitUsed == {"implementation", "verification", "initial_review"}
SplitPausable == {}
SplitProfiles == {[class |-> "ordinary", review |-> TRUE]}
SplitGrants == {Counts({"implementation"})}
SplitAllocations == {Counts({"implementation", "initial_review"})}

\* Sessions, contents, evidence and children are interchangeable; there is no temporal property.
Symmetry == Permutations(Sessions) \cup Permutations(Contents) \cup Permutations(Evidence)
            \cup Permutations(Tickets \ Roots)
=============================================================================
