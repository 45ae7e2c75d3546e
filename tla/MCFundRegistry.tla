--------------------------- MODULE MCFundRegistry ---------------------------
(* A small instance of FundRegistry: two keys that may both claim one class. *)
EXTENDS FundRegistry, TLC

CONSTANTS k1, k2, i1, i2
Proposal(status, first, second) ==
    [status |-> status, classes |-> (i1 :> first @@ i2 :> second)]

\* The first fund may be suspended and retired, the second may take the class of the first
\* or exchange one class for another.
MCCandidates ==
    (k1 :> {Proposal("active", "active", "none"), Proposal("suspended", "active", "none"),
            Proposal("retired", "closed", "none")})
    @@ (k2 :> {Proposal("active", "active", "none"), Proposal("active", "none", "active")})
Symmetry == Permutations(Publishers)
=============================================================================
