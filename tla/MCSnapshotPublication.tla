------------------------- MODULE MCSnapshotPublication -------------------------
(* Small instances of SnapshotPublication: two versions, one of which two     *)
(* snapshots with different content claim; the snapshots hold different ETFs. *)
EXTENDS SnapshotPublication

MCSnapshots ==
    {[version |-> 1, digest |-> "a"], [version |-> 1, digest |-> "b"],
     [version |-> 2, digest |-> "a"]}
MCSymbols == {"vti", "bnd"}
MCMembers(s) == IF s = [version |-> 1, digest |-> "a"] THEN MCSymbols ELSE {"bnd"}
=============================================================================
