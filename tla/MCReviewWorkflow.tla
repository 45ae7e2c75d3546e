--------------------------- MODULE MCReviewWorkflow ---------------------------
(* Small instances of ReviewWorkflow for TLC.                                *)
EXTENDS ReviewWorkflow

\* "thin" evidence fails screening under version 2 of the screening policy and
\* construction under version 1 of the construction policy.
MCUnbuildable == {<<3, "thin", 2>>, <<4, "thin", 1>>}

\* Every restart stage; the mixed ones restart at their earliest class.
MCFeedback == {{1}, {2, 4}, {3}, {4, 5}, {5}}
MCRejectedWith == {{3}}
=============================================================================
