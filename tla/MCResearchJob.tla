----------------------------- MODULE MCResearchJob -----------------------------
(* A small instance of ResearchJob.                                             *)
EXTENDS ResearchJob
=============================================================================
