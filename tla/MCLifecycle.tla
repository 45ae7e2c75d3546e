------------------------------ MODULE MCLifecycle ------------------------------
(* Small instances of Lifecycle for TLC.  Events are strings, so that the     *)
(* checkpoint's events and "creation" compare.                                 *)
EXTENDS Lifecycle

MCEvents == {"decision", "retry"}
=============================================================================
