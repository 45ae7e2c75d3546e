---------------------------- MODULE DashboardSession ----------------------------
(***************************************************************************)
(* The browser sessions of the dashboard and the review thread that they   *)
(* act on: DashboardRun (dashboard.py) and the page around it              *)
(* (dashboard_app.py).                                                     *)
(*                                                                         *)
(* A session keeps a handle: the state it last read and whether it knows   *)
(* how its last submission ended.  The page shows the handle as it was at  *)
(* the last rerun of the script; a click runs the script again, so that it *)
(* takes effect only if the control it was made on is still rendered.      *)
(* What the dashboard does with the thread it does under the lock of       *)
(* managed(), where it reads the thread again: that is one step here.      *)
(* Lifecycle.tla follows the lock and ReviewWorkflow.tla the graph, which  *)
(* is reduced to what it answers: the state of a thread is its number of   *)
(* revisions, its status and the attempts of the explanation in the        *)
(* current revision.                                                       *)
(***************************************************************************)
EXTENDS Integers, Sequences

CONSTANTS
    Sessions,
    MaxRevisions,   \* bound: revisions of the thread
    MaxAttempts     \* bound: attempts of one operation

ASSUME DashboardConstants == MaxRevisions \in Nat \ {0} /\ MaxAttempts \in Nat \ {0}

VARIABLES
    thread,     \* the review in the checkpoint store, Unborn or Gone
    store,      \* its checkpoint store: none, durable, or memory (of one session)
    handle,     \* the DashboardRun of each session
    page,       \* the handle as each page shows it
    acted       \* history: what the last submission was made on and what it met

vars == <<thread, store, handle, page, acted>>

-----------------------------------------------------------------------------
Unborn == [status |-> "unborn"]
Gone == [status |-> "gone"]
Exists == thread \notin {Unborn, Gone}
\* _snapshot: a checkpoint between two nodes claims to await a review that is not there.
Readable == Exists /\ thread.status # "midway"

NoRun == [state |-> Unborn, unknown |-> FALSE]
Fresh(t) == [state |-> t, unknown |-> FALSE]

Init ==
    /\ thread = Unborn /\ store = "none"
    /\ handle = [s \in Sessions |-> NoRun] /\ page = [s \in Sessions |-> NoRun]
    /\ acted = [shown |-> Unborn, met |-> Unborn]

-----------------------------------------------------------------------------
(* The workflow.                                                             *)

\* Where the workflow may stop once it works on the current revision.
Ends(t) ==
    LET Stops(status, ops) == [t EXCEPT !.status = status, !.ops = ops]
    IN  {Stops("stopped", t.ops)}
        \union (IF ~t.explains THEN {Stops("awaiting", t.ops)}
                ELSE {Stops("awaiting", Append(t.ops, "succeeded")), Stops("stopped", Append(t.ops, "failed"))})

\* What an exception may leave behind: the thread as it was, as planned, between two nodes,
\* in the middle of the explanation, or at one of its ends.
Remains(old, planned, ends) ==
    {old, planned, [planned EXCEPT !.status = "midway"]} \union ends
    \union (IF planned.explains /\ planned.status = "stopped"
            THEN {[planned EXCEPT !.ops = Append(@, "started")]} ELSE {})

Planned(t) == [t EXCEPT !.status = "stopped", !.revs = @ + 1, !.ops = <<>>]

\* The graph binds a decision to the revision it names: for another one it blocks the thread.
Decided(t, d) ==
    CASE d.rev # t.revs -> [t EXCEPT !.status = "blocked"]
      [] d.action = "approve" -> [t EXCEPT !.status = "approved"]
      [] d.action = "close" -> [t EXCEPT !.status = "rejected"]
      [] d.action = "revise" -> Planned(t)

DecisionEnds(t, d) ==
    IF d.action = "revise" /\ d.rev = t.revs THEN Ends(Planned(t)) ELSE {Decided(t, d)}

\* The last attempt of the undecided current revision may be made again unless it succeeded.
Retryable(t, rev, k) ==
    /\ t.status \in {"stopped", "awaiting"} /\ rev = t.revs
    /\ k = Len(t.ops) /\ k # 0 /\ t.ops[k] # "succeeded"

Retried(t, rev, k) == IF Retryable(t, rev, k) THEN t ELSE [t EXCEPT !.status = "blocked"]

RetryEnds(t, rev, k) ==
    IF Retryable(t, rev, k) THEN Ends(t) \ {t} ELSE {Retried(t, rev, k)}

-----------------------------------------------------------------------------
(* The page.                                                                 *)

\* The controls that act on the review; none while the last outcome is unknown.
Decide(rev) == <<"decide", rev>>
RetryOf(rev, k) == <<"retry", rev, k>>
Controls(run) ==
    LET t == run.state
    IN  IF run.unknown \/ t = Unborn THEN {}
        ELSE IF t.status = "awaiting" THEN {Decide(t.revs)}
        ELSE {RetryOf(t.revs, k) : k \in {j \in DOMAIN t.ops : Retryable(t, t.revs, j)}}

Shows(s, run) == page' = [page EXCEPT ![s] = run]
Keeps(s, run) == handle' = [handle EXCEPT ![s] = run]

\* Any interaction runs the script again.
Rerun(s) == Shows(s, handle[s]) /\ UNCHANGED <<thread, store, handle, acted>>

-----------------------------------------------------------------------------
(* The operations of DashboardRun.                                           *)

\* Durable runs keep no adapters; the explanation of a memory run may be drafted again.
HasAdapters == store = "memory"

\* A refused submission leaves the page as it is, below an error; the handle may have learnt
\* the current state.
Refused(s, run) == Keeps(s, run) /\ UNCHANGED <<thread, store, page, acted>>

\* The graph is invoked: it returns with one of `ends', or raises.
Submitted(s, planned, ends) ==
    /\ acted' = [shown |-> page[s].state, met |-> thread]
    /\ \/ \E t \in ends : thread' = t /\ Keeps(s, Fresh(t)) /\ Shows(s, Fresh(t))
       \/ /\ thread' \in Remains(thread, planned, ends)
          /\ Keeps(s, [handle[s] EXCEPT !.unknown = TRUE])
          /\ UNCHANGED page
    /\ UNCHANGED store

\* Mutant: the decision is made on whatever awaits review.
CurrentRevision(t, rev) == TRUE

\* resume: the revision that was rendered must be the one under review.
RenderedRevision(t, rev) == t.revs = rev

\* Nothing is submitted when the thread cannot be read or an exception comes before the invocation.
Resume(s, d) ==
    /\ Decide(d.rev) \in Controls(page[s]) \cap Controls(handle[s])
    /\ Readable
    /\ IF thread.status # "awaiting" THEN Refused(s, handle[s])
       ELSE IF ~RenderedRevision(thread, d.rev) THEN Refused(s, [handle[s] EXCEPT !.state = thread])
       ELSE IF d.action = "revise" /\ thread.explains /\ ~HasAdapters THEN Refused(s, handle[s])
       ELSE Submitted(s, Decided(thread, d), DecisionEnds(thread, d))

Retry(s, rev, k) ==
    /\ RetryOf(rev, k) \in Controls(page[s]) \cap Controls(handle[s])
    /\ Readable
    /\ IF ~Retryable(thread, rev, k) THEN Refused(s, [handle[s] EXCEPT !.state = thread])
       ELSE IF ~HasAdapters THEN Refused(s, handle[s])
       ELSE Submitted(s, Retried(thread, rev, k), RetryEnds(thread, rev, k))

Refresh(s) ==
    /\ handle[s] # NoRun /\ Readable
    /\ Keeps(s, Fresh(thread)) /\ Shows(s, Fresh(thread))
    /\ UNCHANGED <<thread, store, acted>>

Discard(s) ==
    /\ handle[s] # NoRun /\ store = "memory"
    /\ thread' = Gone /\ Keeps(s, NoRun) /\ Shows(s, NoRun)
    /\ UNCHANGED <<store, acted>>

-----------------------------------------------------------------------------
(* The sessions.                                                             *)

\* start_dashboard_run, with or without an explanation.
Create(s, kind, explains) ==
    /\ thread = Unborn /\ store' = kind
    /\ \E t \in Ends([status |-> "stopped", revs |-> 1, ops |-> <<>>, explains |-> explains]) :
          thread' = t /\ Keeps(s, Fresh(t)) /\ Shows(s, Fresh(t))
    /\ UNCHANGED acted

\* A session that has the token of a saved review reads it; an error drops its run.
Restore(s) ==
    /\ store = "durable"
    /\ \E run \in {NoRun} \union (IF Readable THEN {Fresh(thread)} ELSE {}) :
          Keeps(s, run) /\ Shows(s, run)
    /\ UNCHANGED <<thread, store, acted>>

Delete(s) ==
    /\ handle[s] # NoRun /\ store = "durable" /\ Exists
    /\ thread' = Gone /\ Keeps(s, NoRun) /\ Shows(s, NoRun)
    /\ UNCHANGED <<store, acted>>

\* The session ends, and with it a review that only its memory holds.
Leave(s) ==
    /\ handle[s] # NoRun
    /\ thread' = IF store = "memory" THEN Gone ELSE thread
    /\ Keeps(s, NoRun) /\ Shows(s, NoRun)
    /\ UNCHANGED <<store, acted>>

\* The review expires, after which managed() refuses it until it is pruned.
Prune ==
    /\ store = "durable" /\ Exists /\ thread' = Gone
    /\ UNCHANGED <<store, handle, page, acted>>

Decisions == [rev : 1..MaxRevisions, action : {"approve", "close", "revise"}]

Next ==
    \/ \E s \in Sessions :
          \/ Rerun(s) \/ Refresh(s) \/ Discard(s) \/ Restore(s) \/ Delete(s) \/ Leave(s)
          \/ \E kind \in {"durable", "memory"}, explains \in BOOLEAN : Create(s, kind, explains)
          \/ \E d \in Decisions :
                (d.action = "revise" => d.rev < MaxRevisions) /\ Resume(s, d)
          \/ \E rev \in 1..MaxRevisions, k \in 1..(MaxAttempts - 1) : Retry(s, rev, k)
    \/ Prune

Spec == Init /\ [][Next]_vars

-----------------------------------------------------------------------------
(* A submission reaches the workflow only on a page that shows the thread as *)
(* it is at that moment, in all that the reviewer can see of it: its         *)
(* revisions, its status and its attempts, although the code compares a      *)
(* revision and an operation only, and whatever other sessions, failed       *)
(* submissions, retries and deletions came between.  So no late decision or  *)
(* retry makes the workflow block a review.                                  *)
ActsOnWhatIsShown ==
    /\ acted.shown = acted.met
    /\ thread.status # "blocked"
=============================================================================
