------------------------------ MODULE Lifecycle ------------------------------
(***************************************************************************)
(* The retention of one saved review thread: LifecycleStore and            *)
(* ManagedSaver (lifecycle.py) over the PostgreSQL store (checkpoint.py).  *)
(*                                                                         *)
(* Every process may open the review, preview and prune expired reviews    *)
(* and delete this one.  `lock' is the session-level advisory lock of      *)
(* exclusion(); a transaction (atomic) reads when it begins and becomes    *)
(* visible when it commits, so each is two steps.  The processes run on    *)
(* machines whose clocks lag by Skew at most.                              *)
(***************************************************************************)
EXTENDS Integers, FiniteSets

CONSTANTS
    Procs,          \* processes that use the store
    Events,         \* semantic events after "creation": decisions, retries...
    Retention,      \* retention_days
    Skew,           \* how far a process's clock may lag
    MaxTime,        \* bound: time
    MaxVersion,     \* bound: commits of one review
    MaxErased       \* bound: erasures

\* retention_days is at least 1; clocks differ by less than the retention.
ASSUME LifecycleConstants ==
    /\ Retention \in Nat \ {0} /\ Skew \in Nat /\ Skew < Retention
    /\ MaxTime \in Nat /\ MaxVersion \in Nat \ {0} /\ MaxErased \in Nat
    /\ {"creation", "no thread"} \cap Events = {}
    /\ "free" \notin Procs

VARIABLES
    record,     \* the row of advisor_lifecycle, or NoRecord
    saved,      \* semantic events of the latest checkpoint, or NoThread
    lock,       \* the process that holds the thread's advisory lock, or Free
    proc,       \* what each process is doing
    now,        \* true time
    writes,     \* history: commits of checkpoint writes so far
    erased      \* history: erasures so far

vars == <<record, saved, lock, proc, now, writes, erased>>

-----------------------------------------------------------------------------
(* Data.                                                                     *)

NoRecord == [version |-> 0]
NoThread == {"no thread"}
NoPreview == [cutoff |-> -1]
Free == "free"

Record ==
    [version : 1..MaxVersion, activity : 0..MaxTime,
     events : {e \cup {"creation"} : e \in SUBSET Events}]

ExpiresAt(r) == r.activity + Retention

\* What a process's clock may read.
Reading == {t \in 0..now : t >= now - Skew}

\* pc: idle, open (managed), writing (in a saver transaction), erasing.
Idle == [pc |-> "idle", creating |-> FALSE, previous |-> NoRecord, write |-> NoThread,
         since |-> 0]

Begins(p, state) == proc' = [proc EXCEPT ![p].session = state]
Session(p) == proc[p].session

Init ==
    /\ record = NoRecord
    /\ saved \in {NoThread, {}}     \* {}: a checkpoint from before the metadata
    /\ lock = Free
    /\ proc = [p \in Procs |-> [session |-> Idle, preview |-> NoPreview]]
    /\ now = 0 /\ writes = 0 /\ erased = 0

-----------------------------------------------------------------------------
(* managed(): open or create the review, under exclusion.                    *)

\* exclusion: a process that cannot get the lock in five seconds gives up.
MayLock(p) == lock = Free /\ Session(p).pc = "idle"

\* managed(create=True): no metadata and no checkpoint may exist.
OpenCreate(p) ==
    /\ MayLock(p)
    /\ record = NoRecord /\ saved = NoThread
    /\ lock' = p
    /\ \E t \in Reading :
         Begins(p, [Idle EXCEPT !.pc = "open", !.creating = TRUE, !.since = erased,
                    !.previous = [version |-> 1, activity |-> t, events |-> {"creation"}]])
    /\ UNCHANGED <<record, saved, now, writes, erased>>

\* managed(): the record must be readable, not in the future and not expired.
Open(p) ==
    /\ MayLock(p)
    /\ record # NoRecord
    /\ \E t \in Reading : record.activity <= t /\ t < ExpiresAt(record)
    /\ lock' = p
    /\ Begins(p, [Idle EXCEPT !.pc = "open", !.previous = record, !.since = erased])
    /\ UNCHANGED <<record, saved, now, writes, erased>>

\* The context manager exits: the handle is no longer active.
Close(p) ==
    /\ Session(p).pc = "open"
    /\ lock' = Free
    /\ Begins(p, Idle)
    /\ UNCHANGED <<record, saved, now, writes, erased>>

-----------------------------------------------------------------------------
(* ManagedSaver.commit around put and put_writes.                            *)

\* The record that this write follows.
Previous(p) == IF Session(p).creating THEN Session(p).previous ELSE record

\* Mutant: every checkpoint write renews the retention.
UpdatedAlways(r, fresh, creating, t) ==
    [version |-> IF creating THEN r.version ELSE r.version + 1,
     activity |-> t,
     events |-> r.events \cup fresh]

\* Only a new semantic event renews the retention.
Updated(r, fresh, creating, t) ==
    [version |-> IF creating THEN r.version ELSE r.version + 1,
     activity |-> IF fresh \subseteq r.events THEN r.activity ELSE t,
     events |-> r.events \cup fresh]

\* The checkpoint's ledger has the events it had and at most one more.
BeginWrite(p) ==
    LET r == Previous(p)
        had == IF saved = NoThread THEN {} ELSE saved
    IN  /\ Session(p).pc = "open"
        /\ r # NoRecord
        /\ r.version < MaxVersion
        /\ \E ledger \in {had} \cup {had \cup {e} : e \in Events}, t \in Reading :
             /\ ledger \subseteq r.events \/ r.activity <= t
             /\ Begins(p, [Session(p) EXCEPT
                            !.pc = "writing",
                            !.previous = Updated(r, ledger, Session(p).creating, t),
                            !.write = ledger])
        /\ UNCHANGED <<record, saved, lock, now, writes, erased>>

\* Checkpoint and metadata become visible together.
CommitWrite(p) ==
    /\ Session(p).pc = "writing"
    /\ record' = Session(p).previous
    /\ saved' = Session(p).write
    /\ Begins(p, [Session(p) EXCEPT !.pc = "open", !.creating = FALSE, !.write = NoThread])
    /\ writes' = writes + 1
    /\ UNCHANGED <<lock, now, erased>>

-----------------------------------------------------------------------------
(* preview_expired, prune and delete.                                        *)

\* No lock is taken: the preview is a snapshot that may be acted on much later.
Preview(p) ==
    /\ Session(p).pc = "idle"
    /\ record # NoRecord
    /\ \E t \in Reading :
         /\ record.activity <= t
         /\ ExpiresAt(record) <= t
         /\ proc' = [proc EXCEPT ![p].preview =
                        [cutoff |-> t, candidate |-> record, writes |-> writes]]
    /\ UNCHANGED <<record, saved, lock, now, writes, erased>>

\* Mutant: the record is not compared with the previewed one.
UnchangedExpiredByCutoff(preview) == record # NoRecord

\* The candidate is deleted only if it is the record that the preview saw.
UnchangedExpired(preview) ==
    /\ record # NoRecord
    /\ record = preview.candidate
    /\ ExpiresAt(record) <= preview.cutoff

BeginPrune(p) ==
    /\ MayLock(p)
    /\ proc[p].preview # NoPreview
    /\ \/ /\ UnchangedExpired(proc[p].preview)
          /\ lock' = p
          /\ Begins(p, [Idle EXCEPT !.pc = "pruning"])
       \/ /\ ~UnchangedExpired(proc[p].preview)
          /\ lock' = Free
          /\ proc' = [proc EXCEPT ![p].preview = NoPreview]
    /\ UNCHANGED <<record, saved, now, writes, erased>>

\* Mutant: delete does not wait for the process that has the review open.
BeginDeleteUnlocked(p) ==
    /\ Session(p).pc = "idle"
    /\ erased < MaxErased
    /\ Begins(p, [Idle EXCEPT !.pc = "deleting"])
    /\ UNCHANGED <<record, saved, lock, now, writes, erased>>

BeginDelete(p) ==
    /\ MayLock(p)
    /\ erased < MaxErased
    /\ lock' = p
    /\ Begins(p, [Idle EXCEPT !.pc = "deleting"])
    /\ UNCHANGED <<record, saved, now, writes, erased>>

\* erase: every row of the thread, in one transaction.
Erase(p) ==
    /\ Session(p).pc \in {"pruning", "deleting"}
    /\ record' = NoRecord
    /\ saved' = NoThread
    /\ erased' = erased + 1
    /\ lock' = Free
    /\ proc' = [proc EXCEPT ![p] =
                  [session |-> Idle,
                   preview |-> IF Session(p).pc = "pruning" THEN NoPreview ELSE @.preview]]
    /\ UNCHANGED <<now, writes>>

-----------------------------------------------------------------------------
(* The environment.                                                          *)

\* Mutant: the checkpoint of an interrupted transaction stays.
CrashTorn(p) ==
    /\ Session(p).pc # "idle"
    /\ lock' = Free
    /\ saved' = IF Session(p).pc = "writing" THEN Session(p).write ELSE saved
    /\ proc' = [proc EXCEPT ![p] = [session |-> Idle, preview |-> NoPreview]]
    /\ UNCHANGED <<record, now, writes, erased>>

\* Mutant: the lock outlives its process.
CrashKeepsLock(p) ==
    /\ Session(p).pc # "idle"
    /\ proc' = [proc EXCEPT ![p] = [session |-> Idle, preview |-> NoPreview]]
    /\ UNCHANGED <<record, saved, lock, now, writes, erased>>

\* The process dies or its connection is lost: its transaction is rolled back and its
\* lock goes with the session that held it.
Crash(p) ==
    /\ Session(p).pc # "idle"
    /\ lock' = Free
    /\ proc' = [proc EXCEPT ![p] = [session |-> Idle, preview |-> NoPreview]]
    /\ UNCHANGED <<record, saved, now, writes, erased>>

Tick ==
    /\ now < MaxTime
    /\ now' = now + 1
    /\ UNCHANGED <<record, saved, lock, proc, writes, erased>>

Next ==
    \/ \E p \in Procs :
         \/ OpenCreate(p) \/ Open(p) \/ Close(p)
         \/ BeginWrite(p) \/ CommitWrite(p)
         \/ Preview(p) \/ BeginPrune(p) \/ BeginDelete(p) \/ Erase(p)
         \/ Crash(p)
    \/ Tick

Spec == Init /\ [][Next]_vars

-----------------------------------------------------------------------------
(* Properties.                                                               *)

\* The row, the checkpoint and the sessions have their types.
TypeOK ==
    /\ record \in Record \cup {NoRecord}
    /\ saved \in {NoThread} \cup SUBSET Events
    /\ lock \in Procs \cup {Free}
    /\ now \in 0..MaxTime /\ writes \in Nat /\ erased \in Nat
    /\ \A p \in Procs :
         /\ Session(p).pc \in {"idle", "open", "writing", "pruning", "deleting"}
         /\ Session(p).pc # "idle" <=> lock = p
         /\ Session(p).pc = "writing" => Session(p).previous \in Record

\* Retention metadata and checkpoint never disagree: every event that the checkpoint
\* holds was counted, and no checkpoint is left behind without its row (a thread older
\* than the metadata stays as it was).
CheckpointCovered ==
    IF record = NoRecord THEN saved \in {NoThread, {}}
    ELSE saved # NoThread /\ saved \subseteq record.events

\* A row only moves on: no commit is lost or done twice, activity never goes back, and
\* it moves only for an event the row did not have.
RecordAdvances ==
    [][record # NoRecord /\ record' \notin {record, NoRecord} =>
         /\ record'.version = record.version + 1
         /\ record.events \subseteq record'.events
         /\ record.activity <= record'.activity
         /\ record.activity # record'.activity => record.events # record'.events]_vars

\* Pruning spares a review that anybody wrote to after the preview was made.
PruneSparesTouched ==
    [][\A p \in Procs :
         Session(p).pc = "pruning" /\ erased' # erased
             => proc[p].preview.writes = writes]_vars

\* A deleted review comes back only by a session that was opened to create it after the
\* deletion, never by a handle that was already open.
NoResurrection ==
    [][writes' # writes =>
         \A p \in Procs : Session(p).pc = "writing" => Session(p).since = erased]_vars

=============================================================================
