--------------------------- MODULE Lifecycle_proofs ---------------------------
(***************************************************************************)
(* The retention of one saved review, for any number of processes, events, *)
(* commits and erasures, any retention and any clock lag below it: every    *)
(* property of Lifecycle.                                                   *)
(***************************************************************************)
EXTENDS Lifecycle, TLAPS

-----------------------------------------------------------------------------
(* The inductive invariant.                                                  *)

SessionStates == {"idle", "open", "writing", "pruning", "deleting"}

SessionState ==
    [pc : SessionStates, creating : BOOLEAN, previous : Record \cup {NoRecord},
     write : {NoThread} \cup SUBSET Events, since : Nat]

PreviewState == [cutoff : Nat, candidate : Record, writes : Nat] \cup {NoPreview}

ProcState == [session : SessionState, preview : PreviewState]

\* The row `next' follows the row r.
Advances(r, next) ==
    /\ next.version = r.version + 1
    /\ r.events \subseteq next.events
    /\ r.activity <= next.activity
    /\ r.activity # next.activity => r.events # next.events

\* While a handle is open nobody erases; it creates the row, or the row is there.
OpenIsCurrent ==
    \A p \in Procs :
        Session(p).pc \in {"open", "writing"} =>
            /\ Session(p).since = erased
            /\ IF Session(p).creating
               THEN Session(p).previous \in Record /\ record = NoRecord /\ saved = NoThread
               ELSE record # NoRecord

\* What a transaction will commit counts the events of its checkpoint and follows the row.
WriteFollows ==
    \A p \in Procs :
        Session(p).pc = "writing" =>
            /\ Session(p).previous \in Record
            /\ Session(p).write \in SUBSET Events
            /\ Session(p).write \subseteq Session(p).previous.events
            /\ ~Session(p).creating => Advances(record, Session(p).previous)

Newer(r, candidate) ==
    r.version > candidate.version \/ r.activity > candidate.activity

\* A previewed row expired before now.  Until somebody commits it is there as it was or
\* erased; afterwards any row is a newer one.
PreviewIsKept ==
    \A p \in Procs :
        LET preview == proc[p].preview IN
        preview # NoPreview =>
            /\ ExpiresAt(preview.candidate) <= preview.cutoff /\ preview.cutoff <= now
            /\ preview.writes <= writes
            /\ IF preview.writes = writes THEN record \in {NoRecord, preview.candidate}
               ELSE record # NoRecord => Newer(record, preview.candidate)

\* A row that is created again is younger than any that was previewed.
CreatedIsYounger ==
    \A p, q \in Procs :
        (/\ Session(p).pc \in {"open", "writing"}
         /\ Session(p).creating
         /\ proc[q].preview # NoPreview)
        => Session(p).previous.activity > proc[q].preview.candidate.activity

\* Nobody has written since the preview that a process prunes by.
PruneIsUntouched ==
    \A p \in Procs :
        Session(p).pc = "pruning" =>
            proc[p].preview # NoPreview /\ proc[p].preview.writes = writes

IInv ==
    /\ TypeOK
    /\ proc \in [Procs -> ProcState]
    /\ CheckpointCovered
    /\ OpenIsCurrent
    /\ WriteFollows
    /\ PreviewIsKept
    /\ CreatedIsYounger
    /\ PruneIsUntouched

-----------------------------------------------------------------------------
(* Rows.                                                                     *)

LEMMA BoundFacts ==
    /\ Retention \in Nat /\ Skew \in Nat /\ Skew < Retention
    /\ MaxTime \in Nat /\ MaxVersion \in Nat /\ 1 <= MaxVersion
<1>1. /\ Retention \in Nat /\ Skew \in Nat /\ Skew < Retention
      /\ MaxTime \in Nat /\ MaxVersion \in Nat \ {0}
  BY LifecycleConstants, Zenon
<1>. QED BY <1>1

LEMMA RowFacts ==
    /\ \A r \in Record : /\ r # NoRecord
                         /\ r.version \in 1..MaxVersion /\ r.activity \in 0..MaxTime
                         /\ "creation" \in r.events /\ r.events \subseteq Events \cup {"creation"}
                         /\ ExpiresAt(r) \in Nat /\ ExpiresAt(r) > r.activity + Skew
    /\ NoThread \notin SUBSET Events
    /\ \A p \in Procs : p # Free
<1>1. ASSUME NEW r \in Record
      PROVE  /\ r.version \in 1..MaxVersion /\ r.activity \in 0..MaxTime
             /\ "creation" \in r.events /\ r.events \subseteq Events \cup {"creation"}
  BY DEF Record
<1>2. ASSUME NEW r \in Record
      PROVE  r # NoRecord
  BY <1>1, NoRecord.version = 0 DEF NoRecord
<1>3. ASSUME NEW r \in Record
      PROVE  ExpiresAt(r) \in Nat /\ ExpiresAt(r) > r.activity + Skew
  <2>1. r.activity \in Nat
    BY <1>1
  <2>. QED BY <2>1, BoundFacts DEF ExpiresAt
<1>. QED BY <1>1, <1>2, <1>3, LifecycleConstants DEF NoThread, Free

\* A write has the events of its checkpoint and, unless it creates the row, follows it.
LEMMA UpdatedFollows ==
    ASSUME NEW r \in Record, NEW fresh \in SUBSET Events, NEW creating \in BOOLEAN,
           NEW t \in 0..MaxTime, r.version < MaxVersion,
           fresh \subseteq r.events \/ r.activity <= t
    PROVE  LET next == Updated(r, fresh, creating, t) IN
           /\ next \in Record
           /\ fresh \subseteq next.events
           /\ r.activity <= next.activity
           /\ ~creating => Advances(r, next)
<1> DEFINE next == Updated(r, fresh, creating, t)
<1>1. /\ next.version = IF creating THEN r.version ELSE r.version + 1
      /\ next.activity = IF fresh \subseteq r.events THEN r.activity ELSE t
      /\ next.events = r.events \cup fresh
      /\ next = [version |-> next.version, activity |-> next.activity, events |-> next.events]
  BY DEF Updated
<1>. HIDE DEF next
<1>2. next.version \in 1..MaxVersion /\ next.activity \in 0..MaxTime
  <2>1. r.version \in 1..MaxVersion /\ r.activity \in 0..MaxTime
    BY RowFacts
  <2>2. CASE creating
    BY <1>1, <2>1, <2>2
  <2>3. CASE ~creating
    BY <1>1, <2>1, <2>3, BoundFacts
  <2>. QED BY <2>2, <2>3
<1>3. next.events \in {e \cup {"creation"} : e \in SUBSET Events}
  <2>1. next.events = (next.events \cap Events) \cup {"creation"}
    BY <1>1, RowFacts
  <2>. QED BY <2>1
<1>4. next \in Record
  BY <1>1, <1>2, <1>3 DEF Record
<1>5. r.activity <= next.activity
  BY <1>1, RowFacts
<1>. QED BY <1>1, <1>4, <1>5 DEF next, Advances

LEMMA IdleFacts ==
    /\ Idle \in SessionState /\ Idle.pc = "idle"
    /\ NoPreview \in PreviewState
  BY DEF Idle, SessionState, SessionStates, PreviewState

LEMMA InitIInv == Init => IInv
<1>. SUFFICES ASSUME Init PROVE IInv
  OBVIOUS
<1>1. \A p \in Procs : /\ proc[p].session = Idle /\ proc[p].preview = NoPreview
                       /\ lock # p
  BY RowFacts DEF Init
<1>2. proc \in [Procs -> ProcState]
  BY IdleFacts DEF Init, ProcState
<1>3. TypeOK
  <2>1. /\ saved \in {NoThread} \cup SUBSET Events /\ now \in 0..MaxTime
        /\ writes \in Nat /\ erased \in Nat
        /\ record \in Record \cup {NoRecord} /\ lock \in Procs \cup {Free}
    BY BoundFacts DEF Init
  <2>. QED BY <1>1, <2>1, IdleFacts DEF TypeOK, Session
<1>4. CheckpointCovered
  BY DEF Init, CheckpointCovered
<1>5. OpenIsCurrent /\ WriteFollows /\ PreviewIsKept /\ CreatedIsYounger /\ PruneIsUntouched
  BY <1>1, IdleFacts
  DEF OpenIsCurrent, WriteFollows, PreviewIsKept, CreatedIsYounger, PruneIsUntouched, Session
<1>. QED BY <1>2, <1>3, <1>4, <1>5 DEF IInv

-----------------------------------------------------------------------------
(* What kinds of steps there are.                                            *)

\* The process that has the lock, or takes it, is the only one that is not idle.
LEMMA OthersIdle ==
    ASSUME IInv, NEW p \in Procs, lock \in {p, Free}
    PROVE  \A q \in Procs : q # p => Session(q).pc = "idle"
  BY RowFacts DEF IInv, TypeOK

\* A process goes on while nothing is written.
LEMMA SessionGoes ==
    ASSUME IInv, NEW p \in Procs, NEW state \in SessionState, Begins(p, state),
           lock \in {p, Free}, lock' = IF state.pc = "idle" THEN Free ELSE p,
           state.pc \in {"open", "writing"} =>
               /\ state.since = erased
               /\ IF state.creating
                  THEN /\ state.previous \in Record /\ record = NoRecord /\ saved = NoThread
                       /\ \A q \in Procs :
                            proc[q].preview # NoPreview
                              => state.previous.activity > proc[q].preview.candidate.activity
                  ELSE record # NoRecord,
           state.pc = "writing" =>
               /\ state.previous \in Record
               /\ state.write \in SUBSET Events /\ state.write \subseteq state.previous.events
               /\ ~state.creating => Advances(record, state.previous),
           state.pc = "pruning" =>
               proc[p].preview # NoPreview /\ proc[p].preview.writes = writes,
           UNCHANGED <<record, saved, now, writes, erased>>
    PROVE  IInv'
<1>1. /\ proc' \in [Procs -> ProcState]
      /\ proc'[p].session = state /\ proc'[p].preview = proc[p].preview
      /\ \A q \in Procs : q # p => proc'[q] = proc[q]
  BY DEF Begins, IInv, ProcState
<1>2. \A q \in Procs : q # p => proc[q].session.pc = "idle"
  BY OthersIdle DEF Session
<1>3. \A q \in Procs : proc'[q].preview = proc[q].preview
  BY <1>1
<1>4. TypeOK'
  <2>1. \A q \in Procs : proc'[q].session.pc # "idle" <=> lock' = q
    BY <1>1, <1>2, RowFacts
  <2>2. \A q \in Procs :
          /\ proc'[q].session.pc \in {"idle", "open", "writing", "pruning", "deleting"}
          /\ proc'[q].session.pc = "writing" => proc'[q].session.previous \in Record
    BY <1>1, <1>2 DEF SessionState, SessionStates
  <2>3. lock' \in Procs \cup {Free}
    OBVIOUS
  <2>. QED BY <2>1, <2>2, <2>3 DEF IInv, TypeOK, Session
<1>5. CheckpointCovered'
  BY DEF IInv, CheckpointCovered
<1>6. OpenIsCurrent' /\ WriteFollows'
  BY <1>1, <1>2 DEF OpenIsCurrent, WriteFollows, Session
<1>7. PreviewIsKept'
  BY <1>3 DEF IInv, PreviewIsKept
<1>8. CreatedIsYounger' /\ PruneIsUntouched'
  BY <1>1, <1>2, <1>3 DEF CreatedIsYounger, PruneIsUntouched, Session
<1>. QED BY <1>1, <1>4, <1>5, <1>6, <1>7, <1>8 DEF IInv

\* A process stops, or forgets its preview, while nothing is written.
LEMMA ProcessStops ==
    ASSUME IInv, NEW p \in Procs, NEW preview \in {NoPreview, proc[p].preview},
           proc' = [proc EXCEPT ![p] = [session |-> Idle, preview |-> preview]],
           lock \in {p, Free}, lock' = Free,
           UNCHANGED <<record, saved, now, writes, erased>>
    PROVE  IInv'
<1>1. /\ proc'[p].session = Idle /\ proc'[p].preview = preview
      /\ \A q \in Procs : q # p => proc'[q] = proc[q]
  BY DEF IInv
<1>2. proc' \in [Procs -> ProcState]
  BY IdleFacts DEF IInv, ProcState
<1>3. \A q \in Procs : proc'[q].session.pc = "idle"
  BY <1>1, OthersIdle, IdleFacts DEF Session
<1>4. TypeOK'
  BY <1>3, RowFacts DEF IInv, TypeOK, Session
<1>5. CheckpointCovered'
  BY DEF IInv, CheckpointCovered
<1>6. OpenIsCurrent' /\ WriteFollows' /\ CreatedIsYounger' /\ PruneIsUntouched'
  BY <1>3 DEF OpenIsCurrent, WriteFollows, CreatedIsYounger, PruneIsUntouched, Session
<1>7. PreviewIsKept'
  BY <1>1 DEF IInv, PreviewIsKept
<1>. QED BY <1>2, <1>4, <1>5, <1>6, <1>7 DEF IInv

-----------------------------------------------------------------------------
(* The steps.                                                                *)

\* A clock lags by Skew at most.
LEMMA ReadingFacts ==
    ASSUME IInv
    PROVE  \A t \in Reading : t \in 0..MaxTime /\ t <= now /\ t >= now - Skew
<1>1. now \in 0..MaxTime
  BY DEF IInv, TypeOK
<1>. QED BY <1>1, BoundFacts DEF Reading

LEMMA OpenStep ==
    ASSUME IInv, NEW p \in Procs, OpenCreate(p) \/ Open(p)
    PROVE  IInv'
<1>1. erased \in Nat
  BY DEF IInv, TypeOK
<1>2. CASE OpenCreate(p)
  <2>1. PICK t \in Reading :
          Begins(p, [Idle EXCEPT !.pc = "open", !.creating = TRUE, !.since = erased,
                    !.previous = [version |-> 1, activity |-> t, events |-> {"creation"}]])
    BY <1>2 DEF OpenCreate
  <2> DEFINE first == [version |-> 1, activity |-> t, events |-> {"creation"}]
             state == [Idle EXCEPT !.pc = "open", !.creating = TRUE, !.since = erased,
                                   !.previous = first]
  <2>2. first \in Record /\ first.activity = t
    <3>1. {"creation"} = {} \cup {"creation"} /\ {} \in SUBSET Events
      OBVIOUS
    <3>2. t \in 0..MaxTime /\ 1 \in 1..MaxVersion
      BY ReadingFacts, BoundFacts
    <3>. QED BY <3>1, <3>2 DEF Record
  <2>3. \A q \in Procs : proc[q].preview # NoPreview => t > proc[q].preview.candidate.activity
    <3>1. SUFFICES ASSUME NEW q \in Procs, proc[q].preview # NoPreview
                   PROVE  t > proc[q].preview.candidate.activity
      OBVIOUS
    <3> DEFINE preview == proc[q].preview
    <3>2. preview.candidate \in Record /\ preview.cutoff \in Nat
      BY <3>1 DEF IInv, ProcState, PreviewState
    <3>3. ExpiresAt(preview.candidate) <= preview.cutoff /\ preview.cutoff <= now
      BY <3>1 DEF IInv, PreviewIsKept
    <3>4. /\ preview.candidate.activity \in Nat /\ ExpiresAt(preview.candidate) \in Nat
          /\ ExpiresAt(preview.candidate) > preview.candidate.activity + Skew
      <4>1. preview.candidate.activity \in 0..MaxTime
        BY <3>2, RowFacts
      <4>. QED BY <3>2, <4>1, RowFacts
    <3>5. t \in Nat /\ t >= now - Skew /\ now \in Nat /\ Skew \in Nat
      BY ReadingFacts, BoundFacts DEF IInv, TypeOK
    <3>. HIDE DEF preview
    <3>6. t > preview.candidate.activity
      BY <3>2, <3>3, <3>4, <3>5
    <3>. QED BY <3>6 DEF preview
  <2>. HIDE DEF first
  <2>4. /\ state \in SessionState /\ state.pc = "open" /\ state.creating
        /\ state.since = erased /\ state.previous = first
    BY <1>1, <2>2, IdleFacts DEF SessionState, SessionStates
  <2>5. Begins(p, state)
    BY <2>1 DEF first
  <2>. HIDE DEF state
  <2>. QED BY <1>2, <2>2, <2>3, <2>4, <2>5, SessionGoes DEF OpenCreate, MayLock
<1>3. CASE Open(p)
  <2> DEFINE state == [Idle EXCEPT !.pc = "open", !.previous = record, !.since = erased]
  <2>1. /\ state \in SessionState /\ state.pc = "open" /\ ~state.creating
        /\ state.since = erased
    BY <1>1 DEF SessionState, SessionStates, Idle, IInv, TypeOK
  <2>2. Begins(p, state)
    BY <1>3 DEF Open
  <2>. HIDE DEF state
  <2>. QED BY <1>3, <2>1, <2>2, SessionGoes DEF Open, MayLock
<1>. QED BY <1>2, <1>3

\* What every step that keeps or frees the lock starts from.
LEMMA HolderFacts ==
    ASSUME IInv, NEW p \in Procs
    PROVE  /\ Session(p) \in SessionState
           /\ Session(p).pc # "idle" => lock = p
  BY DEF IInv, TypeOK, ProcState, Session

LEMMA BeginWriteStep ==
    ASSUME IInv, NEW p \in Procs, BeginWrite(p)
    PROVE  IInv'
<1> DEFINE s == Session(p)
           r == Previous(p)
           had == IF saved = NoThread THEN {} ELSE saved
<1>1. /\ s \in SessionState /\ s.pc = "open" /\ lock = p
      /\ s.since = erased /\ s.creating \in BOOLEAN
      /\ IF s.creating THEN s.previous \in Record /\ record = NoRecord /\ saved = NoThread
         ELSE record # NoRecord
  BY HolderFacts DEF BeginWrite, IInv, OpenIsCurrent, SessionState
<1>2. r \in Record /\ r = IF s.creating THEN s.previous ELSE record
  BY <1>1 DEF Previous, IInv, TypeOK
<1>3. had \in SUBSET Events
  BY DEF IInv, TypeOK
<1>4. PICK ledger \in {had} \cup {had \cup {e} : e \in Events}, t \in Reading :
        /\ ledger \subseteq r.events \/ r.activity <= t
        /\ Begins(p, [s EXCEPT !.pc = "writing",
                               !.previous = Updated(r, ledger, s.creating, t),
                               !.write = ledger])
  BY DEF BeginWrite
<1>5. ledger \in SUBSET Events
  BY <1>3, <1>4
<1> DEFINE next == Updated(r, ledger, s.creating, t)
           state == [s EXCEPT !.pc = "writing", !.previous = next, !.write = ledger]
<1>6. r.version < MaxVersion /\ t \in 0..MaxTime
  BY ReadingFacts DEF BeginWrite
<1>. HIDE DEF s, r, had
<1>7. /\ next \in Record /\ ledger \subseteq next.events /\ r.activity <= next.activity
      /\ ~s.creating => Advances(r, next)
  BY <1>1, <1>2, <1>4, <1>5, <1>6, UpdatedFollows
<1>8. Begins(p, state)
  BY <1>4
<1>. HIDE DEF next
<1>9. /\ state \in SessionState /\ state.pc = "writing" /\ state.creating = s.creating
      /\ state.since = erased /\ state.previous = next /\ state.write = ledger
  BY <1>1, <1>5, <1>7 DEF SessionState, SessionStates
<1>10. ASSUME s.creating, NEW q \in Procs, proc[q].preview # NoPreview
       PROVE  next.activity > proc[q].preview.candidate.activity
  <2>1. r.activity > proc[q].preview.candidate.activity
    BY <1>1, <1>2, <1>10 DEF IInv, CreatedIsYounger, s
  <2>2. proc[q].preview.candidate \in Record
    BY <1>10 DEF IInv, ProcState, PreviewState
  <2>3. {r.activity, next.activity, proc[q].preview.candidate.activity} \subseteq Nat
    BY <1>2, <1>7, <2>2, RowFacts
  <2>. QED BY <1>7, <2>1, <2>3
<1>. HIDE DEF state
<1>. QED BY <1>1, <1>2, <1>5, <1>7, <1>8, <1>9, <1>10, SessionGoes DEF BeginWrite

\* The commit: the row is what the transaction computed, and the checkpoint its own.
LEMMA CommitStep ==
    ASSUME IInv, NEW p \in Procs, CommitWrite(p)
    PROVE  IInv'
<1> DEFINE s == Session(p)
           state == [s EXCEPT !.pc = "open", !.creating = FALSE, !.write = NoThread]
<1>1. /\ s \in SessionState /\ s.pc = "writing" /\ lock = p
      /\ s.since = erased /\ s.creating \in BOOLEAN
      /\ s.creating => record = NoRecord
      /\ ~s.creating => record # NoRecord /\ Advances(record, s.previous)
      /\ s.previous \in Record /\ s.write \in SUBSET Events /\ s.write \subseteq s.previous.events
  BY HolderFacts DEF CommitWrite, IInv, OpenIsCurrent, WriteFollows, SessionState
<1>2. Begins(p, state) /\ record' = s.previous /\ saved' = s.write
      /\ writes' = writes + 1 /\ UNCHANGED <<lock, now, erased>>
  BY DEF CommitWrite
<1>. HIDE DEF s
<1>3. /\ state \in SessionState /\ state.pc = "open" /\ ~state.creating
      /\ state.since = erased
  BY <1>1 DEF SessionState, SessionStates
<1>. HIDE DEF state
<1>4. /\ proc' \in [Procs -> ProcState]
      /\ proc'[p].session = state
      /\ \A q \in Procs : q # p => proc'[q] = proc[q]
      /\ \A q \in Procs : proc'[q].preview = proc[q].preview
  BY <1>2, <1>3 DEF Begins, IInv, ProcState
<1>5. \A q \in Procs : q # p => proc[q].session.pc = "idle"
  BY <1>1, OthersIdle DEF Session
<1>6. record' \in Record /\ record' # NoRecord /\ saved' # NoThread
  BY <1>1, <1>2, RowFacts
<1>7. TypeOK'
  <2>1. \A q \in Procs : /\ proc'[q].session.pc # "idle" <=> lock' = q
                         /\ proc'[q].session.pc \in {"idle", "open"}
    BY <1>1, <1>2, <1>3, <1>4, <1>5
  <2>2. writes' \in Nat
    BY <1>2 DEF IInv, TypeOK
  <2>. QED BY <1>1, <1>2, <1>6, <2>1, <2>2 DEF IInv, TypeOK, Session
<1>8. CheckpointCovered'
  BY <1>1, <1>2, <1>6 DEF CheckpointCovered
<1>9. OpenIsCurrent' /\ WriteFollows'
  BY <1>2, <1>3, <1>4, <1>5, <1>6 DEF OpenIsCurrent, WriteFollows, Session
<1>10. PreviewIsKept'
  <2>1. SUFFICES ASSUME NEW q \in Procs, proc[q].preview # NoPreview
                 PROVE  /\ proc[q].preview.writes < writes'
                        /\ Newer(record', proc[q].preview.candidate)
    <3>1. \A q \in Procs : proc[q].preview # NoPreview =>
            proc[q].preview.writes \in Nat
      BY DEF IInv, ProcState, PreviewState
    <3>. QED BY <1>2, <1>4, <3>1 DEF IInv, TypeOK, PreviewIsKept
  <2> DEFINE preview == proc[q].preview
             candidate == preview.candidate
  <2>2. /\ preview.writes \in Nat /\ writes \in Nat /\ preview.writes <= writes
        /\ candidate \in Record
        /\ IF preview.writes = writes THEN record \in {NoRecord, candidate}
           ELSE record # NoRecord => Newer(record, candidate)
    BY <2>1 DEF IInv, TypeOK, ProcState, PreviewState, PreviewIsKept
  <2>3. CASE s.creating
    <3>1. s.previous.activity > candidate.activity
      BY <1>1, <2>1, <2>3 DEF IInv, CreatedIsYounger, s
    <3>. QED BY <1>2, <2>2, <3>1 DEF Newer
  <2>4. CASE ~s.creating
    <3>1. record \in Record /\ (record = candidate \/ Newer(record, candidate))
      BY <1>1, <2>2, <2>4 DEF IInv, TypeOK
    <3>2. s.previous.version = record.version + 1 /\ record.activity <= s.previous.activity
      BY <1>1, <2>4 DEF Advances
    <3>3. {record.version, s.previous.version, candidate.version,
           record.activity, s.previous.activity, candidate.activity} \subseteq Nat
      BY <1>1, <2>2, <3>1, RowFacts
    <3>. HIDE DEF preview, candidate
    <3>4. Newer(s.previous, candidate)
      BY <3>1, <3>2, <3>3 DEF Newer
    <3>. QED BY <1>2, <2>2, <3>4 DEF preview, candidate
  <2>. QED BY <2>3, <2>4, <1>1
<1>11. CreatedIsYounger' /\ PruneIsUntouched'
  BY <1>3, <1>4, <1>5 DEF CreatedIsYounger, PruneIsUntouched, Session
<1>. QED BY <1>4, <1>7, <1>8, <1>9, <1>10, <1>11 DEF IInv

\* Steps that leave the sessions, the row and the checkpoint alone.
LEMMA SessionsStay ==
    ASSUME IInv, \A q \in Procs : proc'[q].session = proc[q].session,
           UNCHANGED <<record, saved, lock, now, writes, erased>>
    PROVE  TypeOK' /\ CheckpointCovered' /\ OpenIsCurrent' /\ WriteFollows'
<1>1. TypeOK'
  BY DEF IInv, TypeOK, Session
<1>2. CheckpointCovered'
  BY DEF IInv, CheckpointCovered
<1>3. OpenIsCurrent'
  BY DEF IInv, OpenIsCurrent, Session
<1>4. WriteFollows'
  BY DEF IInv, WriteFollows, Session
<1>. QED BY <1>1, <1>2, <1>3, <1>4

\* A preview takes no lock and changes nothing but what its process remembers.
LEMMA PreviewStep ==
    ASSUME IInv, NEW p \in Procs, Preview(p)
    PROVE  IInv'
<1>1. PICK t \in Reading :
        /\ ExpiresAt(record) <= t
        /\ proc' = [proc EXCEPT ![p].preview =
                       [cutoff |-> t, candidate |-> record, writes |-> writes]]
  BY DEF Preview
<1> DEFINE new == [cutoff |-> t, candidate |-> record, writes |-> writes]
<1>2. /\ record \in Record /\ record # NoRecord /\ Session(p).pc = "idle"
      /\ UNCHANGED <<record, saved, lock, now, writes, erased>>
      /\ t \in Nat /\ t <= now /\ writes \in Nat
  BY ReadingFacts, BoundFacts DEF Preview, IInv, TypeOK
<1>3. /\ new \in PreviewState /\ new.candidate = record
      /\ new.cutoff = t /\ new.writes = writes
  BY <1>2 DEF PreviewState
<1>. HIDE DEF new
<1>4. /\ proc' \in [Procs -> ProcState] /\ proc'[p].preview = new
      /\ \A q \in Procs : /\ proc'[q].session = proc[q].session
                          /\ q # p => proc'[q].preview = proc[q].preview
  BY <1>1, <1>3 DEF IInv, ProcState, new
<1>5. \A q \in Procs : proc'[q].session = proc[q].session
  BY <1>4
<1>6. TypeOK' /\ CheckpointCovered' /\ OpenIsCurrent' /\ WriteFollows'
  BY <1>2, <1>5, SessionsStay
<1>7. PreviewIsKept'
  <2>1. ExpiresAt(new.candidate) <= new.cutoff /\ new.cutoff <= now /\ new.writes <= writes
    BY <1>1, <1>2, <1>3
  <2>. QED BY <1>2, <1>3, <1>4, <2>1 DEF IInv, PreviewIsKept
<1>8. \A q \in Procs : ~(Session(q).pc \in {"open", "writing"} /\ Session(q).creating)
  BY <1>2 DEF IInv, OpenIsCurrent
<1>9. CreatedIsYounger'
  BY <1>5, <1>8 DEF CreatedIsYounger, Session
<1>10. PruneIsUntouched'
  BY <1>2, <1>4 DEF IInv, PruneIsUntouched, Session
<1>. QED BY <1>4, <1>6, <1>7, <1>9, <1>10 DEF IInv

\* The row that a prune compares with its candidate is the one the preview saw: any
\* write since has made it a newer one.
LEMMA BeginPruneStep ==
    ASSUME IInv, NEW p \in Procs, BeginPrune(p)
    PROVE  IInv'
<1> DEFINE preview == proc[p].preview
<1>1. /\ proc[p] \in ProcState /\ lock = Free /\ proc[p].session.pc = "idle"
      /\ preview # NoPreview
      /\ UNCHANGED <<record, saved, now, writes, erased>>
  BY DEF BeginPrune, MayLock, IInv, Session
<1>2. CASE /\ UnchangedExpired(preview)
           /\ lock' = p
           /\ Begins(p, [Idle EXCEPT !.pc = "pruning"])
  <2>1. preview.writes = writes
    <3>1. record = preview.candidate /\ record \in Record
      BY <1>2 DEF UnchangedExpired, IInv, TypeOK
    <3>2. ~Newer(record, preview.candidate)
      BY <3>1, RowFacts DEF Newer
    <3>. QED BY <1>1, <1>2, <3>2 DEF IInv, PreviewIsKept, UnchangedExpired
  <2> DEFINE state == [Idle EXCEPT !.pc = "pruning"]
  <2>2. state \in SessionState /\ state.pc = "pruning"
    BY IdleFacts DEF SessionState, SessionStates
  <2>. HIDE DEF state, preview
  <2>. QED BY <1>1, <1>2, <2>1, <2>2, SessionGoes DEF state, preview
<1>3. CASE /\ lock' = Free
           /\ proc' = [proc EXCEPT ![p].preview = NoPreview]
  <2>1. /\ proc' \in [Procs -> ProcState] /\ proc'[p].preview = NoPreview
        /\ \A q \in Procs : /\ proc'[q].session = proc[q].session
                            /\ q # p => proc'[q].preview = proc[q].preview
    BY <1>1, <1>3, IdleFacts DEF IInv, ProcState
  <2>2. TypeOK' /\ CheckpointCovered' /\ OpenIsCurrent' /\ WriteFollows'
    BY <1>1, <1>3, <2>1, SessionsStay
  <2>3. PreviewIsKept' /\ CreatedIsYounger'
    BY <1>1, <2>1 DEF IInv, PreviewIsKept, CreatedIsYounger, Session
  <2>4. PruneIsUntouched'
    BY <1>1, <2>1 DEF IInv, PruneIsUntouched, Session
  <2>. QED BY <2>1, <2>2, <2>3, <2>4 DEF IInv
<1>. QED BY <1>2, <1>3 DEF BeginPrune

\* Nothing is open while a process erases.
LEMMA EraseStep ==
    ASSUME IInv, NEW p \in Procs, Erase(p)
    PROVE  IInv'
<1> DEFINE kept == IF Session(p).pc = "pruning" THEN NoPreview ELSE proc[p].preview
<1>1. /\ lock = p /\ record' = NoRecord /\ saved' = NoThread /\ erased' = erased + 1
      /\ lock' = Free /\ UNCHANGED <<now, writes>>
      /\ proc' = [proc EXCEPT ![p] = [session |-> Idle, preview |-> kept]]
  BY HolderFacts DEF Erase, IInv
<1>2. kept \in PreviewState /\ kept \in {NoPreview, proc[p].preview}
  BY IdleFacts DEF IInv, ProcState
<1>. HIDE DEF kept
<1>3. /\ proc' \in [Procs -> ProcState]
      /\ proc'[p].session = Idle /\ proc'[p].preview = kept
      /\ \A q \in Procs : q # p => proc'[q] = proc[q]
  BY <1>1, <1>2, IdleFacts DEF IInv, ProcState
<1>4. \A q \in Procs : proc'[q].session.pc = "idle"
  BY <1>1, <1>3, OthersIdle, IdleFacts DEF Session
<1>5. TypeOK'
  BY <1>1, <1>4, RowFacts DEF IInv, TypeOK, Session
<1>6. CheckpointCovered' /\ OpenIsCurrent' /\ WriteFollows' /\ CreatedIsYounger'
      /\ PruneIsUntouched'
  BY <1>1, <1>4
  DEF CheckpointCovered, OpenIsCurrent, WriteFollows, CreatedIsYounger, PruneIsUntouched,
      Session
<1>7. PreviewIsKept'
  BY <1>1, <1>2, <1>3 DEF IInv, PreviewIsKept
<1>. QED BY <1>3, <1>5, <1>6, <1>7 DEF IInv

LEMMA TickStep ==
    ASSUME IInv, Tick
    PROVE  IInv'
<1>1. /\ now' = now + 1 /\ now < MaxTime
      /\ UNCHANGED <<record, saved, lock, proc, writes, erased>>
  BY DEF Tick
<1>2. now' \in 0..MaxTime /\ now \in Nat
  BY <1>1, BoundFacts DEF IInv, TypeOK
<1>3. TypeOK' /\ CheckpointCovered' /\ OpenIsCurrent' /\ WriteFollows' /\ CreatedIsYounger'
      /\ PruneIsUntouched'
  BY <1>1, <1>2
  DEF IInv, TypeOK, CheckpointCovered, OpenIsCurrent, WriteFollows, CreatedIsYounger,
      PruneIsUntouched, Session
<1>4. PreviewIsKept'
  <2>1. \A p \in Procs : proc[p].preview # NoPreview => proc[p].preview.cutoff \in Nat
    BY DEF IInv, ProcState, PreviewState
  <2>. QED BY <1>1, <1>2, <2>1 DEF IInv, PreviewIsKept
<1>. QED BY <1>1, <1>3, <1>4 DEF IInv

LEMMA ProcStep ==
    ASSUME IInv, NEW p \in Procs,
           \/ OpenCreate(p) \/ Open(p) \/ Close(p)
           \/ BeginWrite(p) \/ CommitWrite(p)
           \/ Preview(p) \/ BeginPrune(p) \/ BeginDelete(p) \/ Erase(p)
           \/ Crash(p)
    PROVE  IInv'
<1>1. CASE Close(p)
  BY <1>1, HolderFacts, IdleFacts, SessionGoes DEF Close
<1>2. CASE BeginDelete(p)
  <2> DEFINE state == [Idle EXCEPT !.pc = "deleting"]
  <2>1. state \in SessionState /\ state.pc = "deleting"
    BY IdleFacts DEF SessionState, SessionStates
  <2>2. /\ Begins(p, state) /\ lock = Free /\ lock' = p
        /\ UNCHANGED <<record, saved, now, writes, erased>>
    BY <1>2 DEF BeginDelete, MayLock
  <2>. HIDE DEF state
  <2>. QED BY <2>1, <2>2, SessionGoes
<1>3. CASE Crash(p)
  BY <1>3, HolderFacts, ProcessStops DEF Crash
<1>. QED BY <1>1, <1>2, <1>3, OpenStep, BeginWriteStep, CommitStep, PreviewStep,
            BeginPruneStep, EraseStep

LEMMA NextIInv ==
    ASSUME IInv, [Next]_vars
    PROVE  IInv'
<1>1. CASE UNCHANGED vars
  BY <1>1
  DEF vars, IInv, TypeOK, CheckpointCovered, OpenIsCurrent, WriteFollows, PreviewIsKept,
      CreatedIsYounger, PruneIsUntouched, Session
<1>. QED BY <1>1, ProcStep, TickStep DEF Next

LEMMA Inductive == Spec => []IInv
  BY InitIInv, NextIInv, PTL DEF Spec

-----------------------------------------------------------------------------
(* The theorems.                                                             *)

\* The row, the checkpoint and the sessions have their types; whoever is in a session
\* has the thread's advisory lock.
THEOREM TypeCorrect == Spec => []TypeOK
  BY Inductive, PTL DEF IInv

\* ManagedSaver.commit and erase keep metadata and checkpoint together: every event of a
\* checkpoint was counted, and no checkpoint is left without its row.
THEOREM MetadataAgrees == Spec => []CheckpointCovered
  BY Inductive, PTL DEF IInv

\* Only a commit moves the row on.
LEMMA Writers ==
    ASSUME [Next]_vars, record # NoRecord, record' \notin {record, NoRecord}
    PROVE  \E p \in Procs : CommitWrite(p)
<1>1. record' # record /\ record' # NoRecord
  OBVIOUS
<1>2. ~UNCHANGED vars /\ ~Tick
  BY <1>1 DEF vars, Tick
<1>3. ASSUME NEW p \in Procs
      PROVE  /\ ~OpenCreate(p) /\ ~Open(p) /\ ~Close(p) /\ ~BeginWrite(p) /\ ~Preview(p)
             /\ ~BeginPrune(p) /\ ~BeginDelete(p) /\ ~Crash(p) /\ ~Erase(p)
  BY <1>1
  DEF OpenCreate, Open, Close, BeginWrite, Preview, BeginPrune, BeginDelete, Crash, Erase
<1>. QED BY <1>2, <1>3 DEF Next

\* The row's version counts every commit once, its events only grow, and only a new one
\* renews its retention (_updated).
THEOREM RecordsAdvance == Spec => RecordAdvances
<1>1. ASSUME IInv, [Next]_vars, record # NoRecord, record' \notin {record, NoRecord}
      PROVE  Advances(record, record')
  <2>1. PICK p \in Procs : CommitWrite(p)
    BY <1>1, Writers
  <2>2. Session(p).pc = "writing" /\ record' = Session(p).previous
    BY <2>1 DEF CommitWrite
  <2>3. ~Session(p).creating
    BY <1>1, <2>2 DEF IInv, OpenIsCurrent
  <2>. QED BY <1>1, <2>2, <2>3 DEF IInv, WriteFollows
<1>2. IInv /\ [Next]_vars
        => [record # NoRecord /\ record' \notin {record, NoRecord}
              => Advances(record, record')]_vars
  BY <1>1
<1>. QED BY <1>2, Inductive, PTL DEF Spec, RecordAdvances, Advances

\* prune spares a review that was written to since preview_expired saw it, also when it
\* was deleted and created again in between.
THEOREM PruneSpares == Spec => PruneSparesTouched
<1>1. ASSUME IInv, [Next]_vars
      PROVE  \A p \in Procs : Session(p).pc = "pruning" /\ erased' # erased
                               => proc[p].preview.writes = writes
  BY <1>1 DEF IInv, PruneIsUntouched
<1>. QED BY <1>1, Inductive, PTL DEF Spec, PruneSparesTouched

\* A handle that was open before a deletion never writes after it.
THEOREM DeletedStaysDeleted == Spec => NoResurrection
<1>1. ASSUME IInv, [Next]_vars
      PROVE  writes' # writes
                => \A p \in Procs : Session(p).pc = "writing" => Session(p).since = erased
  BY <1>1 DEF IInv, OpenIsCurrent
<1>. QED BY <1>1, Inductive, PTL DEF Spec, NoResurrection
=============================================================================
