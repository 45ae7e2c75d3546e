-------------------------- MODULE FundRegistry_proofs --------------------------
(***************************************************************************)
(* The fund identity registry keeps one history, for any number of          *)
(* publishers, funds, share classes, calls and faults.                       *)
(***************************************************************************)
EXTENDS FundRegistry, TLAPS

-----------------------------------------------------------------------------
(* The inductive invariant.                                                  *)

FundMap == [Keys -> Fund \cup {Absent}]
Results == {"none", "published", "uncertain", "refused"}
States ==
    {"idle", "waiting", "locked", "validated", "stored", "moved", "cleaning", "leaving"}
Holding == States \ {"idle", "waiting"}

\* A call is a record; its envelope may be any that a curator made up.
CallType(r) ==
    /\ r = [pc |-> r.pc, call |-> r.call, envelope |-> r.envelope, expected |-> r.expected,
            committed |-> r.committed, result |-> r.result]
    /\ r.pc \in States /\ r.committed \in BOOLEAN /\ r.result \in Results
    /\ r.envelope.funds \in FundMap

\* What the state r of a call has earned: under the lock the validation stays true until
\* the pointer is replaced; a call knows whether it published.
Earned(r, stored, current, called, past, told) ==
    /\ r.pc # "idle" => /\ r.call \in 1..called /\ told[r.call] = "none"
                        /\ r.committed <=> \E n \in DOMAIN past : past[n].call = r.call
    /\ r.pc \in {"waiting", "locked", "validated", "stored"} => ~r.committed
    /\ r.pc \in {"validated", "stored"} => Publishable(r.envelope, current, r.expected)
    /\ r.pc = "stored" => r.envelope \in stored
    /\ r.pc = "moved" => r.committed
    /\ r.pc \in {"cleaning", "leaving"} =>
         r.result \in IF r.committed THEN {"published", "uncertain"} ELSE {"refused"}

ProcsInv ==
    /\ proc = [p \in Publishers |-> proc[p]]
    /\ \A p \in Publishers :
         /\ CallType(proc[p])
         /\ Earned(proc[p], blobs, pointer, attempts, history, reports)
         /\ proc[p].pc \in Holding <=> lock = p
    /\ \A p, q \in Publishers :
         proc[p].pc # "idle" /\ proc[q].pc # "idle" /\ p # q => proc[p].call # proc[q].call

StoreType ==
    /\ \A e \in blobs : e.funds \in FundMap
    /\ history \in Seq([envelope : blobs, call : 1..attempts])
    /\ reports \in Seq(Results) /\ Len(reports) = attempts /\ attempts \in Nat

IInv ==
    /\ StoreType
    /\ ProcsInv
    /\ RegistryIsOneHistory

-----------------------------------------------------------------------------
(* Sequences, types and calls.                                               *)

LEMMA AppendFacts ==
    ASSUME NEW S, NEW q \in Seq(S), NEW e \in S
    PROVE  /\ Append(q, e) \in Seq(S)
           /\ Len(q) \in Nat /\ Len(Append(q, e)) = Len(q) + 1
           /\ DOMAIN q = 1..Len(q) /\ DOMAIN Append(q, e) = 1..(Len(q) + 1)
           /\ \A i \in 1..Len(q) : Append(q, e)[i] = q[i]
           /\ Append(q, e)[Len(q) + 1] = e
<1>1. Append(q, e) \in Seq(S)
  OBVIOUS
<1>2. Len(q) \in Nat /\ Len(Append(q, e)) = Len(q) + 1
  OBVIOUS
<1>3. DOMAIN q = 1..Len(q) /\ DOMAIN Append(q, e) = 1..(Len(q) + 1)
  BY <1>1, <1>2
<1>4. /\ \A i \in 1..Len(q) : Append(q, e)[i] = q[i]
      /\ Append(q, e)[Len(q) + 1] = e
  OBVIOUS
<1>. QED BY <1>1, <1>2, <1>3, <1>4

LEMMA ElementType ==
    ASSUME NEW S, NEW q \in Seq(S), NEW i \in DOMAIN q
    PROVE  q[i] \in S
  OBVIOUS

\* A sequence over a set is one over any larger set.
LEMMA SeqMonotone ==
    ASSUME NEW S, NEW T, S \subseteq T, NEW q \in Seq(S)
    PROVE  q \in Seq(T)
<1>1. Len(q) \in Nat /\ DOMAIN q = 1..Len(q) /\ q = [i \in 1..Len(q) |-> q[i]]
  OBVIOUS
<1>2. \A i \in 1..Len(q) : q[i] \in T
  BY <1>1, ElementType, Zenon
<1>. QED BY <1>1, <1>2

LEMMA HistoryGrows ==
    ASSUME StoreType, blobs \subseteq blobs', attempts' \in Nat, attempts <= attempts',
           history' = history
    PROVE  history' \in Seq([envelope : blobs, call : 1..attempts])'
<1>1. [envelope : blobs, call : 1..attempts] \subseteq [envelope : blobs', call : 1..attempts']
  BY DEF StoreType
<1>2. history \in Seq([envelope : blobs, call : 1..attempts])
  BY DEF StoreType
<1>3. history \in Seq([envelope : blobs', call : 1..attempts'])
  BY <1>1, <1>2, SeqMonotone, Zenon
<1>. QED BY <1>3

LEMMA HistoryFacts ==
    ASSUME IInv
    PROVE  /\ Len(history) \in Nat /\ DOMAIN history = 1..Len(history)
           /\ \A n \in DOMAIN history : /\ history[n].envelope \in blobs
                                        /\ history[n].envelope.funds \in FundMap
                                        /\ history[n].call \in 1..attempts
<1>1. Len(history) \in Nat /\ DOMAIN history = 1..Len(history)
  BY DEF IInv, StoreType
<1>2. ASSUME NEW n \in DOMAIN history
      PROVE  history[n] \in [envelope : blobs, call : 1..attempts]
  BY ElementType, Zenon DEF IInv, StoreType
<1>3. ASSUME NEW n \in DOMAIN history
      PROVE  history[n].envelope \in blobs /\ history[n].call \in 1..attempts
  BY <1>2
<1>. QED BY <1>1, <1>3 DEF IInv, StoreType

LEMMA NothingFacts == Nothing.funds \in FundMap /\ Nothing.generation = 0
  BY DEF Nothing, NoFunds, FundMap

LEMMA IdleFacts ==
    /\ CallType(Idle) /\ Idle.pc = "idle"
    /\ \A stored, current, called, past, told :
         Earned(Idle, stored, current, called, past, told)
  BY NothingFacts DEF Idle, CallType, States, Results, Earned

LEMMA InitIInv == Init => IInv
<1>. SUFFICES ASSUME Init PROVE IInv
  OBVIOUS
<1>1. StoreType
  BY DEF Init, StoreType
<1>2. \A p \in Publishers : proc[p] = Idle /\ lock # p
  BY RegistryConstants DEF Init
<1>3. ProcsInv
  BY <1>2, IdleFacts DEF Init, ProcsInv, Holding
<1>4. RegistryIsOneHistory
  BY DEF Init, RegistryIsOneHistory, Before
<1>. QED BY <1>1, <1>3, <1>4 DEF IInv

\* What a call becomes when it moves on.
LEMMA Moves ==
    ASSUME NEW r, CallType(r), NEW pc \in States
    PROVE  /\ CallType([r EXCEPT !.pc = pc])
           /\ [r EXCEPT !.pc = pc].pc = pc /\ [r EXCEPT !.pc = pc].call = r.call
           /\ [r EXCEPT !.pc = pc].envelope = r.envelope
           /\ [r EXCEPT !.pc = pc].expected = r.expected
           /\ [r EXCEPT !.pc = pc].committed = r.committed
           /\ [r EXCEPT !.pc = pc].result = r.result
<1> DEFINE q == [r EXCEPT !.pc = pc]
<1>1. r = [pc |-> r.pc, call |-> r.call, envelope |-> r.envelope, expected |-> r.expected,
           committed |-> r.committed, result |-> r.result]
  BY DEF CallType
<1>2. q = [pc |-> pc, call |-> r.call, envelope |-> r.envelope, expected |-> r.expected,
           committed |-> r.committed, result |-> r.result]
  BY <1>1
<1>. HIDE DEF q
<1>3. /\ q.pc = pc /\ q.call = r.call /\ q.envelope = r.envelope
      /\ q.expected = r.expected /\ q.committed = r.committed /\ q.result = r.result
  BY <1>2
<1>4. /\ r.committed \in BOOLEAN /\ r.result \in Results /\ r.envelope.funds \in FundMap
  BY DEF CallType
<1>5. CallType(q)
  BY <1>2, <1>3, <1>4 DEF CallType
<1>. QED BY <1>3, <1>5 DEF q

LEMMA Reports ==
    ASSUME NEW r, CallType(r), NEW result \in Results
    PROVE  /\ CallType([r EXCEPT !.result = result])
           /\ [r EXCEPT !.result = result].pc = r.pc
           /\ [r EXCEPT !.result = result].call = r.call
           /\ [r EXCEPT !.result = result].committed = r.committed
           /\ [r EXCEPT !.result = result].result = result
<1> DEFINE q == [r EXCEPT !.result = result]
<1>1. r = [pc |-> r.pc, call |-> r.call, envelope |-> r.envelope, expected |-> r.expected,
           committed |-> r.committed, result |-> r.result]
  BY DEF CallType
<1>2. q = [pc |-> r.pc, call |-> r.call, envelope |-> r.envelope, expected |-> r.expected,
           committed |-> r.committed, result |-> result]
  BY <1>1
<1>. HIDE DEF q
<1>3. /\ q.pc = r.pc /\ q.call = r.call /\ q.envelope = r.envelope
      /\ q.expected = r.expected /\ q.committed = r.committed /\ q.result = result
  BY <1>2
<1>4. r.pc \in States /\ r.committed \in BOOLEAN /\ r.envelope.funds \in FundMap
  BY DEF CallType
<1>5. CallType(q)
  BY <1>2, <1>3, <1>4 DEF CallType
<1>. QED BY <1>3, <1>5 DEF q

-----------------------------------------------------------------------------
(* What kinds of steps there are.                                            *)

\* A call goes on; the others keep what they have earned.
LEMMA CallGoes ==
    ASSUME IInv, NEW p \in Publishers, NEW r, proc' = [proc EXCEPT ![p] = r],
           CallType(r), Earned(r, blobs', pointer', attempts', history', reports'),
           r.pc \in Holding <=> lock' = p,
           lock' = lock \/ {lock, lock'} \subseteq {p, Free},
           r.pc # "idle" => \A q \in Publishers :
                              q # p /\ proc[q].pc # "idle" => proc[q].call # r.call,
           \A q \in Publishers : q # p =>
               Earned(proc[q], blobs', pointer', attempts', history', reports')
    PROVE  ProcsInv'
<1>1. /\ proc' = [q \in Publishers |-> proc'[q]] /\ proc'[p] = r
      /\ \A q \in Publishers : q # p => proc'[q] = proc[q]
  BY DEF IInv, ProcsInv
<1>2. ASSUME NEW q \in Publishers
      PROVE  /\ CallType(proc'[q])
             /\ Earned(proc'[q], blobs', pointer', attempts', history', reports')
             /\ proc'[q].pc \in Holding <=> lock' = q
  <2>1. CASE q = p
    BY <1>1, <2>1
  <2>2. CASE q # p
    <3>1. lock' = q <=> lock = q
      BY <2>2, RegistryConstants
    <3>. QED BY <1>1, <2>2, <3>1 DEF IInv, ProcsInv
  <2>. QED BY <2>1, <2>2
<1>3. ASSUME NEW q \in Publishers, NEW s \in Publishers,
             proc'[q].pc # "idle", proc'[s].pc # "idle", q # s
      PROVE  proc'[q].call # proc'[s].call
  BY <1>1, <1>3 DEF IInv, ProcsInv
<1>. QED BY <1>1, <1>2, <1>3 DEF ProcsInv

\* The pointer, the history and the reports stay.
LEMMA StoreStays ==
    ASSUME IInv, NEW p \in Publishers, NEW r, proc' = [proc EXCEPT ![p] = r],
           CallType(r), Earned(r, blobs', pointer, attempts, history, reports),
           r.pc \in Holding <=> lock' = p,
           lock' = lock \/ {lock, lock'} \subseteq {p, Free},
           r.pc # "idle" => r.call = proc[p].call /\ proc[p].pc # "idle",
           blobs \subseteq blobs', \A e \in blobs' : e.funds \in FundMap,
           UNCHANGED <<pointer, attempts, history, reports>>
    PROVE  IInv'
<1>1. StoreType'
  <2>1. attempts' \in Nat /\ attempts <= attempts'
    BY DEF IInv, StoreType
  <2>. QED BY <2>1, HistoryGrows DEF IInv, StoreType
<1>2. ASSUME NEW q \in Publishers, q # p
      PROVE  Earned(proc[q], blobs', pointer', attempts', history', reports')
  BY DEF IInv, ProcsInv, Earned
<1>3. ProcsInv'
  BY <1>2, CallGoes DEF IInv, ProcsInv
<1>4. RegistryIsOneHistory'
  BY DEF IInv, RegistryIsOneHistory, Before, Published
<1>. QED BY <1>1, <1>3, <1>4 DEF IInv

\* A call reports what it knows and is over.
LEMMA CallReports ==
    ASSUME IInv, NEW p \in Publishers, proc[p].pc # "idle", NEW result \in Results,
           result \in IF proc[p].committed THEN {"published", "uncertain"} ELSE {"refused"},
           reports' = [reports EXCEPT ![proc[p].call] = result],
           proc' = [proc EXCEPT ![p] = Idle],
           lock' # p, lock' = lock \/ {lock, lock'} \subseteq {p, Free},
           UNCHANGED <<blobs, pointer, attempts, history>>
    PROVE  IInv'
<1> DEFINE c == proc[p].call
<1>1. /\ c \in 1..attempts /\ reports \in Seq(Results) /\ Len(reports) = attempts
      /\ proc[p].committed <=> \E n \in DOMAIN history : history[n].call = c
      /\ attempts \in Nat
  BY DEF IInv, StoreType, ProcsInv, Earned
<1>. HIDE DEF c
<1>2. /\ reports' \in Seq(Results) /\ Len(reports') = attempts
      /\ DOMAIN reports' = DOMAIN reports /\ reports'[c] = result
      /\ \A d \in DOMAIN reports : d # c => reports'[d] = reports[d]
  BY <1>1 DEF c
<1>3. StoreType'
  <2>1. attempts' \in Nat /\ attempts <= attempts'
    BY <1>1
  <2>. QED BY <1>2, <2>1, HistoryGrows DEF IInv, StoreType
<1>4. ASSUME NEW q \in Publishers, q # p
      PROVE  Earned(proc[q], blobs', pointer', attempts', history', reports')
  <2>1. proc[q].pc # "idle" => /\ proc[q].call # c
                               /\ proc[q].call \in 1..attempts
                               /\ reports[proc[q].call] = "none"
    BY <1>4 DEF IInv, ProcsInv, Earned, c
  <2>2. proc[q].pc # "idle" => reports'[proc[q].call] = "none"
    BY <1>1, <1>2, <2>1
  <2>3. Earned(proc[q], blobs, pointer, attempts, history, reports)
    BY DEF IInv, ProcsInv
  <2>. QED BY <2>2, <2>3 DEF Earned
<1>5. ProcsInv'
  <2>1. Idle.pc \notin Holding
    BY IdleFacts DEF Holding
  <2>. QED BY <1>4, <2>1, IdleFacts, CallGoes
<1>6. RegistryIsOneHistory'
  <2>1. ASSUME NEW d \in DOMAIN reports'
        PROVE  /\ reports'[d] \in {"published", "uncertain"} => Published(d)'
               /\ reports'[d] = "refused" => ~Published(d)'
    BY <1>1, <1>2 DEF IInv, RegistryIsOneHistory, Published
  <2>. QED BY <2>1 DEF IInv, RegistryIsOneHistory, Before
<1>. QED BY <1>3, <1>5, <1>6 DEF IInv

-----------------------------------------------------------------------------
(* Each step keeps it.                                                       *)

\* The state of a call after Goto and Leave, with the type of the call.
LEMMA Goes ==
    ASSUME IInv, NEW p \in Publishers
    PROVE  /\ CallType(proc[p])
           /\ Earned(proc[p], blobs, pointer, attempts, history, reports)
           /\ proc[p].pc \in Holding <=> lock = p
           /\ \A pc : Goto(p, pc) => proc' = [proc EXCEPT ![p] = [proc[p] EXCEPT !.pc = pc]]
<1>1. proc = [q \in Publishers |-> proc[q]]
  BY DEF IInv, ProcsInv
<1>2. ASSUME NEW pc, Goto(p, pc)
      PROVE  proc' = [proc EXCEPT ![p] = [proc[p] EXCEPT !.pc = pc]]
  BY <1>1, <1>2 DEF Goto
<1>. QED BY <1>2 DEF IInv, ProcsInv

LEMMA Leaves ==
    ASSUME IInv, NEW p \in Publishers, NEW pc \in States, NEW result \in Results,
           Leave(p, pc, result)
    PROVE  \E r : /\ proc' = [proc EXCEPT ![p] = r] /\ CallType(r)
                  /\ r.pc = pc /\ r.call = proc[p].call /\ r.committed = proc[p].committed
                  /\ r.result = result
<1> DEFINE q == [proc[p] EXCEPT !.pc = pc]
           r == [q EXCEPT !.result = result]
<1>1. CallType(q) /\ q.pc = pc /\ q.call = proc[p].call /\ q.committed = proc[p].committed
  BY Goes, Moves
<1>2. proc' = [proc EXCEPT ![p] = r]
  BY DEF Leave, IInv, ProcsInv
<1>. HIDE DEF q
<1>3. /\ CallType(r) /\ r.pc = q.pc /\ r.call = q.call /\ r.committed = q.committed
      /\ r.result = result
  BY <1>1, Reports
<1>. HIDE DEF r
<1>. QED BY <1>1, <1>2, <1>3

LEMMA FailureFacts ==
    ASSUME IInv, NEW p \in Publishers
    PROVE  /\ Failure(p) \in Results
           /\ Failure(p) \in IF proc[p].committed THEN {"published", "uncertain"} ELSE {"refused"}
  BY DEF Failure, Results

\* What is read under the lock, and after it, is passed on.
LEMMA AcquireStep == ASSUME IInv, NEW p \in Publishers, Acquire(p) PROVE IInv'
<1> DEFINE r == [proc[p] EXCEPT !.pc = "locked"]
<1>1. /\ CallType(proc[p]) /\ Earned(proc[p], blobs, pointer, attempts, history, reports)
      /\ proc' = [proc EXCEPT ![p] = r]
  BY Goes DEF Acquire
<1>2. /\ CallType(r) /\ r.pc = "locked" /\ r.call = proc[p].call /\ r.committed = proc[p].committed
  BY <1>1, Moves DEF States
<1>. HIDE DEF r
<1>3. Earned(r, blobs', pointer, attempts, history, reports)
  BY <1>1, <1>2 DEF Earned, Acquire
<1>4. r.pc \in Holding /\ lock' = p /\ lock = Free
  BY <1>2 DEF Acquire, Holding, States
<1>. QED BY <1>1, <1>2, <1>3, <1>4, StoreStays DEF Acquire, IInv, StoreType

LEMMA TimeoutStep == ASSUME IInv, NEW p \in Publishers, Timeout(p) PROVE IInv'
<1>1. proc[p].pc \notin Holding
  BY DEF Timeout, Holding
<1>2. lock # p
  BY <1>1, Goes
<1>. QED BY <1>2, FailureFacts, CallReports DEF Timeout

LEMMA ReleaseStep == ASSUME IInv, NEW p \in Publishers, Release(p) PROVE IInv'
<1>1. /\ CallType(proc[p]) /\ Earned(proc[p], blobs, pointer, attempts, history, reports)
      /\ proc[p].pc \in Holding <=> lock = p
  BY Goes
<1>2. lock = p /\ lock' = Free /\ Free # p
  BY <1>1, RegistryConstants DEF Release, Holding, States
<1>3. CASE reports' = [reports EXCEPT ![proc[p].call] = proc[p].result]
  <2>1. /\ proc[p].result \in Results
        /\ proc[p].result \in IF proc[p].committed THEN {"published", "uncertain"} ELSE {"refused"}
    BY <1>1 DEF Release, CallType, Earned
  <2>. QED BY <1>2, <1>3, <2>1, CallReports DEF Release
<1>4. CASE reports' = [reports EXCEPT ![proc[p].call] = Failure(p)]
  BY <1>2, <1>4, FailureFacts, CallReports DEF Release
<1>. QED BY <1>3, <1>4 DEF Release

LEMMA DieStep == ASSUME IInv, NEW p \in Publishers, Die(p) PROVE IInv'
<1>1. Idle.pc \notin Holding /\ Idle.pc = "idle" /\ CallType(Idle)
      /\ Earned(Idle, blobs', pointer, attempts, history, reports)
  BY IdleFacts DEF Holding
<1>2. lock' # p /\ (lock' = lock \/ {lock, lock'} \subseteq {p, Free})
  BY RegistryConstants DEF Die
<1>. QED BY <1>1, <1>2, StoreStays DEF Die, IInv, StoreType

\* A call that keeps the lock on goes on.
LEMMA LockedGoes ==
    ASSUME IInv, NEW p \in Publishers, proc[p].pc \in Holding, NEW r,
           proc' = [proc EXCEPT ![p] = r], CallType(r), r.pc \in Holding, r.call = proc[p].call,
           Earned(r, blobs', pointer, attempts, history, reports),
           blobs' \in {blobs, blobs \cup {proc[p].envelope}},
           UNCHANGED <<pointer, lock, attempts, history, reports>>
    PROVE  IInv'
<1>1. lock = p /\ lock' = p
  BY Goes
<1>2. blobs \subseteq blobs' /\ \A e \in blobs' : e.funds \in FundMap
  BY Goes DEF IInv, StoreType, CallType
<1>3. r.call = proc[p].call /\ proc[p].pc # "idle"
  BY DEF Holding
<1>. QED BY <1>1, <1>2, <1>3, StoreStays

\* It leaves with a result that is true.
LEMMA LeavesLocked ==
    ASSUME IInv, NEW p \in Publishers, proc[p].pc \in Holding,
           NEW pc \in {"cleaning", "leaving"}, NEW result \in Results,
           result \in IF proc[p].committed THEN {"published", "uncertain"} ELSE {"refused"},
           Leave(p, pc, result), blobs' \in {blobs, blobs \cup {proc[p].envelope}},
           UNCHANGED <<pointer, lock, attempts, history, reports>>
    PROVE  IInv'
<1>1. CallType(proc[p]) /\ Earned(proc[p], blobs, pointer, attempts, history, reports)
  BY Goes
<1>2. pc \in States
  BY DEF States
<1>3. PICK r : /\ proc' = [proc EXCEPT ![p] = r] /\ CallType(r)
               /\ r.pc = pc /\ r.call = proc[p].call /\ r.committed = proc[p].committed
               /\ r.result = result
  BY <1>2, Leaves
<1>4. Earned(r, blobs', pointer, attempts, history, reports)
  BY <1>1, <1>3 DEF Earned, Holding
<1>5. r.pc \in Holding
  BY <1>3 DEF Holding, States
<1>. QED BY <1>3, <1>4, <1>5, LockedGoes

LEMMA ValidateStep == ASSUME IInv, NEW p \in Publishers, Validate(p) PROVE IInv'
<1>1. /\ CallType(proc[p]) /\ Earned(proc[p], blobs, pointer, attempts, history, reports)
      /\ proc[p].pc = "locked" /\ proc[p].pc \in Holding
  BY Goes DEF Validate, Holding, States
<1>2. CASE Publishable(proc[p].envelope, pointer, proc[p].expected) /\ Goto(p, "validated")
  <2> DEFINE r == [proc[p] EXCEPT !.pc = "validated"]
  <2>1. proc' = [proc EXCEPT ![p] = r]
    BY <1>2, Goes
  <2>2. /\ CallType(r) /\ r.pc = "validated" /\ r.call = proc[p].call
        /\ r.committed = proc[p].committed /\ r.envelope = proc[p].envelope
        /\ r.expected = proc[p].expected
    BY <1>1, Moves DEF States
  <2>. HIDE DEF r
  <2>3. Earned(r, blobs', pointer, attempts, history, reports)
    BY <1>1, <1>2, <2>2 DEF Earned
  <2>4. r.pc \in Holding
    BY <2>2 DEF Holding, States
  <2>. QED BY <1>1, <2>1, <2>2, <2>3, <2>4, LockedGoes DEF Validate
<1>3. CASE Leave(p, "leaving", "refused")
  <2>1. ~proc[p].committed
    BY <1>1 DEF Earned
  <2>. QED BY <1>1, <1>3, <2>1, LeavesLocked DEF Validate, Results
<1>. QED BY <1>2, <1>3 DEF Validate

LEMMA StoreBlobStep == ASSUME IInv, NEW p \in Publishers, StoreBlob(p) PROVE IInv'
<1>1. /\ CallType(proc[p]) /\ Earned(proc[p], blobs, pointer, attempts, history, reports)
      /\ proc[p].pc = "validated" /\ proc[p].pc \in Holding
  BY Goes DEF StoreBlob, Holding, States
<1>2. CASE blobs' = blobs \cup {proc[p].envelope} /\ Goto(p, "stored")
  <2> DEFINE r == [proc[p] EXCEPT !.pc = "stored"]
  <2>1. proc' = [proc EXCEPT ![p] = r]
    BY <1>2, Goes
  <2>2. /\ CallType(r) /\ r.pc = "stored" /\ r.call = proc[p].call
        /\ r.committed = proc[p].committed /\ r.envelope = proc[p].envelope
        /\ r.expected = proc[p].expected
    BY <1>1, Moves DEF States
  <2>. HIDE DEF r
  <2>3. Earned(r, blobs', pointer, attempts, history, reports)
    BY <1>1, <1>2, <2>2 DEF Earned
  <2>4. r.pc \in Holding
    BY <2>2 DEF Holding, States
  <2>. QED BY <1>1, <1>2, <2>1, <2>2, <2>3, <2>4, LockedGoes DEF StoreBlob
<1>3. CASE Leave(p, "cleaning", "refused") /\ blobs' \in {blobs, blobs \cup {proc[p].envelope}}
  <2>1. ~proc[p].committed
    BY <1>1 DEF Earned
  <2>. QED BY <1>1, <1>3, <2>1, LeavesLocked DEF StoreBlob, Results
<1>. QED BY <1>2, <1>3 DEF StoreBlob

LEMMA ReadBackStep == ASSUME IInv, NEW p \in Publishers, ReadBack(p) PROVE IInv'
<1>1. /\ Earned(proc[p], blobs, pointer, attempts, history, reports)
      /\ proc[p].pc = "moved" /\ proc[p].pc \in Holding
  BY Goes DEF ReadBack, Holding, States
<1>2. proc[p].committed
  BY <1>1 DEF Earned
<1>3. Leave(p, "cleaning", "published") \/ Leave(p, "cleaning", Failure(p))
  BY DEF ReadBack
<1>4. CASE Leave(p, "cleaning", "published")
  BY <1>1, <1>2, <1>4, LeavesLocked DEF ReadBack, Results
<1>5. CASE Leave(p, "cleaning", Failure(p))
  BY <1>1, <1>2, <1>5, FailureFacts, LeavesLocked DEF ReadBack
<1>. QED BY <1>3, <1>4, <1>5

LEMMA CleanUpStep == ASSUME IInv, NEW p \in Publishers, CleanUp(p) PROVE IInv'
<1>1. /\ CallType(proc[p]) /\ Earned(proc[p], blobs, pointer, attempts, history, reports)
      /\ proc[p].pc = "cleaning" /\ proc[p].pc \in Holding
  BY Goes DEF CleanUp, Holding, States
<1>2. CASE Goto(p, "leaving")
  <2> DEFINE r == [proc[p] EXCEPT !.pc = "leaving"]
  <2>1. proc' = [proc EXCEPT ![p] = r]
    BY <1>2, Goes
  <2>2. /\ CallType(r) /\ r.pc = "leaving" /\ r.call = proc[p].call
        /\ r.committed = proc[p].committed /\ r.result = proc[p].result
    BY <1>1, Moves DEF States
  <2>. HIDE DEF r
  <2>3. Earned(r, blobs', pointer, attempts, history, reports)
    BY <1>1, <1>2, <2>2 DEF Earned
  <2>4. r.pc \in Holding
    BY <2>2 DEF Holding, States
  <2>. QED BY <1>1, <2>1, <2>2, <2>3, <2>4, LockedGoes DEF CleanUp
<1>3. CASE Leave(p, "leaving", Failure(p))
  BY <1>1, <1>3, FailureFacts, LeavesLocked DEF CleanUp
<1>. QED BY <1>2, <1>3 DEF CleanUp

\* A proposal is a map of funds, over whatever a curator starts from.
LEMMA ProposalFacts ==
    ASSUME NEW funds \in Proposals PROVE funds \in FundMap
<1>1. {Absent} \cup UNION {Candidates[k] : k \in Keys} \subseteq Fund \cup {Absent}
  BY RegistryConstants
<1>2. funds \in [Keys -> {Absent} \cup UNION {Candidates[k] : k \in Keys}]
  BY DEF Proposals
<1>. QED BY <1>1, <1>2 DEF FundMap

LEMMA RequestFacts == ASSUME IInv, NEW e \in Requests PROVE e.funds \in FundMap
<1>1. CASE e \in blobs
  BY <1>1 DEF IInv, StoreType
<1>2. CASE e \notin blobs
  <2>1. PICK parent \in Known, audited \in Known, funds \in Proposals :
            e = Envelope(parent, funds, audited.funds)
    BY <1>2 DEF Requests
  <2>2. e.funds = funds
    BY <2>1 DEF Envelope
  <2>. QED BY <2>2, ProposalFacts
<1>. QED BY <1>1, <1>2

LEMMA CallUpdates ==
    ASSUME NEW r, CallType(r), NEW v
    PROVE  /\ CallType([r EXCEPT !.call = v]) /\ [r EXCEPT !.call = v].pc = r.pc
           /\ [r EXCEPT !.call = v].call = v /\ [r EXCEPT !.call = v].committed = r.committed
           /\ CallType([r EXCEPT !.expected = v]) /\ [r EXCEPT !.expected = v].pc = r.pc
           /\ [r EXCEPT !.expected = v].call = r.call
           /\ [r EXCEPT !.expected = v].committed = r.committed
           /\ v.funds \in FundMap => CallType([r EXCEPT !.envelope = v])
           /\ [r EXCEPT !.envelope = v].pc = r.pc /\ [r EXCEPT !.envelope = v].call = r.call
           /\ [r EXCEPT !.envelope = v].committed = r.committed
<1> DEFINE a == [r EXCEPT !.call = v]
           b == [r EXCEPT !.expected = v]
           c == [r EXCEPT !.envelope = v]
<1>1. r = [pc |-> r.pc, call |-> r.call, envelope |-> r.envelope, expected |-> r.expected,
           committed |-> r.committed, result |-> r.result]
  BY DEF CallType
<1>2. a = [pc |-> r.pc, call |-> v, envelope |-> r.envelope, expected |-> r.expected,
           committed |-> r.committed, result |-> r.result]
  BY <1>1
<1>3. b = [pc |-> r.pc, call |-> r.call, envelope |-> r.envelope, expected |-> v,
           committed |-> r.committed, result |-> r.result]
  BY <1>1
<1>4. c = [pc |-> r.pc, call |-> r.call, envelope |-> v, expected |-> r.expected,
           committed |-> r.committed, result |-> r.result]
  BY <1>1
<1>. HIDE DEF a, b, c
<1>5. /\ r.pc \in States /\ r.committed \in BOOLEAN /\ r.result \in Results
      /\ r.envelope.funds \in FundMap
  BY DEF CallType
<1>6. /\ a.pc = r.pc /\ a.call = v /\ a.envelope = r.envelope /\ a.expected = r.expected
      /\ a.committed = r.committed /\ a.result = r.result
  BY <1>2
<1>7. /\ b.pc = r.pc /\ b.call = r.call /\ b.envelope = r.envelope /\ b.expected = v
      /\ b.committed = r.committed /\ b.result = r.result
  BY <1>3
<1>8. /\ c.pc = r.pc /\ c.call = r.call /\ c.envelope = v /\ c.expected = r.expected
      /\ c.committed = r.committed /\ c.result = r.result
  BY <1>4
<1>9. CallType(a)
  BY <1>2, <1>5, <1>6 DEF CallType
<1>10. CallType(b)
  BY <1>3, <1>5, <1>7 DEF CallType
<1>11. v.funds \in FundMap => CallType(c)
  BY <1>4, <1>5, <1>8 DEF CallType
<1>. QED BY <1>6, <1>7, <1>8, <1>9, <1>10, <1>11 DEF a, b, c

LEMMA CallRecord ==
    ASSUME NEW c, NEW e, e.funds \in FundMap, NEW expected
    PROVE  LET r == Called(c, e, expected)
           IN  CallType(r) /\ r.pc = "waiting" /\ r.call = c /\ ~r.committed
<1> DEFINE q1 == [Idle EXCEPT !.pc = "waiting"]
           q2 == [q1 EXCEPT !.call = c]
           q3 == [q2 EXCEPT !.envelope = e]
           q4 == [q3 EXCEPT !.expected = expected]
<1>1. Called(c, e, expected) = q4
  BY DEF Called
<1>2. ~Idle.committed /\ CallType(Idle) /\ "waiting" \in States
  BY IdleFacts DEF Idle, States
<1>3. CallType(q1) /\ q1.pc = "waiting" /\ q1.committed = Idle.committed
  BY <1>2, Moves
<1>. HIDE DEF q1
<1>4. CallType(q2) /\ q2.pc = q1.pc /\ q2.call = c /\ q2.committed = q1.committed
  BY <1>3, CallUpdates
<1>. HIDE DEF q2
<1>5. CallType(q3) /\ q3.pc = q2.pc /\ q3.call = q2.call /\ q3.committed = q2.committed
  BY <1>4, CallUpdates
<1>. HIDE DEF q3
<1>6. CallType(q4) /\ q4.pc = q3.pc /\ q4.call = q3.call /\ q4.committed = q3.committed
  BY <1>5, CallUpdates
<1>. HIDE DEF q4
<1>. QED BY <1>1, <1>2, <1>3, <1>4, <1>5, <1>6

LEMMA CallStep == ASSUME IInv, NEW p \in Publishers, Call(p) PROVE IInv'
<1>1. /\ attempts \in Nat /\ attempts' = attempts + 1
      /\ reports \in Seq(Results) /\ Len(reports) = attempts
      /\ "none" \in Results /\ reports' = Append(reports, "none")
  BY DEF Call, IInv, StoreType, Results
<1>2. /\ reports' \in Seq(Results) /\ Len(reports') = attempts'
      /\ DOMAIN reports = 1..attempts /\ DOMAIN reports' = 1..(attempts + 1)
      /\ \A d \in 1..attempts : reports'[d] = reports[d]
      /\ reports'[attempts + 1] = "none"
  BY <1>1, AppendFacts
<1>3. PICK e \in Requests : \E expected : proc' = [proc EXCEPT ![p] = Called(attempts', e, expected)]
  BY DEF Call
<1>4. PICK expected : proc' = [proc EXCEPT ![p] = Called(attempts', e, expected)]
  BY <1>3
<1> DEFINE r == Called(attempts', e, expected)
<1>5. /\ proc' = [proc EXCEPT ![p] = r] /\ CallType(r)
      /\ r.pc = "waiting" /\ r.call = attempts + 1 /\ ~r.committed
  BY <1>1, <1>4, RequestFacts, CallRecord
<1>. HIDE DEF r
<1>6. StoreType'
  <2>1. attempts' \in Nat /\ attempts <= attempts'
    BY <1>1
  <2>2. history' \in Seq([envelope : blobs, call : 1..attempts])'
    BY <2>1, HistoryGrows DEF IInv, Call
  <2>. QED BY <1>2, <2>1, <2>2 DEF IInv, StoreType, Call
<1>7. ASSUME NEW n \in DOMAIN history PROVE history[n].call # attempts + 1
  BY <1>1, HistoryFacts
<1>8. Earned(r, blobs', pointer', attempts', history', reports')
  <2>1. r.call \in 1..attempts' /\ reports'[r.call] = "none"
    BY <1>1, <1>2, <1>5
  <2>2. ~ \E n \in DOMAIN history' : history'[n].call = r.call
    BY <1>5, <1>7 DEF Call
  <2>. QED BY <1>5, <2>1, <2>2 DEF Earned
<1>9. ASSUME NEW q \in Publishers, q # p
      PROVE  /\ Earned(proc[q], blobs', pointer', attempts', history', reports')
             /\ proc[q].pc # "idle" => proc[q].call # r.call
  <2>1. Earned(proc[q], blobs, pointer, attempts, history, reports)
    BY DEF IInv, ProcsInv
  <2>2. proc[q].pc # "idle" => /\ proc[q].call \in 1..attempts
                               /\ reports[proc[q].call] = "none"
    BY <2>1 DEF Earned
  <2>3. proc[q].pc # "idle" => /\ proc[q].call \in 1..attempts' /\ proc[q].call # r.call
                               /\ reports'[proc[q].call] = "none"
    BY <1>1, <1>2, <1>5, <2>2
  <2>4. UNCHANGED <<blobs, pointer, history>>
    BY DEF Call
  <2>. QED BY <2>1, <2>3, <2>4 DEF Earned
<1>10. ProcsInv'
  <2>1. r.pc \notin Holding /\ lock' = lock /\ lock # p
    <3>1. proc[p].pc \notin Holding
      BY DEF Call, Holding
    <3>. QED BY <3>1, <1>5, Goes DEF Call, Holding
  <2>. QED BY <1>5, <1>8, <1>9, <2>1, CallGoes
<1>11. RegistryIsOneHistory'
  <2>1. ASSUME NEW d \in DOMAIN reports'
        PROVE  /\ reports'[d] \in {"published", "uncertain"} => Published(d)'
               /\ reports'[d] = "refused" => ~Published(d)'
    <3>1. d = attempts + 1 \/ d \in 1..attempts
      BY <1>1, <1>2
    <3>2. CASE d = attempts + 1
      BY <1>2, <3>2
    <3>3. CASE d \in 1..attempts
      BY <1>2, <3>3 DEF IInv, RegistryIsOneHistory, Published, Call
    <3>. QED BY <3>1, <3>2, <3>3
  <2>. QED BY <2>1 DEF IInv, RegistryIsOneHistory, Before, Call
<1>. QED BY <1>6, <1>10, <1>11 DEF IInv

\* Retained is passed on from one generation to the next.
LEMMA RetainedTransitive ==
    ASSUME NEW old, NEW mid \in Fund, NEW new, Retained(mid, new), Retained(old, mid)
    PROVE  Retained(old, new)
  BY DEF Retained, Fund, Statuses

\* The history, with the facts about its last generation.
LEMMA LastFacts ==
    ASSUME IInv
    PROVE  /\ pointer.generation = Len(history) /\ pointer.funds \in FundMap
           /\ Len(history) # 0 => pointer = history[Len(history)].envelope
<1>1. CASE Len(history) = 0
  BY <1>1, NothingFacts DEF IInv, RegistryIsOneHistory, Before
<1>2. CASE Len(history) # 0
  <2>1. Len(history) \in DOMAIN history /\ Len(history) + 1 # 1
        /\ (Len(history) + 1) - 1 = Len(history)
    BY <1>2, HistoryFacts
  <2>2. pointer = history[Len(history)].envelope
    BY <2>1 DEF IInv, RegistryIsOneHistory, Before
  <2>. QED BY <2>1, <2>2, HistoryFacts DEF IInv, RegistryIsOneHistory
<1>. QED BY <1>1, <1>2

\* A validated envelope continues the history.
LEMMA HistoryContinues ==
    ASSUME IInv, NEW e, NEW expected, NEW call \in 1..attempts,
           Publishable(e, pointer, expected), e \in blobs, e.funds \in FundMap,
           reports[call] = "none", pointer' = e,
           history' = Append(history, [envelope |-> e, call |-> call]),
           UNCHANGED <<blobs, attempts, reports>>
    PROVE  /\ history' \in Seq([envelope : blobs, call : 1..attempts])
           /\ \E n \in DOMAIN history' : history'[n].call = call
           /\ \A d : d # call => ((\E n \in DOMAIN history' : history'[n].call = d)
                                  <=> \E n \in DOMAIN history : history[n].call = d)
           /\ RegistryIsOneHistory'
<1> DEFINE N == Len(history)   entry == [envelope |-> e, call |-> call]
<1>1. entry \in [envelope : blobs, call : 1..attempts] /\ entry.envelope = e /\ entry.call = call
  OBVIOUS
<1>. HIDE DEF entry
<1>2. /\ history' \in Seq([envelope : blobs, call : 1..attempts])
      /\ N \in Nat /\ Len(history') = N + 1
      /\ DOMAIN history = 1..N /\ DOMAIN history' = 1..(N + 1)
      /\ \A i \in 1..N : history'[i] = history[i]
      /\ history'[N + 1].envelope = e /\ history'[N + 1].call = call
  <2>1. history \in Seq([envelope : blobs, call : 1..attempts]) /\ history' = Append(history, entry)
    BY DEF IInv, StoreType, entry
  <2>. QED BY <1>1, <2>1, AppendFacts
<1>3. /\ N + 1 \in DOMAIN history'
      /\ \A n \in DOMAIN history' : n = N + 1 \/ n \in DOMAIN history
      /\ \A n \in DOMAIN history : n \in DOMAIN history' /\ history'[n] = history[n]
  BY <1>2
<1>4. /\ \E n \in DOMAIN history' : history'[n].call = call
      /\ \A d : d # call => ((\E n \in DOMAIN history' : history'[n].call = d)
                             <=> \E n \in DOMAIN history : history[n].call = d)
  BY <1>2, <1>3
<1>5. \A n \in 1..(N + 1) : Before(n)' = Before(n)
  BY <1>2 DEF Before
<1>6. Before(N + 1) = pointer /\ pointer.generation = N /\ pointer.funds \in FundMap
  BY LastFacts DEF IInv, RegistryIsOneHistory
<1>7. ASSUME NEW n \in DOMAIN history'
      PROVE  LET f == history'[n].envelope
             IN  /\ f.generation = n /\ f.parent = Before(n)'
                 /\ \A k \in Keys :
                       IF f.funds[k] = Before(n)'.funds[k] THEN f.audited[k] = f.funds[k]
                       ELSE f.audited[k] = Before(n)'.funds[k]
  <2>1. CASE n = N + 1
    <3>1. history'[n].envelope = e /\ Before(n)' = pointer
      BY <1>2, <1>5, <1>6, <2>1
    <3>2. e.generation = N + 1 /\ e.parent = pointer
      BY <1>6 DEF Publishable
    <3>3. ASSUME NEW k \in Keys
          PROVE  IF e.funds[k] = pointer.funds[k] THEN e.audited[k] = e.funds[k]
                 ELSE e.audited[k] = pointer.funds[k]
      BY DEF Publishable, Covered, Changed
    <3>. QED BY <2>1, <3>1, <3>2, <3>3
  <2>2. CASE n # N + 1
    BY <1>2, <1>3, <1>5, <2>2 DEF IInv, RegistryIsOneHistory
  <2>. QED BY <2>1, <2>2
<1>8. ASSUME NEW m \in DOMAIN history', NEW n \in DOMAIN history', m < n, NEW k \in Keys,
             history'[m].envelope.funds[k] # Absent
      PROVE  /\ history'[n].envelope.funds[k] # Absent
             /\ Retained(history'[m].envelope.funds[k], history'[n].envelope.funds[k])
  <2>1. m \in DOMAIN history /\ history'[m] = history[m]
    BY <1>2, <1>3, <1>8
  <2>2. CASE n = N + 1
    <3>1. pointer.funds[k] # Absent =>
             e.funds[k] # Absent /\ Retained(pointer.funds[k], e.funds[k])
      BY DEF Publishable
    <3>2. N \in DOMAIN history /\ pointer = history[N].envelope
      BY <1>2, <2>1, LastFacts
    <3>3. CASE m = N
      BY <1>2, <1>8, <2>1, <2>2, <3>1, <3>2, <3>3
    <3>4. CASE m # N
      <4>1. m < N
        BY <1>2, <2>1, <3>4
      <4>2. /\ pointer.funds[k] # Absent
            /\ Retained(history[m].envelope.funds[k], pointer.funds[k])
        BY <1>8, <2>1, <3>2, <4>1 DEF IInv, RegistryIsOneHistory, Retained
      <4>3. pointer.funds[k] \in Fund
        BY <1>6, <4>2 DEF FundMap
      <4>. QED BY <1>2, <2>1, <2>2, <3>1, <4>2, <4>3, RetainedTransitive
    <3>. QED BY <3>3, <3>4
  <2>3. CASE n # N + 1
    <3>1. n \in DOMAIN history /\ history'[n] = history[n]
      BY <1>3, <2>3
    <3>. QED BY <1>8, <2>1, <3>1 DEF IInv, RegistryIsOneHistory, Retained
  <2>. QED BY <2>2, <2>3
<1>9. pointer' = Before(Len(history) + 1)' /\ pointer' \in blobs'
  <2>1. Before(Len(history) + 1)' = history'[N + 1].envelope
    <3>1. Len(history') + 1 # 1 /\ (Len(history') + 1) - 1 = N + 1
      BY <1>2
    <3>. QED BY <3>1 DEF Before
  <2>. QED BY <1>2, <2>1
<1>10. ASSUME NEW d \in DOMAIN reports'
       PROVE  /\ reports'[d] \in {"published", "uncertain"} => Published(d)'
              /\ reports'[d] = "refused" => ~Published(d)'
  <2>1. CASE d = call
    BY <2>1
  <2>2. CASE d # call
    BY <1>4, <2>2 DEF IInv, RegistryIsOneHistory, Published
  <2>. QED BY <2>1, <2>2
<1>11. RegistryIsOneHistory'
  <2>1. (\A m, n \in DOMAIN history : m < n =>
           \A k \in Keys :
              LET old == history[m].envelope.funds[k]   new == history[n].envelope.funds[k]
              IN  old # Absent =>
                     /\ new # Absent
                     /\ old.status = "retired" => new.status = "retired"
                     /\ old.status = "suspended" => new.status # "active"
                     /\ \A isin \in Isins : old.classes[isin] # "none"
                                              => new.classes[isin] # "none")'
    BY <1>8 DEF Retained
  <2>2. (\A n \in DOMAIN history :
           LET f == history[n].envelope
           IN  /\ f.generation = n /\ f.parent = Before(n)
               /\ \A k \in Keys :
                     IF f.funds[k] = Before(n).funds[k] THEN f.audited[k] = f.funds[k]
                     ELSE f.audited[k] = Before(n).funds[k])'
    BY <1>7
  <2>. QED BY <1>9, <1>10, <2>1, <2>2 DEF RegistryIsOneHistory
<1>. QED BY <1>2, <1>4, <1>11

\* A call after it replaced the pointer.
LEMMA MovedFacts ==
    ASSUME NEW r, CallType(r), NEW v \in BOOLEAN
    PROVE  LET q == [r EXCEPT !.pc = "moved", !.committed = v]
           IN  CallType(q) /\ q.pc = "moved" /\ q.call = r.call /\ q.committed = v
<1> DEFINE s == [r EXCEPT !.pc = "moved"]
           q == [s EXCEPT !.committed = v]
<1>1. CallType(s) /\ s.pc = "moved" /\ s.call = r.call
  BY Moves DEF States
<1>. HIDE DEF s
<1>2. /\ s = [pc |-> s.pc, call |-> s.call, envelope |-> s.envelope, expected |-> s.expected,
              committed |-> s.committed, result |-> s.result]
      /\ s.result \in Results /\ s.envelope.funds \in FundMap
  BY <1>1 DEF CallType
<1>3. q = [pc |-> s.pc, call |-> s.call, envelope |-> s.envelope, expected |-> s.expected,
           committed |-> v, result |-> s.result]
  BY <1>2
<1>. HIDE DEF q
<1>4. /\ q.pc = s.pc /\ q.call = s.call /\ q.envelope = s.envelope /\ q.expected = s.expected
      /\ q.committed = v /\ q.result = s.result
  BY <1>3
<1>5. q = [pc |-> q.pc, call |-> q.call, envelope |-> q.envelope, expected |-> q.expected,
           committed |-> q.committed, result |-> q.result]
  <2>1. q = [s EXCEPT !.committed = v]
    BY DEF q
  <2>. QED BY <1>2, <2>1
<1>6. q.pc \in States /\ q.committed \in BOOLEAN /\ q.result \in Results /\ q.envelope.funds \in FundMap
  BY <1>1, <1>2, <1>4 DEF States
<1>7. CallType(q)
  BY <1>5, <1>6 DEF CallType
<1>. QED BY <1>1, <1>4, <1>7 DEF q, s

LEMMA MovePointerStep == ASSUME IInv, NEW p \in Publishers, MovePointer(p) PROVE IInv'
<1>1. /\ CallType(proc[p]) /\ Earned(proc[p], blobs, pointer, attempts, history, reports)
      /\ proc[p].pc = "stored" /\ proc[p].pc \in Holding /\ lock = p
  BY Goes DEF MovePointer, Holding, States
<1>2. CASE Leave(p, "cleaning", "refused") /\ UNCHANGED <<pointer, history>>
  <2>1. ~proc[p].committed
    BY <1>1 DEF Earned
  <2>. QED BY <1>1, <1>2, <2>1, LeavesLocked DEF MovePointer, Results
<1>3. CASE /\ pointer' = proc[p].envelope
           /\ history' = Append(history, [envelope |-> proc[p].envelope, call |-> proc[p].call])
           /\ proc' = [proc EXCEPT ![p].pc = "moved", ![p].committed = TRUE]
  <2> DEFINE r == [proc[p] EXCEPT !.pc = "moved", !.committed = TRUE]
  <2>1. proc' = [proc EXCEPT ![p] = r]
    BY <1>3 DEF IInv, ProcsInv
  <2>2. CallType(r) /\ r.pc = "moved" /\ r.call = proc[p].call /\ r.committed
    BY <1>1, MovedFacts, TRUE \in BOOLEAN
  <2>. HIDE DEF r
  <2>3. /\ proc[p].call \in 1..attempts /\ reports[proc[p].call] = "none"
        /\ Publishable(proc[p].envelope, pointer, proc[p].expected) /\ proc[p].envelope \in blobs
        /\ proc[p].envelope.funds \in FundMap
    BY <1>1 DEF Earned, CallType
  <2>4. /\ history' \in Seq([envelope : blobs, call : 1..attempts])
        /\ \E n \in DOMAIN history' : history'[n].call = proc[p].call
        /\ \A d : d # proc[p].call =>
             ((\E n \in DOMAIN history' : history'[n].call = d)
              <=> \E n \in DOMAIN history : history[n].call = d)
        /\ RegistryIsOneHistory'
    <3>1. UNCHANGED <<blobs, attempts, reports>>
      BY DEF MovePointer
    <3>. QED BY <1>3, <2>3, <3>1, HistoryContinues
  <2>5. StoreType'
    BY <2>4 DEF IInv, StoreType, MovePointer
  <2>6. Earned(r, blobs', pointer', attempts', history', reports')
    BY <2>2, <2>3, <2>4 DEF Earned, MovePointer
  <2>7. ASSUME NEW q \in Publishers, q # p
        PROVE  /\ Earned(proc[q], blobs', pointer', attempts', history', reports')
               /\ proc[q].pc # "idle" => proc[q].call # r.call
    <3>1. /\ Earned(proc[q], blobs, pointer, attempts, history, reports)
          /\ CallType(proc[q]) /\ proc[q].pc \notin Holding
      BY <1>1, <2>7, Goes
    <3>2. proc[q].pc \in {"idle", "waiting"}
      BY <3>1 DEF CallType, Holding
    <3>3. proc[q].pc # "idle" => proc[q].call # proc[p].call
      BY <1>1, <2>7 DEF IInv, ProcsInv
    <3>4. UNCHANGED <<blobs, attempts, reports>>
      BY DEF MovePointer
    <3>5. CASE proc[q].pc = "idle"
      BY <3>5 DEF Earned
    <3>6. CASE proc[q].pc = "waiting"
      BY <2>2, <2>4, <3>1, <3>3, <3>4, <3>6 DEF Earned
    <3>. QED BY <3>2, <3>5, <3>6
  <2>8. r.pc \in Holding /\ lock' = p /\ lock' = lock
    BY <1>1, <2>2 DEF MovePointer, Holding, States
  <2>9. ProcsInv'
    BY <2>1, <2>2, <2>6, <2>7, <2>8, CallGoes
  <2>. QED BY <2>4, <2>5, <2>9 DEF IInv
<1>. QED BY <1>2, <1>3 DEF MovePointer

LEMMA NextIInv == IInv /\ [Next]_vars => IInv'
<1>1. ASSUME IInv, Next PROVE IInv'
  <2>1. PICK p \in Publishers :
            \/ Call(p) \/ Acquire(p) \/ Timeout(p) \/ Validate(p) \/ StoreBlob(p)
            \/ MovePointer(p) \/ ReadBack(p) \/ CleanUp(p) \/ Release(p) \/ Die(p)
    BY <1>1 DEF Next
  <2>. QED BY <1>1, <2>1, CallStep, AcquireStep, TimeoutStep, ValidateStep, StoreBlobStep,
              MovePointerStep, ReadBackStep, CleanUpStep, ReleaseStep, DieStep
<1>2. ASSUME IInv, UNCHANGED vars PROVE IInv'
  BY <1>2 DEF IInv, StoreType, ProcsInv, RegistryIsOneHistory, Before, Published, vars
<1>. QED BY <1>1, <1>2

LEMMA Inductive == Spec => []IInv
  BY InitIInv, NextIInv, PTL DEF Spec

-----------------------------------------------------------------------------
(* The theorem.                                                              *)

\* However publishers interleave, fail and die, the generations that become active are one
\* history in which no retirement or suspension is undone and no fund or share class is gone,
\* the pointer is its end and can be read, and every report about it is true (publish and active in data/fund_identity_registry.py).
THEOREM OneHistory == Spec => []RegistryIsOneHistory
<1>1. IInv => RegistryIsOneHistory
  BY DEF IInv
<1>. QED BY <1>1, Inductive, PTL
=============================================================================
