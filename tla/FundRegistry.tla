---------------------------- MODULE FundRegistry ----------------------------
(***************************************************************************)
(* The local registry of audited fund identities: publish and active of    *)
(* LocalFundIdentityRegistry (data/fund_identity_registry.py) and the      *)
(* validation of a generation against the one it replaces                  *)
(* (domain/fund_identity.py).                                              *)
(*                                                                         *)
(* Publishers share a directory: one blob per generation, active.json that *)
(* names one of them, and a native file lock that the system releases when *)
(* its process dies.  A digest stands for the content it is computed from. *)
(* An envelope keeps in `audited' the funds its curator compared it with,  *)
(* which need not be those of the parent it names.                         *)
(***************************************************************************)
EXTENDS Integers, Sequences, FiniteSets

CONSTANTS
    Publishers,
    Keys, Isins,     \* opaque keys of funds, share classes
    Candidates,      \* what a curator may propose for each key
    Absent,          \* no fund under a key
    Free,            \* nobody holds the lock
    MaxAttempts,     \* bound: calls of publish
    MaxFaults        \* bound: failing file operations and deaths

Statuses == {"active", "suspended", "retired"}
\* Of a class, "closed" stands for every status but active.
Fund == [status : Statuses, classes : [Isins -> {"none", "active", "closed"}]]

ASSUME RegistryConstants ==
    /\ Candidates \in [Keys -> SUBSET Fund] /\ Absent \notin Fund
    /\ Free \notin Publishers
    /\ MaxAttempts \in Nat /\ MaxFaults \in Nat

VARIABLES
    blobs,       \* generations that are stored
    pointer,     \* the generation that active.json names, or Nothing
    lock,        \* .publish.lock: its owner or Free
    proc,        \* the call of each publisher
    attempts,    \* calls so far
    faults,      \* failing file operations and deaths so far
    history,     \* the envelopes that became active, each with its call
    reports      \* what the calls returned, by call

vars == <<blobs, pointer, lock, proc, attempts, faults, history, reports>>

-----------------------------------------------------------------------------
(* Generations.                                                              *)
NoFunds == [k \in Keys |-> Absent]
Nothing == [generation |-> 0, parent |-> <<>>, funds |-> NoFunds, audited |-> NoFunds]

Holders(funds, isin) ==
    {k \in Keys : funds[k] # Absent /\ funds[k].status = "active" /\ funds[k].classes[isin] = "active"}

\* RegistrySnapshot: an active fund has an active class, which no other active fund has.
Integral(funds) ==
    /\ \A k \in Keys : funds[k] # Absent /\ funds[k].status = "active" =>
          \E isin \in Isins : k \in Holders(funds, isin)
    /\ \A isin \in Isins : Cardinality(Holders(funds, isin)) <= 1

Envelope(parent, funds, audited) ==
    [generation |-> parent.generation + 1, parent |-> parent, funds |-> funds, audited |-> audited]

Changed(before, after) == {k \in Keys : before[k] # after[k]}

\* The transitions of the audit are about exactly the changes made to the actual parent.
Covered(e, parent) ==
    /\ Changed(e.audited, e.funds) = Changed(parent.funds, e.funds)
    /\ \A k \in Changed(parent.funds, e.funds) : e.audited[k] = parent.funds[k]

Retained(before, after) ==
    /\ before.status = "retired" => after.status = "retired"
    /\ before.status = "suspended" => after.status # "active"
    /\ \A isin \in Isins : before.classes[isin] # "none" => after.classes[isin] # "none"

\* validate_publication.
Publishable(e, parent, expected) ==
    /\ expected = parent /\ e.parent = expected
    /\ e.generation = parent.generation + 1
    /\ Covered(e, parent)
    /\ \A k \in Keys : parent.funds[k] # Absent =>
          e.funds[k] # Absent /\ Retained(parent.funds[k], e.funds[k])

-----------------------------------------------------------------------------
Idle == [pc |-> "idle", call |-> 0, envelope |-> Nothing, expected |-> Nothing,
         committed |-> FALSE, result |-> "none"]

Init ==
    /\ blobs = {} /\ pointer = Nothing /\ lock = Free
    /\ proc = [p \in Publishers |-> Idle]
    /\ attempts = 0 /\ faults = 0 /\ history = <<>> /\ reports = <<>>

Goto(p, pc) == proc' = [proc EXCEPT ![p].pc = pc]
Leave(p, pc, result) == proc' = [proc EXCEPT ![p].pc = pc, ![p].result = result]
Fault == faults < MaxFaults /\ faults' = faults + 1

\* Mutant: an error after the pointer was replaced is reported as any other.
FailureForgetful(p) == "refused"
\* An error is certain until the pointer is replaced.
Failure(p) == IF proc[p].committed THEN "uncertain" ELSE "refused"

Known == {Nothing} \cup blobs
Proposals ==
    {f \in [Keys -> {Absent} \cup UNION {Candidates[k] : k \in Keys}] :
        Integral(f) /\ \A k \in Keys : f[k] \in {Absent} \cup Candidates[k]}

\* A new candidate over any generation that was stored, or an earlier one once more.
Requests ==
    {Envelope(parent, funds, audited.funds) :
        parent \in Known, audited \in Known, funds \in Proposals} \cup blobs
Called(call, e, expected) ==
    [Idle EXCEPT !.pc = "waiting", !.call = call, !.envelope = e, !.expected = expected]

Call(p) ==
    /\ proc[p].pc = "idle" /\ attempts < MaxAttempts
    /\ attempts' = attempts + 1
    /\ \E e \in Requests : \E expected \in {e.parent, pointer} :
          proc' = [proc EXCEPT ![p] = Called(attempts', e, expected)]
    /\ reports' = Append(reports, "none")
    /\ UNCHANGED <<blobs, pointer, lock, faults, history>>

Acquire(p) ==
    /\ proc[p].pc = "waiting" /\ lock = Free
    /\ lock' = p /\ Goto(p, "locked")
    /\ UNCHANGED <<blobs, pointer, attempts, faults, history, reports>>

Timeout(p) ==
    /\ proc[p].pc = "waiting" /\ lock # Free
    /\ reports' = [reports EXCEPT ![proc[p].call] = Failure(p)]
    /\ proc' = [proc EXCEPT ![p] = Idle]
    /\ UNCHANGED <<blobs, pointer, lock, attempts, faults, history>>

\* active() is read under the lock, and the candidate is validated against it.
Validate(p) ==
    /\ proc[p].pc = "locked"
    /\ \/ /\ Publishable(proc[p].envelope, pointer, proc[p].expected)
          /\ Goto(p, "validated") /\ UNCHANGED faults
       \/ /\ ~Publishable(proc[p].envelope, pointer, proc[p].expected)
          /\ Leave(p, "leaving", "refused") /\ UNCHANGED faults
       \/ Fault /\ Leave(p, "leaving", "refused")
    /\ UNCHANGED <<blobs, pointer, lock, attempts, history, reports>>

\* The blob is there already, or is written aside, moved into place and read again.
StoreBlob(p) ==
    /\ proc[p].pc = "validated"
    /\ \/ blobs' = blobs \cup {proc[p].envelope} /\ Goto(p, "stored") /\ UNCHANGED faults
       \/ /\ Fault
          /\ blobs' \in {blobs, blobs \cup {proc[p].envelope}}
          /\ Leave(p, "cleaning", "refused")
    /\ UNCHANGED <<pointer, lock, attempts, history, reports>>

MovePointer(p) ==
    /\ proc[p].pc = "stored"
    /\ \/ /\ pointer' = proc[p].envelope
          /\ history' = Append(history, [envelope |-> proc[p].envelope, call |-> proc[p].call])
          /\ proc' = [proc EXCEPT ![p].pc = "moved", ![p].committed = TRUE]
          /\ UNCHANGED faults
       \/ Fault /\ Leave(p, "cleaning", "refused") /\ UNCHANGED <<pointer, history>>
    /\ UNCHANGED <<blobs, lock, attempts, reports>>

ReadBack(p) ==
    /\ proc[p].pc = "moved"
    /\ \/ /\ Leave(p, "cleaning", IF pointer = proc[p].envelope THEN "published" ELSE Failure(p))
          /\ UNCHANGED faults
       \/ Fault /\ Leave(p, "cleaning", Failure(p))
    /\ UNCHANGED <<blobs, pointer, lock, attempts, history, reports>>

\* The temporary pointer file is removed, if it is still there.
CleanUp(p) ==
    /\ proc[p].pc = "cleaning"
    /\ \/ Goto(p, "leaving") /\ UNCHANGED faults
       \/ Fault /\ Leave(p, "leaving", Failure(p))
    /\ UNCHANGED <<blobs, pointer, lock, attempts, history, reports>>

\* Unlocking may fail; closing the file unlocks it all the same.
Release(p) ==
    /\ proc[p].pc = "leaving"
    /\ lock' = Free
    /\ \/ reports' = [reports EXCEPT ![proc[p].call] = proc[p].result] /\ UNCHANGED faults
       \/ Fault /\ reports' = [reports EXCEPT ![proc[p].call] = Failure(p)]
    /\ proc' = [proc EXCEPT ![p] = Idle]
    /\ UNCHANGED <<blobs, pointer, attempts, history>>

Die(p) ==
    /\ proc[p].pc # "idle" /\ Fault
    /\ lock' = IF lock = p THEN Free ELSE lock
    /\ proc' = [proc EXCEPT ![p] = Idle]
    /\ UNCHANGED <<blobs, pointer, attempts, history, reports>>

Next ==
    \E p \in Publishers :
        \/ Call(p) \/ Acquire(p) \/ Timeout(p) \/ Validate(p) \/ StoreBlob(p)
        \/ MovePointer(p) \/ ReadBack(p) \/ CleanUp(p) \/ Release(p) \/ Die(p)

Spec == Init /\ [][Next]_vars

-----------------------------------------------------------------------------
(* Properties.                                                               *)

Before(n) == IF n = 1 THEN Nothing ELSE history[n - 1].envelope
Published(call) == \E n \in DOMAIN history : history[n].call = call

\* The registry has one history, and everybody is told the truth about it.  However publishers
\* interleave, fail and die: every generation that becomes active extends the one that was active,
\* which is also the one its curator audited it against; in every later generation a retired
\* fund is still retired, a suspended one is not active, and no fund or share class is gone; the
\* active generation can be read; and a call that reports success or an uncertain clean-up was published, one that reports a
\* refusal never was.
RegistryIsOneHistory ==
    /\ \A n \in DOMAIN history :
          LET e == history[n].envelope
          IN  /\ e.generation = n /\ e.parent = Before(n)
              /\ \A k \in Keys :
                    IF e.funds[k] = Before(n).funds[k] THEN e.audited[k] = e.funds[k]
                    ELSE e.audited[k] = Before(n).funds[k]
    /\ \A m, n \in DOMAIN history : m < n =>
          \A k \in Keys :
             LET old == history[m].envelope.funds[k]   new == history[n].envelope.funds[k]
             IN  old # Absent =>
                    /\ new # Absent
                    /\ old.status = "retired" => new.status = "retired"
                    /\ old.status = "suspended" => new.status # "active"
                    /\ \A isin \in Isins : old.classes[isin] # "none" => new.classes[isin] # "none"
    /\ pointer = Before(Len(history) + 1)
    /\ pointer # Nothing => pointer \in blobs
    /\ \A call \in DOMAIN reports :
          /\ reports[call] \in {"published", "uncertain"} => Published(call)
          /\ reports[call] = "refused" => ~Published(call)
=============================================================================
