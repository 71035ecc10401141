---------------------------- MODULE OutboxProofs ----------------------------
(***************************************************************************)
(* Outbox, for any processes, events, limits and faults: the type          *)
(* invariant, no accepted event is lost, and dead letters are kept.        *)
(***************************************************************************)
EXTENDS Outbox, TLAPS, FiniteSetTheorems

\* Every step of Next, one disjunct per action.
LEMMA NextCases ==
    ASSUME Next
    PROVE  \/ \E p \in Procs :
                \/ \E name \in Events, payload \in Payloads :
                     \/ EnqueueDuplicate(p, name, payload)
                     \/ \E at \in Times : EnqueueBegin(p, name, payload, at)
                \/ EnqueueCommit(p) \/ EnqueueFail(p)
                \/ LockFailed(p) \/ StartDrain(p) \/ BudgetElapses(p)
                \/ DeliverSettled(p) \/ DeliverRetained(p) \/ Settle(p)
                \/ BuryExisting(p) \/ Bury(p) \/ BuryFail(p) \/ Clear(p)
                \/ EndDrain(p) \/ Crash(p)
           \/ \E f \in pending : DamagePending(f)
           \/ \E f \in dead : DamageDead(f)
           \/ Outage \/ Recover
  BY DEF Next, Enqueue, Drain, DrainStep, Environment

\* The head of a snapshot is one of its envelopes.
LEMMA FirstInBatch ==
    ASSUME NEW batch, NEW e \in First(batch)
    PROVE  e \in batch
  BY DEF First

\* Names and stamps are numbers, so a snapshot has one head.
LEMMA FirstUnique ==
    ASSUME NEW batch \in SUBSET Envelope, NEW a \in First(batch), NEW b \in First(batch)
    PROVE  a = b
<1> SUFFICES ASSUME a # b PROVE FALSE
  OBVIOUS
<1>1. /\ a \in Envelope /\ b \in Envelope
      /\ Before(a, b) /\ Before(b, a)
  BY DEF First
<1>2. /\ a.at \in Nat /\ b.at \in Nat /\ a.id \in Nat /\ b.id \in Nat
  BY <1>1, OutboxAssumption DEF Envelope, OutboxAssumption
<1> QED
  BY <1>1, <1>2 DEF Before

\* A fault or no fault, the counter stays within its bound.
LEMMA FaultType ==
    ASSUME faults \in 0..MaxFaults, NEW kind,
           Fault(kind) \/ UNCHANGED faults
    PROVE  faults' \in 0..MaxFaults
  BY OutboxAssumption DEF Fault, OutboxAssumption

\* The directories keep their types whatever is unlinked, replaced or damaged.
LEMMA FileTypes ==
    ASSUME NEW e \in Envelope, NEW why \in Reasons
    PROVE  /\ AsPending(e) \in PendingFile
           /\ AsDead(e, why) \in DeadFile
           /\ \A f \in PendingFile : EnvelopeOf(f) \in Envelope
  BY DEF Envelope, PendingFile, DeadFile, AsPending, AsDead, EnvelopeOf

\* Leaving enqueue or drain keeps the types of the lock and of the locals.
LEMMA ReleaseType ==
    ASSUME TypeOK, NEW p \in Procs, NEW next \in {"idle", "waiting"},
           Release(p, next)
    PROVE  /\ lock' \in Procs \cup {Free}
           /\ pc' \in [Procs -> {"idle", "writing", "waiting", "draining",
                                "settling", "burying", "clearing"}]
           /\ work' \in [Procs -> SUBSET Envelope]
           /\ todo' \in [Procs -> SUBSET Envelope]
           /\ sent' \in [Procs -> 0..MaxDrainEvents]
           /\ late' \in [Procs -> BOOLEAN]
           /\ reason' \in [Procs -> SUBSET Reasons]
<1>1. lock' \in Procs \cup {Free}
  BY DEF Release
<1>2. /\ work' \in [Procs -> SUBSET Envelope]
      /\ todo' \in [Procs -> SUBSET Envelope]
      /\ reason' \in [Procs -> SUBSET Reasons]
  BY DEF Release, TypeOK
<1>3. /\ sent' \in [Procs -> 0..MaxDrainEvents]
      /\ late' \in [Procs -> BOOLEAN]
  BY OutboxAssumption DEF Release, TypeOK, OutboxAssumption
<1>4. pc' \in [Procs -> {"idle", "writing", "waiting", "draining",
                       "settling", "burying", "clearing"}]
  BY DEF Release, TypeOK
<1> QED
  BY <1>1, <1>2, <1>3, <1>4

-----------------------------------------------------------------------------
\* An empty outbox with every process idle is well typed.
LEMMA InitType == Init => TypeOK
  BY OutboxAssumption DEF Init, TypeOK, OutboxAssumption

\* enqueue keeps the types.
LEMMA EnqueueType ==
    ASSUME TypeOK, NEW p \in Procs,
           \/ \E name \in Events, payload \in Payloads :
                \/ EnqueueDuplicate(p, name, payload)
                \/ \E at \in Times : EnqueueBegin(p, name, payload, at)
           \/ EnqueueCommit(p) \/ EnqueueFail(p) \/ Crash(p)
    PROVE  TypeOK'
<1> USE DEF TypeOK
<1>1. CASE \E name \in Events, payload \in Payloads :
             EnqueueDuplicate(p, name, payload)
  BY <1>1, OutboxAssumption
  DEF EnqueueDuplicate, Accept, diskVars, drainVars, OutboxAssumption
<1>2. CASE \E name \in Events, payload \in Payloads, at \in Times :
             EnqueueBegin(p, name, payload, at)
  <2>1. PICK name \in Events, payload \in Payloads, at \in Times :
               EnqueueBegin(p, name, payload, at)
    BY <1>2
  <2>2. faults' \in 0..MaxFaults
    BY <2>1, FaultType DEF EnqueueBegin, FaultIf
  <2>3. [id |-> name, payload |-> payload, at |-> at] \in Envelope
    BY DEF Envelope
  <2> QED
    BY <2>1, <2>2, <2>3 DEF EnqueueBegin, diskVars, drainVars, historyVars
<1>3. CASE EnqueueCommit(p)
  <2>1. PICK e \in work[p] : /\ pending' = Replaced(pending, AsPending(e))
                             /\ Accept(e.id, e.payload)
    BY <1>3 DEF EnqueueCommit
  <2>2. e \in Envelope /\ AsPending(e) \in PendingFile
    BY <2>1 DEF Envelope, AsPending, PendingFile
  <2>3. pending' \subseteq PendingFile
    BY <2>1, <2>2 DEF Replaced, Without
  <2>4. accepted' \subseteq Events \X Payloads /\ enqueues' \in 0..MaxEnqueues
    BY <2>1, <2>2, OutboxAssumption DEF Accept, Envelope, OutboxAssumption
  <2> QED
    BY <1>3, <2>3, <2>4, ReleaseType DEF EnqueueCommit
<1>4. CASE EnqueueFail(p)
  BY <1>4, FaultType, ReleaseType DEF EnqueueFail, diskVars, historyVars
<1>5. CASE Crash(p)
  BY <1>5, FaultType, ReleaseType DEF Crash, diskVars, drainVars, historyVars
<1> QED
  BY <1>1, <1>2, <1>3, <1>4, <1>5

\* drain keeps the types.
LEMMA DrainType ==
    ASSUME TypeOK, NEW p \in Procs,
           \/ LockFailed(p) \/ StartDrain(p) \/ BudgetElapses(p)
           \/ DeliverSettled(p) \/ DeliverRetained(p) \/ Settle(p)
           \/ BuryExisting(p) \/ Bury(p) \/ BuryFail(p) \/ Clear(p)
           \/ EndDrain(p)
    PROVE  TypeOK'
<1> USE DEF TypeOK
<1>1. CASE LockFailed(p) \/ BudgetElapses(p) \/ EndDrain(p)
  BY <1>1, ReleaseType
  DEF LockFailed, BudgetElapses, EndDrain, diskVars, drainVars, historyVars
<1>2. CASE StartDrain(p)
  <2>1. faults' \in 0..MaxFaults
    BY <1>2, FaultType DEF StartDrain, FaultIf
  <2>2. pending' \subseteq pending
    BY <1>2 DEF StartDrain
  <2>3. todo' \in [Procs -> SUBSET Envelope]
    <3>1. \A dir : {EnvelopeOf(f) : f \in Readable(pending \ dir)} \subseteq Envelope
      BY DEF Readable, EnvelopeOf, Envelope, PendingFile
    <3> QED
      BY <1>2, <3>1 DEF StartDrain
  <2> QED
    BY <1>2, <2>1, <2>2, <2>3 DEF StartDrain, historyVars
<1>3. CASE DeliverSettled(p)
  <2>1. received' \subseteq Events \X Payloads
    BY <1>3, FirstInBatch DEF DeliverSettled, Envelope
  <2>2. sent' \in [Procs -> 0..MaxDrainEvents]
    BY <1>3, OutboxAssumption DEF DeliverSettled, MaySend, OutboxAssumption
  <2> QED
    BY <1>3, <2>1, <2>2 DEF DeliverSettled, diskVars
<1>4. CASE DeliverRetained(p)
  <2>1. received' \subseteq Events \X Payloads
    BY <1>4, FirstInBatch DEF DeliverRetained, Envelope
  <2>2. sent' \in [Procs -> 0..MaxDrainEvents]
    BY <1>4, OutboxAssumption DEF DeliverRetained, MaySend, OutboxAssumption
  <2> QED
    BY <1>4, <2>1, <2>2 DEF DeliverRetained, NextEvent, diskVars
<1>5. CASE Settle(p) \/ BuryExisting(p) \/ BuryFail(p) \/ Clear(p)
  <2>1. faults' \in 0..MaxFaults
    BY <1>5, FaultType DEF Settle, BuryExisting, BuryFail, Clear
  <2>2. pending' \subseteq pending /\ dead' = dead
    BY <1>5 DEF Settle, BuryExisting, BuryFail, Clear, Without, diskVars
  <2> QED
    BY <1>5, <2>1, <2>2
    DEF Settle, BuryExisting, BuryFail, Clear, NextEvent, historyVars
<1>6. CASE Bury(p)
  <2>1. PICK e \in First(todo[p]), why \in reason[p] :
               dead' = Replaced(dead, AsDead(e, why))
    BY <1>6 DEF Bury
  <2>2. e \in Envelope /\ why \in Reasons
    BY <2>1, FirstInBatch
  <2>3. dead' \subseteq DeadFile
    BY <2>1, <2>2, FileTypes DEF Replaced, Without
  <2> QED
    BY <1>6, <2>3 DEF Bury, historyVars
<1> QED
  BY <1>1, <1>2, <1>3, <1>4, <1>5, <1>6

\* The environment keeps the types.
LEMMA EnvironmentType ==
    ASSUME TypeOK,
           \/ \E f \in pending : DamagePending(f)
           \/ \E f \in dead : DamageDead(f)
           \/ Outage \/ Recover
    PROVE  TypeOK'
<1> USE DEF TypeOK
<1>1. CASE \E f \in pending : DamagePending(f)
  <2>1. PICK f \in pending : DamagePending(f)
    BY <1>1
  <2>2. [f EXCEPT !.ok = FALSE] \in PendingFile
    BY DEF PendingFile
  <2> QED
    BY <2>1, <2>2, FaultType
    DEF DamagePending, Replaced, Without, drainVars, historyVars
<1>2. CASE \E f \in dead : DamageDead(f)
  <2>1. PICK f \in dead : DamageDead(f)
    BY <1>2
  <2>2. [f EXCEPT !.ok = FALSE] \in DeadFile
    BY DEF DeadFile
  <2> QED
    BY <2>1, <2>2, FaultType
    DEF DamageDead, Replaced, Without, drainVars, historyVars
<1>3. CASE Outage \/ Recover
  BY <1>3, FaultType DEF Outage, Recover, diskVars, drainVars, historyVars
<1> QED
  BY <1>1, <1>2, <1>3

\* The variables of the outbox keep their types.
THEOREM TypeCorrect == Spec => []TypeOK
<1>1. Init => TypeOK
  BY InitType
<1>2. TypeOK /\ [Next]_vars => TypeOK'
  <2> SUFFICES ASSUME TypeOK, [Next]_vars PROVE TypeOK'
    OBVIOUS
  <2>1. CASE Next
    BY <2>1, NextCases, EnqueueType, DrainType, EnvironmentType
  <2>2. CASE UNCHANGED vars
    BY <2>2 DEF vars, TypeOK
  <2> QED
    BY <2>1, <2>2
<1> QED
  BY <1>1, <1>2, PTL DEF Spec

-----------------------------------------------------------------------------
(* The inductive invariant, one lemma per action. *)

\* The empty outbox of Init satisfies the inductive invariant.
LEMMA InitIInv == Init => IInv
<1> SUFFICES ASSUME Init PROVE IInv
  OBVIOUS
<1>1. LockInv
  BY OutboxAssumption DEF Init, LockInv, Inside, OutboxAssumption
<1>2. WorkInv /\ TodoInv /\ TodoPresent /\ SettleInv /\ ClearInv
  BY DEF Init, WorkInv, TodoInv, TodoPresent, SettleInv, ClearInv
<1>3. UniqueNames /\ TwinsAgree /\ NoAcceptedEventLost
  BY DEF Init, UniqueNames, TwinsAgree, NoAcceptedEventLost
<1> QED
  BY <1>1, <1>2, <1>3, InitType DEF IInv

\* What a step must preserve beside the types.
Kept == /\ LockInv /\ UniqueNames /\ WorkInv /\ TodoInv /\ TodoPresent
        /\ SettleInv /\ ClearInv /\ TwinsAgree /\ NoAcceptedEventLost

\* Only pc, lock and the locals of p change, and p ends outside.
LEMMA ReleaseKept ==
    ASSUME IInv, NEW p \in Procs, NEW next \in {"idle", "waiting"},
           lock = p, Release(p, next),
           UNCHANGED <<pending, dead, received, accepted>>
    PROVE  Kept'
<1> USE DEF IInv, TypeOK
<1>1. LockInv'
  BY OutboxAssumption DEF LockInv, Release, Inside, OutboxAssumption
<1>2. WorkInv' /\ TodoInv' /\ TodoPresent'
  BY DEF WorkInv, TodoInv, TodoPresent, Release, Ids
<1>3. SettleInv' /\ ClearInv'
  BY DEF SettleInv, ClearInv, Release
<1>4. UniqueNames' /\ TwinsAgree' /\ NoAcceptedEventLost'
  BY DEF UniqueNames, TwinsAgree, NoAcceptedEventLost
<1> QED
  BY <1>1, <1>2, <1>3, <1>4 DEF Kept

\* A duplicate is accepted because a readable file says the same.
LEMMA EnqueueDuplicateKept ==
    ASSUME IInv, NEW p \in Procs, NEW name \in Events, NEW payload \in Payloads,
           EnqueueDuplicate(p, name, payload)
    PROVE  Kept'
<1> USE DEF IInv, TypeOK, EnqueueDuplicate, diskVars, drainVars
<1>1. LockInv'
  BY OutboxAssumption DEF LockInv, Inside, OutboxAssumption
<1>2. WorkInv' /\ TodoInv' /\ TodoPresent' /\ UniqueNames' /\ TwinsAgree'
  BY DEF WorkInv, TodoInv, TodoPresent, UniqueNames, TwinsAgree, Ids
<1>3. SettleInv' /\ ClearInv'
  BY DEF SettleInv, ClearInv
<1>4. NoAcceptedEventLost'
  <2>1. \E f \in pending \cup dead : <<name, payload>> = <<f.id, f.payload>>
    BY DEF SameEvent, Existing
  <2>2. accepted' = accepted \cup {<<name, payload>>}
    BY DEF Accept
  <2> QED
    BY <2>1, <2>2 DEF NoAcceptedEventLost
<1> QED
  BY <1>1, <1>2, <1>3, <1>4 DEF Kept

\* _enqueue_locked found neither file of this name: the envelope it starts to
\* write contradicts no other file.
LEMMA EnqueueBeginKept ==
    ASSUME IInv, NEW p \in Procs, NEW name \in Events, NEW payload \in Payloads,
           NEW at \in Times, EnqueueBegin(p, name, payload, at)
    PROVE  Kept'
<1> USE DEF IInv, TypeOK, EnqueueBegin, diskVars, drainVars, historyVars
<1>1. LockInv'
  BY OutboxAssumption DEF LockInv, Inside, OutboxAssumption
<1>2. WorkInv'
  <2>1. name \notin Ids(pending) /\ name \notin Ids(dead)
    BY DEF Existing, Ids
  <2>2. /\ Ids(pending)' = Ids(pending) /\ Ids(dead)' = Ids(dead)
    BY DEF Ids
  <2>3. \A q \in Procs : \A e \in work'[q] : e \in work[q] \/ e.id = name
    OBVIOUS
  <2> QED
    BY <2>1, <2>2, <2>3 DEF WorkInv
<1>3. /\ TodoInv' /\ TodoPresent' /\ UniqueNames' /\ TwinsAgree'
      /\ NoAcceptedEventLost'
  BY DEF TodoInv, TodoPresent, Ids, UniqueNames, TwinsAgree, NoAcceptedEventLost
<1>4. SettleInv' /\ ClearInv'
  BY DEF SettleInv, ClearInv
<1> QED
  BY <1>1, <1>2, <1>3, <1>4 DEF Kept

\* The new file has a new name, and nobody holds a snapshot.
LEMMA EnqueueCommitKept ==
    ASSUME IInv, NEW p \in Procs, EnqueueCommit(p)
    PROVE  Kept'
<1> USE DEF IInv, TypeOK
<1>1. PICK e \in work[p] : /\ pending' = Replaced(pending, AsPending(e))
                           /\ Accept(e.id, e.payload)
  BY DEF EnqueueCommit
<1>2. pc[p] = "writing" /\ Release(p, "waiting") /\ UNCHANGED <<dead, received>>
  BY DEF EnqueueCommit
<1>3. lock = p
  BY <1>2 DEF LockInv, Inside
<1>4. /\ e.id \notin Ids(pending)
      /\ e.id \notin Ids(dead)
  BY DEF WorkInv
<1>5. pending' = pending \cup {AsPending(e)}
  BY <1>1, <1>4 DEF Replaced, Without, Ids, AsPending
<1>6. AsPending(e).id = e.id /\ AsPending(e).payload = e.payload
  BY DEF AsPending
<1>7. LockInv'
  BY <1>2, <1>3, OutboxAssumption DEF LockInv, Release, Inside, OutboxAssumption
<1>8. UniqueNames' /\ TwinsAgree'
  BY <1>2, <1>4, <1>5, <1>6 DEF UniqueNames, TwinsAgree, Ids
<1>9. \A q \in Procs : work'[q] = {} /\ todo'[q] = {}
  BY <1>2, <1>3 DEF LockInv, Release, Inside
<1>10. WorkInv' /\ TodoInv' /\ TodoPresent'
  BY <1>9 DEF WorkInv, TodoInv, TodoPresent
<1>11. SettleInv' /\ ClearInv'
  BY <1>9 DEF SettleInv, ClearInv, First
<1>12. NoAcceptedEventLost'
  <2>1. accepted' = accepted \cup {<<e.id, e.payload>>}
    BY <1>1 DEF Accept
  <2> QED
    BY <1>2, <1>5, <1>6, <2>1 DEF NoAcceptedEventLost
<1> QED
  BY <1>7, <1>8, <1>10, <1>11, <1>12 DEF Kept

-----------------------------------------------------------------------------
(* drain *)

\* A drain that does not get the lock, or whose budget runs out, moves no file.
LEMMA LockFailedKept ==
    ASSUME IInv, NEW p \in Procs, LockFailed(p) \/ BudgetElapses(p)
    PROVE  Kept'
<1> USE DEF IInv, TypeOK, LockFailed, BudgetElapses, diskVars, drainVars, historyVars
<1>1. LockInv'
  BY OutboxAssumption DEF LockInv, Inside, OutboxAssumption
<1>2. /\ WorkInv' /\ TodoInv' /\ TodoPresent' /\ UniqueNames' /\ TwinsAgree'
      /\ NoAcceptedEventLost'
  BY DEF WorkInv, TodoInv, TodoPresent, UniqueNames, TwinsAgree,
         NoAcceptedEventLost, Ids
<1>3. SettleInv' /\ ClearInv'
  BY DEF SettleInv, ClearInv
<1> QED
  BY <1>1, <1>2, <1>3 DEF Kept

\* Reconciliation removes only pending files whose dead letter says the same.
LEMMA StartDrainKept ==
    ASSUME IInv, NEW p \in Procs, StartDrain(p)
    PROVE  Kept'
<1> USE DEF IInv, TypeOK
<1>1. PICK deadSeen \in Listings(dead), stuck \in SUBSET pending :
        LET twins == {f \in pending : f.id \in Ids(Readable(deadSeen))}
        IN /\ stuck \subseteq twins
           /\ pending' = pending \ (twins \ stuck)
           /\ todo' = [todo EXCEPT ![p] =
                         {EnvelopeOf(f) : f \in Readable(pending \ twins)}]
  BY DEF StartDrain
<1> DEFINE twins == {f \in pending : f.id \in Ids(Readable(deadSeen))}
<1>2. /\ pc[p] \in {"idle", "waiting"} /\ lock = Free /\ lock' = p
      /\ pc' = [pc EXCEPT ![p] = "draining"]
      /\ UNCHANGED <<dead, work, received, accepted>>
  BY DEF StartDrain, historyVars
<1>3. pending' \subseteq pending /\ pending \ pending' \subseteq twins
  BY <1>1
<1>4. \A f \in twins : \E d \in dead : d.id = f.id /\ d.payload = f.payload
  <2>1. Readable(deadSeen) \subseteq dead
    BY DEF Listings, Readable
  <2> QED
    BY <2>1 DEF Ids, TwinsAgree
<1>5. LockInv'
  <2>1. \A q \in Procs : /\ lock # q /\ pc[q] \notin Inside
                         /\ todo[q] = {} /\ work[q] = {}
    BY <1>2, OutboxAssumption DEF LockInv, Inside, OutboxAssumption
  <2>2. \A q \in Procs : work'[q] = {} /\ (q # p => todo'[q] = {})
    BY <1>1, <1>2, <2>1
  <2>3. \A q \in Procs : pc'[q] \in Inside <=> lock' = q
    BY <1>2, <2>1 DEF Inside
  <2> QED
    BY <1>2, <2>2, <2>3 DEF LockInv
<1>6. WorkInv'
  <2>1. Ids(pending)' \subseteq Ids(pending) /\ Ids(dead)' = Ids(dead)
    BY <1>2, <1>3 DEF Ids
  <2> QED
    BY <1>2, <2>1 DEF WorkInv
<1>7. TodoInv'
  <2>1. \A e \in todo'[p] : \E f \in pending : e.id = f.id /\ e.payload = f.payload
    <3>1. todo'[p] = {EnvelopeOf(f) : f \in Readable(pending \ twins)}
      BY <1>1
    <3>2. \A f : EnvelopeOf(f).id = f.id /\ EnvelopeOf(f).payload = f.payload
      BY DEF EnvelopeOf
    <3> QED
      BY <3>1, <3>2 DEF Readable
  <2>2. \A q \in Procs \ {p} : todo'[q] = todo[q]
    BY <1>1
  <2> QED
    BY <1>3, <2>1, <2>2 DEF TodoInv, UniqueNames
<1>8. UniqueNames' /\ TwinsAgree'
  BY <1>2, <1>3 DEF UniqueNames, TwinsAgree
<1>9. SettleInv' /\ ClearInv'
  BY <1>1, <1>2 DEF SettleInv, ClearInv
<1>11. TodoPresent'
  <2>1. \A q \in Procs \ {p} : todo'[q] = {}
    BY <1>1, <1>2, OutboxAssumption DEF LockInv, Inside, OutboxAssumption
  <2>2. \A f : EnvelopeOf(f).id = f.id
    BY DEF EnvelopeOf
  <2>3. \A e \in todo'[p] : \E f \in pending \ twins : e = EnvelopeOf(f)
    BY <1>1 DEF Readable
  <2>4. pending \ twins \subseteq pending'
    BY <1>1
  <2> QED
    BY <2>1, <2>2, <2>3, <2>4 DEF TodoPresent, Ids, UniqueNames
<1>10. NoAcceptedEventLost'
  <2> SUFFICES ASSUME NEW a \in accepted, a \notin received
               PROVE  \E f \in pending' \cup dead : a = <<f.id, f.payload>>
    BY <1>2 DEF NoAcceptedEventLost
  <2>1. PICK f \in pending \cup dead : a = <<f.id, f.payload>>
    BY DEF NoAcceptedEventLost
  <2> QED
    BY <1>3, <1>4, <2>1
<1> QED
  BY <1>5, <1>6, <1>7, <1>8, <1>9, <1>10, <1>11 DEF Kept

\* The file of a dead letter keeps its name, and a pending file that goes
\* takes its envelope off the snapshot.
LEMMA NextEventPresent ==
    ASSUME IInv, NEW p \in Procs, lock = p, NextEvent(p),
           \/ pending' = pending
           \/ \E e \in First(todo[p]) : pending' \in {pending, Without(pending, e.id)}
    PROVE  TodoPresent'
<1> USE DEF IInv, TypeOK, NextEvent
<1>1. \A q \in Procs \ {p} : todo'[q] = {}
  BY DEF LockInv, Inside
<1>2. todo'[p] \subseteq todo[p]
  OBVIOUS
<1>3. \A a \in todo'[p] : a.id \in Ids(pending')
  <2>1. CASE pending' = pending
    BY <1>2, <2>1 DEF TodoPresent
  <2>2. CASE \E e \in First(todo[p]) : pending' \in {pending, Without(pending, e.id)}
    <3>1. PICK e \in First(todo[p]) : pending' \in {pending, Without(pending, e.id)}
      BY <2>2
    <3>2. \A a \in todo'[p] : a.id # e.id /\ a.id \in Ids(pending)
      BY FirstInBatch DEF TodoPresent
    <3> QED
      BY <3>1, <3>2 DEF Ids, Without
  <2> QED
    BY <2>1, <2>2
<1>4. Ids(pending') = Ids(pending)'
  BY DEF Ids
<1> QED
  BY <1>1, <1>2, <1>3, <1>4 DEF TodoPresent

\* A step of p inside its drain that takes envelopes off its snapshot.
LEMMA NextEventKept ==
    ASSUME IInv, NEW p \in Procs, lock = p, NextEvent(p),
           pc[p] \in Inside \ {"writing"},
           UNCHANGED <<dead, lock, work, accepted>>,
           pending' \subseteq pending, received \subseteq received',
           \/ pending' = pending
           \/ \E e \in First(todo[p]) : pending' \in {pending, Without(pending, e.id)}
    PROVE  /\ LockInv' /\ WorkInv' /\ TodoInv' /\ SettleInv' /\ ClearInv'
           /\ UniqueNames' /\ TwinsAgree' /\ TodoPresent'
<1> USE DEF IInv, TypeOK, NextEvent
<1>1. LockInv'
  BY OutboxAssumption DEF LockInv, Inside, OutboxAssumption
<1>2. WorkInv'
  <2>1. Ids(pending)' \subseteq Ids(pending) /\ Ids(dead)' = Ids(dead)
    BY DEF Ids
  <2> QED
    BY <2>1 DEF WorkInv
<1>3. TodoInv'
  BY DEF TodoInv
<1>4. SettleInv' /\ ClearInv'
  BY DEF SettleInv, ClearInv
<1>5. UniqueNames' /\ TwinsAgree'
  BY DEF UniqueNames, TwinsAgree
<1>6. TodoPresent'
  BY NextEventPresent
<1> QED
  BY <1>1, <1>2, <1>3, <1>4, <1>5, <1>6

\* A delivery that settled remembers an answer; one that was retained changes no
\* file: nothing accepted can be lost by sending.
LEMMA DeliverKept ==
    ASSUME IInv, NEW p \in Procs, DeliverSettled(p) \/ DeliverRetained(p)
    PROVE  Kept'
<1> USE DEF IInv, TypeOK
<1>1. /\ pc[p] = "draining" /\ UNCHANGED <<pending, dead, lock, work, accepted>>
      /\ received \subseteq received'
  BY DEF DeliverSettled, DeliverRetained, MaySend, diskVars
<1>2. lock = p
  BY <1>1 DEF LockInv, Inside
<1>3. NoAcceptedEventLost'
  BY <1>1 DEF NoAcceptedEventLost
<1>4. CASE DeliverRetained(p)
  BY <1>1, <1>2, <1>3, <1>4, NextEventKept DEF DeliverRetained, Inside, Kept
<1>5. CASE DeliverSettled(p)
  <2>1. PICK e \in First(todo[p]) :
               \/ /\ received' = received \cup {<<e.id, e.payload>>}
                  /\ pc' = [pc EXCEPT ![p] = "settling"]
               \/ /\ received' = received
                  /\ pc' = [pc EXCEPT ![p] = "burying"]
    BY <1>5 DEF DeliverSettled
  <2>2. todo' = todo
    BY <1>5 DEF DeliverSettled
  <2>3. LockInv'
    BY <1>1, <1>2, <2>1, <2>2 DEF LockInv, Inside
  <2>4. WorkInv' /\ TodoInv' /\ TodoPresent' /\ UniqueNames' /\ TwinsAgree'
    BY <1>1, <2>2 DEF WorkInv, TodoInv, TodoPresent, UniqueNames, TwinsAgree, Ids
  <2>5. SettleInv'
    <3>1. \A a, b \in First(todo[p]) : a = b
      BY FirstUnique
    <3>2. pc'[p] = "settling" => \A a \in First(todo[p]) : <<a.id, a.payload>> \in received'
      BY <2>1, <3>1
    <3>3. \A q \in Procs \ {p} : pc'[q] = pc[q]
      BY <2>1
    <3> QED
      BY <1>1, <2>2, <3>2, <3>3 DEF SettleInv
  <2>6. ClearInv'
    BY <1>1, <2>1, <2>2 DEF ClearInv
  <2> QED
    BY <1>3, <2>3, <2>4, <2>5, <2>6 DEF Kept
<1> QED
  BY <1>4, <1>5

\* When a pending file goes, its event is safe elsewhere.
LEMMA RemovalKeepsAccepted ==
    ASSUME IInv, NEW p \in Procs, NEW e \in todo[p],
           pending' \in {pending, Without(pending, e.id)},
           UNCHANGED <<dead, received, accepted>>,
           \/ <<e.id, e.payload>> \in received
           \/ \E d \in dead : d.id = e.id /\ d.payload = e.payload
    PROVE  NoAcceptedEventLost'
<1> USE DEF IInv
<1> SUFFICES ASSUME NEW a \in accepted, a \notin received
             PROVE  \E f \in pending' \cup dead : a = <<f.id, f.payload>>
  BY DEF NoAcceptedEventLost
<1>1. PICK f \in pending \cup dead : a = <<f.id, f.payload>>
  BY DEF NoAcceptedEventLost
<1>2. CASE f \in dead
  BY <1>1, <1>2
<1>3. CASE f \in pending /\ f.id # e.id
  BY <1>1, <1>3 DEF Without
<1>4. CASE f \in pending /\ f.id = e.id
  <2>1. f.payload = e.payload
    BY <1>4 DEF TodoInv
  <2> QED
    BY <1>1, <1>4, <2>1
<1> QED
  BY <1>1, <1>2, <1>3, <1>4

\* The four steps that unlink a pending file, or fail to: what they unlink was
\* delivered, or has a dead letter that says the same.
LEMMA RemoveKept ==
    ASSUME IInv, NEW p \in Procs,
           Settle(p) \/ BuryExisting(p) \/ BuryFail(p) \/ Clear(p)
    PROVE  Kept'
<1> USE DEF IInv, TypeOK
<1>1. /\ pc[p] \in {"settling", "burying", "clearing"} /\ NextEvent(p)
      /\ UNCHANGED <<dead, lock, work, accepted, received>>
      /\ pending' \subseteq pending
  BY DEF Settle, BuryExisting, BuryFail, Clear, diskVars, historyVars, Without
<1>2. lock = p
  BY <1>1 DEF LockInv, Inside
<1>3. NoAcceptedEventLost'
  <2>1. CASE Settle(p)
    <3>1. PICK e \in First(todo[p]) : pending' \in {pending, Without(pending, e.id)}
      BY <2>1 DEF Settle
    <3>2. e \in todo[p] /\ <<e.id, e.payload>> \in received
      BY <2>1, FirstInBatch DEF Settle, SettleInv
    <3> QED
      BY <1>1, <3>1, <3>2, RemovalKeepsAccepted
  <2>2. CASE Clear(p)
    <3>1. PICK e \in First(todo[p]) : pending' \in {pending, Without(pending, e.id)}
      BY <2>2 DEF Clear
    <3>2. e \in todo[p] /\ \E d \in dead : d.id = e.id /\ d.payload = e.payload
      BY <2>2, FirstInBatch DEF Clear, ClearInv
    <3> QED
      BY <1>1, <3>1, <3>2, RemovalKeepsAccepted
  <2>3. CASE BuryExisting(p)
    <3>1. PICK e \in First(todo[p]), d \in dead :
             /\ d.id = e.id
             /\ IF d.ok /\ d.payload = e.payload /\ d.why \in reason[p]
                THEN pending' \in {pending, Without(pending, e.id)}
                ELSE pending' = pending
      BY <2>3 DEF BuryExisting
    <3>2. CASE d.payload = e.payload
      BY <1>1, <3>1, <3>2, FirstInBatch, RemovalKeepsAccepted
    <3>3. CASE d.payload # e.payload
      BY <1>1, <3>1, <3>3 DEF NoAcceptedEventLost
    <3> QED
      BY <3>2, <3>3
  <2>4. CASE BuryFail(p)
    BY <1>1, <2>4 DEF BuryFail, diskVars, NoAcceptedEventLost
  <2> QED
    BY <2>1, <2>2, <2>3, <2>4
<1>4. \/ pending' = pending
      \/ \E e \in First(todo[p]) : pending' \in {pending, Without(pending, e.id)}
  BY DEF Settle, BuryExisting, BuryFail, Clear, diskVars
<1> QED
  BY <1>1, <1>2, <1>3, <1>4, NextEventKept DEF Kept, Inside

\* The dead letter is new and says what the pending file says.
LEMMA BuryKept ==
    ASSUME IInv, NEW p \in Procs, Bury(p)
    PROVE  Kept'
<1> USE DEF IInv, TypeOK
<1>1. PICK e \in First(todo[p]), why \in reason[p] :
             e.id \notin Ids(dead) /\ dead' = Replaced(dead, AsDead(e, why))
  BY DEF Bury
<1>2. /\ pc[p] = "burying" /\ pc' = [pc EXCEPT ![p] = "clearing"]
      /\ UNCHANGED <<pending, lock, work, todo, accepted, received>>
  BY DEF Bury, historyVars
<1>3. lock = p
  BY <1>2 DEF LockInv, Inside
<1>4. /\ dead' = dead \cup {AsDead(e, why)}
      /\ AsDead(e, why).id = e.id /\ AsDead(e, why).payload = e.payload
  BY <1>1 DEF Replaced, Without, Ids, AsDead
<1>5. e \in todo[p]
  BY FirstInBatch
<1>6. LockInv'
  BY <1>2, <1>3 DEF LockInv, Inside
<1>7. WorkInv' /\ TodoInv' /\ TodoPresent'
  <2>1. \A q \in Procs : work[q] = {}
    BY <1>2, <1>3 DEF LockInv, Inside
  <2> QED
    BY <1>2, <2>1 DEF WorkInv, TodoInv, TodoPresent, Ids
<1>8. UniqueNames'
  BY <1>1, <1>2, <1>4 DEF UniqueNames, Ids
<1>9. TwinsAgree'
  BY <1>1, <1>2, <1>4, <1>5 DEF TwinsAgree, TodoInv, Ids
<1>10. SettleInv'
  BY <1>2 DEF SettleInv
<1>11. ClearInv'
  <2>1. \A a, b \in First(todo[p]) : a = b
    BY FirstUnique
  <2> QED
    BY <1>2, <1>4, <2>1 DEF ClearInv
<1>12. NoAcceptedEventLost'
  BY <1>2, <1>4 DEF NoAcceptedEventLost
<1> QED
  BY <1>6, <1>7, <1>8, <1>9, <1>10, <1>11, <1>12 DEF Kept

\* Damage changes what can be read, not what a file is called or says.
LEMMA EnvironmentKept ==
    ASSUME IInv,
           \/ \E f \in pending : DamagePending(f)
           \/ \E f \in dead : DamageDead(f)
           \/ Outage \/ Recover
    PROVE  Kept'
<1> USE DEF IInv, TypeOK
<1>1. /\ UNCHANGED <<lock, pc, work, todo, received, accepted>>
      /\ \A f \in pending' : \E g \in pending : f.id = g.id /\ f.payload = g.payload
      /\ \A f \in pending : \E g \in pending' : f.id = g.id /\ f.payload = g.payload
      /\ \A f \in dead' : \E g \in dead : f.id = g.id /\ f.payload = g.payload
      /\ \A f \in dead : \E g \in dead' : f.id = g.id /\ f.payload = g.payload
      /\ UniqueNames'
  <2>1. CASE \E f \in pending : DamagePending(f)
    <3>1. PICK f \in pending : DamagePending(f)
      BY <2>1
    <3> DEFINE h == [f EXCEPT !.ok = FALSE]
    <3>2. h.id = f.id /\ h.payload = f.payload
      BY DEF PendingFile
    <3>3. pending' = Without(pending, f.id) \cup {h} /\ dead' = dead
      BY <3>1, <3>2 DEF DamagePending, Replaced
    <3>4. \A g \in pending : g.id = f.id => g = f
      BY DEF UniqueNames
    <3>5. UniqueNames'
      BY <3>2, <3>3 DEF UniqueNames, Without
    <3> HIDE DEF h
    <3>6. /\ \A g \in pending' : \E k \in pending : g.id = k.id /\ g.payload = k.payload
          /\ \A g \in pending : \E k \in pending' : g.id = k.id /\ g.payload = k.payload
      BY <3>2, <3>3, <3>4 DEF Without
    <3> QED
      BY <3>1, <3>3, <3>5, <3>6 DEF DamagePending, drainVars, historyVars
  <2>2. CASE \E f \in dead : DamageDead(f)
    <3>1. PICK f \in dead : DamageDead(f)
      BY <2>2
    <3> DEFINE h == [f EXCEPT !.ok = FALSE]
    <3>2. h.id = f.id /\ h.payload = f.payload
      BY DEF DeadFile
    <3>3. dead' = Without(dead, f.id) \cup {h} /\ pending' = pending
      BY <3>1, <3>2 DEF DamageDead, Replaced
    <3>4. \A g \in dead : g.id = f.id => g = f
      BY DEF UniqueNames
    <3>5. UniqueNames'
      BY <3>2, <3>3 DEF UniqueNames, Without
    <3> HIDE DEF h
    <3>6. /\ \A g \in dead' : \E k \in dead : g.id = k.id /\ g.payload = k.payload
          /\ \A g \in dead : \E k \in dead' : g.id = k.id /\ g.payload = k.payload
      BY <3>2, <3>3, <3>4 DEF Without
    <3> QED
      BY <3>1, <3>3, <3>5, <3>6 DEF DamageDead, drainVars, historyVars
  <2>3. CASE Outage \/ Recover
    BY <2>3 DEF Outage, Recover, diskVars, drainVars, historyVars, UniqueNames
  <2> QED
    BY <2>1, <2>2, <2>3
<1>2. LockInv' /\ SettleInv'
  BY <1>1 DEF LockInv, SettleInv
<1>3. WorkInv'
  BY <1>1 DEF WorkInv, Ids
<1>4. TodoInv' /\ TodoPresent'
  BY <1>1 DEF TodoInv, TodoPresent, Ids
<1>5. ClearInv'
  BY <1>1 DEF ClearInv
<1>6. TwinsAgree'
  BY <1>1 DEF TwinsAgree
<1>7. NoAcceptedEventLost'
  BY <1>1 DEF NoAcceptedEventLost
<1> QED
  BY <1>1, <1>2, <1>3, <1>4, <1>5, <1>6, <1>7 DEF Kept

\* A process that dies frees the lock and forgets its locals; the files stay.
LEMMA CrashKept ==
    ASSUME IInv, NEW p \in Procs, Crash(p)
    PROVE  Kept'
<1> USE DEF IInv, TypeOK
<1>1. CASE lock = p
  BY <1>1, ReleaseKept DEF Crash, diskVars, historyVars
<1>2. CASE lock # p
  <2>1. /\ pc' = [pc EXCEPT ![p] = "idle"]
        /\ UNCHANGED <<pending, dead, lock, work, todo, received, accepted>>
    BY <1>2 DEF Crash, diskVars, drainVars, historyVars
  <2>2. pc[p] \in {"idle", "waiting"}
    BY <1>2 DEF LockInv, Inside
  <2>3. LockInv'
    BY <1>2, <2>1, <2>2 DEF LockInv, Inside
  <2>4. /\ WorkInv' /\ TodoInv' /\ TodoPresent' /\ UniqueNames' /\ TwinsAgree'
        /\ NoAcceptedEventLost'
    BY <2>1 DEF WorkInv, TodoInv, TodoPresent, UniqueNames, TwinsAgree,
                NoAcceptedEventLost, Ids
  <2>5. SettleInv' /\ ClearInv'
    BY <2>1 DEF SettleInv, ClearInv
  <2> QED
    BY <2>3, <2>4, <2>5 DEF Kept
<1> QED
  BY <1>1, <1>2

\* Ending a drain or a failed enqueue gives the lock back and moves no file.
LEMMA LeaveKept ==
    ASSUME IInv, NEW p \in Procs, EndDrain(p) \/ EnqueueFail(p)
    PROVE  Kept'
<1>1. lock = p
  BY DEF IInv, LockInv, Inside, EndDrain, EnqueueFail
<1> QED
  BY <1>1, ReleaseKept DEF EndDrain, EnqueueFail, diskVars, historyVars

\* The inductive invariant is inductive: one case per action, each by its lemma.
LEMMA StepIInv ==
    ASSUME IInv, [Next]_vars
    PROVE  IInv'
<1>1. CASE Next
  <2>1. TypeOK'
    BY <1>1, NextCases, EnqueueType, DrainType, EnvironmentType DEF IInv
  <2>2. Kept'
    BY <1>1, NextCases, EnqueueDuplicateKept, EnqueueBeginKept,
       EnqueueCommitKept, LockFailedKept, StartDrainKept, DeliverKept,
       RemoveKept, BuryKept, EnvironmentKept, CrashKept, LeaveKept
  <2> QED
    BY <2>1, <2>2 DEF Kept, IInv
<1>2. CASE UNCHANGED vars
  <2>1. TypeOK'
    BY <1>2 DEF vars, TypeOK, IInv
  <2>2. LockInv' /\ SettleInv' /\ ClearInv'
    BY <1>2 DEF vars, IInv, LockInv, SettleInv, ClearInv
  <2>3. /\ UniqueNames' /\ WorkInv' /\ TodoInv' /\ TodoPresent' /\ TwinsAgree'
        /\ NoAcceptedEventLost'
    BY <1>2 DEF vars, IInv, UniqueNames, WorkInv, TodoInv, TodoPresent, TwinsAgree,
                NoAcceptedEventLost, Ids
  <2> QED
    BY <2>1, <2>2, <2>3 DEF IInv
<1> QED
  BY <1>1, <1>2

\* The inductive invariant holds in every reachable state: the lock is held by
\* whoever is inside, and snapshots, files and history agree.
THEOREM Invariance == Spec => []IInv
<1> QED
  BY InitIInv, StepIInv, PTL DEF Spec

\* At-least-once: whatever crashes, fails or is damaged, an event that enqueue
\* accepted is stored by the monitor or still in a file.
THEOREM AcceptedEventsAreKept == Spec => []NoAcceptedEventLost
<1>1. IInv => NoAcceptedEventLost
  BY DEF IInv
<1> QED
  BY <1>1, Invariance, PTL

\* Both files of one event say the same, so dropping one loses nothing.
THEOREM TwinsAlwaysAgree == Spec => []TwinsAgree
<1>1. IInv => TwinsAgree
  BY DEF IInv
<1> QED
  BY <1>1, Invariance, PTL

-----------------------------------------------------------------------------
\* Dead letters are never lost: no step removes or rewrites one.
THEOREM DeadLettersAreKept == Spec => DeadLettersKept
<1> DEFINE Same(k, d) ==
      <<k.id, k.payload, k.at, k.why>> = <<d.id, d.payload, d.at, d.why>>
<1>1. ASSUME IInv, [Next]_vars, NEW d \in dead
      PROVE  \E k \in dead' : Same(k, d)
  <2>1. CASE d \in dead'
    BY <2>1
  <2>2. CASE \E p \in Procs : Bury(p)
    <3>1. PICK e, why : /\ e.id \notin Ids(dead)
                        /\ dead' = Replaced(dead, AsDead(e, why))
      BY <2>2 DEF Bury
    <3>2. d.id # AsDead(e, why).id
      BY <3>1 DEF Ids, AsDead
    <3> QED
      BY <3>1, <3>2 DEF Replaced, Without
  <2>3. CASE \E f \in dead : DamageDead(f)
    <3>1. PICK f \in dead : DamageDead(f)
      BY <2>3
    <3> DEFINE h == [f EXCEPT !.ok = FALSE]
    <3>2. Same(h, f) /\ h \in dead'
      BY <1>1, <3>1 DEF IInv, TypeOK, DeadFile, DamageDead, Replaced
    <3>3. d = f \/ d.id # f.id
      BY <1>1 DEF IInv, UniqueNames
    <3>4. h.id = f.id
      BY <3>2
    <3> HIDE DEF h
    <3> QED
      BY <3>1, <3>2, <3>3, <3>4 DEF DamageDead, Replaced, Without
  <2>4. CASE dead' = dead
    BY <2>4
  <2> QED
    BY <1>1, <2>2, <2>3, <2>4, NextCases
    DEF EnqueueDuplicate, EnqueueBegin, EnqueueCommit, EnqueueFail, LockFailed,
        StartDrain, BudgetElapses, DeliverSettled, DeliverRetained, Settle,
        BuryExisting, BuryFail, Clear, EndDrain, Crash, DamagePending, Outage,
        Recover, diskVars, vars
<1>2. IInv /\ [Next]_vars =>
        [\A d \in dead : \E k \in dead' : Same(k, d)]_vars
  BY <1>1
<1> QED
  BY <1>2, Invariance, PTL DEF Spec, DeadLettersKept

-----------------------------------------------------------------------------
(* The count limit. *)

\* A directory has at most as many names as files.
LEMMA IdsFinite ==
    ASSUME NEW dir, IsFiniteSet(dir)
    PROVE  IsFiniteSet(Ids(dir)) /\ Cardinality(Ids(dir)) <= Cardinality(dir)
<1> DEFINE name == [f \in dir |-> f.id]
<1>1. name \in Surjection(dir, Ids(dir))
  BY DEF Surjection, Ids
<1> QED
  BY <1>1, FS_Surjection

\* With fewer names than before, the limit still holds.
LEMMA FewerNames ==
    ASSUME NEW old, NEW new, IsFiniteSet(old), new \subseteq old
    PROVE  Cardinality(new) <= Cardinality(old)
  BY FS_Subset

\* Cardinalities of finite sets can be compared as numbers.
LEMMA NatCardinality ==
    ASSUME NEW S, IsFiniteSet(S)
    PROVE  Cardinality(S) \in Nat
  BY FS_CardinalityType

\* HasRoom on the true listings: a new name fits.
LEMMA RoomForOneMore ==
    ASSUME IsFiniteSet(pending), IsFiniteSet(dead), NEW payload,
           HasRoom(pending, dead, payload)
    PROVE  Cardinality(Ids(pending) \cup Ids(dead)) < MaxEvents
<1>1. /\ Cardinality(pending) \in Nat /\ Cardinality(dead) \in Nat
      /\ Cardinality(Ids(pending)) \in Nat /\ Cardinality(Ids(dead)) \in Nat
      /\ Cardinality(Ids(pending) \cap Ids(dead)) \in Nat
  BY IdsFinite, FS_CardinalityType, FS_Intersection
<1>2. Cardinality(Ids(pending) \cup Ids(dead)) =
        Cardinality(Ids(pending)) + Cardinality(Ids(dead))
          - Cardinality(Ids(pending) \cap Ids(dead))
  BY IdsFinite, FS_Union
<1>3. /\ Cardinality(Ids(pending)) <= Cardinality(pending)
      /\ Cardinality(Ids(dead)) <= Cardinality(dead)
  BY IdsFinite
<1>4. Cardinality(pending) + Cardinality(dead) < MaxEvents
  BY DEF HasRoom
<1>5. MaxEvents \in Nat
  BY OutboxAssumption DEF OutboxAssumption
<1> HIDE DEF HasRoom
<1> QED
  BY <1>1, <1>2, <1>3, <1>4, <1>5

\* An empty outbox has room.
LEMMA InitQuota == Init => QuotaInv
<1> SUFFICES ASSUME Init PROVE QuotaInv
  OBVIOUS
<1>1. Ids(pending) \cup Ids(dead) = {}
  BY DEF Init, Ids
<1>2. IsFiniteSet(pending) /\ IsFiniteSet(dead) /\ Cardinality({}) = 0
  BY FS_EmptySet DEF Init
<1>3. QuotaRespected
  BY <1>1, <1>2, OutboxAssumption DEF QuotaRespected, OutboxAssumption
<1>4. RoomKept
  BY DEF Init, RoomKept
<1> QED
  BY <1>2, <1>3, <1>4 DEF QuotaInv

\* Steps that add no name and start no write.
LEMMA NoNewName ==
    ASSUME QuotaInv, IsFiniteSet(pending)', IsFiniteSet(dead)',
           Ids(pending)' \cup Ids(dead)' \subseteq Ids(pending) \cup Ids(dead),
           \A q \in Procs : pc'[q] = "writing" => pc[q] = "writing"
    PROVE  QuotaRespected' /\ RoomKept'
<1>1. IsFiniteSet(Ids(pending) \cup Ids(dead))
  BY IdsFinite, FS_Union DEF QuotaInv
<1>2. IsFiniteSet(Ids(pending)' \cup Ids(dead)')
  BY <1>1, FS_Subset
<1>3. Cardinality(Ids(pending)' \cup Ids(dead)')
        <= Cardinality(Ids(pending) \cup Ids(dead))
  BY <1>1, FewerNames
<1>4. /\ Cardinality(Ids(pending) \cup Ids(dead)) \in Nat
      /\ Cardinality(Ids(pending)' \cup Ids(dead)') \in Nat
      /\ MaxEvents \in Nat
  BY <1>1, <1>2, NatCardinality, OutboxAssumption DEF OutboxAssumption
<1>5. Cardinality(Ids(pending) \cup Ids(dead)) <= MaxEvents
  BY DEF QuotaInv, QuotaRespected
<1>6. QuotaRespected'
  BY <1>3, <1>4, <1>5 DEF QuotaRespected
<1>7. RoomKept'
  <2> SUFFICES ASSUME NEW q \in Procs, pc'[q] = "writing"
               PROVE  Cardinality(Ids(pending)' \cup Ids(dead)') < MaxEvents
    BY DEF RoomKept
  <2>1. Cardinality(Ids(pending) \cup Ids(dead)) < MaxEvents
    BY DEF QuotaInv, RoomKept
  <2> QED
    BY <1>3, <1>4, <2>1
<1> QED
  BY <1>6, <1>7

\* enqueue adds a name only after HasRoom saw the true listings, under the lock.
LEMMA EnqueueQuota ==
    ASSUME IInv, QuotaInv, "listing" \notin Faults, NEW p \in Procs,
           \/ \E name \in Events, payload \in Payloads :
                \/ EnqueueDuplicate(p, name, payload)
                \/ \E at \in Times : EnqueueBegin(p, name, payload, at)
           \/ EnqueueCommit(p)
    PROVE  QuotaInv'
<1> USE DEF IInv, TypeOK
<1>1. CASE \E name \in Events, payload \in Payloads :
             EnqueueDuplicate(p, name, payload)
  <2>1. /\ UNCHANGED <<pending, dead>>
        /\ pc' = [pc EXCEPT ![p] = "waiting"]
    BY <1>1 DEF EnqueueDuplicate, diskVars
  <2>2. QuotaRespected' /\ RoomKept'
    BY <2>1, NoNewName DEF QuotaInv, Ids
  <2> QED
    BY <2>1, <2>2 DEF QuotaInv
<1>2. CASE \E name \in Events, payload \in Payloads, at \in Times :
             EnqueueBegin(p, name, payload, at)
  <2>1. PICK payload \in Payloads : HasRoom(pending, dead, payload)
    BY <1>2 DEF EnqueueBegin, Listings
  <2>2. UNCHANGED <<pending, dead>>
    BY <1>2 DEF EnqueueBegin, diskVars
  <2>3. Cardinality(Ids(pending) \cup Ids(dead)) < MaxEvents
    BY <2>1, RoomForOneMore DEF QuotaInv
  <2>4. QuotaRespected' /\ RoomKept'
    BY <2>2, <2>3 DEF QuotaInv, QuotaRespected, RoomKept, Ids
  <2> QED
    BY <2>2, <2>4 DEF QuotaInv
<1>3. CASE EnqueueCommit(p)
  <2>1. PICK e \in work[p] : pending' = Replaced(pending, AsPending(e))
    BY <1>3 DEF EnqueueCommit
  <2>2. /\ pc[p] = "writing" /\ dead' = dead
        /\ pc' = [pc EXCEPT ![p] = "waiting"]
    BY <1>3 DEF EnqueueCommit, Release
  <2>3. e.id \notin Ids(pending)
    BY DEF WorkInv
  <2>4. pending' = pending \cup {AsPending(e)} /\ AsPending(e).id = e.id
    BY <2>1, <2>3 DEF Replaced, Without, Ids, AsPending
  <2>5. IsFiniteSet(pending)'
    BY <2>4, FS_AddElement DEF QuotaInv
  <2>6. Ids(pending)' \cup Ids(dead)' = (Ids(pending) \cup Ids(dead)) \cup {e.id}
    BY <2>2, <2>4 DEF Ids
  <2>7. IsFiniteSet(Ids(pending) \cup Ids(dead))
    BY IdsFinite, FS_Union DEF QuotaInv
  <2>8. Cardinality(Ids(pending)' \cup Ids(dead)')
          <= Cardinality(Ids(pending) \cup Ids(dead)) + 1
    <3> DEFINE S == Ids(pending) \cup Ids(dead)
    <3>1. IsFiniteSet(S) /\ Cardinality(S) \in Nat
      BY <2>7, NatCardinality
    <3> HIDE DEF S
    <3>2. Cardinality(S \cup {e.id}) = IF e.id \in S THEN Cardinality(S)
                                                     ELSE Cardinality(S) + 1
      BY <3>1, FS_AddElement
    <3>3. Cardinality(S \cup {e.id}) <= Cardinality(S) + 1
      BY <3>1, <3>2
    <3> QED
      BY <2>6, <3>3 DEF S
  <2>9. Cardinality(Ids(pending) \cup Ids(dead)) < MaxEvents
    BY <2>2 DEF QuotaInv, RoomKept
  <2>10. /\ Cardinality(Ids(pending) \cup Ids(dead)) \in Nat
         /\ Cardinality(Ids(pending)' \cup Ids(dead)') \in Nat
         /\ MaxEvents \in Nat
    BY <2>6, <2>7, NatCardinality, FS_AddElement, OutboxAssumption
    DEF OutboxAssumption
  <2>11. QuotaRespected'
    BY <2>8, <2>9, <2>10 DEF QuotaRespected
  <2>12. RoomKept'
    <3>1. \A q \in Procs \ {p} : pc[q] # "writing"
      BY <2>2 DEF LockInv, Inside
    <3> QED
      BY <2>2, <3>1 DEF RoomKept
  <2> QED
    BY <2>2, <2>5, <2>11, <2>12 DEF QuotaInv
<1> QED
  BY <1>1, <1>2, <1>3

\* The steps of a drain after an answer move or unlink files of known names.
LEMMA DrainQuota ==
    ASSUME IInv, QuotaInv, NEW p \in Procs,
           \/ Settle(p) \/ BuryExisting(p) \/ BuryFail(p) \/ Clear(p)
           \/ DeliverRetained(p)
    PROVE  QuotaInv'
<1> USE DEF IInv, TypeOK
<1>1. /\ pc[p] \in Inside \ {"writing"} /\ NextEvent(p) /\ dead' = dead
      /\ pending' \subseteq pending
  BY DEF Settle, BuryExisting, BuryFail, Clear, DeliverRetained, MaySend,
         diskVars, Without, Inside
<1>3. IsFiniteSet(pending)' /\ IsFiniteSet(dead)'
  BY <1>1, FS_Subset DEF QuotaInv
<1>4. Ids(pending)' \cup Ids(dead)' \subseteq Ids(pending) \cup Ids(dead)
  BY <1>1 DEF Ids
<1>5. QuotaRespected' /\ RoomKept'
  BY <1>1, <1>3, <1>4, NoNewName DEF NextEvent
<1> QED
  BY <1>3, <1>5 DEF QuotaInv

\* Reconciliation removes files and adds none.
LEMMA StartDrainQuota ==
    ASSUME IInv, QuotaInv, NEW p \in Procs, StartDrain(p)
    PROVE  QuotaInv'
<1> USE DEF IInv, TypeOK
<1>1. /\ pending' \subseteq pending /\ dead' = dead
      /\ pc' = [pc EXCEPT ![p] = "draining"]
  BY DEF StartDrain
<1>2. IsFiniteSet(pending)' /\ IsFiniteSet(dead)'
  BY <1>1, FS_Subset DEF QuotaInv
<1>3. Ids(pending)' \cup Ids(dead)' \subseteq Ids(pending) \cup Ids(dead)
  BY <1>1 DEF Ids
<1>4. QuotaRespected' /\ RoomKept'
  BY <1>1, <1>2, <1>3, NoNewName
<1> QED
  BY <1>2, <1>4 DEF QuotaInv

\* A dead letter takes over the name of the pending file it replaces.
LEMMA BuryQuota ==
    ASSUME IInv, QuotaInv, NEW p \in Procs, Bury(p)
    PROVE  QuotaInv'
<1> USE DEF IInv, TypeOK
<1>1. PICK e \in First(todo[p]), why \in reason[p] :
             e.id \notin Ids(dead) /\ dead' = Replaced(dead, AsDead(e, why))
  BY DEF Bury
<1>2. /\ pending' = pending /\ todo' = todo
      /\ pc' = [pc EXCEPT ![p] = "clearing"]
  BY DEF Bury
<1>3. dead' = dead \cup {AsDead(e, why)} /\ AsDead(e, why).id = e.id
  BY <1>1 DEF Replaced, Without, Ids, AsDead
<1>4. e.id \in Ids(pending)
  BY FirstInBatch DEF TodoPresent
<1>5. Ids(pending)' \cup Ids(dead)' \subseteq Ids(pending) \cup Ids(dead)
  BY <1>2, <1>3, <1>4 DEF Ids
<1>6. IsFiniteSet(pending)' /\ IsFiniteSet(dead)'
  BY <1>2, <1>3, FS_AddElement DEF QuotaInv
<1>7. QuotaRespected' /\ RoomKept'
  BY <1>2, <1>5, <1>6, NoNewName
<1> QED
  BY <1>6, <1>7 DEF QuotaInv

\* The other steps touch no file's name and no snapshot, or end the drain.
LEMMA OtherQuota ==
    ASSUME IInv, QuotaInv,
           \/ \E p \in Procs : \/ EnqueueFail(p) \/ LockFailed(p) \/ EndDrain(p)
                               \/ BudgetElapses(p) \/ DeliverSettled(p) \/ Crash(p)
           \/ Outage \/ Recover \/ UNCHANGED vars
    PROVE  QuotaInv'
<1> USE DEF IInv, TypeOK
<1>1. /\ UNCHANGED <<pending, dead>>
      /\ \A q \in Procs : pc'[q] = "writing" => pc[q] = "writing"
  BY DEF EnqueueFail, LockFailed, EndDrain, BudgetElapses, DeliverSettled, Crash,
         Outage, Recover, vars, Release, diskVars, drainVars, historyVars
<1>2. QuotaRespected' /\ RoomKept'
  BY <1>1, NoNewName DEF QuotaInv, Ids
<1> QED
  BY <1>1, <1>2 DEF QuotaInv

\* Damage renames no file.
LEMMA DamageQuota ==
    ASSUME IInv, QuotaInv,
           \/ \E f \in pending : DamagePending(f)
           \/ \E f \in dead : DamageDead(f)
    PROVE  QuotaInv'
<1> USE DEF IInv, TypeOK
<1>1. /\ UNCHANGED pc
      /\ Ids(pending)' = Ids(pending) /\ Ids(dead)' = Ids(dead)
      /\ IsFiniteSet(pending)' /\ IsFiniteSet(dead)'
  <2>1. CASE \E f \in pending : DamagePending(f)
    <3>1. PICK f \in pending : DamagePending(f)
      BY <2>1
    <3> DEFINE h == [f EXCEPT !.ok = FALSE]
    <3>2. h.id = f.id
      BY DEF PendingFile
    <3> HIDE DEF h
    <3>3. pending' = Without(pending, f.id) \cup {h} /\ dead' = dead
      BY <3>1, <3>2 DEF DamagePending, Replaced, h
    <3>4. IsFiniteSet(pending)'
      BY <3>3, FS_Subset, FS_AddElement DEF QuotaInv, Without
    <3>5. Ids(pending)' = Ids(pending)
      BY <3>1, <3>2, <3>3 DEF Ids, Without
    <3> QED
      BY <3>1, <3>3, <3>4, <3>5 DEF DamagePending, drainVars, QuotaInv, Ids
  <2>2. CASE \E f \in dead : DamageDead(f)
    <3>1. PICK f \in dead : DamageDead(f)
      BY <2>2
    <3> DEFINE h == [f EXCEPT !.ok = FALSE]
    <3>2. h.id = f.id
      BY DEF DeadFile
    <3> HIDE DEF h
    <3>3. dead' = Without(dead, f.id) \cup {h} /\ pending' = pending
      BY <3>1, <3>2 DEF DamageDead, Replaced, h
    <3>4. IsFiniteSet(dead)'
      BY <3>3, FS_Subset, FS_AddElement DEF QuotaInv, Without
    <3>5. Ids(dead)' = Ids(dead)
      BY <3>1, <3>2, <3>3 DEF Ids, Without
    <3> QED
      BY <3>1, <3>3, <3>4, <3>5 DEF DamageDead, drainVars, QuotaInv, Ids
  <2> QED
    BY <2>1, <2>2
<1>2. QuotaRespected' /\ RoomKept'
  BY <1>1, NoNewName
<1> QED
  BY <1>1, <1>2 DEF QuotaInv

\* The count limit holds for every limit and any number of processes, as long
\* as a failed directory listing is not taken for an empty directory.
THEOREM QuotaIsRespected ==
    ASSUME "listing" \notin Faults
    PROVE  Spec => []QuotaRespected
<1>1. IInv /\ QuotaInv /\ [Next]_vars => QuotaInv'
  <2> SUFFICES ASSUME IInv, QuotaInv, [Next]_vars PROVE QuotaInv'
    OBVIOUS
  <2> QED
    BY NextCases, EnqueueQuota, DrainQuota, StartDrainQuota, BuryQuota,
       OtherQuota, DamageQuota
<1>2. QuotaInv => QuotaRespected
  BY DEF QuotaInv
<1> QED
  BY <1>1, <1>2, InitQuota, Invariance, PTL DEF Spec

-----------------------------------------------------------------------------
(* Poison events. *)

\* What a drain takes up is not buried already, if the listing is true.
LEMMA StartDrainUnburied ==
    ASSUME IInv, "listing" \notin Faults, NEW p \in Procs, StartDrain(p)
    PROVE  NoPoisonRetry'
<1> USE DEF IInv, TypeOK
<1>1. /\ dead' = dead /\ lock = Free
      /\ \A q \in Procs \ {p} : todo'[q] = todo[q]
  BY DEF StartDrain
<1>2. \A q \in Procs : todo[q] = {}
  BY <1>1, OutboxAssumption DEF LockInv, Inside, OutboxAssumption
<1>3. todo'[p] = {EnvelopeOf(f) :
                    f \in Readable(pending \ {f \in pending : f.id \in Ids(Readable(dead))})}
  BY DEF StartDrain, Listings
<1>4. \A f : EnvelopeOf(f).id = f.id
  BY DEF EnvelopeOf
<1>5. \A e \in todo'[p] : e.id \notin Ids(Readable(dead))
  BY <1>3, <1>4 DEF Readable
<1>6. Ids(Readable(dead))' = Ids(Readable(dead))
  BY <1>1 DEF Ids, Readable
<1> QED
  BY <1>1, <1>2, <1>5, <1>6 DEF NoPoisonRetry

\* The event just buried is the head of the snapshot, and goes with it.
LEMMA BuryUnburied ==
    ASSUME IInv, NoPoisonRetry, NEW p \in Procs, Bury(p)
    PROVE  NoPoisonRetry'
<1> USE DEF IInv, TypeOK
<1>1. PICK e \in First(todo[p]), why \in reason[p] :
             e.id \notin Ids(dead) /\ dead' = Replaced(dead, AsDead(e, why))
  BY DEF Bury
<1>2. /\ pc[p] = "burying" /\ pc' = [pc EXCEPT ![p] = "clearing"] /\ todo' = todo
  BY DEF Bury
<1>3. AsDead(e, why).id = e.id
  BY DEF AsDead
<1>4. Ids(Readable(dead)') \subseteq Ids(Readable(dead)) \cup {e.id}
  BY <1>1, <1>3 DEF Ids, Readable, Replaced, Without
<1>5. \A q \in Procs \ {p} : todo[q] = {}
  <2>1. lock = p
    BY <1>2 DEF LockInv, Inside
  <2> QED
    BY <2>1 DEF LockInv, Inside
<1>6. \A a \in todo[p] : a.id \in Ids(Readable(dead)') => a = e
  <2>1. \A a \in todo[p] : a.id \notin Ids(Readable(dead))
    BY <1>2 DEF NoPoisonRetry
  <2> QED
    BY <1>4, <2>1, FirstInBatch DEF TodoPresent
<1>7. Ids(Readable(dead))' = Ids(Readable(dead)')
  BY DEF Ids
<1> QED
  BY <1>1, <1>2, <1>5, <1>6, <1>7 DEF NoPoisonRetry

\* Every other step buries nothing, and a drain that leaves "clearing" has
\* taken the buried event off its snapshot.
LEMMA OtherUnburied ==
    ASSUME IInv, NoPoisonRetry,
           \/ \E p \in Procs :
                \/ \E name \in Events, payload \in Payloads :
                     \/ EnqueueDuplicate(p, name, payload)
                     \/ \E at \in Times : EnqueueBegin(p, name, payload, at)
                \/ EnqueueCommit(p) \/ EnqueueFail(p)
                \/ LockFailed(p) \/ BudgetElapses(p)
                \/ DeliverSettled(p) \/ DeliverRetained(p) \/ Settle(p)
                \/ BuryExisting(p) \/ BuryFail(p) \/ Clear(p)
                \/ EndDrain(p) \/ Crash(p)
           \/ \E f \in pending : DamagePending(f)
           \/ \E f \in dead : DamageDead(f)
           \/ Outage \/ Recover \/ UNCHANGED vars
    PROVE  NoPoisonRetry'
<1> USE DEF IInv, TypeOK
<1>1. Ids(Readable(dead))' \subseteq Ids(Readable(dead))
  <2>1. CASE \E f \in dead : DamageDead(f)
    <3>1. PICK f \in dead : DamageDead(f)
      BY <2>1
    <3> DEFINE h == [f EXCEPT !.ok = FALSE]
    <3>2. h.ok = FALSE
      BY DEF DeadFile
    <3>3. dead' \subseteq dead \cup {h}
      BY <3>1 DEF DamageDead, Replaced, Without
    <3> HIDE DEF h
    <3> QED
      BY <3>2, <3>3 DEF Ids, Readable
  <2>2. CASE dead' = dead
    BY <2>2 DEF Ids, Readable
  <2> QED
    BY <2>1, <2>2
    DEF EnqueueDuplicate, EnqueueBegin, EnqueueCommit, EnqueueFail, LockFailed,
        BudgetElapses, DeliverSettled, DeliverRetained, Settle, BuryExisting,
        BuryFail, Clear, EndDrain, Crash, DamagePending, Outage, Recover,
        diskVars, vars
<1>2. ASSUME NEW q \in Procs
      PROVE  \/ todo'[q] = {}
             \/ todo'[q] = todo[q] /\ pc'[q] = pc[q]
             \/ todo'[q] = todo[q] /\ pc[q] # "clearing"
             \/ todo'[q] = todo[q] \ First(todo[q])
  <2>1. CASE \E p \in Procs : EnqueueCommit(p) \/ EnqueueFail(p) \/ EndDrain(p)
    BY <2>1 DEF EnqueueCommit, EnqueueFail, EndDrain, Release
  <2>2. CASE \E p \in Procs : Crash(p)
    BY <2>2 DEF Crash, Release, drainVars, LockInv, Inside
  <2>3. CASE \E p \in Procs :
               Settle(p) \/ BuryExisting(p) \/ BuryFail(p) \/ Clear(p) \/ DeliverRetained(p)
    BY <2>3 DEF Settle, BuryExisting, BuryFail, Clear, DeliverRetained, NextEvent
  <2>4. CASE \E p \in Procs : LockFailed(p) \/ BudgetElapses(p) \/ DeliverSettled(p)
    BY <2>4 DEF LockFailed, BudgetElapses, DeliverSettled, MaySend, drainVars
  <2>5. CASE \E p \in Procs, name \in Events, payload \in Payloads :
               \/ EnqueueDuplicate(p, name, payload)
               \/ \E at \in Times : EnqueueBegin(p, name, payload, at)
    BY <2>5 DEF EnqueueDuplicate, EnqueueBegin, drainVars
  <2>6. CASE UNCHANGED <<pc, todo>>
    BY <2>6
  <2> QED
    BY <2>1, <2>2, <2>3, <2>4, <2>5, <2>6
    DEF DamagePending, DamageDead, Outage, Recover, drainVars, vars
<1>3. \A q \in Procs : \A e \in todo'[q] : e.id \in Ids(Readable(dead))' =>
        pc'[q] = "clearing" /\ e \in First(todo'[q])
  <2> SUFFICES ASSUME NEW q \in Procs, NEW e \in todo'[q],
                      e.id \in Ids(Readable(dead))'
               PROVE  pc'[q] = "clearing" /\ e \in First(todo'[q])
    OBVIOUS
  <2>1. e \in todo[q]
    BY <1>2
  <2>2. pc[q] = "clearing" /\ e \in First(todo[q])
    BY <1>1, <2>1 DEF NoPoisonRetry
  <2> QED
    BY <1>2, <2>2
<1> QED
  BY <1>3 DEF NoPoisonRetry

\* A poison event is not sent again, for any number of processes, crashes and
\* failed unlinks, as long as a failed listing is not taken for an empty one.
THEOREM PoisonIsNotRetried ==
    ASSUME "listing" \notin Faults
    PROVE  Spec => []NoPoisonRetry
<1>1. Init => NoPoisonRetry
  BY DEF Init, NoPoisonRetry
<1>2. IInv /\ NoPoisonRetry /\ [Next]_vars => NoPoisonRetry'
  <2> SUFFICES ASSUME IInv, NoPoisonRetry, [Next]_vars PROVE NoPoisonRetry'
    OBVIOUS
  <2> QED
    BY NextCases, StartDrainUnburied, BuryUnburied, OtherUnburied
<1> QED
  BY <1>1, <1>2, Invariance, PTL DEF Spec

-----------------------------------------------------------------------------
(* The outbox keeps its promise: the refinement of OutboxPromise. *)

\* The mapped variables of OutboxPromise.
Held == Content(pending \cup dead)
Refused == Content(dead)

\* Content lists a directory by event and payload.
LEMMA ContentMember ==
    ASSUME NEW dir, NEW a
    PROVE  a \in Content(dir) <=> \E f \in dir : a = <<f.id, f.payload>>
  BY DEF Content

\* Two files with one name tell one event.
LEMMA OnePayloadPerName ==
    ASSUME IInv, NEW f \in pending \cup dead, NEW g \in pending \cup dead, f.id = g.id
    PROVE  f.payload = g.payload
  BY DEF IInv, UniqueNames, TwinsAgree

\* An envelope in a snapshot stands for a file that is still there.
LEMMA TodoIsHeld ==
    ASSUME IInv, NEW p \in Procs, NEW e \in todo[p]
    PROVE  /\ \E f \in pending : f.id = e.id
           /\ \A f \in pending \cup dead : f.id = e.id => f.payload = e.payload
           /\ <<e.id, e.payload>> \in Held
           /\ <<e.id, e.payload>> \in Events \X Payloads
<1>1. PICK f \in pending : f.id = e.id
  BY DEF IInv, TodoPresent, Ids
<1>2. f.payload = e.payload
  BY <1>1 DEF IInv, TodoInv
<1>3. \A g \in pending \cup dead : g.id = e.id => g.payload = e.payload
  BY <1>1, <1>2, OnePayloadPerName
<1>4. <<e.id, e.payload>> \in Held
  BY <1>1, <1>2, ContentMember DEF Held
<1>5. e \in Envelope
  BY DEF IInv, TypeOK
<1> QED
  BY <1>1, <1>3, <1>4, <1>5 DEF Envelope

\* Files that go without being the last of their event change nothing.
LEMMA CopyGoes ==
    ASSUME IInv, pending' \subseteq pending, dead' = dead,
           \A f \in pending \ pending' :
             \E d \in dead : d.id = f.id /\ d.payload = f.payload
    PROVE  Held' = Held /\ Refused' = Refused
<1>1. Refused' = Refused
  BY DEF Refused, Content
<1>2. \A a \in Held : a \in Held'
  <2> SUFFICES ASSUME NEW f \in pending \cup dead
               PROVE  <<f.id, f.payload>> \in Content(pending' \cup dead')
    BY DEF Held, Content
  <2>1. CASE f \in pending \ pending'
    BY <2>1, ContentMember
  <2>2. CASE f \in pending' \cup dead'
    BY <2>2, ContentMember
  <2> QED
    BY <2>1, <2>2
<1>3. \A a \in Held' : a \in Held
  BY DEF Held, Content
<1> QED
  BY <1>1, <1>2, <1>3

\* enqueue puts the event: "queued" adds it, "duplicate" found it there.
LEMMA EnqueuePuts ==
    ASSUME IInv, NEW p \in Procs,
           \/ EnqueueCommit(p)
           \/ \E name \in Events, payload \in Payloads : EnqueueDuplicate(p, name, payload)
    PROVE  Promise!Next
<1>1. CASE EnqueueCommit(p)
  <2>1. PICK e \in work[p] : /\ pending' = Replaced(pending, AsPending(e))
                             /\ Accept(e.id, e.payload)
    BY <1>1 DEF EnqueueCommit
  <2>2. e.id \notin Ids(pending) /\ e.id \notin Ids(dead) /\ e \in Envelope
    BY DEF IInv, WorkInv, TypeOK
  <2>3. pending' = pending \cup {AsPending(e)}
    BY <2>1, <2>2 DEF Replaced, Without, Ids, AsPending
  <2>4. AsPending(e).id = e.id /\ AsPending(e).payload = e.payload
    BY DEF AsPending
  <2>5. dead' = dead /\ received' = received
    BY <1>1 DEF EnqueueCommit
  <2> DEFINE a == <<e.id, e.payload>>
  <2>6. a \in Events \X Payloads /\ a[1] = e.id
    BY <2>2 DEF Envelope
  <2>7. Held' = Held \cup {a} /\ Refused' = Refused
    BY <2>3, <2>4, <2>5 DEF Held, Refused, Content
  <2>8. \A k \in Held : k[1] # e.id
    BY <2>2 DEF Held, Content, Ids
  <2>9. \A k \in Held : k \in Events \X Payloads
    BY DEF IInv, TypeOK, PendingFile, DeadFile, Held, Content
  <2>10. accepted' = accepted \cup {a}
    BY <2>1 DEF Accept
  <2> HIDE DEF a
  <2>11. Promise!Put(a)
    BY <2>5, <2>6, <2>7, <2>8, <2>9, <2>10 DEF Promise!Put, Held, Refused
  <2> QED
    BY <2>6, <2>11 DEF Promise!Next
<1>2. CASE \E name \in Events, payload \in Payloads : EnqueueDuplicate(p, name, payload)
  <2>1. PICK name \in Events, payload \in Payloads : EnqueueDuplicate(p, name, payload)
    BY <1>2
  <2>2. PICK f \in pending \cup dead : f.id = name /\ f.payload = payload
    BY <2>1 DEF EnqueueDuplicate, SameEvent, Existing
  <2>3. UNCHANGED <<pending, dead, received>> /\ accepted' = accepted \cup {<<name, payload>>}
    BY <2>1 DEF EnqueueDuplicate, Accept, diskVars
  <2> DEFINE a == <<name, payload>>
  <2>4. a \in Events \X Payloads /\ a[1] = name
    OBVIOUS
  <2>5. a \in Held
    BY <2>2, ContentMember DEF Held
  <2>6. Held' = Held \cup {a} /\ Refused' = Refused
    BY <2>3, <2>5 DEF Held, Refused, Content
  <2>7. \A k \in Held : k \in Events \X Payloads /\ (k[1] = name => k = a)
    <3> SUFFICES ASSUME NEW k \in Held
                 PROVE  k \in Events \X Payloads /\ (k[1] = name => k = a)
      OBVIOUS
    <3>1. PICK g \in pending \cup dead : k = <<g.id, g.payload>>
      BY ContentMember DEF Held
    <3>2. k \in Events \X Payloads
      BY <3>1 DEF IInv, TypeOK, PendingFile, DeadFile
    <3>3. g.id = name => g.payload = payload
      BY <2>2, OnePayloadPerName
    <3> QED
      BY <3>1, <3>2, <3>3
  <2> HIDE DEF a
  <2>8. Promise!Put(a)
    BY <2>3, <2>4, <2>6, <2>7 DEF Promise!Put, Held, Refused, a
  <2> QED
    BY <2>4, <2>8 DEF Promise!Next
<1> QED
  BY <1>1, <1>2

\* Only what a snapshot names, and so what is held, is sent and received.
LEMMA DeliverReceives ==
    ASSUME IInv, NEW p \in Procs, DeliverSettled(p) \/ DeliverRetained(p)
    PROVE  Promise!Next \/ UNCHANGED <<Held, Refused, accepted, received>>
<1>1. UNCHANGED <<pending, dead, accepted>>
  BY DEF DeliverSettled, DeliverRetained, diskVars
<1>2. UNCHANGED <<Held, Refused>>
  BY <1>1 DEF Held, Refused, Content
<1>3. \/ received' = received
      \/ \E e \in First(todo[p]) : received' = received \cup {<<e.id, e.payload>>}
  BY DEF DeliverSettled, DeliverRetained
<1>4. ASSUME NEW e \in First(todo[p]), received' = received \cup {<<e.id, e.payload>>}
      PROVE  Promise!Next
  <2> DEFINE a == <<e.id, e.payload>>
  <2>1. a \in Held /\ a \in Events \X Payloads
    BY FirstInBatch, TodoIsHeld
  <2> HIDE DEF a
  <2>2. Promise!Receive(a)
    BY <1>1, <1>2, <1>4, <2>1 DEF Promise!Receive, Held, Refused, a
  <2> QED
    BY <2>1, <2>2 DEF Promise!Next
<1> QED
  BY <1>1, <1>2, <1>3, <1>4

\* A delivered event is received, and its pending file the last of it.
LEMMA SettleRemoves ==
    ASSUME IInv, NEW p \in Procs, Settle(p)
    PROVE  Promise!Next \/ UNCHANGED <<Held, Refused, accepted, received>>
<1>1. PICK e \in First(todo[p]) : pending' = pending \/ pending' = Without(pending, e.id)
  BY DEF Settle
<1>2. UNCHANGED <<dead, accepted, received>>
  BY DEF Settle, historyVars
<1>3. CASE pending' = pending
  BY <1>2, <1>3 DEF Held, Refused, Content
<1>4. CASE pending' = Without(pending, e.id)
  <2> DEFINE a == <<e.id, e.payload>>
  <2>1. e \in todo[p] /\ a \in received /\ a \in Events \X Payloads
    BY FirstInBatch, TodoIsHeld DEF IInv, SettleInv, Settle
  <2>2. \A f \in pending \cup dead : f.id = e.id => f.payload = e.payload
    BY <2>1, TodoIsHeld
  <2>3. CASE a \in Refused
    <3>1. PICK d \in dead : a = <<d.id, d.payload>>
      BY <2>3, ContentMember DEF Refused
    <3>2. pending' \subseteq pending /\ \A f \in pending \ pending' : f.id = e.id
      BY <1>4 DEF Without
    <3>3. Held' = Held /\ Refused' = Refused
      BY <1>2, <2>2, <3>1, <3>2, CopyGoes
    <3> QED
      BY <1>2, <3>3
  <2>4. CASE a \notin Refused
    <3>1. \A k \in Held' : k \in Held /\ k # a
      <4> SUFFICES ASSUME NEW f \in pending' \cup dead
                   PROVE  <<f.id, f.payload>> \in Held /\ <<f.id, f.payload>> # a
        BY <1>2 DEF Held, Content
      <4>1. f \in pending \cup dead
        BY <1>4 DEF Without
      <4>2. CASE f \in dead
        BY <2>4, <4>1, <4>2, ContentMember DEF Held, Refused
      <4>3. CASE f \in pending'
        BY <1>4, <4>1, <4>3, ContentMember DEF Held, Without
      <4> QED
        BY <4>2, <4>3
    <3>2. \A k \in Held : k # a => k \in Held'
      <4> SUFFICES ASSUME NEW f \in pending \cup dead, <<f.id, f.payload>> # a
                   PROVE  \E g \in pending' \cup dead : <<f.id, f.payload>> = <<g.id, g.payload>>
        BY <1>2 DEF Held, Content
      <4>1. f \in dead \/ f.id # e.id
        BY <2>2
      <4> QED
        BY <1>4, <4>1 DEF Without
    <3>3. Held' = Held \ {a}
      BY <3>1, <3>2
    <3>4. Refused' = Refused
      BY <1>2 DEF Refused, Content
    <3> HIDE DEF a
    <3>5. Promise!Remove(a)
      BY <1>2, <2>1, <2>4, <3>3, <3>4 DEF Promise!Remove, Held, Refused
    <3> QED
      BY <2>1, <3>5 DEF Promise!Next
  <2> QED
    BY <2>3, <2>4
<1> QED
  BY <1>1, <1>3, <1>4

\* A new dead letter is about an event that is held.
LEMMA BuryBuries ==
    ASSUME IInv, NEW p \in Procs, Bury(p)
    PROVE  Promise!Next
<1>1. PICK e \in First(todo[p]), why \in reason[p] :
             e.id \notin Ids(dead) /\ dead' = Replaced(dead, AsDead(e, why))
  BY DEF Bury
<1>2. UNCHANGED <<pending, accepted, received>>
  BY DEF Bury, historyVars
<1>3. /\ dead' = dead \cup {AsDead(e, why)}
      /\ AsDead(e, why).id = e.id /\ AsDead(e, why).payload = e.payload
  BY <1>1 DEF Replaced, Without, Ids, AsDead
<1> DEFINE a == <<e.id, e.payload>>
<1>4. a \in Held /\ a \in Events \X Payloads
  BY FirstInBatch, TodoIsHeld
<1>5. Refused' = Refused \cup {a}
  BY <1>3 DEF Refused, Content
<1>6. Held' = Held
  BY <1>2, <1>3, <1>4 DEF Held, Content
<1> HIDE DEF a
<1>7. Promise!Bury(a)
  BY <1>2, <1>4, <1>5, <1>6 DEF Promise!Bury, Held, Refused
<1> QED
  BY <1>4, <1>7 DEF Promise!Next

\* Reconciliation and the end of a burial remove a copy of a dead letter.
LEMMA CopySteps ==
    ASSUME IInv, NEW p \in Procs, StartDrain(p) \/ BuryExisting(p) \/ Clear(p)
    PROVE  UNCHANGED <<Held, Refused, accepted, received>>
<1>1. UNCHANGED <<dead, accepted, received>> /\ pending' \subseteq pending
  BY DEF StartDrain, BuryExisting, Clear, historyVars, Without
<1>2. \A f \in pending \ pending' : \E d \in dead : d.id = f.id
  <2>1. CASE StartDrain(p)
    <3>1. PICK deadSeen \in Listings(dead) :
                 pending \ pending' \subseteq {f \in pending : f.id \in Ids(Readable(deadSeen))}
      BY <2>1 DEF StartDrain
    <3>2. Readable(deadSeen) \subseteq dead
      BY DEF Listings, Readable
    <3> QED
      BY <3>1, <3>2 DEF Ids
  <2>2. CASE BuryExisting(p)
    BY <2>2 DEF BuryExisting, Without, Ids
  <2>3. CASE Clear(p)
    BY <2>3 DEF Clear, Without, IInv, ClearInv
  <2> QED
    BY <2>1, <2>2, <2>3
<1>3. \A f \in pending \ pending' : \E d \in dead : d.id = f.id /\ d.payload = f.payload
  BY <1>2, OnePayloadPerName
<1> QED
  BY <1>1, <1>3, CopyGoes

\* Damage leaves the name of a file and stands for the same event.
LEMMA DamageSteps ==
    ASSUME IInv, \/ \E f \in pending : DamagePending(f)
                 \/ \E f \in dead : DamageDead(f)
    PROVE  UNCHANGED <<Held, Refused, accepted, received>>
<1> DEFINE Damaged(f) == [f EXCEPT !.ok = FALSE]
<1> USE DEF IInv, TypeOK
<1>1. ASSUME NEW f \in pending, DamagePending(f)
      PROVE  UNCHANGED <<Held, Refused, accepted, received>>
  <2> DEFINE h == Damaged(f)
  <2>1. h.id = f.id /\ h.payload = f.payload
    BY DEF PendingFile
  <2>2. pending' = (pending \ {f}) \cup {h} /\ dead' = dead
    BY <1>1, <2>1 DEF DamagePending, Replaced, Without, UniqueNames
  <2> HIDE DEF h
  <2>3. Held' = Held /\ Refused' = Refused
    BY <2>1, <2>2 DEF Held, Refused, Content
  <2> QED
    BY <1>1, <2>3 DEF DamagePending, historyVars
<1>2. ASSUME NEW f \in dead, DamageDead(f)
      PROVE  UNCHANGED <<Held, Refused, accepted, received>>
  <2> DEFINE h == Damaged(f)
  <2>1. h.id = f.id /\ h.payload = f.payload
    BY DEF DeadFile
  <2>2. dead' = (dead \ {f}) \cup {h} /\ pending' = pending
    BY <1>2, <2>1 DEF DamageDead, Replaced, Without, UniqueNames
  <2> HIDE DEF h
  <2>3. Held' = Held /\ Refused' = Refused
    BY <2>1, <2>2 DEF Held, Refused, Content
  <2> QED
    BY <1>2, <2>3 DEF DamageDead, historyVars
<1> QED
  BY <1>1, <1>2

\* The other steps change neither a file nor what callers were told.
LEMMA SilentSteps ==
    ASSUME \/ \E p \in Procs :
                \/ \E name \in Events, payload \in Payloads, at \in Times :
                     EnqueueBegin(p, name, payload, at)
                \/ EnqueueFail(p) \/ LockFailed(p) \/ BudgetElapses(p)
                \/ BuryFail(p) \/ EndDrain(p) \/ Crash(p)
           \/ Outage \/ Recover \/ UNCHANGED vars
    PROVE  UNCHANGED <<Held, Refused, accepted, received>>
<1>1. UNCHANGED <<pending, dead, accepted, received>>
  BY DEF EnqueueBegin, EnqueueFail, LockFailed, BudgetElapses, BuryFail, EndDrain,
         Crash, Outage, Recover, diskVars, historyVars, vars
<1> QED
  BY <1>1 DEF Held, Refused, Content

\* The directory with its lock implements the abstract outbox, for any number of
\* processes, crashes, failed unlinks, damaged files and failed listings: what a
\* caller was told is kept until it was received, and no dead letter goes.
THEOREM OutboxKeepsPromise == Spec => KeepsPromise
<1>1. Init => Promise!Init
  BY DEF Init, Promise!Init, Content
<1>2. IInv /\ [Next]_vars => [Promise!Next]_(Promise!promiseVars)
  <2> SUFFICES ASSUME IInv, [Next]_vars
               PROVE  Promise!Next \/ UNCHANGED <<Held, Refused, accepted, received>>
    BY DEF Promise!promiseVars, Held, Refused
  <2> QED
    BY NextCases, EnqueuePuts, DeliverReceives, SettleRemoves, BuryBuries, CopySteps,
       DamageSteps, SilentSteps
<1> QED
  BY <1>1, <1>2, Invariance, PTL DEF Spec, KeepsPromise, Promise!Spec
=============================================================================
