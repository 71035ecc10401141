------------------------------- MODULE Outbox -------------------------------
(***************************************************************************)
(* The runner-side durable outbox: class DurableOutbox of outbox.py, as    *)
(* the processes that share one outbox directory drive it: "emit" (enqueue *)
(* one event, then drain), "flush" and the heartbeat service (drain only). *)
(*                                                                         *)
(* A directory is the set of the *.json files it lists.  One file is one   *)
(* event; f.id is the stem of its name, f.ok says that _read_envelope      *)
(* accepts what is in it.  enqueue and drain run under a file lock that    *)
(* the operating system releases when its holder dies.  Temporary files    *)
(* are not listed and count for nothing, so a write is the os.replace that *)
(* ends it.  A crash may fall between any two steps.                       *)
(***************************************************************************)
EXTENDS Naturals, FiniteSets, FiniteSetsExt

CONSTANTS
    Procs,          \* processes that open the outbox
    Service,        \* the heartbeat service, the one that drains for ever
    Events,         \* event ids, ordered like their names
    Payloads,       \* what an event says: all that conflict detection compares
    Times,          \* queued_at stamps
    Reasons,        \* permanent delivery failures, see _safe_delivery_reason
    PayloadBytes,   \* [Payloads -> size of the pending file]
    ReasonBytes,    \* what dead_letter_reason adds to that file
    MaxEvents, MaxBytes, MaxDrainEvents,    \* OutboxLimits
    Faults,         \* kinds of failure the environment may cause
    MaxFaults,      \* bound: how many of them happen
    MaxEnqueues,    \* bound: how many enqueue calls return an acceptance
    Free            \* the lock is held by no process

FaultKinds == {"crash", "damage", "unlink", "write", "listing", "outage"}

ASSUME OutboxAssumption ==
    /\ Service \in Procs
    /\ Free \notin Procs
    /\ Events \subseteq Nat /\ Times \subseteq Nat
    /\ PayloadBytes \in [Payloads -> Nat \ {0}]
    /\ ReasonBytes \in Nat
    /\ MaxEvents \in Nat \ {0}
    /\ MaxBytes \in Nat \ {0}
    /\ MaxDrainEvents \in Nat \ {0}
    /\ Faults \subseteq FaultKinds
    /\ MaxFaults \in Nat /\ MaxEnqueues \in Nat

VARIABLES
    pending, dead,  \* the files of pending/ and of dead-letter/
    lock,           \* holder of .outbox.lock
    pc,             \* where each process is in enqueue or drain
    work,           \* the envelope an enqueue is about to write
    todo,           \* drain: the snapshot pending_events() returned, what is left
    sent,           \* drain: events taken from the snapshot so far
    late,           \* drain: max_drain_seconds have passed
    reason,         \* drain: why the head of todo is to be dead-lettered
    healthy,        \* the monitor answers every request definitively
    received,       \* history: <<id, payload>> the monitor answered 2xx to
    accepted,       \* history: <<id, payload>> enqueue answered "queued" or
                    \*          "duplicate" to
    enqueues, faults    \* counters of the two bounds

diskVars == <<pending, dead>>
drainVars == <<todo, sent, late, reason>>
historyVars == <<received, accepted, enqueues>>
vars == <<pending, dead, lock, pc, work, todo, sent, late, reason, healthy,
          received, accepted, enqueues, faults>>

-----------------------------------------------------------------------------
(* Files *)

Envelope == [id : Events, payload : Payloads, at : Times]
PendingFile == [id : Events, payload : Payloads, at : Times, ok : BOOLEAN]
DeadFile == [id : Events, payload : Payloads, at : Times, ok : BOOLEAN,
             why : Reasons]

\* The names in a directory, and those of the files that can be read.
Ids(dir) == {f.id : f \in dir}
Readable(dir) == {f \in dir : f.ok}

EnvelopeOf(f) == [id |-> f.id, payload |-> f.payload, at |-> f.at]
AsPending(e) == [id |-> e.id, payload |-> e.payload, at |-> e.at, ok |-> TRUE]
AsDeadUnexplained(e, why) == AsPending(e)  \* mutant of AsDead: no reason kept
AsDead(e, why) == [id |-> e.id, payload |-> e.payload, at |-> e.at,
                   ok |-> TRUE, why |-> why]

\* Path.unlink and os.replace.
Without(dir, name) == {f \in dir : f.id # name}
Replaced(dir, file) == Without(dir, file.id) \cup {file}

\* drain sends in the order (queued_at, event_id).
Before(a, b) == \/ a.at < b.at
                \/ a.at = b.at /\ a.id < b.id
First(batch) == {a \in batch : \A b \in batch \ {a} : Before(a, b)}

\* Mutant of Existing: dead letters are not looked at.
ExistingPendingOnly(name) == {f \in pending : f.id = name}

\* _existing_event: the file that already has this name, pending first.
Existing(name) ==
    IF name \in Ids(pending) THEN {f \in pending : f.id = name}
                             ELSE {f \in dead : f.id = name}

\* enqueue answers "duplicate" for a file with the same event, and "conflict"
\* for one with another event or one that cannot be read.
SameEvent(name, payload) ==
    \E f \in Existing(name) : f.ok /\ f.payload = payload

\* _capacity_usage: *.json files of both directories.  A directory whose
\* listing fails counts as an empty one (_json_files).
Bytes(dir, extra) == MapThenSumSet(LAMBDA f : PayloadBytes[f.payload] + extra, dir)
\* Mutant of HasRoom: the event about to be written is not counted.
HasRoomOffByOne(pendingSeen, deadSeen, payload) ==
    Cardinality(pendingSeen) + Cardinality(deadSeen) <= MaxEvents
HasRoom(pendingSeen, deadSeen, payload) ==
    /\ Cardinality(pendingSeen) + Cardinality(deadSeen) < MaxEvents
    /\ Bytes(pendingSeen, 0) + Bytes(deadSeen, ReasonBytes)
         + PayloadBytes[payload] <= MaxBytes

\* What _json_files may return for a directory.
Listings(dir) == IF "listing" \in Faults THEN {dir, {}} ELSE {dir}

-----------------------------------------------------------------------------
(* Faults of the environment *)

Fault(kind) == /\ kind \in Faults
               /\ faults < MaxFaults
               /\ faults' = faults + 1

FaultIf(cond, kind) == IF cond THEN Fault(kind) ELSE UNCHANGED faults

\* Mutant of Release: max_drain_events limits the process, not the drain.
ReleaseKeepsCount(p, next) ==
    /\ lock' = Free
    /\ pc' = [pc EXCEPT ![p] = next]
    /\ work' = [work EXCEPT ![p] = {}]
    /\ todo' = [todo EXCEPT ![p] = {}]
    /\ late' = [late EXCEPT ![p] = FALSE]
    /\ reason' = [reason EXCEPT ![p] = {}]
    /\ UNCHANGED sent

\* A process leaves enqueue or drain: the lock is free, its locals are gone.
Release(p, next) ==
    /\ lock' = Free
    /\ pc' = [pc EXCEPT ![p] = next]
    /\ work' = [work EXCEPT ![p] = {}]
    /\ todo' = [todo EXCEPT ![p] = {}]
    /\ sent' = [sent EXCEPT ![p] = 0]
    /\ late' = [late EXCEPT ![p] = FALSE]
    /\ reason' = [reason EXCEPT ![p] = {}]

\* The process dies; the operating system releases its lock.
Crash(p) ==
    /\ pc[p] # "idle"
    /\ Fault("crash")
    /\ IF lock = p THEN Release(p, "idle")
                   ELSE /\ pc' = [pc EXCEPT ![p] = "idle"]
                        /\ UNCHANGED <<lock, work, drainVars>>
    /\ UNCHANGED <<diskVars, healthy, historyVars>>

\* A file that _read_envelope can no longer read or no longer accepts.
DamagePending(f) ==
    /\ f \in Readable(pending)
    /\ Fault("damage")
    /\ pending' = Replaced(pending, [f EXCEPT !.ok = FALSE])
    /\ UNCHANGED <<dead, lock, pc, work, drainVars, healthy, historyVars>>

DamageDead(f) ==
    /\ f \in Readable(dead)
    /\ Fault("damage")
    /\ dead' = Replaced(dead, [f EXCEPT !.ok = FALSE])
    /\ UNCHANGED <<pending, lock, pc, work, drainVars, healthy, historyVars>>

\* The monitor or the network stops answering, and comes back.
Outage == /\ healthy /\ Fault("outage") /\ healthy' = FALSE
          /\ UNCHANGED <<diskVars, lock, pc, work, drainVars, historyVars>>
Recover == /\ ~healthy /\ healthy' = TRUE
           /\ UNCHANGED <<diskVars, lock, pc, work, drainVars, historyVars, faults>>

-----------------------------------------------------------------------------
(* enqueue *)

\* An accepted event is one the caller was told about ("queued", "duplicate").
Accept(name, payload) ==
    /\ enqueues < MaxEnqueues
    /\ enqueues' = enqueues + 1
    /\ accepted' = accepted \cup {<<name, payload>>}

\* "duplicate": nothing is written, and emit goes on to drain.
EnqueueDuplicate(p, name, payload) ==
    /\ pc[p] = "idle" /\ lock = Free
    /\ SameEvent(name, payload)
    /\ Accept(name, payload)
    /\ pc' = [pc EXCEPT ![p] = "waiting"]
    /\ UNCHANGED <<diskVars, lock, work, drainVars, healthy, received, faults>>

\* Mutant of EnqueueBegin: no look at what already has the name.
EnqueueBeginBlind(p, name, payload, at) ==
    /\ pc[p] = "idle" /\ lock = Free
    /\ enqueues < MaxEnqueues
    /\ HasRoom(pending, dead, payload)
    /\ lock' = p
    /\ pc' = [pc EXCEPT ![p] = "writing"]
    /\ work' = [work EXCEPT ![p] = {[id |-> name, payload |-> payload, at |-> at]}]
    /\ UNCHANGED <<diskVars, drainVars, healthy, historyVars, faults>>

\* The checks of _enqueue_locked passed: the envelope is being written.  A
\* call that is refused (conflict, outbox_capacity_exceeded, lock failure)
\* changes nothing and emit does not drain.
EnqueueBegin(p, name, payload, at) ==
    /\ pc[p] = "idle" /\ lock = Free
    /\ Existing(name) = {}
    /\ enqueues < MaxEnqueues
    /\ \E pendingSeen \in Listings(pending), deadSeen \in Listings(dead) :
         /\ HasRoom(pendingSeen, deadSeen, payload)
         /\ FaultIf(pendingSeen # pending \/ deadSeen # dead, "listing")
    /\ lock' = p
    /\ pc' = [pc EXCEPT ![p] = "writing"]
    /\ work' = [work EXCEPT ![p] = {[id |-> name, payload |-> payload, at |-> at]}]
    /\ UNCHANGED <<diskVars, drainVars, healthy, historyVars>>

\* os.replace has put the file in place: "queued".
EnqueueCommit(p) ==
    /\ pc[p] = "writing"
    /\ \E e \in work[p] :
         /\ pending' = Replaced(pending, AsPending(e))
         /\ Accept(e.id, e.payload)
    /\ Release(p, "waiting")
    /\ UNCHANGED <<dead, healthy, received, faults>>

\* The write failed: "rejected", outbox_storage_unavailable.
EnqueueFail(p) ==
    /\ pc[p] = "writing"
    /\ Fault("write")
    /\ Release(p, "idle")
    /\ UNCHANGED <<diskVars, healthy, historyVars>>

-----------------------------------------------------------------------------
(* drain *)

\* drain could not take the lock (msvcrt gives up after ten tries).
LockFailed(p) ==
    /\ pc[p] = "waiting" /\ lock # Free
    /\ pc' = [pc EXCEPT ![p] = "idle"]
    /\ UNCHANGED <<diskVars, lock, work, drainVars, healthy, historyVars, faults>>

\* Mutant of StartDrain: a twin that cannot be removed is not skipped.
StartDrainWithTwins(p) ==
    /\ pc[p] \in {"idle", "waiting"} /\ lock = Free
    /\ \E stuck \in SUBSET {f \in pending : f.id \in Ids(Readable(dead))} :
         /\ FaultIf(stuck # {}, "unlink")
         /\ pending' = {f \in pending : f.id \notin Ids(Readable(dead))} \cup stuck
         /\ todo' = [todo EXCEPT ![p] = {EnvelopeOf(f) : f \in Readable(pending')}]
    /\ lock' = p
    /\ pc' = [pc EXCEPT ![p] = "draining"]
    /\ UNCHANGED <<dead, work, sent, late, reason, healthy, historyVars>>

\* pending_events: a pending file whose event is already a readable dead
\* letter is removed, or skipped when it cannot be; unreadable ones are
\* skipped; the others are the snapshot this drain works on.
StartDrain(p) ==
    /\ pc[p] \in {"idle", "waiting"} /\ lock = Free
    /\ \E deadSeen \in Listings(dead), stuck \in SUBSET pending :
         LET twins == {f \in pending : f.id \in Ids(Readable(deadSeen))}
         IN /\ stuck \subseteq twins
            /\ \/ deadSeen = dead /\ FaultIf(stuck # {}, "unlink")
               \/ deadSeen # dead /\ stuck = {} /\ Fault("listing")
            /\ pending' = pending \ (twins \ stuck)
            /\ todo' = [todo EXCEPT ![p] =
                          {EnvelopeOf(f) : f \in Readable(pending \ twins)}]
    /\ lock' = p
    /\ pc' = [pc EXCEPT ![p] = "draining"]
    /\ UNCHANGED <<dead, work, sent, late, reason, healthy, historyVars>>

\* The head of the snapshot is dealt with, whatever became of its file.
NextEvent(p) ==
    /\ todo' = [todo EXCEPT ![p] = @ \ First(@)]
    /\ pc' = [pc EXCEPT ![p] = "draining"]

\* Time passes.
BudgetElapses(p) ==
    /\ pc[p] = "draining" /\ ~late[p]
    /\ late' = [late EXCEPT ![p] = TRUE]
    /\ UNCHANGED <<diskVars, lock, pc, work, todo, sent, reason, healthy,
                   historyVars, faults>>

\* The test at the head of the loop: the budget allows another delivery.
MaySend(p) == /\ pc[p] = "draining"
              /\ sent[p] < MaxDrainEvents
              /\ ~late[p]

\* One call of deliver.  It is settled when the monitor gave an answer that
\* means something, 2xx or a permanent refusal, within the budget.
DeliverSettled(p) ==
    /\ MaySend(p)
    /\ \E e \in First(todo[p]) :
         \/ /\ received' = received \cup {<<e.id, e.payload>>}
            /\ pc' = [pc EXCEPT ![p] = "settling"]
            /\ UNCHANGED reason
         \/ /\ \E why \in Reasons : reason' = [reason EXCEPT ![p] = {why}]
            /\ pc' = [pc EXCEPT ![p] = "burying"]
            /\ UNCHANGED received
    /\ healthy
    /\ sent' = [sent EXCEPT ![p] = @ + 1]
    /\ UNCHANGED <<diskVars, lock, work, todo, late, healthy, accepted,
                   enqueues, faults>>

\* The outcome leaves the event where it is: a transient failure, an
\* exception, or any answer that comes after the budget.  The monitor may
\* have stored the event all the same.
DeliverRetained(p) ==
    /\ MaySend(p)
    /\ \/ ~healthy /\ late' \in {late, [late EXCEPT ![p] = TRUE]}
       \/ healthy /\ late' = [late EXCEPT ![p] = TRUE]
    /\ \E e \in First(todo[p]) :
         received' \in {received, received \cup {<<e.id, e.payload>>}}
    /\ NextEvent(p)
    /\ sent' = [sent EXCEPT ![p] = @ + 1]
    /\ UNCHANGED <<diskVars, lock, work, reason, healthy, accepted, enqueues,
                   faults>>

\* Delivered: the pending file goes.
Settle(p) ==
    /\ pc[p] = "settling"
    /\ \E e \in First(todo[p]) :
         \/ pending' = Without(pending, e.id) /\ UNCHANGED faults
         \/ Fault("unlink") /\ UNCHANGED pending
    /\ NextEvent(p)
    /\ UNCHANGED <<dead, lock, work, sent, late, reason, healthy, historyVars>>

\* _move_to_dead_letter when a dead letter with this name is there already:
\* the pending file goes only if both say the same.
BuryExisting(p) ==
    /\ pc[p] = "burying"
    /\ \E e \in First(todo[p]) :
         /\ e.id \in Ids(dead)
         /\ \E d \in dead :
              /\ d.id = e.id
              /\ IF d.ok /\ d.payload = e.payload /\ d.why \in reason[p]
                 THEN \/ pending' = Without(pending, e.id) /\ UNCHANGED faults
                      \/ Fault("unlink") /\ UNCHANGED pending
                 ELSE UNCHANGED <<pending, faults>>
    /\ NextEvent(p)
    /\ reason' = [reason EXCEPT ![p] = {}]
    /\ UNCHANGED <<dead, lock, work, sent, late, healthy, historyVars>>

\* Mutant of Bury: a dead letter that is there already is replaced.
BuryOver(p) ==
    /\ pc[p] = "burying"
    /\ \E e \in First(todo[p]), why \in reason[p] :
         dead' = Replaced(dead, AsDead(e, why))
    /\ pc' = [pc EXCEPT ![p] = "clearing"]
    /\ reason' = [reason EXCEPT ![p] = {}]
    /\ UNCHANGED <<pending, lock, work, todo, sent, late, healthy, historyVars,
                   faults>>

\* ... and when there is none: os.replace, then the pending file goes.
Bury(p) ==
    /\ pc[p] = "burying"
    /\ \E e \in First(todo[p]), why \in reason[p] :
         /\ e.id \notin Ids(dead)
         /\ dead' = Replaced(dead, AsDead(e, why))
    /\ pc' = [pc EXCEPT ![p] = "clearing"]
    /\ reason' = [reason EXCEPT ![p] = {}]
    /\ UNCHANGED <<pending, lock, work, todo, sent, late, healthy, historyVars,
                   faults>>

BuryFail(p) ==
    /\ pc[p] = "burying"
    /\ \A e \in First(todo[p]) : e.id \notin Ids(dead)
    /\ Fault("write")
    /\ NextEvent(p)
    /\ reason' = [reason EXCEPT ![p] = {}]
    /\ UNCHANGED <<diskVars, lock, work, sent, late, healthy, historyVars>>

Clear(p) ==
    /\ pc[p] = "clearing"
    /\ \E e \in First(todo[p]) :
         \/ pending' = Without(pending, e.id) /\ UNCHANGED faults
         \/ Fault("unlink") /\ UNCHANGED pending
    /\ NextEvent(p)
    /\ UNCHANGED <<dead, lock, work, sent, late, reason, healthy, historyVars>>

\* Mutant of EndDrain: the event limit does not end the loop.
EndDrainWhenDoneOrLate(p) ==
    /\ pc[p] = "draining"
    /\ todo[p] = {} \/ late[p]
    /\ Release(p, "idle")
    /\ UNCHANGED <<diskVars, healthy, historyVars, faults>>

\* The snapshot is done or a budget is spent.
EndDrain(p) ==
    /\ pc[p] = "draining"
    /\ todo[p] = {} \/ ~MaySend(p)
    /\ Release(p, "idle")
    /\ UNCHANGED <<diskVars, healthy, historyVars, faults>>

-----------------------------------------------------------------------------
Init ==
    /\ pending = {} /\ dead = {}
    /\ lock = Free
    /\ pc = [p \in Procs |-> "idle"]
    /\ work = [p \in Procs |-> {}]
    /\ todo = [p \in Procs |-> {}]
    /\ sent = [p \in Procs |-> 0]
    /\ late = [p \in Procs |-> FALSE]
    /\ reason = [p \in Procs |-> {}]
    /\ healthy = TRUE
    /\ received = {} /\ accepted = {}
    /\ enqueues = 0 /\ faults = 0

Enqueue(p) ==
    \/ \E name \in Events, payload \in Payloads :
         \/ EnqueueDuplicate(p, name, payload)
         \/ \E at \in Times : EnqueueBegin(p, name, payload, at)
    \/ EnqueueCommit(p)
    \/ EnqueueFail(p)

DrainStep(p) ==
    \/ DeliverSettled(p) \/ DeliverRetained(p)
    \/ Settle(p)
    \/ BuryExisting(p) \/ Bury(p) \/ BuryFail(p) \/ Clear(p)
    \/ EndDrain(p)

Drain(p) == LockFailed(p) \/ StartDrain(p) \/ BudgetElapses(p) \/ DrainStep(p)

Environment ==
    \/ \E p \in Procs : Crash(p)
    \/ \E f \in pending : DamagePending(f)
    \/ \E f \in dead : DamageDead(f)
    \/ Outage
    \/ Recover

Next ==
    \/ \E p \in Procs : Enqueue(p) \/ Drain(p)
    \/ Environment

Spec == Init /\ [][Next]_vars

(***************************************************************************)
(* Fairness.  A process inside enqueue or drain keeps going: every step is *)
(* local or bounded by the delivery deadline.  The heartbeat service       *)
(* drains once per interval for ever and gets the lock again and again     *)
(* when others release it (strong fairness, a lock without queueing).  A   *)
(* healthy monitor does not always answer too late.  Outages end.          *)
(***************************************************************************)
Fairness ==
    /\ \A p \in Procs : WF_vars(EnqueueCommit(p) \/ DrainStep(p))
    /\ SF_vars(StartDrain(Service))
    /\ SF_vars(DeliverSettled(Service))
    /\ WF_vars(Recover)

FairSpec == Spec /\ Fairness

-----------------------------------------------------------------------------
(* Properties *)

TypeOK ==
    /\ pending \subseteq PendingFile
    /\ dead \subseteq DeadFile
    /\ lock \in Procs \cup {Free}
    /\ pc \in [Procs -> {"idle", "writing", "waiting", "draining", "settling",
                        "burying", "clearing"}]
    /\ work \in [Procs -> SUBSET Envelope]
    /\ todo \in [Procs -> SUBSET Envelope]
    /\ sent \in [Procs -> 0..MaxDrainEvents]
    /\ late \in [Procs -> BOOLEAN]
    /\ reason \in [Procs -> SUBSET Reasons]
    /\ healthy \in BOOLEAN
    /\ received \subseteq Events \X Payloads
    /\ accepted \subseteq Events \X Payloads
    /\ enqueues \in 0..MaxEnqueues
    /\ faults \in 0..MaxFaults

\* An event the caller was told is queued is, from then on, in a pending
\* file, in a dead letter, or stored by the monitor: no crash, failed unlink,
\* reconciliation or concurrent drain loses it.
NoAcceptedEventLost ==
    \A a \in accepted :
        \/ a \in received
        \/ \E f \in pending \cup dead : a = <<f.id, f.payload>>

\* A crash or a failed unlink may leave one event in both directories; the
\* reconciliation of pending_events and _move_to_dead_letter may then drop the
\* pending file, which is right only if both files say the same.
TwinsAgree ==
    \A f \in pending, d \in dead : f.id = d.id => f.payload = d.payload

\* The count limit covers both directories together: MaxEvents distinct
\* events at most, dead letters included, whoever enqueues at the same time.
QuotaRespected == Cardinality(Ids(pending) \cup Ids(dead)) <= MaxEvents

\* A poison event is not retried: while its dead letter is readable, no drain
\* still has the event to send (in "clearing" it is the one just buried).
NoPoisonRetry ==
    \A p \in Procs : \A e \in todo[p] :
        e.id \in Ids(Readable(dead)) => pc[p] = "clearing" /\ e \in First(todo[p])

\* Delivery evidence is kept: no step removes a dead letter or replaces it by
\* one that tells another event or another reason.
DeadLettersKept ==
    [][\A d \in dead : \E k \in dead' :
          <<k.id, k.payload, k.at, k.why>> = <<d.id, d.payload, d.at, d.why>>]_vars

\* While the heartbeat service keeps draining and the monitor recovers, every
\* readable pending event leaves pending/: retained events of earlier drains,
\* the per-drain event limit and crashes delay it but do not starve it.
PendingEventuallyLeaves ==
    \A name \in Events :
        name \in Ids(Readable(pending)) ~> name \notin Ids(Readable(pending))

\* A drain or an enqueue gives the lock back, whatever the deliveries do.
LockReleased == \A p \in Procs : lock = p ~> lock # p

\* What the files say: the events of both directories, and the buried ones.
Content(dir) == {<<f.id, f.payload>> : f \in dir}

Promise ==
    INSTANCE OutboxPromise WITH
        Items <- Events \X Payloads,
        NameOf <- [a \in Events \X Payloads |-> a[1]],
        kept <- Content(pending \cup dead),
        buried <- Content(dead)

\* The directory, its lock and its crashes implement the outbox a caller is
\* promised: an accepted event is kept until it was received, only kept events
\* are sent, a dead letter is never taken back, whatever fails in between.
KeepsPromise == Promise!Spec

(***************************************************************************)
(* The inductive strengthening of NoAcceptedEventLost and TwinsAgree.  The *)
(* lock makes the snapshot of a drain and the envelope of an enqueue true  *)
(* of the directories for as long as they are held.                        *)
(***************************************************************************)
Inside == {"writing", "draining", "settling", "burying", "clearing"}

\* Whoever is inside enqueue or drain holds the lock, and nobody else does;
\* the locals of the others are empty.
LockInv ==
    \A p \in Procs :
        /\ pc[p] \in Inside <=> lock = p
        /\ pc[p] \in {"idle", "waiting", "writing"} => todo[p] = {}
        /\ pc[p] # "writing" => work[p] = {}

\* One file per name in a directory.
UniqueNames ==
    /\ \A f, g \in pending : f.id = g.id => f = g
    /\ \A f, g \in dead : f.id = g.id => f = g

\* The event being written exists nowhere yet.
WorkInv ==
    \A p \in Procs : \A e \in work[p] : e.id \notin Ids(pending) \cup Ids(dead)

\* A snapshot tells the truth about the files that still have its names.
TodoInv ==
    \A p \in Procs : \A e \in todo[p] :
        \A f \in pending : f.id = e.id => f.payload = e.payload

\* While a drain has the lock, a file goes only after its event was dealt with.
TodoPresent ==
    \A p \in Procs : \A e \in todo[p] :
        /\ e.id \in Ids(pending)
        /\ \A g \in todo[p] : g.id = e.id => g = e

\* A pending file is about to go only once its event is safe elsewhere.
SettleInv ==
    \A p \in Procs : pc[p] = "settling" =>
        \A e \in First(todo[p]) : <<e.id, e.payload>> \in received
ClearInv ==
    \A p \in Procs : pc[p] = "clearing" =>
        \A e \in First(todo[p]) :
            \E d \in dead : d.id = e.id /\ d.payload = e.payload

IInv == /\ TypeOK
        /\ LockInv /\ UniqueNames /\ WorkInv /\ TodoInv /\ TodoPresent
        /\ SettleInv /\ ClearInv
        /\ TwinsAgree /\ NoAcceptedEventLost

(***************************************************************************)
(* The inductive strengthening of QuotaRespected, for faults without       *)
(* "listing": room found under the lock is still there at the write, and   *)
(* a dead letter never adds a name, since its pending file is still there. *)
(***************************************************************************)
RoomKept ==
    \A p \in Procs : pc[p] = "writing" =>
        Cardinality(Ids(pending) \cup Ids(dead)) < MaxEvents

QuotaInv == /\ IsFiniteSet(pending) /\ IsFiniteSet(dead)
            /\ QuotaRespected /\ RoomKept
=============================================================================
