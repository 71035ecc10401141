------------------------------ MODULE Heartbeat ------------------------------
(***************************************************************************)
(* heartbeat.py and heartbeat_service.py: the Runner's heartbeat service.   *)
(* One loop waits for the network and for the next due time, and on every     *)
(* turn sends one runner.heartbeat event.  Its producer epoch and sequence     *)
(* come from a state file that is saved before the event is sent; the result   *)
(* goes to a status file.  The service control handler asks the loop to stop   *)
(* through an auto-reset Win32 event, so each wait that sees the signal takes   *)
(* it away.  The service may crash between any two steps, a save may fail, the *)
(* state file may be damaged, deleted or replaced by another producer's, and   *)
(* the status file may be unreadable when the loop is built.                  *)
(*                                                                          *)
(* The replay of the outbox at the start of a turn is module Outbox's, the     *)
(* delivery of one event module Delivery's.                                   *)
(***************************************************************************)
EXTENDS Naturals, Sequences

CONSTANTS
    MaxBeats,           \* bound on heartbeats sent
    MaxHeartbeatFaults   \* bound on crashes, failed saves and accidents of the two files

ASSUME HeartbeatAssumption == MaxBeats \in Nat /\ MaxHeartbeatFaults \in Nat

VARIABLES
    loop,             \* the loop's next step
    first,            \* next_due is None: no heartbeat yet in this run
    stopEvent,        \* the stop event is signalled
    stopRequested,    \* history: this run of the service was asked to stop
    stateFile,        \* the state file
    state,            \* self._state: what the loop holds of it
    epochs,           \* history: epochs drawn so far; epoch_factory gives a fresh one
    sequence,         \* the sequence reserved for the heartbeat of this turn
    sent,             \* history: epoch and sequence of every heartbeat sent, in order
    success,          \* self._last_success_at, as a position in sent
    status,           \* last_success_at in the status file, as last written
    unread,           \* history: this run could not read the status file when it began
    heartbeatFaults   \* faults so far, up to MaxHeartbeatFaults

heartbeatVars == <<loop, first, stopEvent, stopRequested, stateFile, state, epochs, sequence, sent,
          success, status, unread, heartbeatFaults>>

LoopSteps == {"top", "net", "nap", "delay", "gate"}
TurnSteps == {"token", "load", "reserve", "send"}

Numbers == 0 .. MaxBeats + MaxHeartbeatFaults + 1

\* A state file of ours carries an epoch and the next sequence to reserve.
Ours(e, n) == [kind |-> "ours", epoch |-> e, next |-> n]
Other(kind) == [kind |-> kind, epoch |-> 0, next |-> 0]
Kinds == {"absent", "damaged", "foreign", "ours"}

HeartbeatTypeOK ==
    /\ loop \in {"off"} \cup LoopSteps \cup TurnSteps
    /\ first \in BOOLEAN /\ stopEvent \in BOOLEAN /\ stopRequested \in BOOLEAN
    /\ stateFile \in [kind : Kinds, epoch : Numbers, next : Nat]
    /\ state \in [kind : {"absent", "ours"}, epoch : Numbers, next : Nat]
    /\ epochs \in Numbers /\ sequence \in Nat
    /\ sent \in Seq(Numbers \X Nat)
    /\ success \in 0 .. MaxBeats /\ status \in 0 .. MaxBeats /\ unread \in BOOLEAN
    /\ heartbeatFaults \in 0 .. MaxHeartbeatFaults

HeartbeatInit ==
    /\ loop = "off" /\ first = TRUE /\ stopEvent = FALSE /\ stopRequested = FALSE
    /\ stateFile = Other("absent") /\ state = Other("absent")
    /\ epochs = 0 /\ sequence = 0 /\ sent = <<>>
    /\ success = 0 /\ status = 0 /\ unread = FALSE
    /\ heartbeatFaults = 0

HeartbeatFault == heartbeatFaults < MaxHeartbeatFaults /\ heartbeatFaults' = heartbeatFaults + 1

control == <<first, stopEvent, stopRequested>>
producer == <<stateFile, state, epochs, sequence, sent>>
results == <<success, status, unread>>

-----------------------------------------------------------------------------
(* A new loop, which knows of earlier runs only what the files say.          *)
Built ==
    /\ loop = "off" /\ Len(sent) < MaxBeats
    /\ loop' = "top" /\ first' = TRUE /\ stopEvent' = FALSE /\ stopRequested' = FALSE
    /\ state' = Other("absent")
    /\ UNCHANGED <<stateFile, epochs, sequence, sent, status>>

\* Mutant of StartLoop: the status file is not read when the loop is built.
StartAfresh == Built /\ success' = 0 /\ unread' = FALSE /\ UNCHANGED heartbeatFaults

(* SCM starts the service.  _load_last_success: a status file that cannot be   *)
(* read or parsed, or that holds no time, tells of no success; the file itself *)
(* stays as it is until the next heartbeat is recorded.                      *)
StartLoop ==
    /\ Built
    /\ \/ success' = status /\ unread' = FALSE /\ UNCHANGED heartbeatFaults
       \/ success' = 0 /\ unread' = TRUE /\ HeartbeatFault

\* A wait or is_set that sees the signal takes it and leaves the loop.
Leave == stopEvent /\ loop' = "off" /\ stopEvent' = FALSE /\ UNCHANGED <<first, stopRequested>>

Continue(step) == ~stopEvent /\ loop' = step /\ UNCHANGED control

Top == loop = "top" /\ (Leave \/ Continue(IF first THEN "net" ELSE "delay"))

(* _wait_for_network: is_set, then a probe of the endpoint.                  *)
Net ==
    /\ loop = "net"
    /\ \/ Leave
       \/ Continue(IF first THEN "gate" ELSE "token")
       \/ Continue("nap")

\* Mutant of Nap: the result of the wait between two probes is ignored.
NapForgetful ==
    /\ loop = "nap" /\ loop' = "net" /\ stopEvent' = FALSE
    /\ UNCHANGED <<first, stopRequested, producer, results, heartbeatFaults>>

Nap ==
    /\ loop = "nap"
    /\ Leave \/ Continue("net")
    /\ UNCHANGED <<producer, results, heartbeatFaults>>

(* The wait for next_due; a turn already due does not look at the event here. *)
Delay ==
    /\ loop = "delay"
    /\ \/ Leave
       \/ loop' = "gate" /\ UNCHANGED control

Gate == loop = "gate" /\ (Leave \/ Continue(IF first THEN "token" ELSE "net"))

LoopWait ==
    \/ (Top \/ Net \/ Delay \/ Gate) /\ UNCHANGED <<producer, results, heartbeatFaults>>
    \/ Nap

\* The turn is over, with a heartbeat or without one.
TurnEnds == loop' = "top" /\ first' = FALSE /\ UNCHANGED <<stopEvent, stopRequested>>

\* _record_status: the write of the status file may fail.
Record(last) == success' = last /\ status' \in {status, last} /\ UNCHANGED unread

(* read_token_file.  An unreadable token ends the turn; once MaxBeats have     *)
(* been sent it always is unreadable.                                         *)
Token ==
    /\ loop = "token"
    /\ \/ /\ Len(sent) < MaxBeats
          /\ loop' = IF state.kind = "absent" THEN "load" ELSE "reserve"
          /\ UNCHANGED <<control, results>>
       \/ TurnEnds /\ Record(success)
    /\ UNCHANGED <<producer, heartbeatFaults>>

(* HeartbeatState.load: a missing or unreadable file starts a new epoch,      *)
(* another producer's file is refused.                                       *)
Load ==
    /\ loop = "load"
    /\ \/ /\ stateFile.kind = "ours" /\ state' = stateFile
          /\ loop' = "reserve" /\ UNCHANGED <<control, results, stateFile, epochs, heartbeatFaults>>
       \/ /\ stateFile.kind \in {"absent", "damaged"} /\ epochs' = epochs + 1
          /\ state' = Ours(epochs + 1, 1) /\ stateFile' = Ours(epochs + 1, 1)
          /\ loop' = "reserve" /\ UNCHANGED <<control, results, heartbeatFaults>>
       \/ /\ stateFile.kind \in {"absent", "damaged"} /\ epochs' = epochs + 1
          /\ HeartbeatFault /\ TurnEnds /\ Record(success) /\ UNCHANGED <<state, stateFile>>
       \/ /\ stateFile.kind = "foreign"
          /\ TurnEnds /\ Record(success) /\ UNCHANGED <<state, stateFile, epochs, heartbeatFaults>>
    /\ UNCHANGED <<sequence, sent>>

\* Mutant of Reserve: the next sequence is only kept in memory.
ReserveUnsaved ==
    /\ loop = "reserve"
    /\ state' = Ours(state.epoch, state.next + 1) /\ sequence' = state.next
    /\ loop' = "send"
    /\ UNCHANGED <<stateFile, epochs, sent, control, results, heartbeatFaults>>

(* HeartbeatState.reserve: the next sequence is saved before this one is used. *)
Reserve ==
    /\ loop = "reserve"
    /\ \/ /\ state' = Ours(state.epoch, state.next + 1) /\ stateFile' = state'
          /\ sequence' = state.next
          /\ loop' = "send" /\ UNCHANGED <<control, results, heartbeatFaults>>
       \/ /\ HeartbeatFault /\ TurnEnds /\ Record(success)
          /\ UNCHANGED <<state, stateFile, sequence>>
    /\ UNCHANGED <<epochs, sent>>

\* Mutant of Send: success is kept as the number of delivered heartbeats.
SendCounted ==
    /\ loop = "send"
    /\ sent' = Append(sent, <<state.epoch, sequence>>)
    /\ Record(Len(sent) + 2)
    /\ TurnEnds
    /\ UNCHANGED <<stateFile, state, epochs, sequence, heartbeatFaults>>

(* The delivery succeeds or not; the Monitor may have seen it either way.     *)
Send ==
    /\ loop = "send"
    /\ sent' = Append(sent, <<state.epoch, sequence>>)
    /\ Record(Len(sent) + 1) \/ Record(success)
    /\ TurnEnds
    /\ UNCHANGED <<stateFile, state, epochs, sequence, heartbeatFaults>>

Turn == Token \/ Load \/ Reserve \/ Send

(* SvcStop.                                                                  *)
LoopStopRequest ==
    /\ loop # "off" /\ ~stopRequested
    /\ stopRequested' = TRUE /\ stopEvent' = TRUE
    /\ UNCHANGED <<loop, first, producer, results, heartbeatFaults>>

HeartbeatCrash ==
    /\ loop # "off" /\ HeartbeatFault
    /\ loop' = "off"
    /\ UNCHANGED <<control, producer, results>>

(* Something outside the service deletes, damages or replaces the file.       *)
FileAccident ==
    /\ stateFile.kind = "ours" /\ HeartbeatFault
    /\ stateFile' \in {Other(kind) : kind \in {"absent", "damaged", "foreign"}}
    /\ UNCHANGED <<loop, control, state, epochs, sequence, sent, results>>

HeartbeatNext == StartLoop \/ LoopWait \/ Turn \/ LoopStopRequest \/ HeartbeatCrash \/ FileAccident

HeartbeatSpec == HeartbeatInit /\ [][HeartbeatNext]_heartbeatVars

(* Every wait, probe and delivery of the loop has a timeout.                 *)
HeartbeatFairSpec == HeartbeatSpec /\ WF_heartbeatVars(LoopWait \/ Turn)

-----------------------------------------------------------------------------
(* No two heartbeats share an epoch and sequence, sequences grow within an    *)
(* epoch and no earlier epoch comes back, through crashes before and after    *)
(* the send, failed saves and a lost state file: the Monitor's watermark      *)
(* would drop a heartbeat that broke this.                                   *)
HeartbeatsAdvance ==
    \A i, j \in DOMAIN sent : i < j =>
        \/ sent[i][1] < sent[j][1]
        \/ sent[i][1] = sent[j][1] /\ sent[i][2] < sent[j][2]

(* The time of the last success in the status file never becomes an older one, *)
(* not by a restart, a failed delivery or a write that failed before it.  It   *)
(* may be lost, as null, in one case: the run could not read the file when it *)
(* began (heartbeat.py:435) and records a heartbeat that fails before any of  *)
(* its own has been delivered.                                              *)
SuccessNeverGoesBack ==
    [][status' >= status \/ (unread /\ success' = 0 /\ status' = 0)]_heartbeatVars

(* A stop request ends the loop: whichever of its waits takes the signal.     *)
StopEndsLoop == stopRequested ~> loop = "off"
=============================================================================
