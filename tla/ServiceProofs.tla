--------------------------- MODULE ServiceProofs ----------------------------
(***************************************************************************)
(* The two services that run for ever, for any number of heartbeats, starts*)
(* and faults: the Runner's heartbeat (Heartbeat) and the monitor's service*)
(* host (ServiceHost).                                                     *)
(***************************************************************************)
EXTENDS Heartbeat, ServiceHost, TLAPS

-----------------------------------------------------------------------------
(* Heartbeat: epochs and sequences *)

-----------------------------------------------------------------------------
(* The inductive invariant *)

\* A pair that no heartbeat of s has reached.
Ahead(s, epoch, n) ==
    \A i \in 1 .. Len(s) : \/ s[i][1] < epoch
                           \/ s[i][1] = epoch /\ s[i][2] < n

\* No heartbeat of s has an epoch later than this one.
Drawn(s, epoch) == \A i \in 1 .. Len(s) : s[i][1] <= epoch

\* The next sequence of the file, and of the loop, is one nobody used; when
\* both exist they are the same.
ProducerInv ==
    /\ stateFile.kind = "ours" => Ahead(sent, stateFile.epoch, stateFile.next) /\ stateFile.epoch <= epochs
    /\ state.kind = "ours" => Ahead(sent, state.epoch, state.next) /\ state.epoch <= epochs
    /\ stateFile.kind = "ours" /\ state.kind = "ours" => stateFile = state
    /\ Drawn(sent, epochs)

\* Where the loop is tells what it holds: the sequence about to be sent is
\* unused, and the state has moved beyond it.
LoopInv ==
    /\ loop = "load" => state.kind = "absent"
    /\ loop \in {"reserve", "send"} => state.kind = "ours"
    /\ loop = "send" => Ahead(sent, state.epoch, sequence) /\ sequence < state.next
    /\ loop \in {"load", "reserve", "send"} => Len(sent) < MaxBeats

\* The loop knows of a success at least as late as the status file does, or
\* could not read it and has had none of its own.
ReportInv ==
    /\ loop # "off" => status <= success \/ (unread /\ success = 0)
    /\ success <= Len(sent) /\ status <= Len(sent) /\ Len(sent) <= MaxBeats

\* A new epoch is drawn for a lost file or in a save that failed: a fault each,
\* but for the first.
EpochInv == epochs + (IF stateFile.kind \in {"absent", "damaged"} THEN 1 ELSE 0) <= heartbeatFaults + 1

\* The history is in order: HeartbeatsAdvance for the lengths of sequences.
Ordered(s) ==
    \A i, j \in 1 .. Len(s) : i < j =>
        \/ s[i][1] < s[j][1]
        \/ s[i][1] = s[j][1] /\ s[i][2] < s[j][2]

HeartbeatInv == /\ HeartbeatTypeOK /\ ProducerInv /\ LoopInv /\ ReportInv /\ EpochInv
                /\ Ordered(sent)

-----------------------------------------------------------------------------
(* Sequences of heartbeats *)

Heartbeats == Seq(Numbers \X Nat)

\* What a heartbeat more does to the history.
LEMMA Appended ==
    ASSUME NEW s \in Heartbeats, NEW e \in Numbers, NEW n \in Nat
    PROVE  /\ Append(s, <<e, n>>) \in Heartbeats
           /\ Len(Append(s, <<e, n>>)) = Len(s) + 1
           /\ Len(s) \in Nat
           /\ Append(s, <<e, n>>)[Len(s) + 1] = <<e, n>>
           /\ \A i \in 1 .. Len(s) : Append(s, <<e, n>>)[i] = s[i]
           /\ \A i \in 1 .. Len(s) : s[i] \in Numbers \X Nat
  BY DEF Heartbeats

\* A later epoch than all drawn so far is ahead of everything.
LEMMA NewEpoch ==
    ASSUME NEW s \in Heartbeats, NEW k \in Nat, NEW n \in Nat, Drawn(s, k)
    PROVE  Ahead(s, k + 1, n) /\ Drawn(s, k + 1)
<1>1. \A i \in 1 .. Len(s) : s[i][1] \in Nat
  BY DEF Heartbeats, Numbers
<1> QED
  BY <1>1 DEF Ahead, Drawn

\* The sequence after one that is ahead is ahead.
LEMMA NextAhead ==
    ASSUME NEW s \in Heartbeats, NEW e \in Numbers, NEW n \in Nat, Ahead(s, e, n)
    PROVE  Ahead(s, e, n + 1)
<1>1. \A i \in 1 .. Len(s) : s[i][2] \in Nat
  BY DEF Heartbeats, Numbers
<1> QED
  BY <1>1 DEF Ahead

\* Sending a pair that is ahead keeps the order, and what is beyond the pair
\* stays ahead.
LEMMA SentAhead ==
    ASSUME NEW s \in Heartbeats, NEW e \in Numbers, NEW n \in Nat, NEW m \in Nat,
           NEW k \in Nat, Ahead(s, e, n), Ahead(s, e, m), n < m, Drawn(s, k), e <= k,
           Ordered(s)
    PROVE  /\ Ahead(Append(s, <<e, n>>), e, m)
           /\ Drawn(Append(s, <<e, n>>), k)
           /\ Ordered(Append(s, <<e, n>>))
<1> DEFINE t == Append(s, <<e, n>>)
<1>1. /\ Len(t) = Len(s) + 1 /\ Len(s) \in Nat
      /\ t[Len(s) + 1] = <<e, n>>
      /\ \A i \in 1 .. Len(s) : t[i] = s[i]
  BY Appended
<1> HIDE DEF t
<1>2. \A i \in 1 .. Len(t) : i \in 1 .. Len(s) \/ i = Len(s) + 1
  BY <1>1
<1>3. Ahead(t, e, m)
  BY <1>1, <1>2 DEF Ahead
<1>4. Drawn(t, k)
  BY <1>1, <1>2 DEF Drawn
<1>5. Ordered(t)
  <2> SUFFICES ASSUME NEW i \in 1 .. Len(t), NEW j \in 1 .. Len(t), i < j
               PROVE  \/ t[i][1] < t[j][1]
                      \/ t[i][1] = t[j][1] /\ t[i][2] < t[j][2]
    BY DEF Ordered
  <2>1. i \in 1 .. Len(s)
    BY <1>1
  <2>2. CASE j \in 1 .. Len(s)
    BY <1>1, <2>1, <2>2 DEF Ordered
  <2>3. CASE j = Len(s) + 1
    BY <1>1, <2>1, <2>3 DEF Ahead
  <2> QED
    BY <1>2, <2>2, <2>3
<1> QED
  BY <1>3, <1>4, <1>5 DEF t

-----------------------------------------------------------------------------
(* Every step keeps the invariant *)

\* Nothing was sent and there is no file yet.
LEMMA HeartbeatStarts == HeartbeatInit => HeartbeatInv
<1> SUFFICES ASSUME HeartbeatInit PROVE HeartbeatInv
  OBVIOUS
<1>1. HeartbeatTypeOK
  <2>1. 0 \in Numbers /\ 0 \in 0 .. MaxHeartbeatFaults /\ 0 \in 0 .. MaxBeats
    BY HeartbeatAssumption DEF Numbers, HeartbeatAssumption
  <2>2. <<>> \in Seq(Numbers \X Nat)
    OBVIOUS
  <2>3. Other("absent") \in [kind : {"absent"}, epoch : Numbers, next : Nat]
    BY <2>1 DEF Other
  <2> QED
    BY <2>1, <2>2, <2>3 DEF HeartbeatInit, HeartbeatTypeOK, Kinds
<1>2. ProducerInv /\ LoopInv /\ EpochInv
  BY DEF HeartbeatInit, ProducerInv, LoopInv, EpochInv, Other, Drawn
<1>3. ReportInv
  BY HeartbeatAssumption DEF HeartbeatInit, ReportInv, HeartbeatAssumption
<1>4. Ordered(sent)
  BY DEF HeartbeatInit, Ordered
<1> QED
  BY <1>1, <1>2, <1>3, <1>4 DEF HeartbeatInv

\* Waits and probes only move the loop and take the stop signal.
LEMMA WaitKeeps ==
    ASSUME HeartbeatInv, LoopWait
    PROVE  HeartbeatInv'
<1>1. /\ loop \in LoopSteps /\ stopEvent' \in BOOLEAN
      /\ loop' \in {"off", "top", "net", "nap", "delay", "gate", "token"}
      /\ UNCHANGED <<first, stopRequested, producer, results, heartbeatFaults>>
  BY DEF LoopWait, Top, Net, Nap, Delay, Gate, Leave, Continue, control, LoopSteps,
         HeartbeatInv, HeartbeatTypeOK
<1>2. HeartbeatTypeOK'
  BY <1>1 DEF HeartbeatInv, HeartbeatTypeOK, LoopSteps, TurnSteps, producer, results
<1>3. ProducerInv' /\ EpochInv' /\ Ordered(sent)'
  BY <1>1 DEF HeartbeatInv, ProducerInv, EpochInv, producer, results
<1>4. LoopInv' /\ ReportInv'
  BY <1>1 DEF HeartbeatInv, LoopInv, ReportInv, LoopSteps, producer, results
<1> QED
  BY <1>2, <1>3, <1>4 DEF HeartbeatInv

\* The service starts with what the status file says.
LEMMA StartKeeps ==
    ASSUME HeartbeatInv, StartLoop
    PROVE  HeartbeatInv'
<1>1. HeartbeatTypeOK'
  <2>1. 0 \in Numbers
    BY HeartbeatAssumption DEF Numbers, HeartbeatAssumption
  <2>2. Other("absent") \in [kind : {"absent"}, epoch : Numbers, next : Nat]
    BY <2>1 DEF Other
  <2>3. /\ loop' = "top" /\ first' = TRUE /\ stopEvent' = FALSE /\ stopRequested' = FALSE
        /\ state' = Other("absent") /\ success' \in {status, 0} /\ unread' \in BOOLEAN
        /\ UNCHANGED <<stateFile, epochs, sequence, sent, status>>
    BY DEF StartLoop, Built
  <2>4. heartbeatFaults' \in 0 .. MaxHeartbeatFaults
    <3>1. /\ heartbeatFaults \in 0 .. MaxHeartbeatFaults /\ MaxHeartbeatFaults \in Nat
          /\ \/ heartbeatFaults' = heartbeatFaults
             \/ heartbeatFaults < MaxHeartbeatFaults /\ heartbeatFaults' = heartbeatFaults + 1
      BY HeartbeatAssumption
      DEF HeartbeatInv, HeartbeatTypeOK, StartLoop, HeartbeatFault, HeartbeatAssumption
    <3> QED
      BY <3>1
  <2>5. success' \in 0 .. MaxBeats
    BY <2>3, HeartbeatAssumption DEF HeartbeatInv, HeartbeatTypeOK, HeartbeatAssumption
  <2> QED
    BY <2>2, <2>3, <2>4, <2>5 DEF HeartbeatInv, HeartbeatTypeOK, LoopSteps
<1>2. ProducerInv' /\ Ordered(sent)' /\ LoopInv'
  BY DEF HeartbeatInv, ProducerInv, LoopInv, StartLoop, Built, Other
<1>3. EpochInv'
  <2>1. /\ epochs \in Nat /\ heartbeatFaults \in Nat
        /\ heartbeatFaults' = heartbeatFaults \/ heartbeatFaults' = heartbeatFaults + 1
    BY DEF HeartbeatInv, HeartbeatTypeOK, StartLoop, Numbers, HeartbeatFault
  <2> QED
    BY <2>1 DEF HeartbeatInv, EpochInv, StartLoop, Built
<1>4. ReportInv'
  BY DEF HeartbeatInv, ReportInv, HeartbeatTypeOK, StartLoop, Built
<1> QED
  BY <1>1, <1>2, <1>3, <1>4 DEF HeartbeatInv

\* Stop requests, crashes and accidents of the state file: the loop may be one
\* that no longer has a file, the file never one that is behind.
LEMMA HeartbeatEnvironment ==
    ASSUME HeartbeatInv, LoopStopRequest \/ HeartbeatCrash \/ FileAccident
    PROVE  HeartbeatInv'
<1>1. /\ loop' \in {loop, "off"} /\ stopRequested' \in BOOLEAN /\ stopEvent' \in BOOLEAN
      /\ UNCHANGED <<first, state, epochs, sequence, sent, success, status, unread>>
      /\ heartbeatFaults' \in {heartbeatFaults, heartbeatFaults + 1} /\ heartbeatFaults' \in 0 .. MaxHeartbeatFaults
      /\ stateFile' # stateFile => /\ stateFile' \in [kind : {"absent", "damaged", "foreign"}, epoch : {0}, next : {0}]
                         /\ stateFile.kind = "ours" /\ heartbeatFaults' = heartbeatFaults + 1
  <2>1. heartbeatFaults \in 0 .. MaxHeartbeatFaults /\ MaxHeartbeatFaults \in Nat
    BY HeartbeatAssumption DEF HeartbeatInv, HeartbeatTypeOK, HeartbeatAssumption
  <2>2. CASE LoopStopRequest
    BY <2>1, <2>2 DEF LoopStopRequest, producer, results, HeartbeatInv, HeartbeatTypeOK
  <2>3. CASE HeartbeatCrash
    BY <2>1, <2>3 DEF HeartbeatCrash, HeartbeatFault, control, producer, results, HeartbeatInv, HeartbeatTypeOK
  <2>4. CASE FileAccident
    BY <2>1, <2>4 DEF FileAccident, HeartbeatFault, Other, control, results, HeartbeatInv, HeartbeatTypeOK
  <2> QED
    BY <2>2, <2>3, <2>4
<1>2. HeartbeatTypeOK'
  <2>1. heartbeatFaults' \in 0 .. MaxHeartbeatFaults
    BY <1>1
  <2>2. stateFile' \in [kind : Kinds, epoch : Numbers, next : Nat]
    BY <1>1, HeartbeatAssumption DEF HeartbeatInv, HeartbeatTypeOK, Kinds, Numbers, HeartbeatAssumption
  <2> QED
    BY <1>1, <2>1, <2>2 DEF HeartbeatInv, HeartbeatTypeOK
<1>3. ProducerInv' /\ Ordered(sent)'
  BY <1>1 DEF HeartbeatInv, ProducerInv
<1>4. LoopInv' /\ ReportInv'
  BY <1>1 DEF HeartbeatInv, LoopInv, ReportInv
<1>5. EpochInv'
  <2>1. epochs \in Nat /\ heartbeatFaults \in Nat
    BY DEF HeartbeatInv, HeartbeatTypeOK, Numbers
  <2>2. CASE stateFile' = stateFile
    <3>1. epochs' = epochs
      BY <1>1
    <3>2. CASE heartbeatFaults' = heartbeatFaults
      BY <2>1, <2>2, <3>1, <3>2 DEF HeartbeatInv, EpochInv
    <3>3. CASE heartbeatFaults' = heartbeatFaults + 1
      BY <2>1, <2>2, <3>1, <3>3 DEF HeartbeatInv, EpochInv
    <3> QED
      BY <1>1, <3>2, <3>3
  <2>3. CASE stateFile' # stateFile
    <3>1. epochs <= heartbeatFaults + 1 /\ heartbeatFaults' = heartbeatFaults + 1 /\ epochs' = epochs
      BY <1>1, <2>1, <2>3 DEF HeartbeatInv, EpochInv
    <3>2. CASE stateFile'.kind \in {"absent", "damaged"}
      BY <2>1, <3>1, <3>2 DEF EpochInv
    <3>3. CASE stateFile'.kind \notin {"absent", "damaged"}
      BY <2>1, <3>1, <3>3 DEF EpochInv
    <3> QED
      BY <3>2, <3>3
  <2> QED
    BY <2>2, <2>3
<1> QED
  BY <1>2, <1>3, <1>4, <1>5 DEF HeartbeatInv

\* A turn that ends without a heartbeat, keeping the report in order.
LEMMA RecordKeeps ==
    ASSUME HeartbeatInv, loop \in TurnSteps, TurnEnds, Record(success), UNCHANGED sent
    PROVE  /\ loop' = "top" /\ first' \in BOOLEAN
           /\ UNCHANGED <<stopEvent, stopRequested, success, unread>>
           /\ status' \in 0 .. MaxBeats
           /\ ReportInv' /\ LoopInv'
<1>1. /\ loop' = "top" /\ first' = FALSE /\ UNCHANGED <<stopEvent, stopRequested, unread>>
      /\ success' = success /\ status' \in {status, success}
  BY DEF TurnEnds, Record
<1>2. /\ status \in 0 .. MaxBeats /\ success \in 0 .. MaxBeats
      /\ status <= success \/ (unread /\ success = 0)
      /\ success <= Len(sent) /\ status <= Len(sent) /\ Len(sent) <= MaxBeats
  BY DEF HeartbeatInv, HeartbeatTypeOK, ReportInv, TurnSteps
<1>3. ReportInv'
  BY <1>1, <1>2 DEF ReportInv
<1>4. status' \in 0 .. MaxBeats
  BY <1>1, <1>2
<1>5. LoopInv'
  BY <1>1 DEF LoopInv
<1> QED
  BY <1>1, <1>3, <1>4, <1>5

\* The token is read or not.
LEMMA TokenKeeps ==
    ASSUME HeartbeatInv, Token
    PROVE  HeartbeatInv'
<1>1. loop \in TurnSteps /\ UNCHANGED <<producer, heartbeatFaults>>
  BY DEF Token, TurnSteps
<1>2. ProducerInv' /\ EpochInv' /\ Ordered(sent)'
  BY <1>1 DEF HeartbeatInv, ProducerInv, EpochInv, producer
<1>3. CASE TurnEnds /\ Record(success)
  <2>1. /\ loop' = "top" /\ first' \in BOOLEAN /\ UNCHANGED <<stopEvent, stopRequested, success, unread>>
        /\ status' \in 0 .. MaxBeats /\ ReportInv' /\ LoopInv'
    BY <1>1, <1>3, RecordKeeps DEF producer
  <2>2. HeartbeatTypeOK'
    BY <1>1, <2>1 DEF HeartbeatInv, HeartbeatTypeOK, LoopSteps, producer
  <2> QED
    BY <1>2, <2>1, <2>2 DEF HeartbeatInv
<1>4. CASE /\ Len(sent) < MaxBeats
           /\ loop' = IF state.kind = "absent" THEN "load" ELSE "reserve"
           /\ UNCHANGED <<control, results>>
  <2>1. HeartbeatTypeOK'
    BY <1>1, <1>4 DEF HeartbeatInv, HeartbeatTypeOK, TurnSteps, producer, control, results
  <2>2. ReportInv'
    BY <1>1, <1>4 DEF HeartbeatInv, ReportInv, TurnSteps, producer, results
  <2>3. LoopInv'
    BY <1>1, <1>4 DEF HeartbeatInv, LoopInv, HeartbeatTypeOK, producer
  <2> QED
    BY <1>2, <2>1, <2>2, <2>3 DEF HeartbeatInv
<1> QED
  BY <1>3, <1>4 DEF Token

\* Loading takes the file as it is, or starts an epoch later than all others.
LEMMA LoadKeeps ==
    ASSUME HeartbeatInv, Load
    PROVE  HeartbeatInv'
<1>1. /\ loop = "load" /\ loop \in TurnSteps /\ UNCHANGED <<sequence, sent>>
      /\ Len(sent) < MaxBeats /\ state.kind = "absent" /\ Ordered(sent)'
  BY DEF Load, HeartbeatInv, LoopInv, TurnSteps
<1>2. sent \in Heartbeats /\ epochs \in Nat
  BY DEF HeartbeatInv, HeartbeatTypeOK, Heartbeats, Numbers
<1>3. CASE /\ stateFile.kind = "ours" /\ state' = stateFile
           /\ loop' = "reserve" /\ UNCHANGED <<control, results, stateFile, epochs, heartbeatFaults>>
  <2>1. HeartbeatTypeOK'
    BY <1>1, <1>3 DEF HeartbeatInv, HeartbeatTypeOK, TurnSteps, control, results
  <2>2. ProducerInv' /\ EpochInv' /\ LoopInv'
    BY <1>1, <1>3 DEF HeartbeatInv, ProducerInv, EpochInv, LoopInv
  <2>3. ReportInv'
    BY <1>1, <1>3 DEF HeartbeatInv, ReportInv, results
  <2> QED
    BY <1>1, <2>1, <2>2, <2>3 DEF HeartbeatInv
<1>4. CASE /\ stateFile.kind \in {"absent", "damaged"} /\ epochs' = epochs + 1
           /\ state' = Ours(epochs + 1, 1) /\ stateFile' = Ours(epochs + 1, 1)
           /\ loop' = "reserve" /\ UNCHANGED <<control, results, heartbeatFaults>>
  <2>1. epochs + 1 \in Numbers
    BY <1>4, HeartbeatAssumption DEF HeartbeatInv, EpochInv, HeartbeatTypeOK, Numbers, HeartbeatAssumption
  <2>2. HeartbeatTypeOK'
    BY <1>1, <1>4, <2>1 DEF HeartbeatInv, HeartbeatTypeOK, TurnSteps, control, results, Ours, Kinds
  <2>3. Ahead(sent, epochs + 1, 1) /\ Drawn(sent, epochs + 1)
    BY <1>2, NewEpoch DEF HeartbeatInv, ProducerInv
  <2>4. ProducerInv'
    BY <1>1, <1>2, <1>4, <2>3 DEF ProducerInv, Ours
  <2>5. EpochInv'
    BY <1>2, <1>4 DEF HeartbeatInv, EpochInv, Ours
  <2>6. LoopInv' /\ ReportInv'
    BY <1>1, <1>4 DEF HeartbeatInv, LoopInv, ReportInv, Ours, results
  <2> QED
    BY <1>1, <2>2, <2>4, <2>5, <2>6 DEF HeartbeatInv
<1>5. CASE /\ stateFile.kind \in {"absent", "damaged"} /\ epochs' = epochs + 1
           /\ HeartbeatFault /\ TurnEnds /\ Record(success) /\ UNCHANGED <<state, stateFile>>
  <2>1. /\ loop' = "top" /\ first' \in BOOLEAN /\ UNCHANGED <<stopEvent, stopRequested, success, unread>>
        /\ status' \in 0 .. MaxBeats /\ ReportInv' /\ LoopInv'
    BY <1>1, <1>5, RecordKeeps
  <2>2. epochs + 1 \in Numbers
    BY <1>5, HeartbeatAssumption
    DEF HeartbeatInv, EpochInv, HeartbeatTypeOK, Numbers, HeartbeatAssumption
  <2>3. heartbeatFaults' \in 0 .. MaxHeartbeatFaults /\ heartbeatFaults' = heartbeatFaults + 1 /\ heartbeatFaults \in Nat
    BY <1>5, HeartbeatAssumption DEF HeartbeatInv, HeartbeatTypeOK, HeartbeatFault, HeartbeatAssumption
  <2>4. HeartbeatTypeOK'
    BY <1>1, <1>5, <2>1, <2>2, <2>3 DEF HeartbeatInv, HeartbeatTypeOK, LoopSteps
  <2>5. Drawn(sent, epochs + 1)
    BY <1>2, NewEpoch DEF HeartbeatInv, ProducerInv
  <2>6. ProducerInv'
    BY <1>1, <1>2, <1>5, <2>5 DEF HeartbeatInv, ProducerInv
  <2>7. EpochInv'
    BY <1>2, <1>5, <2>3 DEF HeartbeatInv, EpochInv
  <2> QED
    BY <1>1, <2>1, <2>4, <2>6, <2>7 DEF HeartbeatInv
<1>6. CASE /\ stateFile.kind = "foreign" /\ TurnEnds /\ Record(success)
           /\ UNCHANGED <<state, stateFile, epochs, heartbeatFaults>>
  <2>1. /\ loop' = "top" /\ first' \in BOOLEAN /\ UNCHANGED <<stopEvent, stopRequested, success, unread>>
        /\ status' \in 0 .. MaxBeats /\ ReportInv' /\ LoopInv'
    BY <1>1, <1>6, RecordKeeps
  <2>2. HeartbeatTypeOK'
    BY <1>1, <1>6, <2>1 DEF HeartbeatInv, HeartbeatTypeOK, LoopSteps
  <2>3. ProducerInv' /\ EpochInv'
    BY <1>1, <1>6 DEF HeartbeatInv, ProducerInv, EpochInv
  <2> QED
    BY <1>1, <2>1, <2>2, <2>3 DEF HeartbeatInv
<1> QED
  BY <1>3, <1>4, <1>5, <1>6 DEF Load

\* The sequence that is reserved is unused, and the file is beyond it.
LEMMA ReserveKeeps ==
    ASSUME HeartbeatInv, Reserve
    PROVE  HeartbeatInv'
<1>1. /\ loop = "reserve" /\ loop \in TurnSteps /\ UNCHANGED <<epochs, sent>>
      /\ Len(sent) < MaxBeats /\ state.kind = "ours" /\ Ordered(sent)'
  BY DEF Reserve, HeartbeatInv, LoopInv, TurnSteps
<1>2. CASE /\ state' = Ours(state.epoch, state.next + 1) /\ stateFile' = state'
           /\ sequence' = state.next
           /\ loop' = "send" /\ UNCHANGED <<control, results, heartbeatFaults>>
  <2>1. /\ sent \in Heartbeats /\ state.epoch \in Numbers /\ state.next \in Nat
        /\ epochs \in Nat
    BY DEF HeartbeatInv, HeartbeatTypeOK, Heartbeats, Numbers
  <2>2. Ahead(sent, state.epoch, state.next) /\ state.epoch <= epochs /\ Drawn(sent, epochs)
    BY <1>1 DEF HeartbeatInv, ProducerInv
  <2>3. Ahead(sent, state.epoch, state.next + 1)
    BY <2>1, <2>2, NextAhead
  <2>4. HeartbeatTypeOK'
    BY <1>1, <1>2, <2>1 DEF HeartbeatInv, HeartbeatTypeOK, TurnSteps, control, results, Ours, Kinds
  <2>5. ProducerInv'
    BY <1>1, <1>2, <2>2, <2>3 DEF ProducerInv, Ours
  <2>6. LoopInv'
    BY <1>1, <1>2, <2>1, <2>2 DEF LoopInv, Ours
  <2>7. ReportInv' /\ EpochInv'
    BY <1>1, <1>2, <2>1 DEF HeartbeatInv, ReportInv, EpochInv, HeartbeatTypeOK, results, Ours
  <2> QED
    BY <1>1, <2>4, <2>5, <2>6, <2>7 DEF HeartbeatInv
<1>3. CASE /\ HeartbeatFault /\ TurnEnds /\ Record(success)
           /\ UNCHANGED <<state, stateFile, sequence>>
  <2>1. /\ loop' = "top" /\ first' \in BOOLEAN /\ UNCHANGED <<stopEvent, stopRequested, success, unread>>
        /\ status' \in 0 .. MaxBeats /\ ReportInv' /\ LoopInv'
    BY <1>1, <1>3, RecordKeeps
  <2>2. heartbeatFaults' \in 0 .. MaxHeartbeatFaults /\ heartbeatFaults' = heartbeatFaults + 1 /\ heartbeatFaults \in Nat
    BY <1>3, HeartbeatAssumption DEF HeartbeatInv, HeartbeatTypeOK, HeartbeatFault, HeartbeatAssumption
  <2>3. HeartbeatTypeOK'
    BY <1>1, <1>3, <2>1, <2>2 DEF HeartbeatInv, HeartbeatTypeOK, LoopSteps
  <2>4. ProducerInv'
    BY <1>1, <1>3 DEF HeartbeatInv, ProducerInv
  <2>5. EpochInv'
    BY <1>1, <1>3, <2>2 DEF HeartbeatInv, EpochInv, HeartbeatTypeOK, Numbers
  <2> QED
    BY <1>1, <2>1, <2>3, <2>4, <2>5 DEF HeartbeatInv
<1> QED
  BY <1>2, <1>3 DEF Reserve

\* After the send, the sequence is used and everything kept is beyond it.
LEMMA SendKeeps ==
    ASSUME HeartbeatInv, Send
    PROVE  HeartbeatInv'
<1>1. /\ loop = "send" /\ loop' = "top" /\ first' = FALSE
      /\ sent' = Append(sent, <<state.epoch, sequence>>)
      /\ UNCHANGED <<stopEvent, stopRequested, stateFile, state, epochs, sequence, heartbeatFaults>>
      /\ success' \in {Len(sent) + 1, success} /\ status' \in {status, success'}
      /\ unread' = unread
  BY DEF Send, TurnEnds, Record
<1>2. /\ state.kind = "ours" /\ sequence < state.next /\ state.epoch <= epochs
      /\ Ahead(sent, state.epoch, sequence) /\ Ahead(sent, state.epoch, state.next)
      /\ stateFile.kind = "ours" => stateFile = state
      /\ Drawn(sent, epochs) /\ Ordered(sent) /\ Len(sent) < MaxBeats
  BY <1>1 DEF HeartbeatInv, ProducerInv, LoopInv
<1>3. /\ sent \in Heartbeats /\ state.epoch \in Numbers /\ state.next \in Nat
      /\ sequence \in Nat /\ epochs \in Nat
  BY DEF HeartbeatInv, HeartbeatTypeOK, Heartbeats, Numbers
<1>4. /\ Ahead(sent', state.epoch, state.next) /\ Drawn(sent', epochs) /\ Ordered(sent')
  BY <1>1, <1>2, <1>3, SentAhead
<1>5. sent' \in Heartbeats /\ Len(sent') = Len(sent) + 1 /\ Len(sent) \in Nat
  BY <1>1, <1>3, Appended
<1>6. ProducerInv'
  BY <1>1, <1>2, <1>4 DEF ProducerInv
<1>7. /\ success' \in 0 .. MaxBeats /\ status' \in 0 .. MaxBeats
      /\ status' <= success' \/ (unread' /\ success' = 0)
      /\ success' <= Len(sent') /\ status' <= Len(sent') /\ Len(sent') <= MaxBeats
  BY <1>1, <1>2, <1>5, HeartbeatAssumption
  DEF HeartbeatInv, HeartbeatTypeOK, ReportInv, HeartbeatAssumption
<1>8. ReportInv'
  BY <1>5, <1>7 DEF ReportInv
<1>9. HeartbeatTypeOK'
  BY <1>1, <1>5, <1>7 DEF HeartbeatInv, HeartbeatTypeOK, LoopSteps, Heartbeats
<1>10. LoopInv' /\ EpochInv'
  BY <1>1 DEF HeartbeatInv, LoopInv, EpochInv
<1> QED
  BY <1>4, <1>6, <1>8, <1>9, <1>10 DEF HeartbeatInv

\* Every step keeps the inductive invariant: one case per action.
LEMMA HeartbeatStep ==
    ASSUME HeartbeatInv, [HeartbeatNext]_heartbeatVars
    PROVE  HeartbeatInv'
<1>1. CASE UNCHANGED heartbeatVars
  BY <1>1 DEF heartbeatVars, HeartbeatInv, HeartbeatTypeOK, ProducerInv, LoopInv, ReportInv, EpochInv
<1> QED
  BY <1>1, WaitKeeps, StartKeeps, HeartbeatEnvironment, TokenKeeps, LoadKeeps, ReserveKeeps,
     SendKeeps DEF HeartbeatNext, Turn

-----------------------------------------------------------------------------
(* Theorems *)

\* The inductive invariant holds in every reachable state.
THEOREM HeartbeatInvariance == HeartbeatSpec => []HeartbeatInv
<1> QED
  BY HeartbeatStarts, HeartbeatStep, PTL DEF HeartbeatSpec

\* All variables keep their types, the epochs and counters their bounds.
THEOREM HeartbeatTyped == HeartbeatSpec => []HeartbeatTypeOK
<1>1. HeartbeatInv => HeartbeatTypeOK
  BY DEF HeartbeatInv
<1> QED
  BY <1>1, HeartbeatInvariance, PTL

\* Every heartbeat has a later epoch and sequence than those before it, through
\* any number of crashes, failed saves and lost files.
THEOREM SequencesAdvance == HeartbeatSpec => []HeartbeatsAdvance
<1>1. HeartbeatInv => HeartbeatsAdvance
  <2> SUFFICES ASSUME HeartbeatInv PROVE HeartbeatsAdvance
    OBVIOUS
  <2>1. DOMAIN sent = 1 .. Len(sent)
    BY DEF HeartbeatInv, HeartbeatTypeOK
  <2> QED
    BY <2>1 DEF HeartbeatInv, Ordered, HeartbeatsAdvance
<1> QED
  BY <1>1, HeartbeatInvariance, PTL

\* The last success in the status file never becomes an older one; it is lost
\* only by a run that could not read the file and has had no success.
THEOREM SuccessStays == HeartbeatSpec => SuccessNeverGoesBack
<1>1. ASSUME HeartbeatInv, [HeartbeatNext]_heartbeatVars
      PROVE  [status' >= status \/ (unread /\ success' = 0 /\ status' = 0)]_heartbeatVars
  <2>1. CASE Send
    <3>1. /\ loop = "send" /\ success' \in {Len(sent) + 1, success}
          /\ status' \in {status, success'}
      BY <2>1 DEF Send, Record
    <3>2. /\ status \in Nat /\ success \in Nat
          /\ status <= success \/ (unread /\ success = 0)
          /\ status <= Len(sent) /\ Len(sent) \in Nat
      BY <1>1, <3>1 DEF HeartbeatInv, HeartbeatTypeOK, ReportInv
    <3> QED
      BY <3>1, <3>2
  <2>2. CASE Token \/ Load \/ Reserve
    <3>1. /\ loop \in TurnSteps
          /\ UNCHANGED status \/ Record(success)
      BY <2>2 DEF Token, Load, Reserve, TurnSteps, results
    <3>2. /\ status \in Nat /\ success \in Nat
          /\ status <= success \/ (unread /\ success = 0)
      BY <1>1, <3>1 DEF HeartbeatInv, HeartbeatTypeOK, ReportInv, TurnSteps
    <3> QED
      BY <3>1, <3>2 DEF Record
  <2>3. CASE StartLoop \/ LoopWait \/ LoopStopRequest \/ HeartbeatCrash \/ FileAccident
    <3>1. UNCHANGED status
      BY <2>3 DEF StartLoop, Built, LoopWait, Nap, LoopStopRequest, HeartbeatCrash, FileAccident,
                  results
    <3>2. status \in Nat
      BY <1>1 DEF HeartbeatInv, HeartbeatTypeOK
    <3> QED
      BY <3>1, <3>2
  <2> QED
    BY <1>1, <2>1, <2>2, <2>3 DEF HeartbeatNext, Turn
<1> QED
  BY <1>1, HeartbeatInvariance, PTL DEF HeartbeatSpec, SuccessNeverGoesBack

-----------------------------------------------------------------------------
(* ServiceHost: the monitor and its host *)

\* Only run spawns, and it leaves stop() only when the child has ended: what
\* it returns with is not running.
ChildInv ==
    /\ pc["run"] = "spawn" => child = "none"
    /\ ~killFailed => /\ orphans = 0
                      /\ pc["run"] \in {"down", "final"} => child # "running"

RunSteps == {"down", "spawn", "poll", "isset", "wait", "final"} \cup StopSteps
ControlSteps == {"idle", "signal"} \cup StopSteps

\* The types, with pc as a function of the threads.
HostTypes ==
    /\ pc \in [Threads -> RunSteps \cup ControlSteps]
    /\ pc["run"] \in RunSteps /\ pc["control"] \in ControlSteps
    /\ child \in ChildStates /\ event \in BOOLEAN
    /\ log \in {"nothing", "child_start_failed", "child_failed"}
    /\ starts \in 0 .. MaxStarts /\ requested \in BOOLEAN /\ killFailed \in BOOLEAN
    /\ orphans \in Nat /\ orphans <= starts

HostInv == HostTypes /\ ChildInv

\* Moving one thread leaves the other where it is.
LEMMA GotoIs ==
    ASSUME HostTypes, NEW t \in Threads, NEW step, Goto(t, step)
    PROVE  /\ pc'[t] = step
           /\ \A u \in Threads \ {t} : pc'[u] = pc[u]
           /\ DOMAIN pc' = Threads
           /\ pc' \in [Threads -> RunSteps \cup ControlSteps \cup {step}]
  BY DEF HostTypes, Goto

\* A record of two threads is a function of them.
LEMMA RecordIs ==
    ASSUME NEW a, NEW b, pc' = [run |-> a, control |-> b]
    PROVE  /\ pc'["run"] = a /\ pc'["control"] = b
           /\ pc' \in [Threads -> {a, b}]
  BY DEF Threads

\* With both threads typed, pc has the type of ServiceTypeOK.
LEMMA HostTypesAreTypeOK ==
    ASSUME HostInv
    PROVE  ServiceTypeOK
<1>1. pc = [run |-> pc["run"], control |-> pc["control"]]
  BY DEF HostInv, HostTypes, Threads
<1>2. pc \in [run : {"down", "spawn", "poll", "isset", "wait", "final"} \cup StopSteps,
              control : {"idle", "signal"} \cup StopSteps]
  BY <1>1 DEF HostInv, HostTypes, RunSteps, ControlSteps
<1>3. orphans \in 0 .. MaxStarts
  BY ServiceHostAssumption DEF HostInv, HostTypes, ServiceHostAssumption
<1> QED
  BY <1>2, <1>3 DEF HostInv, HostTypes, ServiceTypeOK

-----------------------------------------------------------------------------
(* Every step keeps the invariant *)

\* The service is down and there is no child.
LEMMA HostStarts == ServiceInit => HostInv
<1> SUFFICES ASSUME ServiceInit PROVE HostInv
  OBVIOUS
<1>1. pc["run"] = "down" /\ pc["control"] = "idle" /\ pc \in [Threads -> {"down", "idle"}]
  BY DEF ServiceInit, Threads
<1>2. 0 \in 0 .. MaxStarts
  BY ServiceHostAssumption DEF ServiceHostAssumption
<1>3. HostTypes
  <2>1. {"down", "idle"} \subseteq RunSteps \cup ControlSteps
    BY DEF RunSteps, ControlSteps
  <2>2. pc \in [Threads -> RunSteps \cup ControlSteps]
    BY <1>1, <2>1
  <2>3. pc["run"] \in RunSteps /\ pc["control"] \in ControlSteps
    BY <1>1 DEF RunSteps, ControlSteps
  <2>4. /\ child \in ChildStates /\ event \in BOOLEAN /\ log = "nothing"
        /\ requested \in BOOLEAN /\ killFailed \in BOOLEAN
    BY DEF ServiceInit, ChildStates
  <2>5. starts \in 0 .. MaxStarts /\ orphans \in Nat /\ orphans <= starts
    BY <1>2 DEF ServiceInit
  <2> QED
    BY <2>2, <2>3, <2>4, <2>5 DEF HostTypes
<1>4. ChildInv
  BY <1>1 DEF ServiceInit, ChildInv
<1> QED
  BY <1>3, <1>4 DEF HostInv

\* A start counts a monitor left behind; there was none to count.
LEMMA ScmStartKeeps ==
    ASSUME HostInv, ScmStart
    PROVE  HostInv'
<1>1. /\ pc'["run"] = "spawn" /\ pc'["control"] = "idle"
      /\ pc' \in [Threads -> {"spawn", "idle"}]
  BY RecordIs DEF ScmStart
<1>2. /\ child' = "none" /\ event' = FALSE /\ log' = "nothing" /\ requested' = FALSE
      /\ starts < MaxStarts /\ starts' = starts + 1 /\ killFailed' = killFailed
      /\ pc["run"] = "down"
  BY DEF ScmStart
<1>3. starts \in Nat /\ orphans \in Nat /\ orphans <= starts /\ MaxStarts \in Nat
  BY ServiceHostAssumption DEF HostInv, HostTypes, ServiceHostAssumption
<1>4. /\ starts' \in 0 .. MaxStarts
      /\ orphans' \in Nat /\ orphans' <= starts'
  <2>1. orphans' \in {orphans, orphans + 1}
    BY <1>3 DEF ScmStart
  <2> QED
    BY <1>2, <1>3, <2>1
<1>5. ~killFailed => orphans' = 0
  BY <1>2, <1>3 DEF ScmStart, HostInv, ChildInv
<1>6. HostTypes'
  BY <1>1, <1>2, <1>4 DEF HostInv, HostTypes, RunSteps, ControlSteps, ChildStates
<1>7. ChildInv'
  BY <1>1, <1>2, <1>5 DEF ChildInv
<1> QED
  BY <1>6, <1>7 DEF HostInv

\* A step of run that neither spawns nor ends the child, and returns only when
\* the child is not running.
LEMMA RunMoves ==
    ASSUME HostInv, NEW step \in RunSteps \ {"spawn"}, Goto("run", step),
           UNCHANGED <<child, event, history>> \/ UNCHANGED <<child, log, history>>,
           event' \in BOOLEAN, log' \in {"nothing", "child_start_failed", "child_failed"},
           step \in {"down", "final"} => child # "running"
    PROVE  HostInv'
<1>1. /\ pc'["run"] = step /\ pc'["control"] = pc["control"]
      /\ pc' \in [Threads -> RunSteps \cup ControlSteps]
  BY GotoIs DEF HostInv, HostTypes, Threads
<1>2. UNCHANGED <<child, starts, requested, killFailed, orphans>>
  BY DEF history
<1>3. HostTypes'
  BY <1>1, <1>2 DEF HostInv, HostTypes
<1>4. ChildInv'
  BY <1>1, <1>2 DEF HostInv, ChildInv
<1> QED
  BY <1>3, <1>4 DEF HostInv

\* run's own steps.
LEMMA RunKeeps ==
    ASSUME HostInv, Spawn \/ Poll \/ IsSet \/ Wait \/ Final
    PROVE  HostInv'
<1>1. CASE Poll
  <2>1. CASE Ended /\ Return
    BY <1>1, <2>1, RunMoves
    DEF Poll, Return, Ended, RunSteps, HostInv, HostTypes
  <2>2. CASE Goto("run", "isset") /\ UNCHANGED log
    BY <1>1, <2>2, RunMoves DEF Poll, RunSteps, HostInv, HostTypes
  <2> QED
    BY <1>1, <2>1, <2>2 DEF Poll
<1>2. CASE IsSet
  <2>1. CASE event
    BY <1>2, <2>1, RunMoves DEF IsSet, RunSteps, StopSteps, HostInv, HostTypes
  <2>2. CASE ~event
    BY <1>2, <2>2, RunMoves DEF IsSet, RunSteps, HostInv, HostTypes
  <2> QED
    BY <2>1, <2>2
<1>3. CASE Wait
  BY <1>3, RunMoves DEF Wait, RunSteps, HostInv, HostTypes
<1>4. CASE Final
  <2>1. child # "running" \/ killFailed
    BY <1>4 DEF Final, HostInv, ChildInv
  <2>2. CASE child # "running"
    BY <1>4, <2>2, RunMoves DEF Final, Return, RunSteps, HostInv, HostTypes
  <2>3. CASE killFailed
    <3>1. /\ pc'["run"] = "down" /\ pc'["control"] = pc["control"]
          /\ pc' \in [Threads -> RunSteps \cup ControlSteps]
      BY <1>4, GotoIs DEF Final, Return, HostInv, HostTypes, Threads, RunSteps
    <3> QED
      BY <1>4, <2>3, <3>1
      DEF Final, Return, history, HostInv, HostTypes, ChildInv, RunSteps
  <2> QED
    BY <2>1, <2>2, <2>3
<1>5. CASE Spawn
  <2>1. CASE child' = "running" /\ Goto("run", "poll") /\ UNCHANGED log
    <3>1. /\ pc'["run"] = "poll" /\ pc'["control"] = pc["control"]
          /\ pc' \in [Threads -> RunSteps \cup ControlSteps]
      BY <2>1, GotoIs DEF HostInv, HostTypes, Threads, RunSteps
    <3> QED
      BY <1>5, <2>1, <3>1
      DEF Spawn, history, HostInv, HostTypes, ChildInv, RunSteps, ChildStates
  <2>2. CASE log' = "child_start_failed" /\ Goto("run", "down") /\ UNCHANGED child
    <3>1. child = "none"
      BY <1>5 DEF Spawn, HostInv, ChildInv
    <3> QED
      BY <1>5, <2>2, <3>1, RunMoves DEF Spawn, RunSteps, HostInv, HostTypes
  <2> QED
    BY <1>5, <2>1, <2>2 DEF Spawn
<1> QED
  BY <1>1, <1>2, <1>3, <1>4, <1>5

\* stop(), in either thread: it returns only when the child has ended or a kill
\* failed, and run is not about to spawn while it is inside stop() itself.
LEMMA StopKeeps ==
    ASSUME HostInv, NEW t \in Threads, StopChild(t)
    PROVE  HostInv'
<1>1. PICK step \in {"terminate", "kill", AfterStop(t)} : Goto(t, step)
  BY DEF StopChild, StopCheck, Terminate, KillChild
<1>2. /\ AfterStop(t) = (IF t = "run" THEN "final" ELSE "signal")
      /\ t = "run" \/ t = "control"
  BY DEF AfterStop, Threads
<1>3. /\ pc'[t] = step /\ \A u \in Threads \ {t} : pc'[u] = pc[u]
      /\ pc' \in [Threads -> RunSteps \cup ControlSteps]
  BY <1>1, <1>2, GotoIs DEF HostInv, HostTypes, RunSteps, ControlSteps, StopSteps
<1>4. /\ UNCHANGED <<event, log, starts, requested, orphans>>
      /\ child' \in {child, "terminated"} /\ killFailed' \in {killFailed, TRUE}
      /\ child' # child => child = "running"
  BY DEF StopChild, StopCheck, Terminate, KillChild, history
<1>5. step = AfterStop(t) => child' # "running" \/ killFailed'
  <2>1. CASE StopCheck(t)
    BY <1>1, <1>2, <1>3, <2>1, GotoIs
    DEF StopCheck, Ended, HostInv, history
  <2>2. CASE Terminate(t)
    BY <1>1, <1>2, <1>3, <2>2, GotoIs DEF Terminate, HostInv, history
  <2>3. CASE KillChild(t)
    BY <2>3 DEF KillChild
  <2> QED
    BY <2>1, <2>2, <2>3 DEF StopChild
<1>6. /\ pc'["run"] \in RunSteps /\ pc'["control"] \in ControlSteps
      /\ pc'["run"] = "spawn" => pc["run"] = "spawn"
      /\ pc'["run"] \in {"down", "final"} =>
            pc["run"] \in {"down", "final"} \/ (t = "run" /\ step = AfterStop(t))
  BY <1>1, <1>2, <1>3
  DEF HostInv, HostTypes, Threads, RunSteps, ControlSteps, StopSteps
<1>7. HostTypes'
  BY <1>3, <1>4, <1>6 DEF HostInv, HostTypes, ChildStates
<1>8. ChildInv'
  <2>1. pc'["run"] = "spawn" => child' = "none"
    BY <1>4, <1>6 DEF HostInv, ChildInv
  <2>2. ~killFailed' => ~killFailed /\ orphans' = 0
    <3>1. killFailed' = killFailed \/ killFailed' = TRUE
      BY <1>4
    <3>2. ~killFailed' => ~killFailed
      BY <3>1
    <3>3. orphans' = orphans
      BY <1>4
    <3> QED
      BY <3>2, <3>3 DEF HostInv, ChildInv
  <2>3. ASSUME ~killFailed', pc'["run"] \in {"down", "final"}
        PROVE  child' # "running"
    <3>1. CASE pc["run"] \in {"down", "final"}
      <4>1. child # "running"
        BY <2>2, <2>3, <3>1 DEF HostInv, ChildInv
      <4> QED
        BY <1>4, <4>1
    <3>2. CASE step = AfterStop(t)
      BY <1>5, <2>3, <3>2
    <3> QED
      BY <1>6, <2>3, <3>1, <3>2
  <2> QED
    BY <2>1, <2>2, <2>3 DEF ChildInv
<1> QED
  BY <1>7, <1>8 DEF HostInv

\* Requests and signals change no child; a child that ends was running.
LEMMA HostEnvironment ==
    ASSUME HostInv, StopRequest \/ SetEvent \/ ChildExits
    PROVE  HostInv'
<1>1. CASE StopRequest \/ SetEvent
  <2>1. PICK step \in {"stop", "idle"} : Goto("control", step)
    BY <1>1 DEF StopRequest, SetEvent
  <2>2. /\ pc'["run"] = pc["run"] /\ pc'["control"] \in ControlSteps
        /\ pc' \in [Threads -> RunSteps \cup ControlSteps]
    BY <2>1, GotoIs DEF HostInv, HostTypes, Threads, ControlSteps, StopSteps
  <2>3. /\ UNCHANGED <<child, log, starts, killFailed, orphans>>
        /\ event' \in BOOLEAN /\ requested' \in BOOLEAN
    BY <1>1 DEF StopRequest, SetEvent, history, HostInv, HostTypes
  <2> QED
    BY <2>2, <2>3 DEF HostInv, HostTypes, ChildInv
<1>2. CASE ChildExits
  BY <1>2 DEF ChildExits, history, HostInv, HostTypes, ChildInv, ChildStates
<1> QED
  BY <1>1, <1>2

\* Every step keeps the invariant: one case per action.
LEMMA HostStep ==
    ASSUME HostInv, [ServiceNext]_serviceVars
    PROVE  HostInv'
<1>1. CASE UNCHANGED serviceVars
  BY <1>1 DEF serviceVars, HostInv, HostTypes, ChildInv
<1>2. CASE ServiceNext
  <2>1. "run" \in Threads /\ "control" \in Threads
    BY DEF Threads
  <2> QED
    BY <1>2, <2>1, ScmStartKeeps, RunKeeps, StopKeeps, HostEnvironment
    DEF ServiceNext, RunThread, Control
<1> QED
  BY <1>1, <1>2

-----------------------------------------------------------------------------
(* Theorems *)

\* The inductive invariant holds in every reachable state.
THEOREM HostInvariance == ServiceSpec => []HostInv
<1> QED
  BY HostStarts, HostStep, PTL DEF ServiceSpec

\* All variables keep their types; no more monitors are left than starts.
THEOREM HostTyped == ServiceSpec => []ServiceTypeOK
<1> QED
  BY HostInvariance, HostTypesAreTypeOK, PTL

\* Unless a kill failed, no monitor runs while the service is down, and none
\* was running when the service was started again.
THEOREM NothingLeftBehind == ServiceSpec => []NoMonitorLeftBehind
<1>1. HostInv => NoMonitorLeftBehind
  <2> SUFFICES ASSUME HostInv, ~killFailed
               PROVE  orphans = 0 /\ (pc["run"] = "down" => child # "running")
    BY DEF NoMonitorLeftBehind
  <2> QED
    BY DEF HostInv, ChildInv
<1> QED
  BY <1>1, HostInvariance, PTL
=============================================================================
