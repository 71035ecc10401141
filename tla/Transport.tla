----------------------------- MODULE Transport -----------------------------
(***************************************************************************)
(* One attempt of a delivery over the network: _http_transport of agent.py *)
(* with one absolute deadline.  Resolving the host and connecting to an    *)
(* address cannot be interrupted, so _run_with_deadline gives each of them *)
(* to a daemon thread and waits no longer than the deadline allows.  The   *)
(* caller and its threads share two events and an outcome per call: the    *)
(* threads read and write them in steps that interleave with the caller's, *)
(* and a thread that is given up on goes on running.                       *)
(***************************************************************************)
EXTENDS Naturals

CONSTANTS
    Candidates,     \* how many addresses a host may resolve to
    Parts,          \* how many pieces a request may be sent in
    MaxChunks,      \* MAX_RESPONSE_HEADER_BYTES, in chunks of recv
    Deadline,       \* when the attempt must be over; it begins at 0
    MaxTime         \* bound: the clock

ASSUME TransportAssumption ==
    /\ Candidates \in Nat /\ Parts \in Nat \ {0} /\ MaxChunks \in Nat \ {0}
    /\ Deadline \in Nat \ {0} /\ MaxTime \in Nat /\ MaxTime > Deadline

\* The calls of _run_with_deadline: 0 resolves, k connects to address k.
Calls == 0 .. Candidates
Connects == 1 .. Candidates

VARIABLES
    now,
    pc,         \* where the caller is
    call,       \* the call of _run_with_deadline the caller is in, or was last
    found,      \* how many addresses the resolver returned
    phase,      \* what a socket in select waits for
    amount,     \* pieces sent, then chunks read, in the phase
    result,     \* how _http_transport ended
    thread,     \* [call -> where its worker thread is]
    outcome,    \* [call -> the outcome dictionary]
    completed, abandoned,   \* [call -> the two events]
    open,       \* sockets that are open
    closed,     \* [connect -> how often its socket was closed]
    raced       \* history: connects whose caller timed out where neither it nor
                \* their thread could see the other

callerVars == <<pc, call, found, phase, amount, result>>
sharedVars == <<outcome, completed, abandoned>>
socketVars == <<open, closed>>
transportVars == <<now, callerVars, thread, sharedVars, socketVars, raced>>

Phases == {"handshake", "send", "read"}

Late == now >= Deadline

Close(k) == /\ open' = open \ {k}
            /\ closed' = [closed EXCEPT ![k] = @ + 1]

Raise(how) == /\ pc' = "over" /\ result' = how
              /\ UNCHANGED <<call, found, phase, amount>>

-----------------------------------------------------------------------------
(* The worker thread of a call: run(). *)

\* A connect begins by asking for the time that is left.
Begin(k) ==
    /\ thread[k] = "begun"
    /\ IF k \in Connects /\ Late
       THEN /\ thread' = [thread EXCEPT ![k] = "completing"]
            /\ outcome' = [outcome EXCEPT ![k] = "timeout"]
       ELSE /\ thread' = [thread EXCEPT ![k] = "operating"]
            /\ UNCHANGED outcome
    /\ UNCHANGED <<now, callerVars, completed, abandoned, socketVars, raced>>

\* The operation is over.  A connect that fails closes its own socket.
Operate(k) ==
    /\ thread[k] = "operating"
    /\ \/ /\ thread' = [thread EXCEPT ![k] = "returned"]
          /\ open' = IF k \in Connects THEN open \cup {k} ELSE open
          /\ UNCHANGED outcome
       \/ /\ \E error \in {"failed", "timeout"} :
                outcome' = [outcome EXCEPT ![k] = error]
          /\ thread' = [thread EXCEPT ![k] = "completing"]
          /\ UNCHANGED open
    /\ UNCHANGED <<now, callerVars, completed, abandoned, closed, raced>>

\* Mutant of Look: a thread that nobody waits for closes nothing.
LookAway(k) ==
    /\ thread[k] = "returned"
    /\ thread' = [thread EXCEPT ![k] = "storing"]
    /\ UNCHANGED <<now, callerVars, sharedVars, socketVars, raced>>

\* abandoned.is_set(); only a connect has an on_late_result.
Look(k) ==
    /\ thread[k] = "returned"
    /\ thread' = [thread EXCEPT ![k] =
                    IF abandoned[k] /\ k \in Connects THEN "closing" ELSE "storing"]
    /\ UNCHANGED <<now, callerVars, sharedVars, socketVars, raced>>

Store(k) ==
    /\ thread[k] = "storing"
    /\ outcome' = [outcome EXCEPT ![k] = "value"]
    /\ thread' = [thread EXCEPT ![k] = "completing"]
    /\ UNCHANGED <<now, callerVars, completed, abandoned, socketVars, raced>>

\* Mutant of CloseLate: the value is closed, and handed over all the same.
CloseLateAndStore(k) ==
    /\ thread[k] = "closing"
    /\ Close(k)
    /\ outcome' = [outcome EXCEPT ![k] = "value"]
    /\ thread' = [thread EXCEPT ![k] = "completing"]
    /\ UNCHANGED <<now, callerVars, completed, abandoned, raced>>

\* on_late_result in the thread.
CloseLate(k) ==
    /\ thread[k] = "closing"
    /\ Close(k)
    /\ thread' = [thread EXCEPT ![k] = "completing"]
    /\ UNCHANGED <<now, callerVars, sharedVars, raced>>

Complete(k) ==
    /\ thread[k] = "completing"
    /\ completed' = [completed EXCEPT ![k] = TRUE]
    /\ thread' = [thread EXCEPT ![k] = "gone"]
    /\ UNCHANGED <<now, callerVars, outcome, abandoned, socketVars, raced>>

Worker(k) == Begin(k) \/ Operate(k) \/ Look(k) \/ Store(k) \/ CloseLate(k)
             \/ Complete(k)

-----------------------------------------------------------------------------
(* The caller in _run_with_deadline and _connect_with_deadline. *)

\* deliver_event calls _http_transport, which sets the deadline.
BeginAttempt ==
    /\ pc = "idle"
    /\ pc' = "start"
    /\ UNCHANGED <<now, call, found, phase, amount, result, thread, sharedVars,
                   socketVars, raced>>

Start ==
    /\ pc = "start"
    /\ thread' = [thread EXCEPT ![call] = "begun"]
    /\ pc' = "started"
    /\ UNCHANGED <<now, call, found, phase, amount, result, sharedVars,
                   socketVars, raced>>

\* Mutant of TryNext: one address too many.
TryNextOffByOne(n) ==
    /\ IF call <= n
       THEN pc' = "start" /\ call' = call + 1 /\ UNCHANGED result
       ELSE pc' = "over" /\ result' = "failed" /\ UNCHANGED call
    /\ UNCHANGED <<phase, amount>>

\* The next address, or the last error, or no_connect_addresses.
TryNext(n) == /\ IF call < n
                 THEN pc' = "start" /\ call' = call + 1 /\ UNCHANGED result
                 ELSE pc' = "over" /\ result' = "failed" /\ UNCHANGED call
              /\ UNCHANGED <<phase, amount>>

\* Mutant of Propagate: TimeoutError is an OSError, so the next address is
\* tried after it.
PropagateNone(how) ==
    IF call \in Connects THEN TryNext(found) /\ UNCHANGED found ELSE Raise(how)

\* What _connect_with_deadline does with an exception of a call.
Propagate(how) ==
    IF call \in Connects /\ how = "failed"
    THEN TryNext(found) /\ UNCHANGED found
    ELSE Raise(how)

\* The value is still invisible to the caller, and the thread is past looking at
\* abandoned.
Unseen(k) == /\ k \in Connects /\ ~completed[k]
             /\ thread[k] = "storing" \/ (thread[k] = "completing" /\ outcome[k] = "value")

\* _remaining(deadline) raises after the thread was started: abandoned is never
\* set, and whatever the thread opens stays open.  Otherwise the caller waits.
EnterWait ==
    /\ pc = "started"
    /\ IF Late THEN Propagate("timeout") /\ raced' = raced \cup ({call} \cap Connects)
       ELSE /\ pc' = "waiting"
            /\ UNCHANGED <<call, found, phase, amount, result, raced>>
    /\ UNCHANGED <<now, thread, sharedVars, socketVars>>

Completed ==
    /\ pc = "waiting" /\ completed[call]
    /\ pc' = "taking"
    /\ UNCHANGED <<now, call, found, phase, amount, result, thread, sharedVars,
                   socketVars, raced>>

\* Mutant of TimesOut: the wait has no timeout.
TimesOutNever == FALSE /\ UNCHANGED transportVars

\* Event.wait returns False; the event may be set just now.
TimesOut ==
    /\ pc = "waiting" /\ Late
    /\ pc' = "abandoning"
    /\ UNCHANGED <<now, call, found, phase, amount, result, thread, sharedVars,
                   socketVars, raced>>

Abandon ==
    /\ pc = "abandoning"
    /\ abandoned' = [abandoned EXCEPT ![call] = TRUE]
    /\ pc' = "checking"
    /\ UNCHANGED <<now, call, found, phase, amount, result, thread, outcome,
                   completed, socketVars, raced>>

\* Mutant of Check: what came between the timeout and abandoned.set() is left.
CheckNothing ==
    /\ pc = "checking"
    /\ raced' = IF Unseen(call) THEN raced \cup {call} ELSE raced
    /\ Propagate("timeout")
    /\ UNCHANGED <<now, thread, sharedVars, socketVars>>

\* The value may have come between the timeout and abandoned.set().
Check ==
    /\ pc = "checking"
    /\ IF completed[call] /\ outcome[call] = "value" /\ call \in Connects
       THEN Close(call) ELSE UNCHANGED socketVars
    /\ raced' = IF Unseen(call) THEN raced \cup {call} ELSE raced
    /\ Propagate("timeout")
    /\ UNCHANGED <<now, thread, sharedVars>>

TakeError ==
    /\ pc = "taking" /\ outcome[call] \in {"failed", "timeout"}
    /\ Propagate(outcome[call])
    /\ UNCHANGED <<now, thread, sharedVars, socketVars, raced>>

TakeAddresses ==
    /\ pc = "taking" /\ outcome[call] = "value" /\ call = 0
    /\ \E n \in Calls : found' = n /\ TryNext(n)
    /\ UNCHANGED <<now, thread, sharedVars, socketVars, raced>>

\* The socket of the connect is the caller's; http has no handshake.
TakeSocket ==
    /\ pc = "taking" /\ outcome[call] = "value" /\ call \in Connects
    /\ pc' \in {"handshake", "send"}
    /\ phase' = pc' /\ amount' = 0
    /\ UNCHANGED <<now, call, found, result, thread, sharedVars, socketVars, raced>>

-----------------------------------------------------------------------------
(* The caller on its socket. *)

\* The socket would block; reading waits before every recv, once the header
\* is not too long.
Block ==
    /\ pc \in Phases
    /\ pc = "read" => amount < MaxChunks
    /\ ~Late
    /\ pc' = "select"
    /\ UNCHANGED <<now, call, found, phase, amount, result, thread, sharedVars,
                   socketVars, raced>>

\* One call on the socket after it was ready, or without waiting.
Progress ==
    /\ pc \in {"handshake", "send", "select"}
    /\ CASE phase = "handshake" -> pc' = "send" /\ phase' = "send" /\ amount' = 0
         [] phase = "send" /\ amount + 1 < Parts ->
                pc' = "send" /\ amount' = amount + 1 /\ UNCHANGED phase
         [] phase = "send" /\ amount + 1 >= Parts ->
                pc' = "read" /\ phase' = "read" /\ amount' = 0
         [] phase = "read" -> pc' = "read" /\ amount' = amount + 1 /\ UNCHANGED phase
    /\ UNCHANGED <<now, call, found, result, thread, sharedVars, socketVars, raced>>

\* select returned, and the call on the socket would block again.
Retry == /\ pc = "select"
         /\ pc' = phase
         /\ UNCHANGED <<now, call, found, phase, amount, result, thread, sharedVars,
                        socketVars, raced>>

\* The end of the header was in the last chunk, and its status line parses.
Answered ==
    /\ pc = "read" /\ amount > 0
    /\ Close(call)
    /\ Raise("status")
    /\ UNCHANGED <<now, thread, sharedVars, raced>>

\* The deadline is over before select or in it.
SelectTimesOut ==
    /\ pc \in Phases \cup {"select"} /\ Late
    /\ pc = "read" => amount < MaxChunks
    /\ Close(call)
    /\ Raise("timeout")
    /\ UNCHANGED <<now, thread, sharedVars, raced>>

\* The peer hangs up, the handshake is refused, the header is too long or no
\* status line (OSError); before anything was sent, the request does not
\* encode ("broken").
Fail ==
    /\ pc \in Phases \cup {"select"}
    /\ pc = "read" => amount > 0
    /\ Close(call)
    /\ \E how \in {"failed", "broken"} :
         /\ how = "broken" => pc \in {"handshake", "send"} /\ amount = 0
         /\ Raise(how)
    /\ UNCHANGED <<now, thread, sharedVars, raced>>

-----------------------------------------------------------------------------
Tick == /\ pc # "idle" /\ now < MaxTime
        /\ now' = now + 1
        /\ UNCHANGED <<callerVars, thread, sharedVars, socketVars, raced>>

Over == pc = "over" /\ UNCHANGED transportVars

TransportInit ==
    /\ now = 0
    /\ pc = "idle" /\ call = 0 /\ found = 0
    /\ phase = "send" /\ amount = 0 /\ result = "none"
    /\ thread = [k \in Calls |-> "none"]
    /\ outcome = [k \in Calls |-> "none"]
    /\ completed = [k \in Calls |-> FALSE]
    /\ abandoned = [k \in Calls |-> FALSE]
    /\ open = {}
    /\ closed = [k \in Connects |-> 0]
    /\ raced = {}

Caller == \/ Start \/ EnterWait \/ Completed \/ TimesOut \/ Abandon \/ Check
          \/ TakeError \/ TakeAddresses \/ TakeSocket
          \/ Block \/ Progress \/ Retry \/ Answered \/ SelectTimesOut \/ Fail

TransportNext == BeginAttempt \/ Caller \/ (\E k \in Calls : Worker(k)) \/ Tick \/ Over

TransportSpec == TransportInit /\ [][TransportNext]_transportVars

\* The caller is scheduled and time passes.  No fairness for the threads: a
\* resolver may take for ever.
TransportFairSpec == TransportSpec /\ WF_transportVars(Caller) /\ WF_transportVars(Tick)
-----------------------------------------------------------------------------
(* Properties *)

TransportTypeOK ==
    /\ now \in 0 .. MaxTime
    /\ pc \in {"idle", "start", "started", "waiting", "abandoning", "checking",
               "taking", "select", "over"} \cup Phases
    /\ call \in Calls /\ found \in Calls
    /\ phase \in Phases
    /\ amount \in Nat
    /\ result \in {"none", "status", "failed", "timeout", "broken"}
    /\ thread \in [Calls -> {"none", "begun", "operating", "returned", "storing",
                             "closing", "completing", "gone"}]
    /\ outcome \in [Calls -> {"none", "value", "failed", "timeout"}]
    /\ completed \in [Calls -> BOOLEAN]
    /\ abandoned \in [Calls -> BOOLEAN]
    /\ open \subseteq Connects
    /\ closed \in [Connects -> Nat]
    /\ raced \subseteq Connects

OnSocket == pc \in Phases \cup {"select"}
Running(k) == thread[k] \notin {"none", "gone"}

\* A socket is closed once at most, and never while the caller is at work on it:
\* the socket the caller sends on is open, and its thread will not touch it
\* again.  And every open socket has somebody who closes it or may still take it,
\* the caller that is not done or the thread that has yet to see, or has seen,
\* that nobody waits; but for the connects of the race `raced`.
SocketOwned ==
    /\ \A k \in Connects : closed[k] <= 1 /\ (closed[k] = 1 => k \notin open)
    /\ OnSocket => call \in open /\ ~Running(call) /\ ~abandoned[call]
    /\ \A k \in open : \/ k = call /\ pc # "over"
                       \/ abandoned[k] /\ thread[k] \in {"returned", "closing"}
                       \/ k \in raced

\* The race that the two events do not settle: a caller that times out before it
\* begins to wait says nothing to its thread, and one that gives up after the
\* thread looked and before the value shows sees nothing to close.  It costs an
\* attempt one socket at most, the one of its last connect, and no other end of
\* an attempt than the timeout costs any.
OneSocketLost == raced # {} => raced = {call} /\ pc = "over" /\ result = "timeout"

\* The addresses of a host are tried one after the other: no thread is started
\* while another one of the attempt, given up on or not, is still running, so a
\* slow host costs a delivery one stuck thread and not one per address.
OneThreadAtATime ==
    \A j, k \in Calls : Running(j) /\ Running(k) => j = k

\* What an attempt may leave behind, however the caller's timeout and the end of
\* the worker's connect interleave, is its last thread, for as long as the
\* resolver or the connect takes, and one open socket after the race of
\* OneSocketLost, which only the garbage collector closes.  Nothing else.
LeavesOneBehind == SocketOwned /\ OneSocketLost /\ OneThreadAtATime

\* However long the resolver or a connect hangs, an attempt gets its answer or
\* its error ("Return promptly if an uninterruptible resolver/connect call
\* outlives the deadline.", _run_with_deadline).
CallerReturns == pc = "start" ~> pc = "over"

(***************************************************************************)
(* The inductive strengthening of the three invariants.  A thread hands    *)
(* over its socket with "value" and does not touch it again; the caller    *)
(* closes it only after it saw that, and the thread only after it saw that *)
(* the caller gave up.                                                     *)
(***************************************************************************)

\* The calls before the present one are over, and those after it not begun.
CallInv ==
    /\ \A k \in Calls :
         /\ k < call => thread[k] = "gone"
         /\ k > call => thread[k] = "none"
         /\ completed[k] <=> thread[k] = "gone"
         /\ k \in Connects /\ k < call => outcome[k] = "failed"
    /\ pc \in {"idle", "start"} <=> thread[call] = "none"
    /\ pc = "idle" => call = 0
    /\ pc = "taking" => thread[call] = "gone"
    /\ OnSocket =>
         thread[call] = "gone" /\ call \in Connects /\ outcome[call] = "value"

\* Only a caller that is giving up, or has given up, says so.
AbandonInv ==
    \A k \in Calls :
        /\ abandoned[k] => k = call /\ pc \in {"checking", "over"}
        /\ thread[k] = "closing" => abandoned[k] /\ k \in Connects
        /\ k = call /\ pc = "checking" => abandoned[k]

\* What became of the socket of a connect, by the place of its thread.
SocketStands(k) ==
    /\ thread[k] \in {"none", "begun", "operating"} =>
         outcome[k] = "none" /\ k \notin open /\ closed[k] = 0
    /\ thread[k] \in {"returned", "storing", "closing"} =>
         outcome[k] = "none" /\ k \in open /\ closed[k] = 0
    /\ thread[k] \in {"completing", "gone"} =>
         CASE outcome[k] = "none" -> k \notin open /\ closed[k] = 1
           [] outcome[k] = "value" -> closed[k] = IF k \in open THEN 0 ELSE 1
           [] OTHER -> k \notin open /\ closed[k] = 0
    /\ outcome[k] = "value" /\ (thread[k] = "gone" => k = call /\ pc # "over") =>
         k \in open

SocketInv == \A k \in Connects : SocketStands(k)

\* What the caller leaves behind.
OverInv ==
    pc = "over" /\ call \in Connects /\ call \notin raced =>
        \/ abandoned[call] /\ thread[call] \in {"begun", "operating", "returned", "closing"}
        \/ thread[call] \in {"completing", "gone"} /\ call \notin open

TransportIInv == /\ TransportTypeOK /\ CallInv /\ AbandonInv /\ SocketInv /\ OverInv
                 /\ OneSocketLost
=============================================================================
