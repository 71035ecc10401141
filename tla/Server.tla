------------------------------- MODULE Server -------------------------------
(***************************************************************************)
(* The monitor process: `serve` of __main__.py, create_server of           *)
(* server.py, and the threads of its ThreadingHTTPServer.  One loop        *)
(* accepts connections; every connection has a daemon thread, which waits  *)
(* for a request that may never be complete, calls the store under one     *)
(* lock and answers.  Nobody waits for those threads when the process      *)
(* stops: main closes the store without the lock, and they end where they  *)
(* are.  What a store call does is the business of MonitorStore; here it   *)
(* is a transaction that commits or does not.                              *)
(***************************************************************************)
EXTENDS Naturals, Sequences, FiniteSets

CONSTANTS
    Connections,    \* connections clients make, and make again when they break
    Asks,           \* [Connections -> what the client sends]
    Nobody,         \* no holder of the lock
    MaxLaunches,    \* bound: how often the process is started
    MaxFaults       \* bound: store calls that fail

\* "event" is POST /v1/events, "history", "dashboard" and "health" the GET
\* requests for the store; "other" is answered without it: the static files,
\* and what is refused (401, 404, 405, 411, 413, 422 ...).  "silence" never is
\* a whole request, nor a TLS handshake.
Requests == {"event", "history", "dashboard", "health", "other", "silence"}

ASSUME ServerAssumption ==
    /\ Asks \in [Connections -> Requests]
    /\ Nobody \notin Connections
    /\ MaxLaunches \in Nat /\ MaxFaults \in Nat

\* The arguments of `serve`, and whether its port is free.
Setups == [token : {"none", "empty", "given"},
           tls : {"off", "half", "unreadable", "on"}, port : {"free", "taken"}]

VARIABLES
    proc,       \* where main is
    setup,      \* the arguments of this launch
    code,       \* the exit code of the last one
    database,   \* the database file exists
    opened,     \* the store's connection is open
    backlog,    \* connections that wait to be accepted
    stage,      \* [connection -> where it, or its thread, is]
    lock,       \* the holder of store_lock
    stored,     \* events committed
    answer,     \* [connection -> status sent, 0 before]
    launches, faults

mainVars == <<proc, setup, code, database, launches>>
threadVars == <<backlog, stage, lock, stored, answer>>
serverVars == <<mainVars, opened, threadVars, faults>>

Serving == proc = "serving"
Alive == proc \in {"serving", "interrupted", "unbound", "closed"}

To(c, s) == stage' = [stage EXCEPT ![c] = s]

-----------------------------------------------------------------------------
(* main: serve *)

Exit(status) == proc' = "down" /\ code' = status /\ opened' = FALSE

Launch(s) ==
    /\ proc = "down" /\ launches < MaxLaunches
    /\ launches' = launches + 1
    /\ setup' = s /\ proc' = "parsed"
    /\ UNCHANGED <<code, database, opened, threadVars, faults>>

\* Mutant of CheckArguments: the pairing is left to create_server.
CheckArgumentsTokenOnly ==
    /\ proc = "parsed"
    /\ IF setup.token = "none"
       THEN Exit(2)
       ELSE proc' = "checked" /\ UNCHANGED <<code, opened>>
    /\ UNCHANGED <<setup, database, launches, threadVars, faults>>

\* No token, no readable token file, or half a TLS configuration.
CheckArguments ==
    /\ proc = "parsed"
    /\ IF setup.token = "none" \/ setup.tls = "half"
       THEN Exit(2)
       ELSE proc' = "checked" /\ UNCHANGED <<code, opened>>
    /\ UNCHANGED <<setup, database, launches, threadVars, faults>>

\* Store.__init__: connects, creates and migrates the tables.
OpenStore ==
    /\ proc = "checked"
    /\ proc' = "open" /\ database' = TRUE /\ opened' = TRUE
    /\ UNCHANGED <<setup, code, launches, threadVars, faults>>

\* Mutant of CreateServer: blank paths are falsy, and mean no TLS.
CreateServerBlankIsOff ==
    /\ proc = "open"
    /\ IF setup.token = "empty" \/ setup.port = "taken" THEN Exit(1)
       ELSE proc' = "serving" /\ UNCHANGED <<code, opened>>
    /\ UNCHANGED <<setup, database, launches, threadVars, faults>>

\* create_server: an empty token is a ValueError, a taken port an OSError, and
\* nothing catches them.
CreateServer ==
    /\ proc = "open"
    /\ CASE setup.token = "empty" -> Exit(1)
         [] setup.token # "empty" /\ setup.tls \in {"half", "unreadable"} -> Exit(2)
         [] setup.token # "empty" /\ setup.tls \in {"off", "on"}
              /\ setup.port = "taken" -> Exit(1)
         [] OTHER -> proc' = "serving" /\ UNCHANGED <<code, opened>>
    /\ UNCHANGED <<setup, database, launches, threadVars, faults>>

\* KeyboardInterrupt ends serve_forever.
Interrupt ==
    /\ Serving /\ proc' = "interrupted"
    /\ UNCHANGED <<setup, code, database, launches, opened, threadVars, faults>>

\* server_close; the threads are daemons, so it joins none of them.
CloseServer ==
    /\ proc = "interrupted" /\ proc' = "unbound"
    /\ stage' = [c \in Connections |-> IF stage[c] = "queued" THEN "broken" ELSE stage[c]]
    /\ backlog' = <<>>
    /\ UNCHANGED <<setup, code, database, launches, opened, lock, stored, answer, faults>>

\* store.close, without the lock.
CloseStore ==
    /\ proc = "unbound" /\ proc' = "closed"
    /\ opened' = FALSE
    /\ UNCHANGED <<setup, code, database, launches, threadVars, faults>>

\* The threads end with the process, wherever they are.
End(status) ==
    /\ Exit(status)
    /\ backlog' = <<>> /\ lock' = Nobody
    /\ stage' = [c \in Connections |-> IF stage[c] \in {"away", "done"} THEN stage[c]
                                                                   ELSE "broken"]
    /\ UNCHANGED <<setup, database, launches, stored, answer, faults>>

Return == proc = "closed" /\ End(0)
Kill == proc # "down" /\ End(1)

Main == \/ \E s \in Setups : Launch(s)
        \/ CheckArguments \/ OpenStore \/ CreateServer
        \/ Interrupt \/ CloseServer \/ CloseStore \/ Return \/ Kill

-----------------------------------------------------------------------------
(* Clients, and the accept loop. *)

Connect(c) ==
    /\ proc \in {"serving", "interrupted"}
    /\ stage[c] = "away"
    /\ To(c, "queued") /\ backlog' = Append(backlog, c)
    /\ UNCHANGED <<mainVars, opened, lock, stored, answer, faults>>

\* A client without an answer tries again.
TryAgain(c) ==
    /\ stage[c] = "broken"
    /\ To(c, "away")
    /\ UNCHANGED <<mainVars, opened, backlog, lock, stored, answer, faults>>

\* Mutant of AcceptConnection: the TLS handshake is part of it.
AcceptHandshakes ==
    /\ Serving /\ backlog # <<>>
    /\ Asks[Head(backlog)] # "silence"
    /\ To(Head(backlog), "reading") /\ backlog' = Tail(backlog)
    /\ UNCHANGED <<mainVars, opened, lock, stored, answer, faults>>

\* A thread is started; the handshake is left to its first read.
AcceptConnection ==
    /\ Serving /\ backlog # <<>>
    /\ To(Head(backlog), "reading") /\ backlog' = Tail(backlog)
    /\ UNCHANGED <<mainVars, opened, lock, stored, answer, faults>>

-----------------------------------------------------------------------------
(* The thread of a connection. *)

\* The request is there: store calls need the lock.
Read(c) ==
    /\ Alive /\ stage[c] = "reading" /\ Asks[c] # "silence"
    /\ IF Asks[c] = "other"
       THEN To(c, "done") /\ answer' = [answer EXCEPT ![c] = 200]
       ELSE To(c, "locking") /\ UNCHANGED answer
    /\ UNCHANGED <<mainVars, opened, backlog, lock, stored, faults>>

\* REQUEST_READ_TIMEOUT_SECONDS: the connection is closed, with a 408 if the
\* header was complete.
ReadTimesOut(c) ==
    /\ Alive /\ stage[c] = "reading" /\ Asks[c] = "silence"
    /\ To(c, "broken")
    /\ UNCHANGED <<mainVars, opened, backlog, lock, stored, answer, faults>>

\* Mutant of Lock: it keeps nobody out.
LockNot(c) ==
    /\ Alive /\ stage[c] = "locking"
    /\ lock' = c /\ To(c, "inside")
    /\ UNCHANGED <<mainVars, opened, backlog, stored, answer, faults>>

Lock(c) ==
    /\ Alive /\ stage[c] = "locking" /\ lock = Nobody
    /\ lock' = c /\ To(c, "inside")
    /\ UNCHANGED <<mainVars, opened, backlog, stored, answer, faults>>

\* Mutant of Call: nothing waits for the commit.
CallUncommitted(c) ==
    /\ Alive /\ stage[c] = "inside"
    /\ stored' = IF Asks[c] = "event" /\ opened THEN stored \cup {c} ELSE stored
    /\ lock' = Nobody /\ To(c, "answering")
    /\ UNCHANGED <<mainVars, opened, backlog, answer, faults>>

\* The call succeeds: a commit, for an event.  health reads no table.
Call(c) ==
    /\ Alive /\ stage[c] = "inside"
    /\ opened \/ Asks[c] = "health"
    /\ stored' = IF Asks[c] = "event" THEN stored \cup {c} ELSE stored
    /\ lock' = Nobody /\ To(c, "answering")
    /\ UNCHANGED <<mainVars, opened, backlog, answer, faults>>

\* Mutant of CallFails: the lock is kept.
CallFailsLocked(c) ==
    /\ Alive /\ stage[c] = "inside" /\ Asks[c] # "health"
    /\ IF opened THEN faults < MaxFaults /\ faults' = faults + 1 ELSE UNCHANGED faults
    /\ IF Asks[c] = "dashboard"
       THEN To(c, "done") /\ answer' = [answer EXCEPT ![c] = 500]
       ELSE To(c, "broken") /\ UNCHANGED answer
    /\ UNCHANGED <<mainVars, opened, backlog, lock, stored>>

\* It raises: rolled back, unlocked; only the dashboard answers, and the thread
\* of another request ends (http_connection_error).
CallFails(c) ==
    /\ Alive /\ stage[c] = "inside" /\ Asks[c] # "health"
    /\ IF opened THEN faults < MaxFaults /\ faults' = faults + 1 ELSE UNCHANGED faults
    /\ lock' = Nobody
    /\ IF Asks[c] = "dashboard"
       THEN To(c, "done") /\ answer' = [answer EXCEPT ![c] = 500]
       ELSE To(c, "broken") /\ UNCHANGED answer
    /\ UNCHANGED <<mainVars, opened, backlog, stored>>

\* Mutant of Reply: an event is answered as a conflict.
ReplyConflict(c) ==
    /\ Alive /\ stage[c] = "answering"
    /\ To(c, "done")
    /\ answer' = [answer EXCEPT ![c] = IF Asks[c] = "event" THEN 409 ELSE 200]
    /\ UNCHANGED <<mainVars, opened, backlog, lock, stored, faults>>

\* The answer is sent; a client that is gone is no matter.
Reply(c) ==
    /\ Alive /\ stage[c] = "answering"
    /\ To(c, "done")
    /\ answer' = [answer EXCEPT ![c] = IF Asks[c] = "event" THEN 202 ELSE 200]
    /\ UNCHANGED <<mainVars, opened, backlog, lock, stored, faults>>

Thread(c) == Read(c) \/ ReadTimesOut(c) \/ Lock(c) \/ Call(c) \/ CallFails(c) \/ Reply(c)

-----------------------------------------------------------------------------
ServerInit ==
    /\ proc = "down" /\ code = 0
    /\ setup = [token |-> "none", tls |-> "off", port |-> "free"]
    /\ database = FALSE /\ opened = FALSE
    /\ backlog = <<>> /\ stage = [c \in Connections |-> "away"]
    /\ lock = Nobody /\ stored = {} /\ answer = [c \in Connections |-> 0]
    /\ launches = 0 /\ faults = 0

ServerNext ==
    \/ Main
    \/ AcceptConnection
    \/ \E c \in Connections : Connect(c) \/ TryAgain(c) \/ Thread(c)

ServerSpec == ServerInit /\ [][ServerNext]_serverVars

(***************************************************************************)
(* Fairness: main and the accept loop go on, a thread with a request goes  *)
(* on, and one that can take the lock again and again takes it some time.  *)
(* A silent client may send a byte before every timeout, for ever.         *)
(***************************************************************************)
Speaking == {c \in Connections : Asks[c] # "silence"}

MainGoesOn ==
    CheckArguments \/ OpenStore \/ CreateServer \/ CloseServer \/ CloseStore \/ Return
ThreadGoesOn(c) == Read(c) \/ Call(c) \/ CallFails(c) \/ Reply(c)

ServerFairness ==
    /\ WF_serverVars(AcceptConnection) /\ WF_serverVars(MainGoesOn)
    /\ \A c \in Speaking : WF_serverVars(ThreadGoesOn(c)) /\ SF_serverVars(Lock(c))

ServerFairSpec == ServerSpec /\ ServerFairness

-----------------------------------------------------------------------------
(* Properties *)

ServerTypeOK ==
    /\ proc \in {"down", "parsed", "checked", "open", "serving", "interrupted",
                 "unbound", "closed"}
    /\ setup \in Setups /\ code \in 0 .. 2
    /\ database \in BOOLEAN /\ opened \in BOOLEAN
    /\ backlog \in Seq(Connections)
    /\ stage \in [Connections -> {"away", "queued", "reading", "locking", "inside",
                                  "answering", "done", "broken"}]
    /\ lock \in Connections \cup {Nobody}
    /\ stored \subseteq Connections
    /\ answer \in [Connections -> {0, 200, 202, 500}]
    /\ launches \in 0 .. MaxLaunches /\ faults \in 0 .. MaxFaults

\* "The monitor's HTTP server serializes Store calls with its own lock"
\* (Store.__init__): no two threads are in the store at once, and a thread that
\* left it, by an exception too, no longer holds the lock.
OneCallAtATime == \A c \in Connections : stage[c] = "inside" <=> lock = c

\* A sender that was told 202 may forget its event: it is stored, although the
\* process may be stopped while the thread is in the store, and the store
\* closed under it.
AnsweredIsStored == \A c \in Connections : answer[c] = 202 => c \in stored

\* A launch with a mistyped TLS pair "should fail without the side effect of
\* creating/migrating the SQLite database file" (__main__.py).
FailsBeforeTheDatabase ==
    [][database' # database => setup.tls # "half" /\ setup.token # "none"]_serverVars

\* "No partially-started server is left behind" (__main__.py): connections are
\* accepted only by a process that serves with the configuration it was given,
\* with its store open.
ServesAsConfigured ==
    Serving => /\ opened /\ database
               /\ setup.tls \in {"off", "on"} /\ setup.token = "given"

\* The store is used by one thread at a time and only as configured, and a 202
\* stands for a commit, also while main closes the store under its threads.
StoreSafe == OneCallAtATime /\ AnsweredIsStored /\ ServesAsConfigured

\* Clients that connect and say nothing keep no other one from its answer: every
\* whole request is answered, unless the process stops or its store call fails.
SilenceBlocksNobody ==
    \A c \in Speaking : stage[c] = "queued" ~> stage[c] \in {"done", "broken"}
=============================================================================
