--------------------------- MODULE ProcessLifecycle ---------------------------
(***************************************************************************)
(* server.ts and config/database.ts: one process from its start to its     *)
(* exit.  Importing the repositories starts the initialization of the      *)
(* database; startServer loads secrets meanwhile, waits for the database   *)
(* and listens; signals and uncaught errors shut the process down.         *)
(*                                                                         *)
(* A step is what runs between two turns of the event loop: listeners of   *)
(* one signal run one after the other, in the order they were registered   *)
(* (database.ts before server.ts), and promise reactions after them.       *)
(***************************************************************************)
EXTENDS Naturals

CONSTANTS
    Requests,   \* HTTP requests (connections) that may arrive
    Attempts    \* DB_RETRY_ATTEMPTS, 3 by default

ASSUME AttemptsAssumption == Attempts \in Nat \ {0}

VARIABLES
    main,       \* where startServer stands
    init,       \* where the initialization of the database stands
    attempt,    \* its attempt
    source,     \* Database.dataSource, the object of the last attempt
    closers,    \* who awaits the end of dataSource.destroy()
    server,     \* the HTTP server
    timer,      \* whether a 10 s timer of gracefulShutdown is pending
    req,        \* the requests
    asked,      \* what has asked the process to stop
    exit        \* "running", or the exit status

vars == <<main, init, attempt, source, closers, server, timer, req, asked, exit>>
database == <<init, attempt, source>>
http == <<server, timer>>

\* What DataSource.isInitialized says: false only once destroy() has succeeded.
Initialized == source \in {"ready", "closing"}
Open == {r \in Requests : req[r] = "open"}
Signals == {"SIGTERM", "SIGINT"}

Init ==
    /\ main = "secrets"
    /\ init = "config" /\ attempt = 1
    /\ source = "none" /\ closers = {}
    /\ server = "none" /\ timer = FALSE
    /\ req = [r \in Requests |-> "new"]
    /\ asked = {}
    /\ exit = "running"

-----------------------------------------------------------------------------
(* Shutting down.                                                          *)

\* Variants for mutation: exit without waiting for the server; no timer.
ShutdownAtOnce ==
    exit' = (IF server = "none" THEN "failure" ELSE "success") /\ UNCHANGED http
ShutdownWithoutTimer ==
    IF server = "none"
      THEN exit' = "failure" /\ UNCHANGED http
      ELSE server' = "closing" /\ UNCHANGED <<timer, exit>>

\* gracefulShutdown({ exit: true }) of server.ts.  On a server that is closing
\* or closed, server.close queues its callback again.
Shutdown ==
    IF server = "none"
      THEN exit' = "failure" /\ UNCHANGED http
      ELSE server' = "closing" /\ timer' = TRUE /\ UNCHANGED exit

\* databaseInstance.close() by c; destroying twice is an error of the pool.
CloseSource(c) ==
    IF source = "ready"
      THEN source' = "closing" /\ closers' = closers \cup {c}
      ELSE UNCHANGED <<source, closers>>

\* Both listeners run: with no server to drain, that of server.ts exits first.
\* Otherwise that of database.ts exits as soon as its close() is over.
Sigterm ==
    /\ asked' = asked \cup {"SIGTERM"}
    /\ CASE server = "none" -> exit' = "failure" /\ UNCHANGED <<http, source, closers>>
         [] server # "none" /\ ~Initialized ->
              exit' = "success" /\ UNCHANGED <<http, source, closers>>
         [] server # "none" /\ Initialized -> Shutdown /\ CloseSource("database")
    /\ UNCHANGED <<main, init, attempt, req>>

\* Only database.ts listens.  A close() that fails is an unhandled rejection.
Sigint ==
    /\ CASE ~Initialized ->
              /\ exit' = "success" /\ asked' = asked \cup {"SIGINT"}
              /\ UNCHANGED <<http, source, closers>>
         [] source = "ready" ->
              /\ CloseSource("database") /\ asked' = asked \cup {"SIGINT"}
              /\ UNCHANGED <<http, exit>>
         [] source = "closing" ->
              /\ Shutdown /\ asked' = asked \cup {"SIGINT", "error"}
              /\ UNCHANGED <<source, closers>>
    /\ UNCHANGED <<main, init, attempt, req>>

\* An uncaught exception or an unhandled rejection, a failed listen() included.
Uncaught ==
    /\ asked' = asked \cup {"error"}
    /\ Shutdown
    /\ UNCHANGED <<main, database, closers, req>>

\* The callback of server.close.
Drained ==
    /\ server = "closing" /\ Open = {}
    /\ server' = "drained" /\ timer' = FALSE
    /\ IF source = "ready"
         THEN CloseSource("server") /\ UNCHANGED exit
         ELSE exit' = "success" /\ UNCHANGED <<source, closers>>
    /\ UNCHANGED <<main, init, attempt, req, asked>>

TimerFires ==
    /\ timer
    /\ exit' = "failure"
    /\ UNCHANGED <<main, database, closers, http, req, asked>>

\* destroy() is over: both who await it exit with status 0.
Destroyed(c) ==
    /\ c \in closers
    /\ exit' = "success"
    /\ UNCHANGED <<main, database, closers, http, req, asked>>

\* destroy() fails: server.ts logs it and exits; database.ts has no catch.
DestroyFails(c) ==
    /\ c \in closers
    /\ IF c = "server"
         THEN exit' = "success" /\ UNCHANGED <<http, asked, source, closers>>
         ELSE /\ closers' = closers \ {c}
              /\ source' = IF source = "closing" THEN "ready" ELSE source
              /\ Shutdown /\ asked' = asked \cup {"error"}
    /\ UNCHANGED <<main, init, attempt, req>>

-----------------------------------------------------------------------------
(* Starting.                                                               *)

Listen == server' = "open" /\ main' = "up" /\ UNCHANGED timer

\* Variants for mutation: one attempt too many; the last error is dropped.
OneAttemptMore ==
    IF attempt <= Attempts
      THEN init' = "delay" /\ UNCHANGED <<http, exit, asked>>
      ELSE init' = "rejected" /\ Shutdown /\ asked' = asked \cup {"error"}
LastErrorDropped ==
    /\ init' = IF attempt < Attempts THEN "delay" ELSE "rejected"
    /\ UNCHANGED <<http, exit, asked>>

\* The attempt fails: it is repeated after a delay, or else initializationPromise
\* is rejected; startServer exits if it waits for it, and the constructors of the
\* repositories leave the rejection unhandled.
AttemptFails ==
    IF attempt < Attempts
      THEN init' = "delay" /\ UNCHANGED <<http, exit, asked>>
      ELSE init' = "rejected" /\ Shutdown /\ asked' = asked \cup {"error"}

Delay ==
    /\ init = "delay"
    /\ init' = "config" /\ attempt' = attempt + 1
    /\ UNCHANGED <<main, source, closers, http, req, asked, exit>>

\* getDatabaseConfig reads directories; then dataSource is a new object.
ReadConfig ==
    /\ init = "config"
    /\ \/ init' = "connect" /\ source' = "connecting" /\ UNCHANGED <<http, exit, asked>>
       \/ AttemptFails /\ UNCHANGED source
    /\ UNCHANGED <<main, attempt, closers, req>>

Connect ==
    /\ init = "connect"
    /\ \/ init' = "migrate" /\ source' = "ready" /\ UNCHANGED <<http, exit, asked>>
       \/ AttemptFails /\ source' = "none"
    /\ UNCHANGED <<main, attempt, closers, req>>

\* A data source whose migrations fail stays open.
Migrate ==
    /\ init = "migrate"
    /\ \/ /\ init' = "resolved"
          /\ IF main = "awaiting" THEN Listen ELSE UNCHANGED <<main, http>>
          /\ UNCHANGED <<exit, asked>>
       \/ AttemptFails /\ UNCHANGED main
    /\ UNCHANGED <<attempt, source, closers, req>>

\* A variant for mutation: initialize() returns any data source there is.
HasSource == source # "none"

\* The early return of initialize(); migrations may still be running.
HasReadySource == Initialized

\* initializeSecrets (it exits when it fails) and the call of initialize().
LoadSecrets ==
    /\ main = "secrets"
    /\ \/ /\ IF HasReadySource THEN Listen ELSE main' = "awaiting" /\ UNCHANGED http
          /\ UNCHANGED exit
       \/ exit' = "failure" /\ UNCHANGED <<main, http>>
    /\ UNCHANGED <<database, closers, req, asked>>

-----------------------------------------------------------------------------
(* Requests.                                                               *)

Arrive(r) ==
    /\ server = "open" /\ req[r] = "new"
    /\ req' = [req EXCEPT ![r] = "open"]
    /\ UNCHANGED <<main, database, closers, http, asked, exit>>

\* The request is answered, the client hangs up, or server.timeout closes the
\* connection.
Finish(r) ==
    /\ req[r] = "open"
    /\ req' = [req EXCEPT ![r] = "closed"]
    /\ UNCHANGED <<main, database, closers, http, asked, exit>>

Initialize == Delay \/ ReadConfig \/ Connect \/ Migrate
Destroy == \E c \in closers : Destroyed(c) \/ DestroyFails(c)

Step ==
    \/ LoadSecrets \/ Initialize
    \/ Sigterm \/ Sigint \/ Uncaught
    \/ Drained \/ TimerFires \/ Destroy
    \/ \E r \in Requests : Arrive(r) \/ Finish(r)

Next == exit = "running" /\ Step

\* Secrets, connections, migrations and destroy() end or fail (timeouts of
\* their drivers), timers fire, close callbacks run.  A request may hang.
Fairness ==
    /\ WF_vars(exit = "running" /\ LoadSecrets)
    /\ WF_vars(exit = "running" /\ Initialize)
    /\ WF_vars(exit = "running" /\ Drained)
    /\ WF_vars(exit = "running" /\ TimerFires)
    /\ WF_vars(exit = "running" /\ Destroy)

Spec == Init /\ [][Next]_vars /\ Fairness

-----------------------------------------------------------------------------
(* Properties.                                                             *)

TypeOK ==
    /\ main \in {"secrets", "awaiting", "up"}
    /\ init \in {"config", "connect", "migrate", "delay", "resolved", "rejected"}
    /\ attempt \in 1..Attempts
    /\ source \in {"none", "connecting", "ready", "closing"}
    /\ closers \subseteq {"database", "server"}
    /\ server \in {"none", "open", "closing", "drained"}
    /\ timer \in BOOLEAN
    /\ req \in [Requests -> {"new", "open", "closed"}]
    /\ asked \subseteq Signals \cup {"error"}
    /\ exit \in {"running", "success", "failure"}

\* Once a signal, an uncaught error or a failed start has asked for it, the
\* process exits: whatever connections hang, however destroy() fails, and
\* wherever the start was.
StopsWhenAsked == asked # {} ~> exit # "running"

\* A start comes to an end: the process listens or exits.
StartSettles == <>(server # "none" \/ exit # "running")

\* The server opens its port only on a data source that is initialized, through
\* any overlap of secrets, attempts, failed migrations and shutdown.
ListensOnDatabase == [][server = "none" /\ server' = "open" => Initialized]_vars

\* "Graceful shutdown logic" (server.ts:18): a process no signal has reached,
\* shut down by errors, exits with status 0 only when no connection is open.
ErrorsDrain == exit = "success" /\ asked \cap Signals = {} => Open = {}

\* "Handle SIGTERM for graceful shutdown" (server.ts:119): so does one that
\* received SIGTERM.
SigtermDrains == exit = "success" /\ "SIGINT" \notin asked => Open = {}

=============================================================================
