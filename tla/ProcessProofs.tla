---------------------------- MODULE ProcessProofs ----------------------------
(***************************************************************************)
(* Proofs about ProcessLifecycle, for any requests and number of attempts. *)
(***************************************************************************)
EXTENDS ProcessLifecycle, TLAPS

\* A delay is always followed by another attempt, so one is left.
TypeInv == TypeOK /\ (init = "delay" => attempt < Attempts)

LEMMA NextKeepsTypeInv == TypeInv /\ [Next]_vars => TypeInv'
<1> SUFFICES ASSUME TypeInv, [Next]_vars PROVE TypeInv'
  OBVIOUS
<1> USE AttemptsAssumption DEF TypeInv
<1>1. CASE LoadSecrets
  BY <1>1 DEF TypeOK, LoadSecrets, Listen, database, http
<1>2. CASE Delay
  BY <1>2 DEF TypeOK, Delay, http
<1>3. CASE ReadConfig
  BY <1>3 DEF TypeOK, ReadConfig, AttemptFails, Shutdown, http
<1>4. CASE Connect
  BY <1>4 DEF TypeOK, Connect, AttemptFails, Shutdown, http
<1>5. CASE Migrate
  <2>1. CASE AttemptFails /\ UNCHANGED main
    BY <1>5, <2>1 DEF TypeOK, Migrate, AttemptFails, Shutdown, http
  <2>2. CASE init' = "resolved" /\ UNCHANGED <<exit, asked>>
    <3>1. /\ main' \in {"secrets", "awaiting", "up"}
          /\ server' \in {"none", "open", "closing", "drained"}
          /\ timer' = timer
      BY <1>5, <2>2 DEF TypeOK, Migrate, AttemptFails, Listen, http
    <3> QED BY <1>5, <2>2, <3>1 DEF TypeOK, Migrate
  <2> QED BY <1>5, <2>1, <2>2 DEF Migrate
<1>6. CASE Sigterm
  <2>1. asked' \subseteq Signals \cup {"error"}
    BY <1>6 DEF TypeOK, Sigterm, Signals
  <2>2. /\ source' \in {"none", "connecting", "ready", "closing"}
        /\ closers' \subseteq {"database", "server"}
    BY <1>6 DEF TypeOK, Sigterm, CloseSource
  <2>3. /\ server' \in {"none", "open", "closing", "drained"}
        /\ timer' \in BOOLEAN
        /\ exit' \in {"running", "success", "failure"}
    BY <1>6 DEF TypeOK, Sigterm, Shutdown, http
  <2> QED BY <1>6, <2>1, <2>2, <2>3 DEF TypeOK, Sigterm
<1>7. CASE Sigint
  <2>1. asked' = asked \cup {"SIGINT"} \/ asked' = asked \cup {"SIGINT", "error"}
    BY <1>7 DEF Sigint, TypeOK, Initialized
  <2>2. asked' \subseteq Signals \cup {"error"}
    BY <2>1 DEF TypeOK, Signals
  <2>3. /\ source' \in {"none", "connecting", "ready", "closing"}
        /\ closers' \subseteq {"database", "server"}
    BY <1>7 DEF TypeOK, Sigint, Initialized, CloseSource
  <2>4. /\ server' \in {"none", "open", "closing", "drained"}
        /\ timer' \in BOOLEAN
        /\ exit' \in {"running", "success", "failure"}
    BY <1>7 DEF TypeOK, Sigint, Initialized, Shutdown, http
  <2> QED BY <1>7, <2>2, <2>3, <2>4 DEF TypeOK, Sigint
<1>8. CASE Uncaught
  <2>1. asked' \subseteq Signals \cup {"error"}
    BY <1>8 DEF TypeOK, Uncaught
  <2>2. /\ server' \in {"none", "open", "closing", "drained"}
        /\ timer' \in BOOLEAN
        /\ exit' \in {"running", "success", "failure"}
    BY <1>8 DEF TypeOK, Uncaught, Shutdown, http
  <2> QED BY <1>8, <2>1, <2>2 DEF TypeOK, Uncaught, database
<1>9. CASE Drained
  BY <1>9 DEF TypeOK, Drained, CloseSource
<1>10. CASE TimerFires
  BY <1>10 DEF TypeOK, TimerFires, database, http
<1>11. ASSUME NEW c \in closers, Destroyed(c) \/ DestroyFails(c)
       PROVE  TypeInv'
  <2>1. CASE Destroyed(c)
    BY <2>1 DEF TypeOK, Destroyed, database, http
  <2>2. CASE DestroyFails(c)
    <3>1. /\ source' \in {"none", "connecting", "ready", "closing"}
          /\ closers' \subseteq {"database", "server"}
          /\ asked' \subseteq Signals \cup {"error"}
      BY <2>2 DEF TypeOK, DestroyFails
    <3>2. /\ server' \in {"none", "open", "closing", "drained"}
          /\ timer' \in BOOLEAN
          /\ exit' \in {"running", "success", "failure"}
      BY <2>2 DEF TypeOK, DestroyFails, Shutdown, http
    <3> QED BY <2>2, <3>1, <3>2 DEF TypeOK, DestroyFails
  <2> QED BY <1>11, <2>1, <2>2
<1>12. ASSUME NEW r \in Requests, Arrive(r) \/ Finish(r)
       PROVE  TypeInv'
  <2>1. req' \in [Requests -> {"new", "open", "closed"}]
    BY <1>12 DEF TypeOK, Arrive, Finish
  <2>2. UNCHANGED <<main, init, attempt, source, closers, server, timer, asked, exit>>
    BY <1>12 DEF Arrive, Finish, database, http
  <2> QED BY <2>1, <2>2 DEF TypeOK, Signals
<1>13. CASE UNCHANGED vars
  BY <1>13 DEF TypeOK, vars, Signals
<1> QED BY <1>1, <1>2, <1>3, <1>4, <1>5, <1>6, <1>7, <1>8, <1>9, <1>10, <1>11, <1>12, <1>13
        DEF Next, Step, Initialize, Destroy

LEMMA InitTypeInv == Init => TypeInv
<1>1. 1 \in 1..Attempts
  BY AttemptsAssumption
<1> QED BY <1>1 DEF Init, TypeInv, TypeOK

\* Every state of a process is well typed; in particular the initialization never
\* goes beyond its last attempt.
THEOREM TypeCorrect == Spec => []TypeOK
<1>1. TypeInv => TypeOK
  BY DEF TypeInv
<1> QED BY <1>1, InitTypeInv, NextKeepsTypeInv, PTL DEF Spec

-----------------------------------------------------------------------------
(* Listening.  Migrations run on a data source that is initialized, and    *)
(* startServer is past its call of listen() exactly when there is a server.*)

ListenInv ==
    /\ TypeInv
    /\ init = "migrate" => Initialized
    /\ server # "none" <=> main = "up"

LEMMA NextListenInv == ListenInv /\ [Next]_vars => ListenInv'
<1> SUFFICES ASSUME ListenInv, [Next]_vars PROVE ListenInv'
  OBVIOUS
<1> USE DEF ListenInv, Initialized
<1>0. TypeOK /\ TypeInv'
  BY NextKeepsTypeInv DEF TypeInv
<1>1. CASE LoadSecrets
  BY <1>0, <1>1 DEF TypeOK, LoadSecrets, Listen, database, http
<1>2. CASE Delay
  BY <1>0, <1>2 DEF Delay, http
<1>3. CASE ReadConfig
  BY <1>0, <1>3 DEF ReadConfig, AttemptFails, Shutdown, http
<1>4. CASE Connect
  BY <1>0, <1>4 DEF Connect, AttemptFails, Shutdown, http
<1>5. CASE Migrate
  BY <1>0, <1>5 DEF Migrate, AttemptFails, Shutdown, Listen, http
<1>6. CASE Sigterm
  BY <1>0, <1>6 DEF Sigterm, Shutdown, CloseSource, http
<1>7. CASE Sigint
  BY <1>0, <1>7 DEF Sigint, Shutdown, CloseSource, http
<1>8. CASE Uncaught
  BY <1>0, <1>8 DEF Uncaught, Shutdown, database, http
<1>9. CASE Drained
  BY <1>0, <1>9 DEF Drained, CloseSource
<1>10. CASE TimerFires
  BY <1>0, <1>10 DEF TimerFires, database, http
<1>11. ASSUME NEW c \in closers, Destroyed(c) \/ DestroyFails(c)
       PROVE  ListenInv'
  BY <1>0, <1>11 DEF Destroyed, DestroyFails, Shutdown, database, http
<1>12. ASSUME NEW r \in Requests, Arrive(r) \/ Finish(r)
       PROVE  ListenInv'
  BY <1>0, <1>12 DEF Arrive, Finish, database, http
<1>13. CASE UNCHANGED vars
  BY <1>0, <1>13 DEF vars
<1> QED BY <1>1, <1>2, <1>3, <1>4, <1>5, <1>6, <1>7, <1>8, <1>9, <1>10, <1>11, <1>12, <1>13
        DEF Next, Step, Initialize, Destroy

LEMMA ListenInvHolds == Spec => []ListenInv
<1>1. Init => ListenInv
  BY InitTypeInv DEF Init, ListenInv
<1> QED BY <1>1, NextListenInv, PTL DEF Spec

\* A server is opened by the end of the migrations or by the early return of
\* initialize(), both on a data source that is initialized.
LEMMA OpenedOnDatabase ==
  ListenInv /\ [Next]_vars => [server = "none" /\ server' = "open" => Initialized]_vars
<1> SUFFICES ASSUME ListenInv, Next, server = "none", server' = "open"
             PROVE  Initialized
  BY DEF vars
<1> USE DEF ListenInv
<1>1. CASE LoadSecrets
  BY <1>1 DEF LoadSecrets, HasReadySource, http
<1>2. CASE Initialize
  BY <1>2 DEF Initialize, Delay, ReadConfig, Connect, Migrate, AttemptFails, Shutdown, http
<1>3. CASE Sigterm \/ Sigint \/ Uncaught \/ Drained \/ TimerFires
  BY <1>3 DEF Sigterm, Sigint, Uncaught, Drained, TimerFires, Shutdown, http
<1>4. CASE Destroy
  BY <1>4 DEF Destroy, Destroyed, DestroyFails, Shutdown, http
<1>5. ASSUME NEW r \in Requests, Arrive(r) \/ Finish(r)
      PROVE  Initialized
  BY <1>5 DEF Arrive, Finish, http
<1> QED BY <1>1, <1>2, <1>3, <1>4, <1>5 DEF Next, Step

\* The server opens its port only on a data source that is initialized.
THEOREM ListensAlwaysOnDatabase == Spec => ListensOnDatabase
<1> QED BY ListenInvHolds, OpenedOnDatabase, PTL DEF Spec, ListensOnDatabase

-----------------------------------------------------------------------------
(* Draining.  Only the callback of server.close awaits destroy() as        *)
(* "server", so no connection is open then, nor can one arrive; and only a *)
(* signal makes database.ts close the pool.                                *)

DrainInv ==
    /\ server = "drained" => Open = {}
    /\ "server" \in closers => server \in {"closing", "drained"} /\ Open = {}
    /\ "database" \in closers => asked \cap Signals # {}
    /\ ErrorsDrain

\* Whether connections stay closed: only Arrive opens one, on an open server.
LEMMA NoConnectionOpens ==
  ASSUME ListenInv, [Next]_vars, server # "open", Open = {}
  PROVE  Open' = {}
<1>1. CASE req' = req
  BY <1>1 DEF Open
<1>2. ASSUME NEW r \in Requests, Finish(r)
      PROVE  Open' = {}
  BY <1>2 DEF Finish, Open
<1>3. ASSUME NEW r \in Requests, Arrive(r)
      PROVE  FALSE
  BY <1>3 DEF Arrive
<1> QED BY <1>1, <1>2, <1>3
        DEF Next, Step, Initialize, Destroy, vars, LoadSecrets, Delay, ReadConfig, Connect,
            Migrate, Sigterm, Sigint, Uncaught, Drained, TimerFires, Destroyed, DestroyFails

LEMMA NextDrainInv == ListenInv /\ DrainInv /\ [Next]_vars => DrainInv'
<1> SUFFICES ASSUME ListenInv, DrainInv, [Next]_vars PROVE DrainInv'
  OBVIOUS
<1>0. server # "open" /\ Open = {} => Open' = {}
  BY NoConnectionOpens
<1> USE <1>0 DEF DrainInv, ErrorsDrain
<1>1. CASE exit = "running" /\ LoadSecrets
  BY <1>1 DEF LoadSecrets, Listen, Open, ListenInv, TypeInv, TypeOK, database, http
<1>2. CASE exit = "running" /\ Initialize
  BY <1>2 DEF Initialize, Delay, ReadConfig, Connect, Migrate, AttemptFails, Shutdown,
              Listen, Open, ListenInv, Signals, http
<1>3. CASE exit = "running" /\ Sigterm
  <2>1. "SIGTERM" \in asked' \cap Signals
    BY <1>3 DEF Sigterm, Signals, ListenInv, TypeInv, TypeOK, Initialized
  <2>2. Open' = Open
    BY <1>3 DEF Sigterm, Open
  <2>3. server' \in {server, "closing"}
    BY <1>3 DEF Sigterm, Shutdown, http
  <2>4. closers' \subseteq closers \cup {"database"}
    BY <1>3 DEF Sigterm, CloseSource
  <2> QED BY <2>1, <2>2, <2>3, <2>4
<1>4. CASE exit = "running" /\ Sigint
  <2>1. "SIGINT" \in asked' \cap Signals
    BY <1>4 DEF Sigint, Signals, ListenInv, TypeInv, TypeOK, Initialized
  <2>2. Open' = Open
    BY <1>4 DEF Sigint, Open
  <2>3. server' \in {server, "closing"}
    BY <1>4 DEF Sigint, Shutdown, http, ListenInv, TypeInv, TypeOK, Initialized
  <2>4. closers' \subseteq closers \cup {"database"}
    BY <1>4 DEF Sigint, CloseSource, ListenInv, TypeInv, TypeOK, Initialized
  <2> QED BY <2>1, <2>2, <2>3, <2>4
<1>5. CASE exit = "running" /\ Uncaught
  BY <1>5 DEF Uncaught, Shutdown, Signals, Open, database, http
<1>6. CASE exit = "running" /\ Drained
  BY <1>6 DEF Drained, CloseSource, Open
<1>7. CASE exit = "running" /\ TimerFires
  BY <1>7 DEF TimerFires, Open, database, http
<1>8. ASSUME exit = "running", NEW c \in closers, Destroyed(c)
      PROVE  DrainInv'
  BY <1>8 DEF Destroyed, Open, ListenInv, TypeInv, TypeOK, database, http
<1>9. ASSUME exit = "running", NEW c \in closers, DestroyFails(c)
      PROVE  DrainInv'
  BY <1>9 DEF DestroyFails, Shutdown, Signals, Open, ListenInv, TypeInv, TypeOK, http
<1>10. ASSUME exit = "running", NEW r \in Requests, Arrive(r) \/ Finish(r)
       PROVE  DrainInv'
  <2>1. UNCHANGED <<server, closers, asked, exit>>
    BY <1>10 DEF Arrive, Finish, http
  <2>2. exit' # "success"
    BY <1>10, <2>1
  <2> QED BY <2>1, <2>2 DEF Signals
<1>11. CASE UNCHANGED vars
  <2>1. Open' = Open
    BY <1>11 DEF vars, Open
  <2> QED BY <1>11, <2>1 DEF vars, Signals
<1> QED BY <1>1, <1>2, <1>3, <1>4, <1>5, <1>6, <1>7, <1>8, <1>9, <1>10, <1>11
        DEF Next, Step, Destroy

\* A process that errors alone have shut down exits with status 0 only when no
\* connection is open.
THEOREM ErrorsAlwaysDrain == Spec => []ErrorsDrain
<1>1. Init => DrainInv
  BY DEF Init, DrainInv, ErrorsDrain
<1>2. DrainInv => ErrorsDrain
  BY DEF DrainInv
<1> QED BY <1>1, <1>2, NextDrainInv, ListenInvHolds, PTL DEF Spec

=============================================================================
