------------------------ MODULE ProcessLifecycleProofs ------------------------
(***************************************************************************)
(* Whatever requests come, and wherever the shutdown or a failing start    *)
(* finds them: work meets only what is there, and within the deadline of   *)
(* the shutdown nothing in progress is cut off.                            *)
(*                                                                         *)
(* The invariant relates how far the start or the shutdown has come to     *)
(* what may be in progress.  Requests and rounds keep the component they   *)
(* belong to from being stopped, and it keeps those that started earlier.  *)
(***************************************************************************)
EXTENDS ProcessLifecycle, TLAPS

\* The place of each component in the order of the start.
PlaceOf ==
  [pool |-> 1, verifier |-> 2, queues |-> 2, server |-> 3,
   references |-> 4, outbox |-> 5, consumer |-> 6]

\* How far the process is, at least or at most, for each resource.
StageInv ==
  /\ stage = "starting" => started < Len(Components[app])
  /\ stage = "starting" => poolOpen
  /\ started >= 2 => known
  /\ started > 0 => poolOpen
  /\ stage = "stopped" => started = 0 \/ deadline

\* Whoever works, works for a component that is not stopped yet.
RequestInv ==
  /\ listening => started >= 3
  /\ \A r \in Requests : place[r] # "none" => started >= 3

PollerInv ==
  \A p \in Pollers :
    /\ pc[p] \in {"select", "round"} => started >= PlaceOf[p]
    /\ stage = "starting" => ~cancelled[p]
    /\ cancelled[p] => deadline \/ pc[p] = "done"

LifecycleInv == TypeOK /\ StageInv /\ RequestInv /\ PollerInv

-----------------------------------------------------------------------------
(* The order of the components *)

\* A component has one place, and pollers come last.
LEMMA OrderOfComponents ==
  ASSUME NEW a \in DOMAIN Components
  PROVE  /\ Len(Components[a]) \in {3, 6}
         /\ \A n \in 1..Len(Components[a]) :
              /\ Components[a][n] \in DOMAIN PlaceOf
              /\ PlaceOf[Components[a][n]] = n
         /\ \A p \in Pollers : PlaceOf[p] \in 4..6
<1>1. DOMAIN Components = {"api", "workers"}
  BY DEF Components
<1>2. \A p \in Pollers : PlaceOf[p] \in 4..6
  BY DEF Pollers, PlaceOf
<1>3. CASE a = "api"
  <2>1. Components[a] = <<"pool", "verifier", "server">>
    BY <1>3 DEF Components, OfApi
  <2> QED
    BY <1>2, <2>1 DEF PlaceOf
<1>4. CASE a = "workers"
  <2>1. Components[a] = <<"pool", "queues", "server", "references", "outbox", "consumer">>
    BY <1>4 DEF Components, OfWorkers
  <2> QED
    BY <1>2, <2>1 DEF PlaceOf
<1> QED
  BY <1>1, <1>3, <1>4

\* The component whose turn it is, to start or to stop, tells how far the process is.
LEMMA WhoseTurn ==
  ASSUME TypeOK, NEW component \in DOMAIN PlaceOf
  PROVE  /\ started < Len(Components[app]) /\ Components[app][started + 1] = component
              => started + 1 = PlaceOf[component]
         /\ Turn(component) => started = PlaceOf[component]
  BY OrderOfComponents DEF TypeOK, Turn

-----------------------------------------------------------------------------
(* Each action preserves the invariant *)

LEMMA StartingPreserves ==
  ASSUME LifecycleInv, NEW component \in DOMAIN PlaceOf, Starts(component)
  PROVE  /\ started + 1 = PlaceOf[component]
         /\ started' \in 1..Len(Components[app])
         /\ stage' \in {"starting", "running"}
         /\ stage' = "starting" => started' < Len(Components[app])
         /\ poolOpen /\ started' = started + 1
  BY WhoseTurn, OrderOfComponents DEF LifecycleInv, TypeOK, StageInv, Starts
LEMMA StartPreserves ==
  ASSUME LifecycleInv, Starting \/ FailToStart
  PROVE  LifecycleInv'
<1>1. TypeOK /\ StageInv /\ RequestInv /\ PollerInv
  BY DEF LifecycleInv
<1>2. CASE Ping
  <2>1. Starts("pool") /\ started' = 1
    BY <1>2, StartingPreserves DEF Ping, PlaceOf
  <2>2. TypeOK'
    BY <1>1, <1>2, StartingPreserves DEF Ping, Starts, TypeOK, resources, pollers, requests, signals, PlaceOf
  <2>3. StageInv' /\ RequestInv'
    BY <1>1, <1>2, <2>1, StartingPreserves
    DEF Ping, Starts, TypeOK, StageInv, RequestInv, resources, requests, PlaceOf
  <2>4. PollerInv'
    BY <1>1, <1>2, <2>1, StartingPreserves, OrderOfComponents
    DEF Ping, Starts, TypeOK, PollerInv, pollers, signals, PlaceOf
  <2> QED
    BY <2>2, <2>3, <2>4 DEF LifecycleInv
<1>3. CASE Discover \/ ResolveQueues
  <2>1. PICK component \in {"verifier", "queues"} : Starts(component)
    BY <1>3 DEF Discover, ResolveQueues
  <2>2. component \in DOMAIN PlaceOf /\ PlaceOf[component] = 2
    BY DEF PlaceOf
  <2>3. UNCHANGED <<poolOpen, listening, pollers, requests, signals, deadline, app>> /\ known' = TRUE
    BY <1>3, <2>1 DEF Discover, ResolveQueues, Starts
  <2>4. TypeOK'
    BY <1>1, <2>1, <2>2, <2>3, StartingPreserves DEF TypeOK, pollers, requests, signals
  <2>5. StageInv' /\ RequestInv'
    BY <1>1, <2>1, <2>2, <2>3, StartingPreserves
    DEF Starts, TypeOK, StageInv, RequestInv, requests
  <2>6. PollerInv'
    BY <1>1, <2>1, <2>2, <2>3, StartingPreserves, OrderOfComponents
    DEF Starts, TypeOK, PollerInv, pollers, signals
  <2> QED
    BY <2>4, <2>5, <2>6 DEF LifecycleInv
<1>4. CASE Listen
  <2>1. Starts("server") /\ "server" \in DOMAIN PlaceOf /\ PlaceOf["server"] = 3
    BY <1>4 DEF Listen, PlaceOf
  <2>2. TypeOK'
    BY <1>1, <1>4, <2>1, StartingPreserves DEF Listen, Starts, TypeOK, pollers, requests, signals
  <2>3. StageInv' /\ RequestInv'
    BY <1>1, <1>4, <2>1, StartingPreserves
    DEF Listen, Starts, TypeOK, StageInv, RequestInv, requests
  <2>4. PollerInv'
    BY <1>1, <1>4, <2>1, StartingPreserves, OrderOfComponents
    DEF Listen, Starts, TypeOK, PollerInv, pollers, signals
  <2> QED
    BY <2>2, <2>3, <2>4 DEF LifecycleInv
<1>5. ASSUME NEW p \in Pollers, StartPoller(p)
      PROVE  LifecycleInv'
  <2>1. Starts(p) /\ p \in DOMAIN PlaceOf
    BY <1>5 DEF StartPoller, Pollers, PlaceOf
  <2>2. TypeOK'
    BY <1>1, <1>5, <2>1, StartingPreserves DEF StartPoller, Starts, TypeOK, resources, requests, signals
  <2>3. started' = started + 1 /\ started + 1 = PlaceOf[p] /\ started + 1 \in 4..6
    BY <1>1, <2>1, StartingPreserves, OrderOfComponents DEF TypeOK, Starts
  <2>4. StageInv' /\ RequestInv'
    BY <1>1, <1>5, <2>1, <2>3, StartingPreserves
    DEF StartPoller, Starts, TypeOK, StageInv, RequestInv, resources, requests
  <2>5. PollerInv'
    <3> SUFFICES ASSUME NEW q \in Pollers
                 PROVE  /\ pc'[q] \in {"select", "round"} => started' >= PlaceOf[q]
                        /\ stage' = "starting" => ~cancelled'[q]
                        /\ cancelled'[q] => deadline' \/ pc'[q] = "done"
      BY DEF PollerInv
    <3>1. UNCHANGED <<cancelled, deadline>> /\ stage = "starting" /\ ~cancelled[q]
      BY <1>1, <2>1 DEF Starts, PollerInv, signals
    <3>2. pc'[q] = IF q = p THEN "select" ELSE pc[q]
      BY <1>1, <1>5 DEF StartPoller, TypeOK
    <3> QED
      BY <1>1, <2>3, <3>1, <3>2, OrderOfComponents DEF PollerInv, TypeOK
  <2> QED
    BY <2>2, <2>4, <2>5 DEF LifecycleInv
<1>6. CASE FailToStart
  BY <1>1, <1>6 DEF FailToStart, TypeOK, StageInv, RequestInv, PollerInv, LifecycleInv,
                    resources, pollers, requests, signals
<1> QED
  BY <1>2, <1>3, <1>4, <1>5, <1>6 DEF Starting

\* A request is accepted while the listener is open, so the server is started.
LEMMA RequestsPreserve ==
  ASSUME LifecycleInv, NEW r \in Requests, Accept(r) \/ UsePool(r) \/ AnswerRequest(r)
  PROVE  LifecycleInv'
<1>1. TypeOK /\ StageInv /\ RequestInv /\ PollerInv
  BY DEF LifecycleInv
<1>2. PICK from \in {"none", "accepted", "usesPool"}, to \in {"none", "accepted", "usesPool"} :
        Moves(r, from, to) /\ (from = "none" => listening)
  BY DEF Accept, UsePool, AnswerRequest
<1>3. TypeOK'
  BY <1>1, <1>2 DEF Moves, TypeOK, process, pollers, resources, signals
<1>4. RequestInv'
  BY <1>1, <1>2 DEF Moves, TypeOK, RequestInv, process, resources
<1>5. StageInv' /\ PollerInv'
  BY <1>1, <1>2 DEF Moves, StageInv, PollerInv, process, pollers, resources, signals
<1> QED
  BY <1>3, <1>4, <1>5 DEF LifecycleInv

\* A round is begun by a goroutine that was started and not yet waited for.
LEMMA RoundsPreserve ==
  ASSUME LifecycleInv, NEW p \in Pollers, Fire(p) \/ Begin(p) \/ Leave(p) \/ End(p)
  PROVE  LifecycleInv'
<1>1. TypeOK /\ StageInv /\ RequestInv /\ PollerInv
  BY DEF LifecycleInv
<1>2. UNCHANGED <<process, requests>>
  BY DEF Fire, Begin, Leave, End
<1>3. TypeOK'
  <2>1. pc' \in [Pollers -> {"none", "select", "round", "done"}]
    BY <1>1 DEF Fire, Begin, Leave, End, TypeOK
  <2>2. timer' \in [Pollers -> {"armed", "fired", "off"}]
    BY <1>1 DEF Fire, Begin, Leave, End, TypeOK
  <2> QED
    BY <1>1, <1>2, <2>1, <2>2 DEF TypeOK, process, requests, resources, signals
<1>4. StageInv' /\ RequestInv'
  BY <1>1, <1>2 DEF StageInv, RequestInv, process, requests, resources, signals
<1>5. \A q \in Pollers : pc'[q] # pc[q] => pc[q] \in {"select", "round"} /\ q = p
  BY <1>1 DEF Fire, Begin, Leave, End, TypeOK
<1>6. PollerInv'
  BY <1>1, <1>2, <1>5 DEF PollerInv, process, signals
<1> QED
  BY <1>3, <1>4, <1>6 DEF LifecycleInv

\* A component is stopped once what works for it is over.
LEMMA ShutdownPreserves ==
  ASSUME LifecycleInv,
         Sigterm \/ (\E p \in Pollers : Stopping(p)) \/ Shutdown \/ ServerStops \/ Skip
         \/ ClosePool \/ RunOut \/ Exit
  PROVE  LifecycleInv'
<1>1. TypeOK /\ StageInv /\ RequestInv /\ PollerInv
  BY DEF LifecycleInv
<1>2. CASE Sigterm \/ RunOut \/ Exit
  <2>1. /\ UNCHANGED <<app, started, poolOpen, known, requests, pollers, signals>>
        /\ stage' \in {"stopping", "stopped"} /\ (stage' = "stopped" => started = 0 \/ deadline')
        /\ deadline' = deadline \/ deadline' = TRUE
        /\ listening' = listening \/ listening' = FALSE
    <3>1. CASE Sigterm
      BY <3>1 DEF Sigterm, resources
    <3>2. CASE RunOut
      BY <3>2 DEF RunOut, resources
    <3>3. CASE Exit
      BY <3>3 DEF Exit
    <3> QED
      BY <1>2, <3>1, <3>2, <3>3
  <2>2. TypeOK'
    BY <1>1, <2>1 DEF TypeOK, pollers, requests, signals
  <2>3. StageInv' /\ RequestInv'
    BY <1>1, <2>1 DEF StageInv, RequestInv, requests
  <2>4. PollerInv'
    BY <1>1, <2>1 DEF PollerInv, pollers, signals
  <2> QED
    BY <2>2, <2>3, <2>4 DEF LifecycleInv
<1>3. ASSUME NEW p \in Pollers, OnStop(p) \/ CancelWork(p)
      PROVE  LifecycleInv'
  <2>1. TypeOK'
    BY <1>1, <1>3 DEF OnStop, CancelWork, TypeOK, resources, pollers, requests, signals
  <2>2. StageInv' /\ RequestInv'
    BY <1>1, <1>3 DEF OnStop, CancelWork, StageInv, RequestInv, resources, pollers, requests
  <2>3. PollerInv'
    BY <1>1, <1>3 DEF OnStop, CancelWork, Turn, TypeOK, PollerInv, resources, pollers, requests
  <2> QED
    BY <2>1, <2>2, <2>3 DEF LifecycleInv
<1>4. ASSUME NEW p \in Pollers, ReturnOnceDone(p)
      PROVE  LifecycleInv'
  <2>1. started = PlaceOf[p] /\ PlaceOf[p] \in 4..6
    BY <1>1, <1>4, WhoseTurn, OrderOfComponents DEF ReturnOnceDone, TypeOK, Pollers, PlaceOf
  <2>2. TypeOK'
    BY <1>1, <1>4, <2>1 DEF ReturnOnceDone, Returns, TypeOK, resources, pollers, requests
  <2>3. StageInv' /\ RequestInv'
    BY <1>1, <1>4, <2>1 DEF ReturnOnceDone, Returns, Turn, TypeOK, StageInv, RequestInv,
                            resources, pollers, requests
  \* Those that started earlier go on; this one is done.
  <2>4. \A q \in Pollers : q # p => PlaceOf[q] # PlaceOf[p]
    BY DEF Pollers, PlaceOf
  <2>5. \A q \in Pollers : pc[q] \in {"select", "round"} => started - 1 >= PlaceOf[q]
    BY <1>1, <1>4, <2>1, <2>4, OrderOfComponents DEF ReturnOnceDone, PollerInv, TypeOK
  <2>6. PollerInv'
    BY <1>1, <1>4, <2>1, <2>5 DEF ReturnOnceDone, Returns, Turn, TypeOK, PollerInv, pollers
  <2> QED
    BY <2>2, <2>3, <2>6 DEF LifecycleInv
<1>5. CASE Shutdown
  BY <1>1, <1>5 DEF Shutdown, TypeOK, StageInv, RequestInv, PollerInv, LifecycleInv,
                    resources, pollers, requests, signals
<1>6. ASSUME NEW component \in {"server", "verifier", "queues", "pool"},
             Turn(component), Returns, UNCHANGED <<known, listening, signals>>,
             component = "server" => ~listening /\ \A r \in Requests : place[r] = "none",
             component = "pool" => poolOpen' = FALSE, component # "pool" => poolOpen' = poolOpen
      PROVE  LifecycleInv'
  <2>1. component \in DOMAIN PlaceOf /\ started = PlaceOf[component]
    BY <1>1, <1>6, WhoseTurn DEF PlaceOf
  <2>2. started \in 1..3 /\ (started = 3 <=> component = "server")
                         /\ (started = 1 <=> component = "pool")
    BY <2>1 DEF PlaceOf
  <2>3. /\ UNCHANGED <<app, stage, deadline, known, listening>> /\ stage = "stopping"
        /\ UNCHANGED <<place, pc, timer, stopping, cancelled>>
        /\ started' = started - 1
        /\ poolOpen' = poolOpen \/ (started = 1 /\ poolOpen' = FALSE)
    <3>1. /\ UNCHANGED <<app, stage, deadline, known, listening>> /\ stage = "stopping"
          /\ UNCHANGED <<place, pc, timer, stopping, cancelled>>
          /\ started' = started - 1
      BY <1>6 DEF Turn, Returns, pollers, requests, signals
    <3>2. started = 1 <=> component = "pool"
      BY <2>2
    <3>3. poolOpen' = poolOpen \/ (started = 1 /\ poolOpen' = FALSE)
      BY <1>6, <3>2
    <3> QED
      BY <3>1, <3>3
  <2>4. TypeOK' /\ StageInv'
    <3>1. started' \in 0..Len(Components[app])
      BY <1>1, <2>2, <2>3, OrderOfComponents DEF TypeOK
    <3>2. TypeOK'
      BY <1>1, <2>3, <3>1 DEF TypeOK
    <3>3. started > 1 => poolOpen' = poolOpen
      BY <2>2, <2>3
    <3>4. StageInv'
      BY <1>1, <2>2, <2>3, <3>3 DEF StageInv
    <3> QED
      BY <3>2, <3>4
  <2>5. RequestInv'
    BY <1>1, <1>6, <2>2 DEF Returns, TypeOK, RequestInv, requests
  \* No poller is left in its loop, since all come after the server.
  <2>6. \A q \in Pollers : pc[q] \notin {"select", "round"}
    BY <1>1, <2>2, OrderOfComponents DEF PollerInv, TypeOK
  <2>7. PollerInv'
    BY <1>1, <1>6, <2>6 DEF Turn, Returns, PollerInv, pollers, signals
  <2> QED
    BY <2>4, <2>5, <2>7 DEF LifecycleInv
<1>7. CASE ServerStops
  BY <1>6, <1>7 DEF ServerStops, resources
<1>8. CASE Skip
  BY <1>6, <1>8 DEF Skip, resources
<1>9. CASE ClosePool
  BY <1>6, <1>9 DEF ClosePool
<1> QED
  BY <1>2, <1>3, <1>4, <1>5, <1>7, <1>8, <1>9 DEF Stopping

LEMMA LifecycleIsInvariant == Spec => []LifecycleInv
<1>1. Init => LifecycleInv
  <2> SUFFICES ASSUME Init PROVE LifecycleInv
    OBVIOUS
  <2>1. Len(Components[app]) \in {3, 6}
    BY OrderOfComponents DEF Init
  <2>2. place \in [Requests -> {"none", "accepted", "usesPool"}]
    BY DEF Init
  <2>3. /\ pc \in [Pollers -> {"none", "select", "round", "done"}]
        /\ timer \in [Pollers -> {"armed", "fired", "off"}]
        /\ stopping \in [Pollers -> BOOLEAN] /\ cancelled \in [Pollers -> BOOLEAN]
    BY DEF Init
  <2>4. /\ deadline \in BOOLEAN
        /\ poolOpen \in BOOLEAN /\ known \in BOOLEAN /\ listening \in BOOLEAN
    BY DEF Init
  <2>5. app \in DOMAIN Components /\ stage = "starting" /\ started = 0
    BY DEF Init
  <2>6. TypeOK
    BY <2>1, <2>2, <2>3, <2>4, <2>5 DEF TypeOK
  <2>7. RequestInv
    BY DEF Init, RequestInv
  <2>8. started = 0 /\ started < Len(Components[app])
    <3>1. \A n \in {3, 6} : 0 < n
      OBVIOUS
    <3>2. started = 0
      BY <2>5
    <3> QED
      BY <2>1, <3>1, <3>2, Zenon
  <2>9. poolOpen /\ stage = "starting"
    BY DEF Init
  <2>10. StageInv
    BY <2>8, <2>9 DEF StageInv
  <2>11. PollerInv
    BY DEF Init, PollerInv
  <2> QED
    BY <2>6, <2>7, <2>10, <2>11 DEF LifecycleInv
<1>2. LifecycleInv /\ [Next]_vars => LifecycleInv'
  <2> SUFFICES ASSUME LifecycleInv, [Next]_vars PROVE LifecycleInv'
    OBVIOUS
  <2>1. CASE UNCHANGED vars
    BY <2>1 DEF LifecycleInv, TypeOK, StageInv, RequestInv, PollerInv, vars,
                resources, requests, pollers, signals
  <2>2. CASE Next
    BY <2>2, StartPreserves, RequestsPreserve, RoundsPreserve, ShutdownPreserves DEF Next
  <2> QED
    BY <2>1, <2>2
<1> QED
  BY <1>1, <1>2, PTL DEF Spec

-----------------------------------------------------------------------------
(* Theorems *)

\* Whatever request or round is in progress, in either process, whenever it came:
\* the pool is open and what the start looked up is known.
THEOREM WorkIsProvidedFor == Spec => []WorkHasWhatItUses
<1>1. LifecycleInv => WorkHasWhatItUses
  <2> SUFFICES ASSUME LifecycleInv,
                      \/ \E r \in Requests : place[r] # "none"
                      \/ \E p \in Pollers : pc[p] = "round"
               PROVE  started > 0 /\ known /\ poolOpen
    BY DEF WorkHasWhatItUses
  <2>1. started \in Nat /\ started >= 3
    BY OrderOfComponents DEF LifecycleInv, TypeOK, RequestInv, PollerInv
  <2> QED
    BY <2>1 DEF LifecycleInv, StageInv
<1> QED
  BY <1>1, LifecycleIsInvariant, PTL

\* A shutdown whose deadline has not run out cancels no round, and the process
\* does not exit under a round or a request.
THEOREM WithinTheDeadlineNothingIsCut == Spec => []NothingIsCut
<1>1. LifecycleInv => NothingIsCut
  <2> SUFFICES ASSUME LifecycleInv, ~deadline
               PROVE  /\ \A p \in Pollers : pc[p] = "round" => ~cancelled[p] /\ stage # "stopped"
                      /\ \A r \in Requests : place[r] # "none" => stage # "stopped"
    BY DEF NothingIsCut
  <2>1. stage = "stopped" => started = 0
    BY DEF LifecycleInv, StageInv
  <2>2. \A p \in Pollers : pc[p] = "round" => ~cancelled[p] /\ started >= 4
    BY OrderOfComponents DEF LifecycleInv, TypeOK, PollerInv
  <2>3. \A r \in Requests : place[r] # "none" => started >= 3
    BY DEF LifecycleInv, RequestInv
  <2> QED
    BY <2>1, <2>2, <2>3
<1> QED
  BY <1>1, LifecycleIsInvariant, PTL
===============================================================================
