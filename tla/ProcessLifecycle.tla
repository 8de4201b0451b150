--------------------------- MODULE ProcessLifecycle ---------------------------
(***************************************************************************)
(* The API and the workers process.  Fx starts the components of either    *)
(* one after another and stops them in the reverse order, within one       *)
(* deadline, while requests come and go and pollers run round after round; *)
(* a start that fails stops what had started.                              *)
(***************************************************************************)
EXTENDS Naturals, Sequences

CONSTANTS
  Requests   \* requests that may be in progress at once

Pollers == {"references", "outbox", "consumer"}

\* What cmd/api and cmd/workers compose, in the order Fx starts it: what the
\* server needs before the server, and the pollers as worker.Module invokes them.
\* Those with a verifier or queues to look up come in any order before the server,
\* which makes no difference.
OfApi == <<"pool", "verifier", "server">>
OfWorkers == <<"pool", "queues", "server", "references", "outbox", "consumer">>
Components == [api |-> OfApi, workers |-> OfWorkers]

VARIABLES
  app,         \* the process: "api" or "workers"
  stage,       \* where it is between start and exit
  started,     \* how many of its components are started
  deadline,    \* whether the deadline of the shutdown has run out
  poolOpen,    \* the database pool, open from its construction on
  known,       \* whether the identity provider or the queues are known
  listening,   \* whether the listener is open
  place,       \* where each request is
  pc,          \* where the goroutine of each poller is
  timer,       \* its timer: "off" from being received to being reset
  stopping,    \* whether its channel `stopping` is closed
  cancelled    \* whether its workCtx is cancelled

requests == <<place>>
pollers == <<pc, timer>>
signals == <<stopping, cancelled>>
resources == <<poolOpen, known, listening>>
vars == <<app, stage, started, deadline, resources, requests, pollers, signals>>

TypeOK ==
  /\ app \in DOMAIN Components
  /\ stage \in {"starting", "running", "stopping", "stopped"}
  /\ started \in 0..Len(Components[app])
  /\ deadline \in BOOLEAN
  /\ poolOpen \in BOOLEAN /\ known \in BOOLEAN /\ listening \in BOOLEAN
  /\ place \in [Requests -> {"none", "accepted", "usesPool"}]
  /\ pc \in [Pollers -> {"none", "select", "round", "done"}]
  /\ timer \in [Pollers -> {"armed", "fired", "off"}]
  /\ stopping \in [Pollers -> BOOLEAN] /\ cancelled \in [Pollers -> BOOLEAN]

-----------------------------------------------------------------------------
(* Start *)

Starts(component) ==
  /\ stage = "starting"
  /\ Components[app][started + 1] = component
  /\ started' = started + 1
  /\ stage' = IF started' = Len(Components[app]) THEN "running" ELSE "starting"
  /\ UNCHANGED <<app, deadline, requests, signals>>

Ping == Starts("pool") /\ UNCHANGED <<resources, pollers>>

DiscoverLater == Starts("verifier") /\ UNCHANGED <<resources, pollers>>
Discover ==
  /\ Starts("verifier")
  /\ known' = TRUE
  /\ UNCHANGED <<poolOpen, listening, pollers>>

ResolveQueues ==
  /\ Starts("queues")
  /\ known' = TRUE
  /\ UNCHANGED <<poolOpen, listening, pollers>>

Listen ==
  /\ Starts("server")
  /\ listening' = TRUE
  /\ UNCHANGED <<poolOpen, known, pollers>>

StartPoller(p) ==
  /\ Starts(p)
  /\ pc' = [pc EXCEPT ![p] = "select"]
  /\ timer' = [timer EXCEPT ![p] = "armed"]
  /\ UNCHANGED resources

\* The database, the identity provider or a queue is out of reach or not the one
\* configured, or the port is taken: what started is stopped.
FailToStart ==
  /\ stage = "starting"
  /\ Components[app][started + 1] \notin Pollers
  /\ stage' = "stopping"
  /\ UNCHANGED <<app, started, deadline, resources, requests, pollers, signals>>

-----------------------------------------------------------------------------
(* Work: the process takes requests and goroutines with it when it exits *)

Alive == stage # "stopped"
process == <<app, stage, started, deadline, resources, signals>>

Moves(r, from, to) ==
  /\ Alive
  /\ place[r] = from
  /\ place' = [place EXCEPT ![r] = to]
  /\ UNCHANGED <<process, pollers>>

Accept(r) == listening /\ Moves(r, "none", "accepted")

\* A connection is taken: for a transaction, or to answer whether it is ready.
UsePool(r) == Moves(r, "accepted", "usesPool")

\* Refused, out of time while it waits for a connection, or concluded.
AnswerRequest(r) == Moves(r, "accepted", "none") \/ Moves(r, "usesPool", "none")

Fire(p) ==
  /\ Alive
  /\ timer[p] = "armed" /\ pc[p] = "select"
  /\ timer' = [timer EXCEPT ![p] = "fired"]
  /\ UNCHANGED <<process, requests, pc>>

\* The select takes either branch when both are ready.
Begin(p) ==
  /\ Alive
  /\ pc[p] = "select" /\ timer[p] = "fired"
  /\ pc' = [pc EXCEPT ![p] = "round"]
  /\ timer' = [timer EXCEPT ![p] = "off"]
  /\ UNCHANGED <<process, requests>>

LeaveWhenNothingIsDue(p) ==
  /\ Alive
  /\ pc[p] = "select" /\ stopping[p] /\ timer[p] # "fired"
  /\ pc' = [pc EXCEPT ![p] = "done"]
  /\ UNCHANGED <<process, requests, timer>>
Leave(p) ==
  /\ Alive
  /\ pc[p] = "select" /\ stopping[p]
  /\ pc' = [pc EXCEPT ![p] = "done"]
  /\ UNCHANGED <<process, requests, timer>>

\* The round ends, by itself, with an error or cancelled; the next one is due at
\* once while there is work, and an interval later otherwise.
End(p) ==
  /\ Alive
  /\ pc[p] = "round"
  /\ pc' = [pc EXCEPT ![p] = "select"]
  /\ \E taken \in BOOLEAN :
       timer' = [timer EXCEPT ![p] = IF taken THEN "fired" ELSE "armed"]
  /\ UNCHANGED <<process, requests>>

-----------------------------------------------------------------------------
(* Stop *)

Sigterm ==
  /\ stage = "running"
  /\ stage' = "stopping"
  /\ UNCHANGED <<app, started, deadline, resources, requests, pollers, signals>>

Turn(component) ==
  /\ stage = "stopping" /\ started > 0
  /\ Components[app][started] = component

Returns == started' = started - 1 /\ UNCHANGED <<app, stage, deadline, requests, pollers>>

\* OnStop of a poller: closes the channel and waits for the goroutine; past the
\* deadline it cancels the round first.
OnStop(p) ==
  /\ Turn(p) /\ ~stopping[p] /\ ~deadline
  /\ stopping' = [stopping EXCEPT ![p] = TRUE]
  /\ UNCHANGED <<app, stage, started, deadline, resources, requests, pollers, cancelled>>

CancelWork(p) ==
  /\ Turn(p) /\ stopping[p] /\ ~cancelled[p]
  /\ deadline
  /\ cancelled' = [cancelled EXCEPT ![p] = TRUE]
  /\ UNCHANGED <<app, stage, started, deadline, resources, requests, pollers, stopping>>

ReturnAtOnce(p) ==
  /\ Turn(p) /\ stopping[p]
  /\ Returns
  /\ cancelled' = [cancelled EXCEPT ![p] = deadline]
  /\ UNCHANGED <<resources, stopping>>
ReturnOnceDone(p) ==
  /\ Turn(p) /\ stopping[p]
  /\ pc[p] = "done"
  /\ Returns
  /\ cancelled' = [cancelled EXCEPT ![p] = TRUE]
  /\ UNCHANGED <<resources, stopping>>

\* Shutdown closes the listener and waits for the requests in progress.
ShutdownListening ==
  /\ Turn("server") /\ listening /\ ~deadline
  /\ \A r \in Requests : place[r] = "none"
  /\ listening' = FALSE
  /\ UNCHANGED <<app, stage, started, deadline, poolOpen, known, requests, pollers, signals>>
Shutdown ==
  /\ Turn("server") /\ listening /\ ~deadline
  /\ listening' = FALSE
  /\ UNCHANGED <<app, stage, started, deadline, poolOpen, known, requests, pollers, signals>>

ServerCloses ==
  /\ Turn("server") /\ ~listening
  /\ Returns
  /\ UNCHANGED <<resources, signals>>
ServerStops ==
  /\ Turn("server") /\ ~listening
  /\ \A r \in Requests : place[r] = "none"
  /\ Returns
  /\ UNCHANGED <<resources, signals>>

\* The verifier and the queues have nothing to stop.
Skip ==
  /\ Turn("verifier") \/ Turn("queues")
  /\ ~deadline
  /\ Returns
  /\ UNCHANGED <<resources, signals>>

\* Close waits for the connections in use.
ClosePool ==
  /\ Turn("pool") /\ ~deadline
  /\ \A r \in Requests : place[r] # "usesPool"
  /\ Returns
  /\ poolOpen' = FALSE
  /\ UNCHANGED <<known, listening, signals>>

\* The deadline of the shutdown, past which Fx begins no other OnStop, stops
\* waiting for the one that runs, and the process exits.
RunOut ==
  /\ stage = "stopping" /\ ~deadline
  /\ deadline' = TRUE
  /\ UNCHANGED <<app, stage, started, resources, requests, pollers, signals>>

Exit ==
  /\ stage = "stopping"
  /\ started = 0 \/ deadline
  /\ stage' = "stopped"
  /\ listening' = FALSE
  /\ UNCHANGED <<app, started, deadline, poolOpen, known, requests, pollers, signals>>

-----------------------------------------------------------------------------

Init ==
  /\ app \in DOMAIN Components
  /\ stage = "starting" /\ started = 0 /\ deadline = FALSE
  /\ poolOpen = TRUE /\ known = FALSE /\ listening = FALSE
  /\ place = [r \in Requests |-> "none"]
  /\ pc = [p \in Pollers |-> "none"]
  /\ timer = [p \in Pollers |-> "off"]
  /\ stopping = [p \in Pollers |-> FALSE]
  /\ cancelled = [p \in Pollers |-> FALSE]

Starting == Ping \/ Discover \/ ResolveQueues \/ Listen \/ \E p \in Pollers : StartPoller(p)

Stopping(p) == OnStop(p) \/ CancelWork(p) \/ ReturnOnceDone(p)

Next ==
  \/ Starting
  \/ FailToStart
  \/ \E r \in Requests : Accept(r)
  \/ \E r \in Requests : UsePool(r)
  \/ \E r \in Requests : AnswerRequest(r)
  \/ \E p \in Pollers : Fire(p)
  \/ \E p \in Pollers : Begin(p)
  \/ \E p \in Pollers : Leave(p)
  \/ \E p \in Pollers : End(p)
  \/ Sigterm
  \/ \E p \in Pollers : Stopping(p)
  \/ Shutdown
  \/ ServerStops
  \/ Skip
  \/ ClosePool
  \/ RunOut
  \/ Exit

\* A start ends or fails within its deadline and a request within its own; timers
\* fire, rounds end (the database and the queues answer or fail; only the handling
\* of a queue message bounds that wait itself) and the runtime chooses at random
\* between ready branches of a select.  Nothing makes the shutdown begin or its
\* deadline run out.
Fairness ==
  /\ WF_vars(Starting \/ FailToStart)
  /\ \A r \in Requests : WF_vars(AnswerRequest(r))
  /\ \A p \in Pollers :
       /\ WF_vars(Fire(p))
       /\ WF_vars(Begin(p))
       /\ SF_vars(Leave(p))
       /\ WF_vars(End(p))
       /\ WF_vars(Stopping(p))
  /\ WF_vars(Shutdown)
  /\ WF_vars(ServerStops)
  /\ WF_vars(Skip)
  /\ WF_vars(ClosePool)
  /\ WF_vars(Exit)

Spec == Init /\ [][Next]_vars /\ Fairness

-----------------------------------------------------------------------------
(* Properties *)

\* No request and no round meets a verifier without identity provider, queues not
\* found, a database that did not answer at the start, or a pool already closed.
WorkHasWhatItUses ==
  (\E r \in Requests : place[r] # "none") \/ (\E p \in Pollers : pc[p] = "round")
    => started > 0 /\ known /\ poolOpen

\* Within the deadline a shutdown lets the requests and the rounds in progress end
\* by themselves.
NothingIsCut ==
  ~deadline =>
    /\ \A p \in Pollers : pc[p] = "round" => ~cancelled[p] /\ stage # "stopped"
    /\ \A r \in Requests : place[r] # "none" => stage # "stopped"

\* A process that is told to stop, or whose start fails, ends, although pollers
\* always find work, requests keep coming and no deadline ends it.
ShutdownEnds == stage = "stopping" ~> stage = "stopped"
=============================================================================
