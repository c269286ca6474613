---------------------------- MODULE HttpServer ----------------------------
(***************************************************************************)
(* The process: how main brings it up, how requests go through middleware  *)
(* and handlers to the hub, and how a signal brings it down.  Three        *)
(* goroutines of main matter, its own, the one that listens and the hub's; *)
(* the poller is seen only as somebody who broadcasts.                     *)
(*                                                                         *)
(* The hub is the one of WsHub with its channels reduced to how many wait  *)
(* in them, and without that module's assumption that every write returns: *)
(* a peer that does not read stops the hub in the middle of a delivery,    *)
(* and then the channels fill and handlers wait.                           *)
(***************************************************************************)
EXTENDS Naturals, FiniteSets, Authentication

CONSTANTS
    Requests,      \* requests, each made at most once
    Calls,         \* what a request may ask for
    BroadcastCap,  \* capacities of the hub's channels
    RegisterCap

Routes == {"health", "messages", "status", "webhook", "test", "none"}
Bodies == {"malformed", "unknown", "empty", "full", "slow", "none"}

\* A caller's method, route, credentials and body.
CallType ==
    [method : {"OPTIONS", "GET", "POST"}, route : Routes, header : Headers,
     token : Tokens \cup {NoToken}, key : {"", "key"}, body : Bodies]

ASSUME ServerAssumption ==
    /\ Calls \subseteq CallType
    /\ BroadcastCap \in Nat \ {0}
    /\ RegisterCap \in Nat \ {0}

NoCall == [method |-> "GET", route |-> "none", header |-> "missing",
           token |-> NoToken, key |-> "", body |-> "none"]

VARIABLES
    \* main and the goroutine that listens.
    main,       \* where main is
    outcome,    \* "running", or how the process ended
    db,         \* "none", "open" or "closed"
    listener,   \* "none", "starting", "listening" or "closed"
    signalled,  \* a signal waits in stopChan
    late,       \* the ten seconds of the shutdown are over
    \* Requests.
    call,       \* request -> what it asks for
    at,         \* request -> where it is
    stalled,    \* requests whose websocket's peer does not read
    \* The hub.
    hubRuns,    \* go wsHub.Run()
    pollerRuns, \* go StartTransactionVerification()
    queue,      \* messages in Broadcast
    joining,    \* requests in Register
    clients,    \* requests whose connection is in h.Clients
    stuck       \* the request whose connection the hub waits for in a write

mainVars == <<main, outcome, db, listener, signalled, late>>
requestVars == <<call, at, stalled>>
hubVars == <<hubRuns, pollerRuns, queue, joining, clients, stuck>>
vars == <<mainVars, requestVars, hubVars, now>>

Places == {"unsent", "accepted", "group", "handler", "send", "register",
           "reading", "leave", "done"}
\* The server has taken the request and not answered it; a connection that has
\* become a websocket is not its any more.
Unanswered(r) == at[r] \in {"accepted", "group", "handler", "send"}

ServerInit ==
    /\ main = "config" /\ outcome = "running" /\ db = "none"
    /\ listener = "none" /\ signalled = FALSE /\ late = FALSE
    /\ call = [r \in Requests |-> NoCall]
    /\ at = [r \in Requests |-> "unsent"]
    /\ stalled = {}
    /\ hubRuns = FALSE /\ pollerRuns = FALSE
    /\ queue = 0 /\ joining = {} /\ clients = {} /\ stuck = {}
    /\ now = 0

-----------------------------------------------------------------------------
(* Seeded defects: how the decisions below could plausibly go wrong.  They  *)
(* are not part of the model; each shows that a property notices it.        *)

NoDeadline == FALSE
LogsOnly == "closing"
NotStarted == FALSE
NeverTimesOut == FALSE

-----------------------------------------------------------------------------
(* The decisions, by name.                                                  *)

\* Shutdown gets a context with a timeout, and its error is fatal.
ShutdownTimeout == TRUE
AfterShutdownError == "forced"
\* ReadTimeout: a body that does not come is an error in the end.
ReadTimeout == TRUE
\* go wsHub.Run()
StartsHub == TRUE

\* The groups of routes and the middleware before each.
Admitted(c) ==
    CASE c.route = "messages" -> APIKeyMiddleware(c.key, "")
      [] c.route \in {"status", "webhook", "test"} -> AuthMiddleware(c.header, c.token)

-----------------------------------------------------------------------------
(* main.                                                                    *)

Alive == outcome = "running"

\* Logger.Fatal and a default signal end the process at once: no deferred call
\* is made and no goroutine finishes.
Exit(how) == outcome' = how /\ UNCHANGED <<main, db, listener, signalled, late>>

LoadConfig ==
    /\ Alive /\ main = "config"
    /\ \/ main' = "database" /\ UNCHANGED <<outcome, db, listener, signalled, late>>
       \/ Exit("failed")
    /\ UNCHANGED <<requestVars, hubVars, now>>

\* sql.Open and Ping.
ConnectDatabase ==
    /\ Alive /\ main = "database"
    /\ \/ main' = "hub" /\ db' = "open" /\ UNCHANGED <<outcome, listener, signalled, late>>
       \/ Exit("failed")
    /\ UNCHANGED <<requestVars, hubVars, now>>

StartHub ==
    /\ Alive /\ main = "hub"
    /\ main' = "poller" /\ hubRuns' = StartsHub
    /\ UNCHANGED <<outcome, db, listener, signalled, late, requestVars,
                   pollerRuns, queue, joining, clients, stuck, now>>

StartPoller ==
    /\ Alive /\ main = "poller"
    /\ main' = "start" /\ pollerRuns' = TRUE
    /\ UNCHANGED <<outcome, db, listener, signalled, late, requestVars,
                   hubRuns, queue, joining, clients, stuck, now>>

\* Start: the routes, signal.Notify and the goroutine that listens.
Start ==
    /\ Alive /\ main = "start"
    /\ main' = "serving" /\ listener' = "starting"
    /\ UNCHANGED <<outcome, db, signalled, late, requestVars, hubVars, now>>

\* ListenAndServe does not listen any more when Shutdown came first.
Listen ==
    /\ Alive /\ listener = "starting"
    /\ \/ listener' = (IF main = "serving" THEN "listening" ELSE "closed")
          /\ UNCHANGED <<main, outcome, db, signalled, late>>
       \/ Exit("failed")
    /\ UNCHANGED <<requestVars, hubVars, now>>

\* Only the first of several signals is kept, and none is looked at while the
\* shutdown goes on; before Notify a signal ends the process.
Signal ==
    /\ Alive
    /\ IF main \in {"serving", "shutdown", "closing"}
         THEN ~signalled /\ signalled' = TRUE
              /\ UNCHANGED <<main, outcome, db, listener, late>>
         ELSE Exit("killed")
    /\ UNCHANGED <<requestVars, hubVars, now>>

BeginShutdown ==
    /\ Alive /\ main = "serving" /\ signalled
    /\ main' = "shutdown" /\ signalled' = FALSE
    /\ listener' = (IF listener = "listening" THEN "closed" ELSE listener)
    /\ UNCHANGED <<outcome, db, late, requestVars, hubVars, now>>

\* Shutdown returns when it finds every connection idle.
Drained ==
    /\ Alive /\ main = "shutdown"
    /\ \A r \in Requests : ~Unanswered(r)
    /\ main' = "closing"
    /\ UNCHANGED <<outcome, db, listener, signalled, late, requestVars,
                   hubVars, now>>

TimePasses ==
    /\ Alive /\ main = "shutdown" /\ ShutdownTimeout /\ ~late
    /\ late' = TRUE
    /\ UNCHANGED <<main, outcome, db, listener, signalled, requestVars,
                   hubVars, now>>

\* Shutdown returns the error of its context.
TimedOut ==
    /\ Alive /\ main = "shutdown" /\ late
    /\ IF AfterShutdownError = "forced"
         THEN Exit("forced")
         ELSE main' = AfterShutdownError
              /\ UNCHANGED <<outcome, db, listener, signalled, late>>
    /\ UNCHANGED <<requestVars, hubVars, now>>

\* Start has returned: the deferred ShutDown of the database, and the end.
CloseDatabase ==
    /\ Alive /\ main = "closing"
    /\ db' = "closed" /\ outcome' = "graceful"
    /\ UNCHANGED <<main, listener, signalled, late, requestVars, hubVars, now>>

Main ==
    \/ LoadConfig \/ ConnectDatabase \/ StartHub \/ StartPoller \/ Start
    \/ BeginShutdown \/ Drained \/ TimedOut \/ CloseDatabase

-----------------------------------------------------------------------------
(* A request.                                                               *)

\* A handler that returns forgets what was asked.
Goto(r, place) ==
    /\ at' = [at EXCEPT ![r] = place]
    /\ call' = IF place \in {"reading", "done"} THEN [call EXCEPT ![r] = NoCall]
                                               ELSE call

Accept(r) ==
    /\ Alive /\ listener = "listening" /\ at[r] = "unsent"
    /\ \E c \in Calls : call' = [call EXCEPT ![r] = c]
    /\ at' = [at EXCEPT ![r] = "accepted"]
    /\ UNCHANGED <<mainVars, stalled, hubVars, now>>

\* SetupMiddleware: a preflight request is answered, whatever its route; what
\* has no route is answered after it.
GlobalMiddleware(r) ==
    LET c == call[r] IN
    /\ Alive /\ at[r] = "accepted"
    /\ Goto(r, IF c.method = "OPTIONS" \/ c.route = "none" THEN "done"
               ELSE IF c.route = "health" THEN "handler" ELSE "group")
    /\ UNCHANGED <<mainVars, stalled, hubVars, now>>

GroupMiddleware(r) ==
    /\ Alive /\ at[r] = "group"
    /\ Goto(r, IF Admitted(call[r]) THEN "handler" ELSE "done")
    /\ UNCHANGED <<mainVars, stalled, hubVars, now>>

Handles(r, route) == Alive /\ at[r] = "handler" /\ call[r].route = route

\* The health check asks nobody, and the webhook is empty.
Health(r) ==
    /\ Handles(r, "health")
    /\ Goto(r, "done")
    /\ UNCHANGED <<mainVars, stalled, hubVars, now>>

HandlePDMWebhook(r) ==
    /\ Handles(r, "webhook")
    /\ Goto(r, "done")
    /\ UNCHANGED <<mainVars, stalled, hubVars, now>>

\* A body that is no message, of no known type or without its payload is
\* answered; a message is broadcast first.
HandleMessage(r) ==
    LET body == call[r].body IN
    /\ Handles(r, "messages")
    /\ body = "slow" => ReadTimeout
    /\ Goto(r, IF body = "full" THEN "send" ELSE "done")
    /\ UNCHANGED <<mainVars, stalled, hubVars, now>>

TestWebSocket(r) ==
    /\ Handles(r, "test")
    /\ Goto(r, "send")
    /\ UNCHANGED <<mainVars, stalled, hubVars, now>>

\* Whoever broadcasts waits while the channel is full.
Send(r) ==
    /\ Alive /\ at[r] = "send"
    /\ queue < BroadcastCap
    /\ queue' = queue + 1
    /\ Goto(r, "done")
    /\ UNCHANGED <<mainVars, stalled, hubRuns, pollerRuns, joining,
                   clients, stuck, now>>

\* The upgrade takes the connection from the server, or is refused.
HandleWebSocket(r) ==
    /\ Handles(r, "status")
    /\ \E upgraded \in BOOLEAN : Goto(r, IF upgraded THEN "register" ELSE "done")
    /\ UNCHANGED <<mainVars, stalled, hubVars, now>>

Register(r) ==
    /\ Alive /\ at[r] = "register"
    /\ Cardinality(joining) < RegisterCap
    /\ joining' = joining \cup {r}
    /\ Goto(r, "reading")
    /\ UNCHANGED <<mainVars, stalled, hubRuns, pollerRuns, queue,
                   clients, stuck, now>>

Serve(r) ==
    \/ GlobalMiddleware(r) \/ GroupMiddleware(r)
    \/ Health(r) \/ HandlePDMWebhook(r) \/ HandleMessage(r)
    \/ TestWebSocket(r) \/ HandleWebSocket(r) \/ Send(r) \/ Register(r)

\* The peer of a websocket stops reading, reads on, or goes away, which ends
\* the reader of its connection and whatever write waits for it.
Stall(r) ==
    /\ Alive /\ at[r] = "reading" /\ r \notin stalled
    /\ stalled' = stalled \cup {r}
    /\ UNCHANGED <<mainVars, call, at, hubVars, now>>

PeerMoves(r) ==
    /\ Alive /\ at[r] = "reading"
    /\ \/ r \in stalled /\ UNCHANGED <<call, at>>
       \/ Goto(r, "leave")
    /\ stalled' = stalled \ {r}
    /\ stuck' = stuck \ {r}
    /\ UNCHANGED <<mainVars, hubRuns, pollerRuns, queue, joining, clients,
                   now>>

-----------------------------------------------------------------------------
(* The hub, and the poller and its workers, who broadcast too.              *)

HubTurns == Alive /\ hubRuns /\ stuck = {}

TakeRegister ==
    /\ HubTurns
    /\ \E r \in joining : joining' = joining \ {r} /\ clients' = clients \cup {r}
    /\ UNCHANGED <<mainVars, requestVars, hubRuns, pollerRuns, queue, stuck,
                   now>>

TakeUnregister ==
    /\ HubTurns
    /\ \E r \in Requests :
          /\ at[r] = "leave"
          /\ Goto(r, "done")
          /\ clients' = clients \ {r}
    /\ UNCHANGED <<mainVars, stalled, hubRuns, pollerRuns, queue,
                   joining, stuck, now>>

\* A message may be for a connection whose peer does not read.
Deliver ==
    /\ HubTurns /\ queue > 0
    /\ queue' = queue - 1
    /\ \E s \in {{}} \cup {{r} : r \in clients \cap stalled} : stuck' = s
    /\ UNCHANGED <<mainVars, requestVars, hubRuns, pollerRuns, joining,
                   clients, now>>

Hub == TakeRegister \/ TakeUnregister \/ Deliver

Notify ==
    /\ Alive /\ pollerRuns
    /\ queue < BroadcastCap
    /\ queue' = queue + 1
    /\ UNCHANGED <<mainVars, requestVars, hubRuns, pollerRuns, joining,
                   clients, stuck, now>>

Time ==
    /\ Alive
    /\ Tick
    /\ UNCHANGED <<mainVars, requestVars, hubVars>>

ServerNext ==
    \/ Main \/ Listen \/ TimePasses \/ Signal
    \/ \E r \in Requests : Accept(r) \/ Serve(r) \/ Stall(r) \/ PeerMoves(r)
    \/ Hub \/ Notify \/ Time

\* main and the goroutines of the process run and time passes; of senders that
\* wait for room each has its turn.  Nobody has to send requests or signals, and
\* a peer that does not read may never do so again.
ServerSpec ==
    /\ ServerInit /\ [][ServerNext]_vars
    /\ WF_vars(Main) /\ WF_vars(Listen) /\ WF_vars(TimePasses)
    /\ WF_vars(TakeRegister) /\ WF_vars(TakeUnregister) /\ WF_vars(Deliver)
    /\ \A r \in Requests : WF_vars(Serve(r)) /\ SF_vars(Send(r))

-----------------------------------------------------------------------------
(* Properties.                                                              *)

\* Whoever sends the process a signal sees it end, though handlers may be
\* waiting for a hub that waits for a peer that never reads, or for a body.
ShutdownEnds == signalled ~> ~Alive

\* The process exits as after an orderly shutdown, with the database closed,
\* only when every request it had taken was answered.
GracefulMeansAnswered ==
    outcome = "graceful" \/ db = "closed" => \A r \in Requests : ~Unanswered(r)

\* A request that was taken is answered, and a websocket registered, unless
\* the process ends or the hub is stopped by a peer first.  A stopped hub does
\* not keep the health check or a refusal from being answered.
AnsweredUnlessStuck ==
    \A r \in Requests :
        LET needsHub == at[r] \in {"send", "register"} IN
        at[r] = "accepted" ~>
            \/ at[r] \in {"reading", "leave", "done"}
            \/ ~Alive
            \/ needsHub /\ stuck # {}
=============================================================================
