-------------------------- MODULE HttpServerProofs --------------------------
(***************************************************************************)
(* Proofs about HttpServer, for any number of requests, any calls and any  *)
(* capacities of the hub's channels.                                       *)
(***************************************************************************)
EXTENDS HttpServer, TLAPS

USE ServerAssumption, AuthenticationAssumption

RequestsOK ==
    /\ call \in [Requests -> CallType]
    /\ at \in [Requests -> Places]

-----------------------------------------------------------------------------
(* What a step does to requests: it is a request's own, or the hub's end of *)
(* its connection, or does not touch them.                                  *)

Moves(r, place) ==
    /\ at' = [at EXCEPT ![r] = place]
    /\ \/ call' = call
       \/ call' = [call EXCEPT ![r] = NoCall] /\ place \in {"reading", "done"}

\* A request leaves the group only when it is admitted, is in "send" only from
\* a handler, and is not answered any more once it was.
Onward(r, place) ==
    \/ at[r] \in {"accepted", "group"} /\ place = "done"
    \/ /\ at[r] = "accepted" /\ call[r].route \notin {"none", "health"}
       /\ place = "group"
    \/ at[r] = "accepted" /\ call[r].route = "health" /\ place = "handler"
    \/ at[r] = "group" /\ Admitted(call[r]) /\ place = "handler"
    \/ at[r] = "handler" /\ place \in {"send", "register", "done"}
    \/ at[r] \in {"send", "register"} /\ place \in {"reading", "done"}
    \/ at[r] \in {"reading", "leave"} /\ place \in {"leave", "done"}

LEMMA RequestSteps ==
    ASSUME NEW r \in Requests,
           Serve(r) \/ Stall(r) \/ PeerMoves(r)
    PROVE  /\ UNCHANGED mainVars
           /\ \/ UNCHANGED <<at, call>>
              \/ \E place \in Places : Moves(r, place) /\ Onward(r, place)
<1> USE DEF Goto, Moves, Onward, Handles, Places
<1>1. CASE GlobalMiddleware(r)
      BY <1>1 DEF GlobalMiddleware
<1>2. CASE GroupMiddleware(r)
      <2>1. CASE Admitted(call[r])
            BY <1>2, <2>1 DEF GroupMiddleware
      <2>2. CASE ~Admitted(call[r])
            BY <1>2, <2>2 DEF GroupMiddleware
      <2> QED
          BY <2>1, <2>2
<1>3. CASE Health(r) \/ HandlePDMWebhook(r)
      BY <1>3 DEF Health, HandlePDMWebhook
<1>4. CASE HandleMessage(r)
      BY <1>4 DEF HandleMessage
<1>5. CASE TestWebSocket(r)
      BY <1>5 DEF TestWebSocket
<1>6. CASE HandleWebSocket(r)
      BY <1>6 DEF HandleWebSocket
<1>7. CASE Send(r) \/ Register(r)
      BY <1>7 DEF Send, Register
<1>8. CASE Stall(r)
      BY <1>8 DEF Stall
<1>9. CASE PeerMoves(r)
      BY <1>9 DEF PeerMoves
<1> QED
    BY <1>1, <1>2, <1>3, <1>4, <1>5, <1>6, <1>7, <1>8, <1>9 DEF Serve

LEMMA HubSteps ==
    ASSUME Hub \/ Notify \/ Time
    PROVE  /\ UNCHANGED mainVars
           /\ \/ UNCHANGED <<at, call>>
              \/ \E r \in Requests : Moves(r, "done") /\ Onward(r, "done")
<1> USE DEF Goto, Moves, Onward
<1>1. CASE TakeRegister \/ Deliver \/ Notify \/ Time
      BY <1>1 DEF TakeRegister, Deliver, Notify, Time, requestVars
<1>2. CASE TakeUnregister
      BY <1>2 DEF TakeUnregister
<1> QED
    BY <1>1, <1>2 DEF Hub

LEMMA MainSteps ==
    ASSUME Main \/ Listen \/ TimePasses \/ Signal
    PROVE  UNCHANGED <<at, call>>
BY DEF Main, LoadConfig, ConnectDatabase, StartHub, StartPoller, Start,
       BeginShutdown, Drained, TimedOut, CloseDatabase, Listen, TimePasses,
       Signal, requestVars

\* The requests of every step.
LEMMA EveryStep ==
    ASSUME [ServerNext]_vars
    PROVE  \/ UNCHANGED <<at, call>>
           \/ \E r \in Requests : /\ Accept(r)
                                  /\ UNCHANGED mainVars
           \/ \E r \in Requests, place \in Places :
                 Moves(r, place) /\ Onward(r, place) /\ UNCHANGED mainVars
<1>1. CASE Main \/ Listen \/ TimePasses \/ Signal
      BY <1>1, MainSteps
<1>2. CASE Hub \/ Notify \/ Time
      BY <1>2, HubSteps DEF Places
<1>3. CASE \E r \in Requests : Serve(r) \/ Stall(r) \/ PeerMoves(r)
      BY <1>3, RequestSteps
<1>4. CASE \E r \in Requests : Accept(r)
      BY <1>4 DEF Accept
<1>5. CASE UNCHANGED vars
      BY <1>5 DEF vars, requestVars
<1> QED
    BY <1>1, <1>2, <1>3, <1>4, <1>5 DEF ServerNext

LEMMA NoCallIsCall == NoCall \in CallType
BY DEF NoCall, CallType, Routes, Bodies, Headers

LEMMA InitRequests == ServerInit => RequestsOK
BY NoCallIsCall DEF ServerInit, RequestsOK, Places

LEMMA StepRequests == RequestsOK /\ [ServerNext]_vars => RequestsOK'
<1> SUFFICES ASSUME RequestsOK, [ServerNext]_vars PROVE RequestsOK'
    OBVIOUS
<1>1. CASE UNCHANGED <<at, call>>
      BY <1>1 DEF RequestsOK
<1>2. CASE \E r \in Requests : Accept(r)
      BY <1>2 DEF Accept, RequestsOK, Places
<1>3. CASE \E r \in Requests, place \in Places : Moves(r, place)
      BY <1>3, NoCallIsCall DEF Moves, RequestsOK
<1> QED
    BY <1>1, <1>2, <1>3, EveryStep

-----------------------------------------------------------------------------
(* A graceful end.  From the shutdown on nothing listens, so that what       *)
(* Shutdown found answered stays so until the database is closed.            *)

StopInv ==
    /\ main \in {"shutdown", "closing"} => listener # "listening"
    /\ main = "closing" => \A r \in Requests : ~Unanswered(r)
    /\ outcome = "graceful" \/ db = "closed" => main = "closing"

LEMMA InitStop == ServerInit => StopInv
BY DEF ServerInit, StopInv

LEMMA StepStop == RequestsOK /\ StopInv /\ [ServerNext]_vars => StopInv'
<1> SUFFICES ASSUME RequestsOK, StopInv, [ServerNext]_vars PROVE StopInv'
    OBVIOUS
<1> USE DEF StopInv, mainVars
<1>1. CASE UNCHANGED <<main, outcome, db, listener>>
      <2>1. CASE UNCHANGED <<at, call>>
            BY <1>1, <2>1 DEF Unanswered
      <2>2. CASE \E r \in Requests : Accept(r)
            BY <1>1, <2>2 DEF Accept
      <2>3. ASSUME NEW r \in Requests, NEW place \in Places,
                   Moves(r, place), Onward(r, place)
            PROVE  StopInv'
            <3>1. \A s \in Requests : Unanswered(s)' => Unanswered(s)
                  BY <2>3 DEF Moves, Onward, Unanswered, RequestsOK
            <3> QED
                BY <1>1, <3>1
      <2> QED
          BY <2>1, <2>2, <2>3, EveryStep
<1>2. CASE Main
      <2>1. \A r \in Requests : Unanswered(r)' <=> Unanswered(r)
            BY <1>2, MainSteps DEF Unanswered
      <2>2. CASE \/ LoadConfig \/ ConnectDatabase \/ StartHub \/ StartPoller
                 \/ Start
            BY <2>1, <2>2 DEF LoadConfig, ConnectDatabase, StartHub, StartPoller,
                              Start, Exit, Alive
      <2>3. CASE BeginShutdown
            BY <2>1, <2>3 DEF BeginShutdown, Alive
      <2>4. CASE Drained
            BY <2>1, <2>4 DEF Drained
      <2>5. CASE TimedOut
            BY <2>1, <2>5 DEF TimedOut, AfterShutdownError, Exit
      <2>6. CASE CloseDatabase
            BY <2>1, <2>6 DEF CloseDatabase
      <2> QED
          BY <1>2, <2>2, <2>3, <2>4, <2>5, <2>6 DEF Main
<1>3. CASE Listen \/ TimePasses \/ Signal
      <2>1. \A r \in Requests : Unanswered(r)' <=> Unanswered(r)
            BY <1>3, MainSteps DEF Unanswered
      <2>2. /\ main' = main /\ db' = db
            /\ outcome' = outcome \/ outcome' # "graceful"
            /\ listener' = "listening" => main = "serving" \/ listener = "listening"
            BY <1>3 DEF Listen, TimePasses, Signal, Exit
      <2> QED
          BY <2>1, <2>2
<1>4. CASE ~(Main \/ Listen \/ TimePasses \/ Signal)
      BY <1>1, <1>4, RequestSteps, HubSteps DEF ServerNext, Accept, vars
<1> QED
    BY <1>2, <1>3, <1>4

\* The process ends as after an orderly shutdown only with every request it
\* took answered: Start returns nil only when http.Server.Shutdown does, and a
\* shutdown that times out is fatal.
THEOREM GracefulMeansAnsweredCorrect == ServerSpec => []GracefulMeansAnswered
<1>1. StopInv => GracefulMeansAnswered
      BY DEF StopInv, GracefulMeansAnswered
<1> QED
    BY <1>1, InitRequests, StepRequests, InitStop, StepStop, PTL DEF ServerSpec

-----------------------------------------------------------------------------
(* Who gets to a handler.                                                    *)

\* A token of this server, though it may have expired since it was looked at.
Genuine(t) ==
    /\ t # NoToken /\ Secret # NoSecret
    /\ ClaimsOf[t].method = "hmac" /\ ClaimsOf[t].key = Secret
    /\ ClaimsOf[t].issuer = "tucanbit"

VouchedFor(c) ==
    \/ c.route = "health"
    \/ c.route = "messages" /\ c.key # ""
    \/ /\ c.route \in {"status", "webhook", "test"}
       /\ Genuine(Presented(c.header, c.token))

\* No handler but the health check runs for a call without an API key or a
\* genuine token, and none broadcasts or registers a connection for one.
OnlyVouchedFor ==
    \A r \in Requests :
        at[r] \in {"handler", "send", "register"} => VouchedFor(call[r])

\* What a group's middleware looks at belongs to one of the groups.
Grouped ==
    \A r \in Requests :
        at[r] = "group" => call[r].route \notin {"none", "health"}

LEMMA AdmittedIsVouchedFor ==
    ASSUME NEW c \in CallType, c.route \notin {"none", "health"}, Admitted(c)
    PROVE  VouchedFor(c)
<1>1. CASE c.route = "messages"
      BY <1>1 DEF Admitted, APIKeyMiddleware, VerifyAPIKey, VouchedFor
<1>2. CASE c.route \in {"status", "webhook", "test"}
      BY <1>2 DEF Admitted, AuthMiddleware, VerifyToken, VouchedFor, Genuine
<1> QED
    BY <1>1, <1>2 DEF CallType, Routes

LEMMA StepVouched ==
    RequestsOK /\ Grouped /\ OnlyVouchedFor /\ [ServerNext]_vars =>
        (Grouped /\ OnlyVouchedFor)'
<1> SUFFICES ASSUME RequestsOK, Grouped, OnlyVouchedFor, [ServerNext]_vars
             PROVE  (Grouped /\ OnlyVouchedFor)'
    OBVIOUS
<1> USE DEF Grouped, OnlyVouchedFor
<1>1. CASE UNCHANGED <<at, call>>
      BY <1>1
<1>2. CASE \E r \in Requests : Accept(r)
      BY <1>2 DEF Accept, RequestsOK
<1>3. ASSUME NEW r \in Requests, NEW place \in Places,
             Moves(r, place), Onward(r, place)
      PROVE  (Grouped /\ OnlyVouchedFor)'
      <2>1. \A s \in Requests \ {r} : at'[s] = at[s] /\ call'[s] = call[s]
            BY <1>3 DEF Moves, RequestsOK
      <2>2. at'[r] = place
            /\ (place \notin {"reading", "done"} => call'[r] = call[r])
            BY <1>3 DEF Moves, RequestsOK
      <2>3. place = "group" => call[r].route \notin {"none", "health"}
            BY <1>3 DEF Onward
      <2>4. place \in {"handler", "send", "register"} => VouchedFor(call[r])
            <3>1. CASE at[r] = "accepted"
                  BY <1>3, <3>1 DEF Onward, VouchedFor
            <3>2. CASE at[r] = "group"
                  BY <1>3, <3>2, AdmittedIsVouchedFor DEF Onward, RequestsOK
            <3>3. CASE at[r] = "handler"
                  BY <3>3
            <3>4. CASE at[r] \notin {"accepted", "group", "handler"}
                  BY <1>3, <3>4 DEF Onward
            <3> QED
                BY <3>1, <3>2, <3>3, <3>4
      <2> QED
          BY <2>1, <2>2, <2>3, <2>4
<1> QED
    BY <1>1, <1>2, <1>3, EveryStep

\* Whatever callers send, and in whatever order their requests interleave, the
\* handlers behind the middlewares run only for who has a key or a token.
THEOREM OnlyVouchedForCorrect == ServerSpec => []OnlyVouchedFor
<1>1. ServerInit => Grouped /\ OnlyVouchedFor
      BY DEF ServerInit, Grouped, OnlyVouchedFor
<1> QED
    BY <1>1, InitRequests, StepRequests, StepVouched, PTL DEF ServerSpec
=============================================================================
