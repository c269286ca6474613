------------------------------- MODULE WsHub -------------------------------
(***************************************************************************)
(* The hub that tells browsers what happened to their sessions,            *)
(* withdrawals and balances.  One goroutine owns the map of connections    *)
(* and takes from three buffered channels, in any order when several have  *)
(* something: connections to register, connections to unregister and       *)
(* messages.  The handler of a connection registers it and starts a        *)
(* goroutine that reads until the connection fails and then unregisters    *)
(* it.  The poller, the workers and the message handler are the senders;   *)
(* they wait while the channel is full.                                    *)
(*                                                                         *)
(* A write to a connection always returns here.  The code sets no write    *)
(* deadline, so a peer that is up and does not read can break that.        *)
(* MaxMessages bounds the messages of a behaviour.                         *)
(***************************************************************************)
EXTENDS Naturals, Sequences, SequencesExt, FiniteSets

CONSTANTS
    Users,        \* users with connections
    Conns,        \* connections, before, while and after they are open
    UserOf,       \* connection -> the user_id it was authenticated for
    Senders,      \* goroutines that broadcast
    NoUser,       \* the empty user id
    Sendable,     \* the messages that senders send
    RegisterCap,    \* capacities of the three channels
    UnregisterCap,
    BroadcastCap,
    MaxMessages     \* messages broadcast altogether

\* A message goes to a user; a balance message may name none.
Kinds == {"session", "balance"}
Messages == [user : Users \cup {NoUser}, kind : Kinds]
Numbered == [number : 1..MaxMessages, user : Users \cup {NoUser}, kind : Kinds]

ASSUME ConnsAssumption ==
    /\ UserOf \in [Conns -> Users]
    /\ NoUser \notin Users
    /\ Sendable \subseteq Messages

ASSUME BoundsAssumption ==
    /\ RegisterCap \in Nat \ {0}
    /\ UnregisterCap \in Nat \ {0}
    /\ BroadcastCap \in Nat \ {0}
    /\ MaxMessages \in Nat

VARIABLES
    \* The channels.
    register,    \* connections to add
    unregister,  \* connections to remove
    broadcast,   \* messages to deliver, numbered in the order of sending
    \* The hub.
    known,       \* the keys of h.Clients
    clients,     \* user -> the connections of its entry
    hub,         \* "select", "deliver" or "write"
    audience,    \* users whose entry is still to be visited
    visiting,    \* the user whose connections are written to
    todo,        \* its connections that are still to be written to
    message,     \* the message that is delivered
    \* Connections.
    stage,       \* connection -> what its handler and reader are at
    gone,        \* connections whose peer went away
    closed,      \* connections the hub closed
    received,    \* connection -> the messages its peer got
    \* Senders.
    waiting,     \* sender -> <<>> or the one message it wants to send
    sent,        \* messages sent so far
    \* Bookkeeping that the code does not have.
    overtaken    \* connections removed while they waited to be added

channelVars == <<register, unregister, broadcast>>
mapVars     == <<known, clients>>
hubVars     == <<hub, audience, visiting, todo, message>>
connVars    == <<stage, gone, closed, received>>
senderVars  == <<waiting, sent>>
vars == <<channelVars, mapVars, hubVars, connVars, senderVars, overtaken>>

Stages == {"new", "offered", "reading", "leaving", "left"}
NoMessage == [number |-> 0, user |-> NoUser, kind |-> "session"]

TypeOK ==
    /\ register \in Seq(Conns) /\ Len(register) <= RegisterCap
    /\ unregister \in Seq(Conns) /\ Len(unregister) <= UnregisterCap
    /\ broadcast \in Seq(Numbered) /\ Len(broadcast) <= BroadcastCap
    /\ known \subseteq Users
    /\ clients \in [Users -> SUBSET Conns]
    /\ hub \in {"select", "deliver", "write"}
    /\ audience \subseteq Users
    /\ visiting \in Users \cup {NoUser}
    /\ todo \subseteq Conns
    /\ message \in Numbered \cup {NoMessage}
    /\ stage \in [Conns -> Stages]
    /\ gone \subseteq Conns
    /\ closed \subseteq Conns
    /\ received \in [Conns -> Seq(Numbered)]
    /\ waiting \in [Senders -> Sendable \cup {<<>>}]
    /\ sent \in 0..MaxMessages
    /\ overtaken \subseteq Conns

Init ==
    /\ register = <<>> /\ unregister = <<>> /\ broadcast = <<>>
    /\ known = {}
    /\ clients = [u \in Users |-> {}]
    /\ hub = "select"
    /\ audience = {} /\ visiting = NoUser /\ todo = {}
    /\ message = NoMessage
    /\ stage = [c \in Conns |-> "new"]
    /\ gone = {} /\ closed = {}
    /\ received = [c \in Conns |-> <<>>]
    /\ waiting = [s \in Senders |-> <<>>]
    /\ sent = 0
    /\ overtaken = {}

InQueue(c, q) == \E i \in 1..Len(q) : q[i] = c

-----------------------------------------------------------------------------
(* Seeded defects: how the decisions below could plausibly go wrong.  They  *)
(* are not part of the model; each shows that a property notices it.        *)

RoomForOneMore(q, cap) == Len(q) <= cap
WrittenByGoroutine(got, m) ==
    IF got = <<>> THEN <<m>> ELSE Append(Front(got), m) \o <<Last(got)>>
KeepsEntry(keys, u, cs) == keys
Keeps(cs, c) == cs
LeavesOpen(c) == {}
ToEveryone(m) == known
NeverEnds == "deliver"
KeepsReading == "reading"

-----------------------------------------------------------------------------
(* The decisions of the hub and of a connection, by name.                   *)

HasRoom(q, cap) == Len(q) < cap

\* The hub itself writes, and takes no other message before it has: what a peer
\* gets of a write follows all that was written before.
Written(got, m) == Append(got, m)

\* delete(clients, conn), conn.Close() and, for the last connection of a user,
\* delete(h.Clients, userID).
Without(cs, c) == cs \ {c}
Closing(c) == {c}
Entries(keys, u, cs) == IF cs = {} THEN keys \ {u} ELSE keys

\* The users a message is written to.
Audience(m) ==
    IF m.user \in known THEN {m.user}
    ELSE IF m.user = NoUser /\ m.kind = "balance" THEN known ELSE {}

AfterDelivery == "select"
AfterReadError == "leaving"

-----------------------------------------------------------------------------
(* A connection: HandleWebSocket and the goroutine that reads.              *)

Upgrade(c) ==
    /\ stage[c] = "new"
    /\ stage' = [stage EXCEPT ![c] = "offered"]
    /\ UNCHANGED <<channelVars, mapVars, hubVars, gone, closed, received,
                   senderVars, overtaken>>

Register(c) ==
    /\ stage[c] = "offered" /\ HasRoom(register, RegisterCap)
    /\ register' = Append(register, c)
    /\ stage' = [stage EXCEPT ![c] = "reading"]
    /\ UNCHANGED <<unregister, broadcast, mapVars, hubVars, gone, closed,
                   received, senderVars, overtaken>>

\* The browser closes the page or loses its network.
PeerGoes(c) ==
    /\ stage[c] \in {"offered", "reading"} /\ c \notin gone
    /\ gone' = gone \cup {c}
    /\ UNCHANGED <<channelVars, mapVars, hubVars, stage, closed, received,
                   senderVars, overtaken>>

ReadFails(c) ==
    /\ stage[c] = "reading" /\ c \in gone \cup closed
    /\ stage' = [stage EXCEPT ![c] = AfterReadError]
    /\ UNCHANGED <<channelVars, mapVars, hubVars, gone, closed, received,
                   senderVars, overtaken>>

Unregister(c) ==
    /\ stage[c] = "leaving" /\ HasRoom(unregister, UnregisterCap)
    /\ unregister' = Append(unregister, c)
    /\ stage' = [stage EXCEPT ![c] = "left"]
    /\ UNCHANGED <<register, broadcast, mapVars, hubVars, gone, closed,
                   received, senderVars, overtaken>>

Conn(c) == Upgrade(c) \/ Register(c) \/ ReadFails(c) \/ Unregister(c)

-----------------------------------------------------------------------------
(* A sender: BroadcastDepositSession, BroadcastWithdrawal, BroadcastBalance. *)

Prepare(s) ==
    /\ waiting[s] = <<>>
    /\ sent + Cardinality({t \in Senders : waiting[t] # <<>>}) < MaxMessages
    /\ \E m \in Sendable : waiting' = [waiting EXCEPT ![s] = m]
    /\ UNCHANGED <<channelVars, mapVars, hubVars, connVars, sent, overtaken>>

Send(s) ==
    /\ waiting[s] # <<>> /\ HasRoom(broadcast, BroadcastCap)
    /\ sent' = sent + 1
    /\ LET m == waiting[s] IN
       broadcast' = Append(broadcast,
                      [number |-> sent', user |-> m.user, kind |-> m.kind])
    /\ waiting' = [waiting EXCEPT ![s] = <<>>]
    /\ UNCHANGED <<register, unregister, mapVars, hubVars, connVars, overtaken>>

-----------------------------------------------------------------------------
(* The hub: Run.                                                            *)

TakeRegister ==
    /\ hub = "select" /\ register # <<>>
    /\ LET c == Head(register)
           u == UserOf[c]
       IN  /\ known' = known \cup {u}
           /\ clients' = [clients EXCEPT ![u] = @ \cup {c}]
    /\ register' = Tail(register)
    /\ UNCHANGED <<unregister, broadcast, hubVars, connVars, senderVars,
                   overtaken>>

\* A user without an entry is not looked at further, and the connection is not
\* closed then.
TakeUnregister ==
    /\ hub = "select" /\ unregister # <<>>
    /\ LET c == Head(unregister)
           u == UserOf[c]
           cs == Without(clients[u], c)
       IN  /\ IF u \in known
                THEN /\ clients' = [clients EXCEPT ![u] = cs]
                     /\ known' = Entries(known, u, cs)
                     /\ closed' = closed \cup {c}
                ELSE UNCHANGED <<clients, known, closed>>
           /\ overtaken' = IF InQueue(c, register) THEN overtaken \cup {c}
                                                   ELSE overtaken
    /\ unregister' = Tail(unregister)
    /\ UNCHANGED <<register, broadcast, hubVars, stage, gone, received,
                   senderVars>>

TakeMessage ==
    /\ hub = "select" /\ broadcast # <<>>
    /\ message' = Head(broadcast)
    /\ audience' = Audience(Head(broadcast))
    /\ broadcast' = Tail(broadcast)
    /\ hub' = "deliver"
    /\ UNCHANGED <<register, unregister, mapVars, visiting, todo, connVars,
                   senderVars, overtaken>>

Visit(u) ==
    /\ hub = "deliver" /\ u \in audience
    /\ audience' = audience \ {u}
    /\ visiting' = u
    /\ todo' = clients[u]
    /\ hub' = "write"
    /\ UNCHANGED <<channelVars, mapVars, message, connVars, senderVars,
                   overtaken>>

\* A write to a peer that is gone may still be taken by the network.
WriteSucceeds(c) ==
    /\ hub = "write" /\ c \in todo
    /\ c \notin closed
    /\ received' = IF c \in gone THEN received
                   ELSE [received EXCEPT ![c] = Written(@, message)]
    /\ todo' = todo \ {c}
    /\ UNCHANGED <<channelVars, mapVars, hub, audience, visiting, message,
                   stage, gone, closed, senderVars, overtaken>>

WriteFails(c) ==
    /\ hub = "write" /\ c \in todo
    /\ c \in gone \cup closed
    /\ closed' = closed \cup Closing(c)
    /\ clients' = [clients EXCEPT ![visiting] = Without(@, c)]
    /\ todo' = todo \ {c}
    /\ UNCHANGED <<channelVars, known, hub, audience, visiting, message, stage,
                   gone, received, senderVars, overtaken>>

EndVisit ==
    /\ hub = "write" /\ todo = {}
    /\ known' = Entries(known, visiting, clients[visiting])
    /\ visiting' = NoUser
    /\ hub' = "deliver"
    /\ UNCHANGED <<channelVars, clients, audience, todo, message, connVars,
                   senderVars, overtaken>>

EndDelivery ==
    /\ hub = "deliver" /\ audience = {}
    /\ message' = NoMessage
    /\ hub' = AfterDelivery
    /\ UNCHANGED <<channelVars, mapVars, audience, visiting, todo, connVars,
                   senderVars, overtaken>>

Write(c) == WriteSucceeds(c) \/ WriteFails(c)

Hub ==
    \/ TakeRegister \/ TakeUnregister \/ TakeMessage
    \/ \E u \in Users : Visit(u)
    \/ \E c \in Conns : Write(c)
    \/ EndVisit \/ EndDelivery

Next ==
    \/ \E c \in Conns : Conn(c) \/ PeerGoes(c)
    \/ \E s \in Senders : Prepare(s) \/ Send(s)
    \/ Hub

Spec == Init /\ [][Next]_vars

-----------------------------------------------------------------------------
(* Safety.                                                                  *)

\* Channels hold no more than their capacity, and between two turns of the
\* hub's loop the map has an entry for a user exactly when the user has
\* connections in it: entries do not pile up.
Consistent ==
    /\ TypeOK
    /\ hub = "select" => known = {u \in Users : clients[u] # {}}

\* What a peer receives is about its own user, or is a balance for everyone.
OnlyOwnMessages ==
    \A c \in Conns : \A i \in 1..Len(received[c]) :
        LET m == received[c][i] IN
        m.user = UserOf[c] \/ (m.user = NoUser /\ m.kind = "balance")

\* A peer receives messages in the order in which the channel took them, and
\* none of them twice, whatever connections come, go and fail meanwhile: what
\* the page shows last of a row is the last that was said of it.  This rests on
\* the hub writing by itself; with a goroutine for each write, against a peer
\* that does not read, an older status could come after a newer one.
InOrder ==
    \A c \in Conns : \A i, j \in 1..Len(received[c]) :
        i < j => received[c][i].number < received[c][j].number

\* The hub has handled the unregistration of c.
Unregistered(c) == stage[c] = "left" /\ ~InQueue(c, unregister)

\* A connection whose reader has ended and been unregistered is closed, or the
\* hub still knows it or is going to know it, and can close it when a write
\* fails: no open connection is lost.
ClosedOrKnown ==
    \A c \in Conns : Unregistered(c) =>
        \/ c \in closed
        \/ c \in clients[UserOf[c]]
        \/ InQueue(c, register)

\* A connection stays in the map after it was unregistered only if its
\* unregistration overtook its registration.
GhostsOvertook ==
    \A c \in Conns :
        Unregistered(c) /\ c \in clients[UserOf[c]] => c \in overtaken

-----------------------------------------------------------------------------
(* Liveness.                                                                *)

\* The hub runs, handlers and readers run, and a sender goes on when there is
\* room.  That select does not ignore a channel for ever, nor a channel one of
\* those who wait for it, need not be assumed while the messages and the
\* connections are bounded.
Fairness ==
    /\ WF_vars(Hub)
    /\ \A c \in Conns : WF_vars(Register(c) \/ ReadFails(c) \/ Unregister(c))
    /\ \A s \in Senders : WF_vars(Send(s))

FairSpec == Spec /\ Fairness

\* Whoever broadcasts goes on in the end: the hub never waits for a sender, a
\* reader or a handler, so that nobody waits in a circle.
SendersGoOn ==
    \A s \in Senders : waiting[s] # <<>> ~> waiting[s] = <<>>

\* A connection whose peer went away is closed in the end, or stays as a ghost
\* that the next failing write will close.
GoneAreClosed ==
    \A c \in Conns :
        c \in gone ~> c \in closed \/ c \in overtaken

=============================================================================
