-------------------------- MODULE RealtimeGateway --------------------------
(***************************************************************************)
(* The WebSocket gateway of an API instance, between the Redis channel and *)
(* its clients.  The handlers of Node's event loop are atomic; between     *)
(* them come the outcomes they wait for: a connection that closes after it *)
(* was terminated, a pong after a ping, data that leaves a send buffer.    *)
(*                                                                         *)
(* A client is a place from which at most one connection exists at a time. *)
(* Its address is what the limit per address counts.                       *)
(***************************************************************************)
EXTENDS Integers, Sequences, FiniteSets

CONSTANTS
  Clients,         \* clients, each with at most one connection
  IpOf,            \* the address of each client
  MaxConnections,  \* WS_MAX_CONNECTIONS
  MaxPerIp,        \* WS_MAX_CONNECTIONS_PER_IP
  MaxBuffered,     \* WS_MAX_BUFFERED_BYTES, in messages
  MaxEvents        \* bound: events published

ASSUME GatewayAssumption ==
  /\ IsFiniteSet(Clients)
  /\ MaxConnections \in Nat \ {0} /\ MaxPerIp \in Nat \ {0} /\ MaxBuffered \in Nat
  /\ MaxEvents \in Nat

VARIABLES
  gateway,               \* starting, failed, serving, closing or closed
  subscribed,            \* is the Redis subscription in force?
  channel,               \* events on their way to the subscriber
  published,             \* number of events published so far; each is its number
  socket,                \* the connection of each client: none, requested, open or closing
  isAlive,               \* the heartbeat's mark: no ping awaits its pong
  gone,                  \* clients that vanished without closing their connection
  buffered,              \* what was sent to each client and has not reached it
  connectionsByIp,
  websocketConnections,  \* the gauge of the metrics registry
  broadcasts,            \* history: the events broadcast
  expected               \* history: number of broadcasts each client has had or come too late for

gatewayVars == <<gateway, subscribed, channel, published, socket, isAlive, gone, buffered,
                 connectionsByIp, websocketConnections, broadcasts, expected>>

Ips == {IpOf[c] : c \in Clients}
Ready == 0   \* REALTIME_READY, the message every connection begins with

\* WebSocketServer.clients: from the upgrade to the close event
Connected == {c \in Clients : socket[c] \in {"open", "closing"}}

GatewayTypeOK ==
  /\ gateway \in {"starting", "failed", "serving", "closing", "closed"}
  /\ subscribed \in BOOLEAN
  /\ channel \in Seq(1..MaxEvents)
  /\ published \in 0..MaxEvents
  /\ socket \in [Clients -> {"none", "requested", "open", "closing"}]
  /\ isAlive \in [Clients -> BOOLEAN]
  /\ gone \subseteq Connected
  /\ buffered \in [Clients -> Seq(0..MaxEvents)]
  /\ connectionsByIp \in [Ips -> Nat]
  /\ websocketConnections \in Nat
  /\ broadcasts \in Seq(1..MaxEvents)
  /\ expected \in [Clients -> Nat]
  /\ gateway \in {"starting", "failed", "closed"} => Connected = {}

GatewayInit ==
  /\ gateway = "starting"
  /\ subscribed = FALSE
  /\ channel = <<>>
  /\ published = 0
  /\ socket \in [Clients -> {"none", "requested"}]
  /\ isAlive = [c \in Clients |-> TRUE]
  /\ gone = {}
  /\ buffered = [c \in Clients |-> <<>>]
  /\ connectionsByIp = [i \in Ips |-> 0]
  /\ websocketConnections = 0
  /\ broadcasts = <<>>
  /\ expected = [c \in Clients |-> 0]

-----------------------------------------------------------------------------
(* Redis *)

\* RealtimeEventPublisher.publish: only who is subscribed gets the event
Publish ==
  /\ published < MaxEvents
  /\ published' = published + 1
  /\ channel' = IF subscribed THEN Append(channel, published + 1) ELSE channel
  /\ UNCHANGED <<gateway, subscribed, socket, isAlive, gone, buffered,
                 connectionsByIp, websocketConnections, broadcasts, expected>>

\* The subscriber's connection breaks, with what is on its way ...
RedisLost ==
  /\ subscribed
  /\ subscribed' = FALSE
  /\ channel' = <<>>
  /\ UNCHANGED <<gateway, published, socket, isAlive, gone, buffered,
                 connectionsByIp, websocketConnections, broadcasts, expected>>

\* ... and it subscribes again when it has reconnected.
RedisBack ==
  /\ gateway = "serving"
  /\ ~subscribed
  /\ subscribed' = TRUE
  /\ UNCHANGED <<gateway, channel, published, socket, isAlive, gone, buffered,
                 connectionsByIp, websocketConnections, broadcasts, expected>>

-----------------------------------------------------------------------------
(* start and close *)

Start ==
  /\ gateway = "starting"
  /\ gateway' = "serving"
  /\ subscribed' = TRUE
  /\ UNCHANGED <<channel, published, socket, isAlive, gone, buffered,
                 connectionsByIp, websocketConnections, broadcasts, expected>>

\* Redis cannot be reached: no handler is installed, and the API runs without.
StartFails ==
  /\ gateway = "starting"
  /\ gateway' = "failed"
  /\ UNCHANGED <<subscribed, channel, published, socket, isAlive, gone, buffered,
                 connectionsByIp, websocketConnections, broadcasts, expected>>

\* terminate: the connection is cut and its close event is to come
Terminated(S) ==
  /\ socket' = [c \in Clients |-> IF c \in S THEN "closing" ELSE socket[c]]

\* close, up to its await
Close ==
  /\ gateway \in {"failed", "serving"}
  /\ gateway' = "closing"
  /\ Terminated(Connected)
  /\ buffered' = [c \in Clients |-> <<>>]
  /\ UNCHANGED <<subscribed, channel, published, isAlive, gone,
                 connectionsByIp, websocketConnections, broadcasts, expected>>

\* Mutant: the server is reported closed while connections still close.
ClosedEarly ==
  /\ gateway = "closing"
  /\ gateway' = "closed"
  /\ subscribed' = FALSE
  /\ channel' = <<>>
  /\ UNCHANGED <<published, socket, isAlive, gone, buffered,
                 connectionsByIp, websocketConnections, broadcasts, expected>>

\* The server's close callback comes when no client is left; quit.
Closed ==
  /\ gateway = "closing"
  /\ Connected = {}
  /\ gateway' = "closed"
  /\ subscribed' = FALSE
  /\ channel' = <<>>
  /\ UNCHANGED <<published, socket, isAlive, gone, buffered,
                 connectionsByIp, websocketConnections, broadcasts, expected>>

-----------------------------------------------------------------------------
(* Connections *)

\* Mutant: one connection too many is accepted.
FullOffByOne(c) == Cardinality(Connected) > MaxConnections \/ connectionsByIp[IpOf[c]] >= MaxPerIp

Full(c) == Cardinality(Connected) >= MaxConnections \/ connectionsByIp[IpOf[c]] >= MaxPerIp

\* handleUpgrade; path and origin are refused like a full gateway.  Before
\* start has finished, or after close, nobody handles the upgrade.
Refuse(c) ==
  /\ socket[c] = "requested"
  /\ gateway = "serving" => Full(c)
  /\ socket' = [socket EXCEPT ![c] = "none"]
  /\ UNCHANGED <<gateway, subscribed, channel, published, isAlive, gone, buffered,
                 connectionsByIp, websocketConnections, broadcasts, expected>>

Accept(c) ==
  /\ socket[c] = "requested"
  /\ gateway = "serving"
  /\ ~Full(c)
  /\ socket' = [socket EXCEPT ![c] = "open"]
  /\ isAlive' = [isAlive EXCEPT ![c] = TRUE]
  /\ websocketConnections' = websocketConnections + 1
  /\ connectionsByIp' = [connectionsByIp EXCEPT ![IpOf[c]] = @ + 1]
  /\ buffered' = [buffered EXCEPT ![c] = <<Ready>>]
  /\ expected' = [expected EXCEPT ![c] = Len(broadcasts)]
  /\ UNCHANGED <<gateway, subscribed, channel, published, gone, broadcasts>>

\* The registry's gauge never goes below zero.
websocketClosedConnection ==
  websocketConnections' = IF websocketConnections > 0 THEN websocketConnections - 1 ELSE 0

\* The close event, after the gateway or the client ended the connection.
CloseEvent(c) ==
  /\ socket' = [socket EXCEPT ![c] = "none"]
  /\ isAlive' = [isAlive EXCEPT ![c] = TRUE]
  /\ gone' = gone \ {c}
  /\ buffered' = [buffered EXCEPT ![c] = <<>>]
  /\ expected' = [expected EXCEPT ![c] = 0]
  /\ websocketClosedConnection
  /\ connectionsByIp' = [connectionsByIp EXCEPT ![IpOf[c]] = IF @ > 1 THEN @ - 1 ELSE 0]
  /\ UNCHANGED <<gateway, subscribed, channel, published, broadcasts>>

SocketCloses(c) == socket[c] = "closing" /\ CloseEvent(c)
PeerCloses(c)   == socket[c] = "open" /\ c \notin gone /\ CloseEvent(c)

\* A client that sends anything is closed with 1008.
ClientMessage(c) ==
  /\ socket[c] = "open"
  /\ c \notin gone
  /\ socket' = [socket EXCEPT ![c] = "closing"]
  /\ UNCHANGED <<gateway, subscribed, channel, published, isAlive, gone, buffered,
                 connectionsByIp, websocketConnections, broadcasts, expected>>

\* A client loses its network or its power; nothing tells the gateway.
Vanish(c) ==
  /\ socket[c] = "open"
  /\ gone' = gone \cup {c}
  /\ UNCHANGED <<gateway, subscribed, channel, published, socket, isAlive, buffered,
                 connectionsByIp, websocketConnections, broadcasts, expected>>

-----------------------------------------------------------------------------
(* Broadcast and heartbeat *)

\* What a client has still to read of what was broadcast.
Unread(c) == IF buffered[c] # <<>> /\ Head(buffered[c]) = Ready THEN Tail(buffered[c]) ELSE buffered[c]

Slow == {c \in Clients : socket[c] = "open" /\ Len(buffered[c]) > MaxBuffered}

\* Mutant: a slow client misses the event and stays connected.
BroadcastSkipsSlow ==
  /\ gateway \in {"serving", "closing"}
  /\ channel # <<>>
  /\ channel' = Tail(channel)
  /\ broadcasts' = Append(broadcasts, Head(channel))
  /\ buffered' = [c \in Clients |-> IF socket[c] = "open" /\ c \notin Slow
                                    THEN Append(buffered[c], Head(channel)) ELSE buffered[c]]
  /\ UNCHANGED <<gateway, subscribed, published, socket, isAlive, gone,
                 connectionsByIp, websocketConnections, expected>>

\* The message handler: an event is sent to every open connection, and one that
\* has too much to read already is terminated.
Broadcast ==
  /\ gateway \in {"serving", "closing"}
  /\ channel # <<>>
  /\ channel' = Tail(channel)
  /\ broadcasts' = Append(broadcasts, Head(channel))
  /\ Terminated(Slow)
  /\ buffered' = [c \in Clients |-> IF c \in Slow THEN <<>>
                                    ELSE IF socket[c] = "open" THEN Append(buffered[c], Head(channel))
                                    ELSE buffered[c]]
  /\ UNCHANGED <<gateway, subscribed, published, isAlive, gone,
                 connectionsByIp, websocketConnections, expected>>

Silent == {c \in Connected : ~isAlive[c]}

\* Mutant: a client is pinged without being marked.
HeartbeatUnmarked ==
  /\ gateway = "serving"
  /\ Terminated(Silent)
  /\ buffered' = [c \in Clients |-> IF c \in Silent THEN <<>> ELSE buffered[c]]
  /\ UNCHANGED <<gateway, subscribed, channel, published, isAlive, gone,
                 connectionsByIp, websocketConnections, broadcasts, expected>>

\* checkConnections
Heartbeat ==
  /\ gateway = "serving"
  /\ Terminated(Silent)
  /\ buffered' = [c \in Clients |-> IF c \in Silent THEN <<>> ELSE buffered[c]]
  /\ isAlive' = [c \in Clients |-> isAlive[c] /\ c \notin Connected \ Silent]
  /\ UNCHANGED <<gateway, subscribed, channel, published, gone,
                 connectionsByIp, websocketConnections, broadcasts, expected>>

Pong(c) ==
  /\ ~isAlive[c]
  /\ c \in Connected \ gone
  /\ isAlive' = [isAlive EXCEPT ![c] = TRUE]
  /\ UNCHANGED <<gateway, subscribed, channel, published, socket, gone, buffered,
                 connectionsByIp, websocketConnections, broadcasts, expected>>

\* What was sent first reaches the client.
Deliver(c) ==
  /\ buffered[c] # <<>>
  /\ c \notin gone
  /\ buffered' = [buffered EXCEPT ![c] = Tail(@)]
  /\ expected' = [expected EXCEPT ![c] = IF Head(buffered[c]) = Ready THEN @ ELSE @ + 1]
  /\ UNCHANGED <<gateway, subscribed, channel, published, socket, isAlive, gone,
                 connectionsByIp, websocketConnections, broadcasts>>
=============================================================================
