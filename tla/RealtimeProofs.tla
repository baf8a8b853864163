---------------------------- MODULE RealtimeProofs ----------------------------
(***************************************************************************)
(* Theorems of Realtime, for any finite number of clients, any addresses,  *)
(* limits and queries.                                                     *)
(*                                                                         *)
(* The steps of the gateway and of the page are taken apart first: each    *)
(* has an invariant of its own.  Every connection that counts was counted  *)
(* when it was accepted and is until its close event, so that the counts   *)
(* stay those of a set that changes by one member at a time.               *)
(***************************************************************************)
EXTENDS Realtime, FiniteSetTheorems, SequenceTheorems, TLAPS

ConnectionActs(c) ==
  \/ Request(c) \/ Refuse(c) \/ Accept(c) \/ SocketCloses(c) \/ PeerCloses(c)
  \/ ClientMessage(c) \/ Vanish(c) \/ Pong(c) \/ Deliver(c)

GatewayActs ==
  \/ Start \/ StartFails \/ RedisLost \/ RedisBack \/ Publish \/ Close \/ Closed
  \/ Broadcast \/ Heartbeat
  \/ \E c \in Clients : ConnectionActs(c)

PageActs ==
  \/ Answers \/ User \/ Reconnect \/ SocketOpens \/ SocketLost \/ Unmount
  \/ Message(TRUE) \/ Message(FALSE)

\* Each step is one of the gateway, of the page, or of both.
LEMMA Apart ==
  ASSUME [Next]_vars
  PROVE  [GatewayActs]_gatewayVars /\ [PageActs]_pageVars
<1>1. CASE UNCHANGED vars
  BY <1>1 DEF vars
<1>2. CASE (Server \/ Environment) /\ UNCHANGED pageVars
  BY <1>2 DEF Server, Environment, Others, GatewayActs, ConnectionActs
<1>3. CASE (Answers \/ User) /\ UNCHANGED gatewayVars
  BY <1>3 DEF PageActs
<1>4. CASE PageConnects \/ PageLoses \/ PageLeaves
  BY <1>4, PageAssumption DEF PageConnects, PageLoses, PageLeaves, PageActs, GatewayActs, ConnectionActs, PageAssumption
<1>5. CASE PageReceives
  <2>1. Deliver(Page) /\ (UNCHANGED pageVars \/ \E b \in BOOLEAN : Message(b))
    BY <1>5 DEF PageReceives
  <2> QED BY <2>1, PageAssumption DEF PageActs, GatewayActs, ConnectionActs, PageAssumption
<1> QED BY <1>1, <1>2, <1>3, <1>4, <1>5 DEF Next

-----------------------------------------------------------------------------
(* The page *)

LEMMA PageTyped ==
  /\ PageInit => PageTypeOK
  /\ PageTypeOK /\ [PageActs]_pageVars => PageTypeOK'
<1> USE DEF PageTypeOK
<1>1. PageInit => PageTypeOK
  BY TripAssumption DEF PageInit
<1>2. ASSUME PageTypeOK, [PageActs]_pageVars PROVE PageTypeOK'
  <2>1. CASE UNCHANGED pageVars
    BY <1>2, <2>1 DEF pageVars
  <2>2. ASSUME NEW i \in Calls, NEW q \in Queries, FindRoutes(i, q), UNCHANGED initial \/ initial' = Nothing,
               query' \in Queries
        PROVE  PageTypeOK'
    <3>1. call' \in [Calls -> Queries \cup {Nothing}] /\ call'[i] # Nothing
      BY <1>2, <2>2, TripAssumption DEF FindRoutes, TripAssumption
    <3> QED BY <1>2, <2>2, <3>1 DEF FindRoutes, refreshVars
  <2>3. CASE Answers
    <3>1. CASE RefreshFails \/ RefreshAnswered \/ RefreshDone
      BY <1>2, <2>3, <3>1 DEF RefreshFails, RefreshAnswered, RefreshDone, RefreshOver
    <3>2. ASSUME NEW i \in Calls, InitialSearch(i) PROVE PageTypeOK'
      BY <1>2, <2>2, <3>2 DEF InitialSearch
    <3>3. ASSUME NEW i \in Calls, Answered(i) PROVE PageTypeOK'
      BY <1>2, <3>3 DEF Answered, calculateRoutes, refreshVars
    <3> QED BY <2>3, <3>1, <3>2, <3>3 DEF Answers
  <2>4. CASE User
    <3>1. CASE AcceptSuggestion \/ Dismiss \/ \E q \in Queries : Choose(q)
      BY <1>2, <3>1 DEF AcceptSuggestion, Dismiss, Choose, refreshVars
    <3>2. ASSUME NEW i \in Calls, Compare(i) \/ SwapLocations(i) PROVE PageTypeOK'
      BY <1>2, <2>2, <3>2, TripAssumption DEF Compare, SwapLocations, TripAssumption
    <3> QED BY <2>4, <3>1, <3>2 DEF User
  <2>5. CASE Reconnect \/ SocketOpens \/ SocketLost
    BY <1>2, <2>5 DEF Reconnect, SocketOpens, SocketLost, tripVars
  <2>6. CASE Unmount
    BY <1>2, <2>6 DEF Unmount
  <2>7. CASE Message(TRUE) \/ Message(FALSE)
    BY <1>2, <2>7, TripAssumption DEF Message, HandleSafetyEvent, pageVars, refreshVars, TripAssumption
  <2> QED BY <1>2, <2>1, <2>3, <2>4, <2>5, <2>6, <2>7 DEF PageActs
<1> QED BY <1>1, <1>2

-----------------------------------------------------------------------------
(* The gateway: types *)

LEMMA CloseEventTyped ==
  ASSUME GatewayAssumption, GatewayTypeOK, NEW c \in Clients, socket[c] \in {"open", "closing"}, CloseEvent(c)
  PROVE  GatewayTypeOK'
<1> USE DEF GatewayTypeOK, CloseEvent, Connected, Ips
<1>1. websocketConnections' \in Nat /\ connectionsByIp' \in [Ips -> Nat]
  <2>1. \A n \in Nat : (IF n > 1 THEN n - 1 ELSE 0) \in Nat
    OBVIOUS
  <2> QED BY <2>1 DEF websocketClosedConnection
<1>2. socket' \in [Clients -> {"none", "requested", "open", "closing"}] /\ gone' \subseteq Connected'
  OBVIOUS
<1>3. /\ isAlive' \in [Clients -> BOOLEAN] /\ buffered' \in [Clients -> Seq(0..MaxEvents)]
      /\ expected' \in [Clients -> Nat]
  OBVIOUS
<1> QED BY <1>1, <1>2, <1>3

LEMMA ConnectionTyped ==
  ASSUME GatewayAssumption, GatewayTypeOK, NEW c \in Clients, ConnectionActs(c)
  PROVE  GatewayTypeOK'
<1> USE DEF GatewayTypeOK, Connected, Ips
<1>1. CASE Request(c) \/ Refuse(c) \/ ClientMessage(c) \/ Vanish(c) \/ Pong(c)
  BY <1>1 DEF Request, Refuse, ClientMessage, Vanish, Pong
<1>2. CASE Accept(c)
  BY <1>2 DEF Accept, Ready, GatewayAssumption
<1>3. CASE SocketCloses(c) \/ PeerCloses(c)
  BY <1>3, CloseEventTyped DEF SocketCloses, PeerCloses
<1>4. CASE Deliver(c)
  <2>1. /\ buffered[c] \in Seq(0..MaxEvents) /\ buffered[c] # <<>>
        /\ buffered' = [buffered EXCEPT ![c] = Tail(@)]
    BY <1>4 DEF Deliver
  <2>2. Tail(buffered[c]) \in Seq(0..MaxEvents)
    BY <2>1
  <2>3. buffered' \in [Clients -> Seq(0..MaxEvents)]
    BY <2>1, <2>2
  <2>4. expected' \in [Clients -> Nat]
    BY <1>4 DEF Deliver
  <2> QED BY <1>4, <2>3, <2>4 DEF Deliver
<1> QED BY <1>1, <1>2, <1>3, <1>4 DEF ConnectionActs

LEMMA Bounds == MaxEvents \in Nat /\ MaxBuffered \in Nat /\ 0 \in 0..MaxEvents /\ 1..MaxEvents \subseteq 0..MaxEvents
BY GatewayAssumption DEF GatewayAssumption

LEMMA GatewayTyped ==
  /\ GatewayInit => GatewayTypeOK
  /\ GatewayTypeOK /\ [GatewayActs]_gatewayVars => GatewayTypeOK'
<1> USE DEF GatewayTypeOK, Connected, Ips
<1>1. GatewayInit => GatewayTypeOK
  <2> SUFFICES ASSUME GatewayInit PROVE GatewayTypeOK OBVIOUS
  <2> USE DEF GatewayInit
  <2>1. /\ gateway \in {"starting", "failed", "serving", "closing", "closed"} /\ subscribed \in BOOLEAN
        /\ published \in 0..MaxEvents
    BY Bounds
  <2>5. channel \in Seq(1..MaxEvents) /\ broadcasts \in Seq(1..MaxEvents)
    BY EmptySeq, Zenon
  <2>2. /\ socket \in [Clients -> {"none", "requested", "open", "closing"}] /\ isAlive \in [Clients -> BOOLEAN]
        /\ buffered \in [Clients -> Seq(0..MaxEvents)] /\ expected \in [Clients -> Nat]
    OBVIOUS
  <2>3. /\ connectionsByIp \in [Ips -> Nat] /\ websocketConnections \in Nat
    OBVIOUS
  <2>4. Connected = {} /\ gone \subseteq Connected
    OBVIOUS
  <2> QED BY <2>1, <2>2, <2>3, <2>4, <2>5
<1>2. ASSUME GatewayTypeOK, [GatewayActs]_gatewayVars PROVE GatewayTypeOK'
  <2>1. CASE UNCHANGED gatewayVars
    BY <1>2, <2>1 DEF gatewayVars, Ips
  <2>2. CASE Start \/ StartFails \/ RedisLost \/ RedisBack \/ Closed
    <3>1. CASE Start \/ StartFails
      BY <1>2, <3>1 DEF Start, StartFails
    <3>2. CASE RedisLost \/ RedisBack
      BY <1>2, <3>2, EmptySeq DEF RedisLost, RedisBack
    <3>3. CASE Closed
      BY <1>2, <3>3, EmptySeq DEF Closed
    <3> QED BY <2>2, <3>1, <3>2, <3>3
  <2>3. CASE Publish
    <3>1. published + 1 \in 1..MaxEvents
      BY <1>2, <2>3, Bounds DEF Publish
    <3>2. channel' \in Seq(1..MaxEvents)
      <4>1. channel \in Seq(1..MaxEvents)
        BY <1>2
      <4>2. Append(channel, published + 1) \in Seq(1..MaxEvents)
        BY <3>1, <4>1
      <4> QED BY <2>3, <4>1, <4>2 DEF Publish
    <3> QED BY <1>2, <2>3, <3>1, <3>2 DEF Publish
  <2>4. CASE Close
    BY <1>2, <2>4 DEF Close, Terminated
  <2>5. CASE Broadcast
    <3>1. Head(channel) \in 1..MaxEvents /\ channel' \in Seq(1..MaxEvents) /\ broadcasts' \in Seq(1..MaxEvents)
      BY <1>2, <2>5, HeadTailProperties, AppendProperties DEF Broadcast
    <3>2. buffered' \in [Clients -> Seq(0..MaxEvents)]
      <4>1. \A c \in Clients : Append(buffered[c], Head(channel)) \in Seq(0..MaxEvents)
        BY <1>2, <3>1
      <4>2. \A c \in Clients : buffered[c] \in Seq(0..MaxEvents) /\ <<>> \in Seq(0..MaxEvents)
        BY <1>2
      <4>3. buffered' = [c \in Clients |-> IF c \in Slow THEN <<>>
                                          ELSE IF socket[c] = "open" THEN Append(buffered[c], Head(channel))
                                          ELSE buffered[c]]
        BY <2>5 DEF Broadcast
      <4> HIDE DEF Connected
      <4> QED BY <4>1, <4>2, <4>3
    <3> QED BY <1>2, <2>5, <3>1, <3>2 DEF Broadcast, Terminated, Slow
  <2>6. CASE Heartbeat
    <3>1. socket' = [c \in Clients |-> IF c \in Silent THEN "closing" ELSE socket[c]] /\ Silent \subseteq Connected
      BY <2>6 DEF Heartbeat, Terminated, Silent
    <3>2. socket' \in [Clients -> {"none", "requested", "open", "closing"}] /\ Connected' = Connected
      BY <1>2, <3>1
    <3>3. isAlive' \in [Clients -> BOOLEAN] /\ buffered' \in [Clients -> Seq(0..MaxEvents)]
      BY <1>2, <2>6, EmptySeq DEF Heartbeat
    <3> QED BY <1>2, <2>6, <3>2, <3>3 DEF Heartbeat
  <2>7. ASSUME NEW c \in Clients, ConnectionActs(c) PROVE GatewayTypeOK'
    BY <1>2, <2>7, ConnectionTyped, GatewayAssumption
  <2> QED BY <1>2, <2>1, <2>2, <2>3, <2>4, <2>5, <2>6, <2>7 DEF GatewayActs
<1> QED BY <1>1, <1>2

-----------------------------------------------------------------------------
(* The gateway: counts *)

At(i) == {c \in Connected : IpOf[c] = i}

Counted ==
  /\ websocketConnections = Cardinality(Connected)
  /\ \A i \in Ips : connectionsByIp[i] = Cardinality(At(i))
  /\ Cardinality(Connected) <= MaxConnections
  /\ \A i \in Ips : connectionsByIp[i] <= MaxPerIp

LEMMA FiniteConnections ==
  /\ IsFiniteSet(Connected) /\ Cardinality(Connected) \in Nat
  /\ \A i : IsFiniteSet(At(i)) /\ Cardinality(At(i)) \in Nat
<1>1. IsFiniteSet(Clients)
  BY GatewayAssumption DEF GatewayAssumption
<1>2. IsFiniteSet(Connected)
  BY <1>1, FS_Subset DEF Connected
<1>3. ASSUME NEW i PROVE IsFiniteSet(At(i))
  BY <1>2, FS_Subset DEF At
<1> QED BY <1>2, <1>3, FS_CardinalityType

\* What a step does to the set of connections that count.
Quiet == Connected' = Connected /\ UNCHANGED <<connectionsByIp, websocketConnections>>

LEMMA Connections ==
  ASSUME GatewayTypeOK, [GatewayActs]_gatewayVars
  PROVE  \/ Quiet
         \/ \E c \in Clients : Accept(c)
         \/ \E c \in Connected : CloseEvent(c)
<1> USE DEF Connected, GatewayTypeOK
<1>1. CASE UNCHANGED gatewayVars
  BY <1>1 DEF Quiet, gatewayVars
<1>2. CASE Start \/ StartFails \/ RedisLost \/ RedisBack \/ Publish \/ Closed
  BY <1>2 DEF Quiet, Start, StartFails, RedisLost, RedisBack, Publish, Closed
<1>3. CASE Close \/ Broadcast \/ Heartbeat
  BY <1>3 DEF Quiet, Close, Broadcast, Heartbeat, Terminated, Slow, Silent
<1>4. ASSUME NEW c \in Clients, Request(c) \/ Refuse(c) \/ ClientMessage(c) \/ Vanish(c) \/ Pong(c) \/ Deliver(c)
      PROVE  Quiet
  BY <1>4 DEF Quiet, Request, Refuse, ClientMessage, Vanish, Pong, Deliver
<1>5. ASSUME NEW c \in Clients, SocketCloses(c) \/ PeerCloses(c)
      PROVE  c \in Connected /\ CloseEvent(c)
  BY <1>5 DEF SocketCloses, PeerCloses
<1> QED BY <1>1, <1>2, <1>3, <1>4, <1>5 DEF GatewayActs, ConnectionActs

\* A connection is accepted only while both counts have room.
LEMMA AcceptCounted ==
  ASSUME GatewayTypeOK, Counted, NEW c \in Clients, Accept(c)
  PROVE  Counted'
<1>1. /\ Connected' = Connected \cup {c} /\ c \notin Connected
      /\ \A i \in Ips : At(i)' = IF i = IpOf[c] THEN At(i) \cup {c} ELSE At(i)
  BY DEF Accept, GatewayTypeOK, Connected, At
<1>2. /\ Cardinality(Connected') = Cardinality(Connected) + 1
      /\ \A i \in Ips : Cardinality(At(i) \cup {c}) = Cardinality(At(i)) + 1
  <2>1. \A i \in Ips : c \notin At(i)
    BY <1>1 DEF At
  <2> QED BY <1>1, <2>1, FiniteConnections, FS_AddElement
<1>3. /\ Cardinality(Connected) < MaxConnections /\ connectionsByIp[IpOf[c]] < MaxPerIp
      /\ IpOf[c] \in Ips
  <2>1. IpOf[c] \in Ips
    BY GatewayAssumption DEF Ips, GatewayAssumption
  <2>2. ~Full(c) /\ connectionsByIp[IpOf[c]] \in Nat
    BY <2>1 DEF Accept, GatewayTypeOK
  <2>3. Cardinality(Connected) \in Nat
    BY FiniteConnections, FS_CardinalityType
  <2> QED BY <2>1, <2>2, <2>3, GatewayAssumption DEF Full, GatewayAssumption
<1>4. /\ websocketConnections' = websocketConnections + 1
      /\ connectionsByIp' = [connectionsByIp EXCEPT ![IpOf[c]] = @ + 1]
  BY DEF Accept
<1>5. websocketConnections' = Cardinality(Connected') /\ Cardinality(Connected') <= MaxConnections
  BY <1>2, <1>3, <1>4, FiniteConnections, GatewayAssumption DEF Counted, GatewayAssumption
<1>6. ASSUME NEW i \in Ips PROVE connectionsByIp'[i] = Cardinality(At(i)') /\ connectionsByIp'[i] <= MaxPerIp
  <2>1. CASE i = IpOf[c]
    BY <1>1, <1>2, <1>3, <1>4, <2>1, FiniteConnections, GatewayAssumption
       DEF Counted, GatewayTypeOK, GatewayAssumption
  <2>2. CASE i # IpOf[c]
    BY <1>1, <1>4, <2>2 DEF Counted, GatewayTypeOK
  <2> QED BY <2>1, <2>2
<1> QED BY <1>5, <1>6 DEF Counted, Ips

\* The close event of a connection takes back what was counted for it.
LEMMA CloseCounted ==
  ASSUME GatewayTypeOK, Counted, NEW c \in Connected, CloseEvent(c)
  PROVE  Counted'
<1>1. /\ Connected' = Connected \ {c} /\ c \in At(IpOf[c]) /\ IpOf[c] \in Ips
      /\ \A i \in Ips : At(i)' = IF i = IpOf[c] THEN At(i) \ {c} ELSE At(i)
  BY DEF CloseEvent, GatewayTypeOK, Connected, At, Ips
<1>2. /\ Cardinality(Connected') = Cardinality(Connected) - 1 /\ Cardinality(Connected') \in Nat
      /\ Cardinality(At(IpOf[c]) \ {c}) = Cardinality(At(IpOf[c])) - 1
      /\ Cardinality(At(IpOf[c]) \ {c}) \in Nat
  BY <1>1, FiniteConnections, FS_RemoveElement, FS_CardinalityType
<1>3. websocketConnections' = Cardinality(Connected') /\ Cardinality(Connected') <= MaxConnections
  BY <1>2, FiniteConnections, GatewayAssumption
     DEF CloseEvent, websocketClosedConnection, Counted, GatewayTypeOK, GatewayAssumption
<1>4. ASSUME NEW i \in Ips PROVE connectionsByIp'[i] = Cardinality(At(i)') /\ connectionsByIp'[i] <= MaxPerIp
  <2>0. connectionsByIp' = [connectionsByIp EXCEPT ![IpOf[c]] = IF @ > 1 THEN @ - 1 ELSE 0]
    BY DEF CloseEvent
  <2>1. CASE i = IpOf[c]
    <3>1. connectionsByIp[i] = Cardinality(At(i)) /\ connectionsByIp[i] <= MaxPerIp /\ connectionsByIp[i] \in Nat
      BY DEF Counted, GatewayTypeOK
    <3>2. connectionsByIp'[i] = IF connectionsByIp[i] > 1 THEN connectionsByIp[i] - 1 ELSE 0
      BY <1>1, <2>0, <2>1 DEF GatewayTypeOK
    <3> QED BY <1>1, <1>2, <2>1, <3>1, <3>2, GatewayAssumption DEF GatewayAssumption
  <2>2. CASE i # IpOf[c]
    BY <1>1, <2>0, <2>2 DEF Counted, GatewayTypeOK
  <2> QED BY <2>1, <2>2
<1> QED BY <1>3, <1>4 DEF Counted, Ips

LEMMA StaysCounted ==
  ASSUME GatewayTypeOK, Counted, [GatewayActs]_gatewayVars
  PROVE  Counted'
<1>1. CASE Quiet
  BY <1>1 DEF Quiet, Counted, At, Ips
<1>2. CASE ~Quiet
  BY <1>2, Connections, AcceptCounted, CloseCounted
<1> QED BY <1>1, <1>2

-----------------------------------------------------------------------------
(* The gateway: what is sent *)

Short == \A c \in Clients : Len(buffered[c]) <= MaxBuffered + 1

\* NoGaps, message by message.
InTurn(c) ==
  /\ expected[c] + Len(Unread(c)) = Len(broadcasts)
  /\ \A k \in 1 .. Len(Unread(c)) : Unread(c)[k] = broadcasts[expected[c] + k]

AllInTurn == \A c \in Clients : socket[c] = "open" => InTurn(c)

LEMMA UnreadType ==
  ASSUME GatewayTypeOK, NEW c \in Clients
  PROVE  /\ Unread(c) \in Seq(0..MaxEvents) /\ buffered[c] \in Seq(0..MaxEvents)
         /\ expected[c] \in Nat /\ broadcasts \in Seq(1..MaxEvents)
<1>1. /\ buffered[c] \in Seq(0..MaxEvents) /\ expected[c] \in Nat /\ broadcasts \in Seq(1..MaxEvents)
  BY DEF GatewayTypeOK
<1>2. buffered[c] # <<>> => Tail(buffered[c]) \in Seq(0..MaxEvents)
  BY <1>1, HeadTailProperties
<1> QED BY <1>1, <1>2 DEF Unread

LEMMA InTurnIsNoGaps == GatewayTypeOK /\ AllInTurn => NoGaps
<1> SUFFICES ASSUME GatewayTypeOK, NEW c \in Clients, InTurn(c)
             PROVE  Unread(c) = SubSeq(broadcasts, expected[c] + 1, Len(broadcasts))
  BY DEF AllInTurn, NoGaps
<1> DEFINE u == Unread(c)
           e == expected[c]
           n == Len(broadcasts)
           rest == SubSeq(broadcasts, e + 1, n)
<1>1. /\ u \in Seq(0..MaxEvents) /\ e \in Nat /\ broadcasts \in Seq(1..MaxEvents) /\ n \in Nat
      /\ e + Len(u) = n /\ \A k \in 1 .. Len(u) : u[k] = broadcasts[e + k]
  BY UnreadType DEF InTurn
<1> HIDE DEF u, e, n
<1>2. rest = [k \in 1 .. Len(u) |-> broadcasts[e + k]]
  <2>1. rest = [k \in 1 .. n - (e + 1) + 1 |-> broadcasts[k + (e + 1) - 1]]
    BY <1>1 DEF n
  <2>2. n - (e + 1) + 1 = Len(u) /\ \A k \in 1 .. Len(u) : k + (e + 1) - 1 = e + k
    BY <1>1
  <2> QED BY <2>1, <2>2
<1>3. u = [k \in 1 .. Len(u) |-> u[k]]
  BY <1>1
<1>4. u = rest
  BY <1>1, <1>2, <1>3
<1> QED BY <1>4 DEF u, e, n

\* What is not sent to, or ends.
LEMMA KeepsTurn ==
  ASSUME AllInTurn, UNCHANGED broadcasts,
         \A c \in Clients : socket'[c] = "open" =>
           socket[c] = "open" /\ buffered'[c] = buffered[c] /\ expected'[c] = expected[c]
  PROVE  AllInTurn'
<1> SUFFICES ASSUME NEW c \in Clients, socket'[c] = "open" PROVE InTurn(c)'
  BY DEF AllInTurn
<1>1. Unread(c)' = Unread(c) /\ expected'[c] = expected[c]
  BY DEF Unread
<1>2. InTurn(c)
  BY DEF AllInTurn
<1> QED BY <1>1, <1>2 DEF InTurn

LEMMA BroadcastInTurn ==
  ASSUME GatewayTypeOK, AllInTurn, Broadcast
  PROVE  AllInTurn'
<1> SUFFICES ASSUME NEW c \in Clients, socket'[c] = "open" PROVE InTurn(c)'
  BY DEF AllInTurn
<1> DEFINE event == Head(channel)
           b == buffered[c]
<1>1. /\ event \in 1 .. MaxEvents /\ event \in 0 .. MaxEvents /\ b \in Seq(0..MaxEvents) /\ expected[c] \in Nat
      /\ broadcasts \in Seq(1..MaxEvents) /\ broadcasts' = Append(broadcasts, event)
      /\ expected' = expected
  BY UnreadType, Bounds DEF Broadcast, GatewayTypeOK
<1>2. socket[c] = "open" /\ buffered'[c] = Append(b, event)
  BY DEF Broadcast, Terminated, GatewayTypeOK
<1>3. InTurn(c) /\ Unread(c) \in Seq(0..MaxEvents)
  BY <1>2, UnreadType DEF AllInTurn
<1> HIDE DEF event
<1>4. Unread(c)' = Append(Unread(c), event)
  <2>1. CASE b = <<>>
    <3>1. Head(Append(b, event)) = event /\ event # Ready
      BY <1>1, <2>1, HeadTailAppend DEF Ready
    <3>2. Unread(c)' = Append(b, event)
      BY <1>2, <3>1 DEF Unread
    <3>3. Unread(c) = b
      BY <2>1 DEF Unread
    <3> QED BY <3>2, <3>3
  <2>2. CASE b # <<>>
    <3>b. Append(b, event) # <<>>
      <4>1. b \in Seq(0..MaxEvents) /\ event \in 0 .. MaxEvents
        BY <1>1
      <4> QED BY <4>1, AppendProperties
    <3>a. /\ Head(Append(b, event)) = Head(b)
          /\ Tail(Append(b, event)) = Append(Tail(b), event)
      BY <1>1, <2>2, HeadTailAppend
    <3>1. /\ Append(b, event) # <<>> /\ Head(Append(b, event)) = Head(b)
          /\ Tail(Append(b, event)) = Append(Tail(b), event)
      BY <3>b, <3>a
    <3>2. Unread(c)' = IF Head(b) = Ready THEN Tail(Append(b, event)) ELSE Append(b, event)
      BY <1>2, <3>1 DEF Unread
    <3>3. Unread(c) = IF Head(b) = Ready THEN Tail(b) ELSE b
      BY <2>2 DEF Unread
    <3> QED BY <3>1, <3>2, <3>3
  <2> QED BY <2>1, <2>2
<1>5. /\ Len(Unread(c)') = Len(Unread(c)) + 1 /\ Unread(c)'[Len(Unread(c)) + 1] = event
      /\ \A k \in 1 .. Len(Unread(c)) : Unread(c)'[k] = Unread(c)[k]
  BY <1>1, <1>3, <1>4, AppendProperties
<1>6. /\ Len(broadcasts') = Len(broadcasts) + 1 /\ broadcasts'[Len(broadcasts) + 1] = event
      /\ \A k \in 1 .. Len(broadcasts) : broadcasts'[k] = broadcasts[k]
  BY <1>1, AppendProperties
<1>7. Len(Unread(c)) \in Nat /\ Len(broadcasts) \in Nat
  BY <1>1, <1>3, LenProperties
<1>a. expected[c] + Len(Unread(c)) = Len(broadcasts)
  BY <1>3 DEF InTurn
<1>b. \A i, j, k \in Nat : i + j = k => i + (j + 1) = k + 1
  OBVIOUS
<1>c. expected[c] \in Nat
  BY <1>1
<1>8. expected[c] + Len(Unread(c)') = Len(broadcasts')
  <2>1. expected[c] + (Len(Unread(c)) + 1) = Len(broadcasts) + 1
    BY <1>7, <1>a, <1>b, <1>c
  <2> QED BY <2>1, <1>1, <1>5, <1>6
<1>9. ASSUME NEW k \in 1 .. Len(Unread(c)') PROVE Unread(c)'[k] = broadcasts'[expected[c] + k]
  <2>1. CASE k = Len(Unread(c)) + 1
    <3>1. expected[c] + k = Len(broadcasts) + 1
      BY <1>7, <1>a, <1>b, <1>c, <2>1
    <3> QED BY <1>5, <1>6, <2>1, <3>1
  <2>2. CASE k # Len(Unread(c)) + 1
    <3>1. k \in 1 .. Len(Unread(c)) + 1
      BY <1>5
    <3>2. k \in 1 .. Len(Unread(c))
      BY <1>7, <2>2, <3>1
    <3>3. \A i, j, n \in Nat : i + j = n => \A m \in 1 .. j : i + m \in 1 .. n
      OBVIOUS
    <3>4. expected[c] + k \in 1 .. Len(broadcasts)
      BY <1>7, <1>a, <1>c, <3>2, <3>3
    <3> QED BY <1>3, <1>5, <1>6, <3>2, <3>4 DEF InTurn
  <2> QED BY <2>1, <2>2
<1> QED BY <1>1, <1>8, <1>9 DEF InTurn

\* What follows the first message a client reads is no Ready.
LEMMA NoLateReady ==
  ASSUME GatewayTypeOK, NEW c \in Clients, InTurn(c), NEW s, NEW k \in {1, 2},
         s \in Seq(0..MaxEvents), s # <<>>, Unread(c) # <<>>, k <= Len(Unread(c)), Head(s) = Unread(c)[k]
  PROVE  Head(s) # Ready
<1>1. Unread(c) \in Seq(0..MaxEvents) /\ expected[c] \in Nat /\ broadcasts \in Seq(1..MaxEvents)
  BY UnreadType
<1>2. Len(Unread(c)) \in Nat /\ Len(broadcasts) \in Nat
  BY <1>1, LenProperties
<1>3. k \in 1 .. Len(Unread(c)) /\ expected[c] + k \in 1 .. Len(broadcasts)
  BY <1>1, <1>2 DEF InTurn
<1>4. broadcasts[expected[c] + k] \in 1 .. MaxEvents
  BY <1>1, <1>3, ElementOfSeq
<1> QED BY <1>3, <1>4 DEF InTurn, Ready

LEMMA DeliverInTurn ==
  ASSUME GatewayTypeOK, AllInTurn, NEW a \in Clients, Deliver(a)
  PROVE  AllInTurn'
<1> SUFFICES ASSUME NEW c \in Clients, socket'[c] = "open" PROVE InTurn(c)'
  BY DEF AllInTurn
<1>1. socket[c] = "open" /\ UNCHANGED broadcasts /\ InTurn(c)
  BY DEF Deliver, AllInTurn
<1>2. CASE c # a
  BY <1>1, <1>2 DEF Deliver, InTurn, Unread, GatewayTypeOK
<1>3. CASE c = a
  <2> DEFINE b == buffered[c]
  <2>1. /\ b \in Seq(0..MaxEvents) /\ b # <<>> /\ buffered'[c] = Tail(b)
        /\ expected[c] \in Nat /\ broadcasts \in Seq(1..MaxEvents)
        /\ expected'[c] = IF Head(b) = Ready THEN expected[c] ELSE expected[c] + 1
    BY <1>3, UnreadType DEF Deliver, GatewayTypeOK
  <2>2. /\ Tail(b) \in Seq(0..MaxEvents) /\ Len(Tail(b)) = Len(b) - 1 /\ Len(b) \in Nat
        /\ \A k \in 1 .. Len(Tail(b)) : Tail(b)[k] = b[k + 1]
        /\ Tail(b) # <<>> => 1 \in 1 .. Len(Tail(b)) /\ Head(Tail(b)) = Tail(b)[1]
    <3>1. /\ Tail(b) \in Seq(0..MaxEvents) /\ Len(Tail(b)) = Len(b) - 1 /\ Len(b) \in Nat
          /\ \A k \in 1 .. Len(Tail(b)) : Tail(b)[k] = b[k + 1]
      BY <2>1, HeadTailProperties, LenProperties
    <3>2. Tail(b) # <<>> => 1 \in 1 .. Len(Tail(b)) /\ Head(Tail(b)) = Tail(b)[1]
      BY <3>1, EmptySeq, LenProperties
    <3> QED BY <3>1, <3>2
  <2>3. CASE Head(b) = Ready
    <3>1. Unread(c) = Tail(b)
      BY <2>1, <2>3 DEF Unread
    <3>2. Tail(b) # <<>> => Head(Tail(b)) # Ready
      <4>1. Tail(b) # <<>> => 1 <= Len(Unread(c)) /\ Head(Tail(b)) = Unread(c)[1]
        BY <2>2, <3>1
      <4> QED BY <1>1, <2>2, <3>1, <4>1, NoLateReady
    <3>3. Unread(c)' = Unread(c)
      BY <2>1, <3>1, <3>2 DEF Unread
    <3> QED BY <1>1, <2>1, <2>3, <3>3 DEF InTurn
  <2>4. CASE Head(b) # Ready
    <3>1. Unread(c) = b
      BY <2>1, <2>4 DEF Unread
    <3>2. Tail(b) # <<>> => Head(Tail(b)) # Ready
      <4>1. Tail(b) # <<>> => 2 <= Len(Unread(c)) /\ Head(Tail(b)) = Unread(c)[2]
        BY <2>2, <3>1
      <4> QED BY <1>1, <2>1, <2>2, <3>1, <4>1, NoLateReady
    <3>3. Unread(c)' = Tail(b)
      BY <2>1, <3>2 DEF Unread
    <3>4. expected'[c] = expected[c] + 1 /\ Len(Unread(c)') = Len(Unread(c)) - 1
      BY <2>1, <2>2, <2>4, <3>1, <3>3
    <3>5. ASSUME NEW k \in 1 .. Len(Unread(c)') PROVE Unread(c)'[k] = broadcasts[expected'[c] + k]
      <4>1. k + 1 \in 1 .. Len(Unread(c)) /\ Unread(c)'[k] = Unread(c)[k + 1]
        BY <2>2, <3>1, <3>3
      <4>2. expected[c] + (k + 1) = expected'[c] + k
        BY <2>1, <3>4
      <4> QED BY <1>1, <4>1, <4>2 DEF InTurn
    <3>6. expected'[c] + Len(Unread(c)') = Len(broadcasts)
      BY <1>1, <2>1, <2>2, <3>1, <3>4 DEF InTurn
    <3> QED BY <1>1, <3>5, <3>6 DEF InTurn
  <2> QED BY <2>3, <2>4
<1> QED BY <1>2, <1>3

LEMMA StaysInTurn ==
  ASSUME GatewayTypeOK, AllInTurn, [GatewayActs]_gatewayVars
  PROVE  AllInTurn'
<1> USE DEF GatewayTypeOK
<1>1. CASE UNCHANGED gatewayVars
  BY <1>1, KeepsTurn DEF gatewayVars
<1>2. CASE Start \/ StartFails \/ RedisLost \/ RedisBack \/ Publish \/ Closed
  BY <1>2, KeepsTurn DEF Start, StartFails, RedisLost, RedisBack, Publish, Closed
<1>3. CASE Close
  BY <1>3, KeepsTurn DEF Close, Terminated, Connected
<1>4. CASE Heartbeat
  BY <1>4, KeepsTurn DEF Heartbeat, Terminated
<1>5. CASE Broadcast
  BY <1>5, BroadcastInTurn
<1>6. ASSUME NEW c \in Clients, Deliver(c) PROVE AllInTurn'
  BY <1>6, DeliverInTurn
<1>7. ASSUME NEW c \in Clients, Request(c) \/ Refuse(c) \/ ClientMessage(c) \/ Vanish(c) \/ Pong(c)
      PROVE  AllInTurn'
  BY <1>7, KeepsTurn DEF Request, Refuse, ClientMessage, Vanish, Pong
<1>8. ASSUME NEW c \in Clients, SocketCloses(c) \/ PeerCloses(c) PROVE AllInTurn'
  BY <1>8, KeepsTurn DEF SocketCloses, PeerCloses, CloseEvent
<1>9. ASSUME NEW c \in Clients, Accept(c) PROVE AllInTurn'
  <2> SUFFICES ASSUME NEW d \in Clients, socket'[d] = "open" PROVE InTurn(d)'
    BY DEF AllInTurn
  <2>1. CASE d = c
    <3>1. buffered'[c] = <<Ready>> /\ expected'[c] = Len(broadcasts) /\ UNCHANGED broadcasts
      BY <1>9 DEF Accept
    <3>2. Unread(c)' = <<>> /\ Len(broadcasts) \in Nat
      BY <3>1, LenProperties DEF Unread, Ready
    <3> QED BY <2>1, <3>1, <3>2 DEF InTurn
  <2>2. CASE d # c
    BY <1>9, <2>2 DEF Accept, AllInTurn, InTurn, Unread
  <2> QED BY <2>1, <2>2
<1> QED BY <1>1, <1>2, <1>3, <1>4, <1>5, <1>6, <1>7, <1>8, <1>9 DEF GatewayActs, ConnectionActs

\* No buffer grows beyond what Broadcast lets pass.
LEMMA StaysShort ==
  ASSUME GatewayTypeOK, Short, [GatewayActs]_gatewayVars
  PROVE  Short'
<1>1. \A c \in Clients : /\ buffered[c] \in Seq(0..MaxEvents) /\ Len(buffered[c]) \in Nat
                         /\ Len(buffered[c]) <= MaxBuffered + 1
  BY LenProperties DEF GatewayTypeOK, Short
<1>2. SUFFICES ASSUME NEW c \in Clients PROVE Len(buffered'[c]) <= MaxBuffered + 1
  BY DEF Short
<1>3. CASE buffered'[c] = <<>>
  BY <1>3, Bounds
<1>4. CASE buffered'[c] = buffered[c]
  BY <1>1, <1>4
<1>5. CASE buffered'[c] = <<Ready>>
  BY <1>5, Bounds
<1>6. CASE buffered[c] # <<>> /\ buffered'[c] = Tail(buffered[c])
  <2>1. Len(buffered'[c]) = Len(buffered[c]) - 1
    BY <1>1, <1>6, HeadTailProperties
  <2> QED BY <1>1, <2>1, Bounds
<1>7. CASE Broadcast /\ c \notin Slow /\ socket[c] = "open" /\ buffered'[c] = Append(buffered[c], Head(channel))
  <2>1. Len(buffered[c]) <= MaxBuffered
    BY <1>1, <1>7, Bounds DEF Slow
  <2>2. Len(buffered'[c]) = Len(buffered[c]) + 1
    BY <1>1, <1>7
  <2> QED BY <1>1, <2>1, <2>2, Bounds
<1>8. \/ buffered'[c] \in {<<>>, buffered[c], <<Ready>>}
      \/ buffered[c] # <<>> /\ buffered'[c] = Tail(buffered[c])
      \/ Broadcast /\ c \notin Slow /\ socket[c] = "open" /\ buffered'[c] = Append(buffered[c], Head(channel))
  <2> USE DEF GatewayTypeOK
  <2>1. CASE UNCHANGED buffered
    BY <2>1
  <2>2. CASE Close \/ Heartbeat
    BY <2>2 DEF Close, Heartbeat
  <2>3. CASE Broadcast
    BY <2>3 DEF Broadcast
  <2>4. ASSUME NEW a \in Clients, Accept(a) \/ SocketCloses(a) \/ PeerCloses(a)
        PROVE  buffered'[c] \in {<<>>, buffered[c], <<Ready>>}
    BY <2>4 DEF Accept, SocketCloses, PeerCloses, CloseEvent
  <2>5. ASSUME NEW a \in Clients, Deliver(a)
        PROVE  buffered'[c] = buffered[c] \/ (buffered[c] # <<>> /\ buffered'[c] = Tail(buffered[c]))
    BY <2>5 DEF Deliver
  <2>6. \/ UNCHANGED buffered \/ Close \/ Heartbeat \/ Broadcast
        \/ \E a \in Clients : Accept(a) \/ SocketCloses(a) \/ PeerCloses(a) \/ Deliver(a)
    BY DEF gatewayVars, GatewayActs, ConnectionActs, Start, StartFails, RedisLost, RedisBack, Publish, Closed,
           Request, Refuse, ClientMessage, Vanish, Pong
  <2> QED BY <2>1, <2>2, <2>3, <2>4, <2>5, <2>6
<1> QED BY <1>3, <1>4, <1>5, <1>6, <1>7, <1>8

-----------------------------------------------------------------------------
(* Theorems *)

GatewayInv == GatewayTypeOK /\ Counted /\ AllInTurn /\ Short

LEMMA GatewayHolds == Spec => [](GatewayInv /\ PageTypeOK)
<1>1. Init => GatewayInv /\ PageTypeOK
  <2> SUFFICES ASSUME Init PROVE GatewayInv /\ PageTypeOK OBVIOUS
  <2>1. GatewayTypeOK /\ PageTypeOK
    BY GatewayTyped, PageTyped DEF Init
  <2>2. Connected = {} /\ \A i : At(i) = {}
    BY DEF Init, GatewayInit, Connected, At
  <2>3. Counted
    <3>1. websocketConnections = 0 /\ \A i \in Ips : connectionsByIp[i] = 0
      BY DEF Init, GatewayInit
    <3>2. Cardinality(Connected) = 0 /\ \A i \in Ips : Cardinality(At(i)) = 0
      BY <2>2, FS_EmptySet
    <3>3. 0 <= MaxConnections /\ 0 <= MaxPerIp
      BY GatewayAssumption DEF GatewayAssumption
    <3> QED BY <3>1, <3>2, <3>3 DEF Counted
  <2>4. AllInTurn
    BY DEF AllInTurn, Init, GatewayInit
  <2>5. Short
    BY Bounds DEF Short, Init, GatewayInit
  <2> QED BY <2>1, <2>3, <2>4, <2>5 DEF GatewayInv
<1>2. GatewayInv /\ PageTypeOK /\ [Next]_vars => GatewayInv' /\ PageTypeOK'
  BY Apart, GatewayTyped, PageTyped, StaysCounted, StaysInTurn, StaysShort DEF GatewayInv
<1> QED BY <1>1, <1>2, PTL DEF Spec

\* Types of the gateway's and the page's state, and how they hang together.
THEOREM RealtimeTypeCorrect == Spec => []TypeOK
BY GatewayHolds, PTL DEF GatewayInv, TypeOK

\* Connections stay within both limits and are counted exactly, however each of them
\* ends, and no send buffer grows without bound (realtime-gateway.ts).
THEOREM LimitsHold == Spec => []Bounded
<1>1. GatewayInv => Bounded
  BY DEF GatewayInv, Counted, At, Short, Bounded
<1> QED BY <1>1, GatewayHolds, PTL

\* An open connection has been sent every event broadcast since it was accepted, once
\* and in order; who is too slow is cut off (realtime-gateway.ts).
THEOREM NothingSkipped == Spec => []NoGaps
<1>1. GatewayInv => NoGaps
  BY InTurnIsNoGaps DEF GatewayInv
<1> QED BY <1>1, GatewayHolds, PTL
=============================================================================
