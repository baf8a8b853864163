------------------------------ MODULE Realtime ------------------------------
(***************************************************************************)
(* Safety events from the worker's publish to the page that reacts: one    *)
(* gateway, one route page and other clients.                              *)
(***************************************************************************)
EXTENDS RealtimeGateway, RoutePage

CONSTANT Page   \* the client that is the route page

ASSUME PageAssumption == Page \in Clients

Others == Clients \ {Page}

vars == <<gatewayVars, pageVars>>

Init ==
  /\ GatewayInit
  /\ PageInit
  /\ socket[Page] = "requested"

-----------------------------------------------------------------------------
\* A request for an upgrade leaves the client.
Request(c) ==
  /\ socket[c] = "none"
  /\ socket' = [socket EXCEPT ![c] = "requested"]
  /\ UNCHANGED <<gateway, subscribed, channel, published, isAlive, gone, buffered,
                 connectionsByIp, websocketConnections, broadcasts, expected>>

\* The hook's WebSocket: its constructor sends the request, once for each
\* connection; the page learns that it was accepted, or that it is over.
PageConnects ==
  \/ connection = "waiting" /\ Request(Page) /\ Reconnect
  \/ socket[Page] \in {"open", "closing"} /\ Page \notin gone /\ SocketOpens /\ UNCHANGED gatewayVars

PageLoses == socket[Page] = "none" /\ SocketLost /\ UNCHANGED gatewayVars

\* The page's WebSocket closes with the page.
PageLeaves ==
  \/ Unmount /\ UNCHANGED gatewayVars
  \/ ~mounted /\ PeerCloses(Page) /\ UNCHANGED pageVars

PageReceives ==
  \/ Deliver(Page) /\ Message(Head(buffered[Page]) # Ready)
  \/ ~mounted /\ Deliver(Page) /\ UNCHANGED pageVars

Server ==
  \/ Start \/ Broadcast \/ Heartbeat \/ Closed
  \/ \E c \in Clients : Refuse(c) \/ Accept(c) \/ SocketCloses(c) \/ Pong(c)

Environment ==
  \/ StartFails \/ RedisLost \/ RedisBack \/ Close \/ Publish
  \/ \E c \in Others : Request(c) \/ Deliver(c) \/ PeerCloses(c) \/ ClientMessage(c)
  \/ \E c \in Clients : Vanish(c)

Answers ==
  \/ RefreshFails \/ RefreshAnswered \/ RefreshDone
  \/ \E i \in Calls : InitialSearch(i) \/ Answered(i)

User ==
  \/ \E q \in Queries : Choose(q)
  \/ \E i \in Calls : Compare(i) \/ SwapLocations(i)
  \/ AcceptSuggestion \/ Dismiss

Next ==
  \/ (Server \/ Environment) /\ UNCHANGED pageVars
  \/ (Answers \/ User) /\ UNCHANGED gatewayVars
  \/ PageConnects \/ PageLoses \/ PageLeaves \/ PageReceives

Spec == Init /\ [][Next]_vars

\* The interval timer of the heartbeat fires, an ended connection closes, what the
\* page was sent reaches it, its requests are answered or fail, and its reconnect
\* timer fires.  Nothing is assumed of Redis, of the user or of other clients.
Fairness ==
  /\ WF_vars(Heartbeat /\ UNCHANGED pageVars)
  /\ \A c \in Clients : WF_vars(SocketCloses(c) /\ UNCHANGED pageVars)
  /\ WF_vars((Accept(Page) \/ Refuse(Page)) /\ UNCHANGED pageVars)
  /\ WF_vars(PageConnects)
  /\ WF_vars(PageLoses)
  /\ WF_vars(PageReceives)
  /\ WF_vars((RefreshFails \/ RefreshAnswered \/ RefreshDone) /\ UNCHANGED gatewayVars)
  /\ WF_vars((\E i \in Calls : InitialSearch(i)) /\ UNCHANGED gatewayVars)
  /\ \A i \in Calls : WF_vars(Answered(i) /\ UNCHANGED gatewayVars)

FairSpec == Spec /\ Fairness

-----------------------------------------------------------------------------
(* Properties *)

TypeOK == GatewayTypeOK /\ PageTypeOK

\* Connections are limited and counted exactly, by address and by the gauge,
\* from the upgrade to the close event, however they end; and what waits to be
\* sent to a client is bounded.
Bounded ==
  /\ websocketConnections = Cardinality(Connected)
  /\ \A i \in Ips : connectionsByIp[i] = Cardinality({c \in Connected : IpOf[c] = i})
  /\ Cardinality(Connected) <= MaxConnections
  /\ \A i \in Ips : connectionsByIp[i] <= MaxPerIp
  /\ \A c \in Clients : Len(buffered[c]) <= MaxBuffered + 1

\* An open connection has been sent every event broadcast since it was accepted,
\* once and in order: a client too slow for that is cut off and not skipped.
NoGaps ==
  \A c \in Clients : socket[c] = "open" =>
    Unread(c) = SubSeq(broadcasts, expected[c] + 1, Len(broadcasts))

\* A client that has vanished does not keep its place while the gateway serves.
VanishedAreRemoved ==
  \A c \in Clients : []<>(c \notin gone \/ gateway # "serving")

\* Wherever a connection was lost, the page gets one again, as long as the gateway
\* serves and the other clients leave it a place: the hook never stops trying and
\* no ended connection is still counted.
PageReturns ==
  <>[](/\ mounted /\ gateway = "serving"
       /\ Cardinality(Connected \ {Page}) < MaxConnections
       /\ Cardinality({c \in Connected \ {Page} : IpOf[c] = IpOf[Page]}) < MaxPerIp)
    => []<>(socket[Page] = "open")

\* No refresh of the page and no loading indicator lasts for ever.
PageSettles ==
  /\ []<>(refresh = "idle")
  /\ []<>~loading

\* README: "the user receives a clear rerouting suggestion and chooses whether to
\* apply it".  A safety event does not replace the routes of the trip on show by
\* those of another.
UserChooses ==
  [][RefreshDone /\ routes # Nothing => routes' = routes]_vars
=============================================================================
