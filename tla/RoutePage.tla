----------------------------- MODULE RoutePage -----------------------------
(***************************************************************************)
(* The route planning page of the web client: the routes it shows, the     *)
(* requests it has under way, its handler of safety events and the hook    *)
(* that keeps its WebSocket.                                               *)
(*                                                                         *)
(* An answer of /routes/calculate is represented by the query it answers   *)
(* (origin and destination).  Whether the safest path of a new answer      *)
(* differs from the path shown is left open when both answer one query;    *)
(* paths of different queries always differ.                               *)
(***************************************************************************)
EXTENDS Naturals

CONSTANTS
  Queries,   \* pairs of different nodes (a choice of one node twice does nothing)
  Swapped,   \* each query with origin and destination exchanged
  Calls,     \* bound: requests of findRoutes under way at a time
  Nothing    \* no query, no routes

ASSUME TripAssumption == Nothing \notin Queries /\ Swapped \in [Queries -> Queries]

VARIABLES
  mounted,     \* is the page open?
  initial,     \* the query the page is to ask for when it has the nodes
  connection,  \* connecting, connected or waiting to reconnect
  query,       \* the origin and destination selected
  routes,      \* the query whose routes are shown
  suggested,   \* the query whose routes are suggested
  loading,
  call,        \* the query of each request of findRoutes under way
  refresh,     \* where handleSafetyEvent is: idle, routes or context
  latest,      \* the query it asks for
  currentOf    \* the routes it was created with

pageVars == <<mounted, initial, connection, query, routes, suggested, loading, call, refresh, latest, currentOf>>
tripVars == <<initial, query, routes, suggested, loading, call, refresh, latest, currentOf>>
refreshVars == <<refresh, latest, currentOf>>

PageTypeOK ==
  /\ mounted \in BOOLEAN
  /\ initial \in Queries \cup {Nothing}
  /\ connection \in {"connecting", "connected", "waiting"}
  /\ query \in Queries
  /\ routes \in Queries \cup {Nothing}
  /\ suggested \in Queries \cup {Nothing}
  /\ loading \in BOOLEAN
  /\ call \in [Calls -> Queries \cup {Nothing}]
  /\ refresh \in {"idle", "routes", "context"}
  /\ latest \in Queries \cup {Nothing}
  /\ currentOf \in Queries \cup {Nothing}
  /\ latest = Nothing <=> refresh = "idle"
  /\ loading => initial # Nothing \/ \E i \in Calls : call[i] # Nothing

\* The page opens and asks for the nodes, to go on with the default route.
PageInit ==
  /\ mounted = TRUE
  /\ connection = "connecting"
  /\ query \in Queries
  /\ initial = query
  /\ routes = Nothing
  /\ suggested = Nothing
  /\ loading = TRUE
  /\ call = [i \in Calls |-> Nothing]
  /\ refresh = "idle"
  /\ latest = Nothing
  /\ currentOf = Nothing

-----------------------------------------------------------------------------
(* The user *)

Choose(q) ==
  /\ mounted
  /\ query' = q
  /\ UNCHANGED <<mounted, initial, connection, routes, suggested, loading, call, refreshVars>>

\* findRoutes, up to its await
FindRoutes(i, q) ==
  /\ call[i] = Nothing
  /\ call' = [call EXCEPT ![i] = q]
  /\ loading' = TRUE
  /\ suggested' = Nothing
  /\ UNCHANGED <<mounted, connection, routes, refreshVars>>

\* getNodes has answered or failed, and the default route is asked for, whatever
\* the user has chosen or swapped meanwhile.
InitialSearch(i) ==
  /\ mounted
  /\ initial # Nothing
  /\ initial' = Nothing
  /\ FindRoutes(i, initial)
  /\ UNCHANGED query

\* The button is disabled while routes are loading ...
Compare(i) == mounted /\ ~loading /\ FindRoutes(i, query) /\ UNCHANGED <<initial, query>>

\* ... and the one that swaps origin and destination is not.
SwapLocations(i) == mounted /\ FindRoutes(i, Swapped[query]) /\ query' = Swapped[query] /\ UNCHANGED initial

AcceptSuggestion ==
  /\ mounted
  /\ suggested # Nothing
  /\ routes' = suggested
  /\ suggested' = Nothing
  /\ UNCHANGED <<mounted, initial, connection, query, loading, call, refreshVars>>

Dismiss ==
  /\ mounted
  /\ suggested # Nothing
  /\ suggested' = Nothing
  /\ UNCHANGED <<mounted, initial, connection, query, routes, loading, call, refreshVars>>

\* The page is left: what is under way no longer matters.
Unmount ==
  /\ mounted
  /\ mounted' = FALSE
  /\ initial' = Nothing
  /\ connection' = "waiting"
  /\ call' = [i \in Calls |-> Nothing]
  /\ loading' = FALSE
  /\ refresh' = "idle"
  /\ latest' = Nothing
  /\ currentOf' = Nothing
  /\ UNCHANGED <<query, routes, suggested>>

-----------------------------------------------------------------------------
(* Answers *)

\* The answer of the API to a request for q, or an error
calculateRoutes(q) == {q, Nothing}

\* Mutant: the loading indicator is not cleared when the request fails.
AnsweredOpen(i) ==
  /\ call[i] # Nothing
  /\ \E r \in calculateRoutes(call[i]) : routes' = r /\ loading' = (r = Nothing)
  /\ call' = [call EXCEPT ![i] = Nothing]
  /\ UNCHANGED <<mounted, initial, connection, query, suggested, refreshVars>>

\* findRoutes after its await
Answered(i) ==
  /\ call[i] # Nothing
  /\ routes' \in calculateRoutes(call[i])
  /\ loading' = FALSE
  /\ call' = [call EXCEPT ![i] = Nothing]
  /\ UNCHANGED <<mounted, initial, connection, query, suggested, refreshVars>>

\* handleSafetyEvent: an event that comes during a refresh is dropped
HandleSafetyEvent ==
  /\ IF refresh = "idle"
     THEN refresh' = "routes" /\ latest' = query /\ currentOf' = routes
     ELSE UNCHANGED refreshVars
  /\ UNCHANGED <<initial, query, routes, suggested, loading, call>>

RefreshOver == refresh' = "idle" /\ latest' = Nothing /\ currentOf' = Nothing

RefreshFails ==
  /\ refresh = "routes"
  /\ RefreshOver
  /\ UNCHANGED <<mounted, initial, connection, query, routes, suggested, loading, call>>

\* Routes are there; incidents are asked for (and an error of that ignored).
RefreshAnswered ==
  /\ refresh = "routes"
  /\ refresh' = "context"
  /\ UNCHANGED <<mounted, initial, connection, query, routes, suggested, loading, call, latest, currentOf>>

\* shouldSuggestReroute, for the routes the handler was created with
Suggests == currentOf # Nothing
Replaces == currentOf = Nothing \/ currentOf = latest

RefreshDone ==
  /\ refresh = "context"
  /\ \/ Suggests /\ suggested' = latest /\ UNCHANGED routes
     \/ Replaces /\ routes' = latest /\ UNCHANGED suggested
  /\ RefreshOver
  /\ UNCHANGED <<mounted, initial, connection, query, loading, call>>

-----------------------------------------------------------------------------
(* The socket of the hook *)

SocketOpens ==
  /\ mounted
  /\ connection = "connecting"
  /\ connection' = "connected"
  /\ UNCHANGED <<mounted, tripVars>>

\* Mutant: the page does not notice that its connection is over.
SocketLostUnseen ==
  /\ mounted
  /\ connection # "waiting"
  /\ connection' = "connecting"
  /\ UNCHANGED <<mounted, tripVars>>

\* onclose, also after onerror: a timer is set (its delay is left out)
SocketLost ==
  /\ mounted
  /\ connection # "waiting"
  /\ connection' = "waiting"
  /\ UNCHANGED <<mounted, tripVars>>

Reconnect ==
  /\ mounted
  /\ connection = "waiting"
  /\ connection' = "connecting"
  /\ UNCHANGED <<mounted, tripVars>>

\* onmessage: only safety events are passed on
Message(isEvent) ==
  /\ mounted
  /\ connection = "connected"
  /\ IF isEvent THEN HandleSafetyEvent /\ UNCHANGED <<mounted, connection>> ELSE UNCHANGED pageVars
=============================================================================
