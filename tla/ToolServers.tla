---------------------------- MODULE ToolServers ----------------------------
(***************************************************************************)
(* The registry of tool servers (mcpclient/registry.go).  Connect takes    *)
(* the servers in the order of their ids.  A server of type openrouter     *)
(* gives an entry with no session; any other gets a session, which lists   *)
(* its tools.  A tool is known to the model as serverID__tool.             *)
(*                                                                         *)
(* An id may hold "__" itself (config.go:16), so that the names of one     *)
(* server may begin with the prefix of another one.                        *)
(*                                                                         *)
(* Connect checks the type and the tool of an entry again.  It compiles    *)
(* the filter again too, which Validate has done: that cannot fail.        *)
(***************************************************************************)
EXTENDS ToolConfig, FiniteSets

CONSTANTS
  Servers,   \* ids
  Rank,      \* id -> its place in the sorted ids
  Offers,    \* id -> the tools it lists
  Matching,  \* id -> those a filter lets through
  NameOf,    \* id, tool -> serverID__tool
  Prefixed,  \* id -> the names that begin with serverID__
  Failing,   \* ids that may fail: bounds an instance
  None

Name(s, t) == NameOf[<<s, t>>]
Tools == UNION {Offers[s] : s \in Servers}
Names == UNION {{Name(s, t) : t \in Offers[s]} : s \in Servers}

ASSUME ServersAssumption ==
  /\ Rank \in [Servers -> Nat]
  /\ \A s, u \in Servers : Rank[s] = Rank[u] => s = u
  /\ \A s \in Servers : Matching[s] \subseteq Offers[s]
  /\ \A s \in Servers, t \in Tools : Name(s, t) \in Prefixed[s]
  /\ \A s \in Servers : \A t, u \in Tools : Name(s, t) = Name(s, u) => t = u
  /\ None \notin Servers \X Tools
  /\ None \notin Entries
  /\ \A s \in Servers : None \notin Prefixed[s]

VARIABLES
  config,    \* id -> its valid entry, or None
  through,   \* ids that Connect is through with
  sessions,  \* ids in the map of sessions
  session,   \* id -> the session: none, open or closed
  routes,    \* name -> <<server, tool>>, or None
  entries,   \* <<name, server>> of what is listed, a name None for openrouter's
  registry   \* connecting, ready, or none: Connect returns nil

registryVars == <<config, through, sessions, session, routes, entries, registry>>

InitRegistry ==
  /\ config = [s \in Servers |-> None]
  /\ through = {}
  /\ sessions = {}
  /\ session = [s \in Servers |-> "none"]
  /\ routes = [n \in Names |-> None]
  /\ entries = {}
  /\ registry = "connecting"

Configured == {s \in Servers : config[s] # None}
IsNext(s) ==
  /\ registry = "connecting" /\ s \in Configured \ through
  /\ \A u \in Configured \ through : Rank[s] <= Rank[u]
IsNative(s) == config[s]["type"] = "openrouter_tool"
Filtered(s) == IF Blank(config[s]["filter"]) THEN Offers[s] ELSE Matching[s]

(* An openrouter tool has an entry, and no route; one that is not known is *)
(* skipped.                                                                *)
AddOpenRouter(s) ==
  /\ IsNext(s) /\ IsNative(s)
  /\ entries' = entries \cup (IF KnownTool(config[s]) THEN {<<None, s>>} ELSE {})
  /\ through' = through \cup {s}
  /\ UNCHANGED <<config, sessions, session, routes, registry>>

(* A server with no transport for its type, or that cannot be connected    *)
(* to, is skipped.                                                         *)
NoTransport(s) == config[s]["type"] \notin {"stdio", "streamable-http", "sse"}
SkipServer(s, fails) ==
  /\ IsNext(s) /\ ~IsNative(s) /\ session[s] = "none"
  /\ fails \/ NoTransport(s)
  /\ through' = through \cup {s}
  /\ UNCHANGED <<config, sessions, session, routes, entries, registry>>

Dial(s) ==
  /\ IsNext(s) /\ ~IsNative(s) /\ ~NoTransport(s) /\ session[s] = "none"
  /\ session' = [session EXCEPT ![s] = "open"]
  /\ sessions' = sessions \cup {s}
  /\ UNCHANGED <<config, through, routes, entries, registry>>

(* The routes and entries with some tools of s; a name that was another    *)
(* server's now leads to s.                                                *)
RoutedByFullName(s, tools) ==
  [n \in Names |-> IF \E t \in tools : n = Name(s, t) THEN <<s, n>> ELSE routes[n]]
Routed(s, tools) ==
  [n \in Names |->
     IF \E t \in tools : n = Name(s, t)
     THEN <<s, CHOOSE t \in tools : n = Name(s, t)>>
     ELSE routes[n]]
Listed(s, tools) == entries \cup {<<Name(s, t), s>> : t \in tools}

ListTools(s) ==
  /\ IsNext(s) /\ session[s] = "open"
  /\ routes' = Routed(s, Filtered(s))
  /\ entries' = Listed(s, Filtered(s))
  /\ through' = through \cup {s}
  /\ UNCHANGED <<config, sessions, session, registry>>

(* removeToolsForServer: by the prefix. *)
EntriesStay(s, listed) == listed
WithoutEntries(s, listed) == {e \in listed : e[1] \notin Prefixed[s]}
WithoutRoutes(s, table) == [n \in Names |-> IF n \in Prefixed[s] THEN None ELSE table[n]]

(* Listing fails after some tools: the session is closed, and what begins  *)
(* with the prefix is taken out.                                           *)
ListFails(s, fails) ==
  /\ IsNext(s) /\ session[s] = "open" /\ fails
  /\ \E tools \in SUBSET Filtered(s) :
       /\ routes' = WithoutRoutes(s, Routed(s, tools))
       /\ entries' = WithoutEntries(s, Listed(s, tools))
  /\ session' = [session EXCEPT ![s] = "closed"]
  /\ sessions' = sessions \ {s}
  /\ through' = through \cup {s}
  /\ UNCHANGED <<config, registry>>

(* With no entry at all the sessions are closed and there is no registry. *)
LeftOpen == session
Closed == [s \in Servers |-> IF s \in sessions THEN "closed" ELSE session[s]]
EndConnect ==
  /\ registry = "connecting" /\ Configured \subseteq through
  /\ IF entries = {}
     THEN registry' = "none" /\ session' = Closed /\ sessions' = {}
     ELSE registry' = "ready" /\ UNCHANGED <<session, sessions>>
  /\ UNCHANGED <<config, through, routes, entries>>

(* The names that belong to s alone, whatever the other servers do. *)
OwnNames(s) ==
  {n \in {Name(s, t) : t \in Offers[s]} : \A u \in Servers \ {s} : n \notin Prefixed[u]}
=============================================================================
