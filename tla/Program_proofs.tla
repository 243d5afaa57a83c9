--------------------------- MODULE Program_proofs ---------------------------
(***************************************************************************)
(* Proofs about Program.  The invariant follows main: before the servers   *)
(* are connected nothing is there, while they are every route is of a      *)
(* server whose session is open, and when main cleans up, what a goroutine *)
(* of the cleanup has left is closed.                                      *)
(***************************************************************************)
EXTENDS Program, TLAPS

Early == {"config", "store", "metrics", "prompts"}
Late == {"start", "running", "returned", "cleanup"}
NoneOpen == \A s \in Servers : session[s] # "open"

Phases ==
  /\ main \in Early => through = {} /\ entries = {} /\ registry = "connecting" /\ NoneOpen
  /\ main \in Late => registry # "connecting"
  /\ closers # {} => main = "cleanup"
  /\ clearing => "registry" \in closers

(* What Validate leaves to Connect. *)
ValidConfig ==
  \A s \in Servers : config[s] # None =>
    /\ config[s]["type"] \in Types
    /\ config[s]["type"] = "openrouter_tool" => config[s]["tool"] = "good"

Sessions ==
  /\ \A s \in Servers : session[s] = "open" => s \in sessions /\ ~IsNative(s)
  /\ clearing \/ registry = "none" => NoneOpen

Cleaned ==
  main = "cleanup" =>
    /\ "registry" \notin closers => NoneOpen
    /\ "store" \notin closers => store = "closed"
    /\ "metrics" \notin closers => metrics # "up"

Running == "registry" \notin closers /\ main # "cleanup"
EntriesWork ==
  \A e \in entries : e[1] # None =>
    \E u \in Servers, t \in Tools :
      routes[e[1]] = <<u, t>> /\ e[1] = Name(u, t) /\ session[u] = "open"
OwnNamesKept ==
  \A s \in through : session[s] = "open" =>
    \A t \in Filtered(s) : Name(s, t) \in OwnNames(s) =>
      routes[Name(s, t)] = <<s, t>> /\ <<Name(s, t), s>> \in entries
NoneRefused ==
  \A s \in through : IF IsNative(s) THEN <<None, s>> \in entries
                     ELSE registry = "none" \/ session[s] = "open" \/ s \in Failing \/ cancelled

USE DEF Early, Late

----------------------------------------------------------------------------
(* Types. *)

LEMMA FilteredTools == ASSUME NEW s \in Servers PROVE Filtered(s) \subseteq Tools
  BY ServersAssumption DEF Filtered, Tools

(* What Connect makes of a server's tools is of the type of the tables. *)
LEMMA RoutedType ==
  ASSUME TypeOK, NEW s \in Servers, NEW tools \in SUBSET Filtered(s)
  PROVE  /\ Routed(s, tools) \in [Names -> (Servers \X Tools) \cup {None}]
         /\ Listed(s, tools) \subseteq (Names \cup {None}) \X Servers
<1>1. Filtered(s) \subseteq Offers[s] /\ tools \subseteq Tools
  BY ServersAssumption, FilteredTools DEF Filtered
<1>2. Routed(s, tools) \in [Names -> (Servers \X Tools) \cup {None}]
  <2> SUFFICES ASSUME NEW n \in Names
               PROVE  (IF \E t \in tools : n = Name(s, t)
                       THEN <<s, CHOOSE t \in tools : n = Name(s, t)>>
                       ELSE routes[n]) \in (Servers \X Tools) \cup {None}
    BY DEF Routed
  <2>1. CASE \E t \in tools : n = Name(s, t)
    <3>1. (CHOOSE t \in tools : n = Name(s, t)) \in tools
      BY <2>1
    <3> QED
      BY <2>1, <3>1, <1>1
  <2>2. CASE ~\E t \in tools : n = Name(s, t)
    BY <2>2 DEF TypeOK
  <2> QED
    BY <2>1, <2>2
<1>3. \A t \in tools : Name(s, t) \in Names
  BY <1>1 DEF Names
<1> QED
  BY <1>2, <1>3 DEF Listed, TypeOK

LEMMA TypeStep == TypeOK /\ [Next]_vars => TypeOK'
<1> SUFFICES ASSUME TypeOK, [Next]_vars PROVE TypeOK'
  OBVIOUS
<1> USE DEF registryVars, programVars
<1>1. CASE UNCHANGED vars
  BY <1>1 DEF TypeOK, vars
<1>2. CASE LoadConfig
  <2>1. ASSUME NEW file \in Files
        PROVE  [s \in Servers |-> IF s \in Valid(file) THEN Trimmed(file[s]) ELSE None]
                 \in [Servers -> Entries \cup {None}]
    <3>1. "" \in Values /\ Kept \subseteq Fields
      BY DEF Values, Kept, Fields
    <3>2. \A s \in DOMAIN file : Trimmed(file[s]) \in Entries
      BY <3>1, ProgramAssumption DEF Trimmed, Entries
    <3> QED
      BY <3>2 DEF Valid
  <2> QED
    BY <1>2, <2>1 DEF TypeOK, LoadConfig, Fail
<1>3. CASE OpenStore \/ StartMetrics \/ LoadPrompts
  BY <1>3 DEF TypeOK, OpenStore, StartMetrics, LoadPrompts, Fail
<1>4. ASSUME NEW s \in Servers, ConnectServer(s) PROVE TypeOK'
  <2>1. CASE AddOpenRouter(s)
    BY <1>4, <2>1 DEF TypeOK, ConnectServer, AddOpenRouter
  <2>2. CASE Dial(s)
    BY <1>4, <2>2 DEF TypeOK, ConnectServer, Dial
  <2>3. CASE ListTools(s)
    BY <1>4, <2>3, RoutedType DEF TypeOK, ConnectServer, ListTools
  <2>4. CASE SkipServer(s, s \in Failing \/ cancelled)
    BY <1>4, <2>4 DEF TypeOK, ConnectServer, SkipServer
  <2>5. CASE ListFails(s, s \in Failing \/ cancelled)
    <3>1. PICK tools \in SUBSET Filtered(s) :
            /\ routes' = WithoutRoutes(s, Routed(s, tools))
            /\ entries' = WithoutEntries(s, Listed(s, tools))
      BY <2>5 DEF ListFails
    <3>2. routes' \in [Names -> (Servers \X Tools) \cup {None}]
      BY <3>1, RoutedType DEF WithoutRoutes
    <3>3. entries' \subseteq (Names \cup {None}) \X Servers
      BY <3>1, RoutedType DEF WithoutEntries
    <3> QED
      BY <1>4, <2>5, <3>2, <3>3 DEF TypeOK, ConnectServer, ListFails
  <2> QED
    BY <1>4, <2>1, <2>2, <2>3, <2>4, <2>5 DEF ConnectServer
<1>5. CASE EndWiring
  BY <1>5 DEF TypeOK, EndWiring, EndConnect, Closed
<1>6. CASE StartTransport \/ ReturnFromRun \/ StartCleanup \/ Exit
  BY <1>6 DEF TypeOK, StartTransport, ReturnFromRun, Awaits, StartCleanup, Exit
<1>7. CASE CloseStore \/ CloseMetrics
  BY <1>7 DEF TypeOK, CloseStore, CloseMetrics
<1>13. CASE StartClear
  BY <1>13 DEF TypeOK, StartClear
<1>14. CASE EndClear
  <2>1. clearing' \in BOOLEAN /\ sessions' \subseteq Servers
    BY <1>14 DEF EndClear
  <2>2. closers' \subseteq {"store", "metrics", "registry"}
    BY <1>14 DEF TypeOK, EndClear
  <2>3. UNCHANGED <<config, through, session, routes, entries, registry, main, cancelled, runner,
                    runErr, store, metrics, call, result, exit>>
    BY <1>14 DEF EndClear
  <2> QED
    BY <2>1, <2>2, <2>3 DEF TypeOK
<1>8. ASSUME NEW s \in Servers, CloseSession(s) PROVE TypeOK'
  BY <1>8 DEF TypeOK, CloseSession
<1>9. CASE RunnerEnds
  BY <1>9 DEF TypeOK, RunnerEnds
<1>15. CASE MetricsHearSignal
  BY <1>15 DEF TypeOK, MetricsHearSignal
<1>16. CASE Signal
  BY <1>16 DEF TypeOK, Signal
<1>10. ASSUME NEW w \in Workers, LookUp(w) PROVE TypeOK'
  <2>1. PICK n \in Names : /\ routes[n] # None
                           /\ call' = [call EXCEPT ![w] = [at |-> "routed", server |-> routes[n][1]]]
    BY <1>10 DEF LookUp
  <2>2. routes[n][1] \in Servers
    BY <2>1 DEF TypeOK
  <2> QED
    BY <1>10, <2>1, <2>2 DEF TypeOK, LookUp
<1>11. ASSUME NEW w \in Workers, GetSession(w) PROVE TypeOK'
  <2>1. call[w] \in [at : {"routed", "session"}, server : Servers]
    BY <1>11 DEF TypeOK, GetSession
  <2> QED
    BY <1>11, <2>1 DEF TypeOK, GetSession
<1>12. ASSUME NEW w \in Workers, CallTool(w) PROVE TypeOK'
  BY <1>12 DEF TypeOK, CallTool
<1> QED
  BY <1>1, <1>2, <1>3, <1>4, <1>5, <1>6, <1>7, <1>8, <1>9, <1>10, <1>11, <1>12,
     <1>13, <1>14, <1>15, <1>16
     DEF Next, Main, Cleaning, Working

LEMMA TypeInit == Init => TypeOK
  BY DEF Init, InitRegistry, TypeOK

(* Every variable of the program holds a value of its type: a route leads  *)
(* to a server and a tool of it, and every entry of the file that is kept  *)
(* is one.                                                                 *)
THEOREM ProgramTypeCorrect == Spec => []TypeOK
  BY TypeInit, TypeStep, PTL DEF Spec

----------------------------------------------------------------------------
(* Phases, sessions and the cleanup. *)

Safe == Phases /\ ValidConfig /\ Sessions /\ Cleaned

(* What Validate accepts has a type Connect knows, and a tool it knows.    *)
LEMMA ValidatedEntries ==
  ASSUME NEW file \in Files, NEW s \in DOMAIN file, s \in Valid(file)
  PROVE  /\ Trimmed(file[s])["type"] \in Types
         /\ Trimmed(file[s])["type"] = "openrouter_tool" => Trimmed(file[s])["tool"] = "good"
  BY DEF Valid, Validate, StdioOk, HttpOk, OpenRouterOk, KnownToolOk, KnownTool, Trimmed, Types,
         Kept

LEMMA SafeInit == Init => Safe
  BY DEF Init, InitRegistry, Safe, Phases, ValidConfig, Sessions, Cleaned, NoneOpen

LEMMA SafeStep == TypeOK /\ Safe /\ [Next]_vars => Safe'
<1> SUFFICES ASSUME TypeOK, Safe, [Next]_vars PROVE Safe'
  OBVIOUS
<1> USE DEF registryVars, programVars, Safe, Phases, ValidConfig, Sessions, Cleaned, NoneOpen,
           IsNative
<1>1. CASE UNCHANGED vars
  BY <1>1 DEF vars
<1>2. CASE LoadConfig
  <2>1. ValidConfig'
    <3>1. CASE UNCHANGED config
      BY <3>1
    <3>2. CASE \E file \in Files :
                 config' = [s \in Servers |-> IF s \in Valid(file) THEN Trimmed(file[s]) ELSE None]
      BY <3>2, ValidatedEntries DEF Valid
    <3> QED
      BY <1>2, <3>1, <3>2 DEF LoadConfig
  <2> QED
    BY <1>2, <2>1 DEF LoadConfig, Fail
<1>3. CASE OpenStore \/ StartMetrics \/ LoadPrompts
  BY <1>3 DEF OpenStore, StartMetrics, LoadPrompts, Fail
<1>4. ASSUME NEW s \in Servers, ConnectServer(s) PROVE Safe'
  <2>1. CASE AddOpenRouter(s)
    BY <1>4, <2>1 DEF ConnectServer, AddOpenRouter
  <2>2. CASE Dial(s)
    BY <1>4, <2>2 DEF ConnectServer, Dial, IsNext, TypeOK
  <2>3. CASE ListTools(s)
    BY <1>4, <2>3 DEF ConnectServer, ListTools
  <2>4. CASE SkipServer(s, s \in Failing \/ cancelled)
    BY <1>4, <2>4 DEF ConnectServer, SkipServer
  <2>5. CASE ListFails(s, s \in Failing \/ cancelled)
    BY <1>4, <2>5 DEF ConnectServer, ListFails, IsNext, TypeOK
  <2> QED
    BY <1>4, <2>1, <2>2, <2>3, <2>4, <2>5 DEF ConnectServer
<1>5. CASE EndWiring
  BY <1>5 DEF EndWiring, EndConnect, Closed, TypeOK
<1>6. CASE StartTransport \/ ReturnFromRun
  BY <1>6 DEF StartTransport, ReturnFromRun, Awaits
<1>7. CASE StartCleanup
  BY <1>7 DEF StartCleanup, TypeOK
<1>8. CASE Exit
  BY <1>8 DEF Exit
<1>9. CASE CloseStore \/ CloseMetrics
  BY <1>9 DEF CloseStore, CloseMetrics
<1>10. ASSUME NEW s \in Servers, CloseSession(s) PROVE Safe'
  BY <1>10 DEF CloseSession, TypeOK
<1>11. CASE StartClear
  BY <1>11 DEF StartClear
<1>12. CASE EndClear
  BY <1>12 DEF EndClear
<1>13. CASE RunnerEnds \/ MetricsHearSignal \/ Signal
  BY <1>13 DEF RunnerEnds, MetricsHearSignal, Signal
<1>14. ASSUME NEW w \in Workers, Working(w) PROVE Safe'
  BY <1>14 DEF Working, LookUp, GetSession, CallTool
<1> QED
  BY <1>1, <1>2, <1>3, <1>4, <1>5, <1>6, <1>7, <1>8, <1>9, <1>10, <1>11, <1>12, <1>13, <1>14
     DEF Next, Main, Cleaning

----------------------------------------------------------------------------
(* The exit: Next is over with it. *)

LEMMA ClosedStep ==
  TypeOK /\ Safe /\ NothingLeftOpen /\ [Next]_vars => NothingLeftOpen'
<1> SUFFICES ASSUME TypeOK, Safe, NothingLeftOpen, [Next]_vars PROVE NothingLeftOpen'
  OBVIOUS
<1> USE DEF registryVars, programVars, NothingLeftOpen
<1>1. CASE UNCHANGED vars
  BY <1>1 DEF vars
<1>2. CASE Next
  <2>1. exit = None
    BY <1>2 DEF Next
  <2>2. CASE UNCHANGED exit
    BY <2>1, <2>2
  <2>3. CASE LoadConfig \/ OpenStore \/ LoadPrompts
    BY <2>3 DEF LoadConfig, OpenStore, LoadPrompts, Fail, Safe, Phases, NoneOpen
  <2>4. CASE Exit
    BY <2>4 DEF Exit, Safe, Cleaned, NoneOpen
  <2>5. ASSUME NEW w \in Workers, GetSession(w) PROVE NothingLeftOpen'
    BY <2>1, <2>5 DEF GetSession, Safe, Sessions, NoneOpen
  <2>6. ASSUME NEW s \in Servers, ConnectServer(s) PROVE UNCHANGED exit
    BY <2>6 DEF ConnectServer
  <2>7. ASSUME StartMetrics \/ EndWiring \/ StartTransport \/ ReturnFromRun \/ StartCleanup
        PROVE  UNCHANGED exit
    BY <2>7 DEF StartMetrics, EndWiring, StartTransport, ReturnFromRun, StartCleanup
  <2>8. ASSUME Cleaning PROVE UNCHANGED exit
    BY <2>8 DEF Cleaning, CloseStore, CloseMetrics, StartClear, EndClear, CloseSession
  <2>9. ASSUME RunnerEnds \/ MetricsHearSignal \/ Signal PROVE UNCHANGED exit
    BY <2>9 DEF RunnerEnds, MetricsHearSignal, Signal
  <2>10. ASSUME NEW w \in Workers, LookUp(w) \/ CallTool(w) PROVE UNCHANGED exit
    BY <2>10 DEF LookUp, CallTool
  <2> QED
    BY <1>2, <2>2, <2>3, <2>4, <2>5, <2>6, <2>7, <2>8, <2>9, <2>10 DEF Next, Main, Working
<1> QED
  BY <1>1, <1>2

(* No session outlives the program, however it ends, and a program that    *)
(* came to its event loop and was not aborted has closed the rest.         *)
THEOREM ProgramLeavesNothingOpen == Spec => []NothingLeftOpen
<1>1. Init => NothingLeftOpen
  BY DEF Init, NothingLeftOpen
<1> QED
  BY <1>1, TypeInit, TypeStep, SafeInit, SafeStep, ClosedStep, PTL DEF Spec

----------------------------------------------------------------------------
(* What is listed. *)

LEMMA RoutedAt ==
  ASSUME NEW s \in Servers, NEW tools \in SUBSET Filtered(s)
  PROVE  /\ \A t \in tools : Name(s, t) \in Names => Routed(s, tools)[Name(s, t)] = <<s, t>>
         /\ \A n \in Names : n \notin Prefixed[s] => Routed(s, tools)[n] = routes[n]
<1>1. tools \subseteq Tools
  BY FilteredTools
<1>2. ASSUME NEW t \in tools, Name(s, t) \in Names PROVE Routed(s, tools)[Name(s, t)] = <<s, t>>
  <2>1. (CHOOSE u \in tools : Name(s, t) = Name(s, u)) \in tools
        /\ Name(s, t) = Name(s, CHOOSE u \in tools : Name(s, t) = Name(s, u))
    OBVIOUS
  <2>2. (CHOOSE u \in tools : Name(s, t) = Name(s, u)) = t
    BY <1>1, <2>1, ServersAssumption
  <2> QED
    BY <1>2, <2>2 DEF Routed
<1>3. ASSUME NEW n \in Names, n \notin Prefixed[s] PROVE Routed(s, tools)[n] = routes[n]
  BY <1>1, <1>3, ServersAssumption DEF Routed
<1> QED
  BY <1>2, <1>3

(* A server's own name is one of its names, and begins with no other's     *)
(* prefix.                                                                 *)
LEMMA OwnName ==
  ASSUME NEW s \in Servers, NEW n \in OwnNames(s)
  PROVE  n \in Names /\ \A u \in Servers \ {s} : n \notin Prefixed[u]
  BY DEF OwnNames, Names

Listings == EntriesWork /\ OwnNamesKept /\ NoneRefused
ListingInv == Running => Listings

(* A step of Connect that gives some tools of s their routes and entries.  *)
LEMMA ListingStep ==
  ASSUME TypeOK, Safe, Listings, NEW s \in Servers, ListTools(s), ConnectServer(s)
  PROVE  Listings'
<1> USE DEF programVars
<1>0. /\ s \notin through /\ session[s] = "open" /\ UNCHANGED <<config, session, registry, cancelled>>
      /\ routes' = Routed(s, Filtered(s)) /\ entries' = Listed(s, Filtered(s))
      /\ through' = through \cup {s} /\ ~IsNative(s)
  BY DEF ListTools, IsNext, ConnectServer, Safe, Sessions
<1>1. Filtered(s) \subseteq Offers[s] /\ Filtered(s) \subseteq Tools
  BY ServersAssumption, FilteredTools DEF Filtered
<1>2. \A t \in Filtered(s) : Name(s, t) \in Names /\ Routed(s, Filtered(s))[Name(s, t)] = <<s, t>>
  BY <1>1, RoutedAt DEF Names
<1>3. EntriesWork'
  <2> SUFFICES ASSUME NEW e \in entries', e[1] # None
               PROVE  \E u \in Servers, t \in Tools :
                        routes'[e[1]] = <<u, t>> /\ e[1] = Name(u, t) /\ session[u] = "open"
    BY <1>0 DEF EntriesWork
  <2>1. CASE \E t \in Filtered(s) : e[1] = Name(s, t)
    BY <2>1, <1>0, <1>1, <1>2
  <2>2. CASE ~\E t \in Filtered(s) : e[1] = Name(s, t)
    <3>1. e \in entries
      BY <2>2, <1>0 DEF Listed
    <3>2. e[1] \in Names
      BY <3>1 DEF TypeOK
    <3>3. routes'[e[1]] = routes[e[1]]
      BY <2>2, <3>2, <1>0 DEF Routed
    <3> QED
      BY <3>1, <3>3 DEF Listings, EntriesWork
  <2> QED
    BY <2>1, <2>2
<1>4. OwnNamesKept'
  <2> SUFFICES ASSUME NEW u \in through', session[u] = "open", NEW t \in Filtered(u),
                      Name(u, t) \in OwnNames(u)
               PROVE  routes'[Name(u, t)] = <<u, t>> /\ <<Name(u, t), u>> \in entries'
    BY <1>0 DEF OwnNamesKept, Filtered, OwnNames
  <2>1. CASE u = s
    BY <2>1, <1>0, <1>2 DEF Listed
  <2>2. CASE u # s
    <3>1. u \in through /\ u \in Servers
      BY <2>2, <1>0 DEF TypeOK
    <3>2. Name(u, t) \in Names /\ Name(u, t) \notin Prefixed[s]
      BY <2>2, <3>1, OwnName
    <3> QED
      BY <3>1, <3>2, <1>0, RoutedAt DEF Listings, OwnNamesKept, Listed
  <2> QED
    BY <2>1, <2>2
<1>5. NoneRefused'
  BY <1>0 DEF Listings, NoneRefused, Listed, IsNative
<1> QED
  BY <1>3, <1>4, <1>5 DEF Listings

(* A step that takes the tools of s out by their prefix.                   *)
LEMMA FailedStep ==
  ASSUME TypeOK, Safe, Listings, NEW s \in Servers,
         ListFails(s, s \in Failing \/ cancelled), ConnectServer(s)
  PROVE  Listings'
<1> USE DEF programVars
<1>0. /\ s \notin through /\ UNCHANGED <<config, registry, cancelled>>
      /\ session' = [session EXCEPT ![s] = "closed"]
      /\ s \in Failing \/ cancelled
      /\ through' = through \cup {s} /\ ~IsNative(s)
  BY DEF ListFails, IsNext, ConnectServer, Safe, Sessions
<1>1. PICK tools \in SUBSET Filtered(s) :
        /\ routes' = WithoutRoutes(s, Routed(s, tools))
        /\ entries' = WithoutEntries(s, Listed(s, tools))
  BY DEF ListFails
<1>2. \A t \in tools : Name(s, t) \in Prefixed[s]
  BY FilteredTools, ServersAssumption
<1>3. \A u \in Servers : session'[u] = (IF u = s THEN "closed" ELSE session[u])
  BY <1>0 DEF TypeOK
<1>4. \A n \in Names : n \notin Prefixed[s] => routes'[n] = routes[n]
  BY <1>1, RoutedAt DEF WithoutRoutes
<1>5. \A e \in entries : e[1] \notin Prefixed[s] => e \in entries'
  BY <1>1 DEF WithoutEntries, Listed
<1>6. \A e \in entries' : e \in entries /\ e[1] \notin Prefixed[s]
  BY <1>1, <1>2 DEF WithoutEntries, Listed
<1>7. EntriesWork'
  <2> SUFFICES ASSUME NEW e \in entries', e[1] # None
               PROVE  \E u \in Servers, t \in Tools :
                        routes'[e[1]] = <<u, t>> /\ e[1] = Name(u, t) /\ session'[u] = "open"
    BY DEF EntriesWork
  <2>1. e \in entries /\ e[1] \notin Prefixed[s] /\ e[1] \in Names
    BY <1>6 DEF TypeOK
  <2>2. PICK u \in Servers, t \in Tools :
          routes[e[1]] = <<u, t>> /\ e[1] = Name(u, t) /\ session[u] = "open"
    BY <2>1 DEF Listings, EntriesWork
  <2>3. u # s
    BY <2>1, <2>2, ServersAssumption
  <2> QED
    BY <2>1, <2>2, <2>3, <1>3, <1>4
<1>8. OwnNamesKept'
  <2> SUFFICES ASSUME NEW u \in through', session'[u] = "open", NEW t \in Filtered(u),
                      Name(u, t) \in OwnNames(u)
               PROVE  routes'[Name(u, t)] = <<u, t>> /\ <<Name(u, t), u>> \in entries'
    BY <1>0 DEF OwnNamesKept, Filtered, OwnNames
  <2>1. u \in through /\ u \in Servers /\ u # s /\ session[u] = "open"
    BY <1>0, <1>3 DEF TypeOK
  <2>2. Name(u, t) \in Names /\ Name(u, t) \notin Prefixed[s]
    BY <2>1, OwnName
  <2> QED
    BY <2>1, <2>2, <1>4, <1>5 DEF Listings, OwnNamesKept
<1>9. NoneRefused'
  <2> SUFFICES ASSUME NEW u \in through'
               PROVE  IF IsNative(u) THEN <<None, u>> \in entries'
                      ELSE registry = "none" \/ session'[u] = "open" \/ u \in Failing \/ cancelled
    BY <1>0 DEF NoneRefused, IsNative
  <2>1. CASE u = s
    BY <2>1, <1>0
  <2>2. CASE u # s
    <3>1. u \in through /\ u \in Servers
      BY <2>2, <1>0 DEF TypeOK
    <3>2. None \notin Prefixed[s]
      BY ServersAssumption
    <3> QED
      BY <2>2, <3>1, <3>2, <1>3, <1>5 DEF Listings, NoneRefused
  <2> QED
    BY <2>1, <2>2
<1> QED
  BY <1>7, <1>8, <1>9 DEF Listings

(* Steps of Connect that change no route: a native tool, a server that is  *)
(* dialled or skipped.                                                     *)
LEMMA OtherStep ==
  ASSUME TypeOK, Safe, Listings, NEW s \in Servers, ConnectServer(s),
         AddOpenRouter(s) \/ Dial(s) \/ SkipServer(s, s \in Failing \/ cancelled)
  PROVE  Listings'
<1> USE DEF programVars
<1>1. /\ UNCHANGED <<config, registry, cancelled, routes>>
      /\ s \notin through /\ s \in Configured
  BY DEF ConnectServer, AddOpenRouter, Dial, SkipServer, IsNext
<1>2. \A u \in through : u \in Servers /\ u # s /\ session'[u] = session[u]
  BY <1>1 DEF AddOpenRouter, Dial, SkipServer, TypeOK
<1>3. \A u \in Servers : session[u] = "open" => session'[u] = "open"
  BY DEF AddOpenRouter, Dial, SkipServer, TypeOK
<1>4. /\ entries \subseteq entries'
      /\ \A e \in entries' : e \in entries \/ e[1] = None
  BY DEF AddOpenRouter, Dial, SkipServer
<1>5. \A u \in through' : u \in through \/ (u = s /\ session'[s] # "open" /\ session[s] # "open")
  BY DEF AddOpenRouter, Dial, SkipServer, Safe, Sessions
<1>6. EntriesWork'
  BY <1>1, <1>3, <1>4 DEF Listings, EntriesWork
<1>7. OwnNamesKept'
  BY <1>1, <1>2, <1>4, <1>5 DEF Listings, OwnNamesKept, Filtered, OwnNames
<1>8. NoneRefused'
  <2> SUFFICES ASSUME NEW u \in through'
               PROVE  IF IsNative(u) THEN <<None, u>> \in entries'
                      ELSE registry = "none" \/ session'[u] = "open" \/ u \in Failing \/ cancelled
    BY <1>1 DEF NoneRefused, IsNative
  <2>1. CASE u \in through
    BY <2>1, <1>2, <1>4 DEF Listings, NoneRefused
  <2>2. CASE u \notin through
    <3>1. u = s /\ ~Dial(s)
      BY <2>2, <1>5 DEF Dial
    <3>2. config[s] # None /\ config[s]["type"] \in Types
          /\ (config[s]["type"] = "openrouter_tool" => config[s]["tool"] = "good")
      BY <1>1 DEF Configured, Safe, ValidConfig
    <3> QED
      BY <3>1, <3>2 DEF AddOpenRouter, SkipServer, NoTransport, IsNative, Types, KnownTool
  <2> QED
    BY <2>1, <2>2
<1> QED
  BY <1>6, <1>7, <1>8 DEF Listings

LEMMA ListingInit == Init => ListingInv
  BY DEF Init, InitRegistry, ListingInv, Listings, EntriesWork, OwnNamesKept, NoneRefused

LEMMA ListingInvStep == TypeOK /\ Safe /\ ListingInv /\ [Next]_vars => ListingInv'
<1> SUFFICES ASSUME TypeOK, Safe, ListingInv, [Next]_vars PROVE ListingInv'
  OBVIOUS
<1> USE DEF registryVars, programVars
<1> DEFINE Same == UNCHANGED <<config, through, session, routes, entries, registry>>
<1>1. ASSUME Same, Running' => Running, cancelled => cancelled' PROVE ListingInv'
  BY <1>1 DEF ListingInv, Listings, EntriesWork, OwnNamesKept, NoneRefused, Filtered, OwnNames,
              IsNative
<1>2. CASE UNCHANGED vars
  BY <1>1, <1>2 DEF vars, Running
<1>3. CASE LoadConfig
  BY <1>3 DEF LoadConfig, Safe, Phases, ListingInv, Listings, EntriesWork, OwnNamesKept,
              NoneRefused
<1>4. ASSUME NEW s \in Servers, ConnectServer(s) PROVE ListingInv'
  <2>1. Listings
    BY <1>4 DEF ConnectServer, ListingInv, Running, Safe, Phases
  <2> QED
    BY <1>4, <2>1, ListingStep, FailedStep, OtherStep DEF ConnectServer, ListingInv
<1>5. CASE EndWiring
  <2>1. Listings
    BY <1>5 DEF EndWiring, ListingInv, Running, Safe, Phases
  <2>2. UNCHANGED <<config, through, routes, entries, cancelled>>
    BY <1>5 DEF EndWiring, EndConnect
  <2>3. CASE entries = {}
    <3>1. session' = Closed /\ registry' = "none"
      BY <1>5, <2>3 DEF EndWiring, EndConnect
    <3>2. \A s \in Servers : session'[s] # "open"
      BY <3>1 DEF Closed, Safe, Sessions
    <3> QED
      BY <2>1, <2>2, <2>3, <3>1, <3>2
         DEF TypeOK, ListingInv, Listings, EntriesWork, OwnNamesKept, NoneRefused, IsNative
  <2>4. CASE entries # {}
    <3>1. UNCHANGED session /\ registry = "connecting"
      BY <1>5, <2>4 DEF EndWiring, EndConnect
    <3> QED
      BY <2>1, <2>2, <3>1 DEF ListingInv, Listings, EntriesWork, OwnNamesKept, NoneRefused,
                              Filtered, OwnNames, IsNative
  <2> QED
    BY <2>3, <2>4
<1>6. CASE OpenStore \/ StartMetrics \/ LoadPrompts \/ StartTransport \/ ReturnFromRun
  BY <1>1, <1>6 DEF OpenStore, StartMetrics, LoadPrompts, StartTransport, ReturnFromRun, Running
<1>7. CASE StartCleanup
  BY <1>7 DEF StartCleanup, ListingInv, Running
<1>8. CASE Exit \/ RunnerEnds \/ MetricsHearSignal \/ Signal
  BY <1>1, <1>8 DEF Exit, RunnerEnds, MetricsHearSignal, Signal, Running
<1>9. CASE Cleaning
  <2>1. main' = "cleanup"
    BY <1>9 DEF Cleaning, CloseStore, CloseMetrics, CloseSession, StartClear, EndClear, Safe,
                Phases
  <2> QED
    BY <2>1 DEF ListingInv, Running
<1>10. ASSUME NEW w \in Workers, Working(w) PROVE ListingInv'
  BY <1>1, <1>10 DEF Working, LookUp, GetSession, CallTool, Running
<1> QED
  BY <1>2, <1>3, <1>4, <1>5, <1>6, <1>7, <1>8, <1>9, <1>10 DEF Next, Main

LEMMA ListingsGiveWorks == TypeOK /\ ListingInv => ListedWorks
<1> SUFFICES ASSUME TypeOK, Listings PROVE ListedWorks
  BY DEF ListingInv, Running, ListedWorks
<1>1. ASSUME NEW e \in entries, e[1] # None
      PROVE  routes[e[1]] # None /\ session[routes[e[1]][1]] = "open"
  <2>1. PICK u \in Servers, t \in Tools :
          routes[e[1]] = <<u, t>> /\ e[1] = Name(u, t) /\ session[u] = "open"
    BY <1>1 DEF Listings, EntriesWork
  <2>2. <<u, t>> \in Servers \X Tools
    OBVIOUS
  <2> QED
    BY <2>1, <2>2, ServersAssumption
<1> QED
  BY <1>1 DEF ListedWorks, Listings, OwnNamesKept, NoneRefused

(* Whatever the ids and tools are, and whichever servers fail, what is     *)
(* listed leads to an open session, a server keeps its own names, and only *)
(* servers that failed are missing.                                        *)
THEOREM ProgramListedWorks == Spec => []ListedWorks
  BY TypeInit, TypeStep, SafeInit, SafeStep, ListingInit, ListingInvStep, ListingsGiveWorks, PTL
     DEF Spec
=============================================================================
