------------------------------ MODULE Program ------------------------------
(***************************************************************************)
(* The program from start to exit: runBot (cmd/bot/main.go), NewFromConfig *)
(* and its cleanup (internal/runner), the transport's Run                  *)
(* (internal/deltachat/rpc.go), and the workers that execute tools while   *)
(* all of it goes down: App.Run waits for none of them.                    *)
(*                                                                         *)
(* Processes: main; the goroutine in bot.Run; cleanup's goroutines, one    *)
(* for each thing to close; the metrics server's, which waits for the      *)
(* signal; the workers.  App's handlers return no errors, so that Run      *)
(* hears only of the signal and of bot.Run's end.                          *)
(***************************************************************************)
EXTENDS ToolServers

CONSTANTS
  Workers,     \* goroutines that execute tools
  Files,       \* what the file of tool servers may hold: id -> entry
  StartFaults  \* what may fail at the start: "config", "store", "prompts", "transport"

ASSUME ProgramAssumption ==
  \A file \in Files : \A s \in DOMAIN file : file[s] \in [Fields -> Values]

VARIABLES
  main,       \* where main is
  cancelled,  \* the signal was given
  runner,     \* the goroutine in bot.Run: none, running, stopping, ended
  runErr,     \* bot.Run's result is in its channel
  store,      \* none, open, closed
  metrics,    \* none, up, down
  closers,    \* cleanup's goroutines that are not done
  clearing,   \* Close is in clear(r.sessions)
  call,       \* worker -> its tool call, or None
  result,     \* what runBot returns
  exit        \* None, ok, error, or fatal: the Go runtime aborts

programVars ==
  <<main, cancelled, runner, runErr, store, metrics, closers, clearing, call, result, exit>>
vars == <<registryVars, programVars>>

Init ==
  /\ InitRegistry
  /\ main = "config"
  /\ cancelled = FALSE
  /\ runner = "none" /\ runErr = FALSE
  /\ store = "none" /\ metrics = "none"
  /\ closers = {} /\ clearing = FALSE
  /\ call = [w \in Workers |-> None]
  /\ result = None /\ exit = None

Fail == exit' = "error" /\ UNCHANGED main

----------------------------------------------------------------------------
(* main: the configuration, and NewFromConfig.  Until that returns there   *)
(* is no cleanup.                                                          *)

LoadConfig ==
  /\ main = "config"
  /\ \/ \E file \in Files :
          /\ config' = [s \in Servers |-> IF s \in Valid(file) THEN Trimmed(file[s]) ELSE None]
          /\ main' = "store" /\ UNCHANGED exit
     \/ "config" \in StartFaults /\ Fail /\ UNCHANGED config
  /\ UNCHANGED <<through, sessions, session, routes, entries, registry, cancelled, runner, runErr,
                 store, metrics, closers, clearing, call, result>>

OpenStore ==
  /\ main = "store"
  /\ \/ store' = "open" /\ main' = "metrics" /\ UNCHANGED exit
     \/ "store" \in StartFaults /\ Fail /\ UNCHANGED store
  /\ UNCHANGED <<registryVars, cancelled, runner, runErr, metrics, closers, clearing, call,
                 result>>

StartMetrics ==
  /\ main = "metrics"
  /\ metrics' \in {"none", "up"}
  /\ main' = "prompts"
  /\ UNCHANGED <<registryVars, cancelled, runner, runErr, store, closers, clearing, call,
                 result, exit>>

LoadPrompts ==
  /\ main = "prompts"
  /\ \/ main' = "connect" /\ UNCHANGED exit
     \/ "prompts" \in StartFaults /\ Fail
  /\ UNCHANGED <<registryVars, cancelled, runner, runErr, store, metrics, closers, clearing,
                 call, result>>

(* The servers are connected with a context that the signal ends. *)
ConnectServer(s) ==
  /\ main = "connect"
  /\ \/ AddOpenRouter(s) \/ Dial(s) \/ ListTools(s)
     \/ SkipServer(s, s \in Failing \/ cancelled)
     \/ ListFails(s, s \in Failing \/ cancelled)
  /\ UNCHANGED programVars

EndWiring ==
  /\ main = "connect"
  /\ EndConnect
  /\ main' = "start"
  /\ UNCHANGED <<cancelled, runner, runErr, store, metrics, closers, clearing, call, result,
                 exit>>

----------------------------------------------------------------------------
(* main: Run. *)

(* openRPC and soleAccountID. *)
StartTransport ==
  /\ main = "start"
  /\ \/ main' = "running" /\ runner' = "running" /\ UNCHANGED result
     \/ "transport" \in StartFaults /\ main' = "returned" /\ result' = "error" /\ UNCHANGED runner
     \/ cancelled /\ main' = "returned" /\ result' \in {"ok", "error"} /\ UNCHANGED runner
  /\ UNCHANGED <<registryVars, cancelled, runErr, store, metrics, closers, clearing, call, exit>>

(* The select; bot.Run may have ended because of the signal. *)
AwaitsEndOnly ==
  /\ runErr
  /\ result' \in {"ok", "error"}
  /\ UNCHANGED runner
Awaits ==
  \/ cancelled /\ runner' = (IF runner = "running" THEN "stopping" ELSE runner) /\ result' = "ok"
  \/ runErr /\ result' \in {"ok", "error"} /\ UNCHANGED runner
ReturnFromRun ==
  /\ main = "running"
  /\ Awaits
  /\ main' = "returned"
  /\ UNCHANGED <<registryVars, cancelled, runErr, store, metrics, closers, clearing, call, exit>>

(* bot.Run ends by itself when the RPC server does, and when it is told to *)
(* stop; its channel has room for the result.                              *)
RunnerEnds ==
  /\ runner \in {"running", "stopping"}
  /\ runner' = "ended" /\ runErr' = TRUE
  /\ UNCHANGED <<registryVars, main, cancelled, store, metrics, closers, clearing, call, result,
                 exit>>

----------------------------------------------------------------------------
(* Cleanup: all at once. *)

StartCleanup ==
  /\ main = "returned"
  /\ closers' = {"store"} \cup (IF metrics = "none" THEN {} ELSE {"metrics"})
                  \cup (IF registry = "ready" THEN {"registry"} ELSE {})
  /\ main' = "cleanup"
  /\ UNCHANGED <<registryVars, cancelled, runner, runErr, store, metrics, clearing, call, result,
                 exit>>

CloseStore ==
  /\ "store" \in closers
  /\ store' = "closed" /\ closers' = closers \ {"store"}
  /\ UNCHANGED <<registryVars, main, cancelled, runner, runErr, metrics, clearing, call, result,
                 exit>>

CloseMetrics ==
  /\ "metrics" \in closers
  /\ metrics' = "down" /\ closers' = closers \ {"metrics"}
  /\ UNCHANGED <<registryVars, main, cancelled, runner, runErr, store, clearing, call, result,
                 exit>>

MetricsHearSignal ==
  /\ cancelled /\ metrics = "up"
  /\ metrics' = "down"
  /\ UNCHANGED <<registryVars, main, cancelled, runner, runErr, store, closers, clearing, call,
                 result, exit>>

(* Registry.Close: the sessions one by one, then the map. *)
CloseSession(s) ==
  /\ "registry" \in closers /\ ~clearing
  /\ s \in sessions /\ session[s] = "open"
  /\ session' = [session EXCEPT ![s] = "closed"]
  /\ UNCHANGED <<config, through, sessions, routes, entries, registry, programVars>>

StartClear ==
  /\ "registry" \in closers /\ ~clearing
  /\ \A s \in sessions : session[s] # "open"
  /\ clearing' = TRUE
  /\ UNCHANGED <<registryVars, main, cancelled, runner, runErr, store, metrics, closers, call,
                 result, exit>>

EndClear ==
  /\ clearing
  /\ sessions' = {} /\ clearing' = FALSE /\ closers' = closers \ {"registry"}
  /\ UNCHANGED <<config, through, session, routes, entries, registry, main, cancelled, runner, runErr,
                 store, metrics, call, result, exit>>

Exit ==
  /\ main = "cleanup" /\ closers = {}
  /\ exit' = result
  /\ UNCHANGED <<registryVars, main, cancelled, runner, runErr, store, metrics, closers,
                 clearing, call, result>>

Signal ==
  /\ ~cancelled
  /\ cancelled' = TRUE
  /\ UNCHANGED <<registryVars, main, runner, runErr, store, metrics, closers, clearing, call,
                 result, exit>>

----------------------------------------------------------------------------
(* Workers: ExecuteTool.  They run from the scheduler's start on, and      *)
(* nothing waits for them.                                                 *)

LookUp(w) ==
  /\ registry = "ready" /\ main \in {"start", "running", "returned", "cleanup"}
  /\ call[w] = None
  /\ \E n \in Names :
       /\ routes[n] # None
       /\ call' = [call EXCEPT ![w] = [at |-> "routed", server |-> routes[n][1]]]
  /\ UNCHANGED <<registryVars, main, cancelled, runner, runErr, store, metrics, closers,
                 clearing, result, exit>>

(* The map is read with no lock.  A read while it is cleared finds the     *)
(* session or not, or the runtime aborts the program.                      *)
GetSession(w) ==
  /\ call[w] # None /\ call[w].at = "routed"
  /\ \/ /\ call[w].server \in sessions
        /\ call' = [call EXCEPT ![w] = [at |-> "session", server |-> call[w].server]]
        /\ UNCHANGED exit
     \/ /\ call[w].server \notin sessions \/ clearing
        /\ call' = [call EXCEPT ![w] = None] /\ UNCHANGED exit
     \/ clearing /\ exit' = "fatal" /\ UNCHANGED call
  /\ UNCHANGED <<registryVars, main, cancelled, runner, runErr, store, metrics, closers,
                 clearing, result>>

(* The session answers, or it is closed and gives an error. *)
CallTool(w) ==
  /\ call[w] # None /\ call[w].at = "session"
  /\ call' = [call EXCEPT ![w] = None]
  /\ UNCHANGED <<registryVars, main, cancelled, runner, runErr, store, metrics, closers,
                 clearing, result, exit>>

----------------------------------------------------------------------------

Main ==
  \/ LoadConfig \/ OpenStore \/ StartMetrics \/ LoadPrompts \/ EndWiring \/ StartTransport \/ ReturnFromRun
  \/ StartCleanup \/ Exit
  \/ \E s \in Servers : ConnectServer(s)
Cleaning == CloseStore \/ CloseMetrics \/ StartClear \/ EndClear
            \/ \E s \in Servers : CloseSession(s)
Working(w) == LookUp(w) \/ GetSession(w) \/ CallTool(w)

Next ==
  /\ exit = None
  /\ \/ Main \/ Cleaning \/ RunnerEnds \/ MetricsHearSignal \/ Signal
     \/ \E w \in Workers : Working(w)

Spec == Init /\ [][Next]_vars

(* main and cleanup's goroutines are never blocked for good: what they     *)
(* wait for in another process has a timeout or ends with the process.     *)
Fairness == WF_vars(exit = None /\ Main) /\ WF_vars(exit = None /\ Cleaning)
FairSpec == Spec /\ Fairness

----------------------------------------------------------------------------
(* Properties. *)

TypeOK ==
  /\ config \in [Servers -> Entries \cup {None}]
  /\ through \subseteq Servers
  /\ sessions \subseteq Servers
  /\ session \in [Servers -> {"none", "open", "closed"}]
  /\ routes \in [Names -> (Servers \X Tools) \cup {None}]
  /\ entries \subseteq (Names \cup {None}) \X Servers
  /\ registry \in {"connecting", "ready", "none"}
  /\ main \in {"config", "store", "metrics", "prompts", "connect", "start", "running", "returned", "cleanup"}
  /\ cancelled \in BOOLEAN /\ runErr \in BOOLEAN /\ clearing \in BOOLEAN
  /\ runner \in {"none", "running", "stopping", "ended"}
  /\ store \in {"none", "open", "closed"} /\ metrics \in {"none", "up", "down"}
  /\ closers \subseteq {"store", "metrics", "registry"}
  /\ call \in [Workers -> [at : {"routed", "session"}, server : Servers] \cup {None}]
  /\ result \in {None, "ok", "error"} /\ exit \in {None, "ok", "error", "fatal"}

(* Until the registry is closed, what is listed to the model leads to a    *)
(* session the registry has not closed (a server that goes away by itself  *)
(* it does not notice), though a server's failure takes others' routes;    *)
(* a server that is through has its own names listed and leading to        *)
(* itself; and of the valid entries of the file only servers that failed   *)
(* are missing: Connect refuses none that Validate let pass (Connect,      *)
(* removeToolsForServer, Validate).                                        *)
ListedWorks ==
  "registry" \notin closers /\ main # "cleanup" =>
    /\ \A e \in entries : e[1] # None =>
         routes[e[1]] # None /\ session[routes[e[1]][1]] = "open"
    /\ \A s \in through : session[s] = "open" =>
         \A t \in Filtered(s) : Name(s, t) \in OwnNames(s) =>
           routes[Name(s, t)] = <<s, t>> /\ <<Name(s, t), s>> \in entries
    /\ \A s \in through : IF IsNative(s) THEN <<None, s>> \in entries
                         ELSE registry = "none" \/ session[s] = "open" \/ s \in Failing \/ cancelled

(* No session, which may be a process, outlives the program, not even when *)
(* it is aborted; a program that got as far as its event loop and is not   *)
(* aborted has closed the store and the metrics server (runner.go cleanup, *)
(* registry.go Close).                                                     *)
NothingLeftOpen ==
  exit # None =>
    /\ \A s \in Servers : session[s] # "open"
    /\ main = "cleanup" /\ exit # "fatal" => store = "closed" /\ metrics # "up"

(* Whatever the workers do, the program ends after a signal, and after the *)
(* end of the RPC server (rpc.go Run's select, cleanup's wait).            *)
EndsOnceStopped == (cancelled \/ runErr) ~> (exit # None)
=============================================================================
