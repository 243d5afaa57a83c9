-------------------------- MODULE ChatMemoryLanes --------------------------
(***************************************************************************)
(* app/chat_memory_lock.go: chatMemoryLocker.  Work on the memory of a     *)
(* chat runs on two workers of that chat, "prepare" and "background".      *)
(* Both are created lazily, in a sync.Map that concurrent callers race on  *)
(* (Load, then LoadOrStore), and each starts its loop goroutine with a     *)
(* sync.Once.  A caller offers a task to the worker's bounded channel and  *)
(* waits for its done channel; it leaves both waits when its context is    *)
(* cancelled, while its task stays behind in the channel or keeps running. *)
(*                                                                         *)
(* A call stands for one goroutine inside run together with its task: the  *)
(* two are in one-to-one correspondence.  A chatMemoryLanes object is      *)
(* named by the call that allocated it, and a loop goroutine by the call   *)
(* whose start.Do spawned it.                                              *)
(*                                                                         *)
(* Some definitions are preceded by a variant of themselves that no action *)
(* uses (SharedWorkerFor before WorkerFor): the mistake the properties     *)
(* would find in its place.                                                *)
(***************************************************************************)
EXTENDS Naturals, Sequences

CONSTANTS
  Calls,   \* calls of runPrepare and runBackground
  Chats,   \* chat ids
  NoChat,  \* the empty chat id
  None,    \* no call: nil
  Cap,     \* capacity of a worker's channel (64 in the code)
  DestsOf  \* call -> the destinations it may be made for: bounds an instance

Queues == {"prepare", "background"}
Dests == (Chats \cup {NoChat}) \X Queues

ASSUME LanesAssumption ==
  /\ Cap \in Nat \ {0}
  /\ NoChat \notin Chats
  /\ None \notin Calls
  /\ DestsOf \in [Calls -> SUBSET Dests]

Workers == Calls \X Queues
Nowhere == <<NoChat, "prepare">>

VARIABLES
  pc,         \* where each call is
  dest,       \* the chat and the queue it was made for
  lanes,      \* the lanes object it resolved, named by its creator
  registry,   \* chats sync.Map: chat -> lanes object
  loops,      \* worker -> its loop goroutines
  current,    \* loop goroutine -> the call whose task it executes
  jobs,       \* worker -> its channel
  fn,         \* what became of the call's function
  done,       \* the task's done channel, capacity 1
  outcome,    \* whose answer the call returned: its function's or the context's
  cancelled   \* calls whose context is cancelled

callVars == <<pc, dest, lanes, outcome>>
workerVars == <<registry, loops, current, jobs, fn, done>>
vars == <<pc, dest, lanes, registry, loops, current, jobs, fn, done, outcome, cancelled>>

PCs == {"idle", "direct", "creating", "offering", "waiting", "returned"}

----------------------------------------------------------------------------

Init ==
  /\ pc = [c \in Calls |-> "idle"]
  /\ dest = [c \in Calls |-> Nowhere]
  /\ lanes = [c \in Calls |-> None]
  /\ registry = [h \in Chats |-> None]
  /\ loops = [w \in Workers |-> {}]
  /\ current = [c \in Calls |-> None]
  /\ jobs = [w \in Workers |-> <<>>]
  /\ fn = [c \in Calls |-> "none"]
  /\ done = [c \in Calls |-> "empty"]
  /\ outcome = [c \in Calls |-> "none"]
  /\ cancelled = {}

(* The worker a lanes object keeps for a queue; the worker of a call, once *)
(* the call knows its lanes object.                                        *)
SharedWorkerFor(o, q) == <<o, "background">>
WorkerFor(o, q) == <<o, q>>
Worker(c) == WorkerFor(lanes[c], dest[c][2])

(* The goroutines of w once c has passed start.Do: the first caller's. *)
LoopsAfterEveryStart(w, c) == loops[w] \cup {c}
LoopsNotStarted(w, c) == loops[w]
LoopsAfterStart(w, c) == IF loops[w] = {} THEN {c} ELSE loops[w]

(* The call enters run on the lanes object o: it starts the loop of the    *)
(* worker it picks, unless that was done, and offers its task.             *)
EnterRun(c, o, q) ==
  /\ lanes' = [lanes EXCEPT ![c] = o]
  /\ loops' = [loops EXCEPT ![WorkerFor(o, q)] = LoopsAfterStart(WorkerFor(o, q), c)]
  /\ pc' = [pc EXCEPT ![c] = "offering"]

(* runPrepare or runBackground is called; lanesFor looks the chat up.      *)
Call(c, h, q) ==
  /\ pc[c] = "idle"
  /\ <<h, q>> \in DestsOf[c]
  /\ dest' = [dest EXCEPT ![c] = <<h, q>>]
  /\ \/ /\ h = NoChat
        /\ pc' = [pc EXCEPT ![c] = "direct"]
        /\ fn' = [fn EXCEPT ![c] = "running"]
        /\ UNCHANGED <<lanes, loops>>
     \/ /\ h \in Chats
        /\ registry[h] = None
        /\ pc' = [pc EXCEPT ![c] = "creating"]
        /\ UNCHANGED <<lanes, loops, fn>>
     \/ /\ h \in Chats
        /\ registry[h] # None
        /\ EnterRun(c, registry[h], q)
        /\ UNCHANGED fn
  /\ UNCHANGED <<registry, current, jobs, done, outcome, cancelled>>

(* LoadOrStore: the object every caller of the chat ends up with.          *)
RegisteredByStore(c, h) == c
Registered(c, h) == IF registry[h] = None THEN c ELSE registry[h]

Create(c) ==
  /\ pc[c] = "creating"
  /\ LET h == dest[c][1]
         o == Registered(c, h)
     IN  /\ registry' = [registry EXCEPT ![h] = o]
         /\ EnterRun(c, o, dest[c][2])
  /\ UNCHANGED <<dest, current, jobs, fn, done, outcome, cancelled>>

(* Whether a worker's channel takes one more task. *)
RoomForOneTooMany(w) == Len(jobs[w]) <= Cap
HasRoom(w) == Len(jobs[w]) < Cap

(* The send wins the first select; Go may pick it although the context is  *)
(* already cancelled.                                                      *)
Offer(c) ==
  /\ pc[c] = "offering"
  /\ HasRoom(Worker(c))
  /\ jobs' = [jobs EXCEPT ![Worker(c)] = Append(@, c)]
  /\ fn' = [fn EXCEPT ![c] = "queued"]
  /\ pc' = [pc EXCEPT ![c] = "waiting"]
  /\ UNCHANGED <<dest, lanes, registry, loops, current, done, outcome, cancelled>>

(* ctx.Done wins the first or the second select. *)
LeavesWhileOffering == {"offering"}
Leaves == {"offering", "waiting"}

Leave(c) ==
  /\ pc[c] \in Leaves
  /\ c \in cancelled
  /\ pc' = [pc EXCEPT ![c] = "returned"]
  /\ outcome' = [outcome EXCEPT ![c] = "ctx"]
  /\ UNCHANGED <<dest, lanes, workerVars, cancelled>>

Receive(c) ==
  /\ pc[c] = "waiting"
  /\ done[c] # "empty"
  /\ pc' = [pc EXCEPT ![c] = "returned"]
  /\ outcome' = [outcome EXCEPT ![c] = done[c]]
  /\ done' = [done EXCEPT ![c] = "empty"]
  /\ UNCHANGED <<dest, lanes, registry, loops, current, jobs, fn, cancelled>>

(* An empty chat id bypasses the lanes: the caller runs fn itself. *)
RunDirect(c) ==
  /\ pc[c] = "direct"
  /\ fn' = [fn EXCEPT ![c] = "done"]
  /\ pc' = [pc EXCEPT ![c] = "returned"]
  /\ outcome' = [outcome EXCEPT ![c] = "fn"]
  /\ UNCHANGED <<dest, lanes, registry, loops, current, jobs, done, cancelled>>

----------------------------------------------------------------------------
(* The loop goroutine g of worker w. *)

(* The done channel takes one result without a receiver. *)
CanPostUnbuffered(c) == pc[c] = "waiting"
CanPost(c) == done[c] = "empty"

(* The oldest task, when g waits in its range over the channel. *)
CanTake(w, g, c) ==
  /\ g \in loops[w]
  /\ current[g] = None
  /\ jobs[w] # <<>>
  /\ Head(jobs[w]) = c

Take(w, g, c) ==
  /\ CanTake(w, g, c)
  /\ c \notin cancelled
  /\ jobs' = [jobs EXCEPT ![w] = Tail(@)]
  /\ current' = [current EXCEPT ![g] = c]
  /\ fn' = [fn EXCEPT ![c] = "running"]
  /\ UNCHANGED <<callVars, registry, loops, done, cancelled>>

(* The answer a dropped task gets. *)
DropSucceeds == "fn"
DropAnswer == "ctx"

Drop(w, g, c) ==
  /\ CanTake(w, g, c)
  /\ c \in cancelled
  /\ CanPost(c)
  /\ jobs' = [jobs EXCEPT ![w] = Tail(@)]
  /\ fn' = [fn EXCEPT ![c] = "dropped"]
  /\ done' = [done EXCEPT ![c] = DropAnswer]
  /\ UNCHANGED <<callVars, registry, loops, current, cancelled>>

(* The function returns and its result is posted, whether or not the call  *)
(* still waits for it.                                                     *)
Finish(w, g, c) ==
  /\ g \in loops[w]
  /\ current[g] = c
  /\ CanPost(c)
  /\ current' = [current EXCEPT ![g] = None]
  /\ fn' = [fn EXCEPT ![c] = "done"]
  /\ done' = [done EXCEPT ![c] = "fn"]
  /\ UNCHANGED <<callVars, registry, loops, jobs, cancelled>>

(* The caller's context is cancelled: by an update, a deletion, a newer    *)
(* run of the message, or the end of the program.                          *)
Cancel(c) ==
  /\ c \notin cancelled
  /\ cancelled' = cancelled \cup {c}
  /\ UNCHANGED <<callVars, workerVars>>

(* Every call has returned and the workers wait for more. *)
Idle ==
  /\ \A c \in Calls : pc[c] = "returned"
  /\ \A w \in Workers : jobs[w] = <<>>
  /\ \A c \in Calls : current[c] = None
  /\ UNCHANGED vars

CallStep(c) ==
  \/ Create(c)
  \/ Offer(c)
  \/ Leave(c)
  \/ Receive(c)
  \/ RunDirect(c)

LoopStep(w, g, c) == Take(w, g, c) \/ Drop(w, g, c) \/ Finish(w, g, c)

Next ==
  \/ \E c \in Calls, h \in Chats \cup {NoChat}, q \in Queues : Call(c, h, q)
  \/ \E c \in Calls : CallStep(c) \/ Cancel(c)
  \/ \E w \in Workers, g \in Calls, c \in Calls : LoopStep(w, g, c)
  \/ Idle

(* Calls and cancellations come from outside and are owed to nobody.  The  *)
(* Go scheduler runs every goroutine that can run, and a function ends:    *)
(* the model calls in it go through an http.Client with a Timeout.         *)
StepFairness ==
  /\ \A c \in Calls : WF_vars(CallStep(c))
  /\ \A w \in Workers :
       WF_vars(\E g \in Calls, c \in Calls : Take(w, g, c) \/ Drop(w, g, c))

FinishFairness(queues) ==
  \A w \in Workers :
    w[2] \in queues => WF_vars(\E g \in Calls, c \in Calls : Finish(w, g, c))

(* A background function that comes to an end, as it should. *)
BackgroundEnds == FinishFairness({"background"})

Spec == Init /\ [][Next]_vars

(* A background function may never return: only its lane may suffer. *)
StuckBackgroundSpec == Spec /\ StepFairness /\ FinishFairness({"prepare"})

----------------------------------------------------------------------------

(* Every variable holds a value of its type, and no channel holds more     *)
(* than its capacity.                                                      *)
TypeOK ==
  /\ pc \in [Calls -> PCs]
  /\ dest \in [Calls -> Dests]
  /\ lanes \in [Calls -> Calls \cup {None}]
  /\ registry \in [Chats -> Calls \cup {None}]
  /\ loops \in [Workers -> SUBSET Calls]
  /\ current \in [Calls -> Calls \cup {None}]
  /\ jobs \in [Workers -> Seq(Calls)]
  /\ \A w \in Workers : Len(jobs[w]) <= Cap
  /\ fn \in [Calls -> {"none", "queued", "running", "done", "dropped"}]
  /\ done \in [Calls -> {"empty", "fn", "ctx"}]
  /\ outcome \in [Calls -> {"none", "fn", "ctx"}]
  /\ cancelled \in SUBSET Calls

(* Two functions for the same queue of the same chat never run at once,    *)
(* whichever callers raced to create the lanes and to start their loops    *)
(* (lanesFor, start.Do, loop).                                             *)
Exclusive ==
  \A c, d \in Calls :
    ( /\ fn[c] = "running" /\ fn[d] = "running"
      /\ dest[c] = dest[d] /\ dest[c][1] # NoChat ) => c = d

(* What run returns is the truth: the function's result only after the     *)
(* function ran to its end, the context's error only for a context that is *)
(* cancelled; and a call whose function has been dropped cannot be told    *)
(* that it ran (run, loop).                                                *)
HonestOutcome ==
  \A c \in Calls :
    /\ outcome[c] = "fn" => fn[c] = "done"
    /\ outcome[c] = "ctx" => c \in cancelled

(* When functions end, every call returns: a caller that has left does not *)
(* hold up the loop it left its task with (run, loop, the done channel's   *)
(* buffer).                                                                *)
EveryCallReturns ==
  BackgroundEnds => \A c \in Calls : pc[c] # "idle" ~> pc[c] = "returned"

(* The reason there are two lanes (lines 16-18): with a background         *)
(* function that never returns, a prepare call of any chat still does.     *)
PrepareReturns ==
  \A c \in Calls :
    (pc[c] # "idle" /\ dest[c][2] = "prepare" /\ dest[c][1] # NoChat)
      ~> pc[c] = "returned"

(* A cancelled caller is never held: not by a full channel, not by a stuck *)
(* function ahead of its own (both selects of run).                        *)
CancelledCallReturns ==
  \A c \in Calls : (c \in cancelled /\ pc[c] # "idle") ~> pc[c] = "returned"

----------------------------------------------------------------------------
(* The refinement: a lane is a chat and a queue; it is empty until the     *)
(* chat's lanes are registered, and then it is the channel and the loop of *)
(* the registered worker.                                                  *)

RealLanes == Chats \X Queues
LaneWorker(l) == <<registry[l[1]], l[2]>>

lanePending ==
  [l \in RealLanes |-> IF registry[l[1]] = None THEN <<>> ELSE jobs[LaneWorker(l)]]
laneActive ==
  [l \in RealLanes |->
     IF registry[l[1]] = None THEN {}
     ELSE {c \in Calls : \E g \in loops[LaneWorker(l)] : current[g] = c}]
laneAdmitted == {c \in Calls : fn[c] # "none" /\ dest[c][1] # NoChat}

Promised ==
  INSTANCE SerialLanes WITH
    Lanes <- RealLanes, Jobs <- Calls,
    pending <- lanePending, active <- laneActive, admitted <- laneAdmitted

(* The goroutines, channels and lazy creation implement the serial lanes:  *)
(* first in, first out, one at a time, each once, skipped only if          *)
(* cancelled.                                                              *)
ImplementsSerialLanes == Promised!Spec

(* ... and when functions end no lane stalls: every task that entered a    *)
(* channel is executed or dropped, whether or not its caller still waits.  *)
LanesKeepGoing == BackgroundEnds => Promised!Fairness
============================================================================
