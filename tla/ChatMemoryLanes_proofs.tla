---------------------- MODULE ChatMemoryLanes_proofs ----------------------
(***************************************************************************)
(* Proofs about ChatMemoryLanes, for any number of calls and chats and any *)
(* capacity: type correctness, mutual exclusion of a lane's functions, the *)
(* truth of what a call returns, and that the lanes implement SerialLanes. *)
(***************************************************************************)
EXTENDS ChatMemoryLanes, TLAPS

----------------------------------------------------------------------------
(* The inductive invariant. *)

(* Where a call is tells what it has: its lanes object is the one that is  *)
(* registered for its chat, so two calls for the same queue of a chat meet *)
(* at the same worker; and its function has not begun before it was sent.  *)
PlaceInv ==
  \A c \in Calls :
    /\ pc[c] \in {"idle", "direct", "creating"} => lanes[c] = None
    /\ pc[c] \in {"idle", "creating", "offering"} => fn[c] = "none"
    /\ pc[c] = "creating" => dest[c][1] \in Chats
    /\ pc[c] \in {"offering", "waiting"} => lanes[c] # None
    /\ lanes[c] # None =>
         /\ dest[c][1] \in Chats
         /\ registry[dest[c][1]] = lanes[c]

(* A channel holds calls for its worker whose function is queued, each of  *)
(* them once.                                                              *)
QueueInv ==
  \A w \in Workers : \A i \in 1 .. Len(jobs[w]) :
    /\ lanes[jobs[w][i]] # None
    /\ WorkerFor(lanes[jobs[w][i]], dest[jobs[w][i]][2]) = w
    /\ fn[jobs[w][i]] = "queued"
    /\ \A k \in 1 .. Len(jobs[w]) : jobs[w][i] = jobs[w][k] => i = k

(* sync.Once: a worker has at most one loop goroutine. *)
LoopInv ==
  \A w \in Workers : \A g, h \in loops[w] : g = h

(* A function that runs on behalf of a chat is what a loop of its own      *)
(* worker executes.                                                        *)
RunInv ==
  \A c \in Calls :
    (fn[c] = "running" /\ dest[c][1] # NoChat) =>
      /\ lanes[c] # None
      /\ \E g \in loops[Worker(c)] : current[g] = c

(* A loop executes a queued call that it took, and no two loops the same.  *)
CurrentInv ==
  \A g \in Calls : current[g] # None =>
    /\ fn[current[g]] = "running"
    /\ lanes[current[g]] # None
    /\ \A h \in Calls : current[h] = current[g] => h = g

(* What is in the done channel is as true as what a call returned. *)
ResultInv ==
  \A c \in Calls :
    /\ done[c] = "fn" => fn[c] = "done"
    /\ done[c] = "ctx" => c \in cancelled
    /\ outcome[c] = "fn" => fn[c] = "done"
    /\ outcome[c] = "ctx" => c \in cancelled

IInv ==
  /\ TypeOK
  /\ PlaceInv
  /\ QueueInv
  /\ LoopInv
  /\ RunInv
  /\ CurrentInv
  /\ ResultInv

----------------------------------------------------------------------------
(* Facts about the types. *)

LEMMA WorkerTyped ==
  ASSUME TypeOK, NEW c \in Calls, lanes[c] # None
  PROVE  Worker(c) \in Workers
  BY DEF TypeOK, Worker, WorkerFor, Workers, Dests

LEMMA HeadTail ==
  ASSUME NEW s \in Seq(Calls), s # <<>>
  PROVE  /\ Head(s) = s[1]
         /\ Len(Tail(s)) = Len(s) - 1
         /\ 1 \in 1 .. Len(s)
         /\ \A i \in 1 .. Len(Tail(s)) : i + 1 \in 1 .. Len(s) /\ Tail(s)[i] = s[i + 1]
  OBVIOUS

(* The call whose task a loop is about to take. *)
LEMMA HeadQueued ==
  ASSUME IInv, NEW w \in Workers, NEW g \in Calls, NEW c \in Calls, CanTake(w, g, c)
  PROVE  /\ g \in loops[w] /\ current[g] = None
         /\ jobs[w] \in Seq(Calls) /\ jobs[w] # <<>> /\ c = jobs[w][1]
         /\ lanes[c] # None
         /\ Worker(c) = w
         /\ fn[c] = "queued"
         /\ \A i \in 1 .. Len(jobs[w]) : jobs[w][i] = c => i = 1
<1>1. jobs[w] \in Seq(Calls) /\ jobs[w] # <<>>
  BY DEF IInv, TypeOK, CanTake
<1>2. c = jobs[w][1] /\ 1 \in 1 .. Len(jobs[w])
  BY <1>1, HeadTail DEF CanTake
<1> QED
  BY <1>1, <1>2 DEF IInv, QueueInv, CanTake, Worker

LEMMA CallPreserves ==
  ASSUME IInv, NEW c \in Calls, NEW h \in Chats \cup {NoChat}, NEW q \in Queues, Call(c, h, q)
  PROVE  IInv'
<1> USE LanesAssumption DEF TypeOK, Dests, Workers, PCs
<1>1. CASE h = NoChat \/ registry[h] = None
  <2>1. pc[c] = "idle" /\ dest' = [dest EXCEPT ![c] = <<h, q>>]
        /\ UNCHANGED <<lanes, loops, registry, current, jobs, done, outcome, cancelled>>
        /\ \/ h = NoChat /\ pc' = [pc EXCEPT ![c] = "direct"] /\ fn' = [fn EXCEPT ![c] = "running"]
           \/ h \in Chats /\ pc' = [pc EXCEPT ![c] = "creating"] /\ UNCHANGED fn
    BY <1>1 DEF Call
  <2>2. lanes[c] = None /\ fn[c] = "none" /\ <<h, q>> \in Dests
    BY <2>1 DEF IInv, PlaceInv
  <2>3. TypeOK'
    <3>1. dest' \in [Calls -> (Chats \cup {NoChat}) \X Queues]
      BY <2>1, <2>2 DEF IInv
    <3>2. pc' \in [Calls -> PCs]
      <4>1. CASE pc' = [pc EXCEPT ![c] = "direct"]
        BY <4>1 DEF IInv
      <4>2. CASE pc' = [pc EXCEPT ![c] = "creating"]
        BY <4>2 DEF IInv
      <4> QED
        BY <2>1, <4>1, <4>2
    <3>3. fn' \in [Calls -> {"none", "queued", "running", "done", "dropped"}]
      BY <2>1 DEF IInv
    <3> QED
      BY <2>1, <3>1, <3>2, <3>3 DEF IInv
  <2>4. PlaceInv'
    BY <2>1, <2>2 DEF IInv, PlaceInv
  <2>5. QueueInv'
    BY <2>1, <2>2 DEF IInv, QueueInv, Worker, WorkerFor
  <2>6. LoopInv'
    BY <2>1 DEF IInv, LoopInv
  <2>7. RunInv'
    BY <2>1, <2>2 DEF IInv, RunInv, Worker, WorkerFor
  <2>8. ResultInv'
    BY <2>1, <2>2 DEF IInv, ResultInv
  <2>9. CurrentInv'
    BY <2>1, <2>2 DEF IInv, CurrentInv
  <2> QED
    BY <2>3, <2>4, <2>5, <2>6, <2>7, <2>8, <2>9 DEF IInv
<1>2. CASE h # NoChat /\ registry[h] # None
  <2> DEFINE w == <<registry[h], q>>
  <2>1. /\ pc[c] = "idle" /\ h \in Chats /\ pc' = [pc EXCEPT ![c] = "offering"]
        /\ dest' = [dest EXCEPT ![c] = <<h, q>>]
        /\ lanes' = [lanes EXCEPT ![c] = registry[h]]
        /\ loops' = [loops EXCEPT ![w] = LoopsAfterStart(w, c)]
        /\ UNCHANGED <<fn, registry, current, jobs, done, outcome, cancelled>>
    BY <1>2 DEF Call, EnterRun, WorkerFor
  <2>2. lanes[c] = None /\ fn[c] = "none" /\ <<h, q>> \in Dests /\ registry[h] \in Calls
    BY <1>2, <2>1 DEF IInv, PlaceInv
  <2>3. w \in Workers /\ LoopsAfterStart(w, c) \in SUBSET Calls
    BY <2>2 DEF LoopsAfterStart, IInv
  <2>a. \A u \in Workers : loops[u] \subseteq loops'[u]
    BY <2>1, <2>3 DEF LoopsAfterStart, IInv
  <2>4. TypeOK'
    <3> HIDE DEF w
    <3> QED BY <2>1, <2>2, <2>3 DEF IInv
  <2>5. PlaceInv'
    BY <2>1, <2>2 DEF IInv, PlaceInv
  <2>6. QueueInv'
    BY <2>1, <2>2 DEF IInv, QueueInv, Worker, WorkerFor
  <2>7. LoopInv'
    <3> HIDE DEF w
    <3> QED BY <2>1, <2>3 DEF IInv, LoopInv, LoopsAfterStart
  <2>8. RunInv'
    <3>1. \A d \in Calls : fn'[d] = "running" => d # c
      BY <2>1, <2>2
    <3>2. \A d \in Calls : d # c => Worker(d)' = Worker(d) /\ dest'[d] = dest[d] /\ lanes'[d] = lanes[d]
      BY <2>1 DEF Worker, WorkerFor, IInv
    <3>3. \A d \in Calls : lanes[d] # None => Worker(d) \in Workers
      BY WorkerTyped DEF IInv
    <3> HIDE DEF w
    <3> QED BY <2>1, <2>a, <3>1, <3>2, <3>3 DEF IInv, RunInv
  <2>9. ResultInv'
    BY <2>1, <2>2 DEF IInv, ResultInv
  <2>10. CurrentInv'
    BY <2>1, <2>2 DEF IInv, CurrentInv
  <2> QED
    BY <2>4, <2>5, <2>6, <2>7, <2>8, <2>9, <2>10 DEF IInv
<1> QED
  BY <1>1, <1>2

LEMMA CreatePreserves ==
  ASSUME IInv, NEW c \in Calls, Create(c)
  PROVE  IInv'
<1> USE LanesAssumption DEF Create, Registered, EnterRun, LoopsAfterStart, WorkerFor, TypeOK, Dests, Workers, PCs
<1>1. TypeOK'
  BY DEF IInv, PlaceInv, Queues
<1>2. PlaceInv'
  BY DEF IInv, PlaceInv
<1>3. QueueInv'
  BY DEF IInv, PlaceInv, QueueInv, Worker, WorkerFor
<1>4. LoopInv'
  BY DEF IInv, LoopInv
<1>5. RunInv'
  BY DEF IInv, RunInv, PlaceInv, Worker, WorkerFor
<1>6. ResultInv'
  BY DEF IInv, ResultInv, PlaceInv
<1>7. CurrentInv'
  BY DEF IInv, CurrentInv, PlaceInv
<1> QED
  BY <1>1, <1>2, <1>3, <1>4, <1>5, <1>6, <1>7 DEF IInv

LEMMA OfferPreserves ==
  ASSUME IInv, NEW c \in Calls, Offer(c)
  PROVE  IInv'
<1> USE LanesAssumption DEF Offer, HasRoom, TypeOK, Dests, Workers, PCs
<1>w. lanes[c] # None /\ Worker(c) \in Workers /\ fn[c] = "none"
  BY WorkerTyped DEF IInv, PlaceInv
<1>s. /\ jobs'[Worker(c)] = Append(jobs[Worker(c)], c)
      /\ jobs[Worker(c)] \in Seq(Calls)
      /\ \A u \in Workers : u # Worker(c) => jobs'[u] = jobs[u]
  BY <1>w DEF IInv
<1>1. TypeOK'
  <2>1. jobs' \in [Workers -> Seq(Calls)]
    BY <1>w, <1>s DEF IInv
  <2>2. Len(jobs'[Worker(c)]) <= Cap
    BY <1>s DEF IInv
  <2> QED
    BY <2>1, <2>2, <1>s DEF IInv
<1>2. PlaceInv'
  BY DEF IInv, PlaceInv
<1>3. QueueInv'
  <2>1. SUFFICES ASSUME NEW u \in Workers, NEW i \in 1 .. Len(jobs'[u])
                 PROVE  /\ lanes'[jobs'[u][i]] # None
                        /\ WorkerFor(lanes'[jobs'[u][i]], dest'[jobs'[u][i]][2]) = u
                        /\ fn'[jobs'[u][i]] = "queued"
                        /\ \A k \in 1 .. Len(jobs'[u]) : jobs'[u][i] = jobs'[u][k] => i = k
    BY DEF QueueInv, WorkerFor
  <2>3. \A k \in 1 .. Len(jobs[u]) : jobs[u][k] \in Calls /\ jobs[u][k] # c
    BY <1>w DEF IInv, QueueInv
  <2>4. CASE u = Worker(c)
    <3>1. Len(jobs'[u]) = Len(jobs[u]) + 1 /\ jobs'[u][Len(jobs[u]) + 1] = c
      BY <2>4, <1>s
    <3>2. \A k \in 1 .. Len(jobs[u]) : jobs'[u][k] = jobs[u][k]
      BY <2>4, <1>s
    <3>3. CASE i = Len(jobs[u]) + 1
      <4>1. jobs'[u][i] = c
        BY <3>1, <3>3
      <4>2. \A k \in 1 .. Len(jobs'[u]) : jobs'[u][k] = c => k = i
        BY <2>3, <3>1, <3>2, <3>3
      <4>3. WorkerFor(lanes[c], dest[c][2]) = u /\ fn'[c] = "queued"
        BY <2>4 DEF IInv, Worker
      <4> QED
        BY <1>w, <4>1, <4>2, <4>3
    <3>4. CASE i \in 1 .. Len(jobs[u])
      BY <2>3, <3>1, <3>2, <3>4 DEF IInv, QueueInv, WorkerFor
    <3> QED
      BY <3>1, <3>3, <3>4, <1>s, <2>4
  <2>5. CASE u # Worker(c)
    BY <1>s, <2>3, <2>5 DEF IInv, QueueInv, WorkerFor
  <2> QED
    BY <2>4, <2>5
<1>4. LoopInv'
  BY DEF IInv, LoopInv
<1>5. RunInv'
  BY DEF IInv, RunInv, PlaceInv, Worker, WorkerFor
<1>6. ResultInv'
  BY DEF IInv, ResultInv, PlaceInv
<1>7. CurrentInv'
  BY DEF IInv, CurrentInv, PlaceInv
<1> QED
  BY <1>1, <1>2, <1>3, <1>4, <1>5, <1>6, <1>7 DEF IInv

LEMMA LeavePreserves ==
  ASSUME IInv, NEW c \in Calls, Leave(c)
  PROVE  IInv'
<1> USE LanesAssumption DEF Leave, Leaves, workerVars, TypeOK, Dests, Workers, PCs
<1>1. TypeOK'
  BY DEF IInv, PlaceInv, Queues
<1>2. PlaceInv'
  BY DEF IInv, PlaceInv
<1>3. QueueInv'
  BY DEF IInv, PlaceInv, QueueInv, Worker, WorkerFor
<1>4. LoopInv'
  BY DEF IInv, LoopInv
<1>5. RunInv'
  BY DEF IInv, RunInv, PlaceInv, Worker, WorkerFor
<1>6. ResultInv'
  BY DEF IInv, ResultInv, PlaceInv
<1>7. CurrentInv'
  BY DEF IInv, CurrentInv, PlaceInv
<1> QED
  BY <1>1, <1>2, <1>3, <1>4, <1>5, <1>6, <1>7 DEF IInv

LEMMA ReceivePreserves ==
  ASSUME IInv, NEW c \in Calls, Receive(c)
  PROVE  IInv'
<1> USE LanesAssumption DEF Receive, TypeOK, Dests, Workers, PCs
<1>1. TypeOK'
  BY DEF IInv, PlaceInv, Queues
<1>2. PlaceInv'
  BY DEF IInv, PlaceInv
<1>3. QueueInv'
  BY DEF IInv, PlaceInv, QueueInv, Worker, WorkerFor
<1>4. LoopInv'
  BY DEF IInv, LoopInv
<1>5. RunInv'
  BY DEF IInv, RunInv, PlaceInv, Worker, WorkerFor
<1>6. ResultInv'
  BY DEF IInv, ResultInv, PlaceInv
<1>7. CurrentInv'
  BY DEF IInv, CurrentInv, PlaceInv
<1> QED
  BY <1>1, <1>2, <1>3, <1>4, <1>5, <1>6, <1>7 DEF IInv

LEMMA RunDirectPreserves ==
  ASSUME IInv, NEW c \in Calls, RunDirect(c)
  PROVE  IInv'
<1> USE LanesAssumption DEF RunDirect, TypeOK, Dests, Workers, PCs
<1>1. TypeOK'
  BY DEF IInv, PlaceInv, Queues
<1>2. PlaceInv'
  BY DEF IInv, PlaceInv
<1>3. QueueInv'
  BY DEF IInv, PlaceInv, QueueInv, Worker, WorkerFor
<1>4. LoopInv'
  BY DEF IInv, LoopInv
<1>5. RunInv'
  BY DEF IInv, RunInv, PlaceInv, Worker, WorkerFor
<1>6. ResultInv'
  BY DEF IInv, ResultInv, PlaceInv
<1>7. CurrentInv'
  BY DEF IInv, CurrentInv, PlaceInv
<1> QED
  BY <1>1, <1>2, <1>3, <1>4, <1>5, <1>6, <1>7 DEF IInv

LEMMA CancelPreserves ==
  ASSUME IInv, NEW c \in Calls, Cancel(c)
  PROVE  IInv'
<1> USE LanesAssumption DEF Cancel, callVars, workerVars, TypeOK, Dests, Workers, PCs
<1>1. TypeOK'
  BY DEF IInv, PlaceInv, Queues
<1>2. PlaceInv'
  BY DEF IInv, PlaceInv
<1>3. QueueInv'
  BY DEF IInv, PlaceInv, QueueInv, Worker, WorkerFor
<1>4. LoopInv'
  BY DEF IInv, LoopInv
<1>5. RunInv'
  BY DEF IInv, RunInv, PlaceInv, Worker, WorkerFor
<1>6. ResultInv'
  BY DEF IInv, ResultInv, PlaceInv
<1>7. CurrentInv'
  BY DEF IInv, CurrentInv, PlaceInv
<1> QED
  BY <1>1, <1>2, <1>3, <1>4, <1>5, <1>6, <1>7 DEF IInv

LEMMA TakePreserves ==
  ASSUME IInv, NEW w \in Workers, NEW g \in Calls, NEW c \in Calls, Take(w, g, c)
  PROVE  IInv'
<1> USE LanesAssumption DEF Take, callVars, TypeOK, Dests, Workers, PCs
<1>0. CanTake(w, g, c)
  OBVIOUS
<1>h. /\ g \in loops[w] /\ current[g] = None
      /\ jobs[w] \in Seq(Calls) /\ jobs[w] # <<>> /\ c = jobs[w][1]
      /\ lanes[c] # None
      /\ Worker(c) = w
      /\ fn[c] = "queued"
      /\ \A i \in 1 .. Len(jobs[w]) : jobs[w][i] = c => i = 1
  BY <1>0, HeadQueued
<1>t. /\ Len(Tail(jobs[w])) = Len(jobs[w]) - 1
      /\ \A i \in 1 .. Len(Tail(jobs[w])) :
           i + 1 \in 1 .. Len(jobs[w]) /\ Tail(jobs[w])[i] = jobs[w][i + 1]
  BY <1>h, HeadTail
<1>1. TypeOK'
  BY <1>h, <1>t DEF IInv
<1>2. PlaceInv'
  BY <1>h DEF IInv, PlaceInv
<1>3. QueueInv'
  <2>1. SUFFICES ASSUME NEW u \in Workers, NEW i \in 1 .. Len(jobs'[u])
                 PROVE  /\ lanes'[jobs'[u][i]] # None
                        /\ WorkerFor(lanes'[jobs'[u][i]], dest'[jobs'[u][i]][2]) = u
                        /\ fn'[jobs'[u][i]] = "queued"
                        /\ \A k \in 1 .. Len(jobs'[u]) : jobs'[u][i] = jobs'[u][k] => i = k
    BY DEF QueueInv, WorkerFor
  <2>2. CASE u = w
    <3>1. jobs'[u] = Tail(jobs[w])
      BY <2>2 DEF IInv
    <3>2. i + 1 \in 1 .. Len(jobs[w]) /\ jobs'[u][i] = jobs[w][i + 1]
      BY <3>1, <1>t
    <3>5. jobs'[u][i] # c
      BY <3>2, <1>h
    <3>3. \A k \in 1 .. Len(jobs'[u]) : k + 1 \in 1 .. Len(jobs[w]) /\ jobs'[u][k] = jobs[w][k + 1]
      BY <3>1, <1>t
    <3>4. jobs'[u][i] \in Calls
      BY <3>2, <1>h
    <3> QED
      BY <2>2, <3>2, <3>3, <3>4, <3>5 DEF IInv, QueueInv, WorkerFor
  <2>3. CASE u # w
    <3>1. jobs'[u] = jobs[u]
      BY <2>3 DEF IInv
    <3>2. jobs[u][i] \in Calls /\ jobs[u][i] # c
      BY <1>h, <2>3, <3>1 DEF IInv, QueueInv, Worker
    <3> QED
      BY <3>1, <3>2 DEF IInv, QueueInv, WorkerFor
  <2> QED
    BY <2>2, <2>3
<1>4. LoopInv'
  BY <1>h DEF IInv, LoopInv
<1>5. RunInv'
  <2>1. SUFFICES ASSUME NEW d \in Calls, fn'[d] = "running", dest'[d][1] # NoChat
                 PROVE  lanes'[d] # None /\ \E k \in loops'[Worker(d)'] : current'[k] = d
    BY DEF RunInv
  <2>2. Worker(d)' = Worker(d)
    BY DEF Worker, WorkerFor
  <2>3. CASE d = c
    <3>1. g \in loops'[w] /\ current'[g] = c /\ Worker(c)' = w
      BY <1>h, <2>2, <2>3 DEF IInv
    <3> QED
      BY <1>h, <2>3, <3>1
  <2>4. CASE d # c
    <3>1. PICK k \in loops[Worker(d)] : current[k] = d
      BY <2>1, <2>4 DEF IInv, RunInv
    <3>2. k # g
      BY <3>1, <1>h
    <3> QED
      BY <2>1, <2>2, <2>4, <3>1, <3>2 DEF IInv, RunInv
  <2> QED
    BY <2>3, <2>4
<1>6. ResultInv'
  BY <1>h DEF IInv, ResultInv, PlaceInv
<1>7. CurrentInv'
  BY <1>h DEF IInv, CurrentInv, PlaceInv
<1> QED
  BY <1>1, <1>2, <1>3, <1>4, <1>5, <1>6, <1>7 DEF IInv

LEMMA DropPreserves ==
  ASSUME IInv, NEW w \in Workers, NEW g \in Calls, NEW c \in Calls, Drop(w, g, c)
  PROVE  IInv'
<1> USE LanesAssumption DEF Drop, DropAnswer, callVars, TypeOK, Dests, Workers, PCs
<1>0. CanTake(w, g, c)
  OBVIOUS
<1>h. /\ g \in loops[w] /\ current[g] = None
      /\ jobs[w] \in Seq(Calls) /\ jobs[w] # <<>> /\ c = jobs[w][1]
      /\ lanes[c] # None
      /\ Worker(c) = w
      /\ fn[c] = "queued"
      /\ \A i \in 1 .. Len(jobs[w]) : jobs[w][i] = c => i = 1
  BY <1>0, HeadQueued
<1>t. /\ Len(Tail(jobs[w])) = Len(jobs[w]) - 1
      /\ \A i \in 1 .. Len(Tail(jobs[w])) :
           i + 1 \in 1 .. Len(jobs[w]) /\ Tail(jobs[w])[i] = jobs[w][i + 1]
  BY <1>h, HeadTail
<1>1. TypeOK'
  BY <1>h, <1>t DEF IInv
<1>2. PlaceInv'
  BY <1>h DEF IInv, PlaceInv
<1>3. QueueInv'
  <2>1. SUFFICES ASSUME NEW u \in Workers, NEW i \in 1 .. Len(jobs'[u])
                 PROVE  /\ lanes'[jobs'[u][i]] # None
                        /\ WorkerFor(lanes'[jobs'[u][i]], dest'[jobs'[u][i]][2]) = u
                        /\ fn'[jobs'[u][i]] = "queued"
                        /\ \A k \in 1 .. Len(jobs'[u]) : jobs'[u][i] = jobs'[u][k] => i = k
    BY DEF QueueInv, WorkerFor
  <2>2. CASE u = w
    <3>1. jobs'[u] = Tail(jobs[w])
      BY <2>2 DEF IInv
    <3>2. i + 1 \in 1 .. Len(jobs[w]) /\ jobs'[u][i] = jobs[w][i + 1]
      BY <3>1, <1>t
    <3>5. jobs'[u][i] # c
      BY <3>2, <1>h
    <3>3. \A k \in 1 .. Len(jobs'[u]) : k + 1 \in 1 .. Len(jobs[w]) /\ jobs'[u][k] = jobs[w][k + 1]
      BY <3>1, <1>t
    <3>4. jobs'[u][i] \in Calls
      BY <3>2, <1>h
    <3> QED
      BY <2>2, <3>2, <3>3, <3>4, <3>5 DEF IInv, QueueInv, WorkerFor
  <2>3. CASE u # w
    <3>1. jobs'[u] = jobs[u]
      BY <2>3 DEF IInv
    <3>2. jobs[u][i] \in Calls /\ jobs[u][i] # c
      BY <1>h, <2>3, <3>1 DEF IInv, QueueInv, Worker
    <3> QED
      BY <3>1, <3>2 DEF IInv, QueueInv, WorkerFor
  <2> QED
    BY <2>2, <2>3
<1>4. LoopInv'
  BY <1>h DEF IInv, LoopInv
<1>5. RunInv'
  BY <1>h DEF IInv, RunInv, PlaceInv, Worker, WorkerFor
<1>6. ResultInv'
  BY <1>h DEF IInv, ResultInv, PlaceInv
<1>7. CurrentInv'
  BY <1>h DEF IInv, CurrentInv, PlaceInv
<1> QED
  BY <1>1, <1>2, <1>3, <1>4, <1>5, <1>6, <1>7 DEF IInv

LEMMA FinishPreserves ==
  ASSUME IInv, NEW w \in Workers, NEW g \in Calls, NEW c \in Calls, Finish(w, g, c)
  PROVE  IInv'
<1> USE LanesAssumption DEF Finish, CanPost, callVars, TypeOK, Dests, Workers, PCs
<1>f. fn[c] = "running" /\ c # None
  BY DEF IInv, CurrentInv
<1>1. TypeOK'
  BY DEF IInv, PlaceInv, Queues
<1>2. PlaceInv'
  BY <1>f DEF IInv, PlaceInv
<1>3. QueueInv'
  BY <1>f DEF IInv, PlaceInv, QueueInv, Worker, WorkerFor
<1>4. LoopInv'
  BY DEF IInv, LoopInv
<1>5. RunInv'
  BY DEF IInv, RunInv, PlaceInv, Worker, WorkerFor
<1>6. ResultInv'
  BY DEF IInv, ResultInv, PlaceInv
<1>7. CurrentInv'
  BY DEF IInv, CurrentInv, PlaceInv
<1> QED
  BY <1>1, <1>2, <1>3, <1>4, <1>5, <1>6, <1>7 DEF IInv

LEMMA InitIInv == Init => IInv
  BY LanesAssumption
  DEF Init, IInv, TypeOK, PlaceInv, QueueInv, LoopInv, RunInv, CurrentInv, ResultInv,
      PCs, Dests, Nowhere, Queues, Workers

LEMMA StutterPreserves ==
  ASSUME IInv, UNCHANGED vars
  PROVE  IInv'
  BY DEF vars, IInv, TypeOK, PlaceInv, QueueInv, LoopInv, RunInv, CurrentInv, ResultInv,
     Worker, WorkerFor

LEMMA NextIInv == IInv /\ [Next]_vars => IInv'
<1> SUFFICES ASSUME IInv, [Next]_vars PROVE IInv'
  OBVIOUS
<1>1. ASSUME NEW c \in Calls, NEW h \in Chats \cup {NoChat}, NEW q \in Queues, Call(c, h, q)
      PROVE  IInv'
  BY <1>1, CallPreserves
<1>2. ASSUME NEW c \in Calls, CallStep(c) \/ Cancel(c)
      PROVE  IInv'
  BY <1>2, CreatePreserves, OfferPreserves, LeavePreserves, ReceivePreserves,
     RunDirectPreserves, CancelPreserves DEF CallStep
<1>3. ASSUME NEW w \in Workers, NEW g \in Calls, NEW c \in Calls, LoopStep(w, g, c)
      PROVE  IInv'
  BY <1>3, TakePreserves, DropPreserves, FinishPreserves DEF LoopStep
<1>4. CASE Idle \/ UNCHANGED vars
  BY <1>4, StutterPreserves DEF Idle
<1> QED
  BY <1>1, <1>2, <1>3, <1>4 DEF Next

(* The lanes keep their inductive invariant, however many callers race,   *)
(* wait and are cancelled.                                                 *)
THEOREM LanesInvariant == Spec => []IInv
  BY InitIInv, NextIInv, PTL DEF Spec

(* Type correctness of the lanes, and the bound on every channel. *)
THEOREM LanesTypeCorrect == Spec => []TypeOK
<1>1. IInv => TypeOK
  BY DEF IInv
<1> QED
  BY <1>1, LanesInvariant, PTL

(* Two functions for the same queue of a chat never run at once: they      *)
(* would be executed by the only loop of the worker registered for it.     *)
THEOREM LanesExclusive == Spec => []Exclusive
<1>1. IInv => Exclusive
  <2> SUFFICES ASSUME IInv, NEW c \in Calls, NEW d \in Calls,
                      fn[c] = "running", fn[d] = "running",
                      dest[c] = dest[d], dest[c][1] # NoChat
               PROVE  c = d
    BY DEF Exclusive
  <2>0. lanes[c] # None /\ lanes[d] # None
    BY DEF IInv, RunInv
  <2>1. Worker(c) = Worker(d) /\ lanes[c] # None
    BY <2>0 DEF IInv, PlaceInv, Worker, WorkerFor
  <2>2. PICK g \in loops[Worker(c)], h \in loops[Worker(d)] : current[g] = c /\ current[h] = d
    BY DEF IInv, RunInv
  <2>3. Worker(c) \in Workers
    BY <2>1, WorkerTyped DEF IInv
  <2> QED
    BY <2>1, <2>2, <2>3 DEF IInv, LoopInv
<1> QED
  BY <1>1, LanesInvariant, PTL

(* A call never reports its function's result before the function ended,   *)
(* nor a cancellation that did not happen.                                 *)
THEOREM LanesHonest == Spec => []HonestOutcome
<1>1. IInv => HonestOutcome
  BY DEF IInv, ResultInv, HonestOutcome
<1> QED
  BY <1>1, LanesInvariant, PTL

----------------------------------------------------------------------------
(* The refinement: the lanes implement SerialLanes. *)

(* Every lanes object in the map is that of its chat, every loop goroutine *)
(* belongs to the worker of the call that started it, and only those       *)
(* execute anything.                                                       *)
LinkInv ==
  /\ \A h \in Chats : registry[h] # None =>
       lanes[registry[h]] # None /\ dest[registry[h]][1] = h
  /\ \A w \in Workers : \A g \in loops[w] : lanes[g] # None /\ Worker(g) = w
  /\ \A g \in Calls : current[g] # None => lanes[g] # None /\ g \in loops[Worker(g)]
  /\ \A c \in Calls : pc[c] = "direct" => dest[c][1] = NoChat

Executes(w) == {c \in Calls : \E g \in loops[w] : current[g] = c}

(* An object that is not in the map has workers that have done nothing. *)
LEMMA Fresh ==
  ASSUME IInv, LinkInv, NEW c \in Calls, lanes[c] = None, NEW q \in Queues
  PROVE  jobs[<<c, q>>] = <<>> /\ loops[<<c, q>>] = {} /\ current[c] = None
<1> DEFINE w == <<c, q>>
<1>1. w \in Workers
  BY DEF Workers
<1>2. ASSUME NEW x \in Calls, lanes[x] = c PROVE FALSE
  BY <1>2, LanesAssumption DEF IInv, PlaceInv, LinkInv
<1>3. jobs[w] = <<>>
  <2> SUFFICES ASSUME jobs[w] # <<>> PROVE FALSE
    OBVIOUS
  <2>1. jobs[w] \in Seq(Calls)
    BY <1>1 DEF IInv, TypeOK
  <2>2. PICK x \in Calls : x = jobs[w][1] /\ 1 \in 1 .. Len(jobs[w])
    BY <2>1
  <2>3. lanes[x] = c
    BY <1>1, <2>2 DEF IInv, QueueInv, WorkerFor
  <2> QED BY <1>2, <2>3
<1>4. ASSUME NEW g \in loops[w] PROVE g \in Calls /\ lanes[g] = c
  <2>1. g \in Calls
    BY <1>1 DEF IInv, TypeOK
  <2>2. Worker(g) = w
    BY <1>1 DEF LinkInv
  <2> QED BY <2>1, <2>2 DEF Worker, WorkerFor
<1> QED BY <1>2, <1>3, <1>4 DEF LinkInv

(* A call that enters a lane may start its loop, which executes nothing    *)
(* yet.                                                                    *)
LEMMA EntersQuietly ==
  ASSUME IInv, LinkInv, NEW c \in Calls, lanes[c] = None, NEW o \in Calls, NEW q \in Queues,
         loops' = [loops EXCEPT ![<<o, q>>] = LoopsAfterStart(<<o, q>>, c)],
         current' = current
  PROVE  \A w \in Workers : Executes(w)' = Executes(w)
<1>1. current[c] = None
  BY DEF LinkInv
<1>2. \A w \in Workers : loops'[w] = loops[w] \/ (loops[w] = {} /\ loops'[w] = {c})
  BY DEF IInv, TypeOK, LoopsAfterStart
<1>3. None \notin Calls
  BY LanesAssumption
<1> QED BY <1>1, <1>2, <1>3 DEF Executes

LEMMA LinkEnter ==
  ASSUME IInv, LinkInv, NEW c \in Calls, NEW h \in Chats, NEW q \in Queues, NEW o \in Calls,
         pc[c] \in {"idle", "creating"}, dest'[c] = <<h, q>>,
         \A d \in Calls : d # c => dest'[d] = dest[d],
         registry' = [registry EXCEPT ![h] = o],
         registry[h] = o \/ (registry[h] = None /\ o = c),
         lanes' = [lanes EXCEPT ![c] = o],
         loops' = [loops EXCEPT ![<<o, q>>] = LoopsAfterStart(<<o, q>>, c)],
         pc' = [pc EXCEPT ![c] = "offering"],
         current' = current
  PROVE  LinkInv'
<1>0. /\ lanes[c] = None /\ current[c] = None /\ None \notin Calls
      /\ registry \in [Chats -> Calls \cup {None}] /\ lanes \in [Calls -> Calls \cup {None}]
      /\ loops \in [Workers -> SUBSET Calls] /\ pc \in [Calls -> PCs]
  BY LanesAssumption DEF IInv, PlaceInv, LinkInv, TypeOK
<1>1. \A d \in Calls : d # c => lanes'[d] = lanes[d] /\ dest'[d] = dest[d] /\ Worker(d)' = Worker(d)
  BY <1>0 DEF Worker, WorkerFor
<1>2. lanes'[c] = o /\ Worker(c)' = <<o, q>> /\ o # None
  BY <1>0 DEF Worker, WorkerFor
<1>3. ASSUME NEW k \in Chats, registry'[k] # None
      PROVE  lanes'[registry'[k]] # None /\ dest'[registry'[k]][1] = k
  <2>1. CASE registry'[k] = c
    <3>1. k = h
      BY <1>0, <1>3, <2>1 DEF LinkInv
    <3> QED BY <1>2, <2>1, <3>1
  <2>2. CASE registry'[k] # c
    <3>1. registry'[k] = registry[k] /\ registry[k] \in Calls
      BY <1>0, <1>3, <2>2
    <3> QED BY <1>1, <1>3, <2>2, <3>1 DEF LinkInv
  <2> QED BY <2>1, <2>2
<1>4. ASSUME NEW w \in Workers, NEW g \in loops'[w]
      PROVE  lanes'[g] # None /\ Worker(g)' = w
  <2>1. g \in loops[w] \/ (g = c /\ w = <<o, q>>)
    BY <1>0 DEF LoopsAfterStart
  <2>2. CASE g \in loops[w]
    <3>1. g # c /\ g \in Calls
      BY <1>0, <2>2 DEF LinkInv
    <3> QED BY <1>1, <2>2, <3>1 DEF LinkInv
  <2>3. CASE g = c /\ w = <<o, q>>
    BY <1>2, <2>3
  <2> QED BY <2>1, <2>2, <2>3
<1>5. ASSUME NEW g \in Calls, current'[g] # None
      PROVE  lanes'[g] # None /\ g \in loops'[Worker(g)']
  <2>1. g # c /\ lanes[g] # None /\ g \in loops[Worker(g)]
    BY <1>0, <1>5 DEF LinkInv
  <2>2. Worker(g) \in Workers
    BY <2>1, WorkerTyped DEF IInv
  <2>3. \A w \in Workers : loops[w] \subseteq loops'[w]
    BY <1>0 DEF LoopsAfterStart
  <2> QED BY <1>1, <2>1, <2>2, <2>3
<1>6. \A d \in Calls : pc'[d] = "direct" => dest'[d][1] = NoChat
  BY <1>0, <1>1 DEF LinkInv
<1> QED BY <1>3, <1>4, <1>5, <1>6 DEF LinkInv

LEMMA LinkStep == ASSUME IInv, LinkInv, [Next]_vars PROVE LinkInv'
<1> USE LanesAssumption
<1>1. ASSUME NEW c \in Calls, NEW h \in Chats \cup {NoChat}, NEW q \in Queues, Call(c, h, q)
      PROVE  LinkInv'
  <2>1. CASE h \in Chats /\ registry[h] # None
    <3>1. /\ pc[c] = "idle" /\ dest' = [dest EXCEPT ![c] = <<h, q>>]
          /\ lanes' = [lanes EXCEPT ![c] = registry[h]]
          /\ loops' = [loops EXCEPT ![<<registry[h], q>>] = LoopsAfterStart(<<registry[h], q>>, c)]
          /\ pc' = [pc EXCEPT ![c] = "offering"]
          /\ registry' = registry /\ current' = current
      BY <1>1, <2>1 DEF Call, EnterRun, WorkerFor
    <3>2. registry[h] \in Calls /\ dest \in [Calls -> Dests] /\ registry' = [registry EXCEPT ![h] = registry[h]]
      BY <2>1, <3>1 DEF IInv, TypeOK
    <3> QED BY <2>1, <3>1, <3>2, LinkEnter
  <2>2. CASE ~(h \in Chats /\ registry[h] # None)
    <3>1. /\ pc[c] = "idle" /\ dest' = [dest EXCEPT ![c] = <<h, q>>]
          /\ UNCHANGED <<registry, lanes, loops, current>>
          /\ \/ h = NoChat /\ pc' = [pc EXCEPT ![c] = "direct"]
             \/ pc' = [pc EXCEPT ![c] = "creating"]
      BY <1>1, <2>2 DEF Call
    <3>2. /\ lanes[c] = None /\ pc \in [Calls -> PCs] /\ dest \in [Calls -> Dests]
          /\ registry \in [Chats -> Calls \cup {None}] /\ loops \in [Workers -> SUBSET Calls]
      BY <3>1 DEF IInv, PlaceInv, TypeOK
    <3>3. \A d \in Calls : d # c => dest'[d] = dest[d] /\ Worker(d)' = Worker(d) /\ pc'[d] = pc[d]
      BY <3>1, <3>2 DEF Worker, WorkerFor
    <3>4. \A d \in Calls : pc'[d] = "direct" => dest'[d][1] = NoChat
      BY <3>1, <3>2, <3>3 DEF LinkInv
    <3>5. \A k \in Chats : registry[k] # None => registry[k] # c
      BY <3>2 DEF LinkInv
    <3> QED BY <3>1, <3>2, <3>3, <3>4, <3>5 DEF LinkInv
  <2> QED BY <2>1, <2>2
<1>2. ASSUME NEW c \in Calls, Create(c) PROVE LinkInv'
  <2>1. PICK h \in Chats, q \in Queues : dest[c] = <<h, q>>
    BY <1>2 DEF Create, IInv, TypeOK, PlaceInv, Dests
  <2>2. PICK o : o = Registered(c, h)
    OBVIOUS
  <2>3. /\ pc[c] = "creating" /\ UNCHANGED <<dest, current>>
        /\ registry' = [registry EXCEPT ![h] = o]
        /\ lanes' = [lanes EXCEPT ![c] = o]
        /\ loops' = [loops EXCEPT ![<<o, q>>] = LoopsAfterStart(<<o, q>>, c)]
        /\ pc' = [pc EXCEPT ![c] = "offering"]
    BY <1>2, <2>1, <2>2 DEF Create, EnterRun, WorkerFor
  <2>4. o \in Calls /\ (registry[h] = o \/ (registry[h] = None /\ o = c))
    BY <2>2 DEF Registered, IInv, TypeOK
  <2> QED BY <2>1, <2>3, <2>4, LinkEnter
<1>3. ASSUME NEW c \in Calls, Offer(c) \/ Leave(c) \/ Receive(c) \/ RunDirect(c) \/ Cancel(c)
      PROVE  LinkInv'
  <2>1. /\ UNCHANGED <<dest, lanes, registry, loops, current>>
        /\ \A d \in Calls : pc'[d] = "direct" => pc[d] = "direct"
    BY <1>3 DEF Offer, Leave, Receive, RunDirect, Cancel, callVars, workerVars, IInv, TypeOK
  <2> QED BY <2>1 DEF LinkInv, Worker, WorkerFor
<1>4. ASSUME NEW w \in Workers, NEW g \in Calls, NEW c \in Calls, LoopStep(w, g, c)
      PROVE  LinkInv'
  <2>1. /\ UNCHANGED <<dest, lanes, registry, loops, pc>> /\ g \in loops[w]
        /\ \A d \in Calls : d # g => current'[d] = current[d]
    BY <1>4 DEF LoopStep, Take, Drop, Finish, CanTake, callVars, IInv, TypeOK
  <2> QED BY <2>1 DEF LinkInv, Worker, WorkerFor
<1>5. CASE Idle \/ UNCHANGED vars
  BY <1>5 DEF Idle, vars, LinkInv, Worker, WorkerFor
<1> QED BY <1>1, <1>2, <1>3, <1>4, <1>5 DEF Next, CallStep

PromisedVars == <<lanePending, laneActive, laneAdmitted, cancelled>>

(* Two lanes do not share a worker. *)
LEMMA OwnWorker ==
  ASSUME IInv, LinkInv, NEW l \in RealLanes, registry[l[1]] # None
  PROVE  /\ LaneWorker(l) \in Workers
         /\ \A k \in RealLanes :
              (registry[k[1]] # None /\ LaneWorker(k) = LaneWorker(l)) => k = l
<1>1. l[1] \in Chats /\ l[2] \in Queues
  BY DEF RealLanes
<1>2. LaneWorker(l) \in Workers
  BY <1>1 DEF IInv, TypeOK, LaneWorker, Workers
<1>3. ASSUME NEW k \in RealLanes, registry[k[1]] # None, LaneWorker(k) = LaneWorker(l)
      PROVE  k = l
  <2>1. registry[k[1]] = registry[l[1]] /\ k[2] = l[2]
    BY <1>3 DEF LaneWorker
  <2>2. k[1] = l[1]
    BY <1>1, <1>3, <2>1 DEF LinkInv, RealLanes
  <2> QED BY <2>1, <2>2 DEF RealLanes
<1> QED BY <1>2, <1>3

(* The lane of a call that is past lanesFor. *)
LEMMA LaneOfCall ==
  ASSUME IInv, LinkInv, NEW c \in Calls, lanes[c] # None
  PROVE  /\ dest[c] \in RealLanes
         /\ registry[dest[c][1]] # None
         /\ LaneWorker(dest[c]) = Worker(c)
BY DEF IInv, TypeOK, PlaceInv, Dests, RealLanes, LaneWorker, Worker, WorkerFor

(* When the workers of the registered lanes do nothing, neither do they.   *)
LEMMA LanesStay ==
  ASSUME IInv, LinkInv, UNCHANGED <<registry, jobs>>,
         \A w \in Workers : Executes(w)' = Executes(w)
  PROVE  UNCHANGED <<lanePending, laneActive>>
<1>1. \A l \in RealLanes : registry[l[1]] # None => LaneWorker(l) \in Workers
  BY OwnWorker
<1>2. lanePending' = lanePending
  BY DEF lanePending, LaneWorker
<1>3. \A l \in RealLanes :
        laneActive[l] = IF registry[l[1]] = None THEN {} ELSE Executes(LaneWorker(l))
  BY DEF laneActive, Executes
<1>4. \A l \in RealLanes :
        laneActive'[l] = IF registry'[l[1]] = None THEN {} ELSE (Executes(LaneWorker(l)))'
  BY DEF laneActive, Executes
<1>5. \A l \in RealLanes : registry[l[1]] # None =>
        (Executes(LaneWorker(l)))' = Executes(LaneWorker(l))
  BY <1>1 DEF LaneWorker, Executes
<1>6. \A l \in RealLanes : laneActive'[l] = laneActive[l]
  BY <1>3, <1>4, <1>5
<1>7. laneActive = [l \in RealLanes |-> laneActive[l]] /\ laneActive' = [l \in RealLanes |-> laneActive'[l]]
  BY DEF laneActive
<1> QED BY <1>2, <1>6, <1>7

LEMMA CallStutters ==
  ASSUME IInv, LinkInv, NEW c \in Calls, NEW h \in Chats \cup {NoChat}, NEW q \in Queues, Call(c, h, q)
  PROVE  UNCHANGED PromisedVars
<1>1. /\ pc[c] = "idle" /\ fn[c] = "none" /\ lanes[c] = None
      /\ dest' = [dest EXCEPT ![c] = <<h, q>>] /\ dest \in [Calls -> Dests]
      /\ UNCHANGED <<registry, current, jobs, cancelled>>
      /\ fn' = fn \/ (h = NoChat /\ fn' = [fn EXCEPT ![c] = "running"])
  BY DEF Call, IInv, PlaceInv, TypeOK
<1>2. laneAdmitted' = laneAdmitted
  BY <1>1 DEF laneAdmitted, IInv, TypeOK
<1>3. \A w \in Workers : Executes(w)' = Executes(w)
  <2>1. CASE loops' = loops
    BY <1>1, <2>1 DEF Executes
  <2>2. CASE h \in Chats /\ registry[h] # None
    <3>1. loops' = [loops EXCEPT ![<<registry[h], q>>] = LoopsAfterStart(<<registry[h], q>>, c)]
      BY <2>2, LanesAssumption DEF Call, EnterRun, WorkerFor
    <3>2. registry[h] \in Calls
      BY <2>2 DEF IInv, TypeOK
    <3> QED BY <1>1, <3>1, <3>2, EntersQuietly
  <2> QED BY <2>1, <2>2 DEF Call
<1> QED BY <1>1, <1>2, <1>3, LanesStay DEF PromisedVars

(* The first call of a chat puts idle workers into the map. *)
LEMMA CreateStutters ==
  ASSUME IInv, LinkInv, NEW c \in Calls, Create(c)
  PROVE  UNCHANGED PromisedVars
<1>1. PICK h \in Chats, q \in Queues : dest[c] = <<h, q>>
  BY DEF Create, IInv, TypeOK, PlaceInv, Dests
<1>2. PICK o : o = Registered(c, h)
  OBVIOUS
<1>3. /\ lanes[c] = None /\ UNCHANGED <<dest, current, jobs, fn, cancelled>>
      /\ registry' = [registry EXCEPT ![h] = o] /\ registry \in [Chats -> Calls \cup {None}]
      /\ loops' = [loops EXCEPT ![<<o, q>>] = LoopsAfterStart(<<o, q>>, c)]
      /\ o \in Calls /\ (registry[h] = o \/ (registry[h] = None /\ o = c))
  BY <1>1, <1>2 DEF Create, EnterRun, WorkerFor, Registered, IInv, TypeOK, PlaceInv
<1>4. \A w \in Workers : Executes(w)' = Executes(w)
  BY <1>3, EntersQuietly
<1>5. laneAdmitted' = laneAdmitted
  BY <1>3 DEF laneAdmitted
<1>6. CASE registry[h] = o
  <2>1. registry' = registry
    BY <1>3, <1>6
  <2> QED BY <1>3, <1>4, <1>5, <2>1, LanesStay DEF PromisedVars
<1>7. CASE registry[h] = None /\ o = c
  <2>1. \A p \in Queues : jobs[<<c, p>>] = <<>> /\ Executes(<<c, p>>) = {} /\ <<c, p>> \in Workers
    BY <1>3, Fresh DEF Executes, Workers
  <2>2. \A l \in RealLanes : \/ l[1] # h /\ registry'[l[1]] = registry[l[1]]
                             \/ /\ l[1] = h /\ registry[l[1]] = None /\ registry'[l[1]] = c
                                /\ l[2] \in Queues
    BY <1>3, <1>7 DEF RealLanes
  <2>3. c # None
    BY LanesAssumption
  <2>4. ASSUME NEW l \in RealLanes PROVE lanePending'[l] = lanePending[l] /\ laneActive'[l] = laneActive[l]
    <3>1. /\ lanePending[l] = IF registry[l[1]] = None THEN <<>> ELSE jobs[LaneWorker(l)]
          /\ lanePending'[l] = IF registry'[l[1]] = None THEN <<>> ELSE jobs[LaneWorker(l)']
          /\ laneActive[l] = IF registry[l[1]] = None THEN {} ELSE Executes(LaneWorker(l))
          /\ laneActive'[l] = IF registry'[l[1]] = None THEN {} ELSE (Executes(LaneWorker(l)))'
      BY <1>3 DEF lanePending, laneActive, Executes
    <3>2. CASE l[1] # h
      <4>1. registry'[l[1]] = registry[l[1]] /\ LaneWorker(l)' = LaneWorker(l)
        BY <2>2, <3>2 DEF LaneWorker
      <4>2. registry[l[1]] # None => LaneWorker(l) \in Workers
        BY OwnWorker
      <4>3. registry[l[1]] # None => (Executes(LaneWorker(l)))' = Executes(LaneWorker(l))
        BY <1>4, <4>1, <4>2 DEF Executes
      <4> QED BY <3>1, <4>1, <4>3
    <3>3. CASE l[1] = h
      <4>1. registry[l[1]] = None /\ registry'[l[1]] = c /\ l[2] \in Queues
        BY <2>2, <3>3
      <4>2. LaneWorker(l)' = <<c, l[2]>>
        BY <4>1 DEF LaneWorker
      <4>3. (Executes(LaneWorker(l)))' = {}
        BY <1>4, <2>1, <4>1, <4>2 DEF Executes
      <4> QED BY <2>1, <2>3, <3>1, <4>1, <4>2, <4>3
    <3> QED BY <3>2, <3>3
  <2>5. /\ lanePending = [l \in RealLanes |-> lanePending[l]]
        /\ lanePending' = [l \in RealLanes |-> lanePending'[l]]
        /\ laneActive = [l \in RealLanes |-> laneActive[l]]
        /\ laneActive' = [l \in RealLanes |-> laneActive'[l]]
    BY DEF lanePending, laneActive
  <2> QED BY <1>3, <1>5, <2>4, <2>5 DEF PromisedVars
<1> QED BY <1>3, <1>6, <1>7

LEMMA OfferAdmits ==
  ASSUME IInv, LinkInv, NEW c \in Calls, Offer(c)
  PROVE  dest[c] \in RealLanes /\ Promised!Admit(dest[c], c)
<1> DEFINE l == dest[c]
           w == Worker(c)
<1>1. /\ lanes[c] # None /\ fn[c] = "none" /\ fn' = [fn EXCEPT ![c] = "queued"]
      /\ jobs' = [jobs EXCEPT ![w] = Append(@, c)]
      /\ UNCHANGED <<dest, registry, loops, current, cancelled>>
      /\ jobs \in [Workers -> Seq(Calls)]
      /\ fn \in [Calls -> {"none", "queued", "running", "done", "dropped"}]
  BY DEF Offer, IInv, PlaceInv, TypeOK
<1>2. l \in RealLanes /\ registry[l[1]] # None /\ LaneWorker(l) = w /\ w \in Workers
  BY <1>1, LaneOfCall, WorkerTyped DEF IInv
<1> HIDE DEF l, w
<1>3. c \notin laneAdmitted /\ laneAdmitted' = laneAdmitted \cup {c}
  <2>1. dest[c][1] # NoChat
    BY <1>2, LanesAssumption DEF RealLanes, l
  <2> QED BY <1>1, <2>1 DEF laneAdmitted
<1>4. laneActive' = laneActive
  BY <1>1 DEF laneActive, LaneWorker
<1>5. lanePending' = [lanePending EXCEPT ![l] = Append(@, c)]
  <2>1. \A k \in RealLanes : k # l /\ registry[k[1]] # None => LaneWorker(k) # w /\ LaneWorker(k) \in Workers
    BY <1>2, OwnWorker
  <2>2. ASSUME NEW k \in RealLanes
        PROVE  lanePending'[k] = IF k = l THEN Append(lanePending[k], c) ELSE lanePending[k]
    BY <1>1, <1>2, <2>1 DEF lanePending, LaneWorker
  <2>3. /\ lanePending = [k \in RealLanes |-> lanePending[k]]
        /\ lanePending' = [k \in RealLanes |-> lanePending'[k]]
    BY DEF lanePending
  <2> QED BY <1>2, <2>2, <2>3
<1> QED BY <1>1, <1>2, <1>3, <1>4, <1>5 DEF Promised!Admit, l

LEMMA QuietlyStutters ==
  ASSUME IInv, NEW c \in Calls, Leave(c) \/ Receive(c) \/ RunDirect(c), LinkInv
  PROVE  UNCHANGED PromisedVars
<1>1. UNCHANGED <<dest, registry, loops, current, jobs, cancelled>>
  BY DEF Leave, Receive, RunDirect, workerVars
<1>2. laneAdmitted' = laneAdmitted
  BY <1>1 DEF Leave, Receive, RunDirect, workerVars, laneAdmitted, LinkInv, IInv, TypeOK
<1> QED BY <1>1, <1>2 DEF PromisedVars, lanePending, laneActive, LaneWorker

LEMMA CancelCancels ==
  ASSUME IInv, NEW c \in Calls, Cancel(c)
  PROVE  Promised!Cancel
BY DEF Cancel, callVars, workerVars, Promised!Cancel, IInv, TypeOK,
   lanePending, laneActive, laneAdmitted, LaneWorker

(* The lane of the loop that takes a task. *)
LEMMA LoopLane ==
  ASSUME IInv, LinkInv, NEW w \in Workers, NEW g \in loops[w]
  PROVE  /\ dest[g] \in RealLanes /\ registry[dest[g][1]] # None
         /\ LaneWorker(dest[g]) = w
         /\ loops[w] = {g}
         /\ \A k \in RealLanes : k # dest[g] /\ registry[k[1]] # None =>
              LaneWorker(k) \in Workers /\ g \notin loops[LaneWorker(k)] /\ LaneWorker(k) # w
<1>1. g \in Calls /\ lanes[g] # None /\ Worker(g) = w
  BY DEF IInv, TypeOK, LinkInv
<1>2. loops[w] = {g}
  BY DEF IInv, LoopInv
<1>3. dest[g] \in RealLanes /\ registry[dest[g][1]] # None /\ LaneWorker(dest[g]) = w
  BY <1>1, LaneOfCall
<1>4. ASSUME NEW k \in RealLanes, k # dest[g], registry[k[1]] # None
      PROVE  LaneWorker(k) \in Workers /\ g \notin loops[LaneWorker(k)] /\ LaneWorker(k) # w
  BY <1>1, <1>3, <1>4, OwnWorker DEF LinkInv
<1> QED BY <1>2, <1>3, <1>4

(* What a step of one loop does to the lanes. *)
LEMMA LoopMoves ==
  ASSUME IInv, LinkInv, NEW w \in Workers, NEW g \in loops[w],
         UNCHANGED <<registry, loops>>, current'[g] \in Calls \cup {None},
         current' = [current EXCEPT ![g] = current'[g]], jobs' = [jobs EXCEPT ![w] = jobs'[w]]
  PROVE  /\ lanePending[dest[g]] = jobs[w]
         /\ laneActive[dest[g]] = {current[g]} \ {None}
         /\ lanePending' = [lanePending EXCEPT ![dest[g]] = jobs'[w]]
         /\ laneActive' = [laneActive EXCEPT ![dest[g]] = {current'[g]} \ {None}]
<1>0. PICK l : l = dest[g]
  OBVIOUS
<1>1. /\ l \in RealLanes /\ registry[l[1]] # None /\ LaneWorker(l) = w /\ loops[w] = {g}
      /\ \A k \in RealLanes : k # l /\ registry[k[1]] # None =>
           LaneWorker(k) \in Workers /\ g \notin loops[LaneWorker(k)] /\ LaneWorker(k) # w
  BY <1>0, LoopLane
<1>2. /\ g \in Calls /\ current \in [Calls -> Calls \cup {None}] /\ jobs \in [Workers -> Seq(Calls)]
      /\ None \notin Calls /\ loops \in [Workers -> SUBSET Calls]
  BY LanesAssumption DEF IInv, TypeOK
<1>3. /\ lanePending[l] = jobs[w] /\ lanePending'[l] = jobs'[w]
      /\ laneActive[l] = {current[g]} \ {None} /\ laneActive'[l] = {current'[g]} \ {None}
  <2>1. LaneWorker(l)' = w
    BY <1>1 DEF LaneWorker
  <2>2. lanePending[l] = jobs[w] /\ lanePending'[l] = jobs'[w]
    BY <1>1, <1>2, <2>1 DEF lanePending
  <2>3. /\ laneActive[l] = {c \in Calls : current[g] = c}
        /\ laneActive'[l] = {c \in Calls : current'[g] = c}
    BY <1>1, <2>1 DEF laneActive
  <2> QED BY <1>2, <2>2, <2>3
<1>4. ASSUME NEW k \in RealLanes, k # l
      PROVE  lanePending'[k] = lanePending[k] /\ laneActive'[k] = laneActive[k]
  <2>1. CASE registry[k[1]] = None
    BY <2>1 DEF lanePending, laneActive
  <2>2. CASE registry[k[1]] # None
    <3>1. /\ LaneWorker(k)' = LaneWorker(k) /\ LaneWorker(k) \in Workers
          /\ g \notin loops[LaneWorker(k)] /\ LaneWorker(k) # w
      BY <1>1, <1>4, <2>2 DEF LaneWorker
    <3>2. lanePending'[k] = lanePending[k]
      BY <1>2, <2>2, <3>1 DEF lanePending
    <3>3. /\ laneActive[k] = {c \in Calls : \E h \in loops[LaneWorker(k)] : current[h] = c}
          /\ laneActive'[k] = {c \in Calls : \E h \in loops[LaneWorker(k)] : current'[h] = c}
      BY <2>2, <3>1 DEF laneActive
    <3>4. \A h \in loops[LaneWorker(k)] : current'[h] = current[h]
      BY <1>2, <3>1
    <3> QED BY <3>2, <3>3, <3>4
  <2> QED BY <2>1, <2>2
<1>5. /\ lanePending = [k \in RealLanes |-> lanePending[k]]
      /\ lanePending' = [k \in RealLanes |-> lanePending'[k]]
      /\ laneActive = [k \in RealLanes |-> laneActive[k]]
      /\ laneActive' = [k \in RealLanes |-> laneActive'[k]]
  BY DEF lanePending, laneActive
<1> QED BY <1>0, <1>1, <1>3, <1>4, <1>5

LEMMA LoopStepMaps ==
  ASSUME IInv, LinkInv, NEW w \in Workers, NEW g \in Calls, NEW c \in Calls, LoopStep(w, g, c)
  PROVE  \E l \in RealLanes : Promised!Start(l, c) \/ Promised!Skip(l, c) \/ Promised!Finish(l, c)
<1> DEFINE l == dest[g]
<1>1. g \in loops[w] /\ UNCHANGED <<registry, loops, dest, cancelled>>
  BY DEF LoopStep, Take, Drop, Finish, CanTake, callVars
<1>2. /\ jobs \in [Workers -> Seq(Calls)] /\ current \in [Calls -> Calls \cup {None}]
      /\ fn \in [Calls -> {"none", "queued", "running", "done", "dropped"}] /\ None \notin Calls
  BY LanesAssumption DEF IInv, TypeOK
<1>3. l \in RealLanes
  BY <1>1, LoopLane
<1>4. laneAdmitted' = laneAdmitted
  <2>1. fn[c] # "none"
    <3>1. CASE Take(w, g, c) \/ Drop(w, g, c)
      BY <3>1, HeadQueued DEF Take, Drop
    <3>2. CASE Finish(w, g, c)
      BY <1>2, <3>2 DEF Finish, IInv, CurrentInv
    <3> QED BY <3>1, <3>2 DEF LoopStep
  <2> QED BY <1>1, <1>2, <2>1 DEF laneAdmitted, LoopStep, Take, Drop, Finish
<1>a. {None} \ {None} = {} /\ {c} \ {None} = {c}
  BY <1>2
<1>b. /\ lanePending[l] = jobs[w]
      /\ laneActive[l] = {current[g]} \ {None}
      /\ lanePending' = [lanePending EXCEPT ![l] = jobs'[w]]
      /\ laneActive' = [laneActive EXCEPT ![l] = {current'[g]} \ {None}]
  <2>1. /\ current'[g] \in Calls \cup {None}
        /\ current' = [current EXCEPT ![g] = current'[g]] /\ jobs' = [jobs EXCEPT ![w] = jobs'[w]]
    BY <1>2 DEF LoopStep, Take, Drop, Finish, CanTake
  <2> QED BY <1>1, <2>1, LoopMoves
<1> HIDE DEF l
<1>5. CASE Take(w, g, c)
  <2>1. /\ current[g] = None /\ jobs[w] # <<>> /\ Head(jobs[w]) = c /\ c \notin cancelled
        /\ current' = [current EXCEPT ![g] = c] /\ jobs' = [jobs EXCEPT ![w] = Tail(jobs[w])]
        /\ current'[g] = c /\ jobs'[w] = Tail(jobs[w])
    BY <1>2, <1>5 DEF Take, CanTake
  <2>2. /\ lanePending[l] = jobs[w] /\ laneActive[l] = {}
        /\ lanePending' = [lanePending EXCEPT ![l] = Tail(jobs[w])]
        /\ laneActive' = [laneActive EXCEPT ![l] = {c}]
    BY <1>a, <1>b, <2>1
  <2>3. Promised!Start(l, c)
    BY <1>1, <1>4, <2>1, <2>2 DEF Promised!Start, Promised!IsNext
  <2> QED BY <1>3, <2>3
<1>6. CASE Drop(w, g, c)
  <2>1. /\ current[g] = None /\ jobs[w] # <<>> /\ Head(jobs[w]) = c /\ c \in cancelled
        /\ current' = [current EXCEPT ![g] = None] /\ jobs' = [jobs EXCEPT ![w] = Tail(jobs[w])]
        /\ current'[g] = None /\ jobs'[w] = Tail(jobs[w])
    BY <1>2, <1>6 DEF Drop, CanTake
  <2>2. /\ lanePending[l] = jobs[w] /\ laneActive[l] = {}
        /\ lanePending' = [lanePending EXCEPT ![l] = Tail(jobs[w])]
        /\ laneActive' = [laneActive EXCEPT ![l] = {}]
    BY <1>a, <1>b, <2>1
  <2>3. laneActive' = laneActive
    BY <1>3, <2>2 DEF laneActive
  <2>4. Promised!Skip(l, c)
    BY <1>1, <1>4, <2>1, <2>2, <2>3 DEF Promised!Skip, Promised!IsNext
  <2> QED BY <1>3, <2>4
<1>7. CASE Finish(w, g, c)
  <2>1. /\ current[g] = c
        /\ current' = [current EXCEPT ![g] = None] /\ jobs' = [jobs EXCEPT ![w] = jobs[w]]
        /\ current'[g] = None /\ jobs'[w] = jobs[w]
    BY <1>2, <1>7 DEF Finish
  <2>2. /\ lanePending[l] = jobs[w] /\ laneActive[l] = {c}
        /\ lanePending' = [lanePending EXCEPT ![l] = jobs[w]]
        /\ laneActive' = [laneActive EXCEPT ![l] = {}]
    BY <1>a, <1>b, <2>1
  <2>3. lanePending' = lanePending
    BY <1>3, <2>2 DEF lanePending
  <2>4. Promised!Finish(l, c)
    BY <1>1, <1>4, <2>2, <2>3 DEF Promised!Finish
  <2> QED BY <1>3, <2>4
<1> QED BY <1>5, <1>6, <1>7 DEF LoopStep

LEMMA StepMaps ==
  ASSUME IInv, LinkInv, [Next]_vars
  PROVE  Promised!Next \/ UNCHANGED PromisedVars
<1>1. ASSUME NEW c \in Calls, NEW h \in Chats \cup {NoChat}, NEW q \in Queues, Call(c, h, q)
      PROVE  UNCHANGED PromisedVars
  BY <1>1, CallStutters
<1>2. ASSUME NEW c \in Calls, CallStep(c) \/ Cancel(c)
      PROVE  Promised!Next \/ UNCHANGED PromisedVars
  BY <1>2, CreateStutters, OfferAdmits, QuietlyStutters, CancelCancels DEF CallStep, Promised!Next
<1>3. ASSUME NEW w \in Workers, NEW g \in Calls, NEW c \in Calls, LoopStep(w, g, c)
      PROVE  Promised!Next
  BY <1>3, LoopStepMaps DEF Promised!Next
<1>4. CASE Idle \/ UNCHANGED vars
  BY <1>4 DEF Idle, vars, PromisedVars, lanePending, laneActive, laneAdmitted, LaneWorker
<1> QED BY <1>1, <1>2, <1>3, <1>4 DEF Next

(* The channels, goroutines and lazy creation implement the serial lanes:  *)
(* every step of a call or a loop is a step of the lane it maps to, or     *)
(* none.                                                                   *)
THEOREM LanesImplementSerialLanes == Spec => ImplementsSerialLanes
<1>1. Init => IInv /\ LinkInv
  BY InitIInv, LanesAssumption DEF Init, LinkInv
<1>2. IInv /\ LinkInv /\ [Next]_vars => (IInv /\ LinkInv)'
  BY NextIInv, LinkStep
<1>3. Init => Promised!Init
  BY DEF Init, Promised!Init, lanePending, laneActive, laneAdmitted, RealLanes
<1>4. IInv /\ LinkInv /\ [Next]_vars => [Promised!Next]_(Promised!laneVars)
  BY StepMaps DEF PromisedVars, Promised!laneVars
<1> QED BY <1>1, <1>2, <1>3, <1>4, PTL DEF Spec, ImplementsSerialLanes, Promised!Spec
=============================================================================
