--------------------- MODULE MessageProcessing_proofs ---------------------
(***************************************************************************)
(* Proofs about MessageProcessing, for any messages, runs, edits and       *)
(* faults (as far as a theorem does not name the faults it excludes): type *)
(* correctness with the bound on a run's repetitions, that runs sharing a  *)
(* state are cancelled down to one, that a live run answers the current    *)
(* text, and then what becomes of a message in the store and of its state. *)
(***************************************************************************)
EXTENDS MessageProcessing, TLAPS

----------------------------------------------------------------------------
(* The inductive invariant. *)

(* The run has a message state (it is past LoadOrStore). *)
Bound(r) == pc[r] \notin {"none", "spawned"}

(* The run works with a text that it took from its state. *)
TextPCs ==
  {"submit", "await", "reply", "decide", "failed", "decided", "presend", "sending"}
HasText(r) == pc[r] \in TextPCs

(* States belong to messages: what the map holds, and what a run found in  *)
(* it, was stored by a run for the same message.                           *)
StateInv ==
  /\ \A r \in Runs :
       Bound(r) => obj[r] \in Runs /\ RunMsg[obj[r]] = RunMsg[r]
  /\ \A m \in Messages :
       states[m] # None => states[m] \in Runs /\ RunMsg[states[m]] = m
  /\ \A r \in Runs : fpc[r] # "none" => Bound(r)

(* Revisions count the edits, and a run's repetitions count the revisions. *)
RevisionInv ==
  /\ \A m \in Messages : version[m] <= Edits[m]
  /\ \A o \in Runs : st[o].revision <= version[RunMsg[o]]
  /\ \A r \in Runs : ~Bound(r) => rev[r] = 0 /\ attempt[r] = 0
  /\ \A r \in Runs :
       Bound(r) => rev[r] <= State(r).revision /\ attempt[r] <= State(r).revision
  /\ \A r \in Runs : HasText(r) => attempt[r] <= rev[r]

(* A state cancels the run that began last, or none. *)
OwnerInv == \A o \in Runs : st[o].runCancel \in {None, st[o].token}

(* A live run's text is current as long as the revision is. *)
TextInv ==
  \A r \in Runs :
    (HasText(r) /\ ~RunDead(r) /\ State(r).revision = rev[r])
      => msg[r] = State(r).message

IInv ==
  /\ TypeOK
  /\ StateInv
  /\ RevisionInv
  /\ OwnerInv
  /\ OneLiveRun
  /\ TextInv

----------------------------------------------------------------------------
(* Types. *)

LEMMA JobsTyped ==
  ASSUME TypeOK
  PROVE  /\ \A r \in Runs : PrepareJob(r) \in RunJobs /\ FinishJob(r) \in RunJobs
         /\ \A m \in Messages : DeleteJob(m) \in AllJobs
         /\ RunJobs \subseteq AllJobs
<1>1. ASSUME NEW r \in Runs PROVE attempt[r] \in Attempts
  BY ProcessingAssumption DEF TypeOK, RunTypes, Attempts
<1> QED
  BY <1>1 DEF PrepareJob, FinishJob, DeleteJob, RunJobs, AllJobs

LEMMA TailTyped ==
  ASSUME NEW S, NEW s \in Seq(S), s # <<>>
  PROVE  Tail(s) \in Seq(S)
  OBVIOUS

(* A lane's step keeps its jobs what they are. *)
LEMMA LaneStepTyped ==
  ASSUME LaneTypes, NEW l \in LaneNames, NEW j \in AllJobs,
         Lane!Admit(l, j) \/ Lane!Start(l, j) \/ Lane!Skip(l, j) \/ Lane!Finish(l, j)
  PROVE  LaneTypes'
<1> USE DEF LaneTypes
<1>1. CASE Lane!Admit(l, j)
  BY <1>1 DEF Lane!Admit
<1>2. CASE Lane!Start(l, j)
  BY <1>2, TailTyped DEF Lane!Start, Lane!IsNext
<1>3. CASE Lane!Skip(l, j)
  BY <1>3, TailTyped DEF Lane!Skip, Lane!IsNext
<1>4. CASE Lane!Finish(l, j)
  BY <1>4 DEF Lane!Finish
<1> QED
  BY <1>1, <1>2, <1>3, <1>4

(* What a step leaves alone keeps its type. *)
LEMMA SameTyped ==
  ASSUME TypeOK
  PROVE  /\ UNCHANGED chatVars => ChatTypes'
         /\ UNCHANGED procVars => ProcTypes'
         /\ UNCHANGED ctxVars => CtxTypes'
         /\ UNCHANGED runVars => RunTypes'
         /\ UNCHANGED finVars => FinTypes'
         /\ UNCHANGED laneVars => LaneTypes'
         /\ UNCHANGED storeVars => StoreTypes'
  BY DEF TypeOK, chatVars, ChatTypes, procVars, ProcTypes, ctxVars, CtxTypes, runVars,
     RunTypes, finVars, FinTypes, laneVars, LaneTypes, storeVars, StoreTypes

----------------------------------------------------------------------------
(* Steps that leave the states, the revisions and the texts alone. *)

core == <<version, states, st, runCtx, obj, msg, rev, attempt>>

(* What a state says of its message and of the run it belongs to. *)
SameStates ==
  \A o \in Runs :
    /\ st'[o].message = st[o].message
    /\ st'[o].revision = st[o].revision
    /\ st'[o].token = st[o].token
    /\ st'[o].runCancel = st[o].runCancel

(* Where goroutines may go in such a step. *)
Advances ==
  \A r \in Runs :
    /\ Bound(r)' <=> Bound(r)
    /\ Working(r)' => Working(r)
    /\ HasText(r)' => HasText(r)
    /\ fpc'[r] # "none" => (fpc[r] # "none" \/ Bound(r))

LEMMA QuietStep ==
  ASSUME IInv, UNCHANGED <<version, states, obj, msg, rev, attempt>>, SameStates,
         runCtx \subseteq runCtx', TypeOK', Advances
  PROVE  IInv'
<1> USE DEF Advances, SameStates
<1>1. \A r \in Runs : RunDead(r) => RunDead(r)'
  BY DEF RunDead
<1>2. StateInv'
  BY DEF IInv, StateInv, Bound
<1>3. \A r \in Runs :
        Bound(r) => /\ State(r)'.message = State(r).message
                    /\ State(r)'.revision = State(r).revision
                    /\ State(r)'.runCancel = State(r).runCancel
  BY DEF IInv, StateInv, State
<1>4. RevisionInv'
  BY <1>3 DEF IInv, RevisionInv
<1>5. OwnerInv'
  BY DEF IInv, OwnerInv
<1>6. OneLiveRun'
  BY <1>1, <1>3 DEF IInv, OneLiveRun, Bound, Working, Begun
<1>7. TextInv'
  BY <1>1, <1>3 DEF IInv, TextInv, HasText, Bound, TextPCs
<1> QED
  BY <1>2, <1>4, <1>5, <1>6, <1>7 DEF IInv

(* A run goes from p to l in such a step. *)
Quietly(p, l) ==
  /\ l \in PCs
  /\ p \in {"none", "spawned"} <=> l \in {"none", "spawned"}
  /\ p \in {"loaded", "forget", "done"} => l \in {"loaded", "forget", "done"}
  /\ l \in TextPCs => p \in TextPCs

LEMMA RunMoves ==
  ASSUME IInv, NEW r \in Runs, NEW l, Quietly(pc[r], l), Goto(r, l),
         UNCHANGED <<core, gone, dpc>>,
         prep' \in [Runs -> {"none", "ok", "err"}],
         outbound' \in [Runs -> {"none", "reply", "fallback"}],
         sent' \in [Runs -> Nat \cup {None}],
         arg' \in [Runs -> Nat \cup {None}],
         CtxTypes', FinTypes', LaneTypes', StoreTypes',
         \A s \in Runs : fpc'[s] # "none" => (fpc[s] # "none" \/ Bound(s))
  PROVE  IInv'
<1>1. TypeOK'
  BY SameTyped DEF IInv, TypeOK, Quietly, Goto, core, ChatTypes, ProcTypes, RunTypes
<1>2. Advances
  BY DEF IInv, TypeOK, RunTypes, Quietly, Goto, Advances, Bound, Working, Begun, HasText,
     TextPCs
<1> QED
  BY <1>1, <1>2, QuietStep DEF core, SameStates

(* The same for the other goroutines. *)
LEMMA OthersMove ==
  ASSUME IInv, UNCHANGED <<core, gone, pc, arg, outbound, sent>>,
         prep' \in [Runs -> {"none", "ok", "err"}],
         dpc' \in [Messages -> {"none", "spawned", "queued", "remove", "patch", "done", "failed"}],
         CtxTypes', FinTypes', LaneTypes', StoreTypes',
         \A s \in Runs : fpc'[s] # "none" => (fpc[s] # "none" \/ Bound(s))
  PROVE  IInv'
<1>1. TypeOK'
  BY DEF IInv, TypeOK, core, ChatTypes, ProcTypes, RunTypes
<1>2. Advances
  BY DEF Advances, Bound, Working, Begun, HasText
<1> QED
  BY <1>1, <1>2, QuietStep DEF core, SameStates

LEMMA RunQuietly ==
  ASSUME IInv, NEW r \in Runs,
         NewMessage(r) \/ Check(r) \/ AbandonPrepare(r) \/ AwaitPrepare(r) \/ Decide(r)
           \/ Clear(r) \/ Send(r) \/ Sent(r)
  PROVE  IInv'
<1> USE SameTyped DEF IInv, TypeOK, RunTypes, ChatTypes, chatVars, procVars, ctxVars, finVars,
      laneVars, storeVars, core, Goto, Quietly, PCs, TextPCs
<1>1. CASE NewMessage(r)
  BY <1>1, RunMoves, ProcessingAssumption DEF NewMessage
<1>2. CASE Check(r)
  BY <1>2, RunMoves DEF Check
<1>3. CASE AbandonPrepare(r)
  BY <1>3, RunMoves DEF AbandonPrepare
<1>4. CASE AwaitPrepare(r)
  BY <1>4, RunMoves DEF AwaitPrepare
<1>5. CASE Decide(r)
  BY <1>5, RunMoves DEF Decide
<1>6. CASE Clear(r)
  BY <1>6, RunMoves DEF Clear
<1>7. CASE Send(r)
  BY <1>7, RunMoves DEF Send
<1>8. CASE Sent(r)
  BY <1>8, RunMoves DEF Sent
<1> QED
  BY <1>1, <1>2, <1>3, <1>4, <1>5, <1>6, <1>7, <1>8


(* A step of another goroutine, on the job j of the lane l. *)
LEMMA PrepareSteps ==
  ASSUME IInv, NEW r \in Runs, NEW j \in RunJobs,
         SubmitPrepare(r) \/ StartPrepare(j) \/ SkipPrepare(j) \/ FinishPrepare(j)
  PROVE  IInv'
<1> USE DEF IInv, core, chatVars, procVars, ctxVars, runVars, finVars, laneVars, storeVars
<1>1. LaneTypes'
  BY JobsTyped, LaneStepTyped
     DEF TypeOK, LaneNames, SubmitPrepare, StartPrepare, SkipPrepare, FinishPrepare
<1>2. j[2] \in Runs
  BY DEF RunJobs
<1>3. CASE SubmitPrepare(r)
  BY <1>1, <1>3, SameTyped, RunMoves
     DEF SubmitPrepare, TypeOK, RunTypes, Goto, Quietly, PCs, TextPCs
<1>4. CASE StartPrepare(j)
  BY <1>1, <1>4, SameTyped, OthersMove DEF StartPrepare, TypeOK, RunTypes
<1>5. CASE SkipPrepare(j)
  BY <1>1, <1>2, <1>5, SameTyped, OthersMove DEF SkipPrepare, TypeOK, RunTypes
<1>6. CASE FinishPrepare(j)
  <2>1. StoreTypes' /\ prep' \in [Runs -> {"none", "ok", "err"}]
    BY <1>2, <1>6 DEF FinishPrepare, TypeOK, RunTypes, StoreTypes
  <2> QED
    BY <1>1, <1>6, <2>1, SameTyped, OthersMove DEF FinishPrepare, TypeOK, RunTypes
<1> QED
  BY <1>3, <1>4, <1>5, <1>6

LEMMA FinishSteps ==
  ASSUME IInv, NEW r \in Runs, FinishStep(r) \/ Spawn(r), ~MemoryContext(r)
  PROVE  IInv'
<1> USE DEF IInv, core, chatVars, procVars, ctxVars, runVars, finVars, laneVars, storeVars
<1>1. LaneTypes'
  BY JobsTyped, LaneStepTyped, SameTyped
     DEF TypeOK, LaneNames, FinishStep, EndFinish, Spawn, FinishSnapshot, FinishSubmit,
         FinishAbandon, StartFinish, SkipFinish, FinishAttempt, UpdateStore, Patch,
         FinishFailed, FinishCheck, StoreReply
<1>2. StoreTypes' /\ FinTypes'
  <2>1. CASE Spawn(r)
    BY <2>1, SameTyped DEF Spawn, FGoto, TypeOK, FinTypes, FPCs
  <2>2. CASE FinishSnapshot(r) \/ FinishSubmit(r) \/ FinishAbandon(r) \/ StartFinish(r)
             \/ SkipFinish(r) \/ FinishFailed(r) \/ FinishCheck(r) \/ Patch(r)
    BY <2>2, SameTyped
       DEF FinishSnapshot, FinishSubmit, FinishAbandon, StartFinish, SkipFinish, FinishFailed,
           FinishCheck, EndFinish, Patch, FGoto, TypeOK, FinTypes, FPCs
  <2>3. CASE FinishAttempt(r)
    <3>1. fpc[r] # "none" => State(r).message \in Nat \cup {None} /\ State(r).revision \in Nat
      BY DEF StateInv, TypeOK, ProcTypes, State, MessageStates
    <3> QED
      BY <2>3, <3>1, SameTyped
         DEF FinishAttempt, EndFinish, FGoto, TextToRemember, TypeOK, FinTypes, FPCs
  <2>4. CASE UpdateStore(r)
    BY <2>4, ProcessingAssumption DEF UpdateStore, FGoto, TypeOK, FinTypes, FPCs, StoreTypes
  <2>5. CASE StoreReply(r)
    BY <2>5 DEF StoreReply, EndFinish, FGoto, TypeOK, FinTypes, FPCs, StoreTypes
  <2> QED
    BY <2>1, <2>2, <2>3, <2>4, <2>5 DEF FinishStep
<1>3. CASE Spawn(r)
  BY <1>1, <1>2, <1>3, SameTyped, RunMoves
     DEF Spawn, FGoto, Bound, TypeOK, RunTypes, FinTypes, Quietly, Goto, PCs, TextPCs
<1>4. CASE ~Spawn(r)
  <2>1. UNCHANGED <<chatVars, procVars, ctxVars, runVars, dpc>>
    BY <1>4 DEF FinishStep, FinishSnapshot, FinishSubmit, FinishAbandon, StartFinish, SkipFinish,
         FinishAttempt, UpdateStore, Patch, FinishFailed, FinishCheck, StoreReply
  <2>2. \A s \in Runs : fpc'[s] # "none" => fpc[s] # "none"
    BY <1>4 DEF FinishStep, FinishSnapshot, FinishSubmit, FinishAbandon, StartFinish, SkipFinish,
         FinishAttempt, UpdateStore, Patch, FinishFailed, FinishCheck, StoreReply, EndFinish,
         FGoto, TypeOK, FinTypes
  <2> QED
    BY <1>1, <1>2, <2>1, <2>2, SameTyped, OthersMove DEF TypeOK, RunTypes
<1> QED
  BY <1>3, <1>4

LEMMA DeleteSteps ==
  ASSUME IInv, NEW m \in Messages, DeleteStep(m)
  PROVE  IInv'
<1> USE DEF IInv, core, chatVars, procVars, ctxVars, runVars, finVars, laneVars, storeVars,
      DeleteStep, DeleteSubmit, StartDelete, DeleteRemove, DeleteFail, DeletePatch
<1>1. LaneTypes'
  BY JobsTyped, LaneStepTyped, SameTyped DEF TypeOK, LaneNames
<1>2. StoreTypes'
  BY DEF TypeOK, StoreTypes
<1> QED
  BY <1>1, <1>2, SameTyped, OthersMove DEF TypeOK, RunTypes


----------------------------------------------------------------------------
(* Steps on the states, the revisions and the texts. *)

(* The states of replyContext, memoryContext and onDeleted. *)
LEMMA ContextSteps ==
  ASSUME IInv, NEW r \in Runs, ReplyContext(r) \/ MemoryContext(r)
  PROVE  IInv'
<1> USE DEF IInv, chatVars, runVars, laneVars, storeVars
<1>1. obj[r] \in Runs
  BY DEF ReplyContext, MemoryContext, StateInv, Bound
<1>2. ProcTypes' /\ SameStates
  BY <1>1 DEF ReplyContext, MemoryContext, TypeOK, ProcTypes, MessageStates, Handles, SameStates
<1>3. CtxTypes' /\ runCtx \subseteq runCtx'
  BY <1>1 DEF ReplyContext, MemoryContext, TypeOK, CtxTypes, ProcTypes, MessageStates, Handles,
     Held, State
<1>4. CASE ReplyContext(r)
  <2>1. RunTypes' /\ Advances
    BY <1>4 DEF ReplyContext, Goto, TypeOK, RunTypes, PCs, Advances, Bound, Working, Begun,
       HasText, TextPCs, finVars
  <2> QED
    BY <1>2, <1>3, <1>4, <2>1, SameTyped, QuietStep DEF ReplyContext, TypeOK
<1>5. CASE MemoryContext(r)
  <2>1. FinTypes' /\ Advances
    BY <1>5 DEF MemoryContext, FGoto, TypeOK, FinTypes, FPCs, Advances, Bound, Working, Begun,
       HasText
  <2> QED
    BY <1>2, <1>3, <1>5, <2>1, SameTyped, QuietStep DEF MemoryContext, TypeOK
<1> QED
  BY <1>4, <1>5

LEMMA DeletedSteps ==
  ASSUME IInv, NEW m \in Messages, MessageDeleted(m)
  PROVE  IInv'
<1> USE DEF IInv, MessageDeleted, runVars, finVars, laneVars, storeVars
<1>1. states[m] # None => states[m] \in Runs
  BY DEF StateInv
<1>2. ProcTypes' /\ SameStates
  <2>1. CASE states[m] = None
    BY <2>1 DEF TypeOK, ProcTypes, SameStates
  <2>2. CASE states[m] # None
    <3>1. st' = [st EXCEPT ![states[m]] = DeletedState(@)] /\ UNCHANGED states
      BY <2>2
    <3>2. st[states[m]] \in MessageStates
      BY <1>1, <2>2 DEF TypeOK, ProcTypes
    <3>3. /\ DeletedState(st[states[m]]) \in MessageStates
          /\ DeletedState(st[states[m]]).message = st[states[m]].message
          /\ DeletedState(st[states[m]]).revision = st[states[m]].revision
          /\ DeletedState(st[states[m]]).token = st[states[m]].token
          /\ DeletedState(st[states[m]]).runCancel = st[states[m]].runCancel
      BY <3>2 DEF DeletedState, MessageStates, Handles
    <3> QED
      BY <1>1, <2>2, <3>1, <3>3 DEF TypeOK, ProcTypes, SameStates
  <2> QED
    BY <2>1, <2>2
<1>3. CtxTypes' /\ runCtx \subseteq runCtx'
  BY <1>1 DEF TypeOK, CtxTypes, ctxVars, ProcTypes, MessageStates, Handles, Held,
     CancelledByDelete
<1>4. ChatTypes'
  BY DEF TypeOK, ChatTypes
<1>5. Advances
  BY DEF Advances, Bound, Working, Begun, HasText
<1> QED
  BY <1>2, <1>3, <1>4, <1>5, SameTyped, QuietStep DEF TypeOK

LEMMA UpdatedSteps ==
  ASSUME IInv, NEW m \in Messages, MessageUpdated(m)
  PROVE  IInv'
<1> USE ProcessingAssumption
      DEF IInv, MessageUpdated, runVars, finVars, laneVars, storeVars
<1>1. PICK o : o = states[m]
  OBVIOUS
<1>2. ChatTypes' /\ \A n \in Messages : version'[n] <= Edits[n]
  <2>1. /\ version' = [version EXCEPT ![m] = @ + 1] /\ version[m] < Edits[m]
        /\ version \in [Messages -> Nat] /\ UNCHANGED gone
        /\ \A n \in Messages : version[n] <= Edits[n]
    BY DEF TypeOK, ChatTypes, RevisionInv
  <2> QED
    BY <2>1 DEF TypeOK, ChatTypes
<1>3. \A n \in Messages : version[n] <= version'[n]
  BY DEF TypeOK, ChatTypes
<1>4. CASE UNCHANGED <<st, ctxVars>>
  <2>1. TypeOK' /\ Advances
    BY <1>2, <1>4, SameTyped
       DEF TypeOK, ProcTypes, ctxVars, Advances, Bound, Working, Begun, HasText
  <2>2. StateInv' /\ OwnerInv' /\ OneLiveRun' /\ TextInv'
    BY <1>4 DEF StateInv, OwnerInv, OneLiveRun, TextInv, Bound, Working, Begun, HasText, State,
       RunDead, ctxVars
  <2>3. RevisionInv'
    <3>1. \A p \in Runs : st'[p].revision <= version'[RunMsg[p]]
      BY <1>2, <1>3, <1>4 DEF RevisionInv, TypeOK, ChatTypes, ProcTypes, MessageStates
    <3> QED
      BY <1>2, <1>4, <3>1 DEF RevisionInv, Bound, State, HasText
  <2> QED
    BY <2>1, <2>2, <2>3
<1>5. CASE ~UNCHANGED <<st, ctxVars>>
  <2>1. /\ o \in Runs /\ RunMsg[o] = m
        /\ st' = [st EXCEPT ![o] = Updated(@, version[m] + 1)]
        /\ memCtx' = memCtx \cup Held(st[o].memoryCancel)
        /\ replyCtx' = replyCtx \cup Held(st[o].replyCancel)
        /\ UNCHANGED runCtx
    BY <1>1, <1>5 DEF StateInv
  <2>2. st[o] \in MessageStates /\ version[m] \in Nat
    BY <2>1 DEF TypeOK, ChatTypes, ProcTypes
  <2>3. /\ st'[o] = Updated(st[o], version[m] + 1)
        /\ st'[o].revision = st[o].revision + 1
        /\ st'[o].token = st[o].token /\ st'[o].runCancel = st[o].runCancel
        /\ \A p \in Runs : p # o => st'[p] = st[p]
    BY <2>1, <2>2 DEF TypeOK, ProcTypes, Updated, MessageStates
  <2>4. TypeOK'
    <3>1. Updated(st[o], version[m] + 1) \in MessageStates
      <4>1. ASSUME NEW s \in MessageStates, NEW v \in Nat
            PROVE  Updated(s, v) \in MessageStates
        <5>1. s.revision + 1 \in Nat
          BY DEF MessageStates
        <5> QED
          BY <5>1 DEF Updated, MessageStates, Handles
      <4>2. version[m] + 1 \in Nat
        BY <2>2
      <4> QED
        BY <2>2, <4>1, <4>2, Zenon
    <3>2. ProcTypes'
      BY <2>1, <3>1 DEF TypeOK, ProcTypes
    <3>3. CtxTypes'
      BY <2>1, <2>2 DEF TypeOK, CtxTypes, MessageStates, Handles, Held
    <3> QED
      BY <1>2, <3>2, <3>3, SameTyped DEF TypeOK
  <2>5. StateInv' /\ OwnerInv' /\ OneLiveRun'
    BY <2>1, <2>3 DEF StateInv, OwnerInv, OneLiveRun, Bound, Working, Begun, State, RunDead
  <2>6. \A r \in Runs :
          Bound(r) => /\ obj[r] \in Runs
                      /\ rev[r] \in Nat /\ attempt[r] \in Nat
                      /\ st[obj[r]].revision \in Nat
                      /\ rev[r] <= st[obj[r]].revision /\ attempt[r] <= st[obj[r]].revision
    BY DEF StateInv, RevisionInv, State, TypeOK, RunTypes, ProcTypes, MessageStates
  <2>7. RevisionInv'
    <3>1. \A p \in Runs : st'[p].revision <= version'[RunMsg[p]]
      BY <1>2, <1>3, <2>1, <2>2, <2>3
         DEF RevisionInv, TypeOK, ChatTypes, ProcTypes, MessageStates
    <3>2. \A r \in Runs :
            Bound(r) => rev[r] <= st'[obj[r]].revision /\ attempt[r] <= st'[obj[r]].revision
      BY <2>3, <2>6
    <3> QED
      BY <1>2, <3>1, <3>2 DEF RevisionInv, Bound, State, HasText
  <2>8. TextInv'
    BY <2>1, <2>3, <2>6 DEF TextInv, HasText, TextPCs, Bound, State, RunDead
  <2> QED
    BY <2>4, <2>5, <2>7, <2>8
<1> QED
  BY <1>4, <1>5

LEMMA LoadSteps ==
  ASSUME IInv, NEW r \in Runs, BeginLoad(r) \/ ReleaseForget(r)
  PROVE  IInv'
<1> USE ProcessingAssumption DEF IInv, chatVars, ctxVars, finVars, laneVars, storeVars
<1>1. CASE BeginLoad(r)
  <2>1. PICK o : o = IF states[RunMsg[r]] = None THEN r ELSE states[RunMsg[r]]
    OBVIOUS
  <2>2. o \in Runs /\ RunMsg[o] = RunMsg[r] /\ RunMsg[r] \in Messages
    BY <2>1 DEF StateInv
  <2>3. /\ pc[r] = "spawned" /\ pc' = [pc EXCEPT ![r] = "loaded"]
        /\ obj' = [obj EXCEPT ![r] = o]
        /\ states' = [states EXCEPT ![RunMsg[r]] = o]
        /\ UNCHANGED <<chatVars, st, ctxVars, arg, msg, rev, attempt, prep, outbound, sent,
                       finVars, dpc, laneVars, storeVars>>
    BY <1>1, <2>1 DEF BeginLoad, Goto
  <2>4. TypeOK'
    BY <2>2, <2>3, SameTyped DEF TypeOK, RunTypes, ProcTypes, Handles, PCs
  <2>5. \A s \in Runs : /\ (Bound(s)' <=> (Bound(s) \/ s = r))
                        /\ Working(s)' => (Working(s) /\ s # r)
                        /\ HasText(s)' => (HasText(s) /\ s # r)
                        /\ s # r => State(s)' = State(s)
                        /\ RunDead(s)' = RunDead(s)
    BY <2>3 DEF TypeOK, RunTypes, Bound, Working, Begun, HasText, TextPCs, State, RunDead
  <2>6. StateInv'
    BY <2>2, <2>3, <2>5 DEF StateInv, TypeOK, RunTypes, ProcTypes
  <2>7. rev[r] = 0 /\ attempt[r] = 0 /\ State(r)'.revision \in Nat
    BY <2>2, <2>3 DEF RevisionInv, Bound, State, TypeOK, ProcTypes, RunTypes, MessageStates
  <2>8. RevisionInv'
    BY <2>3, <2>5, <2>7 DEF RevisionInv
  <2>9. OwnerInv' /\ OneLiveRun' /\ TextInv'
    BY <2>3, <2>5 DEF OwnerInv, OneLiveRun, TextInv
  <2> QED
    BY <2>4, <2>6, <2>8, <2>9
<1>2. CASE ReleaseForget(r)
  <2>1. /\ pc[r] = "forget" /\ pc' = [pc EXCEPT ![r] = "done"]
        /\ states' \in [Messages -> Handles]
        /\ \A m \in Messages : states'[m] \in {states[m], None}
        /\ UNCHANGED <<chatVars, st, ctxVars, arg, obj, msg, rev, attempt, prep, outbound,
                       sent, finVars, dpc, laneVars, storeVars>>
    BY <1>2 DEF ReleaseForget, Forgotten, Goto, TypeOK, ProcTypes, Handles
  <2>2. TypeOK'
    BY <2>1, SameTyped DEF TypeOK, RunTypes, ProcTypes, PCs
  <2>3. \A s \in Runs : /\ (Bound(s)' <=> Bound(s))
                        /\ Working(s)' => Working(s)
                        /\ HasText(s)' => HasText(s)
                        /\ State(s)' = State(s) /\ RunDead(s)' = RunDead(s)
    BY <2>1 DEF TypeOK, RunTypes, Bound, Working, Begun, HasText, TextPCs, State, RunDead
  <2>4. StateInv' /\ RevisionInv' /\ OwnerInv' /\ OneLiveRun' /\ TextInv'
    BY <2>1, <2>3 DEF StateInv, RevisionInv, OwnerInv, OneLiveRun, TextInv
  <2> QED
    BY <2>2, <2>4
<1> QED
  BY <1>1, <1>2

(* Taking a state over cancels the run that had it; letting go of it       *)
(* happens only to the run that has it, which is then done.                *)
LEMMA LockSteps ==
  ASSUME IInv, NEW r \in Runs, BeginLock(r) \/ ReleaseLock(r)
  PROVE  IInv'
<1> USE DEF IInv, chatVars, ctxVars, finVars, laneVars, storeVars
<1>1. obj[r] \in Runs /\ Bound(r)
  BY DEF BeginLock, ReleaseLock, StateInv, Bound
<1>2. PICK s : s = st'[obj[r]]
  OBVIOUS
<1>3. st[obj[r]] \in MessageStates /\ arg[r] \in Nat \cup {None}
  BY <1>1 DEF TypeOK, ProcTypes, RunTypes
<1>4. CASE BeginLock(r)
  <2>1. /\ s \in MessageStates
        /\ s.token = r /\ s.runCancel = r /\ s.message = arg[r]
        /\ s.revision = st[obj[r]].revision
        /\ \A o \in Runs : o # obj[r] => st'[o] = st[o]
        /\ st' \in [Runs -> MessageStates]
    BY <1>1, <1>2, <1>3, <1>4 DEF BeginLock, TypeOK, ProcTypes, MessageStates, Handles
  <2>2. /\ pc[r] = "loaded" /\ pc' = [pc EXCEPT ![r] = "check"]
        /\ runCtx' = runCtx \cup Superseded(State(r))
        /\ UNCHANGED <<chatVars, states, arg, obj, msg, rev, attempt, prep, outbound, sent,
                       finVars, dpc, laneVars, storeVars>>
    BY <1>4 DEF BeginLock, Goto
  <2>3. CtxTypes'
    BY <1>3, <1>4 DEF BeginLock, TypeOK, CtxTypes, MessageStates, Handles, Held, State, Superseded
  <2>4. TypeOK'
    BY <2>1, <2>2, <2>3, SameTyped DEF TypeOK, RunTypes, ProcTypes, PCs
  <2>5. \A q \in Runs : /\ (Bound(q)' <=> Bound(q))
                        /\ Working(q)' => (Working(q) \/ q = r)
                        /\ HasText(q)' => (HasText(q) /\ Working(q) /\ q # r)
                        /\ RunDead(q) => RunDead(q)'
                        /\ Bound(q) => State(q)'.revision = State(q).revision
    BY <1>2, <2>1, <2>2 DEF TypeOK, RunTypes, Bound, Working, Begun, HasText, TextPCs, RunDead,
       State, StateInv
  <2>6. ASSUME NEW q \in Runs, Working(q), q # r, obj[q] = obj[r]
        PROVE  RunDead(q)'
    BY <2>2, <2>6, ProcessingAssumption DEF OneLiveRun, State, RunDead, Superseded, Held
  <2>7. ASSUME NEW q \in Runs, obj[q] # obj[r], Working(q)
        PROVE  State(q)' = State(q)
    BY <2>1, <2>2, <2>7 DEF State, StateInv, Bound, Working, Begun
  <2>8. StateInv' /\ RevisionInv'
    <3>1. \A o \in Runs : st'[o].revision = st[o].revision
      BY <1>2, <2>1
    <3> QED
      BY <2>2, <2>5, <3>1 DEF StateInv, RevisionInv
  <2>9. OwnerInv'
    BY <1>2, <2>1 DEF OwnerInv
  <2>10. OneLiveRun'
    <3> SUFFICES ASSUME NEW q \in Runs, Working(q)'
                 PROVE  State(q)'.runCancel = q \/ RunDead(q)'
      BY DEF OneLiveRun
    <3>1. CASE q = r
      BY <1>2, <2>1, <2>2, <3>1 DEF State
    <3>2. CASE q # r /\ obj[q] = obj[r]
      BY <2>5, <2>6, <3>2
    <3>3. CASE q # r /\ obj[q] # obj[r]
      BY <2>5, <2>7, <3>3 DEF OneLiveRun
    <3> QED
      BY <3>1, <3>2, <3>3
  <2>11. TextInv'
    <3> SUFFICES ASSUME NEW q \in Runs, HasText(q)', ~RunDead(q)', State(q)'.revision = rev'[q]
                 PROVE  msg'[q] = State(q)'.message
      BY DEF TextInv
    <3>1. obj[q] # obj[r] /\ HasText(q) /\ Working(q)
      BY <2>5, <2>6
    <3> QED
      BY <2>2, <2>5, <2>7, <3>1 DEF TextInv
  <2> QED
    BY <2>4, <2>8, <2>9, <2>10, <2>11
<1>5. CASE ReleaseLock(r)
  <2>1. /\ pc[r] = "release"
        /\ pc' = [pc EXCEPT ![r] = "done"] \/ pc' = [pc EXCEPT ![r] = "forget"]
        /\ UNCHANGED <<chatVars, states, runCtx, arg, obj, msg, rev, attempt, prep, outbound,
                       sent, finVars, dpc, laneVars, storeVars>>
    BY <1>5 DEF ReleaseLock, Goto
  <2>2. /\ s \in MessageStates
        /\ s.message = st[obj[r]].message /\ s.revision = st[obj[r]].revision
        /\ s.token = st[obj[r]].token
        /\ s.runCancel = st[obj[r]].runCancel \/ (s.runCancel = None /\ s.token = r)
        /\ \A o \in Runs : o # obj[r] => st'[o] = st[o]
        /\ st' \in [Runs -> MessageStates]
    <3>1. CASE ~MayRelease(r)
      BY <1>1, <1>2, <1>3, <1>5, <3>1 DEF ReleaseLock, TypeOK, ProcTypes
    <3>2. CASE MayRelease(r)
      <4>1. st' = [st EXCEPT ![obj[r]] = [@ EXCEPT !.runCancel = None, !.memoryCancel = None,
                                                  !.replyCancel = None]]
        BY <1>5, <3>2 DEF ReleaseLock
      <4>2. st[obj[r]].token = r
        BY <3>2 DEF MayRelease, State
      <4> QED
        BY <1>1, <1>2, <1>3, <4>1, <4>2 DEF TypeOK, ProcTypes, MessageStates, Handles
    <3> QED
      BY <3>1, <3>2
  <2>3. CtxTypes'
    BY <1>3, <1>5 DEF ReleaseLock, TypeOK, CtxTypes, MessageStates, Handles, Held, State
  <2>4. TypeOK'
    BY <2>1, <2>2, <2>3, SameTyped DEF TypeOK, RunTypes, ProcTypes, PCs
  <2>5. \A q \in Runs : /\ (Bound(q)' <=> Bound(q))
                        /\ Working(q)' => (Working(q) /\ q # r)
                        /\ HasText(q)' => (HasText(q) /\ q # r)
                        /\ RunDead(q)' = RunDead(q)
                        /\ Bound(q) => /\ State(q)'.revision = State(q).revision
                                       /\ State(q)'.message = State(q).message
    BY <1>2, <2>1, <2>2 DEF TypeOK, RunTypes, Bound, Working, Begun, HasText, TextPCs, RunDead,
       State, StateInv
  <2>6. StateInv' /\ RevisionInv'
    <3>1. \A o \in Runs : st'[o].revision = st[o].revision
      BY <1>2, <2>2
    <3> QED
      BY <2>1, <2>5, <3>1 DEF StateInv, RevisionInv
  <2>7. OwnerInv'
    BY <1>2, <2>2 DEF OwnerInv
  <2>8. OneLiveRun'
    <3> SUFFICES ASSUME NEW q \in Runs, Working(q)'
                 PROVE  State(q)'.runCancel = q \/ RunDead(q)'
      BY DEF OneLiveRun
    <3>1. Working(q) /\ q # r /\ Bound(q) /\ obj[q] \in Runs
      BY <2>5 DEF Working, Begun, Bound, StateInv
    <3>2. CASE RunDead(q)
      BY <2>5, <3>2
    <3>3. CASE State(q).runCancel = q /\ obj[q] = obj[r]
      BY <1>2, <2>1, <2>2, <3>1, <3>3, ProcessingAssumption DEF OwnerInv, State
    <3>4. CASE State(q).runCancel = q /\ obj[q] # obj[r]
      BY <2>1, <2>2, <3>1, <3>4 DEF State
    <3> QED
      BY <3>1, <3>2, <3>3, <3>4 DEF OneLiveRun
  <2>9. TextInv'
    BY <2>1, <2>5 DEF TextInv, HasText, Bound, TextPCs
  <2> QED
    BY <2>4, <2>6, <2>7, <2>8, <2>9
<1> QED
  BY <1>4, <1>5

(* A snapshot binds the run to the text and the revision of its state, and *)
(* starting over happens only when the state has a later revision.         *)
LEMMA LoopSteps ==
  ASSUME IInv, NEW r \in Runs, Top(r) \/ DecideFailed(r) \/ Decided(r)
  PROVE  IInv'
<1> USE ProcessingAssumption
      DEF IInv, chatVars, procVars, ctxVars, finVars, laneVars, storeVars
<1>1. /\ Bound(r) /\ obj[r] \in Runs /\ RunMsg[obj[r]] = RunMsg[r]
      /\ State(r) \in MessageStates
      /\ State(r).revision \in Nat /\ State(r).message \in Nat \cup {None}
      /\ rev[r] \in Nat /\ attempt[r] \in Nat
      /\ rev[r] <= State(r).revision /\ attempt[r] <= State(r).revision
      /\ State(r).revision <= Edits[RunMsg[r]]
  <2>1. Bound(r) /\ obj[r] \in Runs /\ RunMsg[obj[r]] = RunMsg[r]
    BY DEF Top, DecideFailed, Decided, StateInv, Bound
  <2>2. State(r) \in MessageStates
    BY <2>1 DEF State, TypeOK, ProcTypes
  <2>3. State(r).revision <= Edits[RunMsg[r]]
    BY <2>1, <2>2 DEF RevisionInv, State, MessageStates, TypeOK, ChatTypes
  <2> QED
    BY <2>1, <2>2, <2>3 DEF MessageStates, RevisionInv, TypeOK, RunTypes
<1>2. \A q \in Runs : State(q)' = State(q) /\ RunDead(q)' = RunDead(q)
  BY DEF Top, DecideFailed, Decided, State, RunDead
<1>3. CASE pc' = [pc EXCEPT ![r] = "submit"]
  <2>1. /\ pc[r] = "top"
        /\ msg' = [msg EXCEPT ![r] = State(r).message]
        /\ rev' = [rev EXCEPT ![r] = State(r).revision]
        /\ UNCHANGED <<chatVars, procVars, ctxVars, arg, obj, attempt, prep, outbound, sent,
                       finVars, dpc, laneVars, storeVars>>
    BY <1>3 DEF Top, DecideFailed, Decided, Goto, TypeOK, RunTypes
  <2>2. TypeOK'
    BY <1>1, <1>3, <2>1, SameTyped DEF TypeOK, RunTypes, PCs
  <2>3. \A q \in Runs : /\ (Bound(q)' <=> Bound(q))
                        /\ Working(q)' => Working(q)
                        /\ HasText(q)' => (HasText(q) \/ q = r)
    BY <1>3, <2>1 DEF TypeOK, RunTypes, Bound, Working, Begun, HasText, TextPCs
  <2>4. StateInv' /\ OwnerInv' /\ OneLiveRun'
    BY <1>2, <2>1, <2>3 DEF StateInv, OwnerInv, OneLiveRun
  <2>5. /\ rev'[r] = State(r).revision /\ msg'[r] = State(r).message
        /\ \A q \in Runs : q # r => rev'[q] = rev[q] /\ msg'[q] = msg[q]
    BY <2>1 DEF TypeOK, RunTypes
  <2>6. RevisionInv'
    BY <1>1, <1>2, <2>1, <2>3, <2>5 DEF RevisionInv
  <2>7. TextInv'
    BY <1>2, <2>3, <2>5 DEF TextInv
  <2> QED
    BY <2>2, <2>4, <2>6, <2>7
<1>4. CASE pc' # [pc EXCEPT ![r] = "submit"]
  <2>1. PICK l \in {"top", "release", "spawn", "presend"} :
          /\ pc' = [pc EXCEPT ![r] = l]
          /\ l = "presend" => pc[r] = "decided"
          /\ pc[r] \in {"top", "failed", "decided"}
          /\ UNCHANGED <<chatVars, procVars, ctxVars, arg, obj, msg, rev, prep, outbound, sent,
                         finVars, dpc, laneVars, storeVars>>
    BY <1>4 DEF Top, DecideFailed, Decided, Goto
  <2>2. /\ attempt' = [attempt EXCEPT ![r] = attempt'[r]]
        /\ attempt'[r] \in Nat
        /\ attempt'[r] <= State(r).revision
        /\ l = "presend" => attempt'[r] = attempt[r]
    <3>1. CASE UNCHANGED attempt
      BY <1>1, <3>1 DEF TypeOK, RunTypes
    <3>2. CASE ~UNCHANGED attempt
      <4>1. /\ attempt' = [attempt EXCEPT ![r] = @ + 1]
            /\ HasText(r) /\ State(r).revision # rev[r]
            /\ pc' = [pc EXCEPT ![r] = "top"]
        BY <3>2 DEF Top, DecideFailed, Decided, Goto, Outdated, HasText, TextPCs
      <4>2. attempt[r] <= rev[r] /\ rev[r] < State(r).revision
        <5>1. Bound(r)
          BY <4>1 DEF HasText, TextPCs, Bound
        <5>2. attempt[r] <= rev[r] /\ rev[r] <= State(r).revision
          BY <4>1, <5>1 DEF RevisionInv
        <5> QED BY <1>1, <4>1, <5>2
      <4>3. l # "presend"
        BY <2>1, <4>1 DEF TypeOK, RunTypes
      <4> QED
        BY <1>1, <4>1, <4>2, <4>3 DEF TypeOK, RunTypes
    <3> QED
      BY <3>1, <3>2
  <2>3. TypeOK'
    <3>1. RunTypes'
      BY <2>1, <2>2 DEF TypeOK, RunTypes, PCs
    <3>2. \A q \in Runs : attempt'[q] <= Edits[RunMsg[q]]
      BY <1>1, <2>2 DEF TypeOK, RunTypes
    <3> QED
      BY <2>1, <3>1, <3>2, SameTyped DEF TypeOK
  <2>4. \A q \in Runs : /\ (Bound(q)' <=> Bound(q))
                        /\ Working(q)' => Working(q)
                        /\ HasText(q)' => HasText(q) /\ (q = r => l = "presend")
    BY <2>1 DEF TypeOK, RunTypes, Bound, Working, Begun, HasText, TextPCs
  <2>5. StateInv' /\ OwnerInv' /\ OneLiveRun' /\ TextInv'
    BY <1>2, <2>1, <2>4 DEF StateInv, OwnerInv, OneLiveRun, TextInv
  <2>6. RevisionInv'
    <3>1. \A q \in Runs : q # r => attempt'[q] = attempt[q]
      BY <2>2 DEF TypeOK, RunTypes
    <3> QED
      BY <1>1, <1>2, <2>1, <2>2, <2>4, <3>1 DEF RevisionInv
  <2> QED
    BY <2>3, <2>5, <2>6
<1> QED
  BY <1>3, <1>4

----------------------------------------------------------------------------
(* The theorems. *)

LEMMA InitIInv == Init => IInv
<1> SUFFICES ASSUME Init PROVE IInv
  OBVIOUS
<1> USE ProcessingAssumption DEF Init
<1>1. TypeOK
  <2>1. ProcTypes /\ RunTypes /\ FinTypes
    BY DEF ProcTypes, RunTypes, FinTypes, NewState, MessageStates, Handles, PCs, FPCs
  <2>2. ChatTypes /\ CtxTypes /\ LaneTypes /\ StoreTypes
    BY DEF ChatTypes, CtxTypes, LaneTypes, StoreTypes
  <2> QED
    BY <2>1, <2>2 DEF TypeOK
<1>2. StateInv /\ OwnerInv /\ OneLiveRun /\ TextInv
  BY DEF StateInv, OwnerInv, OneLiveRun, TextInv, Bound, Working, Begun, HasText, TextPCs,
     NewState
<1>3. RevisionInv
  BY DEF RevisionInv, Bound, HasText, TextPCs, NewState
<1> QED
  BY <1>1, <1>2, <1>3 DEF IInv

LEMMA NextIInv == IInv /\ [Next]_vars => IInv'
<1> SUFFICES ASSUME IInv, [Next]_vars PROVE IInv'
  OBVIOUS
<1>1. ASSUME NEW r \in Runs, NewMessage(r) \/ RunStep(r)
      PROVE  IInv'
  <2>1. CASE SubmitPrepare(r)
    BY <2>1, PrepareSteps, JobsTyped DEF IInv
  <2>2. CASE Spawn(r)
    <3>1. ~MemoryContext(r)
      BY <2>2 DEF Spawn, MemoryContext, FGoto, Goto, runVars, IInv, TypeOK, RunTypes
    <3> QED
      BY <2>2, <3>1, FinishSteps
  <2> QED
    BY <1>1, <2>1, <2>2, RunQuietly, LoadSteps, LockSteps, LoopSteps, ContextSteps DEF RunStep
<1>2. ASSUME NEW r \in Runs, FinishStep(r)
      PROVE  IInv'
  BY <1>2, FinishSteps, ContextSteps DEF FinishStep
<1>3. ASSUME NEW m \in Messages, MessageUpdated(m) \/ MessageDeleted(m) \/ DeleteStep(m)
      PROVE  IInv'
  BY <1>3, UpdatedSteps, DeletedSteps, DeleteSteps
<1>4. CASE PrepareStep
  <2>1. PICK j \in RunJobs : StartPrepare(j) \/ SkipPrepare(j) \/ FinishPrepare(j)
    BY <1>4 DEF PrepareStep
  <2>2. j[2] \in Runs
    BY DEF RunJobs
  <2> QED
    BY <2>1, <2>2, PrepareSteps
<1>5. CASE Idle \/ UNCHANGED vars
  <2>1. UNCHANGED vars
    BY <1>5 DEF Idle
  <2>2. TypeOK' /\ Advances /\ SameStates
    BY <2>1, SameTyped DEF vars, IInv, TypeOK, runVars, finVars, procVars, Advances, SameStates,
       Bound, Working, Begun, HasText
  <2> QED
    BY <2>1, <2>2, QuietStep DEF vars, chatVars, procVars, ctxVars, runVars
<1> QED
  BY <1>1, <1>2, <1>3, <1>4, <1>5 DEF Next

(* Message processing keeps its inductive invariant, in whatever order     *)
(* events, runs and their background updates come.                         *)
THEOREM ProcessingInvariant == Spec => []IInv
  BY InitIInv, NextIInv, PTL DEF Spec

(* Type correctness, and no more repetitions of a run than edits of its    *)
(* message.                                                                *)
THEOREM ProcessingTypeCorrect == Spec => []TypeOK
<1>1. IInv => TypeOK
  BY DEF IInv
<1> QED
  BY <1>1, ProcessingInvariant, PTL

(* Of the runs that share a message state at most one is live, and it is   *)
(* the one that the state can cancel.                                      *)
THEOREM ProcessingOneLiveRun == Spec => []OneLiveRun
<1>1. IInv => OneLiveRun
  BY DEF IInv
<1> QED
  BY <1>1, ProcessingInvariant, PTL

(* A live run that is about to send answers the current text.              *)
THEOREM ProcessingAnswersCurrentText == Spec => []AnswersCurrentText
<1>1. IInv => AnswersCurrentText
  BY DEF IInv, TextInv, HasText, TextPCs, AnswersCurrentText
<1> QED
  BY <1>1, ProcessingInvariant, PTL

----------------------------------------------------------------------------
(* What becomes of a message in the store, and of its state in the         *)
(* processor's map: more invariants, on top of IInv. *)

(* The prepare lane: each job is in it once, and a job of a live run is    *)
(* the one the run waits for.                                              *)
Waiting == pending["prepare"]
Executed == active["prepare"]
InLane(j) == j \in Executed \/ \E i \in 1 .. Len(Waiting) : Waiting[i] = j
Awaited(j) ==
  LET r == j[2]
  IN  /\ r \in Runs
      /\ j = PrepareJob(r) /\ pc[r] = "await" /\ prep[r] = "none"
Expected(j) == j[2] \in runCtx \/ Awaited(j)

LaneInv ==
  /\ \A i \in 1 .. Len(Waiting) : Waiting[i] \in admitted /\ Waiting[i] \notin Executed
  /\ \A i, k \in 1 .. Len(Waiting) : Waiting[i] = Waiting[k] => i = k
  /\ \A j \in Executed : j \in admitted
  /\ \A j, k \in Executed : j = k
  /\ \A j \in Executed : Expected(j)
  /\ \A i \in 1 .. Len(Waiting) : Expected(Waiting[i])

(* A background update comes after its run has nothing left to do but to   *)
(* release its state; one about to write is either cancelled or the one    *)
(* its state cancels.                                                      *)
BackgroundInv ==
  /\ \A r \in Runs : fpc[r] # "none" => pc[r] \in {"release", "forget", "done"}
  /\ \A r \in Runs : fpc[r] = "update" => MemoryDead(r) \/ State(r).memoryCancel = r

(* A state that knows of the deletion has cancelled all it could. *)
DeletedInv ==
  /\ \A o \in Runs : st[o].deleted =>
       /\ gone[RunMsg[o]]
       /\ st[o].memoryCancel = None
       /\ st[o].runCancel \in runCtx \cup {None}
  /\ \A m \in Messages : dpc[m] # "none" => gone[m]

(* A state's token is the run that began with it last, and a state in the  *)
(* map has a run that will begin with it, or has begun last and will take  *)
(* it out.                                                                 *)
Keeper(r, o) ==
  /\ obj[r] = o /\ pc[r] \notin {"none", "spawned", "done"}
  /\ pc[r] = "loaded" \/ st[o].token = r

MapInv ==
  /\ \A o, r \in Runs : st[o].token = r => Begun(r) /\ obj[r] = o
  /\ \A m \in Messages : states[m] # None =>
       \E r \in Runs : RunMsg[r] = m /\ Keeper(r, states[m])

(* Texts that are there. *)
GivenInv ==
  /\ \A r \in Runs : pc[r] # "none" => arg[r] \in Nat /\ arg[r] <= version[RunMsg[r]]
  /\ \A r \in Runs : Begun(r) => State(r).message \in Nat
  /\ \A r \in Runs : HasText(r) => msg[r] \in Nat
  /\ \A r \in Runs : fpc[r] \in {"context", "update"} => fmsg[r] \in Nat

SInv == IInv /\ LaneInv /\ BackgroundInv /\ DeletedInv /\ MapInv /\ GivenInv

----------------------------------------------------------------------------
(* What the steps leave alone. *)

PlainRun(r) ==
  \/ NewMessage(r) \/ Check(r) \/ Top(r) \/ SubmitPrepare(r) \/ AbandonPrepare(r)
  \/ AwaitPrepare(r) \/ ReplyContext(r) \/ Decide(r) \/ DecideFailed(r) \/ Decided(r)
  \/ Clear(r) \/ Send(r) \/ Sent(r) \/ Spawn(r)

PlainFinish(r) ==
  \/ FinishSnapshot(r) \/ FinishSubmit(r) \/ FinishAbandon(r) \/ StartFinish(r)
  \/ SkipFinish(r) \/ FinishAttempt(r) \/ Patch(r) \/ FinishFailed(r) \/ FinishCheck(r)
  \/ StoreReply(r)

(* What a state says, but for the reply it would cancel. *)
SameButReply ==
  \A o \in Runs :
    /\ st'[o].message = st[o].message /\ st'[o].revision = st[o].revision
    /\ st'[o].deleted = st[o].deleted /\ st'[o].token = st[o].token
    /\ st'[o].runCancel = st[o].runCancel /\ st'[o].memoryCancel = st[o].memoryCancel

SamePrepareLane ==
  /\ Waiting' = Waiting /\ Executed' = Executed
  /\ admitted \subseteq admitted'

LEMMA Bounded ==
  ASSUME IInv, NEW r \in Runs, Bound(r) \/ Begun(r) \/ Working(r) \/ HasText(r) \/ fpc[r] # "none"
  PROVE  /\ obj[r] \in Runs /\ RunMsg[obj[r]] = RunMsg[r] /\ RunMsg[r] \in Messages
         /\ Bound(r) /\ State(r) \in MessageStates
<1>1. Bound(r)
  BY DEF IInv, StateInv, Bound, Begun, Working, HasText, TextPCs
<1> QED BY <1>1, ProcessingAssumption DEF IInv, StateInv, TypeOK, ProcTypes, State

LEMMA PlainRunEffect ==
  ASSUME IInv, NEW r \in Runs, PlainRun(r)
  PROVE  /\ UNCHANGED <<chatVars, states, runCtx, memCtx, obj, dpc, storeVars, fmsg, frev>>
         /\ SameButReply
         /\ \A q \in Runs : q # r =>
              /\ pc'[q] = pc[q] /\ arg'[q] = arg[q] /\ msg'[q] = msg[q] /\ prep'[q] = prep[q]
              /\ attempt'[q] = attempt[q] /\ fpc'[q] = fpc[q]
         /\ pc[r] \in {"none", "check", "top", "submit", "await", "reply", "decide", "failed",
                       "decided", "presend", "sending", "sent", "spawn"}
         /\ pc[r] = "none" => pc'[r] = "spawned"
         /\ pc[r] # "none" => pc'[r] \in {"top", "submit", "await", "reply", "decide", "failed",
                                          "decided", "presend", "sending", "sent", "spawn", "release"}
         /\ pc' \in [Runs -> PCs]
<1> USE DEF IInv, TypeOK, RunTypes, FinTypes, Goto, FGoto, chatVars, procVars, storeVars, finVars, ctxVars
<1>1. CASE ReplyContext(r)
  <2>1. obj[r] \in Runs /\ st \in [Runs -> MessageStates]
    BY <1>1 DEF ReplyContext, StateInv, Bound, ProcTypes
  <2>2. SameButReply
    <3>1. CASE UNCHANGED st
      BY <3>1 DEF SameButReply
    <3>2. CASE ~UNCHANGED st
      <4>1. st' = [st EXCEPT ![obj[r]] = [st[obj[r]] EXCEPT !.replyCancel = r]]
        BY <1>1, <3>2 DEF ReplyContext
      <4>2. \A o \in Runs : st'[o] = st[o] \/ st'[o] = [st[o] EXCEPT !.replyCancel = r]
        BY <2>1, <4>1
      <4>3. \A s \in MessageStates :
              LET t == [s EXCEPT !.replyCancel = r]
              IN  /\ t.message = s.message /\ t.revision = s.revision
                  /\ t.deleted = s.deleted /\ t.token = s.token
                  /\ t.runCancel = s.runCancel /\ t.memoryCancel = s.memoryCancel
        BY DEF MessageStates
      <4> QED BY <2>1, <4>2, <4>3, Zenon DEF SameButReply
    <3> QED BY <3>1, <3>2
  <2>3. /\ UNCHANGED <<chatVars, states, runCtx, memCtx, obj, dpc, storeVars, fmsg, frev, arg, msg,
                       prep, attempt, fpc>>
        /\ pc[r] = "reply" /\ pc' = [pc EXCEPT ![r] = "decide"]
    BY <1>1 DEF ReplyContext
  <2> QED BY <2>2, <2>3 DEF PCs
<1>2. CASE ~ReplyContext(r)
  <2>1. UNCHANGED <<chatVars, states, st, runCtx, memCtx, obj, dpc, storeVars, fmsg, frev>>
    BY <1>2 DEF PlainRun, NewMessage, Check, Top, SubmitPrepare, AbandonPrepare, AwaitPrepare,
       Decide, DecideFailed, Decided, Clear, Send, Sent, Spawn
  <2>2. \A q \in Runs : q # r =>
          /\ pc'[q] = pc[q] /\ arg'[q] = arg[q] /\ msg'[q] = msg[q] /\ prep'[q] = prep[q]
          /\ attempt'[q] = attempt[q] /\ fpc'[q] = fpc[q]
    BY <1>2 DEF PlainRun, NewMessage, Check, Top, SubmitPrepare, AbandonPrepare, AwaitPrepare,
       Decide, DecideFailed, Decided, Clear, Send, Sent, Spawn
  <2>3. \E l \in PCs :
          /\ pc' = [pc EXCEPT ![r] = l]
          /\ pc[r] \in {"none", "check", "top", "submit", "await", "decide", "failed",
                        "decided", "presend", "sending", "sent", "spawn"}
          /\ pc[r] = "none" => l = "spawned"
          /\ pc[r] # "none" => l \in {"top", "submit", "await", "reply", "decide", "failed",
                                      "decided", "presend", "sending", "sent", "spawn", "release"}
    BY <1>2 DEF PlainRun, NewMessage, Check, Top, SubmitPrepare, AbandonPrepare, AwaitPrepare,
       Decide, DecideFailed, Decided, Clear, Send, Sent, Spawn, PCs
  <2> QED BY <2>1, <2>2, <2>3 DEF SameButReply
<1> QED BY <1>1, <1>2

LEMMA PlainFinishEffect ==
  ASSUME IInv, NEW r \in Runs, PlainFinish(r)
  PROVE  /\ UNCHANGED <<chatVars, procVars, ctxVars, runVars, dpc, stored>>
         /\ \A q \in Runs : q # r => fpc'[q] = fpc[q] /\ fmsg'[q] = fmsg[q]
         /\ fpc[r] # "none" /\ fpc'[r] # "none" /\ fpc'[r] # "update"
         /\ fpc'[r] = "context" => fmsg'[r] = State(r).message /\ ~State(r).deleted
         /\ fpc'[r] = "context" \/ fmsg'[r] = fmsg[r]
         /\ SamePrepareLane
<1> USE DEF IInv, TypeOK, FinTypes, LaneTypes, FGoto, storeVars, laneVars, LaneNames
<1>1. UNCHANGED <<chatVars, procVars, ctxVars, runVars, dpc, stored>>
  BY DEF PlainFinish, FinishSnapshot, FinishSubmit, FinishAbandon, StartFinish,
     SkipFinish, FinishAttempt, Patch, FinishFailed, FinishCheck, StoreReply
<1>2. SamePrepareLane
  BY DEF PlainFinish, FinishSnapshot, FinishSubmit, FinishAbandon, StartFinish,
     SkipFinish, FinishAttempt, Patch, FinishFailed, FinishCheck, StoreReply, EndFinish,
     Lane!Admit, Lane!Start, Lane!Skip, Lane!Finish, SamePrepareLane, Waiting, Executed
<1>3. /\ \A q \in Runs : q # r => fpc'[q] = fpc[q] /\ fmsg'[q] = fmsg[q]
      /\ fpc[r] # "none" /\ fpc'[r] # "none" /\ fpc'[r] # "update"
      /\ fpc'[r] = "context" => fmsg'[r] = State(r).message /\ ~State(r).deleted
      /\ fpc'[r] = "context" \/ fmsg'[r] = fmsg[r]
  <2>1. CASE FinishAttempt(r)
    BY <2>1 DEF FinishAttempt, EndFinish, TextToRemember
  <2>2. CASE ~FinishAttempt(r)
    BY <2>2 DEF PlainFinish, FinishSnapshot, FinishSubmit, FinishAbandon, StartFinish,
     SkipFinish, Patch, FinishFailed, FinishCheck, StoreReply, EndFinish
  <2> QED BY <2>1, <2>2
<1> QED BY <1>1, <1>2, <1>3

----------------------------------------------------------------------------
(* The prepare lane. *)

(* Jobs stay expected when nobody touches the lane and a run that waits    *)
(* goes on waiting or is cancelled.                                        *)
LEMMA LaneStays ==
  ASSUME LaneInv, SamePrepareLane, runCtx \subseteq runCtx',
         \A r \in Runs : (pc[r] = "await" /\ prep[r] = "none") =>
           \/ r \in runCtx'
           \/ pc'[r] = "await" /\ prep'[r] = "none" /\ attempt'[r] = attempt[r]
  PROVE  LaneInv'
<1>1. \A j : Expected(j) => Expected(j)'
  BY DEF Expected, Awaited, PrepareJob
<1> QED BY <1>1 DEF LaneInv, SamePrepareLane

LEMMA LaneSubmit ==
  ASSUME SInv, NEW r \in Runs, SubmitPrepare(r)
  PROVE  LaneInv'
<1> DEFINE j == PrepareJob(r)
           n == Len(Waiting)
<1> USE DEF Executed
<1>1. /\ j \notin admitted /\ admitted' = admitted \cup {j}
      /\ Waiting' = Append(Waiting, j) /\ Executed' = Executed
      /\ Waiting \in Seq(AllJobs)
  BY DEF SubmitPrepare, Lane!Admit, Waiting, SInv, IInv, TypeOK, LaneTypes, LaneNames
<1>2. /\ pc[r] = "submit" /\ pc' = [pc EXCEPT ![r] = "await"]
      /\ prep' = [prep EXCEPT ![r] = "none"]
      /\ UNCHANGED <<runCtx, attempt>>
      /\ pc \in [Runs -> PCs] /\ prep \in [Runs -> {"none", "ok", "err"}]
  BY DEF SubmitPrepare, Goto, ctxVars, SInv, IInv, TypeOK, RunTypes
<1>3. ASSUME NEW k, Expected(k)
      PROVE  Expected(k)'
  BY <1>2, <1>3 DEF Expected, Awaited, PrepareJob
<1>4. \A k : k = j => Expected(k)'
  BY <1>2 DEF Expected, Awaited, PrepareJob
<1>5. /\ n \in Nat /\ Len(Waiting') = n + 1
      /\ \A i \in 1 .. n : Waiting'[i] = Waiting[i]
      /\ Waiting'[n + 1] = j
  BY <1>1
<1>6. /\ \A i \in 1 .. n : Waiting[i] # j
      /\ j \notin Executed
  BY <1>1 DEF SInv, LaneInv
<1> HIDE DEF j, n
<1>7. \A i \in 1 .. Len(Waiting') : i \in 1 .. n \/ i = n + 1
  BY <1>5
<1>8. /\ \A i \in 1 .. n : Waiting[i] \in admitted /\ Waiting[i] \notin Executed /\ Expected(Waiting[i])
      /\ \A i, k \in 1 .. n : Waiting[i] = Waiting[k] => i = k
      /\ \A k \in Executed : k \in admitted /\ Expected(k)
      /\ \A k, l \in Executed : k = l
  BY DEF n, SInv, LaneInv
<1>9. \A i \in 1 .. Len(Waiting') :
        \A k : k = Waiting'[i] => k \in admitted' /\ k \notin Executed' /\ Expected(k)'
  <2> SUFFICES ASSUME NEW i \in 1 .. Len(Waiting'), NEW k, k = Waiting'[i]
               PROVE  k \in admitted' /\ k \notin Executed' /\ Expected(k)'
    OBVIOUS
  <2>1. CASE i \in 1 .. n
    BY <1>1, <1>3, <1>5, <1>8, <2>1
  <2>2. CASE i = n + 1
    <3>1. k = j
      BY <1>5, <2>2
    <3> QED BY <1>1, <1>4, <1>6, <3>1
  <2> QED BY <1>7, <2>1, <2>2
<1>10. \A i, k \in 1 .. Len(Waiting') : Waiting'[i] = Waiting'[k] => i = k
  BY <1>5, <1>6, <1>7, <1>8
<1>11. /\ \A k \in Executed' : k \in admitted' /\ Expected(k)'
       /\ \A k, l \in Executed' : k = l
  BY <1>1, <1>3, <1>8
<1> QED BY <1>9, <1>10, <1>11 DEF LaneInv

(* The head leaves the queue, to be executed or not. *)
LEMMA LaneTakes ==
  ASSUME SInv, NEW j, Lane!IsNext("prepare", j),
         Waiting' = Tail(Waiting), Executed' \in {{j}, Executed}, admitted' = admitted,
         \A k : (Expected(k) /\ k # j) => Expected(k)',
         Executed' = {j} => Expected(j)'
  PROVE  LaneInv'
<1>1. /\ Executed = {} /\ Waiting # <<>> /\ Waiting[1] = j /\ Waiting \in Seq(AllJobs)
  BY DEF Lane!IsNext, Executed, Waiting, SInv, IInv, TypeOK, LaneTypes, LaneNames
<1> DEFINE n == Len(Waiting)
<1>2. /\ n \in Nat /\ n > 0 /\ Len(Waiting') = n - 1
      /\ \A i \in 1 .. n - 1 : Waiting'[i] = Waiting[i + 1]
  BY <1>1
<1>3. /\ \A i \in 1 .. n : Waiting[i] \in admitted /\ Waiting[i] \notin Executed /\ Expected(Waiting[i])
      /\ \A i, k \in 1 .. n : Waiting[i] = Waiting[k] => i = k
  BY DEF SInv, LaneInv
<1> HIDE DEF n
<1>4. ASSUME NEW i \in 1 .. Len(Waiting')
      PROVE  /\ i + 1 \in 1 .. n /\ Waiting'[i] = Waiting[i + 1] /\ Waiting'[i] # j
  BY <1>1, <1>2, <1>3
<1>5. \A i, k \in 1 .. Len(Waiting') : Waiting'[i] = Waiting'[k] => i = k
  <2> SUFFICES ASSUME NEW i \in 1 .. Len(Waiting'), NEW k \in 1 .. Len(Waiting'),
                      Waiting'[i] = Waiting'[k]
               PROVE  i = k
    OBVIOUS
  <2>1. Waiting[i + 1] = Waiting[k + 1]
    BY <1>4
  <2>2. i + 1 = k + 1
    BY <1>3, <1>4, <2>1
  <2> QED BY <1>2, <2>2
<1>6. \A i \in 1 .. Len(Waiting') :
        \A k : k = Waiting'[i] => k \in admitted' /\ k \notin Executed' /\ Expected(k)'
  <2> SUFFICES ASSUME NEW i \in 1 .. Len(Waiting'), NEW k, k = Waiting'[i]
               PROVE  k \in admitted' /\ k \notin Executed' /\ Expected(k)'
    OBVIOUS
  <2> QED BY <1>1, <1>3, <1>4
<1>7. \A k \in Executed' : k \in admitted' /\ Expected(k)'
  BY <1>1, <1>2, <1>3
<1>8. \A k, l \in Executed' : k = l
  BY <1>1
<1> QED BY <1>5, <1>6, <1>7, <1>8 DEF LaneInv

LEMMA LaneFinishes ==
  ASSUME SInv, NEW j \in RunJobs, FinishPrepare(j)
  PROVE  LaneInv'
<1>1. /\ j \in Executed /\ Executed' = {} /\ Waiting' = Waiting /\ admitted' = admitted
  BY DEF FinishPrepare, Lane!Finish, Executed, Waiting, SInv, IInv, TypeOK, LaneTypes, LaneNames
<1>2. /\ UNCHANGED <<pc, attempt, runCtx>>
      /\ \A r \in Runs : r # j[2] => prep'[r] = prep[r]
  BY DEF FinishPrepare, ctxVars, SInv, IInv, TypeOK, RunTypes
<1>3. \A i \in 1 .. Len(Waiting) : Waiting[i] # j /\ Expected(Waiting[i]) /\ Waiting[i] \in admitted
  BY <1>1 DEF SInv, LaneInv
<1>4. Expected(j)
  BY <1>1 DEF SInv, LaneInv
<1>5. \A i \in 1 .. Len(Waiting) : Expected(Waiting[i])'
  <2> SUFFICES ASSUME NEW k, Expected(k), k # j
               PROVE  Expected(k)'
    BY <1>1, <1>3
  <2>1. CASE k[2] = j[2]
    BY <1>2, <1>4, <2>1 DEF Expected, Awaited
  <2>2. CASE k[2] # j[2]
    BY <1>2, <2>2 DEF Expected, Awaited, PrepareJob
  <2> QED BY <2>1, <2>2
<1>6. \A i, k \in 1 .. Len(Waiting) : Waiting[i] = Waiting[k] => i = k
  BY DEF SInv, LaneInv
<1> QED BY <1>1, <1>3, <1>5, <1>6 DEF LaneInv

(* A run that waits leaves only when it is cancelled, or its job has       *)
(* ended.                                                                  *)
LEMMA LaneStep == ASSUME SInv, [Next]_vars PROVE LaneInv'
<1> USE DEF SInv, IInv, TypeOK, RunTypes
<1>1. ASSUME NEW r \in Runs, SubmitPrepare(r) PROVE LaneInv'
  BY <1>1, LaneSubmit
<1>2. ASSUME NEW r \in Runs, PlainRun(r), ~SubmitPrepare(r) PROVE LaneInv'
  <2>1. /\ UNCHANGED <<laneVars, prep, runCtx>>
    BY <1>2 DEF PlainRun, NewMessage, Check, Top, AbandonPrepare, AwaitPrepare, ReplyContext,
       Decide, DecideFailed, Decided, Clear, Send, Sent, Spawn, ctxVars
  <2>2. pc[r] = "await" /\ prep[r] = "none" => r \in runCtx
    BY <1>2 DEF PlainRun, NewMessage, Check, Top, AbandonPrepare, AwaitPrepare, ReplyContext,
       Decide, DecideFailed, Decided, Clear, Send, Sent, Spawn, RunDead
  <2> QED BY <1>2, <2>1, <2>2, PlainRunEffect, LaneStays DEF SamePrepareLane, laneVars, Waiting, Executed
<1>3. ASSUME NEW r \in Runs, BeginLoad(r) \/ BeginLock(r) \/ ReleaseLock(r) \/ ReleaseForget(r)
             \/ MemoryContext(r) \/ UpdateStore(r)
      PROVE  LaneInv'
  <2>1. /\ UNCHANGED <<laneVars, prep, attempt>> /\ runCtx \subseteq runCtx'
        /\ \A q \in Runs : pc[q] = "await" => pc'[q] = "await"
    BY <1>3 DEF BeginLoad, BeginLock, ReleaseLock, ReleaseForget, MemoryContext, UpdateStore,
       ctxVars, runVars, Goto
  <2> QED BY <2>1, LaneStays DEF SamePrepareLane, laneVars, Waiting, Executed
<1>4. ASSUME NEW r \in Runs, PlainFinish(r) PROVE LaneInv'
  BY <1>4, PlainFinishEffect, LaneStays DEF ctxVars, runVars
<1>5. ASSUME NEW m \in Messages, MessageUpdated(m) \/ MessageDeleted(m) PROVE LaneInv'
  <2>1. UNCHANGED <<laneVars, runVars>> /\ runCtx \subseteq runCtx'
    BY <1>5 DEF MessageUpdated, MessageDeleted, ctxVars
  <2> QED BY <2>1, LaneStays DEF SamePrepareLane, laneVars, runVars, Waiting, Executed
<1>6. ASSUME NEW m \in Messages, DeleteStep(m) PROVE LaneInv'
  <2>1. UNCHANGED <<runVars, ctxVars>> /\ SamePrepareLane
    BY <1>6 DEF DeleteStep, DeleteSubmit, StartDelete, DeleteRemove, DeleteFail, DeletePatch, laneVars, LaneNames,
       LaneTypes, Lane!Admit, Lane!Start, Lane!Finish, SamePrepareLane, Waiting, Executed
  <2> QED BY <2>1, LaneStays DEF runVars, ctxVars
<1>7. ASSUME NEW j \in RunJobs, StartPrepare(j) PROVE LaneInv'
  <2>1. /\ Lane!IsNext("prepare", j) /\ admitted' = admitted
        /\ Waiting' = Tail(Waiting) /\ Executed' = {j}
        /\ UNCHANGED <<runVars, ctxVars>>
    BY <1>7 DEF StartPrepare, Lane!Start, LaneTypes, LaneNames, Waiting, Executed
  <2>2. \A k : Expected(k)' <=> Expected(k)
    BY <2>1 DEF Expected, Awaited, PrepareJob, runVars, ctxVars
  <2>3. Expected(j)
    <3>1. Waiting \in Seq(AllJobs) /\ Waiting # <<>> /\ Waiting[1] = j
      BY <2>1 DEF Lane!IsNext, Waiting, LaneTypes, LaneNames
    <3>2. 1 \in 1 .. Len(Waiting)
      BY <3>1
    <3> QED BY <3>1, <3>2 DEF LaneInv
  <2> QED BY <2>1, <2>2, <2>3, LaneTakes
<1>8. ASSUME NEW j \in RunJobs, SkipPrepare(j) PROVE LaneInv'
  <2>1. /\ Lane!IsNext("prepare", j) /\ admitted' = admitted
        /\ Waiting' = Tail(Waiting) /\ Executed' = Executed
        /\ UNCHANGED <<pc, attempt, runCtx>> /\ prep' = [prep EXCEPT ![j[2]] = "err"]
        /\ j[2] \in runCtx /\ Executed = {}
    BY <1>8 DEF SkipPrepare, Lane!Skip, Lane!IsNext, LaneTypes, LaneNames, Waiting, Executed, deadJobs, ctxVars
  <2>2. \A k : Expected(k) => Expected(k)'
    BY <2>1 DEF Expected, Awaited, PrepareJob
  <2> QED BY <2>1, <2>2, LaneTakes
<1>9. ASSUME NEW j \in RunJobs, FinishPrepare(j) PROVE LaneInv'
  BY <1>9, LaneFinishes
<1>10. CASE Idle \/ UNCHANGED vars
  <2>1. UNCHANGED <<laneVars, runVars, ctxVars>>
    BY <1>10 DEF Idle, vars
  <2> QED BY <2>1, LaneStays DEF SamePrepareLane, laneVars, runVars, ctxVars, Waiting, Executed
<1> QED BY <1>1, <1>2, <1>3, <1>4, <1>5, <1>6, <1>7, <1>8, <1>9, <1>10
        DEF Next, RunStep, FinishStep, PrepareStep, PlainRun, PlainFinish

----------------------------------------------------------------------------
(* States, tokens and texts. *)

LEMMA UpdatedState ==
  ASSUME NEW s \in MessageStates, NEW v \in Nat
  PROVE  /\ Updated(s, v).message = v /\ Updated(s, v).deleted = s.deleted
         /\ Updated(s, v).token = s.token /\ Updated(s, v).runCancel = s.runCancel
         /\ Updated(s, v).memoryCancel = None
BY DEF Updated, MessageStates

LEMMA DeletedIs ==
  ASSUME NEW s \in MessageStates
  PROVE  /\ DeletedState(s).message = s.message /\ DeletedState(s).deleted
         /\ DeletedState(s).token = s.token /\ DeletedState(s).runCancel = s.runCancel
         /\ DeletedState(s).memoryCancel = None
BY DEF DeletedState, MessageStates

LEMMA MapStays ==
  ASSUME SInv, UNCHANGED <<states, obj>>, \A o \in Runs : st'[o].token = st[o].token,
         \A r \in Runs : /\ pc[r] = "loaded" => pc'[r] = "loaded"
                         /\ Begun(r) => Begun(r)'
                         /\ pc[r] \notin {"none", "spawned", "done"} =>
                              pc'[r] \notin {"none", "spawned", "done"}
  PROVE  MapInv'
<1>1. \A r, o \in Runs : Keeper(r, o) => Keeper(r, o)'
  BY DEF Keeper
<1>2. \A m \in Messages : states[m] # None => states[m] \in Runs
  BY DEF SInv, IInv, StateInv
<1> QED BY <1>1, <1>2 DEF SInv, MapInv

(* A memory context that a state lets go of is cancelled. *)
MemoryKept(o) ==
  \/ st'[o].memoryCancel = st[o].memoryCancel
  \/ st'[o].memoryCancel = None /\ Held(st[o].memoryCancel) \subseteq memCtx'

LEMMA UpdateEffect ==
  ASSUME IInv, NEW m \in Messages, MessageUpdated(m)
  PROVE  /\ UNCHANGED <<gone, states, runVars, finVars, dpc, laneVars, storeVars, runCtx>>
         /\ memCtx \subseteq memCtx'
         /\ version'[m] = version[m] + 1
         /\ \A n \in Messages : n # m => version'[n] = version[n]
         /\ \A o \in Runs :
              /\ MemoryKept(o)
              /\ st'[o].token = st[o].token /\ st'[o].deleted = st[o].deleted
              /\ st'[o].runCancel = st[o].runCancel
              /\ st'[o].message = st[o].message \/ (RunMsg[o] = m /\ st'[o].message = version'[m])
<1>1. /\ UNCHANGED <<gone, states, runVars, finVars, dpc, laneVars, storeVars, runCtx>>
      /\ memCtx \subseteq memCtx'
      /\ version'[m] = version[m] + 1
      /\ \A n \in Messages : n # m => version'[n] = version[n]
  BY DEF MessageUpdated, ctxVars, IInv, TypeOK, ChatTypes
<1>2. CASE UNCHANGED st
  BY <1>1, <1>2 DEF MemoryKept
<1>3. CASE ~UNCHANGED st
  <2>1. PICK o : o = states[m]
    OBVIOUS
  <2>2. /\ o \in Runs /\ RunMsg[o] = m
        /\ st' = [st EXCEPT ![o] = Updated(@, version[m] + 1)]
        /\ memCtx' = memCtx \cup Held(st[o].memoryCancel)
    BY <1>3, <2>1 DEF MessageUpdated, IInv, StateInv
  <2>3. st[o] \in MessageStates /\ version[m] + 1 \in Nat /\ st \in [Runs -> MessageStates]
    BY <2>2 DEF IInv, TypeOK, ProcTypes, ChatTypes
  <2>4. st'[o] = Updated(st[o], version[m] + 1) /\ \A q \in Runs : q # o => st'[q] = st[q]
    BY <2>2, <2>3
  <2>5. \A q \in Runs : q # o => MemoryKept(q)
    BY <2>4 DEF MemoryKept
  <2>6. MemoryKept(o)
    BY <2>2, <2>3, <2>4, UpdatedState DEF MemoryKept
  <2>7. /\ st'[o].message = version[m] + 1 /\ st'[o].deleted = st[o].deleted
        /\ st'[o].token = st[o].token /\ st'[o].runCancel = st[o].runCancel
    BY <2>3, <2>4, UpdatedState
  <2> QED BY <1>1, <2>2, <2>4, <2>5, <2>6, <2>7, Zenon
<1> QED BY <1>2, <1>3

LEMMA DeleteEffect ==
  ASSUME IInv, NEW m \in Messages, MessageDeleted(m)
  PROVE  /\ UNCHANGED <<version, states, runVars, finVars, laneVars, storeVars>>
         /\ memCtx \subseteq memCtx' /\ runCtx \subseteq runCtx'
         /\ gone'[m]
         /\ \A n \in Messages : n # m => gone'[n] = gone[n] /\ dpc'[n] = dpc[n]
         /\ dpc'[m] = "spawned"
         /\ \A q \in runCtx' : q \in runCtx \/ (states[m] # None /\ q = st[states[m]].runCancel)
         /\ \A o \in Runs :
              /\ MemoryKept(o)
              /\ st'[o].token = st[o].token /\ st'[o].message = st[o].message
              /\ st'[o].runCancel = st[o].runCancel
              /\ \/ st'[o].deleted = st[o].deleted /\ st'[o].memoryCancel = st[o].memoryCancel
                 \/ /\ RunMsg[o] = m /\ st'[o].memoryCancel = None
                    /\ Held(st[o].runCancel) \subseteq runCtx'
<1>1. /\ UNCHANGED <<version, states, runVars, finVars, laneVars, storeVars>>
      /\ memCtx \subseteq memCtx' /\ runCtx \subseteq runCtx'
      /\ gone' = [gone EXCEPT ![m] = TRUE]
      /\ dpc' = [dpc EXCEPT ![m] = "spawned"]
      /\ gone \in [Messages -> BOOLEAN]
      /\ dpc \in [Messages -> {"none", "spawned", "queued", "remove", "patch", "done", "failed"}]
  BY DEF MessageDeleted, ctxVars, IInv, TypeOK, ChatTypes
<1>2. /\ gone'[m] /\ dpc'[m] = "spawned"
      /\ \A n \in Messages : n # m => gone'[n] = gone[n] /\ dpc'[n] = dpc[n]
  BY <1>1
<1>3. CASE states[m] = None
  <2>1. UNCHANGED <<st, runCtx>>
    BY <1>3 DEF MessageDeleted, ctxVars
  <2> QED BY <1>1, <1>2, <2>1 DEF MemoryKept
<1>4. CASE states[m] # None
  <2>1. PICK o : o = states[m]
    OBVIOUS
  <2>2. /\ o \in Runs /\ RunMsg[o] = m
        /\ st' = [st EXCEPT ![o] = DeletedState(@)]
        /\ memCtx' = memCtx \cup Held(st[o].memoryCancel)
        /\ runCtx' = runCtx \cup Held(st[o].runCancel)
    BY <1>4, <2>1 DEF MessageDeleted, IInv, StateInv, CancelledByDelete
  <2>3. st[o] \in MessageStates /\ st \in [Runs -> MessageStates]
    BY <2>2 DEF IInv, TypeOK, ProcTypes
  <2>4. st'[o] = DeletedState(st[o]) /\ \A q \in Runs : q # o => st'[q] = st[q]
    BY <2>2, <2>3
  <2>5. \A q \in Runs : q # o => MemoryKept(q)
    BY <2>4 DEF MemoryKept
  <2>6. MemoryKept(o)
    BY <2>2, <2>3, <2>4, DeletedIs DEF MemoryKept
  <2>7. /\ st'[o].message = st[o].message /\ st'[o].memoryCancel = None
        /\ st'[o].token = st[o].token /\ st'[o].runCancel = st[o].runCancel
        /\ Held(st[o].runCancel) \subseteq runCtx'
    BY <2>2, <2>3, <2>4, DeletedIs
  <2>8. \A q \in runCtx' : q \in runCtx \/ (states[m] # None /\ q = st[states[m]].runCancel)
    BY <1>4, <2>1, <2>2 DEF Held
  <2> QED BY <1>1, <1>2, <2>2, <2>4, <2>5, <2>6, <2>7, <2>8, Zenon
<1> QED BY <1>3, <1>4

LEMMA BeginEffect ==
  ASSUME IInv, NEW r \in Runs, BeginLock(r)
  PROVE  /\ UNCHANGED <<chatVars, states, obj, arg, msg, attempt, prep, finVars, dpc, laneVars, storeVars>>
         /\ pc[r] = "loaded" /\ pc' = [pc EXCEPT ![r] = "check"]
         /\ memCtx \subseteq memCtx' /\ runCtx \subseteq runCtx'
         /\ \A q \in runCtx' : q \in runCtx \/ q = State(r).runCancel
         /\ obj[r] \in Runs /\ MemoryKept(obj[r])
         /\ \A o \in Runs : o # obj[r] => st'[o] = st[o]
         /\ LET s == st'[obj[r]]
            IN  /\ s.token = r /\ s.runCancel = r /\ s.memoryCancel = None
                /\ s.message = arg[r] /\ ~s.deleted
<1>1. obj[r] \in Runs /\ st \in [Runs -> MessageStates]
  BY DEF BeginLock, IInv, StateInv, Bound, TypeOK, ProcTypes
<1>2. /\ UNCHANGED <<chatVars, states, obj, arg, msg, attempt, prep, finVars, dpc, laneVars, storeVars>>
      /\ pc[r] = "loaded" /\ pc' = [pc EXCEPT ![r] = "check"]
      /\ memCtx' = memCtx \cup Held(st[obj[r]].memoryCancel)
      /\ runCtx' = runCtx \cup Held(State(r).runCancel)
  BY DEF BeginLock, Goto, Superseded, State
<1>3. /\ \A o \in Runs : o # obj[r] => st'[o] = st[o]
      /\ LET s == st'[obj[r]]
         IN  /\ s.token = r /\ s.runCancel = r /\ s.memoryCancel = None
             /\ s.message = arg[r] /\ ~s.deleted
  BY <1>1 DEF BeginLock, MessageStates
<1> QED BY <1>1, <1>2, <1>3 DEF MemoryKept, Held

LEMMA ReleaseEffect ==
  ASSUME IInv, NEW r \in Runs, ReleaseLock(r)
  PROVE  /\ UNCHANGED <<chatVars, states, runCtx, obj, arg, msg, attempt, prep, finVars, dpc,
                        laneVars, storeVars>>
         /\ pc[r] = "release"
         /\ IF State(r).token = r THEN pc' = [pc EXCEPT ![r] = "forget"]
            ELSE pc' = [pc EXCEPT ![r] = "done"]
         /\ memCtx \subseteq memCtx'
         /\ obj[r] \in Runs /\ MemoryKept(obj[r])
         /\ \A o \in Runs : o # obj[r] => st'[o] = st[o]
         /\ LET s == st'[obj[r]]
            IN  /\ s.token = st[obj[r]].token /\ s.message = st[obj[r]].message
                /\ s.deleted = st[obj[r]].deleted
                /\ s.runCancel \in {st[obj[r]].runCancel, None}
                /\ s.memoryCancel \in {st[obj[r]].memoryCancel, None}
<1>1. obj[r] \in Runs /\ st \in [Runs -> MessageStates]
  BY DEF ReleaseLock, IInv, StateInv, Bound, TypeOK, ProcTypes
<1>2. /\ UNCHANGED <<chatVars, states, runCtx, obj, arg, msg, attempt, prep, finVars, dpc,
                     laneVars, storeVars>>
      /\ pc[r] = "release"
      /\ IF State(r).token = r THEN pc' = [pc EXCEPT ![r] = "forget"]
         ELSE pc' = [pc EXCEPT ![r] = "done"]
      /\ memCtx \subseteq memCtx'
  BY DEF ReleaseLock, Goto, MayRelease
<1>3. CASE ~MayRelease(r)
  <2>1. UNCHANGED st
    BY <1>3 DEF ReleaseLock
  <2> QED BY <1>1, <1>2, <2>1 DEF MemoryKept
<1>4. CASE MayRelease(r)
  <2>1. /\ st' = [st EXCEPT ![obj[r]] = [st[obj[r]] EXCEPT !.runCancel = None, !.memoryCancel = None,
                                                  !.replyCancel = None]]
        /\ memCtx' = memCtx \cup Held(st[obj[r]].memoryCancel)
    BY <1>4 DEF ReleaseLock, State
  <2>2. \A s \in MessageStates :
          LET n == [s EXCEPT !.runCancel = None, !.memoryCancel = None, !.replyCancel = None]
          IN  /\ n.token = s.token /\ n.message = s.message /\ n.deleted = s.deleted
              /\ n.runCancel = None /\ n.memoryCancel = None
    BY DEF MessageStates
  <2>3. /\ \A o \in Runs : o # obj[r] => st'[o] = st[o]
        /\ st'[obj[r]] = [st[obj[r]] EXCEPT !.runCancel = None, !.memoryCancel = None,
                                            !.replyCancel = None]
        /\ st[obj[r]] \in MessageStates
    BY <1>1, <2>1
  <2>4. LET s == st'[obj[r]]
        IN  /\ s.token = st[obj[r]].token /\ s.message = st[obj[r]].message
            /\ s.deleted = st[obj[r]].deleted
            /\ s.runCancel = None /\ s.memoryCancel = None
    BY <2>2, <2>3, Zenon
  <2> QED BY <1>1, <1>2, <2>1, <2>3, <2>4 DEF MemoryKept
<1> QED BY <1>3, <1>4

LEMMA MemoryContextEffect ==
  ASSUME IInv, NEW r \in Runs, MemoryContext(r)
  PROVE  /\ UNCHANGED <<chatVars, states, runCtx, replyCtx, runVars, fmsg, frev, dpc, laneVars, storeVars>>
         /\ fpc[r] = "context" /\ fpc' = [fpc EXCEPT ![r] = "update"]
         /\ memCtx \subseteq memCtx' \cup {r}
         /\ obj[r] \in Runs
         /\ \A o \in Runs :
              /\ o # obj[r] => st'[o] = st[o]
              /\ st'[o].token = st[o].token /\ st'[o].message = st[o].message
              /\ st'[o].deleted = st[o].deleted /\ st'[o].runCancel = st[o].runCancel
         /\ \/ State(r).deleted /\ r \in memCtx' /\ UNCHANGED st
            \/ /\ ~State(r).deleted /\ st'[obj[r]].memoryCancel = r
               /\ Held(State(r).memoryCancel) \subseteq memCtx' \cup {r}
<1>1. obj[r] \in Runs /\ st \in [Runs -> MessageStates]
  BY DEF MemoryContext, IInv, StateInv, Bound, TypeOK, ProcTypes
<1>2. /\ UNCHANGED <<chatVars, states, runCtx, replyCtx, runVars, fmsg, frev, dpc, laneVars, storeVars>>
      /\ fpc[r] = "context" /\ fpc' = [fpc EXCEPT ![r] = "update"]
      /\ memCtx \subseteq memCtx' \cup {r}
  BY DEF MemoryContext, FGoto
<1>3. CASE State(r).deleted
  <2>1. UNCHANGED st /\ r \in memCtx'
    BY <1>3 DEF MemoryContext
  <2> QED BY <1>1, <1>2, <1>3, <2>1
<1>4. CASE ~State(r).deleted
  <2>1. /\ st' = [st EXCEPT ![obj[r]] = [st[obj[r]] EXCEPT !.memoryCancel = r]]
        /\ memCtx' = (memCtx \cup Held(State(r).memoryCancel)) \ {r}
    BY <1>4 DEF MemoryContext
  <2>2. \A s \in MessageStates :
          LET n == [s EXCEPT !.memoryCancel = r]
          IN  /\ n.token = s.token /\ n.message = s.message /\ n.deleted = s.deleted
              /\ n.runCancel = s.runCancel /\ n.memoryCancel = r
    BY DEF MessageStates
  <2>3. /\ \A o \in Runs : o # obj[r] => st'[o] = st[o]
        /\ st'[obj[r]] = [st[obj[r]] EXCEPT !.memoryCancel = r]
        /\ st[obj[r]] \in MessageStates
    BY <1>1, <2>1
  <2>4. LET s == st'[obj[r]]
        IN  /\ s.token = st[obj[r]].token /\ s.message = st[obj[r]].message
            /\ s.deleted = st[obj[r]].deleted
            /\ s.runCancel = st[obj[r]].runCancel /\ s.memoryCancel = r
    BY <2>2, <2>3, Zenon
  <2>5. Held(State(r).memoryCancel) \subseteq memCtx' \cup {r}
    BY <2>1
  <2> QED BY <1>1, <1>2, <1>4, <2>3, <2>4, <2>5, Zenon
<1> QED BY <1>3, <1>4

----------------------------------------------------------------------------
(* Each invariant, step by step. *)

Unlocked(r) == BeginLoad(r) \/ ReleaseForget(r)

LEMMA UnlockedEffect ==
  ASSUME IInv, NEW r \in Runs, Unlocked(r)
  PROVE  /\ UNCHANGED <<chatVars, st, ctxVars, arg, msg, attempt, prep, finVars, dpc, laneVars, storeVars>>
         /\ \A q \in Runs : q # r => obj'[q] = obj[q] /\ pc'[q] = pc[q]
         /\ \/ pc[r] = "spawned" /\ pc'[r] = "loaded" /\ fpc[r] = "none"
            \/ pc[r] = "forget" /\ pc'[r] = "done" /\ obj'[r] = obj[r]
BY DEF Unlocked, BeginLoad, ReleaseForget, Goto, IInv, TypeOK, RunTypes, StateInv, Bound

(* The other steps are of no concern here. *)
Quiet ==
  /\ UNCHANGED <<chatVars, procVars, ctxVars, pc, arg, obj, msg, fpc, fmsg>>
  /\ \A m \in Messages : dpc'[m] # "none" => dpc[m] # "none"

LEMMA QuietSteps ==
  ASSUME IInv
  PROVE  /\ \A m \in Messages : DeleteStep(m) => Quiet
         /\ \A j \in RunJobs : StartPrepare(j) \/ SkipPrepare(j) \/ FinishPrepare(j) => Quiet
         /\ Idle \/ UNCHANGED vars => Quiet
<1>1. ASSUME NEW m \in Messages, DeleteStep(m) PROVE Quiet
  BY <1>1 DEF DeleteStep, DeleteSubmit, StartDelete, DeleteRemove, DeleteFail, DeletePatch, Quiet, runVars, finVars,
     IInv, TypeOK
<1>2. ASSUME NEW j \in RunJobs, StartPrepare(j) \/ SkipPrepare(j) \/ FinishPrepare(j) PROVE Quiet
  BY <1>2 DEF StartPrepare, SkipPrepare, FinishPrepare, Quiet, runVars, finVars
<1>3. ASSUME Idle \/ UNCHANGED vars PROVE Quiet
  BY <1>3 DEF Idle, vars, Quiet, runVars, finVars
<1> QED BY <1>1, <1>2, <1>3

(* All steps, by what they do. *)
LEMMA Cases ==
  ASSUME IInv, [Next]_vars
  PROVE  \/ \E r \in Runs : PlainRun(r) \/ PlainFinish(r) \/ Unlocked(r) \/ BeginLock(r)
                            \/ ReleaseLock(r) \/ MemoryContext(r) \/ UpdateStore(r)
         \/ \E m \in Messages : MessageUpdated(m) \/ MessageDeleted(m)
         \/ Quiet
BY QuietSteps DEF Next, RunStep, FinishStep, PrepareStep, PlainRun, PlainFinish, Unlocked

LEMMA UpdateStoreEffect ==
  ASSUME IInv, NEW r \in Runs, UpdateStore(r)
  PROVE  /\ UNCHANGED <<chatVars, procVars, ctxVars, runVars, fmsg, frev, dpc, laneVars, replies>>
         /\ fpc[r] = "update" /\ fpc'[r] \in {"updated", "patch", "failed"}
         /\ \A q \in Runs : q # r => fpc'[q] = fpc[q]
         /\ \/ stored' = [stored EXCEPT ![RunMsg[r]] = fmsg[r]] /\ ~MemoryDead(r)
            \/ UNCHANGED stored
BY DEF UpdateStore, FGoto, IInv, TypeOK, FinTypes

LEMMA SpawnedThen ==
  ASSUME IInv, NEW r \in Runs, PlainRun(r)
  PROVE  fpc'[r] = fpc[r] \/ (fpc'[r] = "spawned" /\ pc'[r] = "release")
BY DEF PlainRun, NewMessage, Check, Top, SubmitPrepare, AbandonPrepare, AwaitPrepare, ReplyContext,
   Decide, DecideFailed, Decided, Clear, Send, Sent, Spawn, Goto, FGoto, finVars, IInv, TypeOK,
   RunTypes, FinTypes

LEMMA BackgroundAfterRun ==
  ASSUME IInv, BackgroundInv, [Next]_vars
  PROVE  \A r \in Runs : fpc'[r] # "none" => pc'[r] \in {"release", "forget", "done"}
<1> USE DEF BackgroundInv
<1>1. ASSUME NEW r \in Runs, PlainRun(r)
      PROVE  \A q \in Runs : fpc'[q] # "none" => pc'[q] \in {"release", "forget", "done"}
  BY <1>1, PlainRunEffect, SpawnedThen
<1>2. ASSUME NEW r \in Runs, PlainFinish(r) \/ MemoryContext(r) \/ UpdateStore(r)
      PROVE  \A q \in Runs : fpc'[q] # "none" => pc'[q] \in {"release", "forget", "done"}
  BY <1>2, PlainFinishEffect, MemoryContextEffect, UpdateStoreEffect DEF runVars, IInv, TypeOK, FinTypes
<1>3. ASSUME NEW r \in Runs, Unlocked(r) \/ BeginLock(r) \/ ReleaseLock(r)
      PROVE  \A q \in Runs : fpc'[q] # "none" => pc'[q] \in {"release", "forget", "done"}
  BY <1>3, UnlockedEffect, BeginEffect, ReleaseEffect DEF finVars, IInv, TypeOK, RunTypes
<1>4. ASSUME NEW m \in Messages, MessageUpdated(m) \/ MessageDeleted(m)
      PROVE  \A q \in Runs : fpc'[q] # "none" => pc'[q] \in {"release", "forget", "done"}
  BY <1>4, UpdateEffect, DeleteEffect DEF runVars, finVars, MessageDeleted
<1>5. ASSUME Quiet
      PROVE  \A q \in Runs : fpc'[q] # "none" => pc'[q] \in {"release", "forget", "done"}
  BY <1>5 DEF Quiet
<1> QED BY <1>1, <1>2, <1>3, <1>4, <1>5, Cases

(* A background update about to write stays cancelled or the state's own.  *)
LEMMA WriterStays ==
  ASSUME IInv, NEW r \in Runs, fpc[r] = "update", MemoryDead(r) \/ State(r).memoryCancel = r,
         obj'[r] = obj[r], memCtx \subseteq memCtx', runCtx \subseteq runCtx', MemoryKept(obj[r])
  PROVE  MemoryDead(r)' \/ State(r)'.memoryCancel = r
BY ProcessingAssumption DEF MemoryDead, State, MemoryKept, Held

LEMMA BackgroundStep == ASSUME IInv, BackgroundInv, [Next]_vars PROVE BackgroundInv'
<1> SUFFICES ASSUME NEW r \in Runs, fpc'[r] = "update"
             PROVE  MemoryDead(r)' \/ State(r)'.memoryCancel = r
  BY BackgroundAfterRun DEF BackgroundInv
<1>1. CASE fpc[r] # "update"
  <2>1. MemoryContext(r)
    BY <1>1, Cases, PlainRunEffect, PlainFinishEffect, SpawnedThen, UnlockedEffect, BeginEffect, ReleaseEffect,
       UpdateStoreEffect, UpdateEffect, DeleteEffect, MemoryContextEffect
       DEF Quiet, runVars, finVars, MessageDeleted, IInv, TypeOK, FinTypes
  <2> QED BY <2>1, MemoryContextEffect DEF MemoryDead, State, runVars
<1>2. CASE fpc[r] = "update"
  <2>1. /\ MemoryDead(r) \/ State(r).memoryCancel = r
        /\ obj[r] \in Runs /\ pc[r] \in {"release", "forget", "done"}
    BY <1>2, Bounded DEF BackgroundInv
  <2>2. CASE \E q \in Runs : MemoryContext(q)
    <3>1. PICK q \in Runs : MemoryContext(q)
      BY <2>2
    <3>2. q # r
      BY <1>2, <3>1, MemoryContextEffect
    <3>3. obj'[r] = obj[r] /\ runCtx' = runCtx /\ memCtx \subseteq memCtx' \cup {q}
      BY <3>1, MemoryContextEffect DEF runVars
    <3>4. CASE MemoryDead(r)
      BY <3>2, <3>3, <3>4 DEF MemoryDead
    <3>5. CASE State(r).memoryCancel = r /\ (obj[r] # obj[q] \/ UNCHANGED st)
      BY <2>1, <3>1, <3>3, <3>5, MemoryContextEffect DEF State
    <3>6. CASE State(r).memoryCancel = r /\ obj[r] = obj[q] /\ ~UNCHANGED st
      <4>1. r \in Held(State(q).memoryCancel)
        BY <3>6, ProcessingAssumption DEF State, Held
      <4>2. r \in memCtx'
        BY <3>1, <3>2, <3>6, <4>1, MemoryContextEffect
      <4> QED BY <4>2 DEF MemoryDead
    <3> QED BY <2>1, <3>4, <3>5, <3>6
  <2>3. CASE ~\E q \in Runs : MemoryContext(q)
    <3>1. obj'[r] = obj[r] /\ memCtx \subseteq memCtx' /\ runCtx \subseteq runCtx'
      BY <2>1, <2>3, Cases, PlainRunEffect, PlainFinishEffect, UnlockedEffect, BeginEffect, ReleaseEffect,
         UpdateStoreEffect, UpdateEffect, DeleteEffect DEF Quiet, runVars, ctxVars
    <3>2. MemoryKept(obj[r])
      <4>1. ASSUME NEW q \in Runs, BeginLock(q) \/ ReleaseLock(q) PROVE MemoryKept(obj[r])
        BY <2>1, <4>1, BeginEffect, ReleaseEffect DEF MemoryKept
      <4>2. ASSUME NEW q \in Runs, PlainRun(q) \/ PlainFinish(q) \/ Unlocked(q) \/ UpdateStore(q)
            PROVE  MemoryKept(obj[r])
        BY <2>1, <4>2, PlainRunEffect, PlainFinishEffect, UnlockedEffect, UpdateStoreEffect
           DEF MemoryKept, SameButReply, procVars
      <4>3. ASSUME NEW m \in Messages, MessageUpdated(m) \/ MessageDeleted(m) PROVE MemoryKept(obj[r])
        BY <2>1, <4>3, UpdateEffect, DeleteEffect
      <4>4. ASSUME Quiet PROVE MemoryKept(obj[r])
        BY <4>4 DEF Quiet, MemoryKept, procVars
      <4> QED BY <2>3, <4>1, <4>2, <4>3, <4>4, Cases
    <3> QED BY <1>2, <2>1, <3>1, <3>2, WriterStays
  <2> QED BY <2>2, <2>3
<1> QED BY <1>1, <1>2

LEMMA DeletedStep == ASSUME IInv, DeletedInv, [Next]_vars PROVE DeletedInv'
<1> USE DEF DeletedInv
<1>1. ASSUME NEW r \in Runs, PlainRun(r) \/ PlainFinish(r) \/ Unlocked(r) \/ UpdateStore(r)
      PROVE  DeletedInv'
  <2>1. UNCHANGED <<gone, dpc, runCtx>> /\ SameButReply
    BY <1>1, PlainRunEffect, PlainFinishEffect, UnlockedEffect, UpdateStoreEffect
       DEF SameButReply, procVars, ctxVars, chatVars
  <2> QED BY <2>1 DEF SameButReply
<1>2. ASSUME NEW r \in Runs, BeginLock(r) PROVE DeletedInv'
  BY <1>2, BeginEffect DEF chatVars
<1>3. ASSUME NEW r \in Runs, ReleaseLock(r) PROVE DeletedInv'
  BY <1>3, ReleaseEffect DEF chatVars
<1>4. ASSUME NEW r \in Runs, MemoryContext(r) PROVE DeletedInv'
  BY <1>4, MemoryContextEffect DEF chatVars, State
<1>5. ASSUME NEW m \in Messages, MessageUpdated(m) PROVE DeletedInv'
  BY <1>5, UpdateEffect DEF MemoryKept
<1>6. ASSUME NEW m \in Messages, MessageDeleted(m) PROVE DeletedInv'
  <2>1. \A n \in Messages : gone[n] => gone'[n]
    BY <1>6, DeleteEffect
  <2>2. \A n \in Messages : dpc'[n] # "none" => gone'[n]
    BY <1>6, <2>1, DeleteEffect
  <2>3. ASSUME NEW o \in Runs, st'[o].deleted
        PROVE  /\ gone'[RunMsg[o]] /\ st'[o].memoryCancel = None
               /\ st'[o].runCancel \in runCtx' \cup {None}
    <3>1. st'[o].runCancel = st[o].runCancel /\ runCtx \subseteq runCtx' /\ RunMsg[o] \in Messages
      BY <1>6, DeleteEffect, ProcessingAssumption
    <3>2. CASE st'[o].deleted = st[o].deleted /\ st'[o].memoryCancel = st[o].memoryCancel
      BY <2>1, <2>3, <3>1, <3>2
    <3>3. CASE RunMsg[o] = m /\ st'[o].memoryCancel = None /\ Held(st[o].runCancel) \subseteq runCtx'
      BY <1>6, <3>1, <3>3, DeleteEffect DEF Held
    <3> QED BY <1>6, <3>2, <3>3, DeleteEffect
  <2> QED BY <2>2, <2>3
<1>7. ASSUME Quiet PROVE DeletedInv'
  BY <1>7 DEF Quiet, chatVars, procVars, ctxVars
<1> QED BY <1>1, <1>2, <1>3, <1>4, <1>5, <1>6, <1>7, Cases

(* The map: who loads a state will begin with it, who begins has its       *)
(* token, and who has the token takes it out.                              *)
LEMMA MapStep == ASSUME SInv, [Next]_vars PROVE MapInv'
<1> USE DEF SInv
<1>1. ASSUME NEW r \in Runs, PlainRun(r) \/ PlainFinish(r) \/ UpdateStore(r) \/ MemoryContext(r)
      PROVE  MapInv'
  <2>1. UNCHANGED <<states, obj>> /\ \A o \in Runs : st'[o].token = st[o].token
    BY <1>1, PlainRunEffect, PlainFinishEffect, UpdateStoreEffect, MemoryContextEffect
       DEF SameButReply, procVars, runVars
  <2>2. \A q \in Runs : /\ pc[q] = "loaded" => pc'[q] = "loaded"
                        /\ Begun(q) => Begun(q)'
                        /\ pc[q] \notin {"none", "spawned", "done"} =>
                             pc'[q] \notin {"none", "spawned", "done"}
    BY <1>1, PlainRunEffect, PlainFinishEffect, UpdateStoreEffect, MemoryContextEffect
       DEF Begun, runVars
  <2> QED BY <2>1, <2>2, MapStays
<1>2. ASSUME NEW m \in Messages, MessageUpdated(m) \/ MessageDeleted(m) PROVE MapInv'
  BY <1>2, UpdateEffect, DeleteEffect, MapStays DEF runVars, Begun
<1>3. ASSUME Quiet PROVE MapInv'
  BY <1>3, MapStays DEF Quiet, procVars, Begun
<1>4. ASSUME NEW r \in Runs, BeginLoad(r) PROVE MapInv'
  <2>1. PICK o : o = IF states[RunMsg[r]] = None THEN r ELSE states[RunMsg[r]]
    OBVIOUS
  <2>2. /\ pc[r] = "spawned" /\ pc' = [pc EXCEPT ![r] = "loaded"]
        /\ obj' = [obj EXCEPT ![r] = o]
        /\ states' = [states EXCEPT ![RunMsg[r]] = o]
        /\ UNCHANGED st /\ o \in Runs /\ RunMsg[r] \in Messages
    BY <1>4, <2>1, ProcessingAssumption DEF BeginLoad, Goto, IInv, StateInv
  <2>3. \A q \in Runs : q # r => obj'[q] = obj[q] /\ pc'[q] = pc[q]
    BY <2>2
  <2>4. \A p, t \in Runs : st'[p].token = t => Begun(t)' /\ obj'[t] = p
    <3> SUFFICES ASSUME NEW p \in Runs, NEW t \in Runs, t = st[p].token
                 PROVE  Begun(t)' /\ obj'[t] = p
      BY <2>2
    <3>1. Begun(t) /\ obj[t] = p
      BY DEF MapInv
    <3>2. t # r
      BY <2>2, <3>1 DEF Begun
    <3> QED BY <2>3, <3>1, <3>2 DEF Begun
  <2>5. ASSUME NEW m \in Messages, states'[m] # None
        PROVE  \E q \in Runs : RunMsg[q] = m /\ Keeper(q, states[m])'
    <3>1. CASE m = RunMsg[r]
      <4>1. Keeper(r, states[m])'
        BY <2>2, <3>1 DEF Keeper, IInv, TypeOK, RunTypes, ProcTypes
      <4> QED BY <3>1, <4>1
    <3>2. CASE m # RunMsg[r]
      <4>1. states'[m] = states[m]
        BY <2>2, <3>2
      <4>2. PICK q \in Runs : RunMsg[q] = m /\ Keeper(q, states[m])
        BY <2>5, <4>1 DEF MapInv
      <4>3. Keeper(q, states[m])'
        BY <2>2, <2>3, <3>2, <4>1, <4>2 DEF Keeper
      <4> QED BY <4>2, <4>3
    <3> QED BY <3>1, <3>2
  <2> QED BY <2>4, <2>5 DEF MapInv
<1>5. ASSUME NEW r \in Runs, BeginLock(r) PROVE MapInv'
  <2>1. /\ UNCHANGED <<states, obj>> /\ pc[r] = "loaded"
        /\ pc'[r] = "check" /\ \A q \in Runs : q # r => pc'[q] = pc[q]
        /\ obj[r] \in Runs /\ st'[obj[r]].token = r
        /\ \A o \in Runs : o # obj[r] => st'[o] = st[o]
    BY <1>5, BeginEffect DEF IInv, TypeOK, RunTypes
  <2>2. \A p, t \in Runs : st'[p].token = t => Begun(t)' /\ obj'[t] = p
    BY <2>1 DEF MapInv, Begun
  <2>3. ASSUME NEW m \in Messages, states'[m] # None
        PROVE  \E q \in Runs : RunMsg[q] = m /\ Keeper(q, states[m])'
    <3>1. states'[m] = states[m] /\ states[m] \in Runs /\ RunMsg[states[m]] = m
      BY <2>1, <2>3 DEF IInv, StateInv
    <3>2. CASE states[m] = obj[r]
      <4>1. RunMsg[r] = m
        BY <2>1, <3>1, <3>2, Bounded DEF Bound
      <4>2. Keeper(r, states[m])'
        BY <2>1, <3>2 DEF Keeper
      <4> QED BY <4>1, <4>2
    <3>3. CASE states[m] # obj[r]
      <4>1. PICK q \in Runs : RunMsg[q] = m /\ Keeper(q, states[m])
        BY <3>1, <2>3 DEF MapInv
      <4>2. q # r
        BY <3>3, <4>1 DEF Keeper
      <4>3. Keeper(q, states[m])'
        BY <2>1, <3>1, <3>3, <4>1, <4>2 DEF Keeper
      <4> QED BY <4>1, <4>3
    <3> QED BY <3>2, <3>3
  <2> QED BY <2>2, <2>3 DEF MapInv
<1>6. ASSUME NEW r \in Runs, ReleaseLock(r) PROVE MapInv'
  <2>1. /\ UNCHANGED <<states, obj>> /\ pc[r] = "release"
        /\ pc'[r] = IF st[obj[r]].token = r THEN "forget" ELSE "done"
        /\ \A q \in Runs : q # r => pc'[q] = pc[q]
        /\ \A o \in Runs : st'[o].token = st[o].token
    BY <1>6, ReleaseEffect DEF State, IInv, TypeOK, RunTypes
  <2>2. \A p, t \in Runs : st'[p].token = t => Begun(t)' /\ obj'[t] = p
    BY <2>1 DEF MapInv, Begun
  <2>3. ASSUME NEW m \in Messages, states'[m] # None
        PROVE  \E q \in Runs : RunMsg[q] = m /\ Keeper(q, states[m])'
    <3>1. states'[m] = states[m] /\ states[m] \in Runs
      BY <2>1, <2>3 DEF IInv, StateInv
    <3>2. PICK q \in Runs : RunMsg[q] = m /\ Keeper(q, states[m])
      BY <3>1, <2>3 DEF MapInv
    <3>3. Keeper(q, states[m])'
      BY <2>1, <3>1, <3>2 DEF Keeper
    <3> QED BY <3>2, <3>3
  <2> QED BY <2>2, <2>3 DEF MapInv
<1>7. ASSUME NEW r \in Runs, ReleaseForget(r) PROVE MapInv'
  <2>1. /\ UNCHANGED <<st, obj>> /\ pc[r] = "forget" /\ pc'[r] = "done"
        /\ \A q \in Runs : q # r => pc'[q] = pc[q]
        /\ RunMsg[r] \in Messages
        /\ states'[RunMsg[r]] = IF states[RunMsg[r]] = obj[r] THEN None ELSE states[RunMsg[r]]
        /\ \A m \in Messages : m # RunMsg[r] => states'[m] = states[m]
    BY <1>7, ProcessingAssumption DEF ReleaseForget, Forgotten, Goto, IInv, TypeOK, RunTypes, ProcTypes
  <2>2. \A p, t \in Runs : st'[p].token = t => Begun(t)' /\ obj'[t] = p
    BY <2>1 DEF MapInv, Begun
  <2>3. ASSUME NEW m \in Messages, states'[m] # None
        PROVE  \E q \in Runs : RunMsg[q] = m /\ Keeper(q, states[m])'
    <3>1. states'[m] = states[m]
      BY <2>1, <2>3
    <3>2. PICK q \in Runs : RunMsg[q] = m /\ Keeper(q, states[m])
      BY <3>1, <2>3 DEF MapInv
    <3>3. q # r
      BY <2>1, <2>3, <3>1, <3>2 DEF Keeper
    <3>4. Keeper(q, states[m])'
      BY <2>1, <3>1, <3>2, <3>3 DEF Keeper
    <3> QED BY <3>2, <3>4
  <2> QED BY <2>2, <2>3 DEF MapInv
<1> QED BY <1>1, <1>2, <1>3, <1>4, <1>5, <1>6, <1>7, Cases DEF Unlocked

LEMMA TextTaken ==
  ASSUME IInv, NEW r \in Runs, PlainRun(r)
  PROVE  /\ HasText(r)' => \/ msg'[r] = msg[r] /\ HasText(r)
                           \/ msg'[r] = State(r).message /\ pc[r] = "top"
         /\ arg'[r] = arg[r] \/ pc[r] = "none"
         /\ pc[r] = "none" => arg'[r] = version[RunMsg[r]]
<1>1. CASE Top(r)
  BY <1>1 DEF Top, Goto, HasText, TextPCs, IInv, TypeOK, RunTypes
<1>2. CASE NewMessage(r)
  BY <1>2 DEF NewMessage, Goto, HasText, TextPCs, IInv, TypeOK, RunTypes
<1>3. CASE ~Top(r) /\ ~NewMessage(r)
  BY <1>3 DEF PlainRun, Check, SubmitPrepare, AbandonPrepare, AwaitPrepare,
     ReplyContext, Decide, DecideFailed, Decided, Clear, Send, Sent, Spawn, Goto, HasText, TextPCs,
     IInv, TypeOK, RunTypes
<1> QED BY <1>1, <1>2, <1>3

LEMMA GivenStep == ASSUME IInv, BackgroundInv, GivenInv, [Next]_vars PROVE GivenInv'
<1> USE DEF GivenInv
<1> DEFINE Texts(r) == /\ pc[r] # "none" => arg[r] \in Nat /\ arg[r] <= version[RunMsg[r]]
                       /\ Begun(r) => State(r).message \in Nat
                       /\ HasText(r) => msg[r] \in Nat
                       /\ fpc[r] \in {"context", "update"} => fmsg[r] \in Nat
<1> SUFFICES ASSUME NEW r \in Runs PROVE Texts(r)'
  BY DEF Texts
<1>0. /\ version \in [Messages -> Nat] /\ RunMsg[r] \in Messages /\ Texts(r)
      /\ Begun(r) => obj[r] \in Runs
      /\ fpc[r] # "none" => Begun(r)
  BY Bounded, ProcessingAssumption DEF IInv, TypeOK, ChatTypes, Texts, BackgroundInv, Begun
<1> HIDE DEF GivenInv
<1>1. ASSUME NEW q \in Runs, PlainRun(q) PROVE Texts(r)'
  <2>1. /\ UNCHANGED <<version, obj, fmsg>> /\ SameButReply
    BY <1>1, PlainRunEffect DEF chatVars
  <2>2. CASE q # r
    BY <1>0, <1>1, <2>1, <2>2, PlainRunEffect DEF SameButReply, Begun, HasText, State
  <2>3. CASE q = r
    <3>1. pc'[r] # "none" => arg'[r] \in Nat /\ arg'[r] <= version[RunMsg[r]]
      BY <1>0, <1>1, <2>3, TextTaken
    <3>2. Begun(r)' => Begun(r)
      BY <1>1, <2>3, PlainRunEffect DEF Begun
    <3>3. Begun(r)' => State(r)'.message = State(r).message
      BY <1>0, <2>1, <3>2 DEF SameButReply, State
    <3>4. HasText(r)' => msg'[r] \in Nat
      BY <1>0, <1>1, <2>3, TextTaken DEF Begun
    <3>5. fpc'[r] \notin {"context", "update"}
      BY <1>1, <2>3, SpawnedThen, PlainRunEffect DEF BackgroundInv
    <3> QED BY <1>0, <2>1, <3>1, <3>2, <3>3, <3>4, <3>5
  <2> QED BY <2>2, <2>3
<1>2. ASSUME NEW q \in Runs, PlainFinish(q) PROVE Texts(r)'
  <2>1. UNCHANGED <<version, pc, arg, obj, msg, st>>
    BY <1>2, PlainFinishEffect DEF chatVars, procVars, runVars
  <2>2. fpc'[r] \in {"context", "update"} => fmsg'[r] \in Nat
    BY <1>0, <1>2, PlainFinishEffect
  <2> QED BY <1>0, <2>1, <2>2 DEF Begun, HasText, State
<1>3. ASSUME NEW q \in Runs, Unlocked(q) PROVE Texts(r)'
  <2>1. /\ UNCHANGED <<version, arg, msg, st, fpc, fmsg>>
        /\ (Begun(r)' => Begun(r) /\ obj'[r] = obj[r])
        /\ (HasText(r)' => HasText(r))
    BY <1>3, UnlockedEffect DEF chatVars, finVars, Begun, HasText, TextPCs
  <2>2. pc'[r] # "none" => pc[r] # "none"
    BY <1>3, UnlockedEffect
  <2> QED BY <1>0, <2>1, <2>2 DEF State
<1>4. ASSUME NEW q \in Runs, BeginLock(q) PROVE Texts(r)'
  <2>1. /\ UNCHANGED <<version, arg, obj, msg, fpc, fmsg>>
        /\ pc[q] = "loaded" /\ pc' = [pc EXCEPT ![q] = "check"] /\ pc \in [Runs -> PCs]
        /\ obj[q] \in Runs /\ st'[obj[q]].message = arg[q] /\ arg[q] \in Nat
        /\ \A o \in Runs : o # obj[q] => st'[o] = st[o]
    BY <1>4, BeginEffect DEF chatVars, finVars, IInv, TypeOK, RunTypes, GivenInv
  <2>2. /\ HasText(r)' => HasText(r)
        /\ pc'[r] # "none" => pc[r] # "none"
        /\ Begun(r)' => Begun(r) \/ r = q
    BY <2>1 DEF HasText, TextPCs, Begun
  <2>3. Begun(r)' => State(r)'.message \in Nat
    BY <1>0, <2>1, <2>2 DEF State
  <2> QED BY <1>0, <2>1, <2>2, <2>3
<1>5. ASSUME NEW q \in Runs, ReleaseLock(q) PROVE Texts(r)'
  <2>1. /\ UNCHANGED <<version, arg, obj, msg, fpc, fmsg>>
        /\ pc[q] = "release" /\ pc'[q] \in {"forget", "done"}
        /\ \A p \in Runs : p # q => pc'[p] = pc[p]
        /\ \A o \in Runs : st'[o].message = st[o].message
    BY <1>5, ReleaseEffect DEF chatVars, finVars, IInv, TypeOK, RunTypes
  <2>2. /\ HasText(r)' => HasText(r)
        /\ pc'[r] # "none" => pc[r] # "none"
        /\ Begun(r)' => Begun(r)
    BY <2>1 DEF HasText, TextPCs, Begun
  <2> QED BY <1>0, <2>1, <2>2 DEF State
<1>6. ASSUME NEW q \in Runs, MemoryContext(q) \/ UpdateStore(q) PROVE Texts(r)'
  <2>1. /\ UNCHANGED <<version, pc, arg, obj, msg, fmsg>>
        /\ \A o \in Runs : st'[o].message = st[o].message
        /\ fpc'[r] \in {"context", "update"} => fpc[r] \in {"context", "update"}
    BY <1>6, MemoryContextEffect, UpdateStoreEffect DEF chatVars, procVars, runVars, IInv, TypeOK, FinTypes
  <2> QED BY <1>0, <2>1 DEF Begun, HasText, State
<1>7. ASSUME NEW m \in Messages, MessageUpdated(m) \/ MessageDeleted(m) PROVE Texts(r)'
  <2>1. /\ UNCHANGED <<pc, arg, obj, msg, fpc, fmsg>>
    BY <1>7, UpdateEffect, DeleteEffect DEF runVars, finVars, MessageDeleted
  <2>2. version[RunMsg[r]] <= version'[RunMsg[r]] /\ version'[RunMsg[r]] \in Nat
    BY <1>0, <1>7, UpdateEffect, DeleteEffect
  <2>3. Begun(r) => st'[obj[r]].message \in Nat
    <3>1. ASSUME MessageUpdated(m), Begun(r) PROVE st'[obj[r]].message \in Nat
      <4>1. RunMsg[obj[r]] = RunMsg[r]
        BY <3>1, Bounded
      <4> QED BY <1>0, <2>2, <3>1, <4>1, UpdateEffect DEF State
    <3>2. ASSUME MessageDeleted(m), Begun(r) PROVE st'[obj[r]].message \in Nat
      BY <1>0, <3>2, DeleteEffect DEF State
    <3> QED BY <1>7, <3>1, <3>2
  <2>4. pc'[r] # "none" => arg'[r] \in Nat /\ arg'[r] <= version'[RunMsg[r]]
    BY <1>0, <2>1, <2>2
  <2> QED BY <1>0, <2>1, <2>3, <2>4 DEF Begun, HasText, State
<1>8. ASSUME Quiet PROVE Texts(r)'
  BY <1>0, <1>8 DEF Quiet, chatVars, procVars, Begun, HasText, State
<1> QED BY <1>1, <1>2, <1>3, <1>4, <1>5, <1>6, <1>7, <1>8, Cases

LEMMA SInit == Init => SInv
<1> SUFFICES ASSUME Init PROVE SInv
  OBVIOUS
<1>1. LaneInv
  BY DEF Init, LaneInv, Waiting, Executed, LaneNames
<1>2. BackgroundInv /\ DeletedInv /\ MapInv /\ GivenInv
  BY ProcessingAssumption
     DEF Init, BackgroundInv, DeletedInv, MapInv, GivenInv, NewState, HasText, TextPCs, Begun
<1> QED BY <1>1, <1>2, InitIInv DEF SInv

LEMMA SStep == SInv /\ [Next]_vars => SInv'
BY NextIInv, LaneStep, BackgroundStep, DeletedStep, MapStep, GivenStep DEF SInv

LEMMA SAlways == Spec => []SInv
BY SInit, SStep, PTL DEF Spec

(* Whatever goes wrong, when all is done no state is left in the           *)
(* processor's map: the run whose token a state has takes it out, and      *)
(* every state in the map has such a run, or one that will be it.          *)
THEOREM ProcessingStatesForgotten == Spec => []StatesForgotten
<1>1. MapInv => StatesForgotten
  <2>1. Quiescent => \A r \in Runs : pc[r] \in {"none", "done"}
    BY DEF Quiescent
  <2> QED BY <2>1 DEF MapInv, Keeper, StatesForgotten
<1>2. SInv => MapInv
  BY DEF SInv
<1> QED BY <1>1, <1>2, SAlways, PTL

----------------------------------------------------------------------------
(* Who writes the store. *)

(* A message is written by the prepare job a live run waits for, by the    *)
(* background update of a run under a live context, or is removed.         *)
PrepareWrites(r) ==
  /\ pc[r] = "await" /\ ~RunDead(r)
  /\ stored' = [stored EXCEPT ![RunMsg[r]] = msg[r]]
  /\ Quiet /\ UNCHANGED dpc

UpdateWrites(r) ==
  /\ UpdateStore(r) /\ ~MemoryDead(r)
  /\ stored' = [stored EXCEPT ![RunMsg[r]] = fmsg[r]]

LEMMA StoredEffect ==
  ASSUME SInv, [Next]_vars
  PROVE  \/ stored' = stored
         \/ \E r \in Runs : PrepareWrites(r) \/ UpdateWrites(r)
         \/ \E m \in Messages : DeleteRemove(m)
<1> USE DEF SInv
<1>1. ASSUME NEW r \in Runs,
             PlainRun(r) \/ PlainFinish(r) \/ Unlocked(r) \/ BeginLock(r) \/ ReleaseLock(r) \/ MemoryContext(r)
      PROVE  stored' = stored
  BY <1>1, PlainRunEffect, PlainFinishEffect, UnlockedEffect, BeginEffect, ReleaseEffect, MemoryContextEffect
     DEF storeVars
<1>2. ASSUME NEW r \in Runs, UpdateStore(r) PROVE stored' = stored \/ UpdateWrites(r)
  BY <1>2, UpdateStoreEffect DEF UpdateWrites
<1>3. ASSUME NEW m \in Messages, MessageUpdated(m) \/ MessageDeleted(m) PROVE stored' = stored
  BY <1>3, UpdateEffect, DeleteEffect DEF storeVars
<1>4. ASSUME NEW m \in Messages, DeleteStep(m) PROVE stored' = stored \/ DeleteRemove(m)
  BY <1>4 DEF DeleteStep, DeleteSubmit, StartDelete, DeleteFail, DeletePatch, storeVars
<1>5. ASSUME NEW j \in RunJobs, FinishPrepare(j), stored' # stored
      PROVE  \E r \in Runs : PrepareWrites(r)
  <2>1. j \in Executed
    BY <1>5 DEF FinishPrepare, Lane!Finish, Executed
  <2>2. /\ ~RunDead(j[2])
        /\ stored' = [stored EXCEPT ![RunMsg[j[2]]] = msg[j[2]]]
        /\ UNCHANGED dpc
    BY <1>5 DEF FinishPrepare, MayWrite
  <2>3. j[2] \in Runs /\ pc[j[2]] = "await"
    BY <2>1, <2>2 DEF LaneInv, Expected, Awaited, RunDead
  <2>4. Quiet
    BY <1>5, QuietSteps
  <2> QED BY <2>2, <2>3, <2>4 DEF PrepareWrites
<1>6. ASSUME NEW j \in RunJobs, StartPrepare(j) \/ SkipPrepare(j) PROVE stored' = stored
  BY <1>6 DEF StartPrepare, SkipPrepare, storeVars
<1>7. ASSUME Idle \/ UNCHANGED vars PROVE stored' = stored
  BY <1>7 DEF Idle, vars, storeVars
<1> QED BY <1>1, <1>2, <1>3, <1>4, <1>5, <1>6, <1>7
        DEF Next, RunStep, FinishStep, PrepareStep, PlainRun, PlainFinish, Unlocked

----------------------------------------------------------------------------
(* One start per message: every run has a state of its own. *)

OneStart == \A r, q \in Runs : RunMsg[r] = RunMsg[q] => r = q

LEMMA OwnState ==
  ASSUME OneStart, IInv, NEW r \in Runs, Bound(r) \/ Begun(r) \/ Working(r) \/ HasText(r) \/ fpc[r] # "none"
  PROVE  obj[r] = r /\ State(r) = st[r]
BY Bounded DEF OneStart, State

(* A deleted state lets nobody write: its run is cancelled, and no         *)
(* background update is the one it would cancel.                           *)
LEMMA DeletedIsNotWritten ==
  ASSUME OneStart, SInv, NEW o \in Runs, st[o].deleted, NEW r \in Runs,
         PrepareWrites(r) \/ UpdateWrites(r)
  PROVE  RunMsg[r] # RunMsg[o]
<1> SUFFICES ASSUME r = o PROVE FALSE
  BY DEF OneStart
<1>1. CASE PrepareWrites(o)
  <2>1. Working(o) /\ o \notin runCtx
    BY <1>1 DEF PrepareWrites, Working, Begun, RunDead
  <2>2. st[o].runCancel = o
    BY <2>1, OwnState DEF SInv, IInv, OneLiveRun, RunDead
  <2> QED BY <2>1, <2>2, ProcessingAssumption DEF SInv, DeletedInv
<1>2. CASE UpdateWrites(o)
  <2>1. fpc[o] = "update" /\ ~MemoryDead(o)
    BY <1>2, UpdateStoreEffect DEF UpdateWrites, SInv
  <2>2. st[o].memoryCancel = o
    BY <2>1, OwnState DEF SInv, BackgroundInv
  <2> QED BY <2>2, ProcessingAssumption DEF SInv, DeletedInv
<1> QED BY <1>1, <1>2

LEMMA DeletionSticksStep ==
  ASSUME OneStart, SInv, DeletionSticks, [Next]_vars
  PROVE  DeletionSticks'
<1> SUFFICES ASSUME NEW o \in Runs, st'[o].deleted, dpc'[RunMsg[o]] \in {"patch", "done"}
             PROVE  stored'[RunMsg[o]] = None
  BY DEF DeletionSticks
<1> DEFINE m == RunMsg[o]
<1>1. m \in Messages /\ stored \in [Messages -> Nat \cup {None}]
      /\ dpc \in [Messages -> {"none", "spawned", "queued", "remove", "patch", "done", "failed"}]
  BY ProcessingAssumption DEF SInv, IInv, TypeOK, StoreTypes
<1>2. CASE DeleteRemove(m)
  BY <1>1, <1>2 DEF DeleteRemove
<1>3. CASE ~DeleteRemove(m)
  <2>1. dpc[m] \in {"patch", "done"}
    <3>1. ASSUME NEW n \in Messages, DeleteStep(n) PROVE dpc[m] \in {"patch", "done"}
      BY <1>1, <1>3, <3>1 DEF DeleteStep, DeleteSubmit, StartDelete, DeleteRemove, DeleteFail, DeletePatch
    <3>2. ASSUME NEW n \in Messages, MessageDeleted(n) PROVE dpc[m] \in {"patch", "done"}
      BY <1>1, <3>2, DeleteEffect DEF SInv
    <3>3. CASE dpc' = dpc
      BY <3>3
    <3>4. \/ \E n \in Messages : DeleteStep(n) \/ MessageDeleted(n)
          \/ dpc' = dpc
      BY DEF Next, RunStep, FinishStep, PrepareStep, NewMessage, BeginLoad, BeginLock, ReleaseLock,
         ReleaseForget, Check, Top, SubmitPrepare, AbandonPrepare, AwaitPrepare, ReplyContext, Decide,
         DecideFailed, Decided, Clear, Send, Sent, Spawn, StartPrepare, SkipPrepare, FinishPrepare,
         FinishSnapshot, FinishSubmit, FinishAbandon, StartFinish, SkipFinish, FinishAttempt,
         MemoryContext, UpdateStore, Patch, FinishFailed, FinishCheck, StoreReply, MessageUpdated,
         Idle, vars
    <3> QED BY <3>1, <3>2, <3>3, <3>4
  <2>2. st[o].deleted
    <3>1. ASSUME NEW r \in Runs, PlainRun(r) \/ PlainFinish(r) \/ Unlocked(r) \/ UpdateStore(r)
          PROVE  st'[o].deleted = st[o].deleted
      BY <3>1, PlainRunEffect, PlainFinishEffect, UnlockedEffect, UpdateStoreEffect
         DEF SInv, SameButReply, procVars
    <3>2. ASSUME NEW r \in Runs, BeginLock(r) \/ ReleaseLock(r) \/ MemoryContext(r)
          PROVE  st[o].deleted
      BY <3>2, BeginEffect, ReleaseEffect, MemoryContextEffect DEF SInv
    <3>3. ASSUME NEW n \in Messages, MessageUpdated(n) PROVE st[o].deleted
      BY <3>3, UpdateEffect DEF SInv
    <3>4. ASSUME NEW n \in Messages, MessageDeleted(n) PROVE st[o].deleted
      BY <1>1, <3>4, DeleteEffect DEF SInv
    <3>5. ASSUME Quiet PROVE st[o].deleted
      BY <3>5 DEF Quiet, procVars
    <3> QED BY <3>1, <3>2, <3>3, <3>4, <3>5, Cases DEF SInv
  <2>3. stored[m] = None
    BY <2>1, <2>2 DEF DeletionSticks
  <2>4. ASSUME NEW r \in Runs, PrepareWrites(r) \/ UpdateWrites(r) PROVE stored'[m] = stored[m]
    <3>1. RunMsg[r] # m
      BY <2>2, <2>4, DeletedIsNotWritten
    <3> QED BY <1>1, <2>4, <3>1 DEF PrepareWrites, UpdateWrites
  <2>5. ASSUME NEW n \in Messages, DeleteRemove(n) PROVE stored'[m] = None
    BY <1>1, <2>3, <2>5 DEF DeleteRemove
  <2> QED BY <2>3, <2>4, <2>5, StoredEffect
<1> QED BY <1>2, <1>3

(* With one start per message, a deletion that found the message under     *)
(* way removes it for good, whatever fails and in whatever order the run,  *)
(* its background update and the deletion take their steps.                *)
THEOREM ProcessingDeletionSticks ==
  ASSUME OneStart
  PROVE  Spec => []DeletionSticks
<1>1. Init => DeletionSticks
  BY ProcessingAssumption DEF Init, DeletionSticks, NewState
<1>2. SInv /\ DeletionSticks /\ [Next]_vars => DeletionSticks'
  BY DeletionSticksStep
<1> QED BY <1>1, <1>2, SAlways, PTL DEF Spec

(* The texts of a message on their way: what is stored is no newer than    *)
(* what a run or its background update is about to write, and that no      *)
(* newer than what the state says.                                         *)
NotNewer(s, t) == s # None => s <= t

ForwardInv ==
  \A r \in Runs :
    LET s == stored[RunMsg[r]]
    IN  /\ ~Begun(r) => s = None
        /\ Begun(r) => NotNewer(s, st[r].message) /\ st[r].message <= version[RunMsg[r]]
        /\ HasText(r) => NotNewer(s, msg[r]) /\ msg[r] <= st[r].message
        /\ fpc[r] \in {"context", "update"} => NotNewer(s, fmsg[r]) /\ fmsg[r] <= st[r].message

(* The texts are numbers where they are compared. *)
LEMMA Numbers ==
  ASSUME OneStart, SInv, NEW r \in Runs
  PROVE  /\ RunMsg[r] \in Messages /\ version[RunMsg[r]] \in Nat
         /\ stored[RunMsg[r]] \in Nat \cup {None} /\ None \notin Nat
         /\ Begun(r) => st[r].message \in Nat /\ obj[r] = r /\ State(r) = st[r]
         /\ HasText(r) => msg[r] \in Nat /\ Begun(r)
         /\ fpc[r] \in {"context", "update"} => fmsg[r] \in Nat
         /\ fpc[r] # "none" => Begun(r) /\ ~HasText(r)
BY OwnState, ProcessingAssumption
   DEF SInv, IInv, TypeOK, ChatTypes, StoreTypes, GivenInv, BackgroundInv, Begun, HasText, TextPCs

LEMMA ForwardWrites ==
  ASSUME OneStart, SInv, ForwardInv, NEW q \in Runs, PrepareWrites(q) \/ UpdateWrites(q)
  PROVE  /\ ForwardInv'
         /\ stored[RunMsg[q]] # None => stored'[RunMsg[q]] >= stored[RunMsg[q]]
         /\ \A m \in Messages : m # RunMsg[q] => stored'[m] = stored[m]
<1> DEFINE m == RunMsg[q]
           w == IF PrepareWrites(q) THEN msg[q] ELSE fmsg[q]
<1>1. /\ UNCHANGED <<pc, st, version, msg, fmsg>>
      /\ \A r \in Runs : fpc'[r] \in {"context", "update"} => fpc'[r] = fpc[r]
  BY UpdateStoreEffect DEF PrepareWrites, UpdateWrites, Quiet, chatVars, procVars, runVars, SInv
<1>2. stored' = [stored EXCEPT ![m] = w] /\ stored \in [Messages -> Nat \cup {None}] /\ m \in Messages
  BY ProcessingAssumption DEF PrepareWrites, UpdateWrites, SInv, IInv, TypeOK, StoreTypes
<1>3. /\ w \in Nat /\ Begun(q) /\ w <= st[q].message /\ NotNewer(stored[m], w)
      /\ HasText(q) => w = msg[q]
      /\ fpc'[q] \in {"context", "update"} => w = fmsg[q]
  <2>1. CASE PrepareWrites(q)
    <3>1. pc[q] = "await" /\ fpc'[q] = fpc[q]
      BY <2>1 DEF PrepareWrites, Quiet
    <3>2. HasText(q) /\ fpc[q] = "none"
      BY <3>1 DEF HasText, TextPCs, SInv, BackgroundInv
    <3> QED BY <2>1, <3>1, <3>2, Numbers DEF ForwardInv
  <2>2. CASE ~PrepareWrites(q)
    <3>1. fpc[q] = "update"
      BY <2>2, UpdateStoreEffect DEF UpdateWrites, SInv
    <3> QED BY <2>2, <3>1, Numbers DEF ForwardInv
  <2> QED BY <2>1, <2>2
<1> HIDE DEF w
<1>4. ASSUME NEW r \in Runs, r # q PROVE stored'[RunMsg[r]] = stored[RunMsg[r]]
  BY <1>2, <1>4, ProcessingAssumption DEF OneStart
<1>5. stored'[m] = w
  BY <1>2
<1>6. ForwardInv'
  <2> SUFFICES ASSUME NEW r \in Runs
               PROVE  LET s == stored[RunMsg[r]]
                      IN  (/\ ~Begun(r) => s = None
                           /\ Begun(r) => NotNewer(s, st[r].message) /\ st[r].message <= version[RunMsg[r]]
                           /\ HasText(r) => NotNewer(s, msg[r]) /\ msg[r] <= st[r].message
                           /\ fpc[r] \in {"context", "update"} =>
                                NotNewer(s, fmsg[r]) /\ fmsg[r] <= st[r].message)'
    BY DEF ForwardInv
  <2>1. CASE r # q
    BY <1>1, <1>4, <2>1 DEF ForwardInv, Begun, HasText, NotNewer
  <2>2. CASE r = q
    BY <1>1, <1>3, <1>5, <2>2, Numbers DEF ForwardInv, Begun, HasText, NotNewer
  <2> QED BY <2>1, <2>2
<1>7. stored[m] # None => stored'[m] >= stored[m]
  BY <1>3, <1>5, Numbers DEF NotNewer
<1>8. \A n \in Messages : n # m => stored'[n] = stored[n]
  BY <1>2
<1> QED BY <1>6, <1>7, <1>8

(* The rest writes nothing but texts on their way. *)
LEMMA ForwardStays ==
  ASSUME OneStart, SInv, ForwardInv, [Next]_vars, stored' = stored
  PROVE  ForwardInv'
<1> DEFINE Ahead(r) ==
             LET s == stored[RunMsg[r]]
             IN  /\ ~Begun(r) => s = None
                 /\ Begun(r) => NotNewer(s, st[r].message) /\ st[r].message <= version[RunMsg[r]]
                 /\ HasText(r) => NotNewer(s, msg[r]) /\ msg[r] <= st[r].message
                 /\ fpc[r] \in {"context", "update"} => NotNewer(s, fmsg[r]) /\ fmsg[r] <= st[r].message
<1> SUFFICES ASSUME NEW r \in Runs PROVE Ahead(r)'
  BY DEF ForwardInv
<1>0. /\ Ahead(r) /\ SInv /\ IInv
      /\ RunMsg[r] \in Messages /\ version[RunMsg[r]] \in Nat
      /\ stored[RunMsg[r]] \in Nat \cup {None} /\ None \notin Nat
      /\ Begun(r) => st[r].message \in Nat /\ obj[r] = r /\ State(r) = st[r]
      /\ HasText(r) => msg[r] \in Nat /\ Begun(r)
      /\ fpc[r] \in {"context", "update"} => fmsg[r] \in Nat
      /\ fpc[r] # "none" => Begun(r) /\ ~HasText(r)
  BY Numbers DEF ForwardInv, SInv
<1>1. ASSUME NEW q \in Runs, PlainRun(q) PROVE Ahead(r)'
  <2>1. UNCHANGED <<version, fmsg>> /\ st'[r].message = st[r].message
    BY <1>0, <1>1, PlainRunEffect DEF SameButReply, chatVars
  <2>2. Begun(r)' <=> Begun(r)
    BY <1>0, <1>1, PlainRunEffect DEF Begun
  <2>3. fpc'[r] \in {"context", "update"} => fpc'[r] = fpc[r]
    BY <1>0, <1>1, PlainRunEffect, SpawnedThen
  <2>4. HasText(r)' => \/ msg'[r] = msg[r] /\ HasText(r)
                       \/ Begun(r) /\ msg'[r] = State(r).message
    BY <1>0, <1>1, PlainRunEffect, TextTaken DEF HasText, Begun
  <2> QED BY <1>0, <2>1, <2>2, <2>3, <2>4 DEF NotNewer
<1>2. ASSUME NEW q \in Runs, PlainFinish(q) PROVE Ahead(r)'
  <2>1. UNCHANGED <<version, pc, msg, st>>
    BY <1>0, <1>2, PlainFinishEffect DEF chatVars, procVars, runVars
  <2>2. fpc'[r] \in {"context", "update"} =>
          \/ fpc[r] \in {"context", "update"} /\ fmsg'[r] = fmsg[r]
          \/ Begun(r) /\ fmsg'[r] = State(r).message
    <3>1. CASE q # r
      BY <1>0, <1>2, <3>1, PlainFinishEffect
    <3>2. CASE q = r
      BY <1>0, <1>2, <3>2, PlainFinishEffect
    <3> QED BY <3>1, <3>2
  <2> QED BY <1>0, <2>1, <2>2 DEF NotNewer, Begun, HasText
<1>3. ASSUME NEW q \in Runs, Unlocked(q) PROVE Ahead(r)'
  <2>1. /\ UNCHANGED <<version, msg, st, fpc, fmsg>>
        /\ Begun(r)' <=> Begun(r)
        /\ (HasText(r)' <=> HasText(r))
    BY <1>0, <1>3, UnlockedEffect DEF chatVars, finVars, Begun, HasText, TextPCs
  <2> QED BY <1>0, <2>1
<1>4. ASSUME NEW q \in Runs, BeginLock(q) PROVE Ahead(r)'
  <2>1. /\ UNCHANGED <<version, msg, fpc, fmsg>>
        /\ pc[q] = "loaded" /\ pc' = [pc EXCEPT ![q] = "check"] /\ pc \in [Runs -> PCs]
        /\ st'[obj[q]].message = arg[q] /\ arg[q] \in Nat /\ arg[q] <= version[RunMsg[q]]
        /\ \A o \in Runs : o # obj[q] => st'[o] = st[o]
    BY <1>0, <1>4, BeginEffect DEF chatVars, finVars, IInv, TypeOK, RunTypes, SInv, GivenInv
  <2>2. obj[q] = q
    BY <1>0, <2>1, OwnState DEF Bound
  <2>3. CASE r = q
    <3>1. stored[RunMsg[r]] = None /\ ~HasText(r)' /\ fpc[r] = "none"
      BY <1>0, <2>1, <2>3 DEF Begun, HasText, TextPCs
    <3> QED BY <1>0, <2>1, <2>2, <2>3, <3>1 DEF NotNewer, Begun
  <2>4. CASE r # q
    BY <1>0, <2>1, <2>2, <2>4 DEF Begun, HasText
  <2> QED BY <2>3, <2>4
<1>5. ASSUME NEW q \in Runs, ReleaseLock(q) PROVE Ahead(r)'
  <2>1. /\ UNCHANGED <<version, msg, fpc, fmsg>>
        /\ pc[q] = "release" /\ pc'[q] \in {"forget", "done"}
        /\ \A p \in Runs : p # q => pc'[p] = pc[p]
        /\ \A o \in Runs : st'[o].message = st[o].message
    BY <1>0, <1>5, ReleaseEffect DEF chatVars, finVars, IInv, TypeOK, RunTypes
  <2>2. (Begun(r)' <=> Begun(r)) /\ (HasText(r)' <=> HasText(r))
    BY <2>1 DEF HasText, TextPCs, Begun
  <2> QED BY <1>0, <2>1, <2>2
<1>6. ASSUME NEW q \in Runs, MemoryContext(q) \/ UpdateStore(q) PROVE Ahead(r)'
  <2>1. /\ UNCHANGED <<version, pc, msg, fmsg>>
        /\ \A o \in Runs : st'[o].message = st[o].message
        /\ fpc'[r] \in {"context", "update"} => fpc[r] \in {"context", "update"}
    BY <1>0, <1>6, MemoryContextEffect, UpdateStoreEffect
       DEF chatVars, procVars, runVars, IInv, TypeOK, FinTypes
  <2> QED BY <1>0, <2>1 DEF Begun, HasText
<1>7. ASSUME NEW m \in Messages, MessageUpdated(m) \/ MessageDeleted(m) PROVE Ahead(r)'
  <2>1. UNCHANGED <<pc, msg, fpc, fmsg>>
    BY <1>0, <1>7, UpdateEffect, DeleteEffect DEF runVars, finVars, MessageDeleted
  <2>2. /\ version'[RunMsg[r]] \in Nat /\ version[RunMsg[r]] <= version'[RunMsg[r]]
        /\ st'[r].message = st[r].message \/ st'[r].message = version'[RunMsg[r]]
    BY <1>0, <1>7, UpdateEffect, DeleteEffect
  <2> QED BY <1>0, <2>1, <2>2 DEF Begun, HasText, NotNewer
<1>8. ASSUME Quiet PROVE Ahead(r)'
  BY <1>0, <1>8 DEF Quiet, chatVars, procVars, Begun, HasText
<1> QED BY <1>0, <1>1, <1>2, <1>3, <1>4, <1>5, <1>6, <1>7, <1>8, Cases

LEMMA ForwardStep ==
  ASSUME OneStart, SInv, ForwardInv, [Next]_vars
  PROVE  /\ ForwardInv'
         /\ \A m \in Messages : stored[m] # None /\ stored'[m] # None => stored'[m] >= stored[m]
<1>1. stored \in [Messages -> Nat \cup {None}] /\ None \notin Nat
  BY ProcessingAssumption DEF SInv, IInv, TypeOK, StoreTypes
<1>2. CASE stored' = stored
  BY <1>1, <1>2, ForwardStays
<1>3. ASSUME NEW q \in Runs, PrepareWrites(q) \/ UpdateWrites(q)
      PROVE  /\ ForwardInv'
             /\ \A m \in Messages : stored[m] # None /\ stored'[m] # None => stored'[m] >= stored[m]
  BY <1>1, <1>3, ForwardWrites
<1>4. ASSUME NEW n \in Messages, DeleteRemove(n)
      PROVE  /\ ForwardInv'
             /\ \A m \in Messages : stored[m] # None /\ stored'[m] # None => stored'[m] >= stored[m]
  <2>1. /\ \A m \in Messages : stored'[m] = stored[m] \/ stored'[m] = None
        /\ UNCHANGED <<chatVars, procVars, runVars, finVars>>
    BY <1>1, <1>4 DEF DeleteRemove
  <2>2. ForwardInv'
    BY <2>1, ProcessingAssumption
       DEF ForwardInv, NotNewer, Begun, HasText, chatVars, procVars, runVars, finVars
  <2> QED BY <1>1, <2>1, <2>2
<1> QED BY <1>2, <1>3, <1>4, StoredEffect

(* With one start per message, the stored text never goes back to an older *)
(* version: the attempts to prepare, their repetitions and the background  *)
(* update write in the order of the edits.                                 *)
THEOREM ProcessingStoredMovesForward ==
  ASSUME OneStart
  PROVE  Spec => StoredMovesForward
<1>1. Init => ForwardInv
  BY ProcessingAssumption DEF Init, ForwardInv, Begun, HasText, TextPCs
<1>2. SInv /\ ForwardInv /\ [Next]_vars =>
        /\ ForwardInv'
        /\ \A m \in Messages : stored[m] # None /\ stored'[m] # None => stored'[m] >= stored[m]
  BY ForwardStep
<1> QED BY <1>1, <1>2, SAlways, PTL DEF Spec, StoredMovesForward

----------------------------------------------------------------------------
(* Without failures of the prepare jobs, nothing is forgotten. *)

(* A run that will still store its message, if nobody cancels it. *)
WillStore(q) ==
  \/ pc[q] \in {"spawned", "loaded"}
  \/ pc[q] \in {"check", "top", "submit", "await"} /\ ~RunDead(q)

(* A prepare job fails only when its run is cancelled, and a run is        *)
(* cancelled only by a deletion or by one that will store the message      *)
(* itself.                                                                 *)
RememberInv ==
  /\ \A r \in runCtx : Begun(r)
  /\ \A r \in Runs : prep[r] = "err" => RunDead(r)
  /\ \A r \in Runs : prep[r] = "ok" => stored[RunMsg[r]] # None \/ gone[RunMsg[r]]
  /\ \A m \in Messages :
       Announced(m) => \/ gone[m]
                       \/ stored[m] # None
                       \/ \E q \in Runs : RunMsg[q] = m /\ WillStore(q)

LEMMA PrepEffect ==
  ASSUME SInv, "prepare" \notin Faults, [Next]_vars, NEW r \in Runs
  PROVE  \/ prep'[r] \in {prep[r], "none"}
         \/ prep'[r] = "err" /\ RunDead(r)
         \/ prep'[r] = "ok" /\ PrepareWrites(r)
<1> USE DEF SInv, IInv, TypeOK, RunTypes
<1>1. ASSUME NEW q \in Runs, SubmitPrepare(q) PROVE prep'[r] \in {prep[r], "none"}
  BY <1>1 DEF SubmitPrepare
<1>2. ASSUME NEW q \in Runs, NewMessage(q) \/ RunStep(q) \/ FinishStep(q), ~SubmitPrepare(q)
      PROVE  prep' = prep
  BY <1>2 DEF RunStep, FinishStep, NewMessage, BeginLoad, BeginLock, ReleaseLock, ReleaseForget,
     Check, Top, AbandonPrepare, AwaitPrepare, ReplyContext, Decide, DecideFailed, Decided, Clear,
     Send, Sent, Spawn, FinishSnapshot, FinishSubmit, FinishAbandon, StartFinish, SkipFinish,
     FinishAttempt, MemoryContext, UpdateStore, Patch, FinishFailed, FinishCheck, StoreReply, runVars
<1>3. ASSUME NEW m \in Messages, MessageUpdated(m) \/ MessageDeleted(m) \/ DeleteStep(m)
      PROVE  prep' = prep
  BY <1>3 DEF MessageUpdated, MessageDeleted, DeleteStep, DeleteSubmit, StartDelete, DeleteRemove,
     DeleteFail, DeletePatch, runVars
<1>4. ASSUME NEW j \in RunJobs, StartPrepare(j) PROVE prep' = prep
  BY <1>4 DEF StartPrepare, runVars
<1>5. ASSUME NEW j \in RunJobs, SkipPrepare(j)
      PROVE  prep'[r] = prep[r] \/ (prep'[r] = "err" /\ RunDead(r))
  <2>1. prep' = [prep EXCEPT ![j[2]] = "err"] /\ j[2] \in runCtx
    BY <1>5 DEF SkipPrepare, Lane!Skip, deadJobs
  <2> QED BY <2>1 DEF RunDead
<1>6. ASSUME NEW j \in RunJobs, FinishPrepare(j)
      PROVE  \/ prep'[r] = prep[r]
             \/ prep'[r] = "err" /\ RunDead(r)
             \/ prep'[r] = "ok" /\ PrepareWrites(r)
  <2>1. CASE r # j[2]
    BY <1>6, <2>1 DEF FinishPrepare
  <2>2. CASE r = j[2] /\ prep' = [prep EXCEPT ![r] = "ok"]
    <3>1. /\ ~RunDead(r) /\ stored' = [stored EXCEPT ![RunMsg[r]] = msg[r]] /\ UNCHANGED dpc
          /\ j \in Executed
      BY <1>6, <2>2 DEF FinishPrepare, MayWrite, Lane!Finish, Executed
    <3>2. pc[r] = "await"
      BY <2>2, <3>1 DEF LaneInv, Expected, Awaited, RunDead
    <3>3. Quiet
      BY <1>6, QuietSteps
    <3> QED BY <2>2, <3>1, <3>2, <3>3 DEF PrepareWrites
  <2>3. CASE r = j[2] /\ prep' = [prep EXCEPT ![r] = "err"] /\ RunDead(r)
    BY <2>3
  <2> QED BY <1>6, <2>1, <2>2, <2>3 DEF FinishPrepare
<1>7. ASSUME Idle \/ UNCHANGED vars PROVE prep' = prep
  BY <1>7 DEF Idle, vars, runVars
<1> QED BY <1>1, <1>2, <1>3, <1>4, <1>5, <1>6, <1>7 DEF Next, PrepareStep

(* Who cancels a run, and which. *)
LEMMA CancelEffect ==
  ASSUME SInv, [Next]_vars, NEW q \in runCtx', q \notin runCtx
  PROVE  /\ q \in Runs /\ Begun(q)
         /\ \/ \E p \in Runs : BeginLock(p) /\ RunMsg[p] = RunMsg[q]
            \/ MessageDeleted(RunMsg[q])
<1> USE DEF SInv
<1>1. \/ \E p \in Runs : BeginLock(p) /\ q = State(p).runCancel
      \/ \E m \in Messages : MessageDeleted(m) /\ states[m] # None /\ q = st[states[m]].runCancel
  BY Cases, PlainRunEffect, PlainFinishEffect, UnlockedEffect, BeginEffect, ReleaseEffect,
     MemoryContextEffect, UpdateStoreEffect, UpdateEffect, DeleteEffect DEF Quiet, ctxVars
<1>2. ASSUME NEW o \in Runs, q = st[o].runCancel
      PROVE  q \in Runs /\ Begun(q) /\ RunMsg[q] = RunMsg[o]
  <2>1. q \in Runs
    BY NextIInv DEF IInv, TypeOK, CtxTypes
  <2>2. Begun(q) /\ obj[q] = o
    BY <1>2, <2>1, ProcessingAssumption DEF IInv, OwnerInv, MapInv
  <2> QED BY <2>1, <2>2, Bounded
<1>3. ASSUME NEW p \in Runs, BeginLock(p), q = State(p).runCancel
      PROVE  q \in Runs /\ Begun(q) /\ RunMsg[p] = RunMsg[q]
  BY <1>2, <1>3, BeginEffect, Bounded DEF State, Bound
<1>4. ASSUME NEW m \in Messages, MessageDeleted(m), states[m] # None, q = st[states[m]].runCancel
      PROVE  q \in Runs /\ Begun(q) /\ RunMsg[q] = m
  BY <1>2, <1>4 DEF IInv, StateInv
<1> QED BY <1>1, <1>3, <1>4

(* What is stored stays, unless the message is deleted. *)
LEMMA StoredKept ==
  ASSUME SInv, [Next]_vars, NEW m \in Messages
  PROVE  /\ gone[m] => gone'[m]
         /\ stored[m] # None => stored'[m] # None \/ gone'[m]
<1>1. /\ stored \in [Messages -> Nat \cup {None}] /\ gone \in [Messages -> BOOLEAN] /\ None \notin Nat
      /\ dpc \in [Messages -> {"none", "spawned", "queued", "remove", "patch", "done", "failed"}]
  BY ProcessingAssumption DEF SInv, IInv, TypeOK, StoreTypes, ChatTypes
<1>2. gone[m] => gone'[m]
  BY Cases, PlainRunEffect, PlainFinishEffect, UnlockedEffect, BeginEffect, ReleaseEffect,
     MemoryContextEffect, UpdateStoreEffect, UpdateEffect, DeleteEffect DEF Quiet, chatVars, SInv
<1>3. ASSUME NEW q \in Runs, PrepareWrites(q) \/ UpdateWrites(q), stored[m] # None
      PROVE  stored'[m] # None
  <2>1. PrepareWrites(q) => msg[q] \in Nat
    BY DEF PrepareWrites, SInv, GivenInv, HasText, TextPCs
  <2>2. UpdateWrites(q) => fmsg[q] \in Nat
    BY UpdateStoreEffect DEF UpdateWrites, SInv, GivenInv
  <2> QED BY <1>1, <1>3, <2>1, <2>2 DEF PrepareWrites, UpdateWrites
<1>4. ASSUME NEW n \in Messages, DeleteRemove(n), stored[m] # None
      PROVE  stored'[m] # None \/ gone'[m]
  BY <1>1, <1>2, <1>4 DEF DeleteRemove, SInv, DeletedInv
<1> QED BY <1>2, <1>3, <1>4, StoredEffect

LEMMA Onward ==
  ASSUME SInv, [Next]_vars
  PROVE  /\ runCtx \subseteq runCtx'
         /\ \A r \in Runs : Begun(r) => Begun(r)'
         /\ \A m \in Messages :
              Announced(m)' => Announced(m) \/ \E r \in Runs : RunMsg[r] = m /\ pc'[r] = "spawned"
<1>1. runCtx \subseteq runCtx'
  BY Cases, PlainRunEffect, PlainFinishEffect, UnlockedEffect, BeginEffect, ReleaseEffect,
     MemoryContextEffect, UpdateStoreEffect, UpdateEffect, DeleteEffect DEF Quiet, ctxVars, SInv
<1>2. ASSUME NEW r \in Runs
      PROVE  /\ Begun(r) => Begun(r)'
             /\ pc'[r] # "none" => pc[r] # "none" \/ pc'[r] = "spawned"
  <2>1. ASSUME NEW q \in Runs, PlainRun(q) \/ Unlocked(q)
        PROVE  /\ Begun(r) => Begun(r)'
               /\ pc'[r] # "none" => pc[r] # "none" \/ pc'[r] = "spawned"
    BY <2>1, PlainRunEffect, UnlockedEffect DEF SInv, Begun
  <2>2. ASSUME NEW q \in Runs, BeginLock(q) \/ ReleaseLock(q)
        PROVE  /\ Begun(r) => Begun(r)'
               /\ pc'[r] # "none" => pc[r] # "none" \/ pc'[r] = "spawned"
    BY <2>2, BeginEffect, ReleaseEffect DEF SInv, IInv, TypeOK, RunTypes, Begun
  <2>3. ASSUME \/ \E q \in Runs : PlainFinish(q) \/ MemoryContext(q) \/ UpdateStore(q)
               \/ \E m \in Messages : MessageUpdated(m) \/ MessageDeleted(m)
               \/ Quiet
        PROVE  pc' = pc
    BY <2>3, PlainFinishEffect, MemoryContextEffect, UpdateStoreEffect, UpdateEffect, DeleteEffect
       DEF SInv, Quiet, runVars
  <2> QED BY <2>1, <2>2, <2>3, Cases DEF SInv, Begun
<1> QED BY <1>1, <1>2 DEF Announced

(* A live run goes on towards its prepare job until the message is stored. *)
LEMMA WitnessMoves ==
  ASSUME SInv, RememberInv, "prepare" \notin Faults, [Next]_vars,
         NEW q \in Runs, ~RunDead(q),
         pc[q] \in {"spawned", "loaded", "check", "top", "submit", "await"}
  PROVE  \/ pc'[q] \in {"spawned", "loaded", "check", "top", "submit", "await"}
         \/ stored[RunMsg[q]] # None
         \/ gone[RunMsg[q]]
<1> USE DEF SInv, IInv, TypeOK, RunTypes
<1>1. CASE PlainRun(q)
  <2>1. Bound(q) => (State(q).deleted => gone[RunMsg[q]])
    BY Bounded DEF State, DeletedInv
  <2>2. prep[q] # "err" /\ (prep[q] = "ok" => stored[RunMsg[q]] # None \/ gone[RunMsg[q]])
    BY DEF RememberInv
  <2>3. CASE Check(q) \/ Top(q)
    BY <2>1, <2>3 DEF Check, Top, Goto, Bound
  <2>4. CASE SubmitPrepare(q) \/ AbandonPrepare(q) \/ AwaitPrepare(q)
    BY <2>2, <2>4 DEF SubmitPrepare, AbandonPrepare, AwaitPrepare, Goto
  <2> QED BY <1>1, <2>3, <2>4
          DEF PlainRun, NewMessage, ReplyContext, Decide, DecideFailed, Decided, Clear, Send, Sent, Spawn
<1>2. ASSUME NEW p \in Runs, PlainRun(p), p # q PROVE pc'[q] = pc[q]
  BY <1>2, PlainRunEffect
<1>3. ASSUME NEW p \in Runs, Unlocked(p) \/ BeginLock(p) \/ ReleaseLock(p)
      PROVE  pc'[q] \in {pc[q], "loaded", "check"}
  BY <1>3, UnlockedEffect, BeginEffect, ReleaseEffect
<1>4. ASSUME \/ \E p \in Runs : PlainFinish(p) \/ MemoryContext(p) \/ UpdateStore(p)
             \/ \E m \in Messages : MessageUpdated(m) \/ MessageDeleted(m)
             \/ Quiet
      PROVE  pc' = pc
  BY <1>4, PlainFinishEffect, MemoryContextEffect, UpdateStoreEffect, UpdateEffect, DeleteEffect
     DEF Quiet, runVars
<1> QED BY <1>1, <1>2, <1>3, <1>4, Cases

LEMMA WitnessStep ==
  ASSUME SInv, RememberInv, "prepare" \notin Faults, [Next]_vars,
         NEW q \in Runs, WillStore(q), ~gone'[RunMsg[q]]
  PROVE  \/ stored'[RunMsg[q]] # None
         \/ \E p \in Runs : RunMsg[p] = RunMsg[q] /\ WillStore(p)'
<1>1. ~RunDead(q)
  BY DEF WillStore, RememberInv, RunDead, Begun
<1>2. CASE q \in runCtx'
  <2>1. PICK p \in Runs : BeginLock(p) /\ RunMsg[p] = RunMsg[q]
    BY <1>1, <1>2, CancelEffect, DeleteEffect, ProcessingAssumption DEF RunDead, SInv
  <2>2. pc[p] = "loaded" /\ pc'[p] = "check"
    BY <2>1, BeginEffect DEF SInv, IInv, TypeOK, RunTypes
  <2>3. p \notin runCtx'
    BY <2>2, CancelEffect DEF RememberInv, Begun
  <2> QED BY <2>1, <2>2, <2>3 DEF WillStore, RunDead
<1>3. CASE q \notin runCtx'
  <2>1. \/ pc'[q] \in {"spawned", "loaded", "check", "top", "submit", "await"}
        \/ stored[RunMsg[q]] # None
        \/ gone[RunMsg[q]]
    BY <1>1, WitnessMoves DEF WillStore
  <2> QED BY <1>3, <2>1, StoredKept, ProcessingAssumption DEF WillStore, RunDead
<1> QED BY <1>2, <1>3

LEMMA RememberStep ==
  ASSUME SInv, RememberInv, "prepare" \notin Faults, [Next]_vars
  PROVE  RememberInv'
<1>1. ASSUME NEW r \in runCtx' PROVE Begun(r)'
  BY CancelEffect, Onward DEF RememberInv, SInv, IInv, TypeOK, CtxTypes
<1>2. ASSUME NEW r \in Runs, prep'[r] = "err" PROVE RunDead(r)'
  BY <1>2, PrepEffect, Onward DEF RememberInv, RunDead
<1>3. ASSUME NEW r \in Runs, prep'[r] = "ok" PROVE stored'[RunMsg[r]] # None \/ gone'[RunMsg[r]]
  <2>1. RunMsg[r] \in Messages
    BY ProcessingAssumption
  <2>2. CASE prep[r] = "ok"
    BY <2>1, <2>2, StoredKept DEF RememberInv
  <2>3. CASE PrepareWrites(r)
    BY <2>1, <2>3, ProcessingAssumption
       DEF PrepareWrites, SInv, GivenInv, HasText, TextPCs, IInv, TypeOK, StoreTypes
  <2> QED BY <1>3, <2>2, <2>3, PrepEffect
<1>4. ASSUME NEW m \in Messages, Announced(m)', ~gone'[m], stored'[m] = None
      PROVE  \E q \in Runs : RunMsg[q] = m /\ WillStore(q)'
  <2>1. CASE \E r \in Runs : RunMsg[r] = m /\ pc'[r] = "spawned"
    BY <2>1 DEF WillStore
  <2>2. CASE Announced(m)
    <3>1. PICK q \in Runs : RunMsg[q] = m /\ WillStore(q)
      BY <1>4, <2>2, StoredKept DEF RememberInv
    <3> QED BY <1>4, <3>1, WitnessStep
  <2> QED BY <1>4, <2>1, <2>2, Onward
<1> QED BY <1>1, <1>2, <1>3, <1>4 DEF RememberInv

(* As long as no prepare job fails for a reason of its own, a message that *)
(* was announced and not deleted is in the store when all is done, however *)
(* often it was announced or edited: who cancels its run stores it itself. *)
THEOREM ProcessingRemembered ==
  ASSUME "prepare" \notin Faults
  PROVE  Spec => []Remembered
<1>1. Init => RememberInv
  BY DEF Init, RememberInv, Announced
<1>2. SInv /\ RememberInv /\ [Next]_vars => RememberInv'
  BY RememberStep
<1>3. RememberInv => Remembered
  <2> SUFFICES ASSUME RememberInv, Quiescent, NEW r \in Runs, pc[r] = "done", ~gone[RunMsg[r]]
               PROVE  stored[RunMsg[r]] # None
    BY DEF Remembered
  <2>1. Announced(RunMsg[r]) /\ RunMsg[r] \in Messages
    BY ProcessingAssumption DEF Announced
  <2>2. \A q \in Runs : ~WillStore(q)
    BY DEF Quiescent, WillStore
  <2> QED BY <2>1, <2>2 DEF RememberInv
<1> QED BY <1>1, <1>2, <1>3, SAlways, PTL DEF Spec
=============================================================================
