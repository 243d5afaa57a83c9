------------------------- MODULE MessageProcessing -------------------------
(***************************************************************************)
(* app/app.go and app/processor.go: how one chat's messages are answered   *)
(* and remembered.  The transport's event loop handles new, updated and    *)
(* deleted messages one at a time.  A new message starts a goroutine (a    *)
(* run) that registers itself in the messageProcessor, prepares the        *)
(* message's topic on the prepare lane, decides on a reply, sends it, and  *)
(* leaves a second goroutine behind that updates the memory on the         *)
(* background lane.  Updates and deletions reach a run through its         *)
(* messageState: a revision number, a deleted flag, and the cancel         *)
(* functions of the contexts it works under.                               *)
(*                                                                         *)
(* The text of a message is abstracted to its version: 0 when it was       *)
(* written, one more for every edit.  The lanes are SerialLanes, which     *)
(* ChatMemoryLanes implements.  A messageState is named by the run whose   *)
(* begin stored it, and a cancel function by the run whose context it      *)
(* cancels: of the reply (or memory) contexts of a run only the latest can *)
(* still be held by the state, so the run's name is enough.                *)
(*                                                                         *)
(* Some definitions are preceded by a variant of themselves that no action *)
(* uses (AnyMayRelease before MayRelease): the mistake the properties would   *)
(* find in its place.                                                      *)
(***************************************************************************)
EXTENDS Naturals, Sequences

CONSTANTS
  Messages,    \* messages of the chat
  Runs,        \* new-message events, each with the goroutine it starts
  RunMsg,      \* run -> the message it is for
  Edits,       \* message -> how often it may be edited: bounds an instance
  Deletable,   \* messages that may be deleted: bounds an instance
  Faults,      \* steps that may fail for reasons of their own
  None         \* nil

ASSUME ProcessingAssumption ==
  /\ Edits \in [Messages -> Nat]
  /\ RunMsg \in [Runs -> Messages]
  /\ Deletable \subseteq Messages
  /\ Faults \subseteq {"prepare", "reply", "send", "memory", "delete"}
  /\ None \notin Runs \cup Messages \cup Nat

VARIABLES
  (* the chat, as the event loop has seen it *)
  version, gone,
  (* messageProcessor *)
  states,                \* sync.Map: message -> messageState
  st,                    \* messageState objects
  (* cancelled contexts: of runs, and of their latest reply and memory attempts *)
  runCtx, replyCtx, memCtx,
  (* the goroutine of a run *)
  pc, arg, obj, msg, rev, attempt, prep, outbound, sent,
  (* its background goroutine *)
  fpc, fmsg, frev,
  (* the goroutine of a deletion *)
  dpc,
  (* SerialLanes *)
  pending, active, admitted,
  (* the store: text of the message, runs whose reply is stored as the bot's
     own message *)
  stored, replies

chatVars == <<version, gone>>
procVars == <<states, st>>
ctxVars == <<runCtx, replyCtx, memCtx>>
runVars == <<pc, arg, obj, msg, rev, attempt, prep, outbound, sent>>
finVars == <<fpc, fmsg, frev>>
laneVars == <<pending, active, admitted>>
storeVars == <<stored, replies>>
vars == <<chatVars, procVars, ctxVars, runVars, finVars, dpc, laneVars, storeVars>>

Attempts == UNION {0 .. Edits[m] : m \in Messages}

(* Every prepare attempt of a run is a job of its own. *)
PrepareJob(r) == <<"prepare", r, attempt[r]>>
FinishJob(r) == <<"finish", r, 0>>
DeleteJob(m) == <<"delete", m, 0>>
LaneNames == {"prepare", "background"}

RunJobs ==
  ({"prepare"} \X Runs \X Attempts) \cup ({"finish"} \X Runs \X {0})
AllJobs == RunJobs \cup ({"delete"} \X Messages \X {0})

(* A run's jobs carry its context, a deletion's that of the program. *)
deadJobsOfAnyRun == {j \in RunJobs : runCtx # {}}
deadJobs == {j \in RunJobs : j[2] \in runCtx}

Lane ==
  INSTANCE SerialLanes WITH
    Lanes <- LaneNames, Jobs <- AllJobs, cancelled <- deadJobs

NewState ==
  [message |-> None, revision |-> 0, deleted |-> FALSE, token |-> None,
   runCancel |-> None, memoryCancel |-> None, replyCancel |-> None]

Init ==
  /\ version = [m \in Messages |-> 0]
  /\ gone = [m \in Messages |-> FALSE]
  /\ states = [m \in Messages |-> None]
  /\ st = [r \in Runs |-> NewState]
  /\ runCtx = {} /\ replyCtx = {} /\ memCtx = {}
  /\ pc = [r \in Runs |-> "none"]
  /\ arg = [r \in Runs |-> None]
  /\ obj = [r \in Runs |-> None]
  /\ msg = [r \in Runs |-> None]
  /\ rev = [r \in Runs |-> 0]
  /\ attempt = [r \in Runs |-> 0]
  /\ prep = [r \in Runs |-> "none"]
  /\ outbound = [r \in Runs |-> "none"]
  /\ sent = [r \in Runs |-> None]
  /\ fpc = [r \in Runs |-> "none"]
  /\ fmsg = [r \in Runs |-> None]
  /\ frev = [r \in Runs |-> 0]
  /\ dpc = [m \in Messages |-> "none"]
  /\ pending = [l \in LaneNames |-> <<>>]
  /\ active = [l \in LaneNames |-> {}]
  /\ admitted = {}
  /\ stored = [m \in Messages |-> None]
  /\ replies = {}

----------------------------------------------------------------------------
(* Message states and contexts. *)

Held(h) == {h} \ {None}
State(r) == st[obj[r]]

(* Context.Err of a run's own context and of its two children. *)
RunDead(r) == r \in runCtx
ReplyDead(r) == r \in replyCtx \cup runCtx
MemoryDead(r) == r \in memCtx \cup runCtx

Goto(r, l) == pc' = [pc EXCEPT ![r] = l]
FGoto(r, l) == fpc' = [fpc EXCEPT ![r] = l]

----------------------------------------------------------------------------
(* The event loop. *)

(* OnNewMessage: startMessageProcessing only spawns the goroutine. *)
NewMessage(r) ==
  /\ pc[r] = "none"
  /\ ~gone[RunMsg[r]]
  /\ Goto(r, "spawned")
  /\ arg' = [arg EXCEPT ![r] = version[RunMsg[r]]]
  /\ UNCHANGED <<chatVars, procVars, ctxVars, obj, msg, rev, attempt, prep, outbound,
                 sent, finVars, dpc, laneVars, storeVars>>

Announced(m) == \E r \in Runs : RunMsg[r] = m /\ pc[r] # "none"

(* onUpdated of the state object s, with version v of the text. *)
UpdatedSilently(s, v) == [s EXCEPT !.message = v, !.memoryCancel = None,
                                   !.replyCancel = None]
Updated(s, v) == [s EXCEPT !.message = v, !.revision = @ + 1,
                           !.memoryCancel = None, !.replyCancel = None]

MessageUpdated(m) ==
  /\ Announced(m) /\ ~gone[m] /\ version[m] < Edits[m]
  /\ version' = [version EXCEPT ![m] = @ + 1]
  /\ LET o == states[m]
     IN  IF o = None \/ (o # None /\ st[o].deleted)
         THEN UNCHANGED <<st, ctxVars>>
         ELSE /\ st' = [st EXCEPT ![o] = Updated(@, version[m] + 1)]
              /\ memCtx' = memCtx \cup Held(st[o].memoryCancel)
              /\ replyCtx' = replyCtx \cup Held(st[o].replyCancel)
              /\ UNCHANGED runCtx
  /\ UNCHANGED <<gone, states, runVars, finVars, dpc, laneVars, storeVars>>

(* onDeleted: the cancel function of the run is called and kept. *)
DeletedState(s) == [s EXCEPT !.deleted = TRUE, !.memoryCancel = None, !.replyCancel = None]
AttemptsOnlyCancelled(s) == {}
CancelledByDelete(s) == Held(s.runCancel)

MessageDeleted(m) ==
  /\ Announced(m) /\ ~gone[m] /\ m \in Deletable
  /\ gone' = [gone EXCEPT ![m] = TRUE]
  /\ LET o == states[m]
     IN  IF o = None
         THEN UNCHANGED <<st, ctxVars>>
         ELSE /\ st' = [st EXCEPT ![o] = DeletedState(@)]
              /\ memCtx' = memCtx \cup Held(st[o].memoryCancel)
              /\ replyCtx' = replyCtx \cup Held(st[o].replyCancel)
              /\ runCtx' = runCtx \cup CancelledByDelete(st[o])
  /\ dpc' = [dpc EXCEPT ![m] = "spawned"]
  /\ UNCHANGED <<version, states, runVars, finVars, laneVars, storeVars>>

----------------------------------------------------------------------------
(* begin and release. *)

(* LoadOrStore of the message's state. *)
BeginLoad(r) ==
  /\ pc[r] = "spawned"
  /\ LET m == RunMsg[r]
         o == IF states[m] = None THEN r ELSE states[m]
     IN  /\ obj' = [obj EXCEPT ![r] = o]
         /\ states' = [states EXCEPT ![m] = o]
  /\ Goto(r, "loaded")
  /\ UNCHANGED <<chatVars, st, ctxVars, arg, msg, rev, attempt, prep, outbound, sent,
                 finVars, dpc, laneVars, storeVars>>

(* Taking the state over: the previous run and its attempts are cancelled. *)
NoneSuperseded(s) == {}
Superseded(s) == Held(s.runCancel)

BeginLock(r) ==
  /\ pc[r] = "loaded"
  /\ st' = [st EXCEPT ![obj[r]] =
              [@ EXCEPT !.message = arg[r], !.deleted = FALSE, !.token = r,
                        !.runCancel = r, !.memoryCancel = None, !.replyCancel = None]]
  /\ runCtx' = runCtx \cup Superseded(State(r))
  /\ memCtx' = memCtx \cup Held(State(r).memoryCancel)
  /\ replyCtx' = replyCtx \cup Held(State(r).replyCancel)
  /\ Goto(r, "check")
  /\ UNCHANGED <<chatVars, states, arg, obj, msg, rev, attempt, prep, outbound, sent,
                 finVars, dpc, laneVars, storeVars>>

(* release, under the lock: only the run that began last lets go. *)
AnyMayRelease(r) == TRUE
MayRelease(r) == State(r).token = r

ReleaseLock(r) ==
  /\ pc[r] = "release"
  /\ \/ /\ ~MayRelease(r)
        /\ Goto(r, "done")
        /\ UNCHANGED <<st, memCtx, replyCtx>>
     \/ /\ MayRelease(r)
        /\ st' = [st EXCEPT ![obj[r]] =
                    [@ EXCEPT !.runCancel = None, !.memoryCancel = None,
                              !.replyCancel = None]]
        /\ memCtx' = memCtx \cup Held(State(r).memoryCancel)
        /\ replyCtx' = replyCtx \cup Held(State(r).replyCancel)
        /\ Goto(r, "forget")
  /\ UNCHANGED <<chatVars, states, runCtx, arg, obj, msg, rev, attempt, prep, outbound,
                 sent, finVars, dpc, laneVars, storeVars>>

(* CompareAndDelete, after the unlock. *)
NothingForgotten(r) == states
Forgotten(r) ==
  LET m == RunMsg[r]
  IN  [states EXCEPT ![m] = IF @ = obj[r] THEN None ELSE @]

ReleaseForget(r) ==
  /\ pc[r] = "forget"
  /\ states' = Forgotten(r)
  /\ Goto(r, "done")
  /\ UNCHANGED <<chatVars, st, ctxVars, arg, obj, msg, rev, attempt, prep, outbound, sent,
                 finVars, dpc, laneVars, storeVars>>

----------------------------------------------------------------------------
(* handleMessageProcessing.  Every return goes through release. *)

(* The first snapshot, and EnsureChat under the run's context. *)
Check(r) ==
  /\ pc[r] = "check"
  /\ \/ /\ ~State(r).deleted /\ ~RunDead(r)
        /\ Goto(r, "top")
     \/ /\ State(r).deleted \/ RunDead(r) \/ "prepare" \in Faults
        /\ Goto(r, "release")
  /\ UNCHANGED <<chatVars, procVars, ctxVars, arg, obj, msg, rev, attempt, prep, outbound,
                 sent, finVars, dpc, laneVars, storeVars>>

(* The snapshot at the top of the loop. *)
Top(r) ==
  /\ pc[r] = "top"
  /\ \/ /\ State(r).deleted
        /\ Goto(r, "release")
        /\ UNCHANGED <<msg, rev>>
     \/ /\ ~State(r).deleted
        /\ msg' = [msg EXCEPT ![r] = State(r).message]
        /\ rev' = [rev EXCEPT ![r] = State(r).revision]
        /\ Goto(r, "submit")
  /\ UNCHANGED <<chatVars, procVars, ctxVars, arg, obj, attempt, prep, outbound, sent,
                 finVars, dpc, laneVars, storeVars>>

(* RunChatMemory: the task joins the prepare lane; the run waits for it. *)
SubmitPrepare(r) ==
  /\ pc[r] = "submit"
  /\ UNCHANGED <<chatVars, procVars, ctxVars, arg, obj, msg, rev, attempt, outbound, sent,
                 finVars, dpc, storeVars>>
  /\ Lane!Admit("prepare", PrepareJob(r))
  /\ prep' = [prep EXCEPT ![r] = "none"]
  /\ Goto(r, "await")

(* A cancelled run leaves the lane's queue, its task stays behind. *)
AbandonPrepare(r) ==
  /\ pc[r] \in {"submit", "await"}
  /\ RunDead(r)
  /\ Goto(r, "release")
  /\ UNCHANGED <<chatVars, procVars, ctxVars, arg, obj, msg, rev, attempt, prep, outbound,
                 sent, finVars, dpc, laneVars, storeVars>>

AwaitPrepare(r) ==
  /\ pc[r] = "await"
  /\ prep[r] # "none"
  /\ Goto(r, IF prep[r] = "ok" THEN "reply" ELSE "release")
  /\ UNCHANGED <<chatVars, procVars, ctxVars, arg, obj, msg, rev, attempt, prep, outbound,
                 sent, finVars, dpc, laneVars, storeVars>>

(* replyContext *)
ReplyContext(r) ==
  /\ pc[r] = "reply"
  /\ \/ /\ State(r).deleted
        /\ replyCtx' = replyCtx \cup {r}
        /\ UNCHANGED st
     \/ /\ ~State(r).deleted
        /\ replyCtx' = (replyCtx \cup Held(State(r).replyCancel)) \ {r}
        /\ st' = [st EXCEPT ![obj[r]].replyCancel = r]
  /\ Goto(r, "decide")
  /\ UNCHANGED <<chatVars, states, runCtx, memCtx, arg, obj, msg, rev, attempt, prep,
                 outbound, sent, finVars, dpc, laneVars, storeVars>>

(* Decide.  It may choose not to answer; a failure of the model, the end   *)
(* of its context included, becomes a fallback reply and no error; only    *)
(* reading the recent messages makes it fail.                              *)
Decide(r) ==
  /\ pc[r] = "decide"
  /\ \/ /\ outbound' = [outbound EXCEPT ![r] = "none"]
        /\ Goto(r, "decided")
     \/ /\ ~ReplyDead(r)
        /\ outbound' = [outbound EXCEPT ![r] = "reply"]
        /\ Goto(r, "decided")
     \/ /\ ReplyDead(r) \/ "reply" \in Faults
        /\ outbound' = [outbound EXCEPT ![r] = "fallback"]
        /\ Goto(r, "decided")
     \/ /\ ReplyDead(r) \/ "reply" \in Faults
        /\ outbound' = [outbound EXCEPT ![r] = "none"]
        /\ Goto(r, "failed")
  /\ UNCHANGED <<chatVars, procVars, ctxVars, arg, obj, msg, rev, attempt, prep, sent,
                 finVars, dpc, laneVars, storeVars>>

(* Whether the text changed under the attempt: then the loop goes round.   *)
AlwaysOutdated(r) == ~State(r).deleted
Outdated(r) == ~State(r).deleted /\ State(r).revision # rev[r]

DecideFailed(r) ==
  /\ pc[r] = "failed"
  /\ IF ReplyDead(r) /\ Outdated(r)
     THEN Goto(r, "top") /\ attempt' = [attempt EXCEPT ![r] = @ + 1]
     ELSE Goto(r, "release") /\ UNCHANGED attempt
  /\ UNCHANGED <<chatVars, procVars, ctxVars, arg, obj, msg, rev, prep, outbound, sent,
                 finVars, dpc, laneVars, storeVars>>

Decided(r) ==
  /\ pc[r] = "decided"
  /\ \/ /\ State(r).deleted
        /\ Goto(r, "release")
        /\ UNCHANGED attempt
     \/ /\ Outdated(r)
        /\ Goto(r, "top")
        /\ attempt' = [attempt EXCEPT ![r] = @ + 1]
     \/ /\ ~State(r).deleted /\ ~Outdated(r)
        /\ Goto(r, IF outbound[r] = "none" THEN "spawn" ELSE "presend")
        /\ UNCHANGED attempt
  /\ UNCHANGED <<chatVars, procVars, ctxVars, arg, obj, msg, rev, prep, outbound, sent,
                 finVars, dpc, laneVars, storeVars>>

(* The last look before SendText: the deleted flag and the run's context.  *)
MaySend(r) == ~State(r).deleted /\ ~RunDead(r)

Clear(r) ==
  /\ pc[r] = "presend"
  /\ Goto(r, IF MaySend(r) THEN "sending" ELSE "release")
  /\ UNCHANGED <<chatVars, procVars, ctxVars, arg, obj, msg, rev, attempt, prep, outbound,
                 sent, finVars, dpc, laneVars, storeVars>>

(* SendText does not look at its context. *)
Send(r) ==
  /\ pc[r] = "sending"
  /\ \/ /\ sent' = [sent EXCEPT ![r] = msg[r]]
        /\ Goto(r, "sent")
     \/ /\ "send" \in Faults
        /\ Goto(r, "release")
        /\ UNCHANGED sent
  /\ UNCHANGED <<chatVars, procVars, ctxVars, arg, obj, msg, rev, attempt, prep, outbound,
                 finVars, dpc, laneVars, storeVars>>

Sent(r) ==
  /\ pc[r] = "sent"
  /\ Goto(r, IF State(r).deleted THEN "release" ELSE "spawn")
  /\ UNCHANGED <<chatVars, procVars, ctxVars, arg, obj, msg, rev, attempt, prep, outbound,
                 sent, finVars, dpc, laneVars, storeVars>>

(* go finishMessageMemory; the run itself returns. *)
Spawn(r) ==
  /\ pc[r] = "spawn"
  /\ FGoto(r, "spawned")
  /\ Goto(r, "release")
  /\ UNCHANGED <<chatVars, procVars, ctxVars, arg, obj, msg, rev, attempt, prep, outbound,
                 sent, fmsg, frev, dpc, laneVars, storeVars>>

----------------------------------------------------------------------------
(* The prepare lane: PrepareForReply under the run's context. *)

StartPrepare(j) ==
  /\ UNCHANGED <<chatVars, procVars, ctxVars, runVars, finVars, dpc, storeVars>>
  /\ Lane!Start("prepare", j)

SkipPrepare(j) ==
  /\ UNCHANGED <<chatVars, procVars, ctxVars, pc, arg, obj, msg, rev, attempt, outbound,
                 sent, finVars, dpc, storeVars>>
  /\ Lane!Skip("prepare", j)
  /\ prep' = [prep EXCEPT ![j[2]] = "err"]

(* The message is written with its topic, last, and only under a live      *)
(* context: a transaction whose context ends is rolled back.               *)
MayWrite(r) == ~RunDead(r)

FinishPrepare(j) ==
  /\ UNCHANGED <<chatVars, procVars, ctxVars, pc, arg, obj, msg, rev, attempt, outbound,
                 sent, finVars, dpc, replies>>
  /\ Lane!Finish("prepare", j)
  /\ LET r == j[2]
     IN  \/ /\ MayWrite(r)
            /\ stored' = [stored EXCEPT ![RunMsg[r]] = msg[r]]
            /\ prep' = [prep EXCEPT ![r] = "ok"]
         \/ /\ RunDead(r) \/ "prepare" \in Faults
            /\ prep' = [prep EXCEPT ![r] = "err"]
            /\ UNCHANGED stored

----------------------------------------------------------------------------
(* finishMessageMemory: the background goroutine of a run. *)

FinishSnapshot(r) ==
  /\ fpc[r] = "spawned"
  /\ FGoto(r, IF State(r).deleted THEN "done" ELSE "submit")
  /\ UNCHANGED <<chatVars, procVars, ctxVars, runVars, fmsg, frev, dpc, laneVars, storeVars>>

FinishSubmit(r) ==
  /\ fpc[r] = "submit"
  /\ UNCHANGED <<chatVars, procVars, ctxVars, runVars, fmsg, frev, dpc, storeVars>>
  /\ Lane!Admit("background", FinishJob(r))
  /\ FGoto(r, "queued")

FinishAbandon(r) ==
  /\ fpc[r] = "submit"
  /\ RunDead(r)
  /\ FGoto(r, "done")
  /\ UNCHANGED <<chatVars, procVars, ctxVars, runVars, fmsg, frev, dpc, laneVars, storeVars>>

StartFinish(r) ==
  /\ fpc[r] = "queued"
  /\ UNCHANGED <<chatVars, procVars, ctxVars, runVars, fmsg, frev, dpc, storeVars>>
  /\ Lane!Start("background", FinishJob(r))
  /\ FGoto(r, "attempt")

SkipFinish(r) ==
  /\ fpc[r] = "queued"
  /\ UNCHANGED <<chatVars, procVars, ctxVars, runVars, fmsg, frev, dpc, storeVars>>
  /\ Lane!Skip("background", FinishJob(r))
  /\ FGoto(r, "done")

(* The job returns to the lane. *)
EndFinishHoldingLane(r) == UNCHANGED laneVars /\ FGoto(r, "done")
EndFinish(r) ==
  /\ Lane!Finish("background", FinishJob(r))
  /\ FGoto(r, "done")

(* finishMessageMemoryLocked: the snapshot at the top of its loop ...      *)
TextAtStart(r) == arg[r]
TextToRemember(r) == State(r).message

FinishAttempt(r) ==
  /\ fpc[r] = "attempt"
  /\ UNCHANGED <<chatVars, procVars, ctxVars, runVars, dpc, storeVars>>
  /\ \/ /\ State(r).deleted
        /\ EndFinish(r)
        /\ UNCHANGED <<fmsg, frev>>
     \/ /\ ~State(r).deleted
        /\ fmsg' = [fmsg EXCEPT ![r] = TextToRemember(r)]
        /\ frev' = [frev EXCEPT ![r] = State(r).revision]
        /\ FGoto(r, "context")
        /\ UNCHANGED laneVars

(* ... memoryContext ... *)
MemoryContext(r) ==
  /\ fpc[r] = "context"
  /\ \/ /\ State(r).deleted
        /\ memCtx' = memCtx \cup {r}
        /\ UNCHANGED st
     \/ /\ ~State(r).deleted
        /\ memCtx' = (memCtx \cup Held(State(r).memoryCancel)) \ {r}
        /\ st' = [st EXCEPT ![obj[r]].memoryCancel = r]
  /\ FGoto(r, "update")
  /\ UNCHANGED <<chatVars, states, runCtx, replyCtx, runVars, fmsg, frev, dpc, laneVars,
                 storeVars>>

(* ... ProcessMessageUpdate.  A message that is in the store is written,   *)
(* and then the model works the text into its topic and the profile; one   *)
(* that is not is treated as new, and written last ...                     *)
UpdateStore(r) ==
  /\ fpc[r] = "update"
  /\ \/ /\ ~MemoryDead(r)
        /\ stored' = [stored EXCEPT ![RunMsg[r]] = fmsg[r]]
        /\ FGoto(r, IF stored[RunMsg[r]] = None THEN "updated" ELSE "patch")
     \/ /\ MemoryDead(r) \/ "memory" \in Faults
        /\ FGoto(r, "failed")
        /\ UNCHANGED stored
  /\ UNCHANGED <<chatVars, procVars, ctxVars, runVars, fmsg, frev, dpc, laneVars, replies>>

Patch(r) ==
  /\ fpc[r] = "patch"
  /\ \/ ~MemoryDead(r) /\ FGoto(r, "updated")
     \/ (MemoryDead(r) \/ "memory" \in Faults) /\ FGoto(r, "failed")
  /\ UNCHANGED <<chatVars, procVars, ctxVars, runVars, fmsg, frev, dpc, laneVars, storeVars>>

FAlwaysOutdated(r) == ~State(r).deleted
FOutdated(r) == ~State(r).deleted /\ State(r).revision # frev[r]

FinishFailed(r) ==
  /\ fpc[r] = "failed"
  /\ UNCHANGED <<chatVars, procVars, ctxVars, runVars, fmsg, frev, dpc, storeVars>>
  /\ IF MemoryDead(r) /\ FOutdated(r)
     THEN FGoto(r, "attempt") /\ UNCHANGED laneVars
     ELSE EndFinish(r)

FinishCheck(r) ==
  /\ fpc[r] = "updated"
  /\ UNCHANGED <<chatVars, procVars, ctxVars, runVars, fmsg, frev, dpc, storeVars>>
  /\ \/ /\ FOutdated(r)
        /\ FGoto(r, "attempt")
        /\ UNCHANGED laneVars
     \/ /\ ~State(r).deleted /\ ~FOutdated(r) /\ sent[r] # None
        /\ FGoto(r, "outbound")
        /\ UNCHANGED laneVars
     \/ /\ ~FOutdated(r)
        /\ State(r).deleted \/ sent[r] = None
        /\ EndFinish(r)

(* The bot's own message is stored, under the run's context. *)
StoreReply(r) ==
  /\ fpc[r] = "outbound"
  /\ UNCHANGED <<chatVars, procVars, ctxVars, runVars, fmsg, frev, dpc, stored>>
  /\ EndFinish(r)
  /\ \/ /\ ~State(r).deleted /\ ~RunDead(r)
        /\ replies' = replies \cup {r}
     \/ /\ State(r).deleted \/ RunDead(r) \/ "memory" \in Faults
        /\ UNCHANGED replies

----------------------------------------------------------------------------
(* handleMessageDeleted's goroutine: ProcessMessageDelete on the           *)
(* background lane, under the program's context.                           *)

DeleteSubmit(m) ==
  /\ dpc[m] = "spawned"
  /\ UNCHANGED <<chatVars, procVars, ctxVars, runVars, finVars, storeVars>>
  /\ Lane!Admit("background", DeleteJob(m))
  /\ dpc' = [dpc EXCEPT ![m] = "queued"]

StartDelete(m) ==
  /\ dpc[m] = "queued"
  /\ UNCHANGED <<chatVars, procVars, ctxVars, runVars, finVars, storeVars>>
  /\ Lane!Start("background", DeleteJob(m))
  /\ dpc' = [dpc EXCEPT ![m] = "remove"]

(* The message's row goes first: its old text and its topic are read and   *)
(* the row is deleted, in a transaction of its own ...                     *)
DeleteRemove(m) ==
  /\ dpc[m] = "remove"
  /\ dpc' = [dpc EXCEPT ![m] = "patch"]
  /\ stored' = [stored EXCEPT ![m] = None]
  /\ UNCHANGED <<chatVars, procVars, ctxVars, runVars, finVars, laneVars, replies>>

(* ... unless one of the three fails: the job ends, the message stays, and *)
(* nobody asks for the deletion again ...                                  *)
DeleteFail(m) ==
  /\ dpc[m] = "remove"
  /\ "delete" \in Faults
  /\ UNCHANGED <<chatVars, procVars, ctxVars, runVars, finVars, storeVars>>
  /\ Lane!Finish("background", DeleteJob(m))
  /\ dpc' = [dpc EXCEPT ![m] = "failed"]

(* ... then the model takes it out of the topic and the profile; the job   *)
(* ends here whether it can or not.                                        *)
DeletePatch(m) ==
  /\ dpc[m] = "patch"
  /\ UNCHANGED <<chatVars, procVars, ctxVars, runVars, finVars, storeVars>>
  /\ Lane!Finish("background", DeleteJob(m))
  /\ dpc' = [dpc EXCEPT ![m] = "done"]

----------------------------------------------------------------------------

(* Nothing left to do. *)
Quiescent ==
  /\ \A r \in Runs : pc[r] \in {"none", "done"} /\ fpc[r] \in {"none", "done"}
  /\ \A m \in Messages : dpc[m] \in {"none", "done", "failed"}
  /\ \A l \in LaneNames : pending[l] = <<>> /\ active[l] = {}

Idle == Quiescent /\ UNCHANGED vars

RunStep(r) ==
  \/ BeginLoad(r) \/ BeginLock(r) \/ ReleaseLock(r) \/ ReleaseForget(r)
  \/ Check(r) \/ Top(r)
  \/ SubmitPrepare(r) \/ AbandonPrepare(r) \/ AwaitPrepare(r)
  \/ ReplyContext(r) \/ Decide(r) \/ DecideFailed(r) \/ Decided(r)
  \/ Clear(r) \/ Send(r) \/ Sent(r) \/ Spawn(r)

PrepareStep == \E j \in RunJobs : StartPrepare(j) \/ SkipPrepare(j) \/ FinishPrepare(j)

FinishStep(r) ==
  \/ FinishSnapshot(r) \/ FinishSubmit(r) \/ FinishAbandon(r)
  \/ StartFinish(r) \/ SkipFinish(r)
  \/ FinishAttempt(r) \/ MemoryContext(r) \/ UpdateStore(r) \/ Patch(r)
  \/ FinishFailed(r) \/ FinishCheck(r) \/ StoreReply(r)

DeleteStep(m) ==
  DeleteSubmit(m) \/ StartDelete(m) \/ DeleteRemove(m) \/ DeleteFail(m) \/ DeletePatch(m)

Next ==
  \/ \E r \in Runs : NewMessage(r) \/ RunStep(r) \/ FinishStep(r)
  \/ \E m \in Messages : MessageUpdated(m) \/ MessageDeleted(m) \/ DeleteStep(m)
  \/ PrepareStep
  \/ Idle

(* Events come when they come.  Goroutines that can run do run, and every  *)
(* call they make ends: the model's client has a timeout.                  *)
Fairness ==
  /\ \A r \in Runs : WF_vars(RunStep(r)) /\ WF_vars(FinishStep(r))
  /\ \A m \in Messages : WF_vars(DeleteStep(m))
  /\ WF_vars(PrepareStep)

Spec == Init /\ [][Next]_vars
FairSpec == Spec /\ Fairness

----------------------------------------------------------------------------
(* Properties. *)

Begun(r) == pc[r] \notin {"none", "spawned", "loaded"}

(* Between begin and the unlock in release. *)
Working(r) == Begun(r) /\ pc[r] \notin {"forget", "done"}

Handles == Runs \cup {None}
PCs == {"none", "spawned", "loaded", "check", "top", "submit", "await", "reply", "decide",
        "failed", "decided", "presend", "sending", "sent", "spawn", "release", "forget",
        "done"}
FPCs == {"none", "spawned", "submit", "queued", "attempt", "context", "update", "patch",
         "failed", "updated", "outbound", "done"}
MessageStates ==
  [message : Nat \cup {None}, revision : Nat, deleted : BOOLEAN, token : Handles,
   runCancel : Handles, memoryCancel : Handles, replyCancel : Handles]

ChatTypes ==
  /\ version \in [Messages -> Nat]
  /\ gone \in [Messages -> BOOLEAN]
ProcTypes ==
  /\ states \in [Messages -> Handles]
  /\ st \in [Runs -> MessageStates]
CtxTypes == runCtx \subseteq Runs /\ replyCtx \subseteq Runs /\ memCtx \subseteq Runs
RunTypes ==
  /\ pc \in [Runs -> PCs]
  /\ arg \in [Runs -> Nat \cup {None}]
  /\ obj \in [Runs -> Handles]
  /\ msg \in [Runs -> Nat \cup {None}]
  /\ rev \in [Runs -> Nat]
  /\ attempt \in [Runs -> Nat]
  /\ prep \in [Runs -> {"none", "ok", "err"}]
  /\ outbound \in [Runs -> {"none", "reply", "fallback"}]
  /\ sent \in [Runs -> Nat \cup {None}]
FinTypes ==
  /\ fpc \in [Runs -> FPCs]
  /\ fmsg \in [Runs -> Nat \cup {None}]
  /\ frev \in [Runs -> Nat]
LaneTypes ==
  /\ pending \in [LaneNames -> Seq(AllJobs)]
  /\ active \in [LaneNames -> SUBSET AllJobs]
  /\ admitted \subseteq AllJobs
StoreTypes ==
  /\ stored \in [Messages -> Nat \cup {None}]
  /\ replies \subseteq Runs

(* Every variable holds a value of its type, and a run starts over no more *)
(* often than its message is edited (the loop of handleMessageProcessing). *)
TypeOK ==
  /\ ChatTypes
  /\ ProcTypes
  /\ CtxTypes
  /\ RunTypes
  /\ FinTypes
  /\ dpc \in [Messages -> {"none", "spawned", "queued", "remove", "patch", "done", "failed"}]
  /\ LaneTypes
  /\ StoreTypes
  /\ \A r \in Runs : attempt[r] <= Edits[RunMsg[r]]

(* A run at work is either the one run its message state can cancel, or it *)
(* is cancelled already: of the runs that share a state at most one is     *)
(* live, and a deletion or a newer run that finds the state stops it       *)
(* (begin, release, onDeleted).                                            *)
OneLiveRun ==
  \A r \in Runs : Working(r) => (State(r).runCancel = r \/ RunDead(r))

(* A live run that is about to send, with the revision unchanged since it  *)
(* took the text, answers the text the state has now: a newer text, by     *)
(* update or by a newer start, changes the revision or cancels the run     *)
(* (begin, onUpdated, lines 209-227 of app.go).                            *)
AnswersCurrentText ==
  \A r \in Runs :
    (pc[r] = "sending" /\ ~RunDead(r) /\ State(r).revision = rev[r])
      => msg[r] = State(r).message

(* A deletion that found the message under way and whose job removed the   *)
(* row has removed it for good: nothing stores the message again           *)
(* (onDeleted against the prepare and the background job).  A job that     *)
(* failed before that leaves the message stored: DeleteFail.  With one     *)
(* start per message.                                                      *)
DeletionSticks ==
  \A o \in Runs :
    (st[o].deleted /\ dpc[RunMsg[o]] \in {"patch", "done"}) => stored[RunMsg[o]] = None

(* The stored text of a message never goes back to an older version: the   *)
(* prepare attempts, their repetitions and the background update write in  *)
(* the order of the edits.  With one start per message.                    *)
StoredMovesForward ==
  [][\A m \in Messages :
       (stored[m] # None /\ stored'[m] # None) => stored'[m] >= stored[m]]_vars

(* When all is done, a message that was not deleted is in the store.       *)
Remembered ==
  Quiescent => \A r \in Runs : (pc[r] = "done" /\ ~gone[RunMsg[r]]) => stored[RunMsg[r]] # None

(* Every run, background job and deletion comes to an end.                 *)
AllWorkEnds ==
  /\ \A r \in Runs : pc[r] = "spawned" ~> (pc[r] = "done" /\ fpc[r] \in {"none", "done"})
  /\ \A m \in Messages : dpc[m] = "spawned" ~> dpc[m] \in {"done", "failed"}

(* When all is done the processor's map holds no state: of the runs that   *)
(* shared one, the last to begin takes it out (release).                   *)
StatesForgotten == Quiescent => \A m \in Messages : states[m] = None

----------------------------------------------------------------------------
(* What the tests say of the program and the interleavings refute. *)

(* app_test.go:242, "message still present after delete": when all is done *)
(* a deleted message is not in the store.                                  *)
DeletedIsForgotten ==
  Quiescent => \A m \in Messages : dpc[m] = "done" => stored[m] = None

(* app_test.go:109, "expected sent reply to be stored": when all is done   *)
(* the reply to a message nobody touched is in the store.                  *)
SentReplyIsStored ==
  Quiescent => \A r \in Runs : sent[r] # None => r \in replies
============================================================================
