---------------------------- MODULE SerialLanes ----------------------------
(***************************************************************************)
(* What the per-chat memory queues promise their callers, free of          *)
(* channels, goroutines and lazy creation: every lane is a FIFO of jobs    *)
(* and executes at most one of them at a time; a job is admitted at most   *)
(* once; a job whose context was cancelled before its turn is skipped and  *)
(* no other job ever is.  ChatMemoryLanes implements this specification    *)
(* and MessageProcessing is built on it.                                   *)
(***************************************************************************)
EXTENDS Sequences

CONSTANTS
  Lanes,  \* one per chat and queue
  Jobs    \* the functions callers hand over, each of them once

VARIABLES
  pending,    \* lane -> jobs admitted and not yet taken, oldest first
  active,     \* lane -> the jobs it is executing (never more than one)
  admitted,   \* jobs ever admitted to a lane
  cancelled   \* jobs whose context is cancelled

laneVars == <<pending, active, admitted, cancelled>>

----------------------------------------------------------------------------

Init ==
  /\ pending = [l \in Lanes |-> <<>>]
  /\ active = [l \in Lanes |-> {}]
  /\ admitted = {}
  /\ cancelled = {}

(* A job joins the end of a lane. *)
Admit(l, j) ==
  /\ j \notin admitted
  /\ admitted' = admitted \cup {j}
  /\ pending' = [pending EXCEPT ![l] = Append(@, j)]
  /\ UNCHANGED <<active, cancelled>>

IsNext(l, j) ==
  /\ active[l] = {}
  /\ pending[l] # <<>>
  /\ Head(pending[l]) = j

(* The oldest job starts, on an idle lane and with a live context. *)
Start(l, j) ==
  /\ IsNext(l, j)
  /\ j \notin cancelled
  /\ pending' = [pending EXCEPT ![l] = Tail(@)]
  /\ active' = [active EXCEPT ![l] = {j}]
  /\ UNCHANGED <<admitted, cancelled>>

(* The oldest job is dropped because its context is cancelled. *)
Skip(l, j) ==
  /\ IsNext(l, j)
  /\ j \in cancelled
  /\ pending' = [pending EXCEPT ![l] = Tail(@)]
  /\ UNCHANGED <<active, admitted, cancelled>>

Finish(l, j) ==
  /\ j \in active[l]
  /\ active' = [active EXCEPT ![l] = {}]
  /\ UNCHANGED <<pending, admitted, cancelled>>

(* Contexts are cancelled, several at once when they have a common parent. *)
Cancel ==
  /\ cancelled \subseteq cancelled'
  /\ cancelled' \subseteq Jobs
  /\ UNCHANGED <<pending, active, admitted>>

Next ==
  \/ \E l \in Lanes, j \in Jobs :
       Admit(l, j) \/ Start(l, j) \/ Skip(l, j) \/ Finish(l, j)
  \/ Cancel

(* A lane with work keeps going, and a job that runs comes to an end. *)
Fairness ==
  \A l \in Lanes :
    /\ WF_laneVars(\E j \in Jobs : Start(l, j) \/ Skip(l, j))
    /\ WF_laneVars(\E j \in Jobs : Finish(l, j))

Spec == Init /\ [][Next]_laneVars
============================================================================
