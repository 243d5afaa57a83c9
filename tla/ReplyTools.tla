----------------------------- MODULE ReplyTools -----------------------------
(***************************************************************************)
(* Replies made with tools: ChatWithTools in llm/client.go, its retries    *)
(* (llm/retry.go), and the tools on lists (Lists).  A reply is a series of *)
(* attempts; an attempt is a conversation that starts over from the same   *)
(* messages, of at most MaxSteps requests.  The model asks for tools,      *)
(* whose results go into the next request, or gives a text.  What the      *)
(* tools of a failed attempt did stays done.  The context of a reply ends  *)
(* when its message is edited or deleted.                                  *)
(*                                                                         *)
(* Which model an attempt goes to, the time it waits and the contents of   *)
(* messages are left out.  The client's HTTP timeout bounds a request.     *)
(***************************************************************************)
EXTENDS Lists

CONSTANTS
  MaxAttempts,  \* of each reply; replyMaxAttempts, 5, in the code
  MaxSteps,     \* maxToolOrChatSteps, 12 in the code
  Turns,        \* what one answer to a reply may call for: bounds an instance
  Edited,       \* the replies whose messages may be edited or deleted
  ModelFaults   \* "request": no answer, or none that can be used

ASSUME ReplyToolsAssumption ==
  /\ MaxAttempts \in [Replies -> Nat \ {0}]
  /\ MaxSteps \in Nat \ {0}
  /\ Edited \subseteq Replies
  /\ Turns \in [Replies -> SUBSET (Seq(Asks) \ {<<>>})]
  /\ ModelFaults \subseteq {"request"}

VARIABLES
  phase,    \* "request", "tools", "backoff", "text", "error"
  attempt, step,
  nudged,   \* nudgedForEmptyReply
  pending,  \* the tool calls of the turn that have not returned
  owed,     \* tool calls in the conversation less results in it
  late      \* history: requests begun after the context was cancelled

loopVars == <<phase, attempt, step, nudged, pending, owed, late>>
vars == <<listVars, loopVars>>

Init ==
  /\ ListsInit
  /\ phase = [r \in Replies |-> "request"]
  /\ attempt = [r \in Replies |-> 1] /\ step = [r \in Replies |-> 0]
  /\ nudged = [r \in Replies |-> FALSE]
  /\ pending = [r \in Replies |-> <<>>]
  /\ owed = [r \in Replies |-> 0]
  /\ late = [r \in Replies |-> 0]

Enter(r, p) == phase' = [phase EXCEPT ![r] = p]

(* The next request of the loop. *)
Request(r) ==
  /\ Enter(r, "request")
  /\ late' = [late EXCEPT ![r] = IF dead[r] THEN @ + 1 ELSE @]

(* The attempt fails: withModelRetry waits and tries again, or gives up.   *)
SameAttempt(r) == attempt[r]
NextAttempt(r) == attempt[r] + 1

FailAttempt(r) ==
  /\ IF attempt[r] < MaxAttempts[r]
     THEN Enter(r, "backoff") /\ attempt' = [attempt EXCEPT ![r] = NextAttempt(r)]
     ELSE Enter(r, "error") /\ UNCHANGED attempt
  /\ step' = [step EXCEPT ![r] = 0] /\ nudged' = [nudged EXCEPT ![r] = FALSE]
  /\ owed' = [owed EXCEPT ![r] = 0]
  /\ UNCHANGED late

(* The for loop goes round, or ends: "tool loop exceeded %d steps". *)
OneStepMore(r) == step[r] < MaxSteps
StepsLeft(r) == step[r] + 1 < MaxSteps

Continue(r, nudge, debt) ==
  IF StepsLeft(r)
  THEN /\ step' = [step EXCEPT ![r] = @ + 1]
       /\ nudged' = [nudged EXCEPT ![r] = nudge]
       /\ owed' = [owed EXCEPT ![r] = debt]
       /\ Request(r)
       /\ UNCHANGED attempt
  ELSE FailAttempt(r)

----------------------------------------------------------------------------
(* chatWithToolsForModel: a request and what comes of it. *)

RequestFails(r) ==
  /\ phase[r] = "request"
  /\ dead[r] \/ "request" \in ModelFaults
  /\ FailAttempt(r)
  /\ UNCHANGED <<listVars, pending>>

(* An empty text is asked for again, once, and not at the first request. *)
Empty(r) ==
  /\ phase[r] = "request" /\ ~dead[r]
  /\ IF step[r] > 0 /\ ~nudged[r] THEN Continue(r, TRUE, owed[r]) ELSE FailAttempt(r)
  /\ UNCHANGED <<listVars, pending>>

Text(r) ==
  /\ phase[r] = "request" /\ ~dead[r]
  /\ Enter(r, "text")
  /\ UNCHANGED <<listVars, attempt, step, nudged, pending, owed, late>>

ToolCalls(r) ==
  /\ phase[r] = "request" /\ ~dead[r]
  /\ \E turn \in Turns[r] :
       /\ pending' = [pending EXCEPT ![r] = turn]
       /\ owed' = [owed EXCEPT ![r] = @ + Len(turn)]
  /\ Enter(r, "tools")
  /\ UNCHANGED <<listVars, attempt, step, nudged, late>>

(* The calls of a turn, one after the other; an error is a result as well. *)
CallTool(r) ==
  /\ phase[r] = "tools"
  /\ ExecuteTool(r, Head(pending[r]))
  /\ UNCHANGED loopVars

ToolStep(r) == Step(r) /\ UNCHANGED loopVars

ResultsIfOk(r) == IF answer[r] = "ok" THEN 1 ELSE 0
Results(r) == 1

ToolReturns(r) ==
  /\ phase[r] = "tools"
  /\ TakeAnswer(r)
  /\ pending' = [pending EXCEPT ![r] = Tail(@)]
  /\ LET debt == owed[r] - Results(r)
     IN  IF Len(pending[r]) > 1
         THEN /\ owed' = [owed EXCEPT ![r] = debt]
              /\ UNCHANGED <<phase, attempt, step, nudged, late>>
         ELSE Continue(r, nudged[r], debt)

(* The select of withModelRetry; a timer is never ready at once. *)
WaitsItOut(r) == TRUE
TimerMayFire(r) == ~dead[r]

RetryTimer(r) ==
  /\ phase[r] = "backoff" /\ TimerMayFire(r)
  /\ Request(r)
  /\ UNCHANGED <<listVars, attempt, step, nudged, pending, owed>>

RetryCancelled(r) ==
  /\ phase[r] = "backoff" /\ dead[r]
  /\ Enter(r, "error")
  /\ UNCHANGED <<listVars, attempt, step, nudged, pending, owed, late>>

Over(r) == phase[r] \in {"text", "error"}

(* processor.go: onUpdated and onDeleted cancel the context of a reply. *)
Cancel(r) == r \in Edited /\ ~Over(r) /\ CancelContext(r) /\ UNCHANGED loopVars

Act(r) ==
  \/ RequestFails(r) \/ Empty(r) \/ Text(r) \/ ToolCalls(r)
  \/ CallTool(r) \/ ToolStep(r) \/ ToolReturns(r)
  \/ RetryTimer(r) \/ RetryCancelled(r)

AllOver == (\A r \in Replies : Over(r)) /\ UNCHANGED vars

Next == (\E r \in Replies : Act(r) \/ Cancel(r)) \/ AllOver

Spec == Init /\ [][Next]_vars

(* Statements, requests and embeddings end, the last two by a timeout. *)
FairSpec == Spec /\ \A r \in Replies : WF_vars(Act(r))

----------------------------------------------------------------------------

(* Every variable holds a value of its type, and no attempt and no request *)
(* is beyond its limit.                                                    *)
TypeOK ==
  /\ ListsTypeOK
  /\ phase \in [Replies -> {"request", "tools", "backoff", "text", "error"}]
  /\ attempt \in [Replies -> Nat] /\ \A r \in Replies : attempt[r] \in 1..MaxAttempts[r]
  /\ step \in [Replies -> 0..(MaxSteps - 1)]
  /\ nudged \in [Replies -> BOOLEAN]
  /\ pending \in [Replies -> Seq(Asks)]
  /\ owed \in [Replies -> Nat]
  /\ late \in [Replies -> Nat]

(* A request goes out only with a result for every tool call before it in  *)
(* the conversation, whatever failed, was cancelled or was nudged: without *)
(* one the model's API refuses it (client.go, the loop over ToolCalls).    *)
EveryCallAnswered == \A r \in Replies : phase[r] = "request" => owed[r] = 0

(* Once its message is edited or deleted a reply makes at most one more    *)
(* request, which fails at once, and not five attempts with their waits    *)
(* (retry.go, the select; client.go, the loop).                            *)
OneRequestAfterCancel == \A r \in Replies : late[r] <= 1

(* Every reply ends, whatever models, tools and other replies do: the      *)
(* steps of an attempt and the attempts are limited, and no lane is held   *)
(* (client.go, maxToolOrChatSteps; retry.go, maxAttempts).                 *)
EveryReplyEnds == \A r \in Replies : <>Over(r)
=============================================================================
