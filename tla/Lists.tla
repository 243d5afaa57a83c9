-------------------------------- MODULE Lists --------------------------------
(***************************************************************************)
(* The notes and lists of a chat (memory/tools.go, memory/list_tools.go),  *)
(* their rows in storage/store.go, and the vector by which NearestLists    *)
(* finds a list, made from what the list holds (memory/list_indexer.go).   *)
(* The tools are called by the replies to any messages, on no lane: a call *)
(* is a sequence of statements, and the calls of two replies interleave    *)
(* between them.  A statement is atomic: the store has one connection.     *)
(*                                                                         *)
(* One chat is modelled, every query being by chat or by the id of a list. *)
(* Titles and texts are in lower case, as they are compared; ids stand for *)
(* the nanosecond they are made in; the order of the items of a list, the  *)
(* authors and the times are left out.  A list is never deleted.           *)
(***************************************************************************)
EXTENDS Integers, Sequences, FiniteSets

CONSTANTS
  Replies,  \* the replies that call tools
  Lists,    \* ids of lists and notes
  Items,    \* ids of items; none is made twice
  Titles, Texts,
  Asks,     \* the tool calls a model makes
  Faults,   \* what may fail: "store", "embed"; "blank": an empty vector
  None, Gone

Tools == {"add_note", "add_list_items", "remove", "complete", "uncomplete", "other"}
Rows == [kind : {"note", "list"}, title : Titles]
ItemRows == [list : Lists, text : Texts, done : BOOLEAN]
(* What ListEmbeddingText writes: every entry as often as it is there. *)
Snapshots == [Texts \X BOOLEAN -> Nat]

Adds(a) == a.tool \in {"add_note", "add_list_items"}
KindOf(a) == IF a.tool = "add_note" THEN "note" ELSE "list"

ASSUME ListsAssumption ==
  /\ IsFiniteSet(Items)
  /\ Asks \subseteq [tool : Tools, title : Titles, texts : Seq(Texts), ids : SUBSET Items]
  /\ \A a \in Asks : Adds(a) => a.texts # <<>>
  /\ None \notin Lists \cup Rows \cup Snapshots \cup Asks \cup {"ok", "error"}
  /\ None \notin ItemRows /\ Gone \notin ItemRows /\ None # Gone

VARIABLES
  list,    \* the table of lists: id -> row, or None
  item,    \* the table of items: id -> row, None before and Gone after
  index,   \* the vectors: id of a list -> what it was made from, or None
  dead,    \* whether the context of a reply has been cancelled
  (* the tool call of a reply: where it is, and its locals *)
  tpc, ask, at, todo, named, seen,
  answer,  \* what it returned: "ok", "error", or None
  (* history: no other call has worked on the same list meanwhile; lists  *)
  (* whose last change did not go through, or not alone                   *)
  alone, disturbed

tableVars == <<list, item>>
callVars == <<tpc, ask, at, todo, named, seen, answer>>
listVars == <<list, item, index, dead, tpc, ask, at, todo, named, seen, answer,
              alone, disturbed>>

ListsInit ==
  /\ list = [l \in Lists |-> None] /\ item = [i \in Items |-> None]
  /\ index = [l \in Lists |-> None]
  /\ dead = [r \in Replies |-> FALSE]
  /\ tpc = [r \in Replies |-> "idle"] /\ ask = [r \in Replies |-> None]
  /\ at = [r \in Replies |-> None] /\ todo = [r \in Replies |-> <<>>]
  /\ named = [r \in Replies |-> {}] /\ seen = [r \in Replies |-> None]
  /\ answer = [r \in Replies |-> None]
  /\ alone = [r \in Replies |-> TRUE] /\ disturbed = {}

Goto(r, pc) == tpc' = [tpc EXCEPT ![r] = pc]

(* The call returns, and its locals go. *)
Return(r, result) ==
  /\ answer' = [answer EXCEPT ![r] = result]
  /\ Goto(r, "idle")
  /\ ask' = [ask EXCEPT ![r] = None] /\ at' = [at EXCEPT ![r] = None]
  /\ todo' = [todo EXCEPT ![r] = <<>>] /\ named' = [named EXCEPT ![r] = {}]
  /\ seen' = [seen EXCEPT ![r] = None]

(* What is in a list, and how often. *)
In(l) == {i \in Items : item[i] \in ItemRows /\ item[i].list = l}
EmbeddingText(l) ==
  [entry \in Texts \X BOOLEAN |->
     Cardinality({i \in In(l) : <<item[i].text, item[i].done>> = entry})]

(* From its first change of a list until it returns, a call works on it. *)
Working(r, l) == tpc[r] \in {"add", "scan", "embed"} /\ at[r] = l

Joined(r, l) ==
  [q \in Replies |->
     IF q = r THEN \A p \in Replies \ {r} : ~Working(p, l)
              ELSE alone[q] /\ ~Working(q, l)]

Unfinished(r) == {l \in Lists : Working(r, l)}

----------------------------------------------------------------------------

(* ExecuteTool: a call that is refused, or only reads, or is none of the   *)
(* lists' tools, leaves them as they are and returns.                      *)
ExecuteTool(r, a) ==
  /\ tpc[r] = "idle" /\ answer[r] = None
  /\ IF a.tool = "other"
     THEN /\ \E result \in (IF dead[r] THEN {"error"} ELSE {"ok", "error"}) :
               answer' = [answer EXCEPT ![r] = result]
          /\ UNCHANGED <<tpc, ask, todo>>
     ELSE /\ Goto(r, "find")
          /\ ask' = [ask EXCEPT ![r] = a]
          /\ todo' = [todo EXCEPT ![r] = IF Adds(a) THEN a.texts ELSE <<>>]
          /\ UNCHANGED answer
  /\ UNCHANGED <<tableVars, index, dead, at, named, seen, alone, disturbed>>

(* FindListByTitle takes one of the lists of that title and kind; the      *)
(* query has no order.                                                     *)
Titled(a) == {l \in Lists : list[l] = [kind |-> KindOf(a), title |-> a.title]}

Find(r) ==
  /\ tpc[r] = "find" /\ ~dead[r]
  /\ \/ \E l \in Titled(ask[r]) :
          /\ at' = [at EXCEPT ![r] = l]
          /\ IF Adds(ask[r]) THEN Goto(r, "add") /\ alone' = Joined(r, l)
                             ELSE Goto(r, "resolve") /\ UNCHANGED alone
          /\ UNCHANGED <<ask, todo, named, seen, answer>>
     \/ /\ Titled(ask[r]) = {} /\ Adds(ask[r])
        /\ Goto(r, "create")
        /\ UNCHANGED <<ask, at, todo, named, seen, answer, alone>>
     \/ /\ Titled(ask[r]) = {} /\ ~Adds(ask[r])
        /\ Return(r, "error")
        /\ UNCHANGED alone
  /\ UNCHANGED <<tableVars, index, dead, disturbed>>

(* NewListID, NewListItemID: an id never used.  An instance that has none  *)
(* left makes the insert fail.                                             *)
New(ids, table) == CHOOSE id \in ids : table[id] = None
NoIdLeft(r) == \/ tpc[r] = "create" /\ \A l \in Lists : list[l] # None
               \/ tpc[r] = "add" /\ \A i \in Items : item[i] # None

(* findOrCreateList: the new list has no vector yet. *)
Create(r) ==
  /\ tpc[r] = "create" /\ ~dead[r]
  /\ ~NoIdLeft(r)
  /\ LET l == New(Lists, list)
     IN  /\ list' = [list EXCEPT ![l] = [kind |-> KindOf(ask[r]), title |-> ask[r].title]]
         /\ at' = [at EXCEPT ![r] = l]
         /\ alone' = Joined(r, l)
  /\ Goto(r, "add")
  /\ UNCHANGED <<item, index, dead, ask, todo, named, seen, answer, disturbed>>

(* AddListItem, one statement for each text. *)
Add(r) ==
  /\ tpc[r] = "add" /\ ~dead[r]
  /\ todo[r] # <<>>
  /\ ~NoIdLeft(r)
  /\ item' = [item EXCEPT ![New(Items, item)] =
                [list |-> at[r], text |-> Head(todo[r]), done |-> FALSE]]
  /\ todo' = [todo EXCEPT ![r] = Tail(@)]
  /\ Goto(r, IF Len(todo[r]) > 1 THEN "add" ELSE "scan")
  /\ UNCHANGED <<list, index, dead, ask, at, named, seen, answer, alone, disturbed>>

(* resolveListItemIDs: the ids that are in the list, and all the items of  *)
(* the texts; without any the call is an error.                            *)
Matches(a, l) == {i \in In(l) : i \in a.ids \/ \E n \in DOMAIN a.texts :
                                                  a.texts[n] = item[i].text}

Resolve(r) ==
  /\ tpc[r] = "resolve" /\ ~dead[r]
  /\ IF Matches(ask[r], at[r]) = {}
     THEN Return(r, "error")
     ELSE /\ named' = [named EXCEPT ![r] = Matches(ask[r], at[r])]
          /\ Goto(r, "mutate")
          /\ UNCHANGED <<ask, at, todo, seen, answer>>
  /\ UNCHANGED <<tableVars, index, dead, alone, disturbed>>

(* DeleteListItems, SetListItemsDone: one statement for all the ids. *)
Changed(i, tool) ==
  IF tool = "remove" THEN Gone ELSE [item[i] EXCEPT !.done = (tool = "complete")]

Mutate(r) ==
  /\ tpc[r] = "mutate" /\ ~dead[r]
  /\ LET hit == named[r] \cap In(at[r])
     IN  /\ item' = [i \in Items |-> IF i \in hit THEN Changed(i, ask[r].tool) ELSE item[i]]
         /\ alone' = Joined(r, at[r])
         /\ IF hit = named[r]
            THEN Goto(r, "scan") /\ UNCHANGED <<ask, at, todo, named, seen, answer, disturbed>>
            ELSE (* "expected to update %d items": no new vector *)
                 /\ Return(r, "error")
                 /\ disturbed' = IF hit = {} THEN disturbed ELSE disturbed \cup {at[r]}
  /\ UNCHANGED <<list, index, dead>>

(* Reindex: read the list and its items, have them embedded by a remote    *)
(* service, and store the vector that comes back.  UpsertList leaves the   *)
(* old vector for an empty one.                                            *)
Scan(r) ==
  /\ tpc[r] = "scan" /\ ~dead[r]
  /\ seen' = [seen EXCEPT ![r] = EmbeddingText(at[r])]
  /\ Goto(r, "embed")
  /\ UNCHANGED <<tableVars, index, dead, ask, at, todo, named, answer, alone, disturbed>>

KeepsFirst(old, new) == IF old = None THEN new ELSE old
Replaced(old, new) == IF new = None THEN old ELSE new

Index(r) ==
  /\ tpc[r] = "embed" /\ ~dead[r]
  /\ \E vector \in {seen[r]} \cup (IF "blank" \in Faults THEN {None} ELSE {}) :
       /\ index' = [index EXCEPT ![at[r]] = Replaced(@, vector)]
       /\ disturbed' = IF alone[r] /\ vector # None THEN disturbed \ {at[r]}
                                                   ELSE disturbed \cup {at[r]}
  /\ Return(r, "ok")
  /\ UNCHANGED <<tableVars, dead, alone>>

(* A statement or the embedding fails, as everything does once the context *)
(* is cancelled.                                                           *)
Fail(r) ==
  /\ tpc[r] # "idle"
  /\ \/ dead[r] \/ NoIdLeft(r)
     \/ (IF tpc[r] = "embed" THEN "embed" ELSE "store") \in Faults
  /\ disturbed' = disturbed \cup Unfinished(r)
  /\ Return(r, "error")
  /\ UNCHANGED <<tableVars, index, dead, alone>>

Step(r) ==
  \/ Find(r) \/ Create(r) \/ Add(r) \/ Resolve(r) \/ Mutate(r)
  \/ Scan(r) \/ Index(r) \/ Fail(r)

(* The caller takes the result. *)
TakeAnswer(r) ==
  /\ answer[r] # None
  /\ answer' = [answer EXCEPT ![r] = None]
  /\ UNCHANGED <<tableVars, index, dead, tpc, ask, at, todo, named, seen, alone, disturbed>>

(* The message of the reply is edited or deleted. *)
CancelContext(r) ==
  /\ ~dead[r]
  /\ dead' = [dead EXCEPT ![r] = TRUE]
  /\ UNCHANGED <<tableVars, index, callVars, alone, disturbed>>

ListsNext ==
  \E r \in Replies :
    \/ \E a \in Asks : ExecuteTool(r, a)
    \/ Step(r) \/ TakeAnswer(r) \/ CancelContext(r)

ListsSpec == ListsInit /\ [][ListsNext]_listVars

----------------------------------------------------------------------------

ListsTypeOK ==
  /\ list \in [Lists -> Rows \cup {None}]
  /\ item \in [Items -> ItemRows \cup {None, Gone}]
  /\ index \in [Lists -> Snapshots \cup {None}]
  /\ dead \in [Replies -> BOOLEAN]
  /\ tpc \in [Replies -> {"idle", "find", "create", "add", "resolve", "mutate", "scan",
                          "embed"}]
  /\ ask \in [Replies -> Asks \cup {None}]
  /\ at \in [Replies -> Lists \cup {None}]
  /\ todo \in [Replies -> Seq(Texts)]
  /\ named \in [Replies -> SUBSET Items]
  /\ seen \in [Replies -> Snapshots \cup {None}]
  /\ answer \in [Replies -> {"ok", "error", None}]
  /\ alone \in [Replies -> BOOLEAN]
  /\ disturbed \subseteq Lists

(* The vector of a list that nobody works on is made from what the list    *)
(* holds, so that a search by content finds it, unless its last change     *)
(* failed half way or met another one: and then the next call that goes    *)
(* through alone repairs it (Reindex in list_indexer.go and its callers).  *)
FoundByContent ==
  \A l \in Lists :
    (/\ list[l] # None /\ l \notin disturbed
     /\ \A r \in Replies : ~Working(r, l))
      => index[l] = EmbeddingText(l)
==============================================================================
