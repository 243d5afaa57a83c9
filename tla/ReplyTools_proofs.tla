-------------------------- MODULE ReplyTools_proofs --------------------------
(***************************************************************************)
(* Lists and ReplyTools for any number of replies, lists and items, any    *)
(* calls and faults, and any limits of attempts and steps.                 *)
(***************************************************************************)
EXTENDS ReplyTools, FiniteSetTheorems, TLAPS

(* Where a call holds which of its locals. *)
Located(r) ==
  /\ tpc[r] # "idle" => ask[r] \in Asks
  /\ tpc[r] \in {"add", "resolve", "mutate", "scan", "embed"} => at[r] \in Lists
  /\ tpc[r] = "embed" => seen[r] \in Snapshots

(* A call that has been alone has seen what the list holds now. *)
Undisturbed(r) ==
  alone[r] =>
    /\ \A l \in Lists : Working(r, l) => \A q \in Replies \ {r} : ~Working(q, l)
    /\ tpc[r] = "embed" => seen[r] = EmbeddingText(at[r])

CallsInv == \A r \in Replies : Located(r) /\ Undisturbed(r)
ListsInv == ListsTypeOK /\ CallsInv /\ FoundByContent

(* The entries of a list are counted by natural numbers. *)
LEMMA TextType == ASSUME NEW l \in Lists PROVE EmbeddingText(l) \in Snapshots
<1> SUFFICES ASSUME NEW entry \in Texts \X BOOLEAN
             PROVE  Cardinality({i \in In(l) : <<item[i].text, item[i].done>> = entry}) \in Nat
  BY DEF EmbeddingText, Snapshots
<1> DEFINE S == {i \in In(l) : <<item[i].text, item[i].done>> = entry}
<1>1. S \subseteq Items
  BY DEF In
<1>2. IsFiniteSet(S)
  BY <1>1, ListsAssumption, FS_Subset
<1> QED BY <1>2, FS_CardinalityType

(* What becomes of the items of other lists does not matter to a list. *)
LEMMA SameText ==
  ASSUME NEW l \in Lists,
         \A i \in Items : item'[i] = item[i] \/ (i \notin In(l) /\ i \notin In(l)')
  PROVE  EmbeddingText(l)' = EmbeddingText(l)
<1>1. In(l)' = In(l)
  BY DEF In
<1>2. \A i \in In(l) : item'[i] = item[i]
  BY DEF In
<1>3. ASSUME NEW entry \in Texts \X BOOLEAN
      PROVE  {i \in In(l)' : <<item'[i].text, item'[i].done>> = entry}
               = {i \in In(l) : <<item[i].text, item[i].done>> = entry}
  BY <1>1, <1>2
<1> QED BY <1>3 DEF EmbeddingText

LEMMA ListsInitInv == ListsInit => ListsInv
<1> SUFFICES ASSUME ListsInit PROVE ListsInv
  OBVIOUS
<1> USE DEF ListsInit
<1>1. ListsTypeOK
  BY DEF ListsTypeOK
<1>2. CallsInv
  BY DEF CallsInv, Located, Undisturbed, Working
<1>3. FoundByContent
  BY DEF FoundByContent
<1> QED BY <1>1, <1>2, <1>3 DEF ListsInv

(* A call that returns: its locals go, those of the others stay. *)
LEMMA ReturnFacts ==
  ASSUME NEW r \in Replies, NEW result \in {"ok", "error"}, ListsTypeOK, Return(r, result)
  PROVE  /\ tpc' \in [Replies -> {"idle", "find", "create", "add", "resolve", "mutate",
                                  "scan", "embed"}]
         /\ ask' \in [Replies -> Asks \cup {None}]
         /\ at' \in [Replies -> Lists \cup {None}]
         /\ todo' \in [Replies -> Seq(Texts)]
         /\ named' \in [Replies -> SUBSET Items]
         /\ seen' \in [Replies -> Snapshots \cup {None}]
         /\ answer' \in [Replies -> {"ok", "error", None}]
         /\ tpc'[r] = "idle"
         /\ \A q \in Replies \ {r} : /\ tpc'[q] = tpc[q] /\ at'[q] = at[q]
                                     /\ ask'[q] = ask[q] /\ seen'[q] = seen[q]
<1> USE DEF ListsTypeOK, Return, Goto
<1>1. todo' \in [Replies -> Seq(Texts)]
  <2>1. <<>> \in Seq(Texts)
    OBVIOUS
  <2> QED BY <2>1
<1> QED BY <1>1

(* A step of a call that touches neither tables nor vectors nor history    *)
(* keeps the invariant if it keeps its types, the state of the others and  *)
(* what is known of its own.                                               *)
LEMMA QuietInv ==
  ASSUME ListsInv, NEW r \in Replies, ListsTypeOK',
         UNCHANGED <<list, item, index, disturbed, alone>>,
         \A q \in Replies \ {r} : /\ tpc'[q] = tpc[q] /\ at'[q] = at[q]
                                  /\ ask'[q] = ask[q] /\ seen'[q] = seen[q],
         \A l \in Lists : Working(r, l)' <=> Working(r, l),
         Located(r)',
         (alone[r] /\ tpc'[r] = "embed") => seen'[r] = EmbeddingText(at'[r])
  PROVE  ListsInv'
<1>1. \A q \in Replies, l \in Lists : Working(q, l)' <=> Working(q, l)
  BY DEF Working
<1>2. ASSUME NEW l \in Lists PROVE EmbeddingText(l)' = EmbeddingText(l)
  BY SameText DEF ListsInv
<1>3. ASSUME NEW q \in Replies PROVE Located(q)' /\ Undisturbed(q)'
  <2>1. Located(q)'
    BY DEF ListsInv, CallsInv, Located
  <2>2. ASSUME alone'[q], NEW l \in Lists, Working(q, l)'
        PROVE  \A p \in Replies \ {q} : ~Working(p, l)'
    BY <1>1, <2>2 DEF ListsInv, CallsInv, Undisturbed
  <2>3. ASSUME alone'[q], tpc'[q] = "embed" PROVE seen'[q] = EmbeddingText(at[q])'
    <3>1. PICK l \in Lists : l = at'[q]
      BY <2>1, <2>3 DEF Located
    <3>2. EmbeddingText(l)' = EmbeddingText(l)
      BY <1>2
    <3>3. EmbeddingText(at[q])' = EmbeddingText(l)'
      BY <3>1 DEF EmbeddingText, In
    <3>4. CASE q = r
      BY <2>3, <3>1, <3>2, <3>3, <3>4
    <3>5. CASE q # r
      BY <2>3, <3>1, <3>2, <3>3, <3>5 DEF ListsInv, CallsInv, Undisturbed
    <3> QED BY <3>4, <3>5
  <2> QED BY <2>1, <2>2, <2>3 DEF Undisturbed
<1>4. FoundByContent'
  BY <1>1, <1>2 DEF ListsInv, FoundByContent
<1> QED BY <1>3, <1>4 DEF ListsInv, CallsInv

LEMMA ExecuteToolInv ==
  ASSUME NEW r \in Replies, NEW a \in Asks, ListsInv, ExecuteTool(r, a)
  PROVE  ListsInv'
<1> USE DEF ExecuteTool, Goto
<1>1. ListsTypeOK'
  <2>1. todo' \in [Replies -> Seq(Texts)]
    <3>1. <<>> \in Seq(Texts) /\ a.texts \in Seq(Texts)
      BY ListsAssumption
    <3> QED BY <3>1 DEF ListsInv, ListsTypeOK
  <2> QED BY <2>1 DEF ListsInv, ListsTypeOK, tableVars
<1>2. Located(r)'
  BY DEF ListsInv, ListsTypeOK, CallsInv, Located, tableVars
<1>3. \A l \in Lists : Working(r, l)' <=> Working(r, l)
  BY DEF ListsInv, ListsTypeOK, Working
<1> QED BY <1>1, <1>2, <1>3, QuietInv DEF ListsInv, ListsTypeOK, tableVars

LEMMA TakeAnswerInv ==
  ASSUME NEW r \in Replies, ListsInv, TakeAnswer(r) \/ CancelContext(r)
  PROVE  ListsInv'
<1> USE DEF TakeAnswer, CancelContext, tableVars, callVars
<1>1. ListsTypeOK'
  BY DEF ListsInv, ListsTypeOK
<1>2. Located(r)' /\ \A l \in Lists : Working(r, l)' <=> Working(r, l)
  BY DEF ListsInv, ListsTypeOK, CallsInv, Located, Working
<1> QED BY <1>1, <1>2, QuietInv DEF ListsInv, CallsInv, Undisturbed

(* A step of a call that works on l0 afterwards, and changes no other list *)
(* and no vector, keeps the invariant if whoever is still held to be alone *)
(* is alone on l0, or elsewhere.                                           *)
LEMMA WorkInv ==
  ASSUME ListsInv, NEW r \in Replies, NEW l0 \in Lists, ListsTypeOK',
         UNCHANGED <<index, disturbed>>,
         \A q \in Replies \ {r} : /\ tpc'[q] = tpc[q] /\ at'[q] = at[q]
                                  /\ ask'[q] = ask[q] /\ seen'[q] = seen[q],
         Located(r)', tpc'[r] \in {"add", "scan"}, at'[r] = l0,
         \A l \in Lists \ {l0} : list'[l] = list[l] /\ ~Working(r, l),
         \A i \in Items : \/ item'[i] = item[i]
                          \/ \A l \in Lists \ {l0} : i \notin In(l) /\ i \notin In(l)',
         \A q \in Replies :
           alone'[q] => IF q = r THEN \A p \in Replies \ {r} : ~Working(p, l0)
                                 ELSE alone[q] /\ ~Working(q, l0)
  PROVE  ListsInv'
<1>1. ASSUME NEW q \in Replies \ {r}, NEW l \in Lists PROVE Working(q, l)' <=> Working(q, l)
  BY DEF Working
<1>2. ASSUME NEW l \in Lists PROVE Working(r, l)' <=> l = l0
  BY DEF Working
<1>3. ASSUME NEW l \in Lists \ {l0} PROVE EmbeddingText(l)' = EmbeddingText(l)
  BY SameText
<1>4. ASSUME NEW q \in Replies PROVE Located(q)' /\ Undisturbed(q)'
  <2>1. Located(q)'
    BY DEF ListsInv, CallsInv, Located
  <2>2. ASSUME alone'[q], NEW l \in Lists, Working(q, l)',
               NEW p \in Replies \ {q}
        PROVE  ~Working(p, l)'
    <3>1. CASE q = r
      BY <1>1, <1>2, <2>2, <3>1
    <3>2. CASE q # r
      <4>1. Working(q, l) /\ alone[q] /\ l # l0
        BY <1>1, <2>2, <3>2
      <4> QED BY <1>1, <1>2, <4>1 DEF ListsInv, CallsInv, Undisturbed
    <3> QED BY <3>1, <3>2
  <2>3. ASSUME alone'[q], tpc'[q] = "embed" PROVE seen'[q] = EmbeddingText(at[q])'
    <3>1. q # r /\ tpc[q] = "embed" /\ alone[q]
      BY <2>3
    <3>2. PICK l \in Lists : l = at[q]
      BY <3>1 DEF ListsInv, CallsInv, Located
    <3>3. l # l0
      BY <2>3, <3>1, <3>2 DEF Working
    <3>4. EmbeddingText(at[q])' = EmbeddingText(l)'
      <4>1. l = at'[q]
        BY <3>1, <3>2
      <4> QED BY <4>1 DEF EmbeddingText, In
    <3> QED BY <1>3, <3>1, <3>2, <3>3, <3>4 DEF ListsInv, CallsInv, Undisturbed
  <2> QED BY <2>1, <2>2, <2>3 DEF Undisturbed
<1>5. FoundByContent'
  <2> SUFFICES ASSUME NEW l \in Lists, list'[l] # None, l \notin disturbed,
                      \A q \in Replies : ~Working(q, l)'
               PROVE  index[l] = EmbeddingText(l)'
    BY DEF FoundByContent
  <2>1. l # l0
    BY <1>2
  <2>2. \A q \in Replies : ~Working(q, l)
    BY <1>1, <2>1
  <2> QED BY <1>3, <2>1, <2>2 DEF ListsInv, FoundByContent
<1> QED BY <1>4, <1>5 DEF ListsInv, CallsInv

LEMMA FindInv == ASSUME NEW r \in Replies, ListsInv, Find(r) PROVE ListsInv'
<1> USE DEF ListsInv
<1>0. ask[r] \in Asks /\ \A l \in Lists : ~Working(r, l)
  BY DEF Find, CallsInv, Located, Working
<1>1. ASSUME NEW l0 \in Titled(ask[r]), at' = [at EXCEPT ![r] = l0],
             Goto(r, "add"), alone' = Joined(r, l0),
             UNCHANGED <<tableVars, index, dead, disturbed, ask, todo, named, seen, answer>>
      PROVE  ListsInv'
  <2>1. l0 \in Lists
    BY DEF Titled
  <2>2. ListsTypeOK' /\ Located(r)'
    BY <1>0, <1>1, <2>1 DEF ListsTypeOK, tableVars, Goto, Joined, Located
  <2> QED BY <1>0, <1>1, <2>1, <2>2, WorkInv DEF ListsTypeOK, tableVars, Goto, Joined
<1>2. ASSUME NEW l0 \in Titled(ask[r]), at' = [at EXCEPT ![r] = l0],
             Goto(r, "resolve"), UNCHANGED alone,
             UNCHANGED <<tableVars, index, dead, disturbed, ask, todo, named, seen, answer>>
      PROVE  ListsInv'
  <2>1. l0 \in Lists
    BY DEF Titled
  <2>2. ListsTypeOK' /\ Located(r)'
    BY <1>0, <1>2, <2>1 DEF ListsTypeOK, tableVars, Goto, Located
  <2>3. \A l \in Lists : ~Working(r, l)'
    BY <1>2 DEF ListsTypeOK, Goto, Working
  <2> QED BY <1>0, <1>2, <2>2, <2>3, QuietInv DEF ListsTypeOK, tableVars, Goto
<1>3. ASSUME Goto(r, "create"), UNCHANGED <<ask, at, todo, named, seen, answer, alone>>,
             UNCHANGED <<tableVars, index, dead, disturbed>>
      PROVE  ListsInv'
  <2>1. ListsTypeOK' /\ Located(r)'
    BY <1>0, <1>3 DEF ListsTypeOK, tableVars, Goto, Located
  <2>2. \A l \in Lists : ~Working(r, l)'
    BY <1>3 DEF ListsTypeOK, Goto, Working
  <2> QED BY <1>0, <1>3, <2>1, <2>2, QuietInv DEF ListsTypeOK, tableVars, Goto
<1>4. ASSUME Return(r, "error"), UNCHANGED alone,
             UNCHANGED <<tableVars, index, dead, disturbed>>
      PROVE  ListsInv'
  <2>1. ListsTypeOK' /\ Located(r)'
    BY <1>4, ReturnFacts DEF ListsTypeOK, tableVars, Located
  <2>2. \A l \in Lists : ~Working(r, l)'
    BY <1>4, ReturnFacts DEF Working
  <2> QED BY <1>0, <1>4, <2>1, <2>2, ReturnFacts, QuietInv DEF tableVars
<1> QED BY <1>1, <1>2, <1>3, <1>4 DEF Find

LEMMA CreateInv == ASSUME NEW r \in Replies, ListsInv, Create(r) PROVE ListsInv'
<1> USE DEF ListsInv
<1> DEFINE l0 == New(Lists, list)
<1>1. l0 \in Lists
  BY DEF Create, New, NoIdLeft
<1>2. /\ ask[r] \in Asks /\ ask' = ask /\ tpc[r] = "create"
      /\ \A l \in Lists : ~Working(r, l)
      /\ list' = [list EXCEPT ![l0] = [kind |-> KindOf(ask[r]), title |-> ask[r].title]]
      /\ at' = [at EXCEPT ![r] = l0] /\ alone' = Joined(r, l0)
      /\ Goto(r, "add")
      /\ UNCHANGED <<item, index, dead, ask, todo, named, seen, answer, disturbed>>
  BY DEF Create, CallsInv, Located, Working
<1> HIDE DEF l0
<1>3. [kind |-> KindOf(ask[r]), title |-> ask[r].title] \in Rows
  BY <1>2, ListsAssumption DEF Rows, KindOf
<1>4. ListsTypeOK' /\ Located(r)'
  BY <1>1, <1>2, <1>3 DEF ListsTypeOK, Goto, Joined, Located
<1> QED BY <1>1, <1>2, <1>4, WorkInv DEF ListsTypeOK, Goto, Joined

LEMMA AddInv == ASSUME NEW r \in Replies, ListsInv, Add(r) PROVE ListsInv'
<1> USE DEF ListsInv
<1> DEFINE i0 == New(Items, item)
           l0 == at[r]
           new == [list |-> l0, text |-> Head(todo[r]), done |-> FALSE]
<1>1. i0 \in Items /\ item[i0] = None
  BY DEF Add, New, NoIdLeft
<1>2. /\ ask[r] \in Asks /\ tpc[r] = "add" /\ Working(r, l0) /\ l0 \in Lists
      /\ todo[r] \in Seq(Texts) /\ todo[r] # <<>>
      /\ item' = [item EXCEPT ![i0] = new]
      /\ todo' = [todo EXCEPT ![r] = Tail(@)]
      /\ Goto(r, IF Len(todo[r]) > 1 THEN "add" ELSE "scan")
      /\ UNCHANGED <<list, index, dead, ask, at, named, seen, answer, alone, disturbed>>
  BY DEF Add, ListsTypeOK, CallsInv, Located, Working
<1> HIDE DEF i0
<1>3. new \in ItemRows /\ Tail(todo[r]) \in Seq(Texts)
  <2>1. Head(todo[r]) \in Texts /\ Tail(todo[r]) \in Seq(Texts)
    BY <1>2
  <2> QED BY <1>2, <2>1 DEF ItemRows
<1>4. ListsTypeOK' /\ Located(r)'
  BY <1>1, <1>2, <1>3 DEF ListsTypeOK, Goto, Located
<1>5. \A i \in Items : \/ item'[i] = item[i]
                       \/ \A l \in Lists \ {l0} : i \notin In(l) /\ i \notin In(l)'
  BY <1>1, <1>2, ListsAssumption DEF ListsTypeOK, In
<1>6. ASSUME NEW q \in Replies, alone'[q]
      PROVE  IF q = r THEN \A p \in Replies \ {r} : ~Working(p, l0)
                      ELSE alone[q] /\ ~Working(q, l0)
  BY <1>2, <1>6 DEF CallsInv, Undisturbed
<1>7. \A l \in Lists \ {l0} : ~Working(r, l)
  BY DEF Working
<1> QED BY <1>2, <1>4, <1>5, <1>6, <1>7, WorkInv DEF ListsTypeOK, Goto

LEMMA ResolveInv == ASSUME NEW r \in Replies, ListsInv, Resolve(r) PROVE ListsInv'
<1> USE DEF ListsInv
<1>0. /\ ask[r] \in Asks /\ at[r] \in Lists /\ \A l \in Lists : ~Working(r, l)
      /\ UNCHANGED <<tableVars, index, dead, alone, disturbed>>
  BY DEF Resolve, CallsInv, Located, Working
<1>1. ASSUME Return(r, "error") PROVE ListsInv'
  <2>1. ListsTypeOK' /\ Located(r)'
    BY <1>0, <1>1, ReturnFacts DEF ListsTypeOK, tableVars, Located
  <2>2. \A l \in Lists : ~Working(r, l)'
    BY <1>1, ReturnFacts DEF Working
  <2> QED BY <1>0, <1>1, <2>1, <2>2, ReturnFacts, QuietInv DEF tableVars
<1>2. ASSUME named' = [named EXCEPT ![r] = Matches(ask[r], at[r])], Goto(r, "mutate"),
             UNCHANGED <<ask, at, todo, seen, answer>>
      PROVE  ListsInv'
  <2>1. Matches(ask[r], at[r]) \subseteq Items
    BY DEF Matches, In
  <2>2. ListsTypeOK' /\ Located(r)'
    BY <1>0, <1>2, <2>1 DEF ListsTypeOK, tableVars, Goto, Located
  <2>3. \A l \in Lists : ~Working(r, l)'
    BY <1>2 DEF ListsTypeOK, Goto, Working
  <2> QED BY <1>0, <1>2, <2>2, <2>3, QuietInv DEF ListsTypeOK, tableVars, Goto
<1> QED BY <1>1, <1>2 DEF Resolve

LEMMA ScanInv == ASSUME NEW r \in Replies, ListsInv, Scan(r) PROVE ListsInv'
<1> USE DEF ListsInv
<1>1. /\ ask[r] \in Asks /\ at[r] \in Lists /\ tpc[r] = "scan"
      /\ seen' = [seen EXCEPT ![r] = EmbeddingText(at[r])] /\ Goto(r, "embed")
      /\ UNCHANGED <<tableVars, index, dead, ask, at, todo, named, answer, alone, disturbed>>
  BY DEF Scan, CallsInv, Located
<1>2. EmbeddingText(at[r]) \in Snapshots
  BY <1>1, TextType
<1>3. ListsTypeOK' /\ Located(r)'
  BY <1>1, <1>2 DEF ListsTypeOK, tableVars, Goto, Located
<1>4. \A l \in Lists : Working(r, l)' <=> Working(r, l)
  BY <1>1 DEF ListsTypeOK, Goto, Working
<1>5. seen'[r] = EmbeddingText(at'[r])
  BY <1>1 DEF ListsTypeOK
<1> QED BY <1>1, <1>3, <1>4, <1>5, QuietInv DEF ListsTypeOK, tableVars, Goto

(* A call that returns leaves the others alone, and the lists fresh that   *)
(* are neither disturbed nor worked on.                                    *)
LEMMA LeaveInv ==
  ASSUME ListsInv, NEW r \in Replies, NEW l0 \in Lists, ListsTypeOK',
         tpc'[r] = "idle", UNCHANGED list,
         \A q \in Replies \ {r} : /\ tpc'[q] = tpc[q] /\ at'[q] = at[q]
                                  /\ ask'[q] = ask[q] /\ seen'[q] = seen[q],
         \A i \in Items : \/ item'[i] = item[i]
                          \/ \A l \in Lists \ {l0} : i \notin In(l) /\ i \notin In(l)',
         \A l \in Lists \ {l0} :
           ~Working(r, l) /\ index'[l] = index[l] /\ (l \in disturbed' <=> l \in disturbed),
         \A q \in Replies \ {r} : alone'[q] => alone[q],
         EmbeddingText(l0)' = EmbeddingText(l0)
           \/ \A q \in Replies \ {r} : alone'[q] => ~Working(q, l0),
         l0 \in disturbed' \/ index'[l0] = EmbeddingText(l0)'
           \/ (/\ ~Working(r, l0) /\ l0 \notin disturbed /\ index'[l0] = index[l0]
               /\ EmbeddingText(l0)' = EmbeddingText(l0))
  PROVE  ListsInv'
<1>1. ASSUME NEW q \in Replies \ {r}, NEW l \in Lists PROVE Working(q, l)' <=> Working(q, l)
  BY DEF Working
<1>2. ASSUME NEW l \in Lists PROVE ~Working(r, l)'
  BY DEF Working
<1>3. ASSUME NEW l \in Lists \ {l0} PROVE EmbeddingText(l)' = EmbeddingText(l)
  BY SameText
<1>4. ASSUME NEW q \in Replies PROVE Located(q)' /\ Undisturbed(q)'
  <2>1. Located(q)'
    BY DEF ListsInv, CallsInv, Located
  <2>2. ASSUME alone'[q], NEW l \in Lists, Working(q, l)', NEW p \in Replies \ {q}
        PROVE  ~Working(p, l)'
    <3>1. q # r /\ Working(q, l) /\ alone[q]
      BY <1>1, <1>2, <2>2
    <3> QED BY <1>1, <1>2, <3>1 DEF ListsInv, CallsInv, Undisturbed
  <2>3. ASSUME alone'[q], tpc'[q] = "embed" PROVE seen'[q] = EmbeddingText(at[q])'
    <3>1. q # r /\ tpc[q] = "embed" /\ alone[q]
      BY <2>3
    <3>2. PICK l \in Lists : l = at[q]
      BY <3>1 DEF ListsInv, CallsInv, Located
    <3>3. EmbeddingText(l)' = EmbeddingText(l)
      BY <1>3, <2>3, <3>1, <3>2 DEF Working
    <3>4. EmbeddingText(at[q])' = EmbeddingText(l)'
      <4>1. l = at'[q]
        BY <3>1, <3>2
      <4> QED BY <4>1 DEF EmbeddingText, In
    <3> QED BY <3>1, <3>2, <3>3, <3>4 DEF ListsInv, CallsInv, Undisturbed
  <2> QED BY <2>1, <2>2, <2>3 DEF Undisturbed
<1>5. FoundByContent'
  <2> SUFFICES ASSUME NEW l \in Lists, list'[l] # None, l \notin disturbed',
                      \A q \in Replies : ~Working(q, l)'
               PROVE  index'[l] = EmbeddingText(l)'
    BY DEF FoundByContent
  <2>1. \A q \in Replies \ {r} : ~Working(q, l)
    BY <1>1
  <2>2. CASE l # l0
    <3>1. \A q \in Replies : ~Working(q, l)
      BY <2>1, <2>2
    <3> QED BY <1>3, <2>2, <3>1 DEF ListsInv, FoundByContent
  <2>3. CASE l = l0
    <3>1. CASE index'[l0] = EmbeddingText(l0)'
      BY <2>3, <3>1
    <3>2. CASE /\ ~Working(r, l0) /\ l0 \notin disturbed /\ index'[l0] = index[l0]
               /\ EmbeddingText(l0)' = EmbeddingText(l0)
      <4>1. \A q \in Replies : ~Working(q, l)
        BY <2>1, <2>3, <3>2
      <4> QED BY <2>3, <3>2, <4>1 DEF ListsInv, FoundByContent
    <3> QED BY <2>3, <3>1, <3>2
  <2> QED BY <2>2, <2>3
<1> QED BY <1>4, <1>5 DEF ListsInv, CallsInv

LEMMA MutateInv == ASSUME NEW r \in Replies, ListsInv, Mutate(r) PROVE ListsInv'
<1> USE DEF ListsInv
<1>0. PICK l0 \in Lists : l0 = at[r]
  BY DEF Mutate, CallsInv, Located
<1> DEFINE hit == named[r] \cap In(l0)
<1>1. /\ ask[r] \in Asks /\ tpc[r] = "mutate" /\ l0 = at[r]
      /\ item' = [i \in Items |-> IF i \in hit THEN Changed(i, ask[r].tool) ELSE item[i]]
      /\ alone' = Joined(r, l0)
      /\ UNCHANGED <<list, index, dead>>
      /\ \A l \in Lists : ~Working(r, l)
  BY <1>0 DEF Mutate, CallsInv, Located, Working
<1>2. ASSUME NEW i \in hit
      PROVE  /\ Changed(i, ask[r].tool) \in ItemRows \cup {Gone}
             /\ Changed(i, ask[r].tool) \in ItemRows => Changed(i, ask[r].tool).list = l0
             /\ item[i] \in ItemRows /\ item[i].list = l0
  BY ListsAssumption DEF Changed, In, ItemRows
<1>3. item' \in [Items -> ItemRows \cup {None, Gone}] /\ alone' \in [Replies -> BOOLEAN]
  BY <1>1, <1>2 DEF ListsTypeOK, Joined
<1>4. ASSUME NEW i \in Items, item'[i] # item[i], NEW l \in Lists \ {l0}
      PROVE  i \notin In(l) /\ i \notin In(l)'
  <2>1. i \in hit /\ item'[i] = Changed(i, ask[r].tool)
    BY <1>1, <1>4
  <2> QED BY <1>2, <1>4, <2>1 DEF In
<1>5. CASE hit = named[r]
  <2>1. Goto(r, "scan") /\ UNCHANGED <<ask, at, todo, named, seen, answer, disturbed>>
    BY <1>0, <1>5 DEF Mutate
  <2>2. ListsTypeOK' /\ Located(r)'
    BY <1>1, <1>3, <2>1 DEF ListsTypeOK, Goto, Located
  <2> QED BY <1>1, <1>4, <2>1, <2>2, WorkInv DEF ListsTypeOK, Goto, Joined
<1>6. CASE hit # named[r]
  <2>1. /\ Return(r, "error")
        /\ disturbed' = IF hit = {} THEN disturbed ELSE disturbed \cup {l0}
    BY <1>0, <1>6 DEF Mutate
  <2>2. ListsTypeOK'
    BY <1>1, <1>3, <2>1, ReturnFacts DEF ListsTypeOK
  <2>3. \A q \in Replies \ {r} : alone'[q] => alone[q] /\ ~Working(q, l0)
    BY <1>1 DEF Joined
  <2>4. ASSUME hit = {} PROVE EmbeddingText(l0)' = EmbeddingText(l0)
    <3>1. \A i \in Items : item'[i] = item[i]
      BY <1>1, <2>4
    <3> QED BY <3>1, SameText
  <2> HIDE DEF hit
  <2> QED BY <1>1, <1>4, <2>1, <2>2, <2>3, <2>4, ReturnFacts, LeaveInv
<1> QED BY <1>5, <1>6

LEMMA IndexInv == ASSUME NEW r \in Replies, ListsInv, Index(r) PROVE ListsInv'
<1> USE DEF ListsInv
<1>1. PICK l0 \in Lists : l0 = at[r]
  BY DEF Index, CallsInv, Located
<1>2. PICK vector \in {seen[r], None} :
        /\ index' = [index EXCEPT ![l0] = Replaced(@, vector)]
        /\ disturbed' = IF alone[r] /\ vector # None THEN disturbed \ {l0}
                                                    ELSE disturbed \cup {l0}
  BY <1>1 DEF Index
<1>3. /\ tpc[r] = "embed" /\ Return(r, "ok") /\ UNCHANGED <<tableVars, dead, alone>>
      /\ seen[r] \in Snapshots
  BY DEF Index, CallsInv, Located
<1>4. ListsTypeOK'
  <2>1. Replaced(index[l0], vector) \in Snapshots \cup {None}
    BY <1>3 DEF ListsTypeOK, Replaced
  <2> QED BY <1>2, <1>3, <2>1, ReturnFacts DEF ListsTypeOK, tableVars
<1>5. EmbeddingText(l0)' = EmbeddingText(l0)
  BY <1>3, SameText DEF tableVars
<1>6. l0 \in disturbed' \/ index'[l0] = EmbeddingText(l0)'
  <2> SUFFICES ASSUME alone[r], vector = seen[r], vector # None
               PROVE  index'[l0] = EmbeddingText(l0)
    BY <1>2, <1>5
  <2>1. index'[l0] = seen[r]
    BY <1>2 DEF ListsTypeOK, Replaced
  <2> QED BY <1>1, <1>3, <2>1 DEF CallsInv, Undisturbed
<1>7. \A l \in Lists \ {l0} :
        ~Working(r, l) /\ index'[l] = index[l] /\ (l \in disturbed' <=> l \in disturbed)
  BY <1>1, <1>2 DEF ListsTypeOK, Working
<1> QED BY <1>3, <1>4, <1>5, <1>6, <1>7, ReturnFacts, LeaveInv DEF tableVars

LEMMA FailInv == ASSUME NEW r \in Replies, ListsInv, Fail(r) PROVE ListsInv'
<1> USE DEF ListsInv
<1>1. /\ disturbed' = disturbed \cup Unfinished(r) /\ Return(r, "error")
      /\ UNCHANGED <<tableVars, index, dead, alone>>
  BY DEF Fail
<1>2. ListsTypeOK'
  BY <1>1, ReturnFacts DEF ListsTypeOK, tableVars, Unfinished
<1>3. CASE \E l \in Lists : Working(r, l)
  <2>1. PICK l0 \in Lists : Working(r, l0)
    BY <1>3
  <2>2. EmbeddingText(l0)' = EmbeddingText(l0)
    BY <1>1, SameText DEF tableVars
  <2>3. Unfinished(r) = {l0} /\ \A l \in Lists \ {l0} : ~Working(r, l)
    BY <2>1 DEF Unfinished, Working
  <2> QED BY <1>1, <1>2, <2>2, <2>3, ReturnFacts, LeaveInv DEF tableVars
<1>4. CASE ~\E l \in Lists : Working(r, l)
  <2>1. Unfinished(r) = {} /\ \A l \in Lists : ~Working(r, l)' <=> ~Working(r, l)
    BY <1>1, <1>4, ReturnFacts DEF Unfinished, Working
  <2>2. Located(r)' /\ tpc'[r] # "embed"
    BY <1>1, ReturnFacts DEF Located
  <2> QED BY <1>1, <1>2, <2>1, <2>2, ReturnFacts, QuietInv DEF tableVars
<1> QED BY <1>3, <1>4

(* Every statement of every call keeps it. *)
LEMMA ListsStepInv == ListsInv /\ [ListsNext]_listVars => ListsInv'
<1> SUFFICES ASSUME ListsInv, [ListsNext]_listVars PROVE ListsInv'
  OBVIOUS
<1>1. ASSUME NEW r \in Replies, NEW a \in Asks, ExecuteTool(r, a) PROVE ListsInv'
  BY <1>1, ExecuteToolInv
<1>2. ASSUME NEW r \in Replies, Step(r) PROVE ListsInv'
  <2>1. CASE Find(r)
    BY <2>1, FindInv
  <2>2. CASE Create(r)
    BY <2>2, CreateInv
  <2>3. CASE Add(r)
    BY <2>3, AddInv
  <2>4. CASE Resolve(r)
    BY <2>4, ResolveInv
  <2>5. CASE Mutate(r)
    BY <2>5, MutateInv
  <2>6. CASE Scan(r)
    BY <2>6, ScanInv
  <2>7. CASE Index(r)
    BY <2>7, IndexInv
  <2>8. CASE Fail(r)
    BY <2>8, FailInv
  <2> QED BY <1>2, <2>1, <2>2, <2>3, <2>4, <2>5, <2>6, <2>7, <2>8 DEF Step
<1>3. ASSUME NEW r \in Replies, TakeAnswer(r) \/ CancelContext(r) PROVE ListsInv'
  BY <1>3, TakeAnswerInv
<1>4. ASSUME UNCHANGED listVars PROVE ListsInv'
  <2>1. ListsTypeOK'
    BY <1>4 DEF listVars, ListsInv, ListsTypeOK
  <2>2. CallsInv'
    <3>1. \A r \in Replies : Located(r)'
      BY <1>4 DEF listVars, ListsInv, CallsInv, Located
    <3>2. \A r \in Replies, l \in Lists : Working(r, l)' <=> Working(r, l)
      BY <1>4 DEF listVars, Working
    <3>3. \A r \in Replies : EmbeddingText(at[r])' = EmbeddingText(at[r])
      BY <1>4 DEF listVars, EmbeddingText, In
    <3> QED BY <1>4, <3>1, <3>2, <3>3 DEF listVars, ListsInv, CallsInv, Undisturbed
  <2>3. FoundByContent'
    BY <1>4 DEF listVars, ListsInv, FoundByContent, Working, EmbeddingText, In
  <2> QED BY <2>1, <2>2, <2>3 DEF ListsInv
<1> QED BY <1>1, <1>2, <1>3, <1>4 DEF ListsNext

(* Whoever calls the tools, in whatever order and however often, the       *)
(* vector of a list is made from what it holds unless its last change      *)
(* failed half way or met another one.                                     *)
THEOREM ListsFoundByContent == ListsSpec => []FoundByContent
<1>1. ListsSpec => []ListsInv
  BY ListsInitInv, ListsStepInv, PTL DEF ListsSpec
<1>2. ListsInv => FoundByContent
  BY DEF ListsInv
<1> QED BY <1>1, <1>2, PTL

-----------------------------------------------------------------------------

(* What each phase knows of the conversation. *)
Conversed(r) ==
  /\ owed[r] = IF phase[r] = "tools" THEN Len(pending[r]) ELSE 0
  /\ phase[r] = "tools" => pending[r] # <<>>

(* The one late request is the last thing a reply does, but for giving up. *)
Cancelled(r) ==
  late[r] = 0 \/ (late[r] = 1 /\ dead[r] /\ phase[r] \in {"request", "backoff", "error"})

LoopInv ==
  TypeOK /\ \A r \in Replies : Conversed(r) /\ Cancelled(r)

LEMMA LoopInit == Init => LoopInv
<1> SUFFICES ASSUME Init PROVE LoopInv
  OBVIOUS
<1>1. ListsTypeOK
  BY ListsInitInv DEF Init, ListsInv
<1>2. pending \in [Replies -> Seq(Asks)]
  <2>1. <<>> \in Seq(Asks)
    OBVIOUS
  <2> QED BY <2>1 DEF Init
<1>3. TypeOK
  BY <1>1, <1>2, ReplyToolsAssumption DEF Init, TypeOK
<1> QED BY <1>3 DEF Init, LoopInv, Conversed, Cancelled

(* Every step of the loop is a step of the lists' tools, or none of theirs. *)
LEMMA CallsOnly == LoopInv /\ [Next]_vars => [ListsNext]_listVars
<1> SUFFICES ASSUME LoopInv, [Next]_vars PROVE [ListsNext]_listVars
  OBVIOUS
<1>1. ASSUME NEW r \in Replies, CallTool(r) PROVE ListsNext
  <2>1. pending[r] \in Seq(Asks) /\ pending[r] # <<>>
    BY <1>1 DEF CallTool, LoopInv, TypeOK, Conversed
  <2>2. Head(pending[r]) \in Asks
    BY <2>1
  <2> QED BY <1>1, <2>2 DEF CallTool, ListsNext
<1>2. ASSUME NEW r \in Replies, ToolStep(r) PROVE ListsNext
  BY <1>2 DEF ToolStep, ListsNext
<1>3. ASSUME NEW r \in Replies, ToolReturns(r) \/ Cancel(r) PROVE ListsNext
  BY <1>3 DEF ToolReturns, Cancel, ListsNext
<1>4. ASSUME NEW r \in Replies,
             \/ RequestFails(r) \/ Empty(r) \/ Text(r) \/ ToolCalls(r)
             \/ RetryTimer(r) \/ RetryCancelled(r)
      PROVE  UNCHANGED listVars
  BY <1>4 DEF RequestFails, Empty, Text, ToolCalls, RetryTimer, RetryCancelled
<1>5. CASE UNCHANGED vars
  BY <1>5 DEF vars
<1> QED BY <1>1, <1>2, <1>3, <1>4, <1>5 DEF Next, Act, AllOver

(* What FailAttempt and Continue leave behind. *)
LEMMA FailAttemptInv ==
  ASSUME NEW r \in Replies, LoopInv, ListsTypeOK', FailAttempt(r), UNCHANGED dead,
         phase[r] = "request"
           \/ (phase[r] = "tools" /\ late[r] = 0),
         pending' \in [Replies -> Seq(Asks)],
         \A q \in Replies \ {r} : pending'[q] = pending[q]
  PROVE  LoopInv'
<1> USE DEF FailAttempt, Enter
<1>1. attempt' \in [Replies -> Nat] /\ \A q \in Replies : attempt'[q] \in 1..MaxAttempts[q]
  <2>1. MaxAttempts[r] \in Nat /\ attempt[r] \in 1..MaxAttempts[r] /\ attempt \in [Replies -> Nat]
    BY ReplyToolsAssumption DEF LoopInv, TypeOK
  <2>2. \/ UNCHANGED attempt
        \/ /\ attempt[r] + 1 \in 1..MaxAttempts[r]
           /\ attempt' = [attempt EXCEPT ![r] = attempt[r] + 1]
    BY <2>1 DEF NextAttempt
  <2>3. \A q \in Replies : attempt[q] \in 1..MaxAttempts[q]
    BY DEF LoopInv, TypeOK
  <2>4. attempt' \in [Replies -> Nat]
    <3>1. attempt[r] + 1 \in Nat
      BY <2>1
    <3> QED BY <2>1, <2>2, <3>1
  <2>5. ASSUME NEW q \in Replies PROVE attempt'[q] \in 1..MaxAttempts[q]
    BY <2>1, <2>2, <2>3
  <2> QED BY <2>4, <2>5
<1>2. step' \in [Replies -> 0..(MaxSteps - 1)]
  <2>1. 0 \in 0..(MaxSteps - 1)
    BY ReplyToolsAssumption
  <2> QED BY <2>1 DEF LoopInv, TypeOK
<1>3. /\ phase' \in [Replies -> {"request", "tools", "backoff", "text", "error"}]
      /\ nudged' \in [Replies -> BOOLEAN] /\ owed' \in [Replies -> Nat]
      /\ late' \in [Replies -> Nat]
  BY DEF LoopInv, TypeOK
<1>4. TypeOK'
  BY <1>1, <1>2, <1>3 DEF TypeOK
<1>5. ASSUME NEW q \in Replies PROVE Conversed(q)' /\ Cancelled(q)'
  BY DEF LoopInv, TypeOK, Conversed, Cancelled
<1> QED BY <1>4, <1>5 DEF LoopInv

LEMMA ContinueInv ==
  ASSUME NEW r \in Replies, NEW nudge \in BOOLEAN, LoopInv, ListsTypeOK',
         Continue(r, nudge, 0), UNCHANGED dead,
         (phase[r] = "request" /\ ~dead[r]) \/ phase[r] = "tools",
         pending' \in [Replies -> Seq(Asks)],
         \A q \in Replies \ {r} : pending'[q] = pending[q]
  PROVE  LoopInv'
<1>1. late[r] = 0
  BY DEF LoopInv, Cancelled
<1>2. CASE StepsLeft(r)
  <2> USE <1>2 DEF Continue, Request, Enter
  <2>1. step' \in [Replies -> 0..(MaxSteps - 1)]
    <3>1. step \in [Replies -> 0..(MaxSteps - 1)] /\ step[r] + 1 < MaxSteps /\ MaxSteps \in Nat
      BY ReplyToolsAssumption DEF LoopInv, TypeOK, StepsLeft
    <3>2. step[r] + 1 \in 0..(MaxSteps - 1) /\ step' = [step EXCEPT ![r] = step[r] + 1]
      BY <3>1
    <3> QED BY <3>1, <3>2
  <2>2. /\ phase' \in [Replies -> {"request", "tools", "backoff", "text", "error"}]
        /\ nudged' \in [Replies -> BOOLEAN]
    BY DEF LoopInv, TypeOK
  <2>3. owed' \in [Replies -> Nat]
    <3>1. owed \in [Replies -> Nat]
      BY DEF LoopInv, TypeOK
    <3>2. owed' = [owed EXCEPT ![r] = 0]
      OBVIOUS
    <3> QED BY <3>1, <3>2
  <2>4. late' \in [Replies -> Nat]
    <3>1. late \in [Replies -> Nat]
      BY DEF LoopInv, TypeOK
    <3>2. (IF dead[r] THEN late[r] + 1 ELSE late[r]) \in Nat
      BY <3>1
    <3> QED BY <3>1, <3>2
  <2>5. TypeOK'
    <3>1. attempt' = attempt
      OBVIOUS
    <3> QED BY <2>1, <2>2, <2>3, <2>4, <3>1 DEF LoopInv, TypeOK
  <2>6. ASSUME NEW q \in Replies PROVE Conversed(q)' /\ Cancelled(q)'
    BY <1>1 DEF LoopInv, TypeOK, Conversed, Cancelled
  <2> QED BY <2>5, <2>6 DEF LoopInv
<1>3. CASE ~StepsLeft(r)
  BY <1>1, <1>3, FailAttemptInv DEF Continue
<1> QED BY <1>2, <1>3

(* The types of the loop hold where it is not touched. *)
LEMMA LoopSame ==
  ASSUME LoopInv, ListsTypeOK', UNCHANGED <<loopVars, dead>> PROVE LoopInv'
<1>1. TypeOK'
  BY DEF LoopInv, TypeOK, loopVars
<1>2. ASSUME NEW r \in Replies PROVE Conversed(r)' /\ Cancelled(r)'
  BY DEF LoopInv, Conversed, Cancelled, loopVars
<1> QED BY <1>1, <1>2 DEF LoopInv

LEMMA ToolsKeepContexts ==
  ASSUME NEW r \in Replies, Step(r) \/ TakeAnswer(r) \/ \E a \in Asks : ExecuteTool(r, a)
  PROVE  dead' = dead
BY DEF Step, Find, Create, Add, Resolve, Mutate, Scan, Index, Fail, TakeAnswer, ExecuteTool

LEMMA ToolReturnsInv ==
  ASSUME NEW r \in Replies, LoopInv, ListsTypeOK', ToolReturns(r) PROVE LoopInv'
<1>1. /\ phase[r] = "tools" /\ dead' = dead
      /\ pending[r] \in Seq(Asks) /\ pending[r] # <<>>
      /\ owed[r] = Len(pending[r]) /\ Results(r) = 1
      /\ nudged[r] \in BOOLEAN
  BY ToolsKeepContexts DEF ToolReturns, LoopInv, TypeOK, Conversed, Results
<1>2. /\ pending' \in [Replies -> Seq(Asks)]
      /\ pending'[r] = Tail(pending[r])
      /\ \A q \in Replies \ {r} : pending'[q] = pending[q]
  <2>1. Tail(pending[r]) \in Seq(Asks)
    BY <1>1
  <2> QED BY <2>1 DEF ToolReturns, LoopInv, TypeOK
<1>3. /\ Len(pending[r]) \in Nat /\ Len(pending[r]) # 0
      /\ Len(Tail(pending[r])) = Len(pending[r]) - 1
  BY <1>1
<1>4. CASE Len(pending[r]) > 1
  <2>1. /\ owed' = [owed EXCEPT ![r] = Len(pending[r]) - 1]
        /\ UNCHANGED <<phase, attempt, step, nudged, late>>
    BY <1>1, <1>4 DEF ToolReturns
  <2>2. TypeOK'
    BY <1>2, <1>3, <2>1 DEF LoopInv, TypeOK
  <2>3. Tail(pending[r]) # <<>>
    <3> DEFINE n == Len(pending[r])
    <3>1. n \in Nat /\ n > 1 /\ Len(Tail(pending[r])) = n - 1
      BY <1>3, <1>4
    <3> HIDE DEF n
    <3>2. n - 1 # 0
      BY <3>1
    <3>3. Len(<<>>) = 0
      OBVIOUS
    <3> QED BY <3>1, <3>2, <3>3, Zenon
  <2>4. ASSUME NEW q \in Replies PROVE Conversed(q)' /\ Cancelled(q)'
    BY <1>1, <1>2, <1>3, <2>1, <2>3 DEF LoopInv, TypeOK, Conversed, Cancelled
  <2> QED BY <2>2, <2>4 DEF LoopInv
<1>5. CASE ~(Len(pending[r]) > 1)
  <2>1. owed[r] - Results(r) = 0
    <3> DEFINE n == Len(pending[r])
    <3>1. n \in Nat /\ n # 0 /\ ~(n > 1) /\ owed[r] = n
      BY <1>1, <1>3, <1>5
    <3> HIDE DEF n
    <3> QED BY <1>1, <3>1
  <2>2. Continue(r, nudged[r], 0)
    BY <1>5, <2>1 DEF ToolReturns
  <2> QED BY <1>1, <1>2, <2>2, ContinueInv
<1> QED BY <1>4, <1>5

LEMMA RequestInv ==
  ASSUME NEW r \in Replies, LoopInv, ListsTypeOK',
         RequestFails(r) \/ Empty(r) \/ Text(r) \/ ToolCalls(r)
  PROVE  LoopInv'
<1>1. phase[r] = "request" /\ owed[r] = 0 /\ dead' = dead
  BY DEF LoopInv, Conversed, RequestFails, Empty, Text, ToolCalls, listVars
<1>2. CASE FailAttempt(r) /\ UNCHANGED pending
  BY <1>1, <1>2, FailAttemptInv DEF LoopInv, TypeOK
<1>3. CASE Continue(r, TRUE, owed[r]) /\ ~dead[r] /\ UNCHANGED pending
  BY <1>1, <1>3, ContinueInv DEF LoopInv, TypeOK
<1>4. CASE Text(r)
  <2> USE DEF Text, Enter
  <2>1. TypeOK'
    BY <1>4 DEF LoopInv, TypeOK
  <2>2. ASSUME NEW q \in Replies PROVE Conversed(q)' /\ Cancelled(q)'
    BY <1>1, <1>4 DEF LoopInv, TypeOK, Conversed, Cancelled
  <2> QED BY <2>1, <2>2 DEF LoopInv
<1>5. CASE ToolCalls(r)
  <2>1. PICK turn \in Turns[r] : /\ pending' = [pending EXCEPT ![r] = turn]
                                 /\ owed' = [owed EXCEPT ![r] = @ + Len(turn)]
    BY <1>5 DEF ToolCalls
  <2>2. turn \in Seq(Asks) /\ turn # <<>> /\ Len(turn) \in Nat
    BY ReplyToolsAssumption
  <2>3. /\ pending' \in [Replies -> Seq(Asks)] /\ pending'[r] = turn
        /\ owed' \in [Replies -> Nat] /\ owed'[r] = Len(turn)
        /\ \A q \in Replies \ {r} : pending'[q] = pending[q] /\ owed'[q] = owed[q]
    BY <1>1, <2>1, <2>2 DEF LoopInv, TypeOK
  <2>4. /\ phase' = [phase EXCEPT ![r] = "tools"] /\ ~dead[r]
        /\ UNCHANGED <<attempt, step, nudged, late>>
    BY <1>5 DEF ToolCalls, Enter
  <2>5. TypeOK'
    BY <2>3, <2>4 DEF LoopInv, TypeOK
  <2>6. ASSUME NEW q \in Replies PROVE Conversed(q)' /\ Cancelled(q)'
    BY <1>1, <2>2, <2>3, <2>4 DEF LoopInv, TypeOK, Conversed, Cancelled
  <2> QED BY <2>5, <2>6 DEF LoopInv
<1> QED BY <1>2, <1>3, <1>4, <1>5 DEF RequestFails, Empty

LEMMA BackoffInv ==
  ASSUME NEW r \in Replies, LoopInv, ListsTypeOK', RetryTimer(r) \/ RetryCancelled(r)
  PROVE  LoopInv'
<1>1. /\ phase[r] = "backoff"
      /\ phase' = [phase EXCEPT ![r] = "request"] \/ phase' = [phase EXCEPT ![r] = "error"]
      /\ UNCHANGED <<attempt, step, nudged, pending, owed, dead, late>>
  BY DEF RetryTimer, RetryCancelled, TimerMayFire, Request, Enter, listVars, LoopInv, TypeOK
<1>2. TypeOK'
  BY <1>1 DEF LoopInv, TypeOK
<1>3. ASSUME NEW q \in Replies PROVE Conversed(q)' /\ Cancelled(q)'
  BY <1>1 DEF LoopInv, TypeOK, Conversed, Cancelled
<1> QED BY <1>2, <1>3 DEF LoopInv

LEMMA CancelInv ==
  ASSUME NEW r \in Replies, LoopInv, ListsTypeOK', Cancel(r) PROVE LoopInv'
<1>1. dead' = [dead EXCEPT ![r] = TRUE] /\ UNCHANGED loopVars
  BY DEF Cancel, CancelContext
<1>2. TypeOK'
  BY <1>1 DEF LoopInv, TypeOK, loopVars
<1>3. ASSUME NEW q \in Replies PROVE Conversed(q)' /\ Cancelled(q)'
  BY <1>1 DEF LoopInv, TypeOK, ListsTypeOK, Conversed, Cancelled, loopVars
<1> QED BY <1>2, <1>3 DEF LoopInv

Inv == ListsInv /\ LoopInv

LEMMA InvStep == Inv /\ [Next]_vars => Inv'
<1> SUFFICES ASSUME Inv, [Next]_vars PROVE Inv'
  OBVIOUS
<1>1. ListsInv' /\ ListsTypeOK'
  BY CallsOnly, ListsStepInv DEF Inv, ListsInv
<1>2. ASSUME NEW r \in Replies, Act(r) PROVE LoopInv'
  <2>1. CASE RequestFails(r) \/ Empty(r) \/ Text(r) \/ ToolCalls(r)
    BY <1>1, <2>1, RequestInv DEF Inv
  <2>2. CASE CallTool(r) \/ ToolStep(r)
    <3>1. dead' = dead /\ UNCHANGED loopVars
      BY <2>2 DEF CallTool, ToolStep, ExecuteTool, Step, Find, Create, Add, Resolve, Mutate,
                  Scan, Index, Fail
    <3> QED BY <1>1, <3>1, LoopSame DEF Inv
  <2>3. CASE ToolReturns(r)
    BY <1>1, <2>3, ToolReturnsInv DEF Inv
  <2>4. CASE RetryTimer(r) \/ RetryCancelled(r)
    BY <1>1, <2>4, BackoffInv DEF Inv
  <2> QED BY <1>2, <2>1, <2>2, <2>3, <2>4 DEF Act
<1>3. ASSUME NEW r \in Replies, Cancel(r) PROVE LoopInv'
  BY <1>1, <1>3, CancelInv DEF Inv
<1>4. ASSUME UNCHANGED vars PROVE LoopInv'
  BY <1>1, <1>4, LoopSame DEF Inv, vars, listVars
<1>5. LoopInv'
  <2>1. CASE \E r \in Replies : Act(r) \/ Cancel(r)
    BY <1>2, <1>3, <2>1
  <2>2. CASE AllOver \/ UNCHANGED vars
    <3>1. UNCHANGED vars
      BY <2>2 DEF AllOver
    <3> QED BY <1>4, <3>1
  <2> QED BY <2>1, <2>2 DEF Next
<1> QED BY <1>1, <1>5 DEF Inv

LEMMA InvHolds == Spec => []Inv
<1>1. Init => Inv
  BY LoopInit, ListsInitInv DEF Init, Inv
<1> QED BY <1>1, InvStep, PTL DEF Spec

(* Every value has its type, and no attempt and no step is beyond its      *)
(* limit.                                                                  *)
THEOREM TypeCorrect == Spec => []TypeOK
<1>1. Inv => TypeOK
  BY DEF Inv, LoopInv
<1> QED BY <1>1, InvHolds, PTL

(* The loop is one of the ways to call the tools on lists. *)
THEOREM LoopCallsLists == Spec => ListsSpec
<1>1. Inv /\ [Next]_vars => [ListsNext]_listVars
  BY CallsOnly DEF Inv
<1>2. Init => ListsInit
  BY DEF Init
<1> QED BY <1>1, <1>2, InvHolds, PTL DEF Spec, ListsSpec

(* Lists are found by what they hold, whatever replies do to them at once. *)
THEOREM AlwaysFoundByContent == Spec => []FoundByContent
BY LoopCallsLists, ListsFoundByContent, PTL

(* No request has a tool call in it without a result. *)
THEOREM NoCallUnanswered == Spec => []EveryCallAnswered
<1>1. Inv => EveryCallAnswered
  BY DEF Inv, LoopInv, Conversed, EveryCallAnswered
<1> QED BY <1>1, InvHolds, PTL

(* A reply whose message is gone sends one more request at most. *)
THEOREM OneLateRequest == Spec => []OneRequestAfterCancel
<1>1. Inv => OneRequestAfterCancel
  BY DEF Inv, LoopInv, Cancelled, OneRequestAfterCancel
<1> QED BY <1>1, InvHolds, PTL
==============================================================================
