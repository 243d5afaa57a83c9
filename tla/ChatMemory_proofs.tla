------------------------- MODULE ChatMemory_proofs -------------------------
(***************************************************************************)
(* ChatMemory for any chats, messages, edits, deletions, failures and      *)
(* bounds.                                                                 *)
(***************************************************************************)
EXTENDS ChatMemory, FiniteSetTheorems, TLAPS

Assumptions == TableAssumption /\ NoRowAssumption /\ MemoryAssumption /\ NoneAssumption

LEMMA Assumed == Assumptions
BY TableAssumption, NoRowAssumption, MemoryAssumption, NoneAssumption DEF Assumptions

(* TypeOK without the limit of a chat. *)
Types ==
  /\ rows \in [RowIds -> Rows \cup {None}]
  /\ vecs \in [RowIds -> Vectors \cup {None}]
  /\ docs \in [Docs -> (SUBSET Facts) \cup {None}]
  /\ topicChat \in [TopicIds -> Chats \cup {None}]
  /\ version \in [Messages -> Nat]
  /\ phase \in [Incoming -> {"new", "preparing", "prepared", "updated"}]
  /\ wanted \in [Incoming -> Nat]
  /\ removed \subseteq Messages
  /\ located \in 0 .. MaxLocations
  /\ job \in [Workers -> Jobs \cup {None}]

Limited == \A c \in Chats : Cardinality(InChat(rows, c)) <= Limit

(* Every row is the only one of its message. *)
OneRowEach ==
  \A i, j \in RowIds :
    (rows[i] # None /\ rows[j] # None /\ rows[i].msg = rows[j].msg) => i = j

(* A vector without regard to its text. *)
VectorHasRow ==
  \A i \in RowIds :
    vecs[i] # None =>
      /\ rows[i] # None
      /\ vecs[i].msg = rows[i].msg
      /\ vecs[i].chat = ChatOf[rows[i].msg]

OfChat(t, m) == t \in TopicIds /\ topicChat[t] = ChatOf[m]
Usable(t, m) == t = None \/ (OfChat(t, m) /\ docs[t] # None)

(* Where a lane's job holds what, and what it may be about. *)
LaneJob(w, j) ==
  /\ j.msg \in Messages
  /\ w[1] = ChatOf[j.msg]
  /\ j.kind # "location"
  /\ w[2] = "prepare" <=> j.kind = "prepare"
  /\ j.kind \in {"prepare", "update", "new", "edit", "same"} => j.msg \in Incoming
  /\ j.kind = "own" => j.msg \in Own /\ j.text = 0
  /\ j.kind = "update" => j.at = "find"
  /\ j.kind \in {"prepare", "own"} => j.at \in {"assign", "topic", "message"}
  /\ j.kind = "new" => j.at \in {"look", "profile", "assign", "topic", "message"}
  /\ j.kind = "edit" => j.at \in {"message", "patch", "topic", "look", "profile"}
  /\ j.kind = "same" => j.at \in {"message", "look", "profile"}
  /\ j.kind = "delete" => j.at \in {"find", "remove", "patch", "topic", "look", "profile"}
  /\ j.at = "assign" => j.doc = None
  /\ j.at \in {"topic", "patch"} => OfChat(j.doc, j.msg)
  /\ j.at = "patch" => docs[j.doc] # None
  /\ j.at \in {"message", "remove"} => Usable(j.doc, j.msg)
  /\ j.at = "message" /\ j.kind \in {"edit", "same"} => j.doc # None
  /\ j.at \in {"look", "profile"} => Sender[j.msg] # Self
  /\ j.at = "profile" => j.doc = Sender[j.msg]

LoopJob(j) ==
  /\ j.kind = "location"
  /\ j.at \in {"look", "profile"}
  /\ j.doc \in People

JobOK(w) ==
  job[w] # None => IF w = EventLoop THEN LoopJob(job[w]) ELSE LaneJob(w, job[w])

(* A topic that is written has been given out, and to one chat. *)
TopicsKnown == \A t \in TopicIds : docs[t] # None => topicChat[t] # None

ControlInv ==
  /\ \A w \in Workers : JobOK(w)
  /\ TopicsKnown
  /\ TopicOfItsChat

(* The texts of a message are written in the order of its edits. *)
Ordered(m) ==
  /\ \A w \in Workers : (job[w] # None /\ job[w].msg = m) =>
       /\ job[w].kind = "prepare" =>
            phase[m] = "preparing" /\ wanted[m] = job[w].text + 1
       /\ job[w].kind \in {"update", "new", "edit", "same"} =>
            /\ phase[m] = "updated"
            /\ job[w].text <= version[m]
            /\ \A i \in RowIds : IsRowOf(i, m) => rows[i].text <= job[w].text
  /\ wanted[m] <= version[m] + 1
  /\ phase[m] # "updated" =>
       \A i \in RowIds : IsRowOf(i, m) => rows[i].text < wanted[m]
  /\ \A i \in RowIds : IsRowOf(i, m) => rows[i].text <= version[m]

OrderInv ==
  /\ \A m \in Incoming : Ordered(m)
  /\ \A i \in RowIds : (rows[i] # None /\ rows[i].msg \in Own) => rows[i].text = 0
  /\ \A i \in RowIds : vecs[i] # None => vecs[i].text <= rows[i].text

(* What is read is still there, or others of its writers wrote since. *)
Fresh(w, d) ==
  Holds(w, d) =>
    /\ job[w].since \subseteq WritersOf(d) \ {w}
    /\ FactsOf(d) \subseteq job[w].copy \/ job[w].since # {}

FreshInv == \A w \in Workers, d \in Docs : Fresh(w, d)

TableInv == OneRowEach /\ VectorHasRow /\ Limited

----------------------------------------------------------------------------
(* The tables. *)

(* What a transaction leaves of a row: nothing, the row, or m's row with   *)
(* its new topic and text, and its vector with it.                         *)
Left(i) == rows'[i] = None /\ vecs'[i] = None
Kept(i) == rows'[i] = rows[i] /\ vecs'[i] = vecs[i]
Put(i, m, text, topic, e) ==
  /\ rows'[i] = [msg |-> m, text |-> text, topic |-> topic]
  /\ vecs'[i] = IF e THEN [chat |-> ChatOf[m], msg |-> m, text |-> text] ELSE vecs[i]

Upserted(m, text, topic, e) ==
  /\ rows' \in [RowIds -> Rows \cup {None}]
  /\ vecs' \in [RowIds -> Vectors \cup {None}]
  /\ \E i \in RowIds :
       /\ rows[i] # None => rows[i].msg = m
       /\ rows[i] = None => \A k \in RowIds : rows[k] # None => rows[k].msg # m
       /\ Left(i) \/ Put(i, m, text, topic, e)
       /\ \A k \in RowIds \ {i} : Left(k) \/ Kept(k)

LEMMA UpsertEffect ==
  ASSUME Types, NEW m \in Messages, NEW text \in Nat, NEW topic \in TopicIds \cup {None},
         NEW e \in BOOLEAN, UpsertMessage(m, text, topic, e)
  PROVE  Upserted(m, text, topic, e)
<1> PICK i \in RowIds :
      /\ IsRowOf(i, m) \/ (~Stored(m) /\ IsNewRow(i))
      /\ LET put == [rows EXCEPT ![i] = [msg |-> m, text |-> text, topic |-> topic]]
             vec == [chat |-> ChatOf[m], msg |-> m, text |-> text]
         IN  \E S \in Stale(put, ChatOf[m]) :
               /\ rows' = Without(put, S)
               /\ vecs' = WithoutVectors(IF e THEN [vecs EXCEPT ![i] = vec] ELSE vecs, S)
  BY DEF UpsertMessage
<1> DEFINE row == [msg |-> m, text |-> text, topic |-> topic]
           vec == [chat |-> ChatOf[m], msg |-> m, text |-> text]
           put == [rows EXCEPT ![i] = row]
           vecput == IF e THEN [vecs EXCEPT ![i] = vec] ELSE vecs
<1>1. PICK S \in Stale(put, ChatOf[m]) :
        rows' = Without(put, S) /\ vecs' = WithoutVectors(vecput, S)
  OBVIOUS
<1>2. row \in Rows /\ vec \in Vectors
  BY DEF Rows, Vectors
<1>3. put \in [RowIds -> Rows \cup {None}] /\ vecput \in [RowIds -> Vectors \cup {None}]
  BY <1>2 DEF Types
<1>4. \A k \in RowIds : rows'[k] = (IF k \in S THEN None ELSE put[k])
                       /\ vecs'[k] = (IF k \in S THEN None ELSE vecput[k])
  BY <1>1 DEF Without, WithoutVectors
<1>5. rows' \in [RowIds -> Rows \cup {None}] /\ vecs' \in [RowIds -> Vectors \cup {None}]
  BY <1>1, <1>3 DEF Without, WithoutVectors
<1>6. /\ rows[i] # None => rows[i].msg = m
      /\ rows[i] = None => \A k \in RowIds : rows[k] # None => rows[k].msg # m
  BY DEF IsRowOf, Stored, IsNewRow, RowIds
<1>7. put[i] = row /\ vecput[i] = IF e THEN vec ELSE vecs[i]
  BY DEF Types
<1>8. Left(i) \/ Put(i, m, text, topic, e)
  BY <1>4, <1>7 DEF Left, Put
<1>9. ASSUME NEW k \in RowIds \ {i} PROVE Left(k) \/ Kept(k)
  <2>1. put[k] = rows[k] /\ vecput[k] = vecs[k]
    BY DEF Types
  <2> QED BY <1>4, <2>1 DEF Left, Kept
<1> QED BY <1>5, <1>6, <1>8, <1>9 DEF Upserted

(* What a chat has left is within the limit; other chats are not touched. *)
LEMMA UpsertLimited ==
  ASSUME Types, Limited, NEW m \in Messages, NEW text \in Nat,
         NEW topic \in TopicIds \cup {None}, NEW e \in BOOLEAN,
         UpsertMessage(m, text, topic, e)
  PROVE  Limited'
<1> PICK i \in RowIds :
      /\ IsRowOf(i, m) \/ (~Stored(m) /\ IsNewRow(i))
      /\ LET put == [rows EXCEPT ![i] = [msg |-> m, text |-> text, topic |-> topic]]
         IN  \E S \in Stale(put, ChatOf[m]) : rows' = Without(put, S)
  BY DEF UpsertMessage
<1> DEFINE row == [msg |-> m, text |-> text, topic |-> topic]
           put == [rows EXCEPT ![i] = row]
<1>1. PICK S \in Stale(put, ChatOf[m]) : rows' = Without(put, S)
  OBVIOUS
<1>2. /\ S \subseteq InChat(put, ChatOf[m])
      /\ Cardinality(InChat(put, ChatOf[m]) \ S) <= Limit
  BY <1>1 DEF Stale
<1>3. put \in [RowIds -> Rows \cup {None}]
  BY DEF Types, Rows
<1>4. \A k \in RowIds : rows'[k] = IF k \in S THEN None ELSE put[k]
  BY <1>1 DEF Without
<1>5. DOMAIN rows' = RowIds /\ DOMAIN put = RowIds /\ DOMAIN rows = RowIds
  BY <1>1, <1>3 DEF Without, Types
<1> SUFFICES ASSUME NEW c \in Chats PROVE Cardinality(InChat(rows', c)) <= Limit
  BY DEF Limited
<1>6. CASE c = ChatOf[m]
  <2>1. InChat(rows', c) = InChat(put, c) \ S
    BY <1>4, <1>5, <1>6 DEF InChat
  <2> QED BY <2>1, <1>2, <1>6
<1>7. CASE c # ChatOf[m]
  <2>1. S \cap InChat(put, c) = {}
    BY <1>2, <1>7 DEF InChat
  <2>2. \A k \in RowIds : k # i => put[k] = rows[k]
    BY DEF Types
  <2>3. row.msg = m /\ put[i] = row
    BY DEF Types
  <2>4. rows[i] # None => rows[i].msg = m
    BY DEF IsRowOf, Stored, IsNewRow, RowIds
  <2>5. i \notin InChat(rows', c) /\ i \notin InChat(rows, c)
    BY <1>4, <1>5, <1>7, <2>3, <2>4 DEF InChat
  <2>6. InChat(rows', c) = InChat(rows, c)
    BY <1>4, <1>5, <2>1, <2>2, <2>5 DEF InChat
  <2> QED BY <2>6 DEF Limited
<1> QED BY <1>6, <1>7

LEMMA DeleteEffect ==
  ASSUME Types, NEW m \in Messages, DeleteMessage(m)
  PROVE  /\ rows' \in [RowIds -> Rows \cup {None}]
         /\ vecs' \in [RowIds -> Vectors \cup {None}]
         /\ \A k \in RowIds : Left(k) \/ Kept(k)
<1> DEFINE S == {i \in RowIds : IsRowOf(i, m)}
<1>1. rows' = Without(rows, S) /\ vecs' = WithoutVectors(vecs, S)
  BY DEF DeleteMessage
<1> QED BY <1>1 DEF Without, WithoutVectors, Left, Kept, Types

LEMMA DeleteLimited ==
  ASSUME Types, Limited, NEW m \in Messages, DeleteMessage(m)
  PROVE  Limited'
<1> SUFFICES ASSUME NEW c \in Chats PROVE Cardinality(InChat(rows', c)) <= Limit
  BY DEF Limited
<1>1. \A k \in RowIds : rows'[k] = None \/ rows'[k] = rows[k]
  BY DeleteEffect DEF Left, Kept
<1>2. DOMAIN rows' = RowIds /\ DOMAIN rows = RowIds
  BY DeleteEffect DEF Types
<1>3. InChat(rows', c) \subseteq InChat(rows, c)
  BY <1>1, <1>2 DEF InChat
<1>4. IsFiniteSet(RowIds) /\ InChat(rows, c) \subseteq RowIds
  BY <1>2, FS_Interval, Assumed DEF RowIds, InChat, Assumptions, TableAssumption
<1>5. /\ Cardinality(InChat(rows', c)) <= Cardinality(InChat(rows, c))
      /\ Cardinality(InChat(rows', c)) \in Nat /\ Cardinality(InChat(rows, c)) \in Nat
  BY <1>3, <1>4, FS_Subset, FS_CardinalityType
<1>6. Cardinality(InChat(rows, c)) <= Limit /\ Limit \in Nat
  BY Assumed DEF Limited, Assumptions, TableAssumption
<1> QED BY <1>5, <1>6

(* A message that is in the table has its topic from its row. *)
LEMMA TopicOfRow ==
  ASSUME NEW m, Stored(m)
  PROVE  \E i \in RowIds : IsRowOf(i, m) /\ TopicOf(m) = rows[i].topic
<1> DEFINE i == CHOOSE k \in RowIds : IsRowOf(k, m)
<1>1. i \in RowIds /\ IsRowOf(i, m)
  BY DEF Stored
<1> QED BY <1>1 DEF TopicOf

----------------------------------------------------------------------------
(* Jobs. *)

LEMMA NewJob ==
  ASSUME NEW kind \in Kinds, NEW at \in Labels, NEW m \in Messages \cup {None}, NEW text \in Nat
  PROVE  Job(kind, at, m, text) \in Jobs
BY DEF Job, Jobs

LEMMA Moved ==
  ASSUME NEW w \in Workers, job[w] \in Jobs, NEW l \in Labels
  PROVE  [job[w] EXCEPT !.at = l] \in Jobs
BY DEF Jobs

LEMMA CopiedJob ==
  ASSUME Types, NEW w \in Workers, job[w] \in Jobs, NEW d \in Docs, NEW l \in Labels,
         NEW e \in BOOLEAN
  PROVE  /\ Copied(w, d, l, e) \in Jobs
         /\ Copied(w, d, l, e) =
              [kind |-> job[w].kind, at |-> l, msg |-> job[w].msg, text |-> job[w].text,
               doc |-> d, copy |-> FactsOf(d), since |-> {}, emb |-> e]
         /\ FactsOf(d) \in SUBSET Facts
<1> DEFINE j == [kind |-> job[w].kind, at |-> l, msg |-> job[w].msg, text |-> job[w].text,
                 doc |-> d, copy |-> FactsOf(d), since |-> {}, emb |-> e]
<1>1. docs[d] \in (SUBSET Facts) \cup {None}
  BY DEF Types
<1>2. FactsOf(d) \in SUBSET Facts
  <2>1. CASE docs[d] = None
    BY <2>1 DEF FactsOf
  <2>2. CASE docs[d] # None
    BY <1>1, <2>2 DEF FactsOf
  <2> QED BY <2>1, <2>2
<1>3. j \in Jobs
  BY <1>2 DEF Jobs
<1>4. Copied(w, d, l, e) = j
  BY DEF Copied, Carry
<1> QED BY <1>2, <1>3, <1>4

LEMMA ThroughJob ==
  ASSUME NEW w \in Workers, job[w] \in Jobs, NEW l \in Labels
  PROVE  /\ Through(w, l) \in Jobs
         /\ Through(w, l) =
              [kind |-> job[w].kind, at |-> l, msg |-> job[w].msg, text |-> job[w].text,
               doc |-> None, copy |-> {}, since |-> {}, emb |-> FALSE]
<1> DEFINE j == [kind |-> job[w].kind, at |-> l, msg |-> job[w].msg, text |-> job[w].text,
                 doc |-> None, copy |-> {}, since |-> {}, emb |-> FALSE]
<1>1. j \in Jobs
  BY DEF Jobs
<1>2. Through(w, l) = j
  BY DEF Through, Carry
<1> QED BY <1>1, <1>2

LEMMA AfterUpdateJob ==
  ASSUME Types, NEW m \in Messages, NEW text \in Nat
  PROVE  AfterUpdate(m, text) \in Jobs \cup {None}
<1>1. version[m] \in Nat /\ OwnReply[m] \in Messages \cup {None}
  BY Assumed DEF Types, Assumptions, MemoryAssumption
<1> QED BY <1>1, NewJob DEF AfterUpdate, Kinds, Labels

LEMMA AddingToACopy ==
  ASSUME NEW w \in Workers, job[w] \in Jobs, NEW new \in SUBSET Facts
  PROVE  CopyAnd(w, new) \in SUBSET Facts
BY DEF CopyAnd, Jobs

(* A write puts down a set of facts, takes up the next job, and tells the  *)
(* others that hold the document.                                          *)
LEMMA WriteTypes ==
  ASSUME Types, NEW w \in Workers, job[w] \in Jobs, NEW new \in SUBSET Facts,
         NEW next \in Jobs \cup {None}, Write(w, new, next)
  PROVE  /\ docs' \in [Docs -> (SUBSET Facts) \cup {None}]
         /\ job' \in [Workers -> Jobs \cup {None}]
<1>1. docs' \in [Docs -> (SUBSET Facts) \cup {None}]
  BY AddingToACopy DEF Write, Types
<1>2. ASSUME NEW v \in Workers, job[v] \in Jobs
      PROVE  [job[v] EXCEPT !.since = @ \cup {w}] \in Jobs
  BY <1>2 DEF Jobs
<1>3. ASSUME NEW v \in Workers, Holds(v, job[w].doc) PROVE job[v] \in Jobs
  BY <1>3 DEF Holds, Types
<1>4. job' \in [Workers -> Jobs \cup {None}]
  BY <1>2, <1>3 DEF Write, Types
<1> QED BY <1>1, <1>4

LEMMA Typed == ASSUME Types, NEW w \in Workers, job[w] # None PROVE job[w] \in Jobs
BY DEF Types

LEMMA WorkersAre ==
  /\ \A m \in Messages : PrepareOf(ChatOf[m]) \in Lanes /\ BackgroundOf(ChatOf[m]) \in Lanes
  /\ Lanes \subseteq Workers /\ EventLoop \in Workers /\ EventLoop \notin Lanes
  /\ \A m \in Messages : EventLoop # PrepareOf(ChatOf[m]) /\ EventLoop # BackgroundOf(ChatOf[m])
BY DEF PrepareOf, BackgroundOf, Lanes, Workers, EventLoop, Chats

----------------------------------------------------------------------------
(* Types. *)

LEMMA DocIds == TopicIds \subseteq Docs /\ People \subseteq Docs /\ None \notin Docs
BY Assumed DEF Docs, Assumptions, NoneAssumption

LEMMA TopicType ==
  ASSUME Types, NEW m
  PROVE  TopicOf(m) \in TopicIds \cup {None}
<1>1. CASE Stored(m)
  <2>1. PICK i \in RowIds : IsRowOf(i, m) /\ TopicOf(m) = rows[i].topic
    BY <1>1, TopicOfRow
  <2>2. rows[i] \in Rows
    BY <2>1 DEF IsRowOf, Types
  <2> QED BY <2>1, <2>2 DEF Rows
<1>2. CASE ~Stored(m)
  BY <1>2 DEF TopicOf
<1> QED BY <1>1, <1>2

LEMMA AnsweredType == ASSUME Types, NEW w PROVE AnsweredTopic(w) \in TopicIds \cup {None}
BY TopicType DEF AnsweredTopic

LEMMA InitTypes == Init => Types
<1> SUFFICES ASSUME Init PROVE Types
  OBVIOUS
<1>1. MaxLocations \in Nat
  BY Assumed DEF Assumptions, MemoryAssumption
<1> QED BY <1>1 DEF Init, InitTable, Types

(* The worker of a lane's step has a typed job, and its message a type. *)
LEMMA Working ==
  ASSUME Types, ControlInv, NEW w \in Workers, job[w] # None
  PROVE  /\ job[w] \in Jobs
         /\ w # EventLoop => LaneJob(w, job[w]) /\ w \in Lanes
         /\ w = EventLoop => LoopJob(job[w])
BY Typed DEF ControlInv, JobOK, Workers

(* The event loop takes no part in the lanes' steps. *)
LEMMA LaneStep ==
  ASSUME Types, ControlInv, NEW w \in Workers, job[w] # None,
         job[w].at \notin {"look", "profile"} \/ job[w].kind # "location"
  PROVE  w # EventLoop /\ w \in Lanes /\ LaneJob(w, job[w]) /\ job[w] \in Jobs
BY Working DEF LoopJob

LEMMA BecomeTypes ==
  ASSUME Types, NEW w \in Workers, NEW j \in Jobs \cup {None}, Become(w, j)
  PROVE  job' \in [Workers -> Jobs \cup {None}]
BY DEF Become, Types

LEMMA PersonIs ==
  ASSUME Types, ControlInv, NEW w \in Workers, job[w] # None,
         job[w].at \in {"look", "profile"}
  PROVE  Person(w) \in People
<1>1. CASE w = EventLoop
  BY <1>1, Working DEF LoopJob, Person
<1>2. CASE w # EventLoop
  BY <1>2, Working DEF LaneJob, Person, Msg, People
<1> QED BY <1>1, <1>2

LEMMA LearnedFacts ==
  ASSUME Types, ControlInv, NEW w \in Workers, At(w, "profile"), NEW new \in Learned(w)
  PROVE  new \in SUBSET Facts
<1>1. CASE w = EventLoop
  BY <1>1 DEF Learned, Facts
<1>2. CASE w # EventLoop
  <2>1. Msg(w) \in Messages
    BY <1>2, Working DEF LaneJob, Msg, At
  <2> QED BY <1>2, <2>1 DEF Learned, Facts
<1> QED BY <1>1, <1>2

LEMMA AfterProfileJob ==
  ASSUME Types, ControlInv, NEW w \in Workers, At(w, "profile")
  PROVE  AfterProfile(w) \in Jobs \cup {None}
<1> DEFINE j == job[w]
<1>1. j \in Jobs /\ j.text \in Nat
  BY Working DEF At, Jobs
<1>2. Through(w, "assign") \in Jobs
  BY <1>1, ThroughJob DEF Labels
<1>3. CASE w = EventLoop
  BY <1>3, Working DEF LoopJob, AfterProfile, At
<1>4. CASE w # EventLoop
  <2>1. LaneJob(w, j) /\ j.msg \in Messages /\ j.at = "profile" /\ j.kind \in Kinds
    BY <1>1, <1>4, Working DEF LaneJob, At, Jobs
  <2>2. AfterUpdate(j.msg, j.text) \in Jobs \cup {None}
    BY <1>1, <2>1, AfterUpdateJob
  <2>3. j.kind \in {"new", "edit", "same", "delete"}
    BY <2>1 DEF LaneJob, Kinds
  <2> QED BY <1>2, <2>2, <2>3 DEF AfterProfile
<1> QED BY <1>3, <1>4

----------------------------------------------------------------------------
(* Control: what a step of one worker means for the others. *)

Grows ==
  /\ \A t \in TopicIds : topicChat[t] # None => topicChat'[t] = topicChat[t]
  /\ \A t \in TopicIds : docs[t] # None => docs'[t] # None

Agrees(v) ==
  /\ job[v] = None <=> job'[v] = None
  /\ job[v] # None =>
       /\ job'[v].kind = job[v].kind /\ job'[v].at = job[v].at
       /\ job'[v].msg = job[v].msg /\ job'[v].text = job[v].text
       /\ job'[v].doc = job[v].doc

LEMMA ChatIsThere == \A m \in Messages : ChatOf[m] # None
BY Assumed DEF Assumptions, MemoryAssumption, Chats

LEMMA LaneJobStays ==
  ASSUME Grows, NEW v, NEW j, LaneJob(v, j), NEW k,
         k.kind = j.kind, k.at = j.at, k.msg = j.msg, k.text = j.text, k.doc = j.doc
  PROVE  LaneJob(v, k)'
<1>1. \A t : OfChat(t, j.msg) => OfChat(t, j.msg)'
  BY ChatIsThere DEF Grows, OfChat, LaneJob
<1>2. j.msg \in Messages /\ (Usable(j.doc, j.msg) => Usable(j.doc, j.msg)')
  BY <1>1 DEF Grows, OfChat, LaneJob, Usable
<1>3. j.at = "patch" => docs'[j.doc] # None
  BY DEF Grows, LaneJob, OfChat
<1> QED BY <1>1, <1>2, <1>3 DEF LaneJob

LEMMA OthersStay ==
  ASSUME Grows, NEW v \in Workers, JobOK(v), Agrees(v)
  PROVE  JobOK(v)'
BY LaneJobStays DEF JobOK, Agrees, LoopJob

LEMMA ControlStep ==
  ASSUME ControlInv, Grows, rows' = rows, NEW w \in Workers,
         \A v \in Workers \ {w} : Agrees(v), JobOK(w)', TopicsKnown', Types
  PROVE  ControlInv'
<1>1. \A v \in Workers : JobOK(v)'
  BY OthersStay DEF ControlInv
<1>2. TopicOfItsChat'
  <2> SUFFICES ASSUME NEW i \in RowIds, rows[i] # None, rows[i].topic # None
               PROVE  /\ docs'[rows[i].topic] # None
                      /\ topicChat'[rows[i].topic] = ChatOf[rows[i].msg]
    BY DEF TopicOfItsChat
  <2>1. rows[i] \in Rows
    BY DEF Types
  <2>2. rows[i].topic \in TopicIds /\ rows[i].msg \in Messages
    BY <2>1 DEF Rows
  <2> QED BY <2>2, ChatIsThere DEF ControlInv, TopicOfItsChat, Grows
<1> QED BY <1>1, <1>2 DEF ControlInv

(* A step that changes no topic. *)
LEMMA QuietStep ==
  ASSUME ControlInv, Types, tableVars' = tableVars, memVars' = memVars,
         NEW w \in Workers, NEW j, Become(w, j), JobOK(w)'
  PROVE  ControlInv'
<1>1. \A v \in Workers \ {w} : job'[v] = job[v]
  BY DEF Become, Types
<1>2. Grows /\ TopicsKnown' /\ rows' = rows
  BY DEF tableVars, memVars, Grows, ControlInv, TopicsKnown
<1> QED BY <1>1, <1>2, ControlStep DEF Agrees

LEMMA Becomes ==
  ASSUME Types, NEW w \in Workers, NEW j, Become(w, j)
  PROVE  job'[w] = j /\ \A v \in Workers \ {w} : job'[v] = job[v]
BY DEF Become, Types

(* A new job in a lane. *)
LEMMA StartOK ==
  ASSUME Types, NEW w \in Lanes, NEW kind \in Kinds, NEW at \in Labels, NEW m \in Messages,
         NEW text \in Nat, w[1] = ChatOf[m], job'[w] = Job(kind, at, m, text),
         \/ kind = "prepare" /\ at = "assign" /\ w[2] = "prepare" /\ m \in Incoming
         \/ kind = "update" /\ at = "find" /\ w[2] = "background" /\ m \in Incoming
         \/ kind = "delete" /\ at = "find" /\ w[2] = "background"
         \/ kind = "own" /\ at = "assign" /\ w[2] = "background" /\ m \in Own /\ text = 0
  PROVE  JobOK(w)'
<1>1. w # EventLoop
  BY WorkersAre
<1> QED BY <1>1 DEF JobOK, LaneJob, Job

LEMMA StartsInv ==
  ASSUME Types, ControlInv, NEW m \in Incoming, StartPrepare(m) \/ StartUpdate(m)
  PROVE  Types' /\ ControlInv'
<1>0. m \in Messages /\ wanted[m] \in Nat /\ version[m] \in Nat
  BY DEF Incoming, Types
<1>1. CASE StartPrepare(m)
  <2> DEFINE w == PrepareOf(ChatOf[m])
  <2>1. PICK text \in wanted[m] .. version[m] :
          Become(w, Job("prepare", "assign", m, text)) /\ wanted' = [wanted EXCEPT ![m] = text + 1]
    BY <1>1 DEF StartPrepare
  <2>2. text \in Nat /\ w \in Lanes /\ w \in Workers /\ w[1] = ChatOf[m] /\ w[2] = "prepare"
    BY <1>0, WorkersAre DEF PrepareOf
  <2>3. Job("prepare", "assign", m, text) \in Jobs
    BY <1>0, <2>2, NewJob DEF Kinds, Labels
  <2>4. Types'
    BY <1>1, <2>1, <2>2, <2>3, BecomeTypes DEF StartPrepare, Types, tableVars, memVars
  <2>5. JobOK(w)'
    BY <1>0, <2>1, <2>2, Becomes, StartOK DEF Kinds, Labels
  <2> QED BY <1>1, <2>1, <2>2, <2>4, <2>5, QuietStep DEF StartPrepare
<1>2. CASE StartUpdate(m)
  <2> DEFINE w == BackgroundOf(ChatOf[m])
  <2>1. w \in Lanes /\ w \in Workers /\ w[1] = ChatOf[m] /\ w[2] = "background"
    BY <1>0, WorkersAre DEF BackgroundOf
  <2>2. Become(w, Job("update", "find", m, version[m]))
    BY <1>2 DEF StartUpdate
  <2>3. Job("update", "find", m, version[m]) \in Jobs
    BY <1>0, NewJob DEF Kinds, Labels
  <2>4. Types'
    BY <1>2, <2>1, <2>2, <2>3, BecomeTypes DEF StartUpdate, Types, tableVars, memVars
  <2>5. JobOK(w)'
    BY <1>0, <2>1, <2>2, Becomes, StartOK DEF Kinds, Labels
  <2> QED BY <1>2, <2>1, <2>2, <2>4, <2>5, QuietStep DEF StartUpdate
<1> QED BY <1>1, <1>2

LEMMA StartDeleteInv ==
  ASSUME Types, ControlInv, NEW m \in Messages, StartDelete(m)
  PROVE  Types' /\ ControlInv'
<1> DEFINE w == BackgroundOf(ChatOf[m])
<1>1. w \in Lanes /\ w \in Workers /\ w[1] = ChatOf[m] /\ w[2] = "background"
  BY WorkersAre DEF BackgroundOf
<1>2. Become(w, Job("delete", "find", m, 0))
  BY DEF StartDelete
<1>3. Job("delete", "find", m, 0) \in Jobs
  BY NewJob DEF Kinds, Labels
<1>4. Types'
  BY <1>1, <1>2, <1>3, BecomeTypes DEF StartDelete, Types, tableVars, memVars
<1>5. JobOK(w)'
  BY <1>1, <1>2, Becomes, StartOK DEF Kinds, Labels
<1> QED BY <1>1, <1>2, <1>4, <1>5, QuietStep DEF StartDelete

LEMMA StartLocationInv ==
  ASSUME Types, ControlInv, NEW p \in Located, StartLocation(p)
  PROVE  Types' /\ ControlInv'
<1> DEFINE j == [kind |-> "location", at |-> "look", msg |-> None, text |-> 0, doc |-> p,
                 copy |-> {}, since |-> {}, emb |-> FALSE]
<1>1. p \in People /\ p \in Docs /\ EventLoop \in Workers
  BY Assumed, DocIds, WorkersAre DEF Assumptions, MemoryAssumption
<1>2. Carry(Job("location", "look", None, 0), "look", p, {}, FALSE) = j
  BY DEF Job, Carry
<1>3. j \in Jobs
  BY <1>1 DEF Jobs, Kinds, Labels
<1>4. Become(EventLoop, j)
  BY <1>2 DEF StartLocation
<1>5. located' \in 0 .. MaxLocations
  BY Assumed DEF StartLocation, Types, Assumptions, MemoryAssumption
<1>6. Types'
  BY <1>1, <1>3, <1>4, <1>5, BecomeTypes DEF StartLocation, Types, tableVars, memVars
<1>7. job'[EventLoop] = j
  BY <1>1, <1>4, Becomes
<1>8. JobOK(EventLoop)'
  BY <1>1, <1>2, <1>7 DEF JobOK, LoopJob
<1> QED BY <1>1, <1>4, <1>6, <1>8, QuietStep DEF StartLocation

LEMMA EditInv ==
  ASSUME Types, ControlInv, NEW m \in Incoming, Edit(m)
  PROVE  Types' /\ ControlInv'
<1>1. Types'
  BY DEF Edit, Types, tableVars, memVars, Incoming
<1>2. ControlInv'
  BY DEF Edit, ControlInv, JobOK, LoopJob, LaneJob, OfChat, Usable, TopicsKnown,
         TopicOfItsChat, tableVars, memVars
<1> QED BY <1>1, <1>2

----------------------------------------------------------------------------
(* Control: the steps of a job. *)

LEMMA TopicIsUsable ==
  ASSUME Types, TopicOfItsChat, NEW m \in Messages
  PROVE  Usable(TopicOf(m), m)
<1>1. CASE Stored(m)
  <2>1. PICK i \in RowIds : IsRowOf(i, m) /\ TopicOf(m) = rows[i].topic
    BY <1>1, TopicOfRow
  <2>2. TopicOf(m) \in TopicIds \cup {None}
    BY TopicType
  <2> QED BY <2>1, <2>2 DEF IsRowOf, TopicOfItsChat, Usable, OfChat
<1>2. CASE ~Stored(m)
  BY <1>2 DEF TopicOf, Usable
<1> QED BY <1>1, <1>2

LEMMA ShownIsOfChat ==
  ASSUME Types, TopicOfItsChat, VectorHasRow, NEW m \in Messages, NEW t \in Shown(ChatOf[m])
  PROVE  t \in TopicIds /\ OfChat(t, m) /\ docs[t] # None
<1>1. t \in TopicIds /\ docs[t] # None
  BY DEF Shown
<1>2. CASE topicChat[t] = ChatOf[m]
  BY <1>1, <1>2 DEF OfChat
<1>3. CASE topicChat[t] # ChatOf[m]
  <2>1. PICK i \in RowIds : /\ vecs[i] # None /\ vecs[i].chat = ChatOf[m]
                            /\ rows[i] # None /\ rows[i].topic = t
    BY <1>3 DEF Shown, Nearest
  <2>2. topicChat[t] = ChatOf[rows[i].msg] /\ vecs[i].chat = ChatOf[rows[i].msg]
    BY <1>1, <2>1, Assumed
       DEF TopicOfItsChat, VectorHasRow, Assumptions, TableAssumption, TopicIds
  <2> QED BY <2>1, <2>2, <1>3
<1> QED BY <1>1, <1>2, <1>3

(* A lane takes a topic of its chat. *)
LEMMA TakesTopic ==
  ASSUME Types, ControlInv, NEW w \in Workers, job[w] # None, w # EventLoop,
         job[w].at \in {"assign", "patch"}, NEW t \in TopicIds,
         topicChat'[t] = ChatOf[job[w].msg], NEW e \in BOOLEAN, job'[w] = Copied(w, t, "topic", e)
  PROVE  JobOK(w)'
<1>1. LaneJob(w, job[w]) /\ job[w] \in Jobs
  BY Working
<1> PICK j : j = Copied(w, t, "topic", e)
  OBVIOUS
<1>2. /\ j.kind = job[w].kind /\ j.at = "topic" /\ j.msg = job[w].msg
      /\ j.text = job[w].text /\ j.doc = t
  BY DEF Copied, Carry
<1>3. LaneJob(w, j)'
  BY <1>1, <1>2 DEF LaneJob, OfChat
<1> QED BY <1>3 DEF JobOK

LEMMA AssignsInv ==
  ASSUME Types, ControlInv, VectorHasRow, NEW w \in Workers,
         AssignByReply(w) \/ AssignByModel(w) \/ AssignNone(w)
  PROVE  Types' /\ ControlInv'
<1>1. job[w] # None /\ job[w].at = "assign"
  BY DEF AssignByReply, AssignByModel, AssignNone, At
<1>2. w # EventLoop /\ LaneJob(w, job[w]) /\ job[w] \in Jobs
  BY <1>1, Working DEF LoopJob
<1>3. job[w].msg \in Messages /\ Msg(w) = job[w].msg
  BY <1>2 DEF LaneJob, Msg
<1>4. tableVars' = tableVars /\ memVars' = memVars /\ chatVars' = chatVars
  BY DEF AssignByReply, AssignByModel, AssignNone
<1>5. ASSUME NEW t \in TopicIds, OfChat(t, job[w].msg), NEW e \in BOOLEAN,
             Become(w, Copied(w, t, "topic", e))
      PROVE  Types' /\ ControlInv'
  <2>1. Copied(w, t, "topic", e) \in Jobs
    BY <1>2, CopiedJob, DocIds DEF Labels
  <2>2. Types'
    BY <1>4, <1>5, <2>1, BecomeTypes DEF Types, tableVars, memVars, chatVars
  <2>3. topicChat'[t] = ChatOf[job[w].msg]
    BY <1>4, <1>5 DEF OfChat, memVars
  <2>4. JobOK(w)'
    BY <1>1, <1>2, <1>5, <2>3, Becomes, TakesTopic
  <2> QED BY <1>4, <1>5, <2>2, <2>4, QuietStep
<1>6. CASE AssignByReply(w)
  <2> DEFINE p == ReplyTo[job[w].msg]
  <2>1. p # None /\ AnsweredTopic(w) = TopicOf(p) /\ TopicOf(p) # None
    BY <1>3, <1>6 DEF AssignByReply, AnsweredTopic
  <2>2. p \in Messages /\ ChatOf[p] = ChatOf[job[w].msg]
    BY <1>3, <2>1, Assumed DEF Assumptions, MemoryAssumption
  <2>3. Usable(TopicOf(p), p)
    BY <2>2, TopicIsUsable DEF ControlInv
  <2>4. TopicOf(p) \in TopicIds /\ OfChat(TopicOf(p), job[w].msg)
    BY <2>1, <2>2, <2>3 DEF Usable, OfChat
  <2> QED BY <1>5, <1>6, <2>1, <2>4 DEF AssignByReply
<1>7. CASE AssignByModel(w)
  <2>1. PICK t \in Shown(ChatOf[job[w].msg]) : Become(w, Copied(w, t, "topic", TRUE))
    BY <1>3, <1>7 DEF AssignByModel
  <2>2. t \in TopicIds /\ OfChat(t, job[w].msg)
    BY <1>3, ShownIsOfChat DEF ControlInv
  <2> QED BY <1>5, <2>1, <2>2
<1>8. CASE AssignNone(w)
  <2> PICK j : j = [job[w] EXCEPT !.at = "message"]
    OBVIOUS
  <2>1. Become(w, j)
    BY <1>8 DEF AssignNone, Goto
  <2>2. j \in Jobs
    BY <1>2, Moved DEF Labels
  <2>3. Types'
    BY <1>4, <2>1, <2>2, BecomeTypes DEF Types, tableVars, memVars, chatVars
  <2>4. j.kind = job[w].kind /\ j.at = "message" /\ j.msg = job[w].msg
        /\ j.text = job[w].text /\ j.doc = job[w].doc
    BY <1>2 DEF Jobs
  <2>5. LaneJob(w, j)'
    BY <1>1, <1>2, <1>4, <2>4 DEF LaneJob, Usable, OfChat, memVars
  <2>6. JobOK(w)'
    BY <1>2, <2>1, <2>5, Becomes DEF JobOK
  <2> QED BY <1>4, <2>1, <2>3, <2>6, QuietStep
<1> QED BY <1>6, <1>7, <1>8

LEMMA NewTopicInv ==
  ASSUME Types, ControlInv, NEW w \in Workers, NewTopic(w)
  PROVE  Types' /\ ControlInv'
<1>1. job[w] # None /\ job[w].at = "assign"
  BY DEF NewTopic, At
<1>2. w # EventLoop /\ LaneJob(w, job[w]) /\ job[w] \in Jobs
  BY <1>1, Working DEF LoopJob
<1>3. job[w].msg \in Messages /\ Msg(w) = job[w].msg /\ ChatOf[job[w].msg] \in Chats
  BY <1>2 DEF LaneJob, Msg, Chats
<1>4. PICK t \in TopicIds :
        /\ \A u \in TopicIds : topicChat[u] = None <=> u >= t
        /\ topicChat' = [topicChat EXCEPT ![t] = ChatOf[job[w].msg]]
        /\ Become(w, Copied(w, t, "topic", TRUE))
  BY <1>3 DEF NewTopic
<1>5. Copied(w, t, "topic", TRUE) \in Jobs
  BY <1>2, CopiedJob, DocIds DEF Labels
<1>6. Types'
  BY <1>3, <1>4, <1>5, BecomeTypes DEF NewTopic, Types, tableVars, chatVars
<1>7. topicChat[t] = None /\ topicChat'[t] = ChatOf[job[w].msg]
  BY <1>4 DEF TopicIds, Types
<1>8. Grows /\ TopicsKnown' /\ rows' = rows
  BY <1>4, <1>7 DEF NewTopic, Grows, ControlInv, TopicsKnown, Types, tableVars
<1>9. JobOK(w)'
  BY <1>1, <1>2, <1>4, <1>7, Becomes, TakesTopic
<1> QED BY <1>4, <1>6, <1>8, <1>9, Becomes, ControlStep DEF Agrees

LEMMA AfterUpdateOK ==
  ASSUME Types, NEW w \in Lanes, NEW m \in Incoming, NEW text \in Nat, w[1] = ChatOf[m],
         w[2] # "prepare", job'[w] = AfterUpdate(m, text)
  PROVE  JobOK(w)'
<1>1. m \in Messages /\ version[m] \in Nat /\ w[2] = "background"
  BY DEF Incoming, Types, Lanes
<1>2. CASE version[m] # text
  BY <1>1, <1>2, StartOK DEF AfterUpdate, Kinds, Labels
<1>3. CASE version[m] = text /\ OwnReply[m] # None
  <2>1. OwnReply[m] \in Own /\ OwnReply[m] \in Messages /\ ChatOf[OwnReply[m]] = ChatOf[m]
    BY <1>1, <1>3, Assumed DEF Assumptions, MemoryAssumption, Own
  <2> QED BY <1>1, <1>3, <2>1, StartOK DEF AfterUpdate, Kinds, Labels
<1>4. CASE version[m] = text /\ OwnReply[m] = None
  BY <1>4 DEF AfterUpdate, JobOK
<1> QED BY <1>2, <1>3, <1>4

LEMMA WriteEffect ==
  ASSUME Types, ControlInv, NEW w \in Workers, job[w] \in Jobs, NEW new \in SUBSET Facts,
         NEW next \in Jobs \cup {None}, Write(w, new, next), job[w].doc \in Docs,
         topicChat' = topicChat, job[w].doc \in TopicIds => topicChat[job[w].doc] # None
  PROVE  /\ job'[w] = next
         /\ \A v \in Workers \ {w} : Agrees(v)
         /\ Grows /\ TopicsKnown'
<1>1. job'[w] = next
  BY DEF Write
<1>2. ASSUME NEW v \in Workers \ {w} PROVE Agrees(v)
  <2>1. job'[v] = job[v] \/ (job[v] # None /\ job'[v] = [job[v] EXCEPT !.since = @ \cup {w}])
    BY DEF Write, Holds
  <2>2. CASE job'[v] = job[v]
    BY <2>2 DEF Agrees
  <2>3. CASE job[v] # None /\ job'[v] = [job[v] EXCEPT !.since = @ \cup {w}]
    <3>1. job[v] \in Jobs /\ job'[v] \in Jobs \cup {None}
      BY <2>3, WriteTypes DEF Types
    <3> PICK j : j = [job[v] EXCEPT !.since = @ \cup {w}]
      OBVIOUS
    <3>2. j \in Jobs
      BY <3>1 DEF Jobs
    <3>3. /\ j.kind = job[v].kind /\ j.at = job[v].at /\ j.msg = job[v].msg
          /\ j.text = job[v].text /\ j.doc = job[v].doc
      BY <3>1 DEF Jobs
    <3>4. j # None
      BY <3>2, Assumed DEF Assumptions, NoneAssumption
    <3> QED BY <2>3, <3>3, <3>4 DEF Agrees
  <2> QED BY <2>1, <2>2, <2>3
<1>3. CopyAnd(w, new) # None /\ docs' = [docs EXCEPT ![job[w].doc] = CopyAnd(w, new)]
  BY AddingToACopy, Assumed DEF Assumptions, NoneAssumption, Write
<1>4. \A t \in TopicIds : docs'[t] = docs[t] \/ (docs'[t] # None /\ t = job[w].doc)
  BY <1>3, DocIds DEF Types
<1>5. Grows /\ TopicsKnown'
  BY <1>4 DEF Grows, ControlInv, TopicsKnown
<1> QED BY <1>1, <1>2, <1>5

LEMMA WriteTopicInv ==
  ASSUME Types, ControlInv, NEW w \in Workers, WriteTopic(w)
  PROVE  Types' /\ ControlInv'
<1> PICK j : j = job[w]
  OBVIOUS
<1>1. j # None /\ j.at = "topic"
  BY DEF WriteTopic, At
<1>2. w # EventLoop /\ w \in Lanes /\ LaneJob(w, j) /\ j \in Jobs
  BY <1>1, LaneStep
<1>3. j.msg \in Messages /\ j.doc \in TopicIds /\ OfChat(j.doc, j.msg) /\ j.doc \in Docs
  BY <1>1, <1>2, DocIds DEF LaneJob, OfChat
<1> DEFINE go == IF j.kind = "delete" /\ Sender[j.msg] = Self THEN None
                 ELSE IF j.kind \in {"edit", "delete"} THEN Through(w, "look")
                 ELSE Carry(j, "message", j.doc, {}, j.emb)
<1>4. Write(w, {Sender[j.msg]}, go) /\ topicChat' = topicChat /\ tableVars' = tableVars
      /\ chatVars' = chatVars
  BY DEF WriteTopic
<1>5. {Sender[j.msg]} \in SUBSET Facts
  BY <1>3 DEF Facts
<1>6. Through(w, "look") \in Jobs /\ Carry(j, "message", j.doc, {}, j.emb) \in Jobs
  <2>1. Through(w, "look") \in Jobs
    BY <1>2, ThroughJob DEF Labels
  <2>2. Carry(j, "message", j.doc, {}, j.emb) \in Jobs
    BY <1>2, <1>3 DEF Carry, Jobs, Labels
  <2> QED BY <2>1, <2>2
<1>7. go \in Jobs \cup {None}
  BY <1>6
<1>8. topicChat[j.doc] # None
  BY <1>3, ChatIsThere DEF OfChat
<1>9. /\ job'[w] = go /\ \A v \in Workers \ {w} : Agrees(v)
      /\ Grows /\ TopicsKnown'
  BY <1>2, <1>3, <1>4, <1>5, <1>7, <1>8, WriteEffect
<1>10. docs'[j.doc] # None
  <2>1. CopyAnd(w, {Sender[j.msg]}) # None
    BY <1>2, <1>5, AddingToACopy, Assumed DEF Assumptions, NoneAssumption
  <2> QED BY <1>3, <1>4, <2>1 DEF Write, Types
<1>11. Types'
  BY <1>2, <1>4, <1>5, <1>7, WriteTypes DEF Types, tableVars, chatVars
<1>12. JobOK(w)'
  <2> PICK k : k = go
    OBVIOUS
  <2>1. CASE k = None
    BY <1>9, <2>1 DEF JobOK
  <2>2. CASE k # None /\ j.kind \in {"edit", "delete"}
    <3>1. k = Through(w, "look") /\ Sender[j.msg] # Self
      <4>1. j.kind = "edit" => j.msg \in Incoming
        BY <1>2 DEF LaneJob
      <4>2. j.msg \in Incoming => Sender[j.msg] # Self
        BY <1>3, Assumed DEF Incoming, Assumptions, MemoryAssumption
      <4> QED BY <2>2, <4>1, <4>2
    <3>2. /\ k.kind = j.kind /\ k.at = "look" /\ k.msg = j.msg /\ k.text = j.text
      BY <3>1 DEF Through, Carry
    <3>3. LaneJob(w, k)'
      BY <1>1, <1>2, <2>2, <3>1, <3>2 DEF LaneJob
    <3> QED BY <1>2, <1>9, <3>3 DEF JobOK
  <2>3. CASE j.kind \notin {"edit", "delete"}
    <3>1. k.kind = j.kind /\ k.at = "message" /\ k.msg = j.msg /\ k.text = j.text
          /\ k.doc = j.doc
      BY <2>3 DEF Carry
    <3>2. Usable(k.doc, k.msg)'
      BY <1>3, <1>4, <1>10, <3>1 DEF Usable, OfChat
    <3>3. k.doc # None
      BY <1>3, <3>1, DocIds
    <3>4. LaneJob(w, k)'
      BY <1>1, <1>2, <2>3, <3>1, <3>2, <3>3 DEF LaneJob
    <3> QED BY <1>2, <1>9, <3>4 DEF JobOK
  <2> QED BY <2>1, <2>2, <2>3
<1> QED BY <1>4, <1>9, <1>11, <1>12, ControlStep DEF tableVars

LEMMA ReadProfileInv ==
  ASSUME Types, ControlInv, NEW w \in Workers, ReadProfile(w)
  PROVE  Types' /\ ControlInv'
<1> PICK k : k = Copied(w, Person(w), "profile", FALSE)
  OBVIOUS
<1>1. job[w] # None /\ job[w].at = "look" /\ Become(w, k)
  BY DEF ReadProfile, At
<1>2. job[w] \in Jobs /\ Person(w) \in People
  BY <1>1, Working, PersonIs
<1>3. k \in Jobs
  BY <1>2, CopiedJob, DocIds DEF Labels
<1>4. Types'
  BY <1>1, <1>3, BecomeTypes DEF ReadProfile, Types, tableVars, memVars, chatVars
<1>5. /\ k.kind = job[w].kind /\ k.at = "profile" /\ k.msg = job[w].msg
      /\ k.text = job[w].text /\ k.doc = Person(w)
  BY DEF Copied, Carry
<1>6. CASE w = EventLoop
  <2>1. LoopJob(k)
    BY <1>2, <1>5, <1>6, <1>1, Working DEF LoopJob
  <2>2. JobOK(w)'
    BY <1>1, <1>6, <2>1, Becomes DEF JobOK, LoopJob
  <2> QED BY <1>1, <1>4, <2>2, QuietStep DEF ReadProfile
<1>7. CASE w # EventLoop
  <2>1. LaneJob(w, job[w])
    BY <1>1, <1>7, Working
  <2>2. k.doc = Sender[k.msg]
    BY <1>5, <1>7 DEF Person, Msg
  <2>3. LaneJob(w, k)'
    BY <1>1, <1>5, <2>1, <2>2 DEF LaneJob
  <2>4. JobOK(w)'
    BY <1>1, <1>7, <2>3, Becomes DEF JobOK
  <2> QED BY <1>1, <1>4, <2>4, QuietStep DEF ReadProfile
<1> QED BY <1>6, <1>7

LEMMA WriteProfileInv ==
  ASSUME Types, ControlInv, NEW w \in Workers, WriteProfile(w)
  PROVE  Types' /\ ControlInv'
<1> PICK j : j = job[w]
  OBVIOUS
<1>1. At(w, "profile") /\ j # None /\ j.at = "profile"
  BY DEF WriteProfile, At
<1>2. j \in Jobs /\ AfterProfile(w) \in Jobs \cup {None}
  BY <1>1, Working, AfterProfileJob
<1>3. tableVars' = tableVars /\ topicChat' = topicChat /\ chatVars' = chatVars
  BY DEF WriteProfile
<1>4. j.doc \in People /\ j.doc \in Docs /\ j.doc \notin TopicIds
  <2>1. j.doc \in People
    BY <1>1, Working DEF LoopJob, LaneJob, People
  <2> QED BY <2>1, DocIds, Assumed DEF Assumptions, MemoryAssumption
<1>5. job'[w] = AfterProfile(w) => JobOK(w)'
  <2> SUFFICES ASSUME job'[w] = AfterProfile(w) PROVE JobOK(w)'
    OBVIOUS
  <2>1. CASE w = EventLoop
    BY <1>1, <2>1, Working DEF LoopJob, AfterProfile, JobOK
  <2>2. CASE w # EventLoop
    <3>1. LaneJob(w, j) /\ w \in Lanes
      BY <1>1, <2>2, Working
    <3>2. j.kind \in {"new", "edit", "same", "delete"} /\ w[2] # "prepare"
      BY <1>1, <1>2, <3>1 DEF LaneJob, Jobs, Kinds
    <3>3. CASE j.kind = "new"
      <4> PICK k : k = Through(w, "assign")
        OBVIOUS
      <4>1. /\ k.kind = j.kind /\ k.at = "assign" /\ k.msg = j.msg /\ k.text = j.text
            /\ k.doc = None
        BY DEF Through, Carry
      <4>2. LaneJob(w, k)'
        BY <1>1, <3>1, <3>3, <4>1 DEF LaneJob
      <4>3. job'[w] = k
        BY <3>3 DEF AfterProfile
      <4> QED BY <2>2, <4>2, <4>3 DEF JobOK
    <3>4. CASE j.kind \in {"edit", "same"}
      <4>1. job'[w] = AfterUpdate(j.msg, j.text) /\ j.msg \in Incoming /\ j.text \in Nat
            /\ w[1] = ChatOf[j.msg]
        BY <1>2, <3>1, <3>4 DEF AfterProfile, LaneJob, Jobs
      <4> QED BY <3>1, <3>2, <4>1, AfterUpdateOK
    <3>5. CASE j.kind = "delete"
      BY <3>5 DEF AfterProfile, JobOK
    <3> QED BY <3>2, <3>3, <3>4, <3>5
  <2> QED BY <2>1, <2>2
<1>6. CASE \E new \in Learned(w) : Write(w, new, AfterProfile(w))
  <2>1. PICK new \in Learned(w) : Write(w, new, AfterProfile(w))
    BY <1>6
  <2>2. new \in SUBSET Facts
    BY <1>1, LearnedFacts
  <2>3. /\ job'[w] = AfterProfile(w) /\ \A v \in Workers \ {w} : Agrees(v)
        /\ Grows /\ TopicsKnown'
    BY <1>2, <1>3, <1>4, <2>1, <2>2, WriteEffect
  <2>4. Types'
    BY <1>2, <1>3, <2>1, <2>2, WriteTypes DEF Types, tableVars, chatVars
  <2> QED BY <1>3, <1>5, <2>3, <2>4, ControlStep DEF tableVars
<1>7. CASE Become(w, None) /\ UNCHANGED docs
  <2>1. Types'
    BY <1>3, <1>7, BecomeTypes DEF Types, tableVars, chatVars
  <2>2. JobOK(w)'
    BY <1>7, Becomes DEF JobOK
  <2> QED BY <1>3, <1>7, <2>1, <2>2, QuietStep DEF memVars
<1> QED BY <1>6, <1>7 DEF WriteProfile

LEMMA PatchInv ==
  ASSUME Types, ControlInv, NEW w \in Workers, Patch(w)
  PROVE  Types' /\ ControlInv'
<1>1. job[w] # None /\ job[w].at = "patch" /\ Become(w, Copied(w, job[w].doc, "topic", FALSE))
  BY DEF Patch, At
<1>2. w # EventLoop /\ LaneJob(w, job[w]) /\ job[w] \in Jobs
  BY <1>1, Working DEF LoopJob
<1>3. /\ job[w].doc \in TopicIds /\ job[w].doc \in Docs
      /\ topicChat[job[w].doc] = ChatOf[job[w].msg]
  BY <1>1, <1>2, DocIds DEF LaneJob, OfChat
<1>4. Copied(w, job[w].doc, "topic", FALSE) \in Jobs
  BY <1>2, <1>3, CopiedJob DEF Labels
<1>5. Types'
  BY <1>1, <1>4, BecomeTypes DEF Patch, Types, tableVars, memVars, chatVars
<1>6. topicChat'[job[w].doc] = ChatOf[job[w].msg]
  BY <1>3 DEF Patch, memVars
<1>7. JobOK(w)'
  BY <1>1, <1>2, <1>3, <1>6, Becomes, TakesTopic
<1> QED BY <1>1, <1>5, <1>7, QuietStep DEF Patch

LEMMA FindsInv ==
  ASSUME Types, ControlInv, NEW w \in Workers, FindForUpdate(w) \/ FindForDelete(w)
  PROVE  Types' /\ ControlInv'
<1> PICK j : j = job[w]
  OBVIOUS
<1>1. j # None /\ j.at = "find"
  BY DEF FindForUpdate, FindForDelete, At
<1>2. w # EventLoop /\ w \in Lanes /\ LaneJob(w, j) /\ j \in Jobs
  BY <1>1, LaneStep
<1>3. /\ tableVars' = tableVars /\ memVars' = memVars /\ chatVars' = chatVars
      /\ j.msg \in Messages /\ j.text \in Nat /\ Msg(w) = j.msg
  BY <1>2 DEF FindForUpdate, FindForDelete, LaneJob, Jobs, Msg
<1>4. Usable(TopicOf(j.msg), j.msg) /\ TopicOf(j.msg) \in TopicIds \cup {None}
  BY <1>3, TopicIsUsable, TopicType DEF ControlInv
<1>5. ASSUME NEW k \in Jobs, LaneJob(w, k), Become(w, k) PROVE Types' /\ ControlInv'
  <2>1. Types'
    BY <1>3, <1>5, BecomeTypes DEF Types, tableVars, memVars, chatVars
  <2>2. job'[w] = k
    BY <1>5, Becomes
  <2>3. LaneJob(w, k)'
    BY <1>3, <1>5 DEF LaneJob, Usable, OfChat, memVars
  <2>4. JobOK(w)'
    BY <1>2, <2>2, <2>3 DEF JobOK
  <2> QED BY <1>3, <1>5, <2>1, <2>4, QuietStep
<1>6. CASE FindForUpdate(w)
  <2>0. j.kind = "update" /\ j.msg \in Incoming /\ Sender[j.msg] # Self
    <3>1. j.kind = "update" /\ j.msg \in Incoming
      BY <1>2, <1>6 DEF FindForUpdate, LaneJob
    <3> QED BY <3>1, <1>3, Assumed DEF Incoming, Assumptions, MemoryAssumption
  <2>1. CASE TopicOf(j.msg) = None
    <3> PICK k : k = Job("new", "look", j.msg, j.text)
      OBVIOUS
    <3>1. Become(w, k) /\ k \in Jobs
      BY <1>3, <1>6, <2>1, NewJob DEF FindForUpdate, Kinds, Labels
    <3>2. LaneJob(w, k)
      BY <1>2, <1>3, <2>0 DEF LaneJob, Job
    <3> QED BY <1>5, <3>1, <3>2
  <2>2. CASE TopicOf(j.msg) # None
    <3>1. PICK kind \in {"same", "edit"} :
            Become(w, Carry(Job(kind, "find", j.msg, j.text), "message", TopicOf(j.msg), {}, FALSE))
      BY <1>6, <2>2 DEF FindForUpdate
    <3> PICK t : t = TopicOf(j.msg)
      OBVIOUS
    <3>2. t \in Docs /\ OfChat(t, j.msg) /\ Usable(t, j.msg)
      BY <1>4, <2>2, DocIds DEF Usable
    <3> PICK k : k = Carry(Job(kind, "find", j.msg, j.text), "message", t, {}, FALSE)
      OBVIOUS
    <3>a. kind \in {"same", "edit"} /\ j.msg \in Messages /\ j.text \in Nat
      BY <1>3
    <3>3. /\ k \in Jobs
          /\ k.kind = kind /\ k.at = "message" /\ k.msg = j.msg /\ k.text = j.text
          /\ k.doc = t
      <4>1. kind = "same" \/ kind = "edit"
        BY <3>a
      <4>2. t \in Docs /\ j.msg \in Messages /\ j.text \in Nat
        BY <3>a, <3>2
      <4>3. k = Carry(Job(kind, "find", j.msg, j.text), "message", t, {}, FALSE)
        OBVIOUS
      <4>4. k \in Jobs
        BY <4>1, <4>2, <4>3 DEF Carry, Job, Jobs, Kinds, Labels
      <4>5. k.kind = kind /\ k.at = "message"
        BY <4>3 DEF Carry, Job
      <4>6. k.msg = j.msg /\ k.text = j.text
        BY <4>3 DEF Carry, Job
      <4>7. k.doc = t
        BY <4>3 DEF Carry, Job
      <4> QED BY <4>4, <4>5, <4>6, <4>7
    <3>4. w[1] = ChatOf[j.msg] /\ w[2] # "prepare"
      BY <1>2, <2>0 DEF LaneJob
    <3>5. t # None
      BY <2>2
    <3>6. LaneJob(w, k)
      BY <1>3, <2>0, <3>1, <3>2, <3>3, <3>4, <3>5 DEF LaneJob
    <3>7. Become(w, k)
      BY <3>1
    <3> QED BY <1>5, <3>3, <3>6, <3>7
  <2> QED BY <2>1, <2>2
<1>7. CASE FindForDelete(w)
  <2>1. CASE Stored(j.msg)
    <3> PICK k : k = [j EXCEPT !.doc = TopicOf(j.msg), !.at = "remove"]
      OBVIOUS
    <3>1. Become(w, k) /\ j.kind = "delete"
      BY <1>3, <1>7, <2>1 DEF FindForDelete
    <3>2. k \in Jobs
      BY <1>2, <1>4, DocIds DEF Jobs, Labels
    <3>3. /\ k.kind = j.kind /\ k.at = "remove" /\ k.msg = j.msg /\ k.text = j.text
          /\ k.doc = TopicOf(j.msg)
      BY <1>2 DEF Jobs
    <3>4. LaneJob(w, k)
      BY <1>2, <1>4, <3>1, <3>3 DEF LaneJob
    <3> QED BY <1>5, <3>1, <3>2, <3>4
  <2>2. CASE ~Stored(j.msg)
    <3>1. Become(w, None)
      BY <1>3, <1>7, <2>2 DEF FindForDelete
    <3>2. Types'
      BY <1>3, <3>1, BecomeTypes DEF Types, tableVars, memVars, chatVars
    <3>3. JobOK(w)'
      BY <3>1, Becomes DEF JobOK
    <3> QED BY <1>3, <3>1, <3>2, <3>3, QuietStep
  <2> QED BY <2>1, <2>2
<1> QED BY <1>6, <1>7

LEMMA StopInv ==
  ASSUME Types, ControlInv, NEW w \in Workers, Stop(w)
  PROVE  Types' /\ ControlInv'
<1>1. tableVars' = tableVars /\ memVars' = memVars /\ chatVars' = chatVars /\ job[w] # None
  BY DEF Stop
<1>2. CASE Become(w, None)
  <2>1. Types'
    BY <1>1, <1>2, BecomeTypes DEF Types, tableVars, memVars, chatVars
  <2>2. JobOK(w)'
    BY <1>2, Becomes DEF JobOK
  <2> QED BY <1>1, <1>2, <2>1, <2>2, QuietStep
<1>3. CASE ~Become(w, None)
  <2>1. /\ job[w].kind \in {"update", "new", "edit", "same"}
        /\ Become(w, Job("update", "find", Msg(w), version[Msg(w)]))
    BY <1>3 DEF Stop
  <2>2. w # EventLoop /\ w \in Lanes /\ LaneJob(w, job[w])
    BY <1>1, <2>1, LaneStep
  <2>3. /\ Msg(w) \in Incoming /\ Msg(w) \in Messages /\ version[Msg(w)] \in Nat
        /\ w[1] = ChatOf[Msg(w)] /\ w[2] = "background"
    BY <2>1, <2>2 DEF LaneJob, Msg, Lanes, Types
  <2> PICK m : m = Msg(w)
    OBVIOUS
  <2>4. Job("update", "find", m, version[m]) \in Jobs
    BY <2>3, NewJob DEF Kinds, Labels
  <2>5. Types'
    BY <1>1, <2>1, <2>4, BecomeTypes DEF Types, tableVars, memVars, chatVars
  <2>6. JobOK(w)'
    BY <2>1, <2>2, <2>3, Becomes, StartOK DEF Kinds, Labels
  <2> QED BY <1>1, <2>1, <2>5, <2>6, QuietStep
<1> QED BY <1>2, <1>3

(* Rows that are kept, dropped, or put with a topic of their chat. *)
LEMMA TopicsOfRows ==
  ASSUME Types, TopicOfItsChat, memVars' = memVars,
         \A i \in RowIds :
           \/ rows'[i] = None
           \/ rows'[i] = rows[i]
           \/ \E m \in Messages :
                rows'[i] # None /\ rows'[i].msg = m /\ Usable(rows'[i].topic, m)
  PROVE  TopicOfItsChat'
BY DEF TopicOfItsChat, Usable, OfChat, memVars

LEMMA TableStepInv ==
  ASSUME Types, ControlInv, Types', memVars' = memVars, TopicOfItsChat',
         NEW w \in Workers, NEW j, Become(w, j), JobOK(w)'
  PROVE  ControlInv'
<1>1. \A v \in Workers \ {w} : job'[v] = job[v]
  BY Becomes
<1>2. Grows /\ TopicsKnown'
  BY DEF memVars, Grows, ControlInv, TopicsKnown
<1>3. \A v \in Workers : JobOK(v)'
  BY <1>1, <1>2, OthersStay DEF ControlInv, Agrees
<1> QED BY <1>2, <1>3 DEF ControlInv

LEMMA RemoveInv ==
  ASSUME Types, ControlInv, NEW w \in Workers, Remove(w)
  PROVE  Types' /\ ControlInv'
<1> PICK j : j = job[w]
  OBVIOUS
<1>1. j # None /\ j.at = "remove"
  BY DEF Remove, At
<1>2. w # EventLoop /\ w \in Lanes /\ LaneJob(w, j) /\ j \in Jobs
  BY <1>1, LaneStep
<1>3. /\ memVars' = memVars /\ chatVars' = chatVars /\ DeleteMessage(j.msg)
      /\ j.msg \in Messages /\ j.kind = "delete"
  BY <1>1, <1>2 DEF Remove, LaneJob, Jobs, Kinds, Msg
<1>4. /\ rows' \in [RowIds -> Rows \cup {None}] /\ vecs' \in [RowIds -> Vectors \cup {None}]
      /\ \A k \in RowIds : rows'[k] = None \/ rows'[k] = rows[k]
  BY <1>3, DeleteEffect DEF Left, Kept
<1>5. TopicOfItsChat'
  BY <1>3, <1>4, TopicsOfRows DEF ControlInv
<1>6. PICK k \in Jobs \cup {None} :
        Become(w, k) /\ (k # None => LaneJob(w, k))
  <2>1. CASE j.doc # None
    <3> PICK k : k = [j EXCEPT !.at = "patch"]
      OBVIOUS
    <3>1. Become(w, k)
      BY <2>1 DEF Remove, Goto
    <3>2. k \in Jobs
      BY <1>2 DEF Jobs, Labels
    <3>3. /\ k.kind = j.kind /\ k.at = "patch" /\ k.msg = j.msg /\ k.text = j.text
          /\ k.doc = j.doc
      BY <1>2 DEF Jobs
    <3>4. LaneJob(w, k)
      BY <1>1, <1>2, <1>3, <2>1, <3>3 DEF LaneJob, Usable
    <3> QED BY <3>1, <3>2, <3>4
  <2>2. CASE j.doc = None /\ Sender[j.msg] = Self
    BY <2>2 DEF Remove, Msg
  <2>3. CASE j.doc = None /\ Sender[j.msg] # Self
    <3> PICK k : k = [j EXCEPT !.at = "look"]
      OBVIOUS
    <3>1. Become(w, k)
      BY <2>3 DEF Remove, Goto, Msg
    <3>2. k \in Jobs
      BY <1>2 DEF Jobs, Labels
    <3>3. /\ k.kind = j.kind /\ k.at = "look" /\ k.msg = j.msg /\ k.text = j.text
          /\ k.doc = j.doc
      BY <1>2 DEF Jobs
    <3>4. LaneJob(w, k)
      BY <1>1, <1>2, <1>3, <2>3, <3>3 DEF LaneJob
    <3> QED BY <3>1, <3>2, <3>4
  <2> QED BY <2>1, <2>2, <2>3
<1>7. Types'
  BY <1>3, <1>4, <1>6, BecomeTypes DEF Types, memVars, chatVars
<1>8. JobOK(w)'
  <2>1. job'[w] = k
    BY <1>6, Becomes
  <2>2. k # None => LaneJob(w, k)'
    BY <1>3, <1>6 DEF LaneJob, Usable, OfChat, memVars
  <2> QED BY <1>2, <2>1, <2>2 DEF JobOK
<1> QED BY <1>3, <1>5, <1>6, <1>7, <1>8, TableStepInv

(* What WriteMessage does to the tables, with the message its job is about. *)
LEMMA Written ==
  ASSUME Types, ControlInv, NEW w \in Workers, WriteMessage(w)
  PROVE  /\ w # EventLoop /\ w \in Lanes /\ LaneJob(w, job[w]) /\ job[w] \in Jobs
         /\ job[w].at = "message" /\ memVars' = memVars
         /\ job[w].msg \in Messages /\ job[w].text \in Nat
         /\ Usable(job[w].doc, job[w].msg) /\ job[w].doc \in TopicIds \cup {None}
         /\ \E e \in BOOLEAN :
              /\ UpsertMessage(job[w].msg, job[w].text, job[w].doc, e)
              /\ Upserted(job[w].msg, job[w].text, job[w].doc, e)
<1>1. job[w] # None /\ job[w].at = "message" /\ memVars' = memVars
  BY DEF WriteMessage, At, memVars
<1>2. w # EventLoop /\ w \in Lanes /\ LaneJob(w, job[w]) /\ job[w] \in Jobs
  BY <1>1, LaneStep
<1>3. /\ job[w].msg \in Messages /\ job[w].text \in Nat
      /\ Usable(job[w].doc, job[w].msg) /\ job[w].doc \in TopicIds \cup {None}
  BY <1>1, <1>2 DEF LaneJob, Jobs, Usable, OfChat
<1>4. PICK e \in Embedding(job[w]) : UpsertMessage(job[w].msg, job[w].text, job[w].doc, e)
  BY DEF WriteMessage
<1>5. e \in BOOLEAN
  BY <1>4 DEF Embedding
<1>6. Upserted(job[w].msg, job[w].text, job[w].doc, e)
  BY <1>3, <1>4, <1>5, UpsertEffect
<1> QED BY <1>1, <1>2, <1>3, <1>4, <1>5, <1>6

(* The job that follows a message's writing. *)
LEMMA AfterMessage ==
  ASSUME Types, ControlInv, NEW w \in Workers, WriteMessage(w)
  PROVE  \E k \in Jobs \cup {None} :
           /\ Become(w, k)
           /\ \/ job[w].kind = "new" /\ k = AfterUpdate(job[w].msg, job[w].text)
              \/ k # None => LaneJob(w, k)
<1> PICK j : j = job[w]
  OBVIOUS
<1>1. /\ w # EventLoop /\ w \in Lanes /\ LaneJob(w, j) /\ j \in Jobs /\ j.at = "message"
      /\ j.msg \in Messages /\ j.text \in Nat /\ Usable(j.doc, j.msg)
  BY Written
<1>2. j.kind \in {"prepare", "own", "new", "edit", "same"}
  BY <1>1 DEF LaneJob, Jobs, Kinds
<1>3. CASE j.kind \in {"prepare", "own"}
  BY <1>3 DEF WriteMessage
<1>4. CASE j.kind = "new"
  <2>1. Become(w, AfterUpdate(j.msg, j.text))
    BY <1>4 DEF WriteMessage
  <2> QED BY <1>1, <1>4, <2>1, AfterUpdateJob
<1>5. CASE j.kind = "edit"
  <2> PICK k : k = [j EXCEPT !.at = "patch"]
    OBVIOUS
  <2>1. Become(w, k)
    BY <1>5 DEF WriteMessage, Goto
  <2>2. k \in Jobs
    BY <1>1 DEF Jobs, Labels
  <2>3. /\ k.kind = j.kind /\ k.at = "patch" /\ k.msg = j.msg /\ k.text = j.text
        /\ k.doc = j.doc
    BY <1>1 DEF Jobs
  <2>4. LaneJob(w, k)
    BY <1>1, <1>5, <2>3 DEF LaneJob, Usable
  <2> QED BY <2>1, <2>2, <2>4
<1>6. CASE j.kind = "same"
  <2> PICK k : k = Through(w, "look")
    OBVIOUS
  <2>1. Become(w, k)
    BY <1>6 DEF WriteMessage
  <2>2. /\ k \in Jobs
        /\ k.kind = j.kind /\ k.at = "look" /\ k.msg = j.msg /\ k.text = j.text
    <3>1. /\ k \in Jobs
          /\ k = [kind |-> j.kind, at |-> "look", msg |-> j.msg, text |-> j.text,
                  doc |-> None, copy |-> {}, since |-> {}, emb |-> FALSE]
      BY <1>1, ThroughJob DEF Labels
    <3> QED BY <3>1
  <2>3. j.msg \in Incoming /\ Sender[j.msg] # Self
    BY <1>1, <1>6, Assumed DEF LaneJob, Incoming, Assumptions, MemoryAssumption
  <2>4. LaneJob(w, k)
    BY <1>1, <1>6, <2>2, <2>3 DEF LaneJob
  <2> QED BY <2>1, <2>2, <2>4
<1> QED BY <1>2, <1>3, <1>4, <1>5, <1>6

LEMMA WriteMessageInv ==
  ASSUME Types, ControlInv, NEW w \in Workers, WriteMessage(w)
  PROVE  Types' /\ ControlInv'
<1> PICK j : j = job[w]
  OBVIOUS
<1>1. /\ w # EventLoop /\ w \in Lanes /\ LaneJob(w, j) /\ j \in Jobs /\ j.at = "message"
      /\ j.msg \in Messages /\ j.text \in Nat /\ Usable(j.doc, j.msg) /\ memVars' = memVars
  BY Written
<1>2. PICK e \in BOOLEAN : Upserted(j.msg, j.text, j.doc, e)
  BY Written
<1>3. PICK k \in Jobs \cup {None} :
        /\ Become(w, k)
        /\ \/ j.kind = "new" /\ k = AfterUpdate(j.msg, j.text)
           \/ k # None => LaneJob(w, k)
  BY AfterMessage
<1>4. TopicOfItsChat'
  <2>1. \A i \in RowIds :
          \/ rows'[i] = None
          \/ rows'[i] = rows[i]
          \/ rows'[i] = [msg |-> j.msg, text |-> j.text, topic |-> j.doc]
    BY <1>2 DEF Upserted, Left, Kept, Put
  <2> PICK row : row = [msg |-> j.msg, text |-> j.text, topic |-> j.doc]
    OBVIOUS
  <2>2. row # None /\ row.msg = j.msg /\ row.topic = j.doc
    <3>1. j.doc \in TopicIds \cup {None}
      BY <1>1 DEF Usable, OfChat
    <3>2. row \in Rows
      BY <1>1, <3>1 DEF Rows
    <3> QED BY <3>2, Assumed DEF Assumptions, NoRowAssumption
  <2> QED BY <1>1, <2>1, <2>2, TopicsOfRows DEF ControlInv
<1>5. phase' \in [Incoming -> {"new", "preparing", "prepared", "updated"}]
  BY <1>1 DEF WriteMessage, Types, LaneJob
<1>6. Types'
  BY <1>1, <1>2, <1>3, <1>5, BecomeTypes DEF Types, WriteMessage, Upserted, memVars
<1>7. job'[w] = k
  BY <1>3, Becomes
<1>8. JobOK(w)'
  <2>1. CASE j.kind = "new" /\ k = AfterUpdate(j.msg, j.text)
    <3>1. j.msg \in Incoming /\ w[1] = ChatOf[j.msg] /\ w[2] # "prepare"
      BY <1>1, <2>1 DEF LaneJob
    <3> QED BY <1>1, <1>7, <2>1, <3>1, AfterUpdateOK
  <2>2. CASE k # None => LaneJob(w, k)
    <3>1. k # None => LaneJob(w, k)'
      BY <1>1, <2>2 DEF LaneJob, Usable, OfChat, memVars
    <3> QED BY <1>1, <1>7, <3>1 DEF JobOK
  <2> QED BY <1>3, <2>1, <2>2
<1> QED BY <1>1, <1>3, <1>4, <1>6, <1>8, TableStepInv

----------------------------------------------------------------------------
(* The invariant of types, jobs and tables. *)

LEMMA TableWritten ==
  ASSUME Types, ControlInv, TableInv, NEW w \in Workers, WriteMessage(w)
  PROVE  TableInv'
<1> PICK m : m = job[w].msg
  OBVIOUS
<1> PICK text : text = job[w].text
  OBVIOUS
<1> PICK topic : topic = job[w].doc
  OBVIOUS
<1>0. m \in Messages /\ text \in Nat /\ topic \in TopicIds \cup {None}
  BY Written
<1> PICK e \in BOOLEAN : UpsertMessage(m, text, topic, e) /\ Upserted(m, text, topic, e)
  BY Written
<1>1. Limited'
  BY <1>0, UpsertLimited DEF TableInv
<1> PICK row : row = [msg |-> m, text |-> text, topic |-> topic]
  OBVIOUS
<1> PICK vec : vec = [chat |-> ChatOf[m], msg |-> m, text |-> text]
  OBVIOUS
<1>2. /\ row # None /\ row.msg = m
      /\ vec.msg = m /\ vec.chat = ChatOf[m]
  <2>1. row \in Rows
    BY <1>0 DEF Rows
  <2> QED BY <2>1, Assumed DEF Assumptions, NoRowAssumption
<1>3. PICK i \in RowIds :
        /\ rows[i] # None => rows[i].msg = m
        /\ rows[i] = None => \A k \in RowIds : rows[k] # None => rows[k].msg # m
        /\ \/ Left(i)
           \/ rows'[i] = row /\ vecs'[i] = IF e THEN vec ELSE vecs[i]
        /\ \A k \in RowIds \ {i} : Left(k) \/ Kept(k)
  BY DEF Upserted, Put
<1>4. \A k \in RowIds \ {i} : rows[k] # None => rows[k].msg # m
  BY <1>3 DEF TableInv, OneRowEach
<1>5. OneRowEach'
  BY <1>2, <1>3, <1>4 DEF TableInv, OneRowEach, Left, Kept
<1>6. VectorHasRow'
  BY <1>2, <1>3 DEF TableInv, VectorHasRow, Left, Kept
<1> QED BY <1>1, <1>5, <1>6 DEF TableInv

LEMMA TableRemoved ==
  ASSUME Types, ControlInv, TableInv, NEW w \in Workers, Remove(w)
  PROVE  TableInv'
<1>1. job[w] # None /\ job[w].at = "remove" /\ DeleteMessage(job[w].msg)
  BY DEF Remove, At, Msg
<1>2. job[w].msg \in Messages
  BY <1>1, LaneStep DEF LaneJob
<1>3. \A k \in RowIds : Left(k) \/ Kept(k)
  BY <1>1, <1>2, DeleteEffect
<1>4. Limited'
  BY <1>1, <1>2, DeleteLimited DEF TableInv
<1> QED BY <1>3, <1>4 DEF TableInv, OneRowEach, VectorHasRow, Left, Kept

LEMMA TableSteps ==
  Next => \/ tableVars' = tableVars
          \/ \E w \in Workers : WriteMessage(w) \/ Remove(w)
BY DEF Next, Step, Edit, StartPrepare, StartUpdate, StartDelete, StartLocation, AssignByReply,
       AssignByModel, NewTopic, AssignNone, WriteTopic, FindForUpdate, FindForDelete, Patch,
       ReadProfile, WriteProfile, Stop, tableVars

MemoryInv == Types /\ ControlInv /\ TableInv

LEMMA InitMemory == Init => MemoryInv
<1> SUFFICES ASSUME Init PROVE MemoryInv
  OBVIOUS
<1>1. Types
  BY InitTypes
<1>2. ControlInv
  BY DEF Init, InitTable, ControlInv, JobOK, TopicsKnown, TopicOfItsChat, Docs
<1>3. OneRowEach /\ VectorHasRow
  BY DEF Init, InitTable, OneRowEach, VectorHasRow
<1>4. Limited
  <2> SUFFICES ASSUME NEW c \in Chats PROVE Cardinality(InChat(rows, c)) <= Limit
    BY DEF Limited
  <2>1. InChat(rows, c) = {}
    BY DEF Init, InitTable, InChat
  <2> QED BY <2>1, FS_EmptySet, Assumed DEF Assumptions, TableAssumption
<1> QED BY <1>1, <1>2, <1>3, <1>4 DEF MemoryInv, TableInv

LEMMA MemoryStep == ASSUME MemoryInv, [Next]_vars PROVE MemoryInv'
<1>1. CASE UNCHANGED vars
  BY <1>1 DEF vars, tableVars, memVars, chatVars, MemoryInv, Types, ControlInv, TableInv, JobOK,
     LoopJob, LaneJob, OfChat, Usable, TopicsKnown, TopicOfItsChat, OneRowEach, VectorHasRow,
     Limited, InChat
<1>2. CASE Next
  <2>1. Types' /\ ControlInv'
    <3>1. ASSUME NEW w \in Workers, Step(w) PROVE Types' /\ ControlInv'
      BY <3>1, AssignsInv, NewTopicInv, WriteTopicInv, WriteMessageInv, FindsInv, RemoveInv,
         PatchInv, ReadProfileInv, WriteProfileInv, StopInv DEF Step, MemoryInv, TableInv
    <3>2. ASSUME NEW m \in Incoming, Edit(m) \/ StartPrepare(m) \/ StartUpdate(m)
          PROVE  Types' /\ ControlInv'
      BY <3>2, EditInv, StartsInv DEF MemoryInv
    <3> QED BY <1>2, <3>1, <3>2, StartDeleteInv, StartLocationInv DEF Next, MemoryInv
  <2>2. TableInv'
    <3>1. CASE tableVars' = tableVars
      BY <3>1 DEF tableVars, MemoryInv, TableInv, OneRowEach, VectorHasRow, Limited, InChat
    <3> QED BY <1>2, <3>1, TableSteps, TableWritten, TableRemoved DEF MemoryInv
  <2> QED BY <2>1, <2>2 DEF MemoryInv
<1> QED BY <1>1, <1>2

LEMMA MemoryAlways == Spec => []MemoryInv
<1>1. Init => MemoryInv
  BY InitMemory
<1>2. MemoryInv /\ [Next]_vars => MemoryInv'
  BY MemoryStep
<1> QED BY <1>1, <1>2, PTL DEF Spec

(* Every variable holds a value of its type, and no chat ever has more     *)
(* messages than RecentMessagesLimit: UpsertMessage drops the rest in the  *)
(* transaction that adds one.                                              *)
THEOREM TypeCorrect == Spec => []TypeOK
<1>1. MemoryInv => TypeOK
  BY DEF MemoryInv, TableInv, Types, Limited, TypeOK
<1> QED BY <1>1, MemoryAlways, PTL

(* A message's topic is there and belongs to the message's chat, whatever  *)
(* rows come and go and whichever lanes write at once.                     *)
THEOREM TopicsStayInTheirChat == Spec => []TopicOfItsChat
<1>1. MemoryInv => TopicOfItsChat
  BY DEF MemoryInv, ControlInv
<1> QED BY <1>1, MemoryAlways, PTL

----------------------------------------------------------------------------
(* Documents that are read and written back. *)

LEMMA HolderWrites ==
  ASSUME Types, ControlInv, NEW w \in Workers, NEW d \in Docs, Holds(w, d)
  PROVE  /\ w \in WritersOf(d)
         /\ d \in TopicIds => topicChat[d] # None
<1> PICK j : j = job[w]
  OBVIOUS
<1>1. j # None /\ j.at \in {"topic", "profile"} /\ j.doc = d
  BY DEF Holds
<1>2. People \cap TopicIds = {}
  BY Assumed DEF Assumptions, MemoryAssumption
<1>3. CASE w = EventLoop
  <2>1. d \in People
    BY <1>1, <1>3, Working DEF LoopJob
  <2> QED BY <1>2, <1>3, <2>1 DEF WritersOf
<1>4. CASE w # EventLoop
  <2>1. LaneJob(w, j) /\ w \in Lanes /\ j.msg \in Messages /\ w[1] = ChatOf[j.msg]
    BY <1>1, <1>4, Working DEF LaneJob
  <2>2. CASE j.at = "topic"
    <3>1. d \in TopicIds /\ topicChat[d] = w[1] /\ topicChat[d] # None
      BY <1>1, <2>1, <2>2, ChatIsThere DEF LaneJob, OfChat
    <3> QED BY <2>1, <3>1 DEF WritersOf
  <2>3. CASE j.at = "profile"
    <3>1. d = Sender[j.msg] /\ d \in People /\ d \notin TopicIds
      BY <1>1, <1>2, <2>1, <2>3 DEF LaneJob, People
    <3>2. w[2] = "background"
      BY <2>1, <2>3 DEF LaneJob, Lanes
    <3>3. w = <<w[1], w[2]>>
      BY <2>1 DEF Lanes
    <3>4. w = BackgroundOf(ChatOf[j.msg])
      BY <2>1, <3>2, <3>3 DEF BackgroundOf
    <3> QED BY <2>1, <3>1, <3>4 DEF WritersOf
  <2> QED BY <1>1, <2>2, <2>3
<1> QED BY <1>3, <1>4

LEMMA WritersStay ==
  ASSUME Types, ControlInv, Grows, NEW w \in Workers, NEW d \in Docs, Holds(w, d)
  PROVE  WritersOf(d)' = WritersOf(d)
<1>1. CASE d \in TopicIds
  <2>1. topicChat'[d] = topicChat[d]
    BY <1>1, HolderWrites DEF Grows
  <2> QED BY <1>1, <2>1 DEF WritersOf
<1>2. CASE d \notin TopicIds
  BY <1>2 DEF WritersOf
<1> QED BY <1>1, <1>2

(* A job that holds no document, or has just read it. *)
Clean(k) ==
  (k # None /\ k.at \in {"topic", "profile"}) => k.copy = FactsOf(k.doc) /\ k.since = {}

LEMMA CleanStep ==
  ASSUME Types, ControlInv, FreshInv, docs' = docs, Grows, NEW w \in Workers, NEW k,
         Become(w, k), Clean(k)
  PROVE  FreshInv'
<1> SUFFICES ASSUME NEW v \in Workers, NEW d \in Docs PROVE Fresh(v, d)'
  BY DEF FreshInv
<1>1. FactsOf(d)' = FactsOf(d)
  BY DEF FactsOf
<1>2. CASE v = w
  <2>1. job'[v] = k
    BY <1>2, Becomes
  <2> QED BY <1>1, <2>1 DEF Clean, Fresh, Holds
<1>3. CASE v # w
  <2>1. job'[v] = job[v] /\ Fresh(v, d)
    BY <1>3, Becomes DEF FreshInv
  <2>2. Holds(v, d)' => Holds(v, d)
    BY <2>1 DEF Holds
  <2> QED BY <1>1, <2>1, <2>2, WritersStay DEF Fresh
<1> QED BY <1>2, <1>3

(* After a write the others that hold the document know of it. *)
LEMMA WriteStep ==
  ASSUME Types, ControlInv, FreshInv, NEW w \in Workers, job[w] # None,
         job[w].at \in {"topic", "profile"}, job[w].doc \in Docs,
         NEW new, NEW next, Write(w, new, next), topicChat' = topicChat,
         next # None => next.at \notin {"topic", "profile"}
  PROVE  FreshInv'
<1> SUFFICES ASSUME NEW v \in Workers, NEW d \in Docs, Holds(v, d)' PROVE Fresh(v, d)'
  BY DEF FreshInv, Fresh
<1>1. v # w
  BY DEF Write, Holds
<1>2. WritersOf(d)' = WritersOf(d)
  BY DEF WritersOf
<1>3. CASE Holds(v, job[w].doc)
  <2>1. job[v] \in Jobs
    BY <1>3, Typed DEF Holds
  <2> PICK k : k = [job[v] EXCEPT !.since = @ \cup {w}]
    OBVIOUS
  <2>2. job'[v] = k
    BY <1>1, <1>3 DEF Write
  <2>3. k.at = job[v].at /\ k.doc = job[v].doc /\ k.since = job[v].since \cup {w}
    BY <2>1 DEF Jobs
  <2>4. d = job[w].doc
    BY <1>3, <2>2, <2>3 DEF Holds
  <2>5. w \in WritersOf(d) /\ Fresh(v, d)
    BY <2>4, HolderWrites DEF FreshInv, Holds
  <2>6. k.since \subseteq WritersOf(d) \ {v} /\ k.since # {}
    BY <1>1, <1>3, <2>3, <2>4, <2>5 DEF Fresh
  <2> QED BY <1>2, <2>2, <2>6 DEF Fresh
<1>4. CASE ~Holds(v, job[w].doc)
  <2>1. job'[v] = job[v]
    BY <1>1, <1>4 DEF Write
  <2>2. Holds(v, d) /\ d # job[w].doc
    BY <1>4, <2>1 DEF Holds
  <2>3. docs'[d] = docs[d]
    BY <2>2 DEF Write, Types
  <2> QED BY <1>2, <2>1, <2>2, <2>3 DEF FreshInv, Fresh, FactsOf
<1> QED BY <1>3, <1>4

LEMMA CopiedClean == \A w, d, l, e : Clean(Copied(w, d, l, e))
BY DEF Clean, Copied, Carry

LEMMA OthersClean ==
  /\ \A kind, l, m, text : l \notin {"topic", "profile"} => Clean(Job(kind, l, m, text))
  /\ \A j, l, d, c, e : l \notin {"topic", "profile"} => Clean(Carry(j, l, d, c, e))
  /\ \A w, l : l \notin {"topic", "profile"} => Clean(Through(w, l))
  /\ \A m, text : Clean(AfterUpdate(m, text))
  /\ Clean(None)
BY DEF Clean, Job, Carry, Through, AfterUpdate

LEMMA GotoClean ==
  ASSUME NEW j \in Jobs, NEW l, l \notin {"topic", "profile"}
  PROVE  Clean([j EXCEPT !.at = l])
BY DEF Clean, Jobs

LEMMA QuietFresh ==
  ASSUME Types, ControlInv, FreshInv, memVars' = memVars,
         NEW w \in Workers, NEW k, Become(w, k), Clean(k)
  PROVE  FreshInv'
BY CleanStep DEF memVars, Grows

LEMMA StartsFresh ==
  ASSUME Types, ControlInv, FreshInv
  PROVE  /\ \A m \in Incoming : Edit(m) \/ StartPrepare(m) \/ StartUpdate(m) => FreshInv'
         /\ \A m \in Messages : StartDelete(m) => FreshInv'
         /\ \A p \in Located : StartLocation(p) => FreshInv'
<1>1. ASSUME NEW m \in Incoming, Edit(m) PROVE FreshInv'
  BY <1>1 DEF Edit, memVars, FreshInv, Fresh, Holds, WritersOf, FactsOf
<1>2. ASSUME NEW m \in Incoming, StartPrepare(m) PROVE FreshInv'
  <2>1. PICK text : Become(PrepareOf(ChatOf[m]), Job("prepare", "assign", m, text))
    BY <1>2 DEF StartPrepare
  <2>2. PrepareOf(ChatOf[m]) \in Workers
    BY WorkersAre DEF Incoming
  <2> QED BY <1>2, <2>1, <2>2, QuietFresh, OthersClean DEF StartPrepare
<1>3. ASSUME NEW m \in Incoming, StartUpdate(m) PROVE FreshInv'
  <2>1. BackgroundOf(ChatOf[m]) \in Workers
    BY WorkersAre DEF Incoming
  <2> QED BY <1>3, <2>1, QuietFresh, OthersClean DEF StartUpdate
<1>4. ASSUME NEW m \in Messages, StartDelete(m) PROVE FreshInv'
  <2>1. BackgroundOf(ChatOf[m]) \in Workers
    BY WorkersAre
  <2> QED BY <1>4, <2>1, QuietFresh, OthersClean DEF StartDelete
<1>5. ASSUME NEW p \in Located, StartLocation(p) PROVE FreshInv'
  BY <1>5, WorkersAre, QuietFresh, OthersClean DEF StartLocation
<1> QED BY <1>1, <1>2, <1>3, <1>4, <1>5

LEMMA WritesFresh ==
  ASSUME Types, ControlInv, FreshInv, NEW w \in Workers, WriteTopic(w) \/ WriteProfile(w)
  PROVE  FreshInv'
<1> PICK j : j = job[w]
  OBVIOUS
<1>1. j # None /\ j.at \in {"topic", "profile"} /\ j \in Jobs /\ topicChat' = topicChat
  BY Typed DEF WriteTopic, WriteProfile, At
<1>2. j.doc \in Docs
  BY <1>1, Working, DocIds DEF LaneJob, LoopJob, OfChat, People
<1>3. CASE WriteTopic(w)
  <2>1. PICK next :
          /\ Write(w, {Sender[j.msg]}, next)
          /\ next = None \/ next = Through(w, "look")
             \/ next = Carry(j, "message", j.doc, {}, j.emb)
    BY <1>3 DEF WriteTopic
  <2>2. next # None => next.at \notin {"topic", "profile"}
    BY <2>1 DEF Through, Carry
  <2> QED BY <1>1, <1>2, <2>1, <2>2, WriteStep
<1>4. CASE WriteProfile(w) /\ ~Become(w, None)
  <2>1. PICK new : Write(w, new, AfterProfile(w))
    BY <1>4 DEF WriteProfile
  <2>2. j.kind \in {"new", "edit", "same", "delete", "location"}
    BY <1>1, <1>4, Working DEF LaneJob, LoopJob, WriteProfile, At, Jobs, Kinds
  <2>3. \/ AfterProfile(w) = Through(w, "assign")
        \/ AfterProfile(w) = AfterUpdate(j.msg, j.text)
        \/ AfterProfile(w) = None
    BY <2>2 DEF AfterProfile
  <2>4. AfterProfile(w) # None => AfterProfile(w).at \notin {"topic", "profile"}
    BY <2>3 DEF Through, Carry, AfterUpdate, Job
  <2> QED BY <1>1, <1>2, <2>1, <2>4, WriteStep
<1>5. CASE WriteProfile(w) /\ Become(w, None)
  <2>1. CASE docs' = docs
    BY <1>1, <1>5, <2>1, QuietFresh, OthersClean DEF memVars
  <2>2. CASE \E new \in Learned(w) : Write(w, new, AfterProfile(w))
    <3>1. PICK new : Write(w, new, AfterProfile(w))
      BY <2>2
    <3>2. job'[w] = AfterProfile(w) /\ job'[w] = None
      BY <1>5, <3>1, Becomes DEF Write
    <3> QED BY <1>1, <1>2, <3>1, <3>2, WriteStep
  <2> QED BY <1>5, <2>1, <2>2 DEF WriteProfile
<1> QED BY <1>3, <1>4, <1>5

LEMMA StepFresh ==
  ASSUME Types, ControlInv, FreshInv, NEW w \in Workers, Step(w)
  PROVE  FreshInv'
<1>1. job[w] # None => job[w] \in Jobs
  BY Typed
<1>2. CASE AssignByReply(w) \/ AssignByModel(w) \/ Patch(w) \/ ReadProfile(w)
  <2>1. /\ memVars' = memVars
        /\ \E d, l, e : Become(w, Copied(w, d, l, e))
    BY <1>2 DEF AssignByReply, AssignByModel, Patch, ReadProfile
  <2> QED BY <2>1, QuietFresh, CopiedClean
<1>3. CASE NewTopic(w)
  <2>1. PICK t \in TopicIds :
          /\ \A u \in TopicIds : topicChat[u] = None <=> u >= t
          /\ topicChat' = [topicChat EXCEPT ![t] = ChatOf[Msg(w)]]
          /\ Become(w, Copied(w, t, "topic", TRUE))
    BY <1>3 DEF NewTopic
  <2>2. topicChat[t] = None
    BY <2>1 DEF TopicIds
  <2>3. docs' = docs /\ Grows
    BY <1>3, <2>1, <2>2 DEF NewTopic, Grows, Types
  <2> QED BY <2>1, <2>3, CleanStep, CopiedClean
<1>4. CASE AssignNone(w)
  BY <1>1, <1>4, QuietFresh, GotoClean DEF AssignNone, Goto, At
<1>5. CASE WriteTopic(w) \/ WriteProfile(w)
  BY <1>5, WritesFresh
<1>6. CASE WriteMessage(w)
  <2>1. /\ memVars' = memVars /\ job[w] \in Jobs /\ LaneJob(w, job[w])
        /\ job[w].at = "message"
    BY <1>6, Written
  <2>2. job[w].kind \in {"prepare", "own", "new", "edit", "same"}
    BY <2>1 DEF LaneJob, Jobs, Kinds
  <2>3. \/ Become(w, None) \/ Become(w, AfterUpdate(job[w].msg, job[w].text))
        \/ Goto(w, "patch") \/ Become(w, Through(w, "look"))
    BY <1>6, <2>2 DEF WriteMessage
  <2> QED BY <2>1, <2>3, QuietFresh, OthersClean, GotoClean DEF Goto
<1>7. CASE FindForUpdate(w)
  BY <1>7, QuietFresh, OthersClean DEF FindForUpdate
<1>8. CASE FindForDelete(w)
  <2>1. CASE Stored(Msg(w))
    <3> PICK k : k = [job[w] EXCEPT !.doc = TopicOf(Msg(w)), !.at = "remove"]
      OBVIOUS
    <3>1. Become(w, k) /\ memVars' = memVars
      BY <1>8, <2>1 DEF FindForDelete
    <3>2. Clean(k)
      BY <1>1, <1>8 DEF Clean, Jobs, FindForDelete, At
    <3> QED BY <3>1, <3>2, QuietFresh
  <2> QED BY <1>8, <2>1, QuietFresh, OthersClean DEF FindForDelete
<1>9. CASE Remove(w)
  <2>1. /\ memVars' = memVars /\ job[w] # None
        /\ Become(w, None) \/ Goto(w, "patch") \/ Goto(w, "look")
    BY <1>9 DEF Remove, At, memVars
  <2> QED BY <1>1, <2>1, QuietFresh, OthersClean, GotoClean DEF Goto
<1>10. CASE Stop(w)
  <2>1. /\ memVars' = memVars
        /\ Become(w, None) \/ Become(w, Job("update", "find", Msg(w), version[Msg(w)]))
    BY <1>10 DEF Stop
  <2> QED BY <2>1, QuietFresh, OthersClean
<1> QED BY <1>2, <1>3, <1>4, <1>5, <1>6, <1>7, <1>8, <1>9, <1>10 DEF Step

(* Who does not write leaves the documents alone. *)
LEMMA WritingSteps ==
  ASSUME MemoryInv, Next
  PROVE  \/ docs' = docs
         \/ \E w \in Workers : \E new \in SUBSET Facts : \E next :
              /\ job[w] # None /\ job[w].at \in {"topic", "profile"}
              /\ Write(w, new, next) /\ topicChat' = topicChat
<1> SUFFICES ASSUME docs' # docs
             PROVE  \E w \in Workers : \E new \in SUBSET Facts : \E next :
                      /\ job[w] # None /\ job[w].at \in {"topic", "profile"}
                      /\ Write(w, new, next) /\ topicChat' = topicChat
  OBVIOUS
<1>1. PICK w \in Workers : WriteTopic(w) \/ WriteProfile(w)
  BY DEF Next, Step, Edit, StartPrepare, StartUpdate, StartDelete, StartLocation, AssignByReply,
     AssignByModel, NewTopic, AssignNone, WriteMessage, FindForUpdate, FindForDelete, Remove,
     Patch, ReadProfile, Stop, memVars
<1>2. CASE WriteTopic(w)
  <2>1. job[w] # None /\ job[w].at = "topic"
    BY <1>2 DEF WriteTopic, At
  <2>2. {Sender[job[w].msg]} \in SUBSET Facts
    BY <2>1, LaneStep DEF MemoryInv, LaneJob, Facts
  <2> QED BY <1>2, <2>1, <2>2 DEF WriteTopic
<1>3. CASE WriteProfile(w)
  <2>1. PICK new \in Learned(w) : Write(w, new, AfterProfile(w))
    BY <1>3 DEF WriteProfile
  <2>2. new \in SUBSET Facts
    BY <1>3, LearnedFacts DEF WriteProfile, MemoryInv
  <2> QED BY <1>3, <2>1, <2>2 DEF WriteProfile, At
<1> QED BY <1>1, <1>2, <1>3

LEMMA RaceStep ==
  ASSUME MemoryInv, FreshInv, Next, NEW d \in Docs
  PROVE  \/ FactsOf(d) \subseteq FactsOf(d)'
         \/ \E w \in WritersOf(d) :
              Holds(w, d) /\ job[w].since # {} /\ job[w].since \subseteq WritersOf(d) \ {w}
<1>1. CASE docs' = docs
  BY <1>1 DEF FactsOf
<1>2. CASE docs' # docs
  <2>1. PICK w \in Workers, new \in SUBSET Facts :
          \E next : /\ job[w] # None /\ job[w].at \in {"topic", "profile"}
                    /\ Write(w, new, next)
    BY <1>2, WritingSteps
  <2> PICK next : Write(w, new, next)
    BY <2>1
  <2>2. CASE d # job[w].doc
    <3>1. docs'[d] = docs[d]
      BY <2>1, <2>2 DEF Write, MemoryInv, Types
    <3> QED BY <3>1 DEF FactsOf
  <2>3. CASE d = job[w].doc
    <3>1. Holds(w, d)
      BY <2>1, <2>3 DEF Holds
    <3>2. w \in WritersOf(d) /\ job[w].since \subseteq WritersOf(d) \ {w}
          /\ (FactsOf(d) \subseteq job[w].copy \/ job[w].since # {})
      BY <3>1, HolderWrites DEF FreshInv, Fresh, MemoryInv
    <3>3. job[w].copy \subseteq FactsOf(d)'
      <4>1. docs'[d] = job[w].copy \cup new
        BY <2>1, <2>3 DEF Write, CopyAnd, MemoryInv, Types
      <4>2. job[w].copy \cup new \in SUBSET Facts
        BY <2>1, Typed, AddingToACopy DEF CopyAnd, MemoryInv
      <4>3. docs'[d] # None
        BY <4>1, <4>2, Assumed DEF Assumptions, NoneAssumption
      <4> QED BY <4>1, <4>3 DEF FactsOf
    <3> QED BY <3>1, <3>2, <3>3
  <2> QED BY <2>2, <2>3
<1> QED BY <1>1, <1>2

(* A topic or a profile loses what was once written to it only when a      *)
(* second of its own writers wrote between its reading and its writing     *)
(* back; no other chat, and no prepare attempt of a profile, ever does.    *)
THEOREM LossesAreRaces == Spec => LostOnlyToARace
<1>1. Init => FreshInv
  BY DEF Init, FreshInv, Fresh, Holds
<1>2. MemoryInv /\ FreshInv /\ [Next]_vars => FreshInv'
  <2>1. CASE UNCHANGED vars
    BY <2>1 DEF vars, memVars, FreshInv, Fresh, Holds, WritersOf, FactsOf
  <2>2. ASSUME MemoryInv, FreshInv, Next PROVE FreshInv'
    BY <2>2, StartsFresh, StepFresh DEF Next, MemoryInv
  <2> QED BY <2>1, <2>2
<1>3. MemoryInv /\ FreshInv /\ [Next]_vars =>
        [\A d \in Docs :
           FactsOf(d) \subseteq FactsOf(d)' \/
           \E w \in WritersOf(d) :
             Holds(w, d) /\ job[w].since # {} /\ job[w].since \subseteq WritersOf(d) \ {w}]_vars
  BY RaceStep
<1> QED BY <1>1, <1>2, <1>3, MemoryAlways, PTL DEF Spec, LostOnlyToARace

----------------------------------------------------------------------------
(* The order of texts. *)

Updates == {"update", "new", "edit", "same"}

(* The job k that follows in w is about the same text, about the present   *)
(* text after an update, or of no account.                                 *)
Succeeds(w, k) ==
  \/ k = None
  \/ k.kind \in {"own", "delete", "location"}
  \/ /\ job[w] # None /\ k.msg = job[w].msg
     /\ \/ k.text = job[w].text /\ k.kind = job[w].kind
        \/ k.text = job[w].text /\ k.kind \in Updates /\ job[w].kind \in Updates
        \/ k.text = version[k.msg] /\ k.kind = "update" /\ job[w].kind \in Updates

Follows(m) == \A v \in Workers : (job'[v] # None /\ job'[v].msg = m) => Succeeds(v, job'[v])

RowsLeft(m) ==
  \A i \in RowIds : (rows'[i] # None /\ rows'[i].msg = m) => rows'[i] = rows[i]

LEMMA OrderStays ==
  ASSUME Types, NEW m \in Incoming, Ordered(m), RowsLeft(m), Follows(m),
         phase'[m] = phase[m], version'[m] = version[m], wanted'[m] = wanted[m]
  PROVE  Ordered(m)'
<1>1. \A i \in RowIds : IsRowOf(i, m)' => IsRowOf(i, m) /\ rows'[i] = rows[i]
  BY DEF RowsLeft, IsRowOf
<1>2. ASSUME NEW v \in Workers, job'[v] # None, job'[v].msg = m
      PROVE  /\ job'[v].kind = "prepare" =>
                  phase[m] = "preparing" /\ wanted[m] = job'[v].text + 1
             /\ job'[v].kind \in Updates =>
                  /\ phase[m] = "updated"
                  /\ job'[v].text <= version[m]
                  /\ \A i \in RowIds : IsRowOf(i, m) => rows[i].text <= job'[v].text
  <2> PICK k : k = job'[v]
    OBVIOUS
  <2>1. Succeeds(v, k) /\ k # None /\ k.msg = m
    BY <1>2 DEF Follows
  <2>2. CASE k.kind \in {"own", "delete", "location"}
    BY <2>2 DEF Updates
  <2>3. CASE job[v] # None /\ k.msg = job[v].msg /\ k.text = job[v].text
             /\ (k.kind = job[v].kind \/ (k.kind \in Updates /\ job[v].kind \in Updates))
    BY <2>1, <2>3 DEF Ordered, Updates
  <2>4. CASE job[v] # None /\ k.msg = job[v].msg /\ k.text = version[m]
             /\ k.kind = "update" /\ job[v].kind \in Updates
    <3>1. phase[m] = "updated" /\ version[m] \in Nat
      BY <2>1, <2>4 DEF Ordered, Updates, Types, Incoming
    <3>2. \A i \in RowIds : IsRowOf(i, m) => rows[i].text <= version[m]
      BY DEF Ordered
    <3>3. k.text <= version[m] /\ \A i \in RowIds : IsRowOf(i, m) => rows[i].text <= k.text
      BY <2>4, <3>1, <3>2
    <3>4. k.kind # "prepare"
      BY <2>4
    <3> QED BY <3>1, <3>3, <3>4
  <2> QED BY <2>1, <2>2, <2>3, <2>4 DEF Succeeds
<1>3. /\ wanted[m] <= version[m] + 1
      /\ phase[m] # "updated" => \A i \in RowIds : IsRowOf(i, m) => rows[i].text < wanted[m]
      /\ \A i \in RowIds : IsRowOf(i, m) => rows[i].text <= version[m]
  BY DEF Ordered
<1> QED BY <1>1, <1>2, <1>3 DEF Ordered, Updates

LEMMA BecomeFollows ==
  ASSUME Types, NEW w \in Workers, NEW k, Become(w, k), NEW m,
         k # None /\ k.msg = m => Succeeds(w, k)
  PROVE  Follows(m)
<1>1. job'[w] = k /\ \A v \in Workers \ {w} : job'[v] = job[v]
  BY Becomes
<1> QED BY <1>1 DEF Follows, Succeeds

LEMMA QuietOrder ==
  ASSUME Types, OrderInv, tableVars' = tableVars, chatVars' = chatVars,
         NEW w \in Workers, NEW k, Become(w, k), Succeeds(w, k)
  PROVE  OrderInv'
<1>1. ASSUME NEW m \in Incoming PROVE Ordered(m)'
  BY BecomeFollows, OrderStays DEF OrderInv, RowsLeft, tableVars, chatVars
<1> QED BY <1>1 DEF OrderInv, tableVars

LEMMA WriteOrder ==
  ASSUME Types, ControlInv, OrderInv, tableVars' = tableVars, chatVars' = chatVars,
         NEW w \in Workers, job[w] \in Jobs, NEW new \in SUBSET Facts,
         NEW next \in Jobs \cup {None}, Write(w, new, next), job[w].doc \in Docs,
         topicChat' = topicChat, job[w].doc \in TopicIds => topicChat[job[w].doc] # None,
         Succeeds(w, next)
  PROVE  OrderInv'
<1>1. job'[w] = next /\ \A v \in Workers \ {w} : Agrees(v)
  BY WriteEffect
<1>2. ASSUME NEW m \in Incoming PROVE Follows(m)
  <2> SUFFICES ASSUME NEW v \in Workers, job'[v] # None PROVE Succeeds(v, job'[v])
    BY DEF Follows
  <2>1. CASE v = w
    BY <1>1, <2>1
  <2>2. CASE v # w
    BY <1>1, <2>2 DEF Agrees, Succeeds
  <2> QED BY <2>1, <2>2
<1>3. ASSUME NEW m \in Incoming PROVE Ordered(m)'
  BY <1>2, OrderStays DEF OrderInv, RowsLeft, tableVars, chatVars
<1> QED BY <1>3 DEF OrderInv, tableVars

LEMMA CarrySucceeds ==
  ASSUME NEW w, job[w] # None
  PROVE  /\ \A d, l, e : Succeeds(w, Copied(w, d, l, e))
         /\ \A l : Succeeds(w, Through(w, l))
         /\ \A l, d, c, e : Succeeds(w, Carry(job[w], l, d, c, e))
BY DEF Succeeds, Copied, Through, Carry

LEMMA GotoSucceeds ==
  ASSUME NEW w, job[w] # None, job[w] \in Jobs, NEW l
  PROVE  Succeeds(w, [job[w] EXCEPT !.at = l])
<1> PICK k : k = [job[w] EXCEPT !.at = l]
  OBVIOUS
<1>1. k.msg = job[w].msg /\ k.text = job[w].text /\ k.kind = job[w].kind
  BY DEF Jobs
<1> QED BY <1>1 DEF Succeeds

LEMMA AfterSucceeds ==
  ASSUME NEW w, job[w] # None, job[w].kind \in Updates
  PROVE  Succeeds(w, AfterUpdate(job[w].msg, job[w].text))
BY DEF Succeeds, AfterUpdate, Job

LEMMA QuietStepsOrder ==
  ASSUME Types, ControlInv, OrderInv, NEW w \in Workers,
         \/ AssignByReply(w) \/ AssignByModel(w) \/ NewTopic(w) \/ AssignNone(w)
         \/ FindForUpdate(w) \/ FindForDelete(w) \/ Patch(w) \/ ReadProfile(w) \/ Stop(w)
  PROVE  OrderInv'
<1>1. /\ job[w] # None /\ job[w] \in Jobs
      /\ tableVars' = tableVars /\ chatVars' = chatVars
  BY Typed DEF AssignByReply, AssignByModel, NewTopic, AssignNone, FindForUpdate,
     FindForDelete, Patch, ReadProfile, Stop, At
<1>2. CASE AssignByReply(w) \/ AssignByModel(w) \/ NewTopic(w) \/ Patch(w) \/ ReadProfile(w)
  <2>1. \E d, l, e : Become(w, Copied(w, d, l, e))
    BY <1>2 DEF AssignByReply, AssignByModel, NewTopic, Patch, ReadProfile
  <2> QED BY <1>1, <2>1, CarrySucceeds, QuietOrder
<1>3. CASE AssignNone(w)
  BY <1>1, <1>3, GotoSucceeds, QuietOrder DEF AssignNone, Goto
<1>4. CASE FindForUpdate(w)
  <2> PICK j : j = job[w]
    OBVIOUS
  <2>1. j.kind = "update"
    BY <1>4 DEF FindForUpdate
  <2>2. \/ Become(w, Job("new", "look", j.msg, j.text))
        \/ \E kind \in {"same", "edit"} : \E t :
             Become(w, Carry(Job(kind, "find", j.msg, j.text), "message", t, {}, FALSE))
    BY <1>4 DEF FindForUpdate
  <2>3. Succeeds(w, Job("new", "look", j.msg, j.text))
    BY <1>1, <2>1 DEF Succeeds, Job, Updates
  <2>4. ASSUME NEW kind \in {"same", "edit"}, NEW t
        PROVE  Succeeds(w, Carry(Job(kind, "find", j.msg, j.text), "message", t, {}, FALSE))
    BY <1>1, <2>1 DEF Succeeds, Job, Carry, Updates
  <2> QED BY <1>1, <2>2, <2>3, <2>4, QuietOrder
<1>5. CASE FindForDelete(w)
  <2>1. CASE Stored(Msg(w))
    <3> PICK k : k = [job[w] EXCEPT !.doc = TopicOf(Msg(w)), !.at = "remove"]
      OBVIOUS
    <3>1. Become(w, k)
      BY <1>5, <2>1 DEF FindForDelete
    <3>2. k.msg = job[w].msg /\ k.text = job[w].text /\ k.kind = job[w].kind
      BY <1>1 DEF Jobs
    <3> QED BY <1>1, <3>1, <3>2, QuietOrder DEF Succeeds
  <2>2. CASE ~Stored(Msg(w))
    BY <1>1, <1>5, <2>2, QuietOrder DEF FindForDelete, Succeeds
  <2> QED BY <2>1, <2>2
<1>6. CASE Stop(w)
  <2>1. \/ Become(w, None)
        \/ /\ job[w].kind \in Updates
           /\ Become(w, Job("update", "find", job[w].msg, version[job[w].msg]))
    BY <1>6 DEF Stop, Msg, Updates
  <2>2. job[w].kind \in Updates =>
          Succeeds(w, Job("update", "find", job[w].msg, version[job[w].msg]))
    BY <1>1 DEF Succeeds, Job, Updates
  <2> QED BY <1>1, <2>1, <2>2, QuietOrder DEF Succeeds
<1> QED BY <1>2, <1>3, <1>4, <1>5, <1>6

LEMMA WriteTopicOrder ==
  ASSUME Types, ControlInv, OrderInv, NEW w \in Workers, WriteTopic(w)
  PROVE  OrderInv'
<1> PICK j : j = job[w]
  OBVIOUS
<1>1. /\ j # None /\ j.at = "topic" /\ tableVars' = tableVars /\ chatVars' = chatVars
      /\ topicChat' = topicChat
  BY DEF WriteTopic, At
<1>2. w \in Lanes /\ LaneJob(w, j) /\ j \in Jobs /\ j.msg \in Messages
  BY <1>1, LaneStep DEF LaneJob
<1>3. j.doc \in TopicIds /\ j.doc \in Docs /\ topicChat[j.doc] # None
  BY <1>1, <1>2, ChatIsThere, DocIds DEF LaneJob, OfChat
<1>4. {Sender[j.msg]} \in SUBSET Facts
  BY <1>2 DEF Facts
<1>5. PICK next :
        /\ Write(w, {Sender[j.msg]}, next)
        /\ next = None \/ next = Through(w, "look")
           \/ next = Carry(j, "message", j.doc, {}, j.emb)
  BY DEF WriteTopic
<1>6. next \in Jobs \cup {None}
  <2>1. Through(w, "look") \in Jobs
    BY <1>2, ThroughJob DEF Labels
  <2>2. Carry(j, "message", j.doc, {}, j.emb) \in Jobs
    BY <1>2, <1>3 DEF Carry, Jobs, Labels
  <2> QED BY <1>5, <2>1, <2>2
<1>7. Succeeds(w, next)
  BY <1>1, <1>5, CarrySucceeds DEF Succeeds
<1> QED BY <1>1, <1>2, <1>3, <1>4, <1>5, <1>6, <1>7, WriteOrder

LEMMA WriteProfileOrder ==
  ASSUME Types, ControlInv, OrderInv, NEW w \in Workers, WriteProfile(w)
  PROVE  OrderInv'
<1> PICK j : j = job[w]
  OBVIOUS
<1>1. /\ j # None /\ j.at = "profile" /\ j \in Jobs
      /\ tableVars' = tableVars /\ chatVars' = chatVars /\ topicChat' = topicChat
  BY Typed DEF WriteProfile, At
<1>2. j.doc \in People /\ j.doc \in Docs /\ j.doc \notin TopicIds
  <2>1. j.doc \in People
    BY <1>1, Working DEF LaneJob, LoopJob, People
  <2> QED BY <2>1, DocIds, Assumed DEF Assumptions, MemoryAssumption
<1>3. j.kind \in {"new", "edit", "same", "delete", "location"}
  BY <1>1, Working DEF LaneJob, LoopJob, Jobs, Kinds
<1>4. AfterProfile(w) \in Jobs \cup {None} /\ Succeeds(w, AfterProfile(w))
  <2>1. AfterProfile(w) \in Jobs \cup {None}
    BY AfterProfileJob DEF WriteProfile
  <2>2. CASE j.kind = "new"
    <3>1. AfterProfile(w) = Through(w, "assign")
      BY <2>2 DEF AfterProfile
    <3> QED BY <1>1, <2>1, <3>1, CarrySucceeds
  <2>3. CASE j.kind \in {"edit", "same"}
    <3>1. AfterProfile(w) = AfterUpdate(j.msg, j.text)
      BY <2>3 DEF AfterProfile
    <3> QED BY <1>1, <2>1, <2>3, <3>1, AfterSucceeds DEF Updates
  <2>4. CASE j.kind \in {"delete", "location"}
    <3>1. AfterProfile(w) = None
      BY <2>4 DEF AfterProfile
    <3> QED BY <2>1, <3>1 DEF Succeeds
  <2> QED BY <1>3, <2>2, <2>3, <2>4
<1>5. CASE \E new \in Learned(w) : Write(w, new, AfterProfile(w))
  <2>1. PICK new \in Learned(w) : Write(w, new, AfterProfile(w))
    BY <1>5
  <2>2. new \in SUBSET Facts
    BY LearnedFacts DEF WriteProfile
  <2> QED BY <1>1, <1>2, <1>4, <2>1, <2>2, WriteOrder
<1>6. CASE Become(w, None)
  BY <1>1, <1>6, QuietOrder DEF Succeeds
<1> QED BY <1>5, <1>6 DEF WriteProfile

LEMMA StartPrepareOrder ==
  ASSUME Types, OrderInv, NEW m \in Incoming, StartPrepare(m)
  PROVE  OrderInv'
<1> PICK w : w = PrepareOf(ChatOf[m])
  OBVIOUS
<1>1. /\ w \in Workers /\ tableVars' = tableVars /\ version' = version
      /\ phase[m] \in {"new", "prepared"} /\ phase' = [phase EXCEPT ![m] = "preparing"]
      /\ version[m] \in Nat /\ wanted[m] \in Nat
  BY WorkersAre DEF StartPrepare, Incoming, Types
<1>2. PICK text \in wanted[m] .. version[m] :
        /\ Become(w, Job("prepare", "assign", m, text))
        /\ wanted' = [wanted EXCEPT ![m] = text + 1]
  BY DEF StartPrepare
<1>3. /\ text \in Nat /\ wanted[m] <= text /\ text <= version[m]
      /\ wanted'[m] = text + 1 /\ phase'[m] = "preparing"
  BY <1>1, <1>2 DEF Types
<1> PICK k : k = Job("prepare", "assign", m, text)
  OBVIOUS
<1>4. k.kind = "prepare" /\ k.msg = m /\ k.text = text
  BY DEF Job
<1>5. job'[w] = k /\ \A v \in Workers \ {w} : job'[v] = job[v]
  BY <1>1, <1>2, Becomes
<1>6. Ordered(m)'
  <2>1. \A v \in Workers : (job'[v] # None /\ job'[v].msg = m) =>
          /\ job'[v].kind = "prepare" => v = w
          /\ job'[v].kind \notin Updates
    BY <1>1, <1>4, <1>5 DEF OrderInv, Ordered, Updates
  <2>2. \A i \in RowIds : rows'[i] = rows[i]
    BY <1>1 DEF tableVars
  <2>3. \A i \in RowIds : IsRowOf(i, m) => rows[i].text < wanted[m]
    BY <1>1 DEF OrderInv, Ordered
  <2>4. \A i \in RowIds : IsRowOf(i, m) => rows[i].text < text + 1
    <3> SUFFICES ASSUME NEW i \in RowIds, IsRowOf(i, m) PROVE rows[i].text < text + 1
      OBVIOUS
    <3>1. rows[i] \in Rows
      BY DEF IsRowOf, Types
    <3> QED BY <1>1, <1>3, <2>3, <3>1 DEF Rows
  <2>5. \A i \in RowIds : IsRowOf(i, m) => rows[i].text <= version[m]
    BY DEF OrderInv, Ordered
  <2>6. \A i \in RowIds : IsRowOf(i, m)' => IsRowOf(i, m)
    BY <2>2 DEF IsRowOf
  <2>7. wanted'[m] <= version'[m] + 1
    BY <1>1, <1>3
  <2>8. \A i \in RowIds : IsRowOf(i, m)' => rows'[i].text < wanted'[m] /\ rows'[i].text <= version'[m]
    BY <1>1, <1>3, <2>2, <2>4, <2>5, <2>6
  <2>9. \A v \in Workers : (job'[v] # None /\ job'[v].msg = m) =>
          /\ job'[v].kind = "prepare" =>
               phase'[m] = "preparing" /\ wanted'[m] = job'[v].text + 1
          /\ job'[v].kind \notin Updates
    BY <1>3, <1>4, <1>5, <2>1
  <2> QED BY <2>7, <2>8, <2>9 DEF Ordered, Updates
<1>7. ASSUME NEW o \in Incoming, o # m PROVE Ordered(o)'
  <2>1. Follows(o)
    BY <1>1, <1>2, <1>4, <1>7, BecomeFollows
  <2>2. phase'[o] = phase[o] /\ version'[o] = version[o] /\ wanted'[o] = wanted[o] /\ RowsLeft(o)
    BY <1>1, <1>2, <1>7 DEF Types, tableVars, RowsLeft
  <2> QED BY <2>1, <2>2, OrderStays DEF OrderInv
<1> QED BY <1>1, <1>6, <1>7 DEF OrderInv, tableVars

LEMMA StartUpdateOrder ==
  ASSUME Types, OrderInv, NEW m \in Incoming, StartUpdate(m)
  PROVE  OrderInv'
<1> PICK w : w = BackgroundOf(ChatOf[m])
  OBVIOUS
<1>1. /\ w \in Workers /\ tableVars' = tableVars /\ version' = version /\ wanted' = wanted
      /\ phase[m] = "prepared" /\ phase' = [phase EXCEPT ![m] = "updated"]
      /\ version[m] \in Nat /\ phase'[m] = "updated"
  BY WorkersAre DEF StartUpdate, Incoming, Types
<1> PICK k : k = Job("update", "find", m, version[m])
  OBVIOUS
<1>2. k.kind = "update" /\ k.msg = m /\ k.text = version[m]
  BY DEF Job
<1>3. job'[w] = k /\ (\A v \in Workers \ {w} : job'[v] = job[v]) /\ Become(w, k)
  BY <1>1, Becomes DEF StartUpdate
<1>4. Ordered(m)'
  <2>1. \A v \in Workers \ {w} : (job'[v] # None /\ job'[v].msg = m) =>
          job'[v].kind # "prepare" /\ job'[v].kind \notin Updates
    BY <1>1, <1>3 DEF OrderInv, Ordered, Updates
  <2>2. \A i \in RowIds : IsRowOf(i, m)' => IsRowOf(i, m) /\ rows'[i] = rows[i]
    BY <1>1 DEF tableVars, IsRowOf
  <2>3. \A i \in RowIds : IsRowOf(i, m) => rows[i].text <= version[m]
    BY DEF OrderInv, Ordered
  <2>4. wanted[m] <= version[m] + 1
    BY DEF OrderInv, Ordered
  <2>5. \A i \in RowIds : IsRowOf(i, m)' => rows'[i].text <= version[m]
    BY <2>2, <2>3
  <2>6. \A v \in Workers : (job'[v] # None /\ job'[v].msg = m) =>
          /\ job'[v].kind # "prepare"
          /\ job'[v].kind \in Updates => job'[v].text = version[m]
    BY <1>2, <1>3, <2>1
  <2> QED BY <1>1, <2>4, <2>5, <2>6 DEF Ordered, Updates
<1>5. ASSUME NEW o \in Incoming, o # m PROVE Ordered(o)'
  <2>1. Follows(o)
    BY <1>1, <1>2, <1>3, <1>5, BecomeFollows
  <2>2. phase'[o] = phase[o] /\ version'[o] = version[o] /\ wanted'[o] = wanted[o] /\ RowsLeft(o)
    BY <1>1, <1>5 DEF Types, tableVars, RowsLeft
  <2> QED BY <2>1, <2>2, OrderStays DEF OrderInv
<1> QED BY <1>1, <1>4, <1>5 DEF OrderInv, tableVars

LEMMA EditOrder ==
  ASSUME Types, OrderInv, NEW m \in Incoming, Edit(m)
  PROVE  OrderInv'
<1>1. /\ rows' = rows /\ vecs' = vecs /\ job' = job /\ phase' = phase /\ wanted' = wanted
      /\ version' = [version EXCEPT ![m] = @ + 1]
  BY DEF Edit, tableVars
<1>2. ASSUME NEW o \in Incoming PROVE Ordered(o)'
  <2>1. /\ version[o] \in Nat /\ version'[o] \in Nat /\ version[o] <= version'[o]
        /\ wanted[o] \in Nat
    BY <1>1 DEF Types, Incoming
  <2>2. \A i \in RowIds : IsRowOf(i, o) => rows[i].text \in Nat
    BY DEF IsRowOf, Types, Rows
  <2>3. \A v \in Workers : job[v] # None => job[v].text \in Nat
    BY DEF Types, Jobs
  <2>4. Ordered(o)
    BY DEF OrderInv
  <2>5. wanted[o] <= version'[o] + 1
    BY <2>1, <2>4 DEF Ordered
  <2>6. \A i \in RowIds : IsRowOf(i, o) => rows[i].text <= version'[o]
    BY <2>1, <2>2, <2>4 DEF Ordered
  <2>7. \A v \in Workers : (job[v] # None /\ job[v].msg = o /\ job[v].kind \in Updates) =>
          job[v].text <= version'[o]
    BY <2>1, <2>3, <2>4 DEF Ordered, Updates
  <2> QED BY <1>1, <2>4, <2>5, <2>6, <2>7 DEF Ordered, IsRowOf, Updates
<1> QED BY <1>1, <1>2 DEF OrderInv

LEMMA OtherStartsOrder ==
  ASSUME Types, OrderInv
  PROVE  /\ \A m \in Messages : StartDelete(m) => OrderInv'
         /\ \A p \in Located : StartLocation(p) => OrderInv'
<1>1. ASSUME NEW w \in Workers, NEW k, Become(w, k), k.kind \in {"delete", "location"},
             rows' = rows, vecs' = vecs, version' = version, phase' = phase, wanted' = wanted
      PROVE  OrderInv'
  <2>1. ASSUME NEW o \in Incoming PROVE Ordered(o)'
    BY <1>1, BecomeFollows, OrderStays DEF OrderInv, RowsLeft, Succeeds
  <2> QED BY <1>1, <2>1 DEF OrderInv
<1>2. ASSUME NEW m \in Messages, StartDelete(m) PROVE OrderInv'
  BY <1>1, <1>2, WorkersAre DEF StartDelete, Job, tableVars
<1>3. ASSUME NEW p \in Located, StartLocation(p) PROVE OrderInv'
  BY <1>1, <1>3, WorkersAre DEF StartLocation, Job, Carry, tableVars
<1> QED BY <1>2, <1>3

LEMMA RemoveOrder ==
  ASSUME Types, ControlInv, OrderInv, NEW w \in Workers, Remove(w)
  PROVE  OrderInv'
<1>1. /\ job[w] # None /\ job[w] \in Jobs /\ job[w].at = "remove"
      /\ DeleteMessage(job[w].msg) /\ chatVars' = chatVars
  BY Typed DEF Remove, At, Msg
<1>2. job[w].msg \in Messages
  BY <1>1, LaneStep DEF LaneJob
<1>3. \A i \in RowIds : Left(i) \/ Kept(i)
  BY <1>1, <1>2, DeleteEffect
<1>4. \E k : Become(w, k) /\ Succeeds(w, k)
  <2>1. Become(w, None) \/ Goto(w, "patch") \/ Goto(w, "look")
    BY DEF Remove
  <2>2. CASE Become(w, None)
    BY <2>2 DEF Succeeds
  <2>3. ASSUME NEW l, Goto(w, l) PROVE \E k : Become(w, k) /\ Succeeds(w, k)
    BY <1>1, <2>3, GotoSucceeds DEF Goto
  <2> QED BY <2>1, <2>2, <2>3
<1>5. ASSUME NEW m \in Incoming PROVE Ordered(m)'
  <2>1. RowsLeft(m)
    BY <1>3 DEF Left, Kept, RowsLeft
  <2>2. phase'[m] = phase[m] /\ version'[m] = version[m] /\ wanted'[m] = wanted[m]
    BY <1>1 DEF chatVars
  <2> QED BY <1>4, <2>1, <2>2, BecomeFollows, OrderStays DEF OrderInv
<1> QED BY <1>3, <1>5 DEF OrderInv, Left, Kept

(* The lane of a message's update is the only one that updates it, and of  *)
(* its prepare attempt the only one that prepares it.                      *)
LEMMA OneJobOfAMessage ==
  ASSUME Types, ControlInv, NEW w \in Workers, NEW v \in Workers,
         job[w] # None, job[v] # None, job[w].msg = job[v].msg,
         \/ job[w].kind = "prepare" /\ job[v].kind = "prepare"
         \/ job[w].kind \in Updates /\ job[v].kind \in Updates
  PROVE  v = w
<1>1. /\ w \in Lanes /\ LaneJob(w, job[w])
      /\ v \in Lanes /\ LaneJob(v, job[v])
  BY Working DEF LoopJob, Updates
<1>2. w[1] = v[1] /\ w[2] = v[2] /\ w = <<w[1], w[2]>> /\ v = <<v[1], v[2]>>
  BY <1>1 DEF LaneJob, Lanes, Updates
<1> QED BY <1>2

LEMMA WriteMessageOrder ==
  ASSUME Types, ControlInv, TableInv, OrderInv, NEW w \in Workers, WriteMessage(w)
  PROVE  OrderInv'
<1> PICK j : j = job[w]
  OBVIOUS
<1> PICK m : m = j.msg
  OBVIOUS
<1> PICK n : n = j.text
  OBVIOUS
<1>1. /\ j # None /\ w \in Lanes /\ LaneJob(w, j) /\ j \in Jobs /\ j.at = "message"
      /\ m \in Messages /\ n \in Nat
  BY Written DEF WriteMessage, At
<1>2. /\ j.kind \in {"prepare", "own", "new", "edit", "same"}
      /\ j.kind = "own" => m \in Own /\ n = 0
      /\ j.kind # "own" => m \in Incoming
  BY <1>1 DEF LaneJob, Jobs, Kinds
<1> PICK topic : topic = j.doc
  OBVIOUS
<1>3. PICK e \in BOOLEAN : Upserted(m, n, topic, e)
  BY Written
<1> PICK row : row = [msg |-> m, text |-> n, topic |-> topic]
  OBVIOUS
<1> PICK vec : vec = [chat |-> ChatOf[m], msg |-> m, text |-> n]
  OBVIOUS
<1>4. row.msg = m /\ row.text = n /\ vec.text = n
  OBVIOUS
<1>5. PICK i \in RowIds :
        /\ rows[i] # None => rows[i].msg = m
        /\ rows[i] = None => \A k \in RowIds : rows[k] # None => rows[k].msg # m
        /\ \/ Left(i)
           \/ rows'[i] = row /\ vecs'[i] = IF e THEN vec ELSE vecs[i]
        /\ \A k \in RowIds \ {i} : Left(k) \/ Kept(k)
  BY <1>3 DEF Upserted, Put
<1>6. /\ version' = version /\ wanted' = wanted
      /\ phase' = IF j.kind = "prepare" THEN [phase EXCEPT ![m] = "prepared"] ELSE phase
  BY DEF WriteMessage
<1>7. PICK k : Become(w, k) /\ Succeeds(w, k)
               /\ (j.kind = "prepare" => k = None)
  <2>1. CASE j.kind \in {"prepare", "own"}
    BY <2>1 DEF WriteMessage, Succeeds
  <2>2. CASE j.kind = "new"
    <3>1. Become(w, AfterUpdate(j.msg, j.text))
      BY <2>2 DEF WriteMessage
    <3> QED BY <1>1, <2>2, <3>1, AfterSucceeds DEF Updates
  <2>3. CASE j.kind = "edit"
    BY <1>1, <2>3, GotoSucceeds DEF WriteMessage, Goto
  <2>4. CASE j.kind = "same"
    BY <1>1, <2>4, CarrySucceeds DEF WriteMessage
  <2> QED BY <1>2, <2>1, <2>2, <2>3, <2>4
<1>8. job'[w] = k /\ \A v \in Workers \ {w} : job'[v] = job[v]
  BY <1>7, Becomes
<1>9. ASSUME NEW r \in RowIds, rows[r] # None PROVE rows[r].text \in Nat
  BY <1>9 DEF Types, Rows
(* The text that is written is not older than the one that is there. *)
<1>10. rows[i] # None => rows[i].text <= n
  <2> SUFFICES ASSUME rows[i] # None PROVE rows[i].text <= n
    OBVIOUS
  <2>1. IsRowOf(i, m) /\ rows[i].text \in Nat
    BY <1>5, <1>9 DEF IsRowOf
  <2>2. CASE j.kind = "own"
    BY <1>2, <2>1, <2>2 DEF OrderInv, IsRowOf
  <2>3. CASE j.kind = "prepare"
    <3>1. Ordered(m)
      BY <1>2, <2>3 DEF OrderInv
    <3>2. phase[m] = "preparing" /\ wanted[m] = n + 1
      BY <1>1, <2>3, <3>1 DEF Ordered
    <3>3. rows[i].text < n + 1
      BY <2>1, <3>1, <3>2 DEF Ordered
    <3> QED BY <1>1, <2>1, <3>3
  <2>4. CASE j.kind \in {"new", "edit", "same"}
    <3>1. Ordered(m)
      BY <1>2, <2>4 DEF OrderInv
    <3> QED BY <1>1, <2>1, <2>4, <3>1 DEF Ordered
  <2> QED BY <1>2, <2>2, <2>3, <2>4
<1>11. \A r \in RowIds : vecs'[r] # None => vecs'[r].text <= rows'[r].text
  <2> SUFFICES ASSUME NEW r \in RowIds, vecs'[r] # None
               PROVE  vecs'[r].text <= rows'[r].text
    OBVIOUS
  <2>1. CASE Left(r)
    BY <2>1 DEF Left
  <2>2. CASE Kept(r)
    BY <2>2 DEF Kept, OrderInv
  <2>3. CASE r = i /\ rows'[i] = row /\ vecs'[i] = IF e THEN vec ELSE vecs[i]
    <3>1. CASE e
      BY <1>1, <1>4, <2>3, <3>1
    <3>2. CASE ~e
      <4>1. vecs[i] # None /\ vecs'[i] = vecs[i] /\ rows[i] # None
        BY <2>3, <3>2 DEF TableInv, VectorHasRow
      <4>2. vecs[i].text <= rows[i].text /\ vecs[i].text \in Nat
        BY <4>1 DEF OrderInv, Types, Vectors
      <4>3. vecs[i].text <= n
        BY <1>1, <1>9, <1>10, <4>1, <4>2
      <4> QED BY <1>4, <2>3, <4>1, <4>3
    <3> QED BY <3>1, <3>2
  <2> QED BY <1>5, <2>1, <2>2, <2>3
<1>12. \A r \in RowIds : (rows'[r] # None /\ rows'[r].msg \in Own) => rows'[r].text = 0
  <2>1. m \in Own => n = 0
    BY <1>2 DEF Incoming
  <2> QED BY <1>4, <1>5, <2>1 DEF Left, Kept, OrderInv
<1>13. ASSUME NEW o \in Incoming, o # m PROVE Ordered(o)'
  <2>1. RowsLeft(o)
    BY <1>4, <1>5, <1>13 DEF RowsLeft, Left, Kept
  <2>2. phase'[o] = phase[o] /\ version'[o] = version[o] /\ wanted'[o] = wanted[o]
    BY <1>6, <1>13 DEF Types
  <2>3. Follows(o)
    BY <1>7, BecomeFollows
  <2> QED BY <2>1, <2>2, <2>3, OrderStays DEF OrderInv
<1>14. CASE j.kind = "own"
  BY <1>2, <1>11, <1>12, <1>13, <1>14 DEF OrderInv, Incoming
(* What is in the table of m now is what was written. *)
<1>15. \A r \in RowIds : IsRowOf(r, m)' => rows'[r].text = n
  <2>1. \A r \in RowIds \ {i} : rows[r] # None => rows[r].msg # m
    BY <1>5 DEF TableInv, OneRowEach
  <2> QED BY <1>4, <1>5, <2>1 DEF IsRowOf, Left, Kept
<1>16. CASE j.kind = "prepare"
  <2>1. m \in Incoming /\ Ordered(m) /\ phase'[m] = "prepared"
    BY <1>2, <1>6, <1>16 DEF OrderInv, Types
  <2>2. /\ phase[m] = "preparing" /\ wanted[m] = n + 1 /\ wanted[m] <= version[m] + 1
        /\ version[m] \in Nat
    BY <1>1, <1>16, <2>1 DEF Ordered, Types, Incoming
  <2>3. \A v \in Workers : (job'[v] # None /\ job'[v].msg = m) =>
          job'[v].kind # "prepare" /\ job'[v].kind \notin Updates
    <3> SUFFICES ASSUME NEW v \in Workers, job'[v] # None, job'[v].msg = m
                 PROVE  job'[v].kind # "prepare" /\ job'[v].kind \notin Updates
      OBVIOUS
    <3>1. v # w /\ job'[v] = job[v]
      BY <1>7, <1>8, <1>16
    <3>2. job[v].kind # "prepare"
      BY <1>1, <1>16, <3>1, OneJobOfAMessage
    <3> QED BY <2>1, <2>2, <3>1, <3>2 DEF Ordered, Updates
  <2>4. n < n + 1 /\ n <= version[m]
    BY <1>1, <2>2
  <2>5. Ordered(m)'
    BY <1>6, <1>15, <2>1, <2>2, <2>3, <2>4 DEF Ordered, Updates
  <2> QED BY <1>11, <1>12, <1>13, <2>5 DEF OrderInv
<1>17. CASE j.kind \in {"new", "edit", "same"}
  <2>1. m \in Incoming /\ Ordered(m) /\ phase' = phase
    BY <1>2, <1>6, <1>17 DEF OrderInv
  <2>2. phase[m] = "updated" /\ n <= version[m] /\ version[m] \in Nat
    BY <1>1, <1>17, <2>1 DEF Ordered, Types, Incoming
  <2>3. ASSUME NEW v \in Workers, job'[v] # None, job'[v].msg = m
        PROVE  /\ job'[v].kind # "prepare"
               /\ job'[v].kind \in Updates => n <= job'[v].text /\ job'[v].text <= version[m]
    <3>1. CASE v = w
      <4>1. Succeeds(w, k) /\ k # None /\ k.msg = m /\ job'[v] = k
        BY <1>7, <1>8, <2>3, <3>1
      <4>2. k.kind # "prepare"
        BY <1>17, <4>1 DEF Succeeds, Updates
      <4>3. k.kind \in Updates => k.text = n \/ k.text = version[m]
        BY <4>1 DEF Succeeds, Updates
      <4> QED BY <1>1, <2>2, <4>1, <4>2, <4>3
    <3>2. CASE v # w
      <4>1. job'[v] = job[v]
        BY <1>8, <3>2
      <4>2. job[v].kind \notin Updates
        BY <1>1, <1>17, <2>3, <3>2, <4>1, OneJobOfAMessage DEF Updates
      <4>3. job[v].kind # "prepare"
        BY <2>1, <2>2, <2>3, <4>1 DEF Ordered
      <4> QED BY <4>1, <4>2, <4>3
    <3> QED BY <3>1, <3>2
  <2>4. wanted[m] <= version[m] + 1
    BY <2>1 DEF Ordered
  <2>5. Ordered(m)'
    BY <1>6, <1>15, <2>1, <2>2, <2>3, <2>4 DEF Ordered, Updates
  <2> QED BY <1>11, <1>12, <1>13, <2>5 DEF OrderInv
<1> QED BY <1>2, <1>14, <1>16, <1>17

LEMMA OrderStep == ASSUME MemoryInv, OrderInv, [Next]_vars PROVE OrderInv'
<1>1. CASE UNCHANGED vars
  BY <1>1 DEF vars, tableVars, chatVars, OrderInv, Ordered, IsRowOf
<1>2. CASE Next
  <2>1. ASSUME NEW w \in Workers, Step(w) PROVE OrderInv'
    BY <2>1, QuietStepsOrder, WriteTopicOrder, WriteProfileOrder, WriteMessageOrder, RemoveOrder
       DEF Step, MemoryInv
  <2>2. ASSUME NEW m \in Incoming, Edit(m) \/ StartPrepare(m) \/ StartUpdate(m) PROVE OrderInv'
    BY <2>2, EditOrder, StartPrepareOrder, StartUpdateOrder DEF MemoryInv
  <2> QED BY <1>2, <2>1, <2>2, OtherStartsOrder DEF Next, MemoryInv
<1> QED BY <1>1, <1>2

(* A rowid that is given out again never finds the vector of the message   *)
(* that had it, and no vector is ahead of its message's text: deletion and *)
(* trimming take the vectors along, and a message's texts are written in   *)
(* the order of its edits.                                                 *)
THEOREM VectorsFollowMessages == Spec => []VectorOfItsMessage
<1>1. Init => OrderInv
  <2> SUFFICES ASSUME Init PROVE OrderInv
    OBVIOUS
  <2>1. \A m \in Incoming : Ordered(m)
    BY DEF Init, InitTable, Ordered, IsRowOf, Incoming
  <2> QED BY <2>1 DEF Init, InitTable, OrderInv
<1>2. MemoryInv /\ OrderInv /\ [Next]_vars => OrderInv'
  BY OrderStep
<1>3. MemoryInv /\ OrderInv => VectorOfItsMessage
  BY DEF MemoryInv, TableInv, VectorHasRow, OrderInv, VectorOfItsMessage
<1> QED BY <1>1, <1>2, <1>3, MemoryAlways, PTL DEF Spec

----------------------------------------------------------------------------
(* What the trimming of a chat keeps. *)

LEMMA LaterSecond ==
  ASSUME NEW a \in Nat, NEW b \in Nat, ~TextBefore(a, b)
  PROVE  a \div 10 >= b \div 10
BY DEF TextBefore

LEMMA TrimmingKeepsLatest ==
  ASSUME MemoryInv, NEW w \in Workers, WriteMessage(w),
         NEW m \in Messages, Stored(m), ~Stored(m)',
         NEW k \in Messages, Stored(k)', ChatOf[k] = ChatOf[m]
  PROVE  Second(k) >= Second(m)
<1> PICK o : o = job[w].msg
  OBVIOUS
<1> PICK text : text = job[w].text
  OBVIOUS
<1> PICK topic : topic = job[w].doc
  OBVIOUS
<1>1. o \in Messages /\ (\E e : UpsertMessage(o, text, topic, e))
  BY Written DEF MemoryInv
<1>2. rows \in [RowIds -> Rows \cup {None}] /\ rows' \in [RowIds -> Rows \cup {None}]
  BY WriteMessageInv DEF MemoryInv, Types
<1>3. PICK i \in RowIds :
      LET put == [rows EXCEPT ![i] = [msg |-> o, text |-> text, topic |-> topic]]
      IN  /\ IsRowOf(i, o) \/ (~Stored(o) /\ IsNewRow(i))
          /\ \E S \in Stale(put, ChatOf[o]) : rows' = Without(put, S)
  BY <1>1 DEF UpsertMessage
<1> DEFINE row == [msg |-> o, text |-> text, topic |-> topic]
           put == [rows EXCEPT ![i] = row]
<1>4. PICK S \in Stale(put, ChatOf[o]) : rows' = Without(put, S)
  BY <1>3
<1>5. /\ put[i] = row /\ row.msg = o /\ \A r \in RowIds \ {i} : put[r] = rows[r]
      /\ DOMAIN put = RowIds
      /\ rows[i] # None => rows[i].msg = o
  BY <1>2, <1>3 DEF IsRowOf, Stored, IsNewRow, RowIds
<1>6. \A r \in RowIds : rows'[r] = IF r \in S THEN None ELSE put[r]
  BY <1>4 DEF Without
<1>7. PICK r \in RowIds : IsRowOf(r, m)
  BY DEF Stored
<1>8. PICK q \in RowIds : rows'[q] # None /\ rows'[q].msg = k
  BY DEF Stored, IsRowOf
<1>9. put[r].msg = m
  BY <1>5, <1>7 DEF IsRowOf
<1>10. r \in S
  <2> SUFFICES ASSUME r \notin S PROVE FALSE
    OBVIOUS
  <2>1. rows'[r] = put[r]
    BY <1>6
  <2>2. rows'[r] # None
    <3>1. CASE r = i
      <4>1. row \in Rows
        BY <1>1, Written DEF Rows, MemoryInv
      <4> QED BY <1>5, <2>1, <3>1, <4>1, Assumed DEF Assumptions, NoRowAssumption
    <3>2. CASE r # i
      BY <1>5, <1>7, <2>1, <3>2 DEF IsRowOf
    <3> QED BY <3>1, <3>2
  <2> QED BY <1>9, <2>1, <2>2 DEF Stored, IsRowOf
<1>11. q \notin S /\ put[q] = rows'[q] /\ put[q] # None /\ put[q].msg = k
  BY <1>6, <1>8
<1>12. S \subseteq InChat(put, ChatOf[o]) /\ ChatOf[m] = ChatOf[o]
  BY <1>9, <1>10 DEF Stale, InChat
<1>13. q \in InChat(put, ChatOf[o]) \ S
  BY <1>5, <1>11, <1>12 DEF InChat
<1>14. ~TextBefore(SentAt[put[q].msg], SentAt[put[r].msg])
  BY <1>10, <1>13 DEF Stale
<1>15. SentAt[k] \in Nat /\ SentAt[m] \in Nat
  BY Assumed DEF Assumptions, TableAssumption
<1> QED BY <1>9, <1>11, <1>14, <1>15, LaterSecond DEF Second

LEMMA RemovingOne ==
  ASSUME MemoryInv, NEW w \in Workers, Remove(w),
         NEW m \in Messages, Stored(m), ~Stored(m)'
  PROVE  Removes(w, m)
<1> PICK j : j = job[w]
  OBVIOUS
<1>1. j # None /\ j.at = "remove" /\ j \in Jobs /\ DeleteMessage(j.msg)
  BY Typed DEF Remove, At, Msg, MemoryInv
<1>2. \A i \in RowIds : rows'[i] = IF IsRowOf(i, j.msg) THEN None ELSE rows[i]
  BY <1>1 DEF DeleteMessage, Without
<1>3. j.msg = m
  BY <1>2 DEF Stored, IsRowOf
<1>4. job'[w] # j
  <2>1. Become(w, None) \/ Goto(w, "patch") \/ Goto(w, "look")
    BY DEF Remove
  <2>2. CASE Become(w, None)
    BY <1>1, <2>2, Becomes DEF MemoryInv
  <2>3. ASSUME NEW l \in {"patch", "look"}, Goto(w, l) PROVE job'[w] # j
    <3> PICK k : k = [j EXCEPT !.at = l]
      OBVIOUS
    <3>1. k.at = l /\ job'[w] = k
      BY <1>1, <2>3, Becomes DEF Goto, Jobs, MemoryInv
    <3> QED BY <1>1, <2>3, <3>1
  <2> QED BY <2>1, <2>2, <2>3
<1> QED BY <1>1, <1>3, <1>4 DEF Removes, At, Msg

(* Of the messages of a chat the last ones stay: what trimming drops was   *)
(* not sent in a later second than anything that is left, and only the     *)
(* deletion of a message takes it out of turn.                             *)
THEOREM LatestAreKept == Spec => KeepsLatest
<1>1. MemoryInv /\ [Next]_vars =>
        [\A m \in Messages :
           (Stored(m) /\ ~Stored(m)' /\ ~\E w \in Workers : Removes(w, m)) =>
             \A k \in Messages :
               (Stored(k)' /\ ChatOf[k] = ChatOf[m]) => Second(k) >= Second(m)]_vars
  <2> SUFFICES ASSUME MemoryInv, Next, NEW m \in Messages, Stored(m), ~Stored(m)',
                      ~\E w \in Workers : Removes(w, m),
                      NEW k \in Messages, Stored(k)', ChatOf[k] = ChatOf[m]
               PROVE  Second(k) >= Second(m)
    OBVIOUS
  <2>1. tableVars' # tableVars
    BY DEF tableVars, Stored, IsRowOf
  <2> QED BY <2>1, TableSteps, TrimmingKeepsLatest, RemovingOne
<1> QED BY <1>1, MemoryAlways, PTL DEF Spec, KeepsLatest
============================================================================
