---------------------------- MODULE MessageTable ----------------------------
(***************************************************************************)
(* The tables messages and vec_messages (storage/store.go).  A message and *)
(* its vector share a rowid and nothing else: the table of vectors knows   *)
(* no foreign key, and SQLite gives the rowid of deleted rows out again.   *)
(* Each operation below is one transaction.                                *)
(*                                                                         *)
(* Of a message's text only its version is kept.  Times are in tenths of a *)
(* second; they are stored as RFC3339Nano texts, which leave trailing      *)
(* zeros out, and compared as texts.                                       *)
(***************************************************************************)
EXTENDS Naturals, FiniteSets

CONSTANTS
  Messages,
  ChatOf,      \* message -> its chat
  SentAt,      \* message -> when it was sent
  Limit,       \* RecentMessagesLimit: messages kept of a chat
  MaxRow,      \* bounds an instance
  MaxTopics,   \* bounds an instance
  None         \* SQL's NULL, a row that is not there

RowIds == 1 .. MaxRow
TopicIds == 1 .. MaxTopics

ASSUME TableAssumption ==
  /\ SentAt \in [Messages -> Nat]
  /\ Limit \in Nat /\ MaxRow \in Nat /\ MaxTopics \in Nat
  /\ None \notin Nat

VARIABLES
  rows,   \* messages: rowid -> row, or None
  vecs    \* vec_messages: rowid -> the text the vector was made of, or None

tableVars == <<rows, vecs>>

Rows == [msg : Messages, text : Nat, topic : TopicIds \cup {None}]
Vectors == [chat : {ChatOf[m] : m \in Messages}, msg : Messages, text : Nat]

ASSUME NoRowAssumption == None \notin Rows /\ None \notin Vectors

InitTable ==
  /\ rows = [i \in RowIds |-> None]
  /\ vecs = [i \in RowIds |-> None]

(* Every SELECT is by chat and id; together they are unique. *)
IsRowOf(i, m) == rows[i] # None /\ rows[i].msg = m
Stored(m) == \E i \in RowIds : IsRowOf(i, m)

(* INTEGER PRIMARY KEY: one more than the greatest rowid in use. *)
IsNewRow(i) ==
  LET used == {j \in RowIds : rows[j] # None}
  IN  i - 1 \in used \cup {0} /\ \A j \in used : j < i

(* "ORDER BY sent_at DESC": '.' comes before 'Z', so within a second the   *)
(* whole second comes last.                                                *)
TextBefore(a, b) ==
  \/ a \div 10 < b \div 10
  \/ a \div 10 = b \div 10 /\ a % 10 # 0 /\ (b % 10 = 0 \/ a < b)

InChat(table, c) == {i \in DOMAIN table : table[i] # None /\ ChatOf[table[i].msg] = c}

(* "LIMIT -1 OFFSET": all but the first rows in that order.  Rows of equal *)
(* times come in any order.                                                *)
NothingStale(table, c) == {{}}
StaleOldestKept(table, c) ==
  {S \in SUBSET InChat(table, c) :
     LET kept == InChat(table, c) \ S
     IN  /\ Cardinality(kept) <= Limit
         /\ S = {} \/ Cardinality(kept) = Limit
         /\ \A s \in S, k \in kept :
              ~TextBefore(SentAt[table[s].msg], SentAt[table[k].msg])}
Stale(table, c) ==
  {S \in SUBSET InChat(table, c) :
     LET kept == InChat(table, c) \ S
     IN  /\ Cardinality(kept) <= Limit
         /\ S = {} \/ Cardinality(kept) = Limit
         /\ \A s \in S, k \in kept :
              ~TextBefore(SentAt[table[k].msg], SentAt[table[s].msg])}

Without(table, S) == [i \in RowIds |-> IF i \in S THEN None ELSE table[i]]
VectorsStay(table, S) == table
WithoutVectors(table, S) == Without(table, S)

(* UpsertMessage: insert or update, replace the vector if there is one to  *)
(* write, and drop what is no longer among the last of the chat.           *)
UpsertMessage(m, text, topic, embedded) ==
  \E i \in RowIds :
    /\ IsRowOf(i, m) \/ (~Stored(m) /\ IsNewRow(i))
    /\ LET put == [rows EXCEPT ![i] = [msg |-> m, text |-> text, topic |-> topic]]
           vec == [chat |-> ChatOf[m], msg |-> m, text |-> text]
       IN  \E S \in Stale(put, ChatOf[m]) :
             /\ rows' = Without(put, S)
             /\ vecs' = WithoutVectors(IF embedded THEN [vecs EXCEPT ![i] = vec] ELSE vecs, S)

DeleteMessage(m) ==
  LET S == {i \in RowIds : IsRowOf(i, m)}
  IN  rows' = Without(rows, S) /\ vecs' = WithoutVectors(vecs, S)

(* TopicIDForMessage and TopicForReply: the topic of a row. *)
TopicOf(m) ==
  IF Stored(m) THEN rows[CHOOSE i \in RowIds : IsRowOf(i, m)].topic ELSE None

(* NearestMessages joins the chat's vectors with the messages by rowid:    *)
(* what it returns names topics.                                           *)
NearestAnywhere(c) == {rows[i] : i \in {j \in RowIds : vecs[j] # None /\ rows[j] # None}}
Nearest(c) ==
  {rows[i] : i \in {j \in RowIds : vecs[j] # None /\ vecs[j].chat = c /\ rows[j] # None}}
=============================================================================
