----------------------------- MODULE ChatMemory -----------------------------
(***************************************************************************)
(* What a chat's prepare and background lanes do to the memory             *)
(* (memory/pipeline.go, topic_manager.go, profile_manager.go), and the     *)
(* event loop with a location (location_resolver.go).  Each of them is a   *)
(* worker with one job at a time; each step of a job is one access to the  *)
(* database with the model's answer it leads to.                           *)
(*                                                                         *)
(* Topics and profiles are documents: a worker reads one, gives it to the  *)
(* model, and writes the whole of it back.  A document is abstracted to    *)
(* the facts that are only ever added to it: of a topic its participants,  *)
(* of a profile the messages it was learned from and whether it has a      *)
(* city.                                                                   *)
(*                                                                         *)
(* What starts a job is what MessageProcessing does with one start per     *)
(* message: prepare attempts, once per text, then the background update;   *)
(* a deletion at any time.  A job may stop at any step, because its        *)
(* context ends or something fails; what it wrote stays.                   *)
(***************************************************************************)
EXTENDS MessageTable

CONSTANTS
  Sender,        \* message -> who wrote it
  ReplyTo,       \* message -> the message it answers, or None
  OwnReply,      \* message -> the bot's message that answers it, or None
  Self,          \* the bot
  Edits,         \* message -> how often it may be edited: bounds an instance
  Deletable,     \* messages that may be deleted: bounds an instance
  Answered,      \* messages whose reply is sent: bounds an instance
  Failing,       \* messages whose jobs may stop early: bounds an instance
  Located,       \* people who send locations
  MaxLocations   \* bounds an instance

Chats == {ChatOf[m] : m \in Messages}
People == {Sender[m] : m \in Messages} \ {Self}
Own == {OwnReply[m] : m \in Messages} \ {None}
Incoming == Messages \ Own

Lanes == Chats \X {"prepare", "background"}
EventLoop == <<None, "events">>
Workers == Lanes \cup {EventLoop}
PrepareOf(c) == <<c, "prepare">>
BackgroundOf(c) == <<c, "background">>

Docs == TopicIds \cup People
Facts == {Sender[m] : m \in Messages} \cup Messages \cup {"city"}

ASSUME MemoryAssumption ==
  /\ ReplyTo \in [Messages -> Messages \cup {None}]
  /\ OwnReply \in [Messages -> Messages \cup {None}]
  /\ Edits \in [Messages -> Nat]
  /\ Located \subseteq People
  /\ MaxLocations \in Nat
  /\ None \notin Messages \cup People \cup Chats
  /\ People \cap TopicIds = {}
  /\ \A m \in Messages : m \in Own <=> Sender[m] = Self
  /\ \A m \in Messages : ReplyTo[m] # None => ChatOf[ReplyTo[m]] = ChatOf[m]
  /\ \A m \in Messages : OwnReply[m] # None => ChatOf[OwnReply[m]] = ChatOf[m]

VARIABLES
  docs,       \* topics and participants: id -> facts, or None
  topicChat,  \* the chat of a topic, once its id is given out
  version,    \* message -> its text: 0, one more for every edit
  phase,      \* what was done of an incoming message
  wanted,     \* the least text a next prepare attempt is for
  removed,    \* messages whose deletion has begun
  located,    \* locations so far
  job         \* worker -> its job, or None

memVars == <<docs, topicChat>>
chatVars == <<version, phase, wanted, removed, located>>
vars == <<tableVars, memVars, chatVars, job>>

(* doc: the document in hand, copy: as it was read, since: who wrote it    *)
(* after that (it plays no part in what is done), emb: the message has an  *)
(* embedding already.                                                      *)
Job(kind, at, m, text) ==
  [kind |-> kind, at |-> at, msg |-> m, text |-> text, doc |-> None, copy |-> {},
   since |-> {}, emb |-> FALSE]

(* A job goes on with another document, or none. *)
Carry(j, l, d, copy, e) ==
  [kind |-> j.kind, at |-> l, msg |-> j.msg, text |-> j.text, doc |-> d, copy |-> copy,
   since |-> {}, emb |-> e]

Init ==
  /\ InitTable
  /\ docs = [d \in Docs |-> None]
  /\ topicChat = [t \in TopicIds |-> None]
  /\ version = [m \in Messages |-> 0]
  /\ phase = [m \in Incoming |-> "new"]
  /\ wanted = [m \in Incoming |-> 0]
  /\ removed = {}
  /\ located = 0
  /\ job = [w \in Workers |-> None]

At(w, l) == job[w] # None /\ job[w].at = l
Msg(w) == job[w].msg
Become(w, j) == job' = [job EXCEPT ![w] = j]
Goto(w, l) == Become(w, [job[w] EXCEPT !.at = l])

----------------------------------------------------------------------------
(* The chats: edits reach the event loop, which a location keeps busy. *)

Edit(m) ==
  /\ job[EventLoop] = None
  /\ version[m] < Edits[m]
  /\ version' = [version EXCEPT ![m] = @ + 1]
  /\ UNCHANGED <<tableVars, memVars, phase, wanted, removed, located, job>>

StartPrepare(m) ==
  /\ phase[m] \in {"new", "prepared"}
  /\ job[PrepareOf(ChatOf[m])] = None
  /\ \E text \in wanted[m] .. version[m] :
       /\ Become(PrepareOf(ChatOf[m]), Job("prepare", "assign", m, text))
       /\ wanted' = [wanted EXCEPT ![m] = text + 1]
  /\ phase' = [phase EXCEPT ![m] = "preparing"]
  /\ UNCHANGED <<tableVars, memVars, version, removed, located>>

StartUpdate(m) ==
  /\ phase[m] = "prepared" /\ m \in Answered
  /\ job[BackgroundOf(ChatOf[m])] = None
  /\ Become(BackgroundOf(ChatOf[m]), Job("update", "find", m, version[m]))
  /\ phase' = [phase EXCEPT ![m] = "updated"]
  /\ UNCHANGED <<tableVars, memVars, version, wanted, removed, located>>

StartDelete(m) ==
  /\ m \in Deletable \ removed
  /\ job[BackgroundOf(ChatOf[m])] = None
  /\ Become(BackgroundOf(ChatOf[m]), Job("delete", "find", m, 0))
  /\ removed' = removed \cup {m}
  /\ UNCHANGED <<tableVars, memVars, version, phase, wanted, located>>

(* handleLocationUpdated: the model finds the city before the profile is   *)
(* read; with no answer nothing else happens.                              *)
StartLocation(p) ==
  /\ job[EventLoop] = None
  /\ located < MaxLocations
  /\ located' = located + 1
  /\ Become(EventLoop, Carry(Job("location", "look", None, 0), "look", p, {}, FALSE))
  /\ UNCHANGED <<tableVars, memVars, version, phase, wanted, removed>>

----------------------------------------------------------------------------
(* Documents. *)

FactsOf(d) == IF docs[d] = None THEN {} ELSE docs[d]

(* GetTopic, GetProfile: the worker has a copy. *)
Copied(w, d, l, e) == Carry(job[w], l, d, FactsOf(d), e)
Holds(w, d) == job[w] # None /\ job[w].at \in {"topic", "profile"} /\ job[w].doc = d

(* UpsertTopic, UpsertProfile: the copy, and what was added to it.  Then   *)
(* the worker goes on with the job next.                                   *)
WhatIsAdded(w, new) == new
CopyAnd(w, new) == job[w].copy \cup new
Write(w, new, next) ==
  LET d == job[w].doc
  IN  /\ docs' = [docs EXCEPT ![d] = CopyAnd(w, new)]
      /\ job' = [v \in Workers |->
                   IF v = w THEN next
                   ELSE IF Holds(v, d) THEN [job[v] EXCEPT !.since = @ \cup {w}]
                   ELSE job[v]]

(* The job without the document. *)
Through(w, l) == Carry(job[w], l, None, {}, FALSE)

(* What follows an update that is through: once more if the text changed   *)
(* (finishMessageMemoryLocked), and then the bot's own message.            *)
AfterUpdate(m, text) ==
  IF version[m] # text THEN Job("update", "find", m, version[m])
  ELSE IF OwnReply[m] # None THEN Job("own", "assign", OwnReply[m], 0)
  ELSE None

----------------------------------------------------------------------------
(* AssignTopic *)

(* TopicForReply: the topic of the message that is answered. *)
AnsweredTopic(w) == IF ReplyTo[Msg(w)] = None THEN None ELSE TopicOf(ReplyTo[Msg(w)])

AssignByReply(w) ==
  /\ At(w, "assign")
  /\ AnsweredTopic(w) # None
  /\ Become(w, Copied(w, AnsweredTopic(w), "topic", FALSE))
  /\ UNCHANGED <<tableVars, memVars, chatVars>>

(* The topics the model is shown: those of the nearest messages, and the   *)
(* nearest of the chat's own.  It names one of them, which is read by its  *)
(* id alone (topics are never deleted, so the step may be one) ...         *)
Shown(c) ==
  {t \in TopicIds : docs[t] # None /\ (topicChat[t] = c \/ \E r \in Nearest(c) : r.topic = t)}

AssignByModel(w) ==
  /\ At(w, "assign")
  /\ AnsweredTopic(w) = None
  /\ \E t \in Shown(ChatOf[Msg(w)]) :
       Become(w, Copied(w, t, "topic", TRUE))
  /\ UNCHANGED <<tableVars, memVars, chatVars>>

(* ... or none, or it fails: a new id, which no other topic has.           *)
NewTopic(w) ==
  /\ At(w, "assign")
  /\ AnsweredTopic(w) = None
  /\ \E t \in TopicIds :
       /\ \A u \in TopicIds : topicChat[u] = None <=> u >= t
       /\ topicChat' = [topicChat EXCEPT ![t] = ChatOf[Msg(w)]]
       /\ Become(w, Copied(w, t, "topic", TRUE))
  /\ UNCHANGED <<tableVars, docs, chatVars>>

(* The embedder gives nothing: no topic. *)
AssignNone(w) ==
  /\ At(w, "assign")
  /\ AnsweredTopic(w) = None
  /\ Goto(w, "message")
  /\ UNCHANGED <<tableVars, memVars, chatVars>>

(* applyTopicUpdate, applyTopicDecision, createTopic, fallbackTopic: the   *)
(* sender is among the participants.  An edit or a deletion goes on with   *)
(* the profile, unless the message is the bot's own.                       *)
WriteTopic(w) ==
  /\ At(w, "topic")
  /\ LET j == job[w]
     IN  Write(w, {Sender[j.msg]},
               IF j.kind = "delete" /\ Sender[j.msg] = Self THEN None
               ELSE IF j.kind \in {"edit", "delete"} THEN Through(w, "look")
               ELSE Carry(j, "message", j.doc, {}, j.emb))
  /\ UNCHANGED <<tableVars, topicChat, chatVars>>

----------------------------------------------------------------------------
(* Messages. *)

(* updateExistingTopic embeds the message after its topic is written; the  *)
(* first write of ProcessMessageUpdate has no embedding.                   *)
Embedding(j) ==
  IF j.emb THEN {TRUE}
  ELSE IF j.kind \in {"edit", "same"} \/ j.doc = None THEN {FALSE}
  ELSE BOOLEAN

(* The end of PrepareForReply and of ProcessNewMessage. *)
WriteMessage(w) ==
  /\ At(w, "message")
  /\ LET j == job[w]
     IN  /\ \E e \in Embedding(j) : UpsertMessage(j.msg, j.text, j.doc, e)
         /\ CASE j.kind = "prepare" -> Become(w, None)
              [] j.kind = "own" -> Become(w, None)
              [] j.kind = "new" -> Become(w, AfterUpdate(j.msg, j.text))
              [] j.kind = "edit" -> Goto(w, "patch")
              [] j.kind = "same" -> Become(w, Through(w, "look"))
         /\ phase' = IF j.kind = "prepare" THEN [phase EXCEPT ![j.msg] = "prepared"] ELSE phase
  /\ UNCHANGED <<memVars, version, wanted, removed, located>>

(* GetMessage and TopicIDForMessage. *)
FindForUpdate(w) ==
  /\ At(w, "find") /\ job[w].kind = "update"
  /\ LET j == job[w]
         t == TopicOf(j.msg)
         same == \E i \in RowIds : IsRowOf(i, j.msg) /\ rows[i].text = j.text
     IN  IF t = None
         THEN Become(w, Job("new", "look", j.msg, j.text))
         ELSE Become(w, Carry(Job(IF same THEN "same" ELSE "edit", "find", j.msg, j.text),
                              "message", t, {}, FALSE))
  /\ UNCHANGED <<tableVars, memVars, chatVars>>

FindForDelete(w) ==
  /\ At(w, "find") /\ job[w].kind = "delete"
  /\ IF Stored(Msg(w))
     THEN Become(w, [job[w] EXCEPT !.doc = TopicOf(Msg(w)), !.at = "remove"])
     ELSE Become(w, None)
  /\ UNCHANGED <<tableVars, memVars, chatVars>>

Remove(w) ==
  /\ At(w, "remove")
  /\ DeleteMessage(Msg(w))
  /\ IF job[w].doc # None THEN Goto(w, "patch")
     ELSE IF Sender[Msg(w)] = Self THEN Become(w, None)
     ELSE Goto(w, "look")
  /\ UNCHANGED <<memVars, chatVars>>

(* PatchFromMessageEdit and PatchFromMessageDelete read the topic. *)
Patch(w) ==
  /\ At(w, "patch")
  /\ Become(w, Copied(w, job[w].doc, "topic", FALSE))
  /\ UNCHANGED <<tableVars, memVars, chatVars>>

----------------------------------------------------------------------------
(* Profiles. *)

Person(w) == IF w = EventLoop THEN job[w].doc ELSE Sender[Msg(w)]

ReadProfile(w) ==
  /\ At(w, "look")
  /\ Become(w, Copied(w, Person(w), "profile", FALSE))
  /\ UNCHANGED <<tableVars, memVars, chatVars>>

(* The model adds what the message tells, or fails and adds nothing.  The  *)
(* event loop sets the city, and writes nothing when it is there already.  *)
Learned(w) ==
  IF w = EventLoop THEN {{"city"}} ELSE {{}, {Msg(w)}}

AfterProfile(w) ==
  LET j == job[w]
  IN  CASE j.kind = "new" -> Through(w, "assign")
        [] j.kind \in {"edit", "same"} -> AfterUpdate(j.msg, j.text)
        [] j.kind \in {"delete", "location"} -> None

WriteProfile(w) ==
  /\ At(w, "profile")
  /\ \/ \E new \in Learned(w) : Write(w, new, AfterProfile(w))
     \/ w = EventLoop /\ "city" \in job[w].copy /\ Become(w, None) /\ UNCHANGED docs
  /\ UNCHANGED <<tableVars, topicChat, chatVars>>

(* A job ends early.  An update whose text changed meanwhile is repeated.  *)
Stop(w) ==
  /\ job[w] # None
  /\ Msg(w) \in Failing
  /\ \/ Become(w, None)
     \/ /\ job[w].kind \in {"update", "new", "edit", "same"}
        /\ job[w].text # version[Msg(w)]
        /\ Become(w, Job("update", "find", Msg(w), version[Msg(w)]))
  /\ UNCHANGED <<tableVars, memVars, chatVars>>

Step(w) ==
  \/ AssignByReply(w) \/ AssignByModel(w) \/ NewTopic(w) \/ AssignNone(w)
  \/ WriteTopic(w) \/ WriteMessage(w)
  \/ FindForUpdate(w) \/ FindForDelete(w) \/ Remove(w) \/ Patch(w)
  \/ ReadProfile(w) \/ WriteProfile(w) \/ Stop(w)

Next ==
  \/ \E m \in Incoming : Edit(m) \/ StartPrepare(m) \/ StartUpdate(m)
  \/ \E m \in Messages : StartDelete(m)
  \/ \E p \in Located : StartLocation(p)
  \/ \E w \in Workers : Step(w)

Spec == Init /\ [][Next]_vars

----------------------------------------------------------------------------
(* Properties. *)

Kinds == {"prepare", "update", "new", "edit", "same", "delete", "own", "location"}
Labels == {"assign", "topic", "message", "find", "remove", "patch", "look", "profile"}
Jobs ==
  [kind : Kinds, at : Labels, msg : Messages \cup {None}, text : Nat,
   doc : Docs \cup {None}, copy : SUBSET Facts,
   since : SUBSET Workers, emb : BOOLEAN]

ASSUME NoneAssumption == None \notin Docs \cup Jobs /\ \A S \in SUBSET Facts : S # None

(* Every variable holds a value of its type, and a chat never has more     *)
(* messages than the limit.                                                *)
TypeOK ==
  /\ rows \in [RowIds -> Rows \cup {None}]
  /\ vecs \in [RowIds -> Vectors \cup {None}]
  /\ docs \in [Docs -> (SUBSET Facts) \cup {None}]
  /\ topicChat \in [TopicIds -> Chats \cup {None}]
  /\ version \in [Messages -> Nat]
  /\ phase \in [Incoming -> {"new", "preparing", "prepared", "updated"}]
  /\ wanted \in [Incoming -> Nat]
  /\ removed \subseteq Messages
  /\ located \in 0 .. MaxLocations
  /\ job \in [Workers -> Jobs \cup {None}]
  /\ \A c \in Chats : Cardinality(InChat(rows, c)) <= Limit

(* A vector is one of the message that has its rowid now, of a text the    *)
(* message has or had: rowids are given out again, and a vector that a     *)
(* deletion or the trimming of the chat left behind would find a message   *)
(* of another time or another chat (UpsertMessage, DeleteMessage).         *)
VectorOfItsMessage ==
  \A i \in RowIds :
    vecs[i] # None =>
      /\ rows[i] # None
      /\ vecs[i].msg = rows[i].msg
      /\ vecs[i].text <= rows[i].text

(* A message's topic is there, and is a topic of its chat: the model is    *)
(* shown no topic of another chat (NearestMessages, TopicForReply,         *)
(* GetTopic by the id alone).                                              *)
TopicOfItsChat ==
  \A i \in RowIds :
    (rows[i] # None /\ rows[i].topic # None) =>
      /\ docs[rows[i].topic] # None
      /\ topicChat[rows[i].topic] = ChatOf[rows[i].msg]

(* Who may write a document while another has a copy of it: a topic is     *)
(* written by the lanes of its chat, a profile by the background lanes of  *)
(* the chats its person writes in, and by the event loop.                  *)
WritersOf(d) ==
  IF d \in TopicIds
  THEN {w \in Lanes : w[1] = topicChat[d]}
  ELSE {BackgroundOf(ChatOf[m]) : m \in {x \in Messages : Sender[x] = d}} \cup {EventLoop}

(* A document loses a fact only in a write that overtakes another of its   *)
(* writers: no lane loses what it learned itself, no prepare attempt costs *)
(* a profile anything, and no chat costs another one's topic anything      *)
(* (topic_manager.go:146, profile_manager.go:34).                          *)
LostOnlyToARace ==
  [][\A d \in Docs :
       FactsOf(d) \subseteq FactsOf(d)' \/
       \E w \in WritersOf(d) :
         Holds(w, d) /\ job[w].since # {} /\ job[w].since \subseteq WritersOf(d) \ {w}]_vars

(* The trimming of a chat drops no message of a later second than one it   *)
(* keeps (UpsertMessage, store.go:386); a deletion drops what it is for.   *)
Removes(w, m) == At(w, "remove") /\ Msg(w) = m /\ job'[w] # job[w]
Second(m) == SentAt[m] \div 10
KeepsLatest ==
  [][\A m \in Messages :
       (Stored(m) /\ ~Stored(m)' /\ ~\E w \in Workers : Removes(w, m)) =>
         \A k \in Messages : (Stored(k)' /\ ChatOf[k] = ChatOf[m]) => Second(k) >= Second(m)]_vars
=============================================================================
