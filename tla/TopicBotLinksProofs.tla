------------------------ MODULE TopicBotLinksProofs -------------------------
(* That links and rows go together while no statement of the database      *)
(* fails and nobody kills the process between two of them: LinksInv of     *)
(* TopicBotInv is inductive, on top of IInv.                               *)
EXTENDS TopicBotProofs

NoneFails == Faults \subseteq {"api"}

\* The handlers' part of LinksInv.
ThreadsSaved == \A g \in Goroutines : pc[g] # "idle" => ThreadSaved(pc[g], row[g])

-----------------------------------------------------------------------------
(* The tables                                                              *)

\* A save takes no links away from a row, unless there are none.
LEMMA SavedLinked ==
  ASSUME Linked, NEW t, topics' = Saved(topics, t), messages' \subseteq messages,
         t.thread # 0 \/ \A m \in messages' : m.topic # t.id
  PROVE  Linked'
BY DEF Linked, Saved

\* Nor does a row that is deleted with its links, or that had none.
LEMMA DeletedLinked ==
  ASSUME Linked, NEW t, topics' = Deleted(topics, t), messages' \subseteq messages,
         \A m \in messages' : m.topic # t.id
  PROVE  Linked'
BY DEF Linked, Deleted

\* saveTopic, with an id or without.
LEMMA StoredLinked ==
  ASSUME IInv, Linked, NEW t \in Topic, SaveTopic(t), messages' \subseteq messages,
         t.thread # 0 \/ \A m \in messages' : m.topic # t.id
  PROVE  Linked'
<1>1. CASE t.id # 0
  <2>1. topics' = Saved(topics, t)
    BY <1>1 DEF SaveTopic, Stored
  <2> QED BY <2>1, SavedLinked
<1>2. CASE t.id = 0
  <2> DEFINE n == [t EXCEPT !.id = nextId]
  <2>1. topics' = Saved(topics, n) /\ n.id = nextId
    BY <1>2 DEF SaveTopic, Stored, Topic
  <2> HIDE DEF n
  <2>2. \A m \in messages : m.topic < nextId /\ m.topic \in Nat /\ nextId \in Nat
    BY DEF IInv, Tables, TablesTyped, Links, Msg
  <2>3. \A m \in messages' : m.topic # n.id
    BY <2>1, <2>2
  <2> QED BY <2>1, <2>3, SavedLinked
<1> QED BY <1>1, <1>2

-----------------------------------------------------------------------------
(* The handler in the critical section                                     *)

LEMMA HandSaved ==
  ASSUME LinksInv, NEW g \in Goroutines, pc[g] # "idle"
  PROVE  /\ ThreadSaved(pc[g], row[g]) /\ Linked /\ IInv
         /\ row[g] \in Topic /\ row[g].id \in Nat /\ row[g].thread \in Nat
         /\ row[g].id # 0 => \E r \in topics : r.id = row[g].id
         /\ row[g].id = 0 => pc[g] \in MayCreate
<1>1. /\ row[g] \in Topic /\ Coherent(pc[g], upd[g], row[g])
  BY InHand DEF LinksInv
<1>2. /\ row[g].id # 0 => \E r \in topics : r.id = row[g].id
      /\ row[g].id = 0 => pc[g] \in MayCreate
  BY <1>1 DEF Coherent, RowInHand, Copied
<1> QED BY <1>1, <1>2 DEF LinksInv, Topic

\* A row in hand that has no thread has no links.
LEMMA Threadless ==
  ASSUME LinksInv, NEW g \in Goroutines, pc[g] \notin {"idle", "create", "saveThread"},
         row[g].thread = 0
  PROVE  \A m \in messages : m.topic # row[g].id
BY HandSaved DEF ThreadSaved, Linked

LEMMA AllIdle ==
  ASSUME LinksInv, NEW g \in Goroutines, pc[g] # "idle", Return(g)
  PROVE  \A h \in Goroutines : pc'[h] = "idle"
BY DEF LinksInv, IInv, Handlers, HandlersTyped, Locking, Return

LEMMA OnlyThisOne ==
  ASSUME LinksInv, NEW g \in Goroutines, pc[g] # "idle", NEW l, NEW t, Goto(g, l, t)
  PROVE  /\ pc'[g] = l /\ row'[g] = t
         /\ \A h \in Goroutines \ {g} : pc'[h] = "idle"
BY DEF LinksInv, IInv, Handlers, HandlersTyped, Locking, Goto

\* Return leaves it to the tables, Goto to the handler.
LEMMA ReturnSaves ==
  ASSUME LinksInv, NEW g \in Goroutines, pc[g] # "idle", Return(g)
  PROVE  ThreadsSaved'
BY AllIdle DEF ThreadsSaved

LEMMA GotoSaves ==
  ASSUME LinksInv, NEW g \in Goroutines, pc[g] # "idle",
         NEW l, NEW t, Goto(g, l, t), ThreadSaved(pc[g], row[g])'
  PROVE  ThreadsSaved'
BY OnlyThisOne DEF ThreadsSaved

\* Moving on with the row as it is.
LEMMA Passing ==
  ASSUME LinksInv, NEW g \in Goroutines, pc[g] \notin {"idle", "create", "saveThread"},
         NEW l, Goto(g, l, row[g]), UNCHANGED <<topics, messages>>,
         l \in {"relay", "record"} => row[g].id # 0
  PROVE  Linked' /\ ThreadsSaved'
<1>1. ThreadSaved(pc[g], row[g])'
  BY HandSaved, OnlyThisOne DEF ThreadSaved
<1> QED BY <1>1, GotoSaves DEF LinksInv, Linked

LEMMA Leaving ==
  ASSUME LinksInv, NEW g \in Goroutines, pc[g] # "idle", Return(g),
         UNCHANGED topics, messages' \subseteq messages
  PROVE  Linked' /\ ThreadsSaved'
BY ReturnSaves DEF LinksInv, Linked

\* A handler that saves its row, its thread as it is, and returns.
LEMMA SavesAndLeaves ==
  ASSUME LinksInv, NEW g \in Goroutines, pc[g] \notin {"idle", "create", "saveThread"},
         Return(g), NEW t \in Topic, t.id = row[g].id, t.thread = row[g].thread,
         SaveTopic(t) \/ topics' = Saved(topics, t), UNCHANGED messages
  PROVE  Linked' /\ ThreadsSaved'
<1>1. t.thread # 0 \/ \A m \in messages' : m.topic # t.id
  BY Threadless
<1>2. Linked'
  BY <1>1, StoredLinked, SavedLinked DEF LinksInv
<1> QED BY <1>2, ReturnSaves

-----------------------------------------------------------------------------
(* The calls of a handler                                                  *)

LEMMA NoFault ==
  ASSUME NoneFails
  PROVE  /\ \A new, old : Try(new, old) = {new}
         /\ ~SaveFails
         /\ \A t : TrySave(t) => SaveTopic(t)
<1>1. "db" \notin Faults
  BY DEF NoneFails
<1>2. \A new, old : Try(new, old) = {new}
  BY <1>1, Zenon DEF Try
<1>3. ~SaveFails
  BY <1>1 DEF SaveFails
<1>4. \A t : TrySave(t) => SaveTopic(t)
  BY <1>3, Zenon DEF TrySave
<1> QED BY <1>2, <1>3, <1>4

LEMMA SaveCaptchaLinks ==
  ASSUME LinksInv, NoneFails, NEW g \in Goroutines, SaveCaptcha(g)
  PROVE  Linked' /\ ThreadsSaved'
<1> DEFINE t == [row[g] EXCEPT !.sent = now, !.verification = "NotCompleted"]
<1>1. pc[g] = "saveCaptcha" /\ SaveTopic(t) /\ Return(g) /\ UNCHANGED messages
  BY NoFault DEF SaveCaptcha
<1>2. t \in Topic /\ t.id = row[g].id /\ t.thread = row[g].thread
  BY <1>1, HandSaved DEF Topic, Verification, IInv, Tables, TablesTyped
<1> QED BY <1>1, <1>2, SavesAndLeaves

LEMMA CreateThreadLinks ==
  ASSUME LinksInv, NEW g \in Goroutines, CreateThread(g)
  PROVE  Linked' /\ ThreadsSaved'
<1>1. pc[g] = "create" /\ UNCHANGED <<topics, messages>>
  BY DEF CreateThread, db
<1>2. CASE Return(g)
  BY <1>1, <1>2, Leaving
<1>3. CASE Goto(g, "saveThread", [row[g] EXCEPT !.thread = Len(threads) + 1])
  <2>1. ThreadSaved(pc[g], row[g])'
    BY <1>1, <1>3, OnlyThisOne DEF ThreadSaved
  <2> QED BY <1>1, <1>3, <2>1, GotoSaves DEF LinksInv, Linked
<1> QED BY <1>2, <1>3 DEF CreateThread

LEMMA SaveThreadLinks ==
  ASSUME LinksInv, NoneFails, NEW g \in Goroutines, SaveThread(g)
  PROVE  Linked' /\ ThreadsSaved'
<1> DEFINE t == Stored(row[g])
<1>1. /\ pc[g] = "saveThread" /\ SaveTopic(row[g]) /\ UNCHANGED messages
      /\ Introduced(g, t)
  BY NoFault DEF SaveThread
<1>2. row[g] \in Topic /\ row[g].thread # 0
  BY <1>1, InHand DEF LinksInv, Coherent, ThreadInHand, UpdateInHand, Relaying
<1>3. Linked'
  BY <1>1, <1>2, StoredLinked DEF LinksInv
<1>4. topics' = Saved(topics, t) /\ t.id # 0
  BY <1>1, <1>2 DEF SaveTopic, Stored, Topic, LinksInv, IInv, Tables, TablesTyped
<1> HIDE DEF t
<1>5. CASE Return(g)
  BY <1>1, <1>3, <1>5, ReturnSaves
<1>6. CASE Goto(g, "relay", t)
  <2>1. \A r \in topics' : r.id = t.id => r.thread = t.thread
    BY <1>4 DEF Saved
  <2>2. ThreadSaved(pc[g], row[g])'
    BY <1>1, <1>4, <1>6, <2>1, OnlyThisOne DEF ThreadSaved
  <2> QED BY <1>1, <1>3, <1>6, <2>2, GotoSaves
<1> QED BY <1>1, <1>5, <1>6 DEF Introduced

LEMMA RelayLinks ==
  ASSUME LinksInv, NEW g \in Goroutines, Relay(g)
  PROVE  Linked' /\ ThreadsSaved'
<1>1. pc[g] = "relay" /\ UNCHANGED <<topics, messages>> /\ row[g].id # 0
  BY HandSaved DEF Relay, db, ThreadSaved
<1>2. CASE Return(g)
  BY <1>1, <1>2, Leaving
<1>3. CASE Goto(g, "record", row[g])
  BY <1>1, <1>3, Passing
<1>4. CASE Goto(g, "create", [row[g] EXCEPT !.thread = 0])
  <2>1. ThreadSaved(pc[g], row[g])'
    BY <1>1, <1>4, OnlyThisOne DEF ThreadSaved
  <2> QED BY <1>1, <1>4, <2>1, GotoSaves DEF LinksInv, Linked
<1> QED BY <1>2, <1>3, <1>4 DEF Relay

\* The row a link names is there, with the thread the copy went to.
LEMMA RecordLinks ==
  ASSUME LinksInv, NEW g \in Goroutines, Record(g)
  PROVE  Linked' /\ ThreadsSaved'
<1>1. /\ pc[g] = "record" /\ Return(g) /\ UNCHANGED topics
      /\ messages' \subseteq messages \cup {Link(upd[g], row[g])}
  BY DEF Record, Try
<1>2. Link(upd[g], row[g]).topic = row[g].id
  BY DEF Link
<1>3. \E r \in topics : r.id = row[g].id /\ r.thread # 0
  <2>1. row[g].id # 0 /\ row[g].thread # 0
    BY <1>1, InHand, HandSaved DEF LinksInv, Coherent, ThreadInHand, UpdateInHand,
                                   Relaying, ThreadSaved
  <2> QED BY <1>1, <2>1, HandSaved DEF ThreadSaved
<1>4. Linked'
  BY <1>1, <1>2, <1>3 DEF LinksInv, Linked
<1> QED BY <1>1, <1>4, ReturnSaves

LEMMA ConsumeChallengeLinks ==
  ASSUME LinksInv, NEW g \in Goroutines, ConsumeChallenge(g)
  PROVE  Linked' /\ ThreadsSaved'
<1> DEFINE t == Spent(row[g])
<1>1. pc[g] = "consume" /\ UNCHANGED messages
  BY DEF ConsumeChallenge
<1>2. t.id = row[g].id /\ t.thread = row[g].thread
  BY <1>1, HandSaved DEF Spent, Topic
<1> HIDE DEF t
<1>3. CASE topics' = Saved(topics, t) /\ Goto(g, "check", row[g])
  <2>1. Linked'
    BY <1>1, <1>2, <1>3, Threadless, SavedLinked DEF LinksInv
  <2>2. \A r \in topics' : r.id = row[g].id => r.thread = row[g].thread
    BY <1>2, <1>3 DEF Saved
  <2>3. ThreadSaved(pc[g], row[g])'
    BY <1>1, <1>3, <2>2, OnlyThisOne DEF ThreadSaved
  <2> QED BY <1>1, <1>3, <2>1, <2>3, GotoSaves
<1>4. CASE Return(g) /\ UNCHANGED topics
  BY <1>1, <1>4, Leaving
<1> QED BY <1>3, <1>4 DEF ConsumeChallenge, t

LEMMA CheckAnswerLinks ==
  ASSUME LinksInv, NoneFails, NEW g \in Goroutines, CheckAnswer(g)
  PROVE  Linked' /\ ThreadsSaved'
<1> DEFINE t == [Spent(row[g]) EXCEPT !.verification = "Completed"]
<1>1. pc[g] = "check" /\ Return(g) /\ UNCHANGED messages
  BY DEF CheckAnswer
<1>2. t \in Topic /\ t.id = row[g].id /\ t.thread = row[g].thread
  BY <1>1, HandSaved DEF Spent, Topic, Verification
<1>3. topics' = Saved(topics, t) \/ UNCHANGED topics
  BY NoFault DEF CheckAnswer
<1> HIDE DEF t
<1> QED BY <1>1, <1>2, <1>3, SavesAndLeaves, Leaving

LEMMA DeleteThreadLinks ==
  ASSUME LinksInv, NEW g \in Goroutines, DeleteThread(g)
  PROVE  Linked' /\ ThreadsSaved'
<1>1. /\ pc[g] = "delete" /\ UNCHANGED <<topics, messages>>
      /\ \E l \in {"ban", "terminate"} : Goto(g, l, row[g])
  BY DEF DeleteThread, db
<1> QED BY <1>1, Passing

\* terminateTopic takes the links of the row along, whatever it does to it.
LEMMA TerminateTopicLinks ==
  ASSUME LinksInv, NoneFails, NEW g \in Goroutines, TerminateTopic(g)
  PROVE  Linked' /\ ThreadsSaved'
<1>1. /\ pc[g] = "terminate" /\ Return(g) /\ messages' = Purged(messages, row[g].id)
      /\ topics' = AfterTerminate(topics, row[g])
  BY NoFault DEF TerminateTopic
<1> DEFINE t == [row[g] EXCEPT !.thread = 0]
<1>2. t.id = row[g].id
  BY <1>1, HandSaved DEF Topic
<1>3. topics' \in {Saved(topics, t), Deleted(topics, row[g])}
  BY <1>1 DEF AfterTerminate
<1> HIDE DEF t
<1>4. messages' \subseteq messages /\ \A m \in messages' : m.topic # row[g].id
  BY <1>1 DEF Purged
<1>5. Linked'
  BY <1>2, <1>3, <1>4, SavedLinked, DeletedLinked DEF LinksInv
<1> QED BY <1>1, <1>5, ReturnSaves

\* A ban purges; without a thread there is nothing to purge.
LEMMA BanLinks ==
  ASSUME LinksInv, NoneFails, NEW g \in Goroutines, BanUser(g) \/ BanTopic(g)
  PROVE  Linked' /\ ThreadsSaved'
<1> DEFINE t == Banned([row[g] EXCEPT !.thread = 0])
<1>1. pc[g] = "ban" /\ Return(g)
  BY DEF BanUser, BanTopic
<1>2. t \in Topic /\ t.id = row[g].id
  BY <1>1, HandSaved DEF Banned, Topic, Verification
<1>3. \/ UNCHANGED <<topics, messages>>
      \/ SaveTopic(t) /\ messages' = Purged(messages, row[g].id)
      \/ SaveTopic(t) /\ messages' = messages /\ row[g].thread = 0
  BY NoFault DEF BanUser, BanTopic, db
<1> HIDE DEF t
<1>4. CASE UNCHANGED <<topics, messages>>
  BY <1>1, <1>4, Leaving
<1>5. CASE /\ SaveTopic(t) /\ messages' \subseteq messages
           /\ \A m \in messages' : m.topic # row[g].id
  <2>1. Linked'
    BY <1>2, <1>5, StoredLinked DEF LinksInv
  <2> QED BY <1>1, <2>1, ReturnSaves
<1>6. \A m \in Purged(messages, row[g].id) : m \in messages /\ m.topic # row[g].id
  BY DEF Purged
<1> QED BY <1>1, <1>3, <1>4, <1>5, <1>6, Threadless

\* unbanTopic drops a row without a thread, and no link was left to it.
LEMMA UnbanTopicLinks ==
  ASSUME LinksInv, NoneFails, NEW g \in Goroutines, UnbanTopic(g)
  PROVE  Linked' /\ ThreadsSaved'
<1> DEFINE t == [row[g] EXCEPT !.ban = FALSE, !.verification = "Completed",
                               !.challenge = 0, !.sent = 0]
<1>1. /\ pc[g] = "unban" /\ Return(g) /\ UNCHANGED messages
      /\ topics' = AfterUnban(topics, row[g])
  BY NoFault DEF UnbanTopic
<1>2. t.id = row[g].id /\ t.thread = row[g].thread
  BY <1>1, HandSaved DEF Topic
<1>3. \/ topics' = Deleted(topics, row[g]) /\ row[g].thread = 0
      \/ topics' = Saved(topics, t) /\ t.thread # 0
  BY <1>1, <1>2 DEF AfterUnban
<1> HIDE DEF t
<1>4. Linked'
  BY <1>1, <1>3, Threadless, SavedLinked, DeletedLinked DEF LinksInv
<1> QED BY <1>1, <1>4, ReturnSaves

LEMMA FlagBanLinks ==
  ASSUME LinksInv, NoneFails, NEW g \in Goroutines, FlagBan(g)
  PROVE  Linked' /\ ThreadsSaved'
<1> DEFINE t == [row[g] EXCEPT !.ban = (upd[g].kind = "closed")]
<1>1. /\ pc[g] = "flag" /\ Return(g) /\ UNCHANGED messages
      /\ topics' = Saved(topics, t)
  BY NoFault DEF FlagBan
<1>2. t \in Topic /\ t.id = row[g].id /\ t.thread = row[g].thread
  BY <1>1, HandSaved DEF Topic
<1> HIDE DEF t
<1> QED BY <1>1, <1>2, SavesAndLeaves

LEMMA AdmitByReplyLinks ==
  ASSUME LinksInv, NoneFails, NEW g \in Goroutines, AdmitByReply(g)
  PROVE  Linked' /\ ThreadsSaved'
<1> DEFINE t == [row[g] EXCEPT !.verification = "Completed"]
<1>1. /\ pc[g] = "admit" /\ SaveTopic(t) /\ Goto(g, "deliver", t) /\ UNCHANGED messages
  BY NoFault DEF AdmitByReply
<1>2. /\ t \in Topic /\ t.id = row[g].id /\ t.thread = row[g].thread
      /\ t.id # 0
  BY <1>1, HandSaved DEF Topic, Verification, MayCreate
<1> HIDE DEF t
<1>3. topics' = Saved(topics, t)
  BY <1>1, <1>2 DEF SaveTopic, Stored
<1>4. Linked'
  BY <1>1, <1>2, <1>3, Threadless, SavedLinked DEF LinksInv
<1>5. \A r \in topics' : r.id = t.id => r.thread = t.thread
  BY <1>3 DEF Saved
<1>6. ThreadSaved(pc[g], row[g])'
  BY <1>1, <1>5, OnlyThisOne DEF ThreadSaved
<1> QED BY <1>1, <1>4, <1>6, GotoSaves

LEMMA DeliverLinks ==
  ASSUME LinksInv, NEW g \in Goroutines, Deliver(g)
  PROVE  Linked' /\ ThreadsSaved'
<1>1. /\ pc[g] = "deliver" /\ UNCHANGED <<topics, messages>> /\ row[g].id # 0
  BY HandSaved DEF Deliver, db, MayCreate
<1>2. Return(g) \/ \E l \in {"record", "delete"} : Goto(g, l, row[g])
  BY DEF Deliver
<1> QED BY <1>1, <1>2, Passing, Leaving

LEMMA ContinueLinks ==
  ASSUME LinksInv, NoneFails, NEW g \in Goroutines, Continue(g)
  PROVE  Linked' /\ ThreadsSaved'
BY SaveCaptchaLinks, CreateThreadLinks, SaveThreadLinks, RelayLinks, RecordLinks,
   ConsumeChallengeLinks, CheckAnswerLinks, DeleteThreadLinks, TerminateTopicLinks,
   BanLinks, UnbanTopicLinks, FlagBanLinks, AdmitByReplyLinks, DeliverLinks
DEF Continue

-----------------------------------------------------------------------------
(* Updates that take the mutex                                             *)

\* A row just read has the thread of the database, and nobody has a new one.
LEMMA EnterLinks ==
  ASSUME LinksInv, NEW g \in Goroutines, NEW u, NEW t, NEW l,
         Enter(g, u, t, l), UNCHANGED db, t \in topics \/ t.id = 0,
         l \notin {"relay", "record"} \/ t.id # 0
  PROVE  Linked' /\ ThreadsSaved'
<1>1. /\ pc'[g] = l /\ row'[g] = t
      /\ \A h \in Goroutines \ {g} : pc'[h] = "idle"
  BY BotAssumption
  DEF LinksInv, IInv, Handlers, HandlersTyped, Locking, Enter, LockFree
<1>2. \A r \in topics : r.id \in Nat \ {0} /\ (t \in topics /\ r.id = t.id => r = t)
  BY DEF LinksInv, IInv, Tables, TablesTyped, RowKeys
<1>3. ThreadSaved(pc[g], row[g])'
  BY <1>1, <1>2 DEF ThreadSaved, db
<1>4. ThreadsSaved'
  BY <1>1, <1>3 DEF ThreadsSaved
<1> QED BY <1>4 DEF LinksInv, Linked, db

\* The row a lookup by user leaves in the handler, with the user's id in it.
LEMMA ReadRow ==
  ASSUME LinksInv, NEW u \in Users, NEW t \in FindByUser(topics, u)
  PROVE  /\ t \in topics \/ t.id = 0
         /\ Addressed(t, u) \in topics \/ Addressed(t, u).id = 0
         /\ t.thread # 0 => t.id # 0
<1>1. /\ t \in Topic
      /\ \/ t = NoTopic /\ t.id = 0
         \/ t \in topics /\ t.id # 0 /\ t.user = u
  BY FoundByUser DEF LinksInv, IInv
<1>2. Addressed(t, u).id = t.id /\ (t.user = u => Addressed(t, u) = t)
  BY <1>1 DEF Addressed, Topic
<1> QED BY <1>1, <1>2 DEF NoTopic

LEMMA FromUserLinks ==
  ASSUME LinksInv, NEW g \in Goroutines, NEW u \in Users, FromUser(g, u)
  PROVE  Linked' /\ ThreadsSaved'
<1>1. ASSUME NEW c \in Challenges, SendCaptcha(g, u, c)
      PROVE  Linked' /\ ThreadsSaved'
  <2>1. PICK t \in FindByUser(topics, u) :
          /\ Enter(g, Update("message", u, 0, NoKey),
                   Addressed([t EXCEPT !.challenge = c], u), "saveCaptcha")
          /\ UNCHANGED db
    BY <1>1 DEF SendCaptcha
  <2> DEFINE a == Addressed([t EXCEPT !.challenge = c], u)
  <2>2. t \in Topic /\ (t \in topics \/ t.id = 0)
    BY FoundByUser DEF LinksInv, IInv
  <2>3. a.id = t.id /\ a.thread = t.thread
    BY <2>2 DEF Addressed, Topic
  <2> HIDE DEF a
  <2>4. /\ pc'[g] = "saveCaptcha" /\ row'[g] = a
        /\ \A h \in Goroutines \ {g} : pc'[h] = "idle"
    BY <2>1, BotAssumption
    DEF LinksInv, IInv, Handlers, HandlersTyped, Locking, Enter, LockFree, a
  <2>5. \A r \in topics : r.id \in Nat \ {0} /\ (t \in topics /\ r.id = t.id => r = t)
    BY DEF LinksInv, IInv, Tables, TablesTyped, RowKeys
  <2>6. ThreadSaved(pc[g], row[g])'
    BY <2>1, <2>2, <2>3, <2>4, <2>5 DEF ThreadSaved, db
  <2>7. ThreadsSaved'
    BY <2>4, <2>6 DEF ThreadsSaved
  <2> QED BY <2>1, <2>7 DEF LinksInv, Linked, db
<1>2. ASSUME NEW k \in UserMsgs, AcceptMessage(g, u, k)
      PROVE  Linked' /\ ThreadsSaved'
  <2>1. PICK t \in FindByUser(topics, u) :
          /\ \/ Enter(g, Update("message", u, 0, k), Addressed(t, u), "create")
             \/ t.thread # 0 /\ Enter(g, Update("message", u, 0, k), t, "relay")
          /\ UNCHANGED db
    BY <1>2 DEF AcceptMessage
  <2> QED BY <2>1, ReadRow, EnterLinks
<1>3. ASSUME NEW c \in Challenges, NEW right \in BOOLEAN, Answer(g, u, c, right)
      PROVE  Linked' /\ ThreadsSaved'
  BY <1>3, ReadRow, EnterLinks DEF Answer
<1>4. CASE Kicked(g, u)
  BY <1>4, ReadRow, EnterLinks DEF Kicked
<1> QED BY <1>1, <1>2, <1>3, <1>4 DEF FromUser

LEMMA FromGeneralLinks ==
  ASSUME LinksInv, NEW g \in Goroutines, NEW u \in Users, FromGeneral(g, u)
  PROVE  Linked' /\ ThreadsSaved'
<1>1. PICK t \in FindByUser(topics, u), l \in {"delete", "ban", "terminate", "unban"} :
        /\ \/ \E k \in Kinds : Enter(g, Update(k, u, 0, NoKey), t, l)
           \/ Enter(g, Update("ban", u, 0, NoKey), Addressed(t, u), l)
        /\ UNCHANGED db
  <2>1. {"unban", "terminate"} \subseteq Kinds
    BY DEF Kinds, GeneralKinds
  <2>2. CASE GeneralBan(g, u)
    BY <2>2 DEF GeneralBan
  <2>3. CASE GeneralUnban(g, u)
    BY <2>1, <2>3 DEF GeneralUnban
  <2>4. CASE GeneralTerminate(g, u)
    BY <2>1, <2>4 DEF GeneralTerminate
  <2> QED BY <2>2, <2>3, <2>4 DEF FromGeneral
<1> QED BY <1>1, ReadRow, EnterLinks

LEMMA FromTopicLinks ==
  ASSUME LinksInv, NEW g \in Goroutines, NEW th \in DOMAIN threads, FromTopic(g, th)
  PROVE  Linked' /\ ThreadsSaved'
<1>1. \E t \in FindByThread(topics, th), u \in Updates,
         l \in {"delete", "unban", "flag", "admit", "deliver"} :
        t.id # 0 /\ Enter(g, u, t, l) /\ UNCHANGED db
  <2>1. CASE \E k \in TopicMsgs : Reply(g, th, k) \/ TopicEdit(g, th, k)
    <3>1. PICK k \in TopicMsgs : Reply(g, th, k) \/ TopicEdit(g, th, k)
      BY <2>1
    <3>2. {Update("reply", NoUser, th, k), Update("topicEdit", NoUser, th, k)}
            \subseteq Updates
      BY BotAssumption DEF Update, Updates, Kinds, TopicKinds, LinksInv, IInv, Tables,
                           TablesTyped
    <3> QED BY <3>1, <3>2 DEF Reply, TopicEdit
  <2>2. CASE TopicBan(g, th) \/ TopicUnban(g, th) \/ TopicTerminate(g, th)
             \/ TopicClosed(g, th) \/ TopicReopened(g, th)
    <3>1. {Update(kind, NoUser, th, NoKey) : kind \in TopicKinds} \subseteq Updates
      BY DEF Update, Updates, Kinds, LinksInv, IInv, Tables, TablesTyped
    <3>2. \A kind \in TopicKinds : Update(kind, NoUser, th, NoKey) \in Updates
      BY <3>1
    <3> QED BY <2>2, <3>2
            DEF TopicBan, TopicUnban, TopicTerminate, TopicClosed, TopicReopened,
                TopicKinds
  <2> QED BY <2>1, <2>2 DEF FromTopic
<1>2. PICK t \in FindByThread(topics, th), u \in Updates,
           l \in {"delete", "unban", "flag", "admit", "deliver"} :
        t.id # 0 /\ Enter(g, u, t, l) /\ UNCHANGED db
  BY <1>1
<1>3. t \in topics
  BY <1>2, FoundByThread DEF LinksInv, IInv
<1> QED BY <1>2, <1>3, EnterLinks

-----------------------------------------------------------------------------
(* The environment, and the theorem                                        *)

LEMMA EnvironmentLinks ==
  ASSUME LinksInv, NoneFails, Environment
  PROVE  Linked' /\ ThreadsSaved'
<1>1. CASE MessageCleanup
  <2>1. messages' \subseteq messages /\ UNCHANGED <<topics, pc, row>>
    BY <1>1 DEF MessageCleanup, handlers
  <2> QED BY <2>1 DEF LinksInv, Linked, ThreadsSaved, ThreadSaved
<1>2. CASE Tick \/ \E th \in DOMAIN threads : ThreadRemoved(th)
  <2>1. UNCHANGED <<topics, messages, pc, row>>
    BY <1>2 DEF Tick, ThreadRemoved, db, handlers
  <2> QED BY <2>1 DEF LinksInv, Linked, ThreadsSaved, ThreadSaved
<1>3. CASE VerificationCleanup
  <2>1. UNCHANGED <<messages, pc, row>>
        /\ topics' = AfterCleanup(topics, now + CaptchaDuration)
    BY <1>3 DEF VerificationCleanup, handlers
  <2> DEFINE f(r) == IF /\ r.verification = "NotCompleted" /\ r.sent # 0
                        /\ r.sent <= now + CaptchaDuration
                       THEN [r EXCEPT !.challenge = 0, !.sent = 0] ELSE r
  <2>2. topics' = {f(r) : r \in topics}
    BY <2>1 DEF AfterCleanup
  <2>3. \A r \in topics : f(r).id = r.id /\ f(r).thread = r.thread
    BY DEF LinksInv, IInv, Tables, TablesTyped, Topic
  <2> HIDE DEF f
  <2>4. Linked'
    BY <2>1, <2>2, <2>3 DEF LinksInv, Linked
  <2>5. ThreadsSaved'
    BY <2>1, <2>2, <2>3 DEF LinksInv, ThreadsSaved, ThreadSaved
  <2> QED BY <2>4, <2>5
<1>4. ~Crash
  BY DEF Crash, NoneFails
<1> QED BY <1>1, <1>2, <1>3, <1>4 DEF Environment

LEMMA StepLinks == NoneFails /\ LinksInv /\ [Next]_vars => LinksInv'
<1> SUFFICES ASSUME NoneFails, LinksInv, [Next]_vars PROVE LinksInv'
  OBVIOUS
<1>1. IInv'
  BY StepInvariant DEF LinksInv
<1>2. Linked' /\ ThreadsSaved'
  <2>1. ASSUME NEW g \in Goroutines, NEW u \in Users, FromUser(g, u) \/ FromGeneral(g, u)
        PROVE  Linked' /\ ThreadsSaved'
    BY <2>1, FromUserLinks, FromGeneralLinks
  <2>2. ASSUME NEW g \in Goroutines, NEW th \in DOMAIN threads, FromTopic(g, th)
        PROVE  Linked' /\ ThreadsSaved'
    BY <2>2, FromTopicLinks
  <2>3. ASSUME NEW g \in Goroutines, Continue(g)
        PROVE  Linked' /\ ThreadsSaved'
    BY <2>3, ContinueLinks
  <2>4. CASE UNCHANGED vars
    <3>1. UNCHANGED <<topics, messages, pc, row>>
      BY <2>4 DEF vars, db, handlers
    <3> QED BY <3>1 DEF LinksInv, Linked, ThreadsSaved, ThreadSaved
  <2> QED BY <2>1, <2>2, <2>3, <2>4, EnvironmentLinks DEF Next
<1> QED BY <1>1, <1>2 DEF LinksInv, ThreadsSaved

LEMMA InitLinks == Init => LinksInv
BY InitInvariant DEF Init, LinksInv, Linked

\* Unless a statement fails or the process dies, every link has its row: the
\* purges of a ban and of a termination take all links along, and /unban, which
\* deletes a row and purges nothing, only finds rows that have none.
THEOREM LinksHaveRows ==
  ASSUME Faults \subseteq {"api"}
  PROVE  Spec => []NoOrphanLinks
<1>1. NoneFails
  BY DEF NoneFails
<1>2. Init => LinksInv
  BY InitLinks
<1>3. LinksInv /\ [Next]_vars => LinksInv'
  BY <1>1, StepLinks
<1>4. LinksInv => NoOrphanLinks
  BY DEF LinksInv, Linked, NoOrphanLinks
<1> QED BY <1>2, <1>3, <1>4, PTL DEF Spec

=============================================================================
