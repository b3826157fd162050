--------------------------- MODULE TopicBotProofs ---------------------------
(* That IInv of TopicBotInv is inductive, and what follows from it.        *)
EXTENDS TopicBotInv, TLAPS, SequenceTheorems

-----------------------------------------------------------------------------
(* The tables, under the writes handlers make of the row in hand.          *)

\* The thread a row names, if any, was made for the row's user.
Owned(t) ==
  t.thread # 0 => t.thread \in DOMAIN threads
                  /\ threads[t.thread].owner = t.user

\* A row in hand that is new, or that stands for a row of the table.
Placed(t) ==
  /\ t \in Topic /\ t.user \in Users
  /\ t.id = 0 => \A r \in topics : r.user # t.user
  /\ t.id # 0 => \E r \in topics : r.id = t.id /\ r.user = t.user

\* Dropping rows and links harms nothing (DB().Delete, a purge, MessageCleanup).
LEMMA FewerRows ==
  ASSUME Tables, topics' \subseteq topics, messages' \subseteq messages,
         UNCHANGED <<nextId, threads, captchas, now>>
  PROVE  Tables'
BY DEF Tables, TablesTyped, RowKeys, UniqueUser, ThreadOwner, Links

\* Saving a row that is in the table (saveTopic with an id) keeps the keys,
\* the users, the threads and the links of the table in order.
LEMMA SavedRow ==
  ASSUME Tables, NEW t, Placed(t), Owned(t), t.id # 0,
         topics' = Saved(topics, t), messages' \subseteq messages,
         UNCHANGED <<nextId, threads, captchas, now>>
  PROVE  Tables'
<1> PICK o \in topics : o.id = t.id /\ o.user = t.user
  BY DEF Placed
<1>1. topics' \subseteq Topic
  BY DEF Tables, TablesTyped, Saved, Placed
<1>2. RowKeys'
  BY DEF Tables, RowKeys, Saved, Placed
<1>3. UniqueUser'
  BY DEF Tables, RowKeys, UniqueUser, Saved, Placed
<1>4. ThreadOwner'
  BY DEF Tables, ThreadOwner, Saved, Owned
<1>5. Links'
  BY DEF Tables, Links, Saved, Placed
<1> QED BY <1>1, <1>2, <1>3, <1>4, <1>5 DEF Tables, TablesTyped

\* Inserting a row for a user who has none (saveTopic without an id).
LEMMA NewRow ==
  ASSUME Tables, NEW t, Placed(t), Owned(t), t.id = 0,
         SaveTopic(t), messages' \subseteq messages,
         UNCHANGED <<threads, captchas, now>>
  PROVE  Tables'
<1> DEFINE n == [t EXCEPT !.id = nextId]
<1>1. /\ n \in Topic /\ n.id = nextId /\ n.user = t.user /\ n.thread = t.thread
      /\ topics' = {r \in topics : r.id # nextId} \cup {n}
      /\ nextId' = nextId + 1 /\ nextId \in Nat \ {0}
  BY DEF Placed, Topic, SaveTopic, Stored, Saved, Tables, TablesTyped
<1>2. topics' = topics \cup {n}
  BY <1>1 DEF Tables, TablesTyped, RowKeys, Topic
<1> HIDE DEF n
<1>3. TablesTyped'
  BY <1>1, <1>2 DEF Tables, TablesTyped
<1>4. RowKeys'
  BY <1>1, <1>2 DEF Tables, TablesTyped, RowKeys, Placed, Topic
<1>5. UniqueUser'
  BY <1>1, <1>2 DEF Tables, UniqueUser, Placed
<1>6. ThreadOwner'
  BY <1>1, <1>2 DEF Tables, ThreadOwner, Owned
<1>7. Links'
  BY <1>1, <1>2 DEF Tables, TablesTyped, Links, Msg
<1> QED BY <1>3, <1>4, <1>5, <1>6, <1>7 DEF Tables

\* saveTopic whether it succeeds or not.
LEMMA TriedRow ==
  ASSUME Tables, NEW t, Placed(t), Owned(t),
         TrySave(t), messages' \subseteq messages,
         UNCHANGED <<threads, captchas, now>>
  PROVE  Tables'
<1>1. CASE SaveTopic(t) /\ t.id = 0
  BY <1>1, NewRow
<1>2. CASE SaveTopic(t) /\ t.id # 0
  BY <1>2, SavedRow DEF SaveTopic, Stored
<1>3. CASE SaveFails
  BY <1>3, FewerRows DEF SaveFails
<1> QED BY <1>1, <1>2, <1>3 DEF TrySave
\* The threads keep their owners when one is appended or deleted.
Grown ==
  /\ threads' \in Seq(Thread)
  /\ \A i \in DOMAIN threads :
       i \in DOMAIN threads' /\ threads'[i].owner = threads[i].owner

\* Only threads changed, and no thread changed hands.
LEMMA MoreThreads ==
  ASSUME Tables, Grown, UNCHANGED <<db, captchas, now>>
  PROVE  Tables'
<1>1. TablesTyped'
  BY DEF Tables, TablesTyped, Grown, db
<1>2. RowKeys' /\ UniqueUser'
  BY DEF Tables, RowKeys, UniqueUser, db
<1>3. ThreadOwner'
  BY DEF Tables, ThreadOwner, Grown, db
<1>4. Links'
  BY DEF Tables, Links, Grown, db
<1> QED BY <1>1, <1>2, <1>3, <1>4 DEF Tables

\* Deleting a thread, known or not, leaves every thread its owner.
LEMMA WithoutGrown ==
  ASSUME threads \in Seq(Thread), NEW th, threads' = Without(th)
  PROVE  Grown
<1>1. CASE th \in DOMAIN threads
  <2>1. th \in 1 .. Len(threads) /\ threads[th] \in Thread
    BY <1>1, ElementOfSeq
  <2> DEFINE n == [threads[th] EXCEPT !.live = FALSE]
  <2>2. n \in Thread /\ n.owner = threads[th].owner
    BY <2>1 DEF Thread
  <2>3. threads' = [threads EXCEPT ![th] = n]
    BY <1>1 DEF Without
  <2> HIDE DEF n
  <2>4. threads' \in Seq(Thread) /\ DOMAIN threads' = DOMAIN threads
    BY <2>1, <2>2, <2>3, ExceptSeq
  <2> QED BY <2>2, <2>3, <2>4 DEF Grown
<1>2. CASE th \notin DOMAIN threads
  BY <1>2 DEF Grown, Without
<1> QED BY <1>1, <1>2

\* A created thread is the last one and leaves the others alone.
LEMMA AppendGrown ==
  ASSUME threads \in Seq(Thread), NEW n \in Thread,
         threads' = Append(threads, n)
  PROVE  /\ Grown /\ Len(threads) + 1 \in DOMAIN threads'
         /\ Len(threads) + 1 \in Nat \ {0}
         /\ threads'[Len(threads) + 1] = n
BY DEF Grown

-----------------------------------------------------------------------------
(* The handlers: taking the mutex, going on, returning.                    *)

LEMMA Blank == NoTopic \in Topic /\ NoUpdate \in Updates
BY DEF NoTopic, Topic, Verification, NoUpdate, Update, Updates, Kinds

LEMMA Returned ==
  ASSUME Handlers, NEW g \in Goroutines, pc[g] # "idle", Return(g)
  PROVE  Handlers'
<1>1. HandlersTyped'
  BY Blank DEF Handlers, HandlersTyped, Return, Labels
<1>2. \A h \in Goroutines : pc'[h] = "idle"
  BY DEF Handlers, HandlersTyped, Locking, Return
<1>3. Locking'
  BY <1>2, BotAssumption DEF Locking, Return
<1> QED BY <1>1, <1>2, <1>3 DEF Handlers

LEMMA Entered ==
  ASSUME Handlers, NEW g \in Goroutines, NEW u \in Updates, NEW t \in Topic,
         NEW l \in Labels, l # "idle",
         Enter(g, u, t, l), Coherent(l, u, t), UNCHANGED <<topics, threads>>
  PROVE  Handlers'
<1>1. HandlersTyped'
  BY DEF Handlers, HandlersTyped, Enter
<1>2. /\ pc'[g] = l /\ upd'[g] = u /\ row'[g] = t
      /\ \A h \in Goroutines \ {g} : pc'[h] = "idle"
  BY BotAssumption DEF Handlers, HandlersTyped, Locking, Enter, LockFree
<1>3. Locking'
  BY <1>2 DEF Locking, Enter
<1>4. Coherent(pc[g], upd[g], row[g])'
  BY <1>2 DEF Coherent, RowInHand, ThreadInHand, UpdateInHand, Allowed,
              Copied, Relaying
<1> QED BY <1>1, <1>2, <1>3, <1>4 DEF Handlers

LEMMA Went ==
  ASSUME Handlers, NEW g \in Goroutines, pc[g] # "idle",
         NEW t \in Topic, NEW l \in Labels, l # "idle", Goto(g, l, t),
         Coherent(pc[g], upd[g], row[g])'
  PROVE  Handlers'
<1>1. HandlersTyped'
  BY DEF Handlers, HandlersTyped, Goto
<1>2. /\ pc'[g] = l
      /\ \A h \in Goroutines \ {g} : pc'[h] = "idle"
  BY DEF Handlers, HandlersTyped, Locking, Goto
<1>3. Locking'
  BY <1>2 DEF Handlers, Locking, Goto
<1> QED BY <1>1, <1>2, <1>3 DEF Handlers

-----------------------------------------------------------------------------
(* Updates that reach the critical section.                                *)

\* What `Find(&topic)` by user leaves in the local row.
LEMMA FoundByUser ==
  ASSUME Tables, NEW u \in Users, NEW t \in FindByUser(topics, u)
  PROVE  /\ t \in Topic
         /\ \/ t = NoTopic /\ t.id = 0 /\ \A r \in topics : r.user # u
            \/ t \in topics /\ t.id # 0 /\ t.user = u
<1>1. CASE {r \in topics : r.user = u} = {}
  <2>1. t = NoTopic
    BY <1>1 DEF FindByUser, Found
  <2> QED BY <1>1, <2>1, Blank DEF NoTopic
<1>2. CASE {r \in topics : r.user = u} # {}
  <2>1. t \in topics /\ t.user = u
    BY <1>2 DEF FindByUser, Found
  <2> QED BY <2>1 DEF Tables, TablesTyped, RowKeys
<1> QED BY <1>1, <1>2

\* What `Find(&topic)` by thread leaves there, when it finds a row.
LEMMA FoundByThread ==
  ASSUME Tables, NEW th \in DOMAIN threads,
         NEW t \in FindByThread(topics, th), t.id # 0
  PROVE  t \in topics /\ t \in Topic /\ t.thread = th /\ th \in Nat \ {0}
<1>1. t \in topics /\ t.thread = th
  BY DEF FindByThread, Found, NoTopic
<1> QED BY <1>1 DEF Tables, TablesTyped

\* A row just read is coherent at every label it may be read for.
LEMMA JustRead ==
  ASSUME Tables, NEW t \in topics, NEW l, NEW u, l # "check"
  PROVE  /\ RowInHand(l, u, t) /\ Placed(t) /\ Owned(t)
         /\ t.thread # 0 => /\ t.thread \in DOMAIN threads
                            /\ threads[t.thread].owner = t.user
BY DEF Tables, TablesTyped, RowKeys, ThreadOwner, RowInHand, Copied, Placed,
       Owned

\* Taking the mutex writes no table.
LEMMA Admitted ==
  ASSUME IInv, NEW g \in Goroutines, NEW u \in Updates, NEW t \in Topic,
         NEW l \in Labels, l # "idle",
         Enter(g, u, t, l), Coherent(l, u, t),
         captchas' \subseteq [user: Users, challenge: Challenges],
         UNCHANGED <<db, threads, now>>
  PROVE  IInv'
<1>1. Tables'
  BY DEF IInv, Tables, TablesTyped, RowKeys, UniqueUser, ThreadOwner, Links, db
<1>2. Handlers'
  BY Entered DEF IInv, db
<1> QED BY <1>1, <1>2 DEF IInv

LEMMA SendCaptchaStep ==
  ASSUME IInv, NEW g \in Goroutines, NEW u \in Users, NEW c \in Challenges,
         SendCaptcha(g, u, c)
  PROVE  IInv'
<1>1. PICK t \in FindByUser(topics, u) :
        /\ Enter(g, Update("message", u, 0, NoKey),
                 Addressed([t EXCEPT !.challenge = c], u), "saveCaptcha")
        /\ t.verification = "NotSent"
  BY DEF SendCaptcha
<1> DEFINE n == Addressed([t EXCEPT !.challenge = c], u)
           d == Update("message", u, 0, NoKey)
<1>2. /\ t \in Topic
      /\ \/ t = NoTopic /\ t.id = 0 /\ \A r \in topics : r.user # u
         \/ t \in topics /\ t.id # 0 /\ t.user = u
  BY FoundByUser DEF IInv
<1>3. /\ n \in Topic /\ n.user = u /\ n.id = t.id /\ n.thread = t.thread
      /\ n.ban = t.ban /\ n.verification = t.verification
  BY <1>2, BotAssumption DEF Topic, Addressed
<1>4. /\ d \in Updates /\ d.kind = "message" /\ d.user = u
  BY DEF Update, Updates, Kinds, UserKinds
<1>5. captchas' \subseteq [user: Users, challenge: Challenges]
  BY DEF SendCaptcha, IInv, Tables, TablesTyped
<1> HIDE DEF n, d
<1>6. Coherent("saveCaptcha", d, n)
  <2>1. RowInHand("saveCaptcha", d, n)
    BY <1>2, <1>3 DEF RowInHand, MayCreate, Copied, NoTopic
  <2>2. ThreadInHand("saveCaptcha", d, n)
    BY <1>2, <1>3, <1>4 DEF ThreadInHand, Relaying, NoTopic, IInv, Tables,
                            ThreadOwner
  <2> QED BY <2>1, <2>2, <1>3, <1>4 DEF Coherent, UpdateInHand, Allowed, Relaying
<1>7. Enter(g, d, n, "saveCaptcha") /\ UNCHANGED <<db, threads, now>>
  BY <1>1 DEF SendCaptcha, n, d
<1> QED BY <1>3, <1>4, <1>5, <1>6, <1>7, Admitted DEF Labels

LEMMA AcceptMessageStep ==
  ASSUME IInv, NEW g \in Goroutines, NEW u \in Users, NEW k \in UserMsgs,
         AcceptMessage(g, u, k)
  PROVE  IInv'
<1> DEFINE d == Update("message", u, 0, k)
<1>1. PICK t \in FindByUser(topics, u) :
        /\ MayWrite(t, u) /\ ~t.ban
        /\ \/ t.thread = 0 /\ Enter(g, d, Addressed(t, u), "create")
           \/ t.thread # 0 /\ Enter(g, d, t, "relay")
  BY DEF AcceptMessage
<1>2. /\ t \in Topic
      /\ \/ t = NoTopic /\ t.id = 0 /\ \A r \in topics : r.user # u
         \/ t \in topics /\ t.id # 0 /\ t.user = u
  BY FoundByUser DEF IInv
<1>3. /\ d \in Updates /\ d.kind = "message" /\ d.user = u /\ d.key \in Keys
  BY BotAssumption DEF Update, Updates, Kinds, UserKinds
<1>4. PICK n \in Topic, l \in {"create", "relay"} :
        /\ Enter(g, d, n, l)
        /\ n \in {Addressed(t, u), t}
        /\ n.user = u
        /\ l = "relay" => n.thread # 0
  <2>1. Addressed(t, u) \in Topic /\ Addressed(t, u).user = u
    BY <1>2 DEF Topic, Addressed
  <2>2. CASE t.thread = 0 /\ Enter(g, d, Addressed(t, u), "create")
    BY <2>1, <2>2
  <2>3. CASE t.thread # 0 /\ Enter(g, d, t, "relay")
    BY <2>3, <1>2 DEF NoTopic
  <2> QED BY <1>1, <2>2, <2>3
<1>5. /\ n.id = t.id /\ n.thread = t.thread
      /\ n.ban = t.ban /\ n.verification = t.verification
  BY <1>2, <1>4 DEF Topic, Addressed
<1> HIDE DEF d
<1>6. Screening[u] = {TRUE} => t.id # 0 /\ t.verification = "Completed"
  BY <1>1, <1>2 DEF MayWrite, NoTopic
<1>7. Coherent(l, d, n)
  <2>1. RowInHand(l, d, n)
    BY <1>1, <1>2, <1>4, <1>5 DEF RowInHand, MayCreate, Copied, NoTopic
  <2>2. ThreadInHand(l, d, n)
    BY <1>2, <1>3, <1>4, <1>5 DEF ThreadInHand, Relaying, NoTopic, IInv, Tables,
                                  ThreadOwner
  <2> QED BY <2>1, <2>2, <1>1, <1>3, <1>4, <1>5, <1>6
          DEF Coherent, UpdateInHand, Allowed, Relaying
<1>8. UNCHANGED <<db, threads, captchas, now>>
  BY DEF AcceptMessage
<1> QED BY <1>3, <1>4, <1>7, <1>8, Admitted DEF Labels, IInv, Tables, TablesTyped

\* An update that is no message and acts on a row the handler found.
LEMMA ActsOnRow ==
  ASSUME IInv, NEW g \in Goroutines, NEW t \in topics, NEW u \in Updates,
         u.kind \notin {"message", "reply"},
         NEW l \in {"consume", "delete", "terminate", "ban", "unban", "flag",
                   "deliver"},
         l = "consume" => t.verification = "NotCompleted" /\ u.kind = "answer",
         l = "unban" => u.kind \in {"unban", "topicUnban"},
         l = "flag" => u.kind \in {"closed", "reopened"},
         Enter(g, u, t, l), UNCHANGED <<db, threads, captchas, now>>
  PROVE  IInv'
<1>1. /\ RowInHand(l, u, t)
      /\ t.thread # 0 => /\ t.thread \in DOMAIN threads
                         /\ threads[t.thread].owner = t.user
  <2>1. Tables /\ l # "check"
    BY DEF IInv
  <2> QED BY <2>1, JustRead
<1>2. Coherent(l, u, t)
  BY <1>1 DEF Coherent, ThreadInHand, UpdateInHand, Allowed, Relaying
<1>3. t \in Topic
  BY DEF IInv, Tables, TablesTyped
<1> QED BY <1>2, <1>3, Admitted DEF Labels, IInv, Tables, TablesTyped

LEMMA AnswerStep ==
  ASSUME IInv, NEW g \in Goroutines, NEW u \in Users, NEW c \in Challenges,
         NEW right \in BOOLEAN, Answer(g, u, c, right)
  PROVE  IInv'
<1> DEFINE d == Update("answer", u, 0, [challenge |-> c, right |-> right])
<1>1. PICK t \in FindByUser(topics, u) :
        /\ t.id # 0 /\ t.verification = "NotCompleted"
        /\ Enter(g, d, t, "consume")
  BY DEF Answer
<1>2. t \in topics
  BY <1>1, FoundByUser DEF IInv
<1>3. d \in Updates /\ d.kind = "answer"
  BY DEF Update, Updates, Kinds, UserKinds, CallbackData
<1> HIDE DEF d
<1> QED BY <1>1, <1>2, <1>3, ActsOnRow DEF Answer

LEMMA KickedStep ==
  ASSUME IInv, NEW g \in Goroutines, NEW u \in Users, Kicked(g, u)
  PROVE  IInv'
<1>1. PICK t \in FindByUser(topics, u) :
        t.id # 0 /\ Enter(g, Update("kicked", u, t.thread, NoKey), t, "delete")
  BY DEF Kicked
<1> DEFINE d == Update("kicked", u, t.thread, NoKey)
<1>2. t \in topics /\ t \in Topic
  BY <1>1, FoundByUser DEF IInv
<1>3. d \in Updates /\ d.kind = "kicked"
  BY <1>2 DEF Update, Updates, Kinds, UserKinds, Topic
<1> HIDE DEF d
<1>4. Enter(g, d, t, "delete")
  BY <1>1 DEF d
<1> QED BY <1>2, <1>3, <1>4, ActsOnRow DEF Kicked

\* An administrator's command, in General or in a thread.
LEMMA CommandUpdate ==
  ASSUME NEW k \in GeneralKinds \cup TopicKinds,
         NEW u \in Users \cup {NoUser}, NEW th \in Nat
  PROVE  /\ Update(k, u, th, NoKey) \in Updates
         /\ Update(k, u, th, NoKey).kind = k
BY DEF Update, Updates, Kinds

LEMMA GeneralBanStep ==
  ASSUME IInv, NEW g \in Goroutines, NEW u \in Users, GeneralBan(g, u)
  PROVE  IInv'
<1> DEFINE d == Update("ban", u, 0, NoKey)
<1>1. PICK t \in FindByUser(topics, u) :
        /\ ~t.ban
        /\ Enter(g, d, Addressed(t, u),
                 IF t.thread # 0 THEN "delete" ELSE "ban")
  BY DEF GeneralBan
<1> DEFINE n == Addressed(t, u)
           l == IF t.thread # 0 THEN "delete" ELSE "ban"
<1>2. /\ t \in Topic
      /\ \/ t = NoTopic /\ t.id = 0 /\ \A r \in topics : r.user # u
         \/ t \in topics /\ t.id # 0 /\ t.user = u
  BY FoundByUser DEF IInv
<1>3. d \in Updates /\ d.kind = "ban"
  BY CommandUpdate DEF GeneralKinds
<1>4. /\ n \in Topic /\ n.user = u /\ n.id = t.id /\ n.thread = t.thread
      /\ n.ban = t.ban /\ n.verification = t.verification
  BY <1>2 DEF Topic, Addressed
<1>5. /\ l \in {"delete", "ban"} /\ Enter(g, d, n, l)
      /\ t.id = 0 => l = "ban"
  BY <1>1, <1>2 DEF NoTopic
<1> HIDE DEF d, n, l
<1>6. Coherent(l, d, n)
  <2>1. RowInHand(l, d, n)
    BY <1>1, <1>2, <1>4, <1>5 DEF RowInHand, MayCreate, Copied
  <2>2. ThreadInHand(l, d, n)
    BY <1>2, <1>3, <1>4 DEF ThreadInHand, Relaying, NoTopic, IInv, Tables,
                            ThreadOwner
  <2> QED BY <2>1, <2>2, <1>3, <1>5 DEF Coherent, UpdateInHand, Allowed, Relaying
<1>7. UNCHANGED <<db, threads, captchas, now>>
  BY DEF GeneralBan
<1> QED BY <1>3, <1>4, <1>5, <1>6, <1>7, Admitted
        DEF Labels, IInv, Tables, TablesTyped

LEMMA GeneralUnbanStep ==
  ASSUME IInv, NEW g \in Goroutines, NEW u \in Users, GeneralUnban(g, u)
  PROVE  IInv'
<1> DEFINE d == Update("unban", u, 0, NoKey)
<1>1. PICK t \in FindByUser(topics, u) : t.id # 0 /\ Enter(g, d, t, "unban")
  BY DEF GeneralUnban
<1>2. t \in topics /\ d \in Updates /\ d.kind = "unban"
  BY <1>1, FoundByUser, CommandUpdate DEF IInv, GeneralKinds
<1> HIDE DEF d
<1> QED BY <1>1, <1>2, ActsOnRow DEF GeneralUnban

LEMMA GeneralTerminateStep ==
  ASSUME IInv, NEW g \in Goroutines, NEW u \in Users, GeneralTerminate(g, u)
  PROVE  IInv'
<1> DEFINE d == Update("terminate", u, 0, NoKey)
<1>1. PICK t \in FindByUser(topics, u) :
        /\ t.id # 0
        /\ Enter(g, d, t, IF t.thread # 0 THEN "delete" ELSE "terminate")
  BY DEF GeneralTerminate
<1>2. t \in topics /\ d \in Updates /\ d.kind = "terminate"
  BY <1>1, FoundByUser, CommandUpdate DEF IInv, GeneralKinds
<1>3. PICK l \in {"delete", "terminate"} : Enter(g, d, t, l)
  BY <1>1
<1> HIDE DEF d
<1> QED BY <1>2, <1>3, ActsOnRow DEF GeneralTerminate

\* /ban, /unban and /terminate in a thread, closing and reopening it.
LEMMA TopicCommandStep ==
  ASSUME IInv, NEW g \in Goroutines, NEW th \in DOMAIN threads,
         \/ TopicBan(g, th) \/ TopicUnban(g, th) \/ TopicTerminate(g, th)
         \/ TopicClosed(g, th) \/ TopicReopened(g, th)
  PROVE  IInv'
<1>1. PICK t \in FindByThread(topics, th), k \in TopicKinds \ {"reply"},
           l \in {"delete", "unban", "flag"} :
        /\ t.id # 0 /\ Enter(g, Update(k, NoUser, th, NoKey), t, l)
        /\ l = "unban" => k = "topicUnban"
        /\ l = "flag" => k \in {"closed", "reopened"}
  BY DEF TopicBan, TopicUnban, TopicTerminate, TopicClosed, TopicReopened,
         TopicKinds
<1>2. t \in topics /\ th \in Nat
  BY <1>1, FoundByThread DEF IInv
<1> DEFINE d == Update(k, NoUser, th, NoKey)
<1>3. d \in Updates /\ d.kind = k /\ k \notin {"message", "reply"}
  BY <1>2, CommandUpdate DEF TopicKinds
<1>4. /\ Enter(g, d, t, l) /\ UNCHANGED <<db, threads, captchas, now>>
      /\ l = "unban" => d.kind = "topicUnban"
      /\ l = "flag" => d.kind \in {"closed", "reopened"}
  BY <1>1, <1>3 DEF TopicBan, TopicUnban, TopicTerminate, TopicClosed, TopicReopened
<1> HIDE DEF d
<1> QED BY <1>2, <1>3, <1>4, ActsOnRow

LEMMA ReplyStep ==
  ASSUME IInv, NEW g \in Goroutines, NEW th \in DOMAIN threads,
         NEW k \in TopicMsgs, Reply(g, th, k)
  PROVE  IInv'
<1> DEFINE d == Update("reply", NoUser, th, k)
<1>1. PICK t \in FindByThread(topics, th), l \in {"deliver", "admit"} :
        t.id # 0 /\ Enter(g, d, t, l)
  BY DEF Reply
<1>2. t \in topics /\ t \in Topic /\ t.thread = th /\ th \in Nat \ {0}
  BY <1>1, FoundByThread DEF IInv
<1>3. /\ d \in Updates /\ d.kind = "reply" /\ d.key \in Keys
      /\ d.thread = t.thread
  BY <1>2, BotAssumption DEF Update, Updates, Kinds, TopicKinds
<1> HIDE DEF d
<1>4. /\ RowInHand(l, d, t) /\ t.thread \in DOMAIN threads
      /\ threads[t.thread].owner = t.user
  BY <1>2, JustRead DEF IInv
<1>5. Coherent(l, d, t)
  BY <1>2, <1>3, <1>4 DEF Coherent, ThreadInHand, UpdateInHand, Allowed, Relaying
<1>6. UNCHANGED <<db, threads, captchas, now>>
  BY DEF Reply
<1> QED BY <1>1, <1>2, <1>3, <1>5, <1>6, Admitted
        DEF Labels, IInv, Tables, TablesTyped

LEMMA TopicEditStep ==
  ASSUME IInv, NEW g \in Goroutines, NEW th \in DOMAIN threads,
         NEW k \in TopicMsgs, TopicEdit(g, th, k)
  PROVE  IInv'
<1> DEFINE d == Update("topicEdit", NoUser, th, k)
<1>1. PICK t \in FindByThread(topics, th) : t.id # 0 /\ Enter(g, d, t, "deliver")
  BY DEF TopicEdit
<1>2. t \in topics /\ th \in Nat
  BY <1>1, FoundByThread DEF IInv
<1>3. d \in Updates /\ d.kind = "topicEdit"
  BY <1>2, BotAssumption DEF Update, Updates, Kinds, TopicKinds
<1> HIDE DEF d
<1> QED BY <1>1, <1>2, <1>3, ActsOnRow DEF TopicEdit

-----------------------------------------------------------------------------
(* The rest of a handler, from the mutex to the deferred Unlock.           *)

LEMMA InHand ==
  ASSUME IInv, NEW g \in Goroutines, pc[g] # "idle"
  PROVE  /\ row[g] \in Topic /\ upd[g] \in Updates /\ pc[g] \in Labels
         /\ Coherent(pc[g], upd[g], row[g])
         /\ Placed(row[g]) /\ Owned(row[g])
<1>1. /\ row[g] \in Topic /\ upd[g] \in Updates /\ pc[g] \in Labels
      /\ Coherent(pc[g], upd[g], row[g])
  BY DEF IInv, Handlers, HandlersTyped
<1> QED BY <1>1 DEF Coherent, RowInHand, ThreadInHand, Copied, Placed, Owned

\* A handler that returns leaves its fate to the tables.
LEMMA Ended ==
  ASSUME IInv, NEW g \in Goroutines, pc[g] # "idle", Return(g), Tables'
  PROVE  IInv'
BY Returned DEF IInv

\* A handler that returns after it dropped rows or links, or nothing at all.
LEMMA EndedFewer ==
  ASSUME IInv, NEW g \in Goroutines, pc[g] # "idle", Return(g),
         topics' \subseteq topics, messages' \subseteq messages,
         UNCHANGED <<nextId, threads, captchas, now>>
  PROVE  IInv'
BY FewerRows, Ended DEF IInv

\* A handler that returns after it saved a form of its row, or dropped it.
LEMMA EndedSaved ==
  ASSUME IInv, NEW g \in Goroutines, pc[g] # "idle", Return(g),
         NEW t \in Topic, t.id # 0, t.id = row[g].id, t.user = row[g].user,
         t.thread \in {0, row[g].thread},
         topics' = Saved(topics, t) \/ topics' \subseteq topics,
         messages' \subseteq messages,
         UNCHANGED <<nextId, threads, captchas, now>>
  PROVE  IInv'
<1>1. Placed(t) /\ Owned(t)
  BY InHand DEF Placed, Owned
<1>2. Tables'
  BY <1>1, SavedRow, FewerRows DEF IInv
<1> QED BY <1>2, Ended

\* A handler that returns after trying to save or create its row.
LEMMA EndedTried ==
  ASSUME IInv, NEW g \in Goroutines, pc[g] # "idle", Return(g),
         NEW t \in Topic, t.id = row[g].id, t.user = row[g].user,
         t.thread \in {0, row[g].thread},
         TrySave(t), messages' \subseteq messages,
         UNCHANGED <<threads, captchas, now>>
  PROVE  IInv'
<1>1. Placed(t) /\ Owned(t)
  BY InHand DEF Placed, Owned
<1>2. Tables'
  BY <1>1, TriedRow DEF IInv
<1> QED BY <1>2, Ended

LEMMA SaveCaptchaStep ==
  ASSUME IInv, NEW g \in Goroutines, SaveCaptcha(g)
  PROVE  IInv'
<1> DEFINE t == [row[g] EXCEPT !.sent = now, !.verification = "NotCompleted"]
<1>1. /\ t \in Topic /\ t.id = row[g].id /\ t.user = row[g].user
      /\ t.thread = row[g].thread
  BY InHand DEF SaveCaptcha, Topic, Verification, IInv, Tables, TablesTyped
<1>2. TrySave(t) /\ Return(g) /\ pc[g] = "saveCaptcha"
      /\ UNCHANGED <<messages, threads, captchas, now>>
  BY DEF SaveCaptcha
<1> HIDE DEF t
<1> QED BY <1>1, <1>2, EndedTried

LEMMA CheckAnswerStep ==
  ASSUME IInv, NEW g \in Goroutines, CheckAnswer(g)
  PROVE  IInv'
<1> DEFINE t == [Spent(row[g]) EXCEPT !.verification = "Completed"]
<1>1. /\ row[g] \in Topic /\ row[g].id # 0
  BY InHand DEF CheckAnswer, Coherent, RowInHand, MayCreate
<1>2. /\ t \in Topic /\ t.id = row[g].id /\ t.user = row[g].user
      /\ t.thread = row[g].thread
  BY <1>1 DEF Spent, Topic, Verification
<1>3. /\ topics' = Saved(topics, t) \/ topics' = topics
      /\ Return(g) /\ pc[g] = "check"
      /\ UNCHANGED <<nextId, messages, threads, captchas, now>>
  BY DEF CheckAnswer, Try
<1> HIDE DEF t
<1> QED BY <1>1, <1>2, <1>3, EndedSaved

LEMMA TerminateTopicStep ==
  ASSUME IInv, NEW g \in Goroutines, TerminateTopic(g)
  PROVE  IInv'
<1> DEFINE t == [row[g] EXCEPT !.thread = 0]
<1>1. /\ row[g] \in Topic /\ row[g].id # 0
  BY InHand DEF TerminateTopic, Coherent, RowInHand, MayCreate
<1>2. /\ t \in Topic /\ t.id = row[g].id /\ t.user = row[g].user
      /\ t.thread = 0
  BY <1>1 DEF Topic
<1>3. /\ topics' = Saved(topics, t) \/ topics' \subseteq topics
      /\ messages' \subseteq messages
      /\ Return(g) /\ pc[g] = "terminate"
      /\ UNCHANGED <<nextId, threads, captchas, now>>
  BY DEF TerminateTopic, Try, AfterTerminate, Deleted, Purged
<1> HIDE DEF t
<1> QED BY <1>1, <1>2, <1>3, EndedSaved

LEMMA UnbanTopicStep ==
  ASSUME IInv, NEW g \in Goroutines, UnbanTopic(g)
  PROVE  IInv'
<1> DEFINE t == [row[g] EXCEPT !.ban = FALSE, !.verification = "Completed",
                              !.challenge = 0, !.sent = 0]
<1>1. /\ row[g] \in Topic /\ row[g].id # 0
  BY InHand DEF UnbanTopic, Coherent, RowInHand, MayCreate
<1>2. /\ t \in Topic /\ t.id = row[g].id /\ t.user = row[g].user
      /\ t.thread = row[g].thread
  BY <1>1 DEF Topic, Verification
<1>3. /\ topics' = Saved(topics, t) \/ topics' \subseteq topics
      /\ Return(g) /\ pc[g] = "unban"
      /\ UNCHANGED <<nextId, messages, threads, captchas, now>>
  BY DEF UnbanTopic, Try, AfterUnban, Deleted
<1> HIDE DEF t
<1> QED BY <1>1, <1>2, <1>3, EndedSaved

LEMMA FlagBanStep ==
  ASSUME IInv, NEW g \in Goroutines, FlagBan(g)
  PROVE  IInv'
<1> DEFINE t == [row[g] EXCEPT !.ban = (upd[g].kind = "closed")]
<1>1. /\ row[g] \in Topic /\ row[g].id # 0
  BY InHand DEF FlagBan, Coherent, RowInHand, MayCreate
<1>2. /\ t \in Topic /\ t.id = row[g].id /\ t.user = row[g].user
      /\ t.thread = row[g].thread
  BY <1>1 DEF Topic
<1>3. /\ topics' = Saved(topics, t) \/ topics' = topics
      /\ Return(g) /\ pc[g] = "flag"
      /\ UNCHANGED <<nextId, messages, threads, captchas, now>>
  BY DEF FlagBan, Try
<1> HIDE DEF t
<1> QED BY <1>1, <1>2, <1>3, EndedSaved

LEMMA BanUserStep ==
  ASSUME IInv, NEW g \in Goroutines, BanUser(g)
  PROVE  IInv'
<1> DEFINE t == Banned([row[g] EXCEPT !.thread = 0])
<1>1. /\ t \in Topic /\ t.id = row[g].id /\ t.user = row[g].user
      /\ t.thread = 0
  BY InHand DEF BanUser, Banned, Topic, Verification
<1>2. TrySave(t) /\ Return(g) /\ pc[g] = "ban" /\ messages' \subseteq messages
      /\ UNCHANGED <<threads, captchas, now>>
  BY DEF BanUser, Try, Purged
<1> HIDE DEF t
<1> QED BY <1>1, <1>2, EndedTried

LEMMA BanTopicStep ==
  ASSUME IInv, NEW g \in Goroutines, BanTopic(g)
  PROVE  IInv'
<1> DEFINE t == Banned([row[g] EXCEPT !.thread = 0])
<1>1. /\ t \in Topic /\ t.id = row[g].id /\ t.user = row[g].user
      /\ t.thread = 0
  BY InHand DEF BanTopic, Banned, Topic, Verification
<1>2. /\ Return(g) /\ pc[g] = "ban" /\ messages' \subseteq messages
      /\ UNCHANGED <<threads, captchas, now>>
      /\ SaveTopic(t) \/ UNCHANGED db
  BY DEF BanTopic, Try, Purged, db
<1> HIDE DEF t
<1>3. CASE SaveTopic(t)
  BY <1>1, <1>2, <1>3, EndedTried DEF TrySave
<1>4. CASE UNCHANGED db
  BY <1>2, <1>4, EndedFewer DEF db
<1> QED BY <1>2, <1>3, <1>4

LEMMA RecordStep ==
  ASSUME IInv, NEW g \in Goroutines, Record(g)
  PROVE  IInv'
<1> DEFINE m == Link(upd[g], row[g])
<1>1. /\ Return(g) /\ pc[g] = "record"
      /\ UNCHANGED <<topics, nextId, threads, captchas, now>>
      /\ messages' = messages \cup {m} \/ messages' = messages
  BY DEF Record, Try
<1>2. /\ row[g] \in Topic /\ upd[g] \in Updates /\ Placed(row[g])
      /\ Coherent("record", upd[g], row[g])
  BY <1>1, InHand
<1>3. /\ m.user = row[g].user /\ m.thread = row[g].thread
      /\ m.topic = row[g].id /\ m.key = upd[g].key /\ m \in Msg
      /\ m.thread \in DOMAIN threads /\ threads[m.thread].owner = m.user
  BY <1>2 DEF Coherent, UpdateInHand, ThreadInHand, RowInHand, Relaying, Link,
              Msg, Topic
<1>4. m.topic < nextId /\ \A r \in topics : r.id = m.topic => r.user = m.user
  BY <1>2, <1>3 DEF Placed, IInv, Tables, TablesTyped, RowKeys, Topic
<1> HIDE DEF m
<1>5. TablesTyped' /\ RowKeys' /\ UniqueUser' /\ ThreadOwner'
  BY <1>1, <1>3 DEF IInv, Tables, TablesTyped, RowKeys, UniqueUser, ThreadOwner
<1>6. Links'
  BY <1>1, <1>3, <1>4 DEF IInv, Tables, Links
<1> QED BY <1>1, <1>5, <1>6, Ended DEF Tables

\* A handler that goes on after a call that wrote no table.
LEMMA Onward ==
  ASSUME IInv, NEW g \in Goroutines, pc[g] # "idle",
         NEW t \in Topic, NEW l \in Labels, l # "idle", Goto(g, l, t),
         Grown, UNCHANGED <<db, captchas, now>>,
         Coherent(pc[g], upd[g], row[g])'
  PROVE  IInv'
<1>1. Tables'
  BY MoreThreads DEF IInv
<1>2. Handlers'
  BY Went DEF IInv
<1> QED BY <1>1, <1>2 DEF IInv

\* What Goto leaves in the variables of the handler.
LEMMA Gone ==
  ASSUME IInv, NEW g \in Goroutines, NEW l, NEW t, Goto(g, l, t)
  PROVE  pc'[g] = l /\ row'[g] = t /\ upd'[g] = upd[g]
BY DEF IInv, Handlers, HandlersTyped, Goto

\* Threads that stay as they are have grown too.
LEMMA SameGrown == ASSUME Tables, UNCHANGED threads PROVE Grown
BY DEF Tables, TablesTyped, Grown

LEMMA CreateThreadStep ==
  ASSUME IInv, NEW g \in Goroutines, CreateThread(g)
  PROVE  IInv'
<1>1. pc[g] = "create" /\ UNCHANGED <<db, captchas, now>>
  BY DEF CreateThread
<1>2. /\ row[g] \in Topic /\ Coherent("create", upd[g], row[g])
      /\ threads \in Seq(Thread)
  BY <1>1, InHand DEF IInv, Tables, TablesTyped
<1>3. CASE Return(g) /\ UNCHANGED threads
  BY <1>1, <1>3, EndedFewer DEF db
<1>4. CASE /\ threads' = Append(threads, [owner |-> upd[g].user, live |-> TRUE])
           /\ Goto(g, "saveThread", [row[g] EXCEPT !.thread = Len(threads) + 1])
  <2> DEFINE n == [owner |-> upd[g].user, live |-> TRUE]
             t == [row[g] EXCEPT !.thread = Len(threads) + 1]
  <2>1. n \in Thread /\ n.owner = row[g].user
    BY <1>2 DEF Thread, Coherent, UpdateInHand, RowInHand
  <2>2. /\ Grown /\ Len(threads) + 1 \in DOMAIN threads'
        /\ Len(threads) + 1 \in Nat \ {0}
        /\ threads'[Len(threads) + 1].owner = row[g].user
    BY <1>2, <1>4, <2>1, AppendGrown
  <2>3. /\ t \in Topic /\ t.id = row[g].id /\ t.user = row[g].user
        /\ t.thread = Len(threads) + 1 /\ t.ban = row[g].ban
        /\ t.verification = row[g].verification
    BY <1>2, <2>2 DEF Topic
  <2>4. pc'[g] = "saveThread" /\ row'[g] = t /\ upd'[g] = upd[g]
    BY <1>4, Gone
  <2>5. Goto(g, "saveThread", t)
    BY <1>4
  <2> HIDE DEF t, n
  <2>6. Coherent(pc[g], upd[g], row[g])'
    <3>1. RowInHand(pc[g], upd[g], row[g])'
      BY <1>1, <1>2, <2>3, <2>4
      DEF Coherent, RowInHand, MayCreate, Copied, db
    <3>2. ThreadInHand(pc[g], upd[g], row[g])'
      BY <1>2, <2>2, <2>3, <2>4 DEF Coherent, ThreadInHand, UpdateInHand, Relaying
    <3> QED BY <3>1, <3>2, <1>2, <2>3, <2>4
            DEF Coherent, UpdateInHand, Allowed, Relaying
  <2> QED BY <1>1, <2>2, <2>3, <2>5, <2>6, Onward DEF Labels
<1> QED BY <1>3, <1>4 DEF CreateThread

LEMMA RelayStep ==
  ASSUME IInv, NEW g \in Goroutines, Relay(g)
  PROVE  IInv'
<1>1. pc[g] = "relay" /\ UNCHANGED <<db, threads, captchas, now>>
  BY DEF Relay
<1>2. /\ row[g] \in Topic /\ Coherent("relay", upd[g], row[g]) /\ Grown
  BY <1>1, InHand, SameGrown DEF IInv
<1>3. CASE Return(g)
  BY <1>1, <1>3, EndedFewer DEF db
<1>4. CASE Goto(g, "record", row[g])
  <2>1. pc'[g] = "record" /\ row'[g] = row[g] /\ upd'[g] = upd[g]
    BY <1>4, Gone
  <2>2. Coherent(pc[g], upd[g], row[g])'
    BY <1>1, <1>2, <2>1
    DEF Coherent, RowInHand, ThreadInHand, UpdateInHand, Allowed, MayCreate,
        Copied, Relaying, db
  <2> QED BY <1>1, <1>2, <1>4, <2>2, Onward DEF Labels
<1>5. CASE Goto(g, "create", [row[g] EXCEPT !.thread = 0])
  <2> DEFINE t == [row[g] EXCEPT !.thread = 0]
  <2>1. /\ t \in Topic /\ t.id = row[g].id /\ t.user = row[g].user
        /\ t.thread = 0 /\ t.ban = row[g].ban
        /\ t.verification = row[g].verification
    BY <1>2 DEF Topic
  <2>2. Goto(g, "create", t)
    BY <1>5
  <2> HIDE DEF t
  <2>3. pc'[g] = "create" /\ row'[g] = t /\ upd'[g] = upd[g]
    BY <2>2, Gone
  <2>4. Coherent(pc[g], upd[g], row[g])'
    BY <1>1, <1>2, <2>1, <2>3
    DEF Coherent, RowInHand, ThreadInHand, UpdateInHand, Allowed, MayCreate,
        Copied, Relaying, db
  <2> QED BY <1>1, <1>2, <2>1, <2>2, <2>4, Onward DEF Labels
<1> QED BY <1>3, <1>4, <1>5 DEF Relay

LEMMA DeleteThreadStep ==
  ASSUME IInv, NEW g \in Goroutines, DeleteThread(g)
  PROVE  IInv'
<1>1. PICK l \in {"ban", "terminate"} : Goto(g, l, row[g])
  BY DEF DeleteThread
<1>2. pc[g] = "delete" /\ UNCHANGED <<db, captchas, now>>
  BY DEF DeleteThread
<1>3. /\ row[g] \in Topic /\ Coherent("delete", upd[g], row[g])
  BY <1>2, InHand
<1>4. Grown
  BY WithoutGrown, SameGrown DEF DeleteThread, IInv, Tables, TablesTyped
<1>5. pc'[g] = l /\ row'[g] = row[g] /\ upd'[g] = upd[g]
  BY <1>1, Gone
<1>6. Coherent(pc[g], upd[g], row[g])'
  BY <1>2, <1>3, <1>4, <1>5
  DEF Coherent, RowInHand, ThreadInHand, UpdateInHand, Allowed, MayCreate,
      Copied, Relaying, Grown, db
<1> QED BY <1>1, <1>2, <1>3, <1>4, <1>6, Onward DEF Labels

LEMMA DeliverStep ==
  ASSUME IInv, NEW g \in Goroutines, Deliver(g)
  PROVE  IInv'
<1>1. pc[g] = "deliver" /\ UNCHANGED <<db, threads, captchas, now>>
  BY DEF Deliver
<1>2. /\ row[g] \in Topic /\ Coherent("deliver", upd[g], row[g]) /\ Grown
  BY <1>1, InHand, SameGrown DEF IInv
<1>3. CASE Return(g)
  BY <1>1, <1>3, EndedFewer DEF db
<1>4. ASSUME NEW l \in {"record", "delete"}, Goto(g, l, row[g]),
             l = "record" => upd[g].kind = "reply"
      PROVE  IInv'
  <2>1. pc'[g] = l /\ row'[g] = row[g] /\ upd'[g] = upd[g]
    BY <1>4, Gone
  <2>2. Coherent(pc[g], upd[g], row[g])'
    BY <1>1, <1>2, <1>4, <2>1
    DEF Coherent, RowInHand, ThreadInHand, UpdateInHand, Allowed, MayCreate,
        Copied, Relaying, db
  <2> QED BY <1>1, <1>2, <1>4, <2>2, Onward DEF Labels
<1> QED BY <1>3, <1>4 DEF Deliver

\* Steps that save a row and go on: the saved row is the copy of the new
\* local row.
LEMMA ConsumeChallengeStep ==
  ASSUME IInv, NEW g \in Goroutines, ConsumeChallenge(g)
  PROVE  IInv'
<1>1. pc[g] = "consume" /\ UNCHANGED <<nextId, messages, threads, captchas, now>>
  BY DEF ConsumeChallenge
<1>2. /\ row[g] \in Topic /\ Coherent("consume", upd[g], row[g])
      /\ Placed(row[g]) /\ Owned(row[g]) /\ row[g].id # 0
  BY <1>1, InHand DEF Coherent, RowInHand, MayCreate
<1>3. CASE Return(g) /\ UNCHANGED topics
  BY <1>1, <1>3, EndedFewer
<1>4. CASE topics' = Saved(topics, Spent(row[g])) /\ Goto(g, "check", row[g])
  <2> DEFINE s == Spent(row[g])
  <2>1. /\ s \in Topic /\ s.id = row[g].id /\ s.user = row[g].user
        /\ s.thread = row[g].thread /\ s.ban = row[g].ban
        /\ s.verification = row[g].verification
        /\ s.challenge = 0 /\ s.sent = 0
    BY <1>2 DEF Spent, Topic
  <2>2. topics' = Saved(topics, s)
    BY <1>4
  <2> HIDE DEF s
  <2>3. Tables'
    BY <1>1, <1>2, <2>1, <2>2, SavedRow DEF Placed, Owned, IInv
  <2>4. pc'[g] = "check" /\ row'[g] = row[g] /\ upd'[g] = upd[g]
    BY <1>4, Gone
  <2>5. s \in topics'
    BY <2>2 DEF Saved
  <2>6. Coherent(pc[g], upd[g], row[g])'
    BY <1>1, <1>2, <2>1, <2>4, <2>5
    DEF Coherent, RowInHand, ThreadInHand, UpdateInHand, Allowed, Copied, Relaying
  <2>7. Handlers'
    BY <1>1, <1>2, <1>4, <2>6, Went DEF IInv, Labels
  <2> QED BY <2>3, <2>7 DEF IInv
<1> QED BY <1>3, <1>4 DEF ConsumeChallenge

LEMMA SaveThreadStep ==
  ASSUME IInv, NEW g \in Goroutines, SaveThread(g)
  PROVE  IInv'
<1>1. pc[g] = "saveThread" /\ UNCHANGED <<messages, threads, captchas, now>>
  BY DEF SaveThread
<1>2. /\ row[g] \in Topic /\ Coherent("saveThread", upd[g], row[g])
      /\ Placed(row[g]) /\ Owned(row[g])
  BY <1>1, InHand
<1>3. CASE SaveTopic(row[g]) /\ Introduced(g, Stored(row[g]))
  <2> DEFINE s == Stored(row[g])
  <2>1. Tables'
    BY <1>1, <1>2, <1>3, TriedRow DEF TrySave, IInv
  <2>2. /\ s \in Topic /\ s.id # 0 /\ s.user = row[g].user
        /\ s.thread = row[g].thread /\ s.ban = row[g].ban
        /\ s.verification = row[g].verification
        /\ row[g].id # 0 => s.id = row[g].id
    BY <1>2 DEF Stored, Topic, IInv, Tables, TablesTyped
  <2>3. s \in topics'
    BY <1>3 DEF SaveTopic, Saved
  <2>4. Return(g) \/ Goto(g, "relay", s)
    BY <1>3 DEF Introduced
  <2> HIDE DEF s
  <2>5. CASE Return(g)
    BY <1>1, <2>1, <2>5, Ended
  <2>6. CASE Goto(g, "relay", s)
    <3>1. pc'[g] = "relay" /\ row'[g] = s /\ upd'[g] = upd[g]
      BY <2>6, Gone
    <3>2. Coherent(pc[g], upd[g], row[g])'
      BY <1>1, <1>2, <2>2, <2>3, <3>1
      DEF Coherent, RowInHand, ThreadInHand, UpdateInHand, Allowed, Copied, Relaying
    <3>3. Handlers'
      BY <1>1, <2>2, <2>6, <3>2, Went DEF IInv, Labels
    <3> QED BY <2>1, <3>3 DEF IInv
  <2> QED BY <2>4, <2>5, <2>6
<1>4. CASE SaveFails /\ Introduced(g, row[g])
  <2>1. UNCHANGED <<db, threads, captchas, now>> /\ Grown
    BY <1>1, <1>4, SameGrown DEF SaveFails, db, IInv
  <2>2. CASE Return(g)
    BY <1>1, <2>1, <2>2, EndedFewer DEF db
  <2>3. CASE Goto(g, "relay", row[g])
    <3>1. pc'[g] = "relay" /\ row'[g] = row[g] /\ upd'[g] = upd[g]
      BY <2>3, Gone
    <3>2. Coherent(pc[g], upd[g], row[g])'
      BY <1>1, <1>2, <2>1, <3>1
      DEF Coherent, RowInHand, ThreadInHand, UpdateInHand, Allowed, Copied,
          Relaying, MayCreate, db
    <3> QED BY <1>1, <1>2, <2>1, <2>3, <3>2, Onward DEF Labels
  <2> QED BY <1>4, <2>2, <2>3 DEF Introduced
<1> QED BY <1>3, <1>4 DEF SaveThread

LEMMA AdmitByReplyStep ==
  ASSUME IInv, NEW g \in Goroutines, AdmitByReply(g)
  PROVE  IInv'
<1> DEFINE s == [row[g] EXCEPT !.verification = "Completed"]
<1>1. pc[g] = "admit" /\ UNCHANGED <<messages, threads, captchas, now>>
      /\ TrySave(s) /\ Goto(g, "deliver", s)
  BY DEF AdmitByReply
<1>2. /\ row[g] \in Topic /\ Coherent("admit", upd[g], row[g])
      /\ Placed(row[g]) /\ Owned(row[g]) /\ row[g].id # 0
  BY <1>1, InHand DEF Coherent, RowInHand, MayCreate
<1>3. /\ s \in Topic /\ s.id = row[g].id /\ s.user = row[g].user
      /\ s.thread = row[g].thread /\ s.ban = row[g].ban
  BY <1>2 DEF Topic, Verification
<1> HIDE DEF s
<1>4. Tables'
  BY <1>1, <1>2, <1>3, TriedRow DEF Placed, Owned, IInv
<1>5. pc'[g] = "deliver" /\ row'[g] = s /\ upd'[g] = upd[g]
  BY <1>1, Gone
<1>6. \E r \in topics' : r.id = s.id /\ r.user = s.user /\ r.ban = s.ban
  <2>1. CASE SaveTopic(s)
    BY <2>1, <1>2, <1>3 DEF SaveTopic, Saved, Stored
  <2>2. CASE SaveFails
    BY <2>2, <1>2, <1>3 DEF SaveFails, Coherent, RowInHand, Copied
  <2> QED BY <1>1, <2>1, <2>2 DEF TrySave
<1>7. Coherent(pc[g], upd[g], row[g])'
  BY <1>1, <1>2, <1>3, <1>5, <1>6
  DEF Coherent, RowInHand, ThreadInHand, UpdateInHand, Allowed, Copied, Relaying
<1>8. Handlers'
  BY <1>1, <1>3, <1>7, Went DEF IInv, Labels
<1> QED BY <1>4, <1>8 DEF IInv

-----------------------------------------------------------------------------
(* The jobs and the environment.                                           *)

\* The nightly UPDATE clears challenges and touches no other column, so that
\* a handler's copy of a row still fits.
LEMMA VerificationCleanupStep ==
  ASSUME IInv, VerificationCleanup
  PROVE  IInv'
<1> DEFINE F(r) == IF /\ r.verification = "NotCompleted" /\ r.sent # 0
                      /\ r.sent <= now + CaptchaDuration
                     THEN [r EXCEPT !.challenge = 0, !.sent = 0] ELSE r
<1>1. UNCHANGED <<nextId, messages, threads, captchas, now,
                  topicLock, pc, upd, row>>
  BY DEF VerificationCleanup, handlers
<1>2. topics' = {F(r) : r \in topics}
  BY DEF VerificationCleanup, AfterCleanup
<1>3. \A r \in topics :
        /\ F(r) \in Topic /\ F(r).id = r.id
        /\ F(r).user = r.user /\ F(r).thread = r.thread
        /\ F(r).ban = r.ban /\ F(r).verification = r.verification
        /\ r.challenge = 0 => F(r).challenge = 0
        /\ r.sent = 0 => F(r).sent = 0
  BY DEF Topic, IInv, Tables, TablesTyped
<1> HIDE DEF F
<1>4. Tables'
  <2>1. TablesTyped'
    BY <1>1, <1>2, <1>3 DEF IInv, Tables, TablesTyped
  <2>2. RowKeys' /\ UniqueUser'
    BY <1>1, <1>2, <1>3 DEF IInv, Tables, RowKeys, UniqueUser
  <2>3. ThreadOwner'
    BY <1>1, <1>2, <1>3 DEF IInv, Tables, ThreadOwner
  <2>4. Links'
    BY <1>1, <1>2, <1>3 DEF IInv, Tables, Links
  <2> QED BY <2>1, <2>2, <2>3, <2>4 DEF Tables
<1>5. ASSUME NEW g \in Goroutines, pc[g] # "idle"
      PROVE  Coherent(pc[g], upd[g], row[g])'
  <2>1. Coherent(pc[g], upd[g], row[g])
    BY <1>5 DEF IInv, Handlers
  <2>2. RowInHand(pc[g], upd[g], row[g])'
    <3>1. row[g].id # 0 => Copied(pc[g], upd[g], row[g])'
      BY <1>1, <1>2, <1>3, <2>1 DEF Coherent, RowInHand, Copied
    <3> QED BY <1>1, <1>2, <1>3, <2>1, <3>1 DEF Coherent, RowInHand
  <2> QED BY <1>1, <2>1, <2>2
          DEF Coherent, ThreadInHand, UpdateInHand, Allowed, Relaying
<1>6. Handlers'
  BY <1>1, <1>5 DEF IInv, Handlers, HandlersTyped, Locking
<1> QED BY <1>4, <1>6 DEF IInv

\* Handlers see nothing of a step that leaves the rows and the owners alone.
LEMMA HandlersFrame ==
  ASSUME Handlers, Grown, UNCHANGED <<topics, handlers>>
  PROVE  Handlers'
<1>1. ASSUME NEW g \in Goroutines, pc[g] # "idle"
      PROVE  Coherent(pc[g], upd[g], row[g])'
  BY <1>1 DEF Handlers, Coherent, RowInHand, ThreadInHand, UpdateInHand,
              Allowed, Copied, Relaying, Grown, handlers
<1> QED BY <1>1 DEF Handlers, HandlersTyped, Locking, handlers

LEMMA EnvironmentStep ==
  ASSUME IInv, Environment
  PROVE  IInv'
<1> SUFFICES ASSUME MessageCleanup \/ Crash \/ Tick
                    \/ \E th \in DOMAIN threads : ThreadRemoved(th)
             PROVE  IInv'
  BY VerificationCleanupStep DEF Environment
<1>1. CASE MessageCleanup
  <2>1. Tables'
    BY <1>1, FewerRows DEF MessageCleanup, IInv
  <2>2. Handlers'
    BY <1>1, HandlersFrame, SameGrown DEF MessageCleanup, IInv
  <2> QED BY <2>1, <2>2 DEF IInv
<1>2. CASE Crash
  <2>1. Tables'
    BY <1>2, FewerRows DEF Crash, IInv, db
  <2>2. \A g \in Goroutines : pc'[g] = "idle"
    BY <1>2 DEF Crash
  <2>3. HandlersTyped'
    BY <1>2, Blank DEF Crash, HandlersTyped, Labels
  <2>4. Locking'
    BY <1>2, <2>2, BotAssumption DEF Crash, Locking
  <2> QED BY <2>1, <2>2, <2>3, <2>4 DEF IInv, Handlers
<1>3. CASE Tick
  <2>1. Tables'
    BY <1>3 DEF Tick, IInv, Tables, TablesTyped, RowKeys, UniqueUser,
                ThreadOwner, Links, db
  <2>2. Handlers'
    BY <1>3, HandlersFrame, SameGrown DEF Tick, IInv, db
  <2> QED BY <2>1, <2>2 DEF IInv
<1>4. CASE \E th \in DOMAIN threads : ThreadRemoved(th)
  <2>1. Grown /\ UNCHANGED <<db, captchas, now, handlers>>
    BY <1>4, WithoutGrown DEF ThreadRemoved, IInv, Tables, TablesTyped
  <2>2. Tables' /\ Handlers'
    BY <2>1, MoreThreads, HandlersFrame DEF IInv, db
  <2> QED BY <2>2 DEF IInv
<1> QED BY <1>1, <1>2, <1>3, <1>4

-----------------------------------------------------------------------------
(* The invariant, and the properties it implies.                           *)

LEMMA InitInvariant == Init => IInv
<1> SUFFICES ASSUME Init PROVE IInv
  OBVIOUS
<1>1. Tables
  BY DEF Init, Tables, TablesTyped, RowKeys, UniqueUser, ThreadOwner, Links
<1>2. Handlers
  BY Blank, BotAssumption DEF Init, Handlers, HandlersTyped, Locking, Labels
<1> QED BY <1>1, <1>2 DEF IInv

LEMMA StepInvariant == IInv /\ [Next]_vars => IInv'
<1> SUFFICES ASSUME IInv, [Next]_vars PROVE IInv'
  OBVIOUS
<1>1. ASSUME NEW g \in Goroutines, NEW u \in Users, FromUser(g, u)
      PROVE  IInv'
  BY <1>1, SendCaptchaStep, AcceptMessageStep, AnswerStep, KickedStep
  DEF FromUser
<1>2. ASSUME NEW g \in Goroutines, NEW u \in Users, FromGeneral(g, u)
      PROVE  IInv'
  BY <1>2, GeneralBanStep, GeneralUnbanStep, GeneralTerminateStep
  DEF FromGeneral
<1>3. ASSUME NEW g \in Goroutines, NEW th \in DOMAIN threads, FromTopic(g, th)
      PROVE  IInv'
  BY <1>3, TopicCommandStep, ReplyStep, TopicEditStep DEF FromTopic
<1>4. ASSUME NEW g \in Goroutines, Continue(g) PROVE IInv'
  BY <1>4, SaveCaptchaStep, CreateThreadStep, SaveThreadStep, RelayStep,
     RecordStep, ConsumeChallengeStep, CheckAnswerStep, DeleteThreadStep,
     TerminateTopicStep, BanUserStep, BanTopicStep, UnbanTopicStep,
     FlagBanStep, AdmitByReplyStep, DeliverStep
  DEF Continue
<1>5. CASE UNCHANGED vars
  <2>1. Tables'
    BY <1>5, FewerRows DEF vars, IInv
  <2>2. Handlers'
    BY <1>5, HandlersFrame, SameGrown DEF vars, handlers, IInv
  <2> QED BY <2>1, <2>2 DEF IInv
<1> QED BY <1>1, <1>2, <1>3, <1>4, <1>5, EnvironmentStep DEF Next

\* IInv holds in every reachable state, for any number of users, handlers,
\* messages and challenges, whatever fails: it is an invariant of bot.go's
\* critical sections.
THEOREM Invariance == Spec => []IInv
BY InitInvariant, StepInvariant, PTL DEF Spec

\* Every variable keeps its type.
THEOREM TypeCorrectness == Spec => []TypeOK
<1>1. IInv => TypeOK
  BY DEF IInv, Tables, Handlers, TypeOK
<1> QED BY <1>1, Invariance, PTL

\* No interleaving of handlers, failures and jobs gives a user a second row,
\* without a unique index on topics.user_id.
THEOREM OneRowPerUser == Spec => []UniqueUser
<1>1. IInv => UniqueUser
  BY DEF IInv, Tables
<1> QED BY <1>1, Invariance, PTL

\* A row never names a thread that was made for somebody else, so that what
\* an administrator writes in a thread goes to the user it was made for.
THEOREM ThreadsBelong == Spec => []ThreadOwner
<1>1. IInv => ThreadOwner
  BY DEF IInv, Tables
<1> QED BY <1>1, Invariance, PTL

\* No link between two copies of a message crosses from one user to another.
THEOREM Isolation == Spec => []MessageIsolation
<1>1. IInv => MessageIsolation
  BY DEF IInv, Tables, Links, MessageIsolation
<1> QED BY <1>1, Invariance, PTL

\* A message is on its way into a thread only while the database holds no
\* ban of its user: a ban waits for the handler, and the handler for a ban.
THEOREM BannedStayOut == Spec => []BannedNeverRelayed
<1>1. ASSUME IInv PROVE BannedNeverRelayed
  <2> SUFFICES ASSUME NEW g \in Goroutines, pc[g] \in {"relay", "record"},
                      upd[g].kind = "message",
                      NEW r \in topics, r.user = upd[g].user
               PROVE  ~r.ban
    BY DEF BannedNeverRelayed
  <2>1. Coherent(pc[g], upd[g], row[g])
    BY <1>1, InHand
  <2>2. r.user = row[g].user /\ ~row[g].ban /\ Copied(pc[g], upd[g], row[g])
    BY <2>1 DEF Coherent, UpdateInHand, Allowed, Relaying, RowInHand
  <2> QED BY <1>1, <2>2 DEF Copied, IInv, Tables, UniqueUser
<1> QED BY <1>1, Invariance, PTL

\* A user who is screened each time is relayed only on the strength of a row
\* that is still in the database and says the captcha is solved.
THEOREM ScreeningHolds == Spec => []ScreenedUntilVerified
<1>1. ASSUME IInv PROVE ScreenedUntilVerified
  <2> SUFFICES ASSUME NEW g \in Goroutines, pc[g] \in {"relay", "record"},
                      upd[g].kind = "message",
                      Screening[upd[g].user] = {TRUE}
               PROVE  \E r \in topics : /\ r.user = upd[g].user
                                        /\ r.verification = "Completed"
    BY DEF ScreenedUntilVerified
  <2>1. Coherent(pc[g], upd[g], row[g])
    BY <1>1, InHand
  <2> QED BY <2>1 DEF Coherent, UpdateInHand, Allowed, Relaying, RowInHand, Copied
<1> QED BY <1>1, Invariance, PTL

\* While an answer is judged its challenge is gone from the database, so that
\* no later answer is judged against it.
THEOREM ChallengesSpent == Spec => []OneAnswerPerChallenge
<1>1. ASSUME IInv PROVE OneAnswerPerChallenge
  <2> SUFFICES ASSUME NEW g \in Goroutines, pc[g] = "check",
                      NEW r \in topics, r.user = row[g].user
               PROVE  r.verification = "NotCompleted" /\ r.challenge = 0 /\ r.sent = 0
    BY DEF OneAnswerPerChallenge
  <2>1. Coherent("check", upd[g], row[g])
    BY <1>1, InHand
  <2>2. /\ row[g].verification = "NotCompleted" /\ upd[g].kind # "reply"
        /\ Copied("check", upd[g], row[g])
    BY <2>1 DEF Coherent, Allowed, UpdateInHand, RowInHand, MayCreate
  <2> QED BY <1>1, <2>2 DEF Copied, IInv, Tables, UniqueUser
<1> QED BY <1>1, Invariance, PTL

-----------------------------------------------------------------------------

\* Who writes the table of topics: the handler in the critical section and the
\* nightly job.
LEMMA TableWriters ==
  ASSUME IInv, [Next]_vars
  PROVE  \/ UNCHANGED topics
         \/ VerificationCleanup
         \/ \E g \in Goroutines : topicLock = g /\ Continue(g)
<1>1. ASSUME NEW g \in Goroutines, Continue(g) PROVE topicLock = g
  BY <1>1
  DEF IInv, Handlers, Locking, Continue, SaveCaptcha, CreateThread,
      SaveThread, Relay, Record, ConsumeChallenge, CheckAnswer,
      DeleteThread, TerminateTopic, BanUser, BanTopic, UnbanTopic,
      FlagBan, AdmitByReply, Deliver
<1>2. ASSUME NEW g \in Goroutines, NEW u \in Users,
             FromUser(g, u) \/ FromGeneral(g, u)
      PROVE  UNCHANGED topics
  BY <1>2 DEF FromUser, FromGeneral, SendCaptcha, AcceptMessage, Answer,
              Kicked, GeneralBan, GeneralUnban, GeneralTerminate, db
<1>3. ASSUME NEW g \in Goroutines, NEW th \in DOMAIN threads, FromTopic(g, th)
      PROVE  UNCHANGED topics
  BY <1>3 DEF FromTopic, TopicBan, TopicUnban, TopicTerminate, TopicClosed,
              TopicReopened, Reply, TopicEdit, db
<1>4. CASE MessageCleanup \/ Crash \/ Tick
           \/ \E th \in DOMAIN threads : ThreadRemoved(th)
  BY <1>4 DEF MessageCleanup, Crash, Tick, ThreadRemoved, db
<1>5. CASE UNCHANGED vars
  BY <1>5 DEF vars
<1> QED
  BY <1>1, <1>2, <1>3, <1>4, <1>5 DEF Next, Environment

-----------------------------------------------------------------------------
(* Bans stick: what one step may do to a banned row.                       *)

\* The ban of row r outlives the step.
Lasts(r) == \E s \in topics' : s.id = r.id /\ s.user = r.user /\ s.ban

\* A banned row of the table is the row in hand, with its ban, or another row.
LEMMA BanInHand ==
  ASSUME IInv, NEW g \in Goroutines, pc[g] # "idle", NEW r \in topics, r.ban
  PROVE  r.id # 0 /\ (r.id = row[g].id => r.user = row[g].user /\ row[g].ban)
<1>1. Coherent(pc[g], upd[g], row[g])
  BY InHand
<1> QED BY <1>1 DEF Coherent, RowInHand, Copied, IInv, Tables, TablesTyped, RowKeys

\* Saving the row in hand without lifting its ban lifts no ban.
LEMMA BanSaved ==
  ASSUME IInv, NEW g \in Goroutines, pc[g] # "idle", NEW r \in topics, r.ban,
         NEW t \in Topic, t.id = row[g].id, t.user = row[g].user,
         row[g].ban => t.ban,
         topics' = Saved(topics, t) \/ topics' = topics \/ TrySave(t)
  PROVE  Lasts(r)
<1>1. CASE topics' = Saved(topics, t)
  BY <1>1, BanInHand DEF Lasts, Saved
<1>2. CASE topics' = topics
  BY <1>2 DEF Lasts
<1>3. CASE TrySave(t) /\ t.id # 0
  BY <1>1, <1>2, <1>3 DEF TrySave, SaveFails, SaveTopic, Stored
<1>4. CASE TrySave(t) /\ t.id = 0
  <2>1. r.id # nextId
    BY DEF IInv, Tables, TablesTyped, RowKeys
  <2>2. CASE SaveTopic(t)
    <3> DEFINE n == [t EXCEPT !.id = nextId]
    <3>1. n.id = nextId /\ topics' = {s \in topics : s.id # n.id} \cup {n}
      BY <1>4, <2>2 DEF SaveTopic, Stored, Saved, Topic
    <3> HIDE DEF n
    <3> QED BY <2>1, <3>1 DEF Lasts
  <2> QED BY <1>2, <1>4, <2>2 DEF TrySave, SaveFails
<1> QED BY <1>1, <1>2, <1>3, <1>4

\* No call of a handler lifts a ban, unless it is an administrator's unban.
LEMMA BanKept ==
  ASSUME IInv, NEW g \in Goroutines, Continue(g), NEW r \in topics, r.ban,
         upd[g].kind \notin {"unban", "topicUnban", "reopened"}
  PROVE  Lasts(r)
<1>1. CASE UNCHANGED topics
  BY <1>1 DEF Lasts
<1>2. CASE SaveCaptcha(g)
  <2> DEFINE t == [row[g] EXCEPT !.sent = now, !.verification = "NotCompleted"]
  <2>1. t \in Topic /\ t.id = row[g].id /\ t.user = row[g].user /\ t.ban = row[g].ban
    BY <1>2, InHand DEF SaveCaptcha, Topic, Verification, IInv, Tables, TablesTyped
  <2>2. TrySave(t) /\ pc[g] = "saveCaptcha"
    BY <1>2 DEF SaveCaptcha
  <2> HIDE DEF t
  <2> QED BY <2>1, <2>2, BanSaved
<1>3. CASE SaveThread(g)
  <2>1. row[g] \in Topic /\ TrySave(row[g]) /\ pc[g] = "saveThread"
    BY <1>3, InHand DEF SaveThread, TrySave
  <2> QED BY <2>1, BanSaved
<1>4. CASE ConsumeChallenge(g)
  <2> DEFINE t == Spent(row[g])
  <2>1. t \in Topic /\ t.id = row[g].id /\ t.user = row[g].user /\ t.ban = row[g].ban
    BY <1>4, InHand DEF ConsumeChallenge, Spent, Topic
  <2>2. pc[g] = "consume" /\ (topics' = Saved(topics, t) \/ topics' = topics)
    BY <1>4 DEF ConsumeChallenge
  <2> HIDE DEF t
  <2> QED BY <2>1, <2>2, BanSaved
<1>5. CASE CheckAnswer(g)
  <2> DEFINE t == [Spent(row[g]) EXCEPT !.verification = "Completed"]
  <2>1. t \in Topic /\ t.id = row[g].id /\ t.user = row[g].user /\ t.ban = row[g].ban
    BY <1>5, InHand DEF CheckAnswer, Spent, Topic, Verification
  <2>2. pc[g] = "check" /\ (topics' = Saved(topics, t) \/ topics' = topics)
    BY <1>5 DEF CheckAnswer, Try
  <2> HIDE DEF t
  <2> QED BY <2>1, <2>2, BanSaved
<1>6. CASE TerminateTopic(g)
  <2> DEFINE t == [row[g] EXCEPT !.thread = 0]
  <2>1. t \in Topic /\ t.id = row[g].id /\ t.user = row[g].user /\ t.ban = row[g].ban
    BY <1>6, InHand DEF TerminateTopic, Topic
  <2>2. /\ pc[g] = "terminate"
        /\ \/ topics' = Saved(topics, t) \/ topics' = topics
           \/ ~row[g].ban /\ topics' = Deleted(topics, row[g])
    BY <1>6 DEF TerminateTopic, Try, AfterTerminate, MustRemember
  <2> HIDE DEF t
  <2>3. CASE ~row[g].ban /\ topics' = Deleted(topics, row[g])
    BY <2>2, <2>3, BanInHand DEF Deleted, Lasts
  <2> QED BY <2>1, <2>2, <2>3, BanSaved
<1>7. CASE BanUser(g) \/ BanTopic(g)
  <2> DEFINE t == Banned([row[g] EXCEPT !.thread = 0])
  <2>1. t \in Topic /\ t.id = row[g].id /\ t.user = row[g].user /\ t.ban
    BY <1>7, InHand DEF BanUser, BanTopic, Banned, Topic, Verification
  <2>2. pc[g] = "ban" /\ (TrySave(t) \/ topics' = topics)
    BY <1>7 DEF BanUser, BanTopic, TrySave, db
  <2> HIDE DEF t
  <2> QED BY <2>1, <2>2, BanSaved
<1>8. CASE FlagBan(g) /\ upd[g].kind = "closed"
  <2> DEFINE t == [row[g] EXCEPT !.ban = TRUE]
  <2>1. t \in Topic /\ t.id = row[g].id /\ t.user = row[g].user /\ t.ban
    BY <1>8, InHand DEF FlagBan, Topic
  <2>2. pc[g] = "flag" /\ (topics' = Saved(topics, t) \/ topics' = topics)
    BY <1>8 DEF FlagBan, Try
  <2> HIDE DEF t
  <2> QED BY <2>1, <2>2, BanSaved
<1>9. CASE AdmitByReply(g)
  <2> DEFINE t == [row[g] EXCEPT !.verification = "Completed"]
  <2>1. t \in Topic /\ t.id = row[g].id /\ t.user = row[g].user /\ t.ban = row[g].ban
    BY <1>9, InHand DEF AdmitByReply, Topic, Verification
  <2>2. pc[g] = "admit" /\ TrySave(t)
    BY <1>9 DEF AdmitByReply
  <2> HIDE DEF t
  <2> QED BY <2>1, <2>2, BanSaved
<1>10. ~UnbanTopic(g) /\ (FlagBan(g) => upd[g].kind = "closed")
  BY InHand DEF UnbanTopic, FlagBan, Coherent, UpdateInHand
<1> QED
  BY <1>1, <1>2, <1>3, <1>4, <1>5, <1>6, <1>7, <1>8, <1>9, <1>10
  DEF Continue, CreateThread, Relay, Record, DeleteThread, Deliver, db

\* A ban is lifted by an administrator's unban and by nothing else: not by
\* blocking the bot, a captcha, a termination, a failure or a nightly job.
THEOREM BansStick == Spec => BanSticks
<1> DEFINE Sticks(r) ==
      r.ban => \/ \E s \in topics' : s.id = r.id /\ s.user = r.user /\ s.ban
               \/ AtWork({"unban", "topicUnban", "reopened"})
<1>1. ASSUME IInv, [Next]_vars, NEW r \in topics
      PROVE  Sticks(r)
  <2>1. CASE UNCHANGED topics
    BY <2>1
  <2>2. CASE VerificationCleanup
    <3> DEFINE c == [r EXCEPT !.challenge = 0, !.sent = 0]
    <3>1. c.id = r.id /\ c.user = r.user /\ c.ban = r.ban
      BY <1>1 DEF Topic, IInv, Tables, TablesTyped
    <3>2. r \in topics' \/ c \in topics'
      BY <2>2 DEF VerificationCleanup, AfterCleanup
    <3> QED BY <3>1, <3>2
  <2>3. ASSUME NEW g \in Goroutines, topicLock = g, Continue(g) PROVE Sticks(r)
    BY <1>1, <2>3, BanKept DEF AtWork, Lasts
  <2> HIDE DEF Sticks
  <2> QED BY <1>1, <2>1, <2>2, <2>3, TableWriters
<1>2. IInv /\ [Next]_vars =>
        [\A r \in topics :
           r.ban => \/ \E s \in topics' : s.id = r.id /\ s.user = r.user /\ s.ban
                    \/ AtWork({"unban", "topicUnban", "reopened"})]_vars
  BY <1>1
<1> QED BY <1>2, Invariance, PTL DEF Spec, BanSticks

-----------------------------------------------------------------------------
(* A spent challenge is the last one.                                      *)

\* Row r still says that a captcha was sent and not solved.
StillPending(r) ==
  \E s \in topics' : s.id = r.id /\ s.verification = "NotCompleted"

\* A pending row is the row in hand, which is pending as well unless an
\* administrator's reply is verifying it, or another row.
LEMMA PendingInHand ==
  ASSUME IInv, NEW g \in Goroutines, pc[g] # "idle", upd[g].kind # "reply",
         NEW r \in topics, r.verification = "NotCompleted"
  PROVE  r.id # 0 /\ (r.id = row[g].id => row[g].verification = "NotCompleted")
<1>1. Coherent(pc[g], upd[g], row[g])
  BY InHand
<1> QED BY <1>1 DEF Coherent, RowInHand, Copied, IInv, Tables, TablesTyped, RowKeys

\* Saving the row in hand without giving up its pending state.
LEMMA PendingSaved ==
  ASSUME IInv, NEW g \in Goroutines, pc[g] # "idle", upd[g].kind # "reply",
         NEW r \in topics, r.verification = "NotCompleted",
         NEW t \in Topic, t.id = row[g].id,
         row[g].verification = "NotCompleted" => t.verification = "NotCompleted",
         topics' = Saved(topics, t) \/ topics' = topics \/ TrySave(t)
  PROVE  StillPending(r)
<1>1. CASE topics' = Saved(topics, t)
  BY <1>1, PendingInHand DEF StillPending, Saved
<1>2. CASE topics' = topics
  BY <1>2 DEF StillPending
<1>3. CASE TrySave(t) /\ t.id # 0
  BY <1>1, <1>2, <1>3 DEF TrySave, SaveFails, SaveTopic, Stored
<1>4. CASE TrySave(t) /\ t.id = 0
  <2>1. r.id # nextId
    BY DEF IInv, Tables, TablesTyped, RowKeys
  <2>2. CASE SaveTopic(t)
    <3> DEFINE n == [t EXCEPT !.id = nextId]
    <3>1. n.id = nextId /\ topics' = {s \in topics : s.id # n.id} \cup {n}
      BY <1>4, <2>2 DEF SaveTopic, Stored, Saved, Topic
    <3> HIDE DEF n
    <3> QED BY <2>1, <3>1 DEF StillPending
  <2> QED BY <1>2, <1>4, <2>2 DEF TrySave, SaveFails
<1> QED BY <1>1, <1>2, <1>3, <1>4

\* No call of a handler ends a pending state, except the verdict on an answer
\* and what an administrator asks for.
LEMMA PendingKept ==
  ASSUME IInv, NEW g \in Goroutines, Continue(g), pc[g] # "check",
         NEW r \in topics, r.verification = "NotCompleted",
         upd[g].kind \notin {"ban", "unban", "topicBan", "topicUnban", "reply"}
  PROVE  StillPending(r)
<1>1. CASE UNCHANGED topics
  BY <1>1 DEF StillPending
<1>2. CASE SaveCaptcha(g)
  <2> DEFINE t == [row[g] EXCEPT !.sent = now, !.verification = "NotCompleted"]
  <2>1. t \in Topic /\ t.id = row[g].id /\ t.verification = "NotCompleted"
    BY <1>2, InHand DEF SaveCaptcha, Topic, Verification, IInv, Tables, TablesTyped
  <2>2. TrySave(t) /\ pc[g] = "saveCaptcha"
    BY <1>2 DEF SaveCaptcha
  <2> HIDE DEF t
  <2> QED BY <2>1, <2>2, PendingSaved
<1>3. CASE SaveThread(g)
  <2>1. row[g] \in Topic /\ TrySave(row[g]) /\ pc[g] = "saveThread"
    BY <1>3, InHand DEF SaveThread, TrySave
  <2> QED BY <2>1, PendingSaved
<1>4. CASE ConsumeChallenge(g)
  <2> DEFINE t == Spent(row[g])
  <2>1. t \in Topic /\ t.id = row[g].id /\ t.verification = row[g].verification
    BY <1>4, InHand DEF ConsumeChallenge, Spent, Topic
  <2>2. pc[g] = "consume" /\ (topics' = Saved(topics, t) \/ topics' = topics)
    BY <1>4 DEF ConsumeChallenge
  <2> HIDE DEF t
  <2> QED BY <2>1, <2>2, PendingSaved
<1>5. CASE TerminateTopic(g)
  <2> DEFINE t == [row[g] EXCEPT !.thread = 0]
  <2>1. t \in Topic /\ t.id = row[g].id /\ t.verification = row[g].verification
    BY <1>5, InHand DEF TerminateTopic, Topic
  <2>2. /\ pc[g] = "terminate"
        /\ \/ topics' = Saved(topics, t) \/ topics' = topics
           \/ /\ row[g].verification # "NotCompleted"
              /\ topics' = Deleted(topics, row[g])
    BY <1>5 DEF TerminateTopic, Try, AfterTerminate, MustRemember
  <2> HIDE DEF t
  <2>3. CASE row[g].verification # "NotCompleted" /\ topics' = Deleted(topics, row[g])
    BY <2>2, <2>3, PendingInHand DEF Deleted, StillPending
  <2> QED BY <2>1, <2>2, <2>3, PendingSaved
<1>6. CASE FlagBan(g)
  <2> DEFINE t == [row[g] EXCEPT !.ban = (upd[g].kind = "closed")]
  <2>1. t \in Topic /\ t.id = row[g].id /\ t.verification = row[g].verification
    BY <1>6, InHand, Zenon DEF FlagBan, Topic
  <2>2. pc[g] = "flag" /\ (topics' = Saved(topics, t) \/ topics' = topics)
    BY <1>6 DEF FlagBan, Try
  <2> HIDE DEF t
  <2> QED BY <2>1, <2>2, PendingSaved
<1>7. /\ ~CheckAnswer(g) /\ ~BanUser(g) /\ ~BanTopic(g)
      /\ ~UnbanTopic(g) /\ ~AdmitByReply(g)
  BY InHand DEF CheckAnswer, BanUser, BanTopic, UnbanTopic, AdmitByReply,
                Coherent, UpdateInHand
<1> QED
  BY <1>1, <1>2, <1>3, <1>4, <1>5, <1>6, <1>7
  DEF Continue, CreateThread, Relay, Record, DeleteThread, Deliver, db

\* A user whose challenge is spent stays unverified, whatever the user and the
\* nightly job do and whatever fails, until an administrator steps in.
THEOREM SpentForGood == Spec => SpentIsFinal
<1> DEFINE Final(r) ==
      r.verification = "NotCompleted" /\ r.sent = 0 =>
        \/ \E s \in topics' : s.id = r.id /\ s.verification = "NotCompleted"
        \/ AtWork({"ban", "unban", "topicBan", "topicUnban", "reply"})
        \/ \E g \in Goroutines : topicLock = g /\ pc[g] = "check"
<1>1. ASSUME IInv, [Next]_vars, NEW r \in topics
      PROVE  Final(r)
  <2>1. CASE UNCHANGED topics
    BY <2>1
  <2>2. CASE VerificationCleanup
    <3> DEFINE c == [r EXCEPT !.challenge = 0, !.sent = 0]
    <3>1. c.id = r.id /\ c.verification = r.verification
      BY <1>1 DEF Topic, IInv, Tables, TablesTyped
    <3>2. r \in topics' \/ c \in topics'
      BY <2>2 DEF VerificationCleanup, AfterCleanup
    <3> QED BY <3>1, <3>2
  <2>3. ASSUME NEW g \in Goroutines, topicLock = g, Continue(g) PROVE Final(r)
    BY <1>1, <2>3, PendingKept DEF AtWork, StillPending
  <2> HIDE DEF Final
  <2> QED BY <1>1, <2>1, <2>2, <2>3, TableWriters
<1>2. IInv /\ [Next]_vars =>
        [\A r \in topics :
           r.verification = "NotCompleted" /\ r.sent = 0 =>
             \/ \E s \in topics' : s.id = r.id /\ s.verification = "NotCompleted"
             \/ AtWork({"ban", "unban", "topicBan", "topicUnban", "reply"})
             \/ \E g \in Goroutines : topicLock = g /\ pc[g] = "check"]_vars
  BY <1>1
<1> QED BY <1>2, Invariance, PTL DEF Spec, SpentIsFinal

=============================================================================
