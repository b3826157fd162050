------------------------------ MODULE TopicBot ------------------------------
(***************************************************************************)
(* The update handlers of services/bots/bot.go and the cron jobs that      *)
(* share their tables.  HookHandler starts one goroutine per update; a     *)
(* handler takes the topic mutex, reads the user's row into a local struct *)
(* and then alternates calls to Telegram with writes of that struct.       *)
(*                                                                         *)
(* A goroutine is "idle" until it has taken the mutex: what it does before *)
(* (the dispatch on the update, the checks of the message's kind) reads no *)
(* shared state of this module, so an update waiting for the mutex is an   *)
(* update that has not arrived yet.  An action is one call to Telegram or  *)
(* to the database with the code up to the next one.  A handler that       *)
(* returns early without a write is a step that changes nothing, and has   *)
(* no action.                                                              *)
(*                                                                         *)
(* Not in this module: the media-group cache (a media group is one key),   *)
(* the RWMutex that guards the group id, whether a thread is closed, and   *)
(* the contents of messages (editing changes no state here, except that it *)
(* can find out that the user blocked the bot).                            *)
(***************************************************************************)
EXTENDS TopicTable, Sequences

CONSTANTS Goroutines,  \* handlers that run at a time
          Nobody,      \* the owner of an unlocked mutex
          UserMsgs,    \* messages users write
          TopicMsgs,   \* messages administrators write in a topic
          NoKey,
          Protected,   \* the messages with HasProtectedContent
          Screening,   \* user -> what shouldSendCaptcha may answer over time
          Challenges,  \* the values rand.Crypto.Uint64 may draw
          CaptchaDuration,
          Faults,      \* what may fail: "db", "api" (Telegram), "crash"
          MaxTime,     \* bound: the clock stops here
          MaxThreads,  \* bound: no message accepted, no thread deleted by hand
          MaxRows      \* bound: no row-creating update accepted

ASSUME BotAssumption ==
  /\ Nobody \notin Goroutines
  /\ UserMsgs \subseteq Keys /\ TopicMsgs \subseteq Keys /\ NoKey \notin Keys
  /\ Protected \subseteq Keys
  /\ Screening \in [Users -> SUBSET BOOLEAN]
  /\ Challenges \subseteq Nat
  /\ CaptchaDuration \in Nat \ {0}
  /\ MaxTime \in Nat /\ MaxThreads \in Nat /\ MaxRows \in Nat

VARIABLES topics, nextId,  \* table "topics" and its id counter
          messages,        \* table "messages"
          threads,         \* Telegram: the forum threads the bot created
          captchas,        \* Telegram: the captchas users were shown
          now,             \* time.Now(), 0 being before any captcha
          topicLock,       \* BotAPI.topic
          pc, upd, row     \* per goroutine: next call, update, local topic

db == <<topics, nextId, messages>>
handlers == <<topicLock, pc, upd, row>>
vars == <<topics, nextId, messages, threads, captchas, now,
          topicLock, pc, upd, row>>

Labels == {"idle", "saveCaptcha", "create", "saveThread", "relay", "record",
           "consume", "check", "delete", "terminate", "ban", "unban", "flag",
           "admit", "deliver"}

Thread == [owner: Users, live: BOOLEAN]
CallbackData == [challenge: Challenges, right: BOOLEAN]

UserKinds == {"kicked", "answer", "message"}
GeneralKinds == {"ban", "unban", "terminate"}
TopicKinds == {"closed", "reopened", "topicBan", "topicUnban",
               "topicTerminate", "reply", "topicEdit"}
Kinds == UserKinds \cup GeneralKinds \cup TopicKinds \cup {"none"}

Update(kind, user, thread, key) ==
  [kind |-> kind, user |-> user, thread |-> thread, key |-> key]
NoUpdate == Update("none", NoUser, 0, NoKey)
Updates == [kind: Kinds, user: Users \cup {NoUser}, thread: Nat,
            key: Keys \cup {NoKey} \cup CallbackData]

TablesTyped ==
  /\ topics \subseteq Topic
  /\ nextId \in Nat \ {0}
  /\ messages \subseteq Msg
  /\ threads \in Seq(Thread)
  /\ captchas \subseteq [user: Users, challenge: Challenges]
  /\ now \in Nat \ {0}

HandlersTyped ==
  /\ topicLock \in Goroutines \cup {Nobody}
  /\ pc \in [Goroutines -> Labels]
  /\ upd \in [Goroutines -> Updates]
  /\ row \in [Goroutines -> Topic]

TypeOK == TablesTyped /\ HandlersTyped

Init ==
  /\ topics = {} /\ nextId = 1 /\ messages = {}
  /\ threads = <<>> /\ captchas = {} /\ now = 1
  /\ topicLock = Nobody
  /\ pc = [g \in Goroutines |-> "idle"]
  /\ upd = [g \in Goroutines |-> NoUpdate]
  /\ row = [g \in Goroutines |-> NoTopic]

-----------------------------------------------------------------------------
(* Control: taking the mutex, going on, returning (the deferred Unlock).   *)

\* Mutant: a handler does not wait for the mutex.
NoLock == TRUE

LockFree == topicLock = Nobody

Enter(g, u, t, label) ==
  /\ pc[g] = "idle" /\ LockFree
  /\ topicLock' = g
  /\ pc' = [pc EXCEPT ![g] = label]
  /\ upd' = [upd EXCEPT ![g] = u]
  /\ row' = [row EXCEPT ![g] = t]

Goto(g, label, t) ==
  /\ pc' = [pc EXCEPT ![g] = label]
  /\ row' = [row EXCEPT ![g] = t]
  /\ UNCHANGED <<topicLock, upd>>

\* Mutant: the deferred Unlock is missing.
ReturnLocked(g) ==
  /\ pc' = [pc EXCEPT ![g] = "idle"]
  /\ upd' = [upd EXCEPT ![g] = NoUpdate]
  /\ row' = [row EXCEPT ![g] = NoTopic]
  /\ UNCHANGED topicLock

Return(g) ==
  /\ topicLock' = Nobody
  /\ pc' = [pc EXCEPT ![g] = "idle"]
  /\ upd' = [upd EXCEPT ![g] = NoUpdate]
  /\ row' = [row EXCEPT ![g] = NoTopic]

(* Writes.  A write of the database that may fail and whose error the code *)
(* ignores, or whose error only makes the handler return.                  *)

Try(new, old) == {new} \cup (IF "db" \in Faults THEN {old} ELSE {})

\* Create gives the struct its id.
Stored(t) == IF t.id = 0 THEN [t EXCEPT !.id = nextId] ELSE t

SaveTopic(t) ==
  /\ topics' = Saved(topics, Stored(t))
  /\ nextId' = IF t.id = 0 THEN nextId + 1 ELSE nextId

SaveFails == "db" \in Faults /\ UNCHANGED <<topics, nextId>>

TrySave(t) == SaveTopic(t) \/ SaveFails

-----------------------------------------------------------------------------
(* handleUserNewMessage                                                    *)

\* The captcha goes out before the row that remembers it is written.  A
\* failure to send it returns without a trace.
SendCaptcha(g, u, c) ==
  \E t \in FindByUser(topics, u) :
    /\ t.verification = "NotSent" /\ TRUE \in Screening[u]
    /\ nextId <= MaxRows
    /\ Enter(g, Update("message", u, 0, NoKey),
             Addressed([t EXCEPT !.challenge = c], u), "saveCaptcha")
    /\ captchas' = captchas \cup {[user |-> u, challenge |-> c]}
    /\ UNCHANGED <<db, threads, now>>

SaveCaptcha(g) ==
  /\ pc[g] = "saveCaptcha"
  /\ TrySave([row[g] EXCEPT !.sent = now, !.verification = "NotCompleted"])
  /\ Return(g)
  /\ UNCHANGED <<messages, threads, captchas, now>>

\* Mutant: only a pending captcha stops a message.
NotPending(t, u) == t.verification # "NotCompleted"

\* Verified, or not to be screened this time; then the switch at "retry".
MayWrite(t, u) ==
  \/ t.verification = "Completed"
  \/ t.verification = "NotSent" /\ FALSE \in Screening[u]

AcceptMessage(g, u, k) ==
  \E t \in FindByUser(topics, u) :
    /\ MayWrite(t, u)
    /\ ~t.ban
    /\ nextId <= MaxRows /\ Len(threads) < MaxThreads
    /\ \/ /\ t.thread = 0
          /\ Enter(g, Update("message", u, 0, k), Addressed(t, u), "create")
       \/ /\ t.thread # 0 /\ k \notin Protected
          /\ Enter(g, Update("message", u, 0, k), t, "relay")
    /\ UNCHANGED <<db, threads, captchas, now>>

\* Mutant: the struct keeps the thread it knew.
CreateForgottenThread(g) ==
  /\ pc[g] = "create"
  /\ threads' = Append(threads, [owner |-> upd[g].user, live |-> TRUE])
  /\ Goto(g, "saveThread", [row[g] EXCEPT !.thread = Len(threads)])
  /\ UNCHANGED <<db, captchas, now>>

CreateThread(g) ==
  /\ pc[g] = "create"
  /\ \/ /\ threads' = Append(threads, [owner |-> upd[g].user, live |-> TRUE])
        /\ Goto(g, "saveThread",
                [row[g] EXCEPT !.thread = Len(threads) + 1])
     \/ "api" \in Faults /\ Return(g) /\ UNCHANGED threads
  /\ UNCHANGED <<db, captchas, now>>

\* sendSender may fail, and a protected message ends here.
Introduced(g, t) ==
  \/ upd[g].key \notin Protected /\ Goto(g, "relay", t)
  \/ (upd[g].key \in Protected \/ "api" \in Faults) /\ Return(g)

\* saveTopic's error is ignored: the handler goes on with the struct it has.
SaveThread(g) ==
  /\ pc[g] = "saveThread"
  /\ \/ SaveTopic(row[g]) /\ Introduced(g, Stored(row[g]))
     \/ SaveFails /\ Introduced(g, row[g])
  /\ UNCHANGED <<messages, threads, captchas, now>>

Live(thread) == thread \in DOMAIN threads /\ threads[thread].live

\* Mutant: "message thread not found" is an error like any other.
RelayOnce(g) ==
  /\ pc[g] = "relay"
  /\ \/ Live(row[g].thread) /\ Goto(g, "record", row[g])
     \/ ~Live(row[g].thread) /\ Return(g)
  /\ UNCHANGED <<db, threads, captchas, now>>

\* CopyMessage, ForwardMessage(s) or SendMediaGroup into the thread;
\* "message thread not found" makes a new thread and tries again.  Any other
\* error, and a failed lookup of the message this one replies to, ends it.
Relay(g) ==
  /\ pc[g] = "relay"
  /\ \/ Live(row[g].thread) /\ Goto(g, "record", row[g])
     \/ ~Live(row[g].thread) /\ Goto(g, "create", [row[g] EXCEPT !.thread = 0])
     \/ Faults \cap {"api", "db"} # {} /\ Return(g)
  /\ UNCHANGED <<db, threads, captchas, now>>

\* The row that links the two copies: one lies where the update came from,
\* the other where the topic in hand sent it.
Link(u, t) ==
  [topic |-> t.id, key |-> u.key,
   user |-> IF u.kind = "message" THEN u.user ELSE t.user,
   thread |-> IF u.kind = "message" THEN t.thread ELSE u.thread]

\* DB().Create of the link; its error is ignored.
Record(g) ==
  /\ pc[g] = "record"
  /\ messages' \in Try(messages \cup {Link(upd[g], row[g])}, messages)
  /\ Return(g)
  /\ UNCHANGED <<topics, nextId, threads, captchas, now>>

-----------------------------------------------------------------------------
(* handleUserVerification: a button of a captcha the user was shown.       *)

Answer(g, u, c, right) ==
  \E t \in FindByUser(topics, u) :
    /\ [user |-> u, challenge |-> c] \in captchas
    /\ t.id # 0 /\ t.verification = "NotCompleted"
    /\ t.challenge # 0 /\ t.sent # 0
    /\ ~t.ban
    /\ Enter(g, Update("answer", u, 0, [challenge |-> c, right |-> right]), t,
             "consume")
    /\ UNCHANGED <<db, threads, captchas, now>>

\* Mutant: only the time is reset.
HalfSpent(t) == [t EXCEPT !.sent = 0]

Spent(t) == [t EXCEPT !.challenge = 0, !.sent = 0]

\* The row forgets the challenge; row[g] keeps challangeId and notAfter.
ConsumeChallenge(g) ==
  /\ pc[g] = "consume"
  /\ \/ topics' = Saved(topics, Spent(row[g])) /\ Goto(g, "check", row[g])
     \/ "db" \in Faults /\ Return(g) /\ UNCHANGED topics
  /\ UNCHANGED <<nextId, messages, threads, captchas, now>>

\* CheckMath: only the right button carries the signed value 0.
Passed(g) ==
  /\ now <= row[g].sent + CaptchaDuration
  /\ upd[g].key.right /\ upd[g].key.challenge = row[g].challenge

CheckAnswer(g) ==
  /\ pc[g] = "check"
  /\ IF Passed(g)
       THEN topics' \in Try(Saved(topics, [Spent(row[g]) EXCEPT
                                             !.verification = "Completed"]),
                            topics)
       ELSE UNCHANGED topics
  /\ Return(g)
  /\ UNCHANGED <<nextId, messages, threads, captchas, now>>

-----------------------------------------------------------------------------
(* Forgetting a topic: the user blocked the bot (handleMyChatMember, or an *)
(* error of a delivery), or an administrator terminates it.                *)

Kicked(g, u) ==
  \E t \in FindByUser(topics, u) :
    /\ t.id # 0 /\ t.thread # 0
    /\ Enter(g, Update("kicked", u, t.thread, NoKey), t, "delete")
    /\ UNCHANGED <<db, threads, captchas, now>>

\* In the General topic the command's message has thread id 0.
GeneralTerminate(g, u) ==
  \E t \in FindByUser(topics, u) :
    /\ t.id # 0
    /\ Enter(g, Update("terminate", u, 0, NoKey), t,
             IF t.thread # 0 THEN "delete" ELSE "terminate")
    /\ UNCHANGED <<db, threads, captchas, now>>

TopicTerminate(g, th) ==
  \E t \in FindByThread(topics, th) :
    /\ t.id # 0
    /\ Enter(g, Update("topicTerminate", NoUser, th, NoKey), t, "delete")
    /\ UNCHANGED <<db, threads, captchas, now>>

Without(thread) ==
  IF thread \in DOMAIN threads
    THEN [threads EXCEPT ![thread].live = FALSE] ELSE threads

\* DeleteForumTopic of the thread the request names; its error is ignored.
DeleteThread(g) ==
  /\ pc[g] = "delete"
  /\ \/ threads' = Without(upd[g].thread)
     \/ "api" \in Faults /\ UNCHANGED threads
  /\ Goto(g, IF upd[g].kind \in {"ban", "topicBan"} THEN "ban"
                                                    ELSE "terminate", row[g])
  /\ UNCHANGED <<db, captchas, now>>

TerminateTopic(g) ==
  /\ pc[g] = "terminate"
  /\ messages' \in Try(Purged(messages, row[g].id), messages)
  /\ topics' \in Try(AfterTerminate(topics, row[g]), topics)
  /\ Return(g)
  /\ UNCHANGED <<nextId, threads, captchas, now>>

-----------------------------------------------------------------------------
(* Bans: /ban and /unban in General (by user id) or in the user's topic,   *)
(* and closing and reopening the topic.                                    *)

GeneralBan(g, u) ==
  \E t \in FindByUser(topics, u) :
    /\ ~t.ban
    /\ nextId <= MaxRows
    /\ Enter(g, Update("ban", u, 0, NoKey), Addressed(t, u),
             IF t.thread # 0 THEN "delete" ELSE "ban")
    /\ UNCHANGED <<db, threads, captchas, now>>

BanUser(g) ==
  /\ pc[g] = "ban" /\ upd[g].kind = "ban"
  /\ \/ /\ row[g].thread # 0
        /\ messages' \in Try(Purged(messages, row[g].id), messages)
     \/ row[g].thread = 0 /\ UNCHANGED messages
  /\ TrySave(Banned([row[g] EXCEPT !.thread = 0]))
  /\ Return(g)
  /\ UNCHANGED <<threads, captchas, now>>

TopicBan(g, th) ==
  \E t \in FindByThread(topics, th) :
    /\ t.id # 0
    /\ Enter(g, Update("topicBan", NoUser, th, NoKey), t, "delete")
    /\ UNCHANGED <<db, threads, captchas, now>>

\* A topic that is banned already is left as it is, its thread id included.
BanTopic(g) ==
  /\ pc[g] = "ban" /\ upd[g].kind = "topicBan"
  /\ \/ /\ ~row[g].ban
        /\ SaveTopic(Banned([row[g] EXCEPT !.thread = 0]))
        /\ messages' \in Try(Purged(messages, row[g].id), messages)
     \/ /\ row[g].ban \/ "db" \in Faults
        /\ UNCHANGED db
  /\ Return(g)
  /\ UNCHANGED <<threads, captchas, now>>

GeneralUnban(g, u) ==
  \E t \in FindByUser(topics, u) :
    /\ t.id # 0
    /\ Enter(g, Update("unban", u, 0, NoKey), t, "unban")
    /\ UNCHANGED <<db, threads, captchas, now>>

TopicUnban(g, th) ==
  \E t \in FindByThread(topics, th) :
    /\ t.id # 0 /\ t.ban
    /\ Enter(g, Update("topicUnban", NoUser, th, NoKey), t, "unban")
    /\ UNCHANGED <<db, threads, captchas, now>>

UnbanTopic(g) ==
  /\ pc[g] = "unban"
  /\ topics' \in Try(AfterUnban(topics, row[g]), topics)
  /\ Return(g)
  /\ UNCHANGED <<nextId, messages, threads, captchas, now>>

TopicClosed(g, th) ==
  \E t \in FindByThread(topics, th) :
    /\ t.id # 0 /\ ~t.ban
    /\ Enter(g, Update("closed", NoUser, th, NoKey), t, "flag")
    /\ UNCHANGED <<db, threads, captchas, now>>

TopicReopened(g, th) ==
  \E t \in FindByThread(topics, th) :
    /\ t.id # 0 /\ t.ban
    /\ Enter(g, Update("reopened", NoUser, th, NoKey), t, "flag")
    /\ UNCHANGED <<db, threads, captchas, now>>

FlagBan(g) ==
  /\ pc[g] = "flag"
  /\ topics' \in Try(Saved(topics, [row[g] EXCEPT
                                      !.ban = (upd[g].kind = "closed")]),
                     topics)
  /\ Return(g)
  /\ UNCHANGED <<nextId, messages, threads, captchas, now>>

-----------------------------------------------------------------------------
(* handleTopicNewMessage and handleTopicEditMessage: what an administrator *)
(* writes in a topic goes to the topic's user, and verifies that user.     *)

Reply(g, th, k) ==
  \E t \in FindByThread(topics, th) :
    /\ t.id # 0 /\ k \notin Protected
    /\ Enter(g, Update("reply", NoUser, th, k), t,
             IF t.verification = "Completed" THEN "deliver" ELSE "admit")
    /\ UNCHANGED <<db, threads, captchas, now>>

AdmitByReply(g) ==
  LET t == [row[g] EXCEPT !.verification = "Completed"]
  IN  /\ pc[g] = "admit"
      /\ TrySave(t)
      /\ Goto(g, "deliver", t)
      /\ UNCHANGED <<messages, threads, captchas, now>>

TopicEdit(g, th, k) ==
  \E t \in FindByThread(topics, th) :
    /\ t.id # 0
    /\ \E m \in messages : m.topic = t.id /\ m.thread = th /\ m.key = k
    /\ Enter(g, Update("topicEdit", NoUser, th, k), t, "deliver")
    /\ UNCHANGED <<db, threads, captchas, now>>

\* "bot was blocked by the user" terminates the topic.
Deliver(g) ==
  /\ pc[g] = "deliver"
  /\ \/ upd[g].kind = "reply" /\ Goto(g, "record", row[g])
     \/ upd[g].kind = "topicEdit" /\ Return(g)
     \/ Goto(g, "delete", row[g])
     \/ Faults \cap {"api", "db"} # {} /\ Return(g)
  /\ UNCHANGED <<db, threads, captchas, now>>

-----------------------------------------------------------------------------
(* The cron jobs take no lock; they run at any time.                       *)

VerificationCleanup ==
  /\ topics' = AfterCleanup(topics, now + CaptchaDuration)
  /\ UNCHANGED <<nextId, messages, threads, captchas, now, handlers>>

\* `old` are the rows of 30 days ago; their age is not modelled.
MessageCleanup ==
  /\ \E old \in SUBSET messages : messages' = messages \ old
  /\ UNCHANGED <<topics, nextId, threads, captchas, now, handlers>>

(* The environment: the process dies and systemd restarts it, somebody     *)
(* deletes a thread by hand (Telegram tells the bot nothing), time passes. *)

Crash ==
  /\ "crash" \in Faults /\ topicLock # Nobody
  /\ topicLock' = Nobody
  /\ pc' = [g \in Goroutines |-> "idle"]
  /\ upd' = [g \in Goroutines |-> NoUpdate]
  /\ row' = [g \in Goroutines |-> NoTopic]
  /\ UNCHANGED <<db, threads, captchas, now>>

ThreadRemoved(th) ==
  /\ Live(th) /\ Len(threads) < MaxThreads
  /\ threads' = Without(th)
  /\ UNCHANGED <<db, captchas, now, handlers>>

Tick ==
  /\ now < MaxTime
  /\ now' = now + 1
  /\ UNCHANGED <<db, threads, captchas, handlers>>

-----------------------------------------------------------------------------

FromUser(g, u) ==
  \/ \E c \in Challenges : SendCaptcha(g, u, c)
  \/ \E k \in UserMsgs : AcceptMessage(g, u, k)
  \/ \E c \in Challenges, right \in BOOLEAN : Answer(g, u, c, right)
  \/ Kicked(g, u)

FromGeneral(g, u) ==
  \/ GeneralBan(g, u) \/ GeneralUnban(g, u) \/ GeneralTerminate(g, u)

FromTopic(g, th) ==
  \/ TopicBan(g, th) \/ TopicUnban(g, th) \/ TopicTerminate(g, th)
  \/ TopicClosed(g, th) \/ TopicReopened(g, th)
  \/ \E k \in TopicMsgs : Reply(g, th, k) \/ TopicEdit(g, th, k)

\* The rest of the handler goroutine g is in.
Continue(g) ==
  \/ SaveCaptcha(g) \/ CreateThread(g) \/ SaveThread(g) \/ Relay(g)
  \/ Record(g) \/ ConsumeChallenge(g) \/ CheckAnswer(g) \/ DeleteThread(g)
  \/ TerminateTopic(g) \/ BanUser(g) \/ BanTopic(g) \/ UnbanTopic(g)
  \/ FlagBan(g) \/ AdmitByReply(g) \/ Deliver(g)

Environment ==
  \/ VerificationCleanup \/ MessageCleanup \/ Crash \/ Tick
  \/ \E th \in DOMAIN threads : ThreadRemoved(th)

Next ==
  \/ \E g \in Goroutines, u \in Users : FromUser(g, u) \/ FromGeneral(g, u)
  \/ \E g \in Goroutines, th \in DOMAIN threads : FromTopic(g, th)
  \/ \E g \in Goroutines : Continue(g)
  \/ Environment

Spec == Init /\ [][Next]_vars

\* A handler that holds the mutex runs on: its calls return (Telegram's
\* within the 60 s of utils.BotClient), and the Go scheduler is fair.
FairSpec == Spec /\ \A g \in Goroutines : WF_vars(Continue(g))

-----------------------------------------------------------------------------
(* Properties                                                              *)

\* A user has one row, although user_id is not a unique column and nothing
\* but the mutex stands between a handler's query and its insert.
UniqueUser == \A r, s \in topics : r.user = s.user => r = s

\* The thread a row names was made for the row's user: what an administrator
\* writes there reaches nobody else (README.md: topics tell users apart).
ThreadOwner ==
  \A r \in topics :
    r.thread # 0 => /\ r.thread \in DOMAIN threads
                    /\ threads[r.thread].owner = r.user

\* A link an edit or a reply follows joins the user of the linked message, the
\* user of its row and the user its thread was made for, even after threads
\* were lost, and rows deleted and created again.
MessageIsolation ==
  \A m \in messages :
    /\ m.thread \in DOMAIN threads /\ threads[m.thread].owner = m.user
    /\ \A r \in topics : r.id = m.topic => r.user = m.user

\* When a user's message goes into a thread the database says the user is
\* not banned, however long ago the handler read the row.
BannedNeverRelayed ==
  \A g \in Goroutines :
    pc[g] \in {"relay", "record"} /\ upd[g].kind = "message" =>
      \A r \in topics : r.user = upd[g].user => ~r.ban

\* A user who is always screened writes only while the database holds a row
\* that says the captcha is solved (or an administrator stepped in).
ScreenedUntilVerified ==
  \A g \in Goroutines :
    (/\ pc[g] \in {"relay", "record"} /\ upd[g].kind = "message"
     /\ Screening[upd[g].user] = {TRUE}) =>
      \E r \in topics : r.user = upd[g].user /\ r.verification = "Completed"

\* An answer is judged only after its challenge is gone from the database:
\* no two answers are judged against the same challenge.
OneAnswerPerChallenge ==
  \A g \in Goroutines :
    pc[g] = "check" =>
      \A r \in topics : r.user = row[g].user =>
        r.verification = "NotCompleted" /\ r.challenge = 0 /\ r.sent = 0

\* A link always has a row to go with: a row takes its links with it.
\* (Only without faults: a failed or interrupted purge leaves links behind.)
NoOrphanLinks == \A m \in messages : \E r \in topics : r.id = m.topic

AtWork(kinds) == \E g \in Goroutines : topicLock = g /\ upd[g].kind \in kinds

\* Only an administrator's unban lifts a ban.  Blocking the bot, terminating
\* the topic, answering a captcha or a handler's stale copy never do.
BanSticks ==
  [][\A r \in topics :
       r.ban => \/ \E s \in topics' : s.id = r.id /\ s.user = r.user /\ s.ban
                \/ AtWork({"unban", "topicUnban", "reopened"})]_vars

\* Once the challenge of a row is spent (answered, or withdrawn), the row stays
\* NotCompleted, which refuses messages and new captchas alike: no detour (a
\* block, a termination, a lost thread, a failed save) starts the user afresh
\* before the verdict on the answer is in or an administrator acts.
SpentIsFinal ==
  [][\A r \in topics :
       r.verification = "NotCompleted" /\ r.sent = 0 =>
         \/ \E s \in topics' : s.id = r.id /\ s.verification = "NotCompleted"
         \/ AtWork({"ban", "unban", "topicBan", "topicUnban", "reply"})
         \/ \E g \in Goroutines : topicLock = g /\ pc[g] = "check"]_vars

\* A challenge that can still be answered in time is withdrawn by nobody but
\* a handler.
LiveChallengeKept ==
  [][\A r \in topics :
       /\ r.verification = "NotCompleted" /\ r.sent # 0
       /\ now <= r.sent + CaptchaDuration
       => \/ \E s \in topics' : s.id = r.id /\ s.sent = r.sent
          \/ topicLock # Nobody]_vars

\* A user is told apart by one topic: no user has two threads in the group.
OneThreadPerUser ==
  \A a, b \in DOMAIN threads :
    threads[a].live /\ threads[b].live /\ threads[a].owner = threads[b].owner
      => a = b

\* The mutex is always given back: the "goto retry" loop of a message whose
\* thread keeps disappearing ends.
LockReleased == topicLock # Nobody ~> topicLock = Nobody

\* Nothing failing, a message accepted for relay is relayed, in a new thread
\* if the one of the row was deleted in the meantime.
Healing ==
  \A g \in Goroutines : pc[g] \in {"create", "relay"} ~> pc[g] = "record"

=============================================================================
