----------------------------- MODULE TopicTable -----------------------------
(***************************************************************************)
(* The rows of the "topics" and "messages" tables (model/db_topic.go,      *)
(* model/db_msg.go) and what the helpers of services/bots/helper.go make   *)
(* of them.  A table is a set of rows; a row of "topics" is identified by  *)
(* its id, which the database draws from a counter and never reuses.       *)
(*                                                                         *)
(* A Telegram message id is modelled by where the message lies (the        *)
(* private chat of a user, or a thread of the group) and by a key, so that *)
(* a row of "messages" says which two copies of a message it links.        *)
(* LanguageCode and CreatedAt are left out: no property depends on them.   *)
(*                                                                         *)
(* A definition whose comment starts with "Mutant:" is a faulty variant of *)
(* the one that follows it.  No specification uses it; it is put in the    *)
(* place of the right one to see that a property notices the difference.   *)
(***************************************************************************)
EXTENDS Naturals

CONSTANTS Users,   \* Telegram users that write to the bot
          NoUser,  \* the user id 0 of a zero-valued model.Topic
          Keys     \* messages, in a private chat or in a thread

ASSUME NoUserAssumption == NoUser \notin Users

Verification == {"NotSent", "NotCompleted", "Completed"}

Topic == [id: Nat, user: Users \cup {NoUser}, thread: Nat,
          verification: Verification, challenge: Nat, sent: Nat,
          ban: BOOLEAN]

Msg == [topic: Nat, user: Users, thread: Nat, key: Keys]

\* `var topic model.Topic`: what a query that finds no row leaves behind.
NoTopic == [id |-> 0, user |-> NoUser, thread |-> 0,
            verification |-> "NotSent", challenge |-> 0, sent |-> 0,
            ban |-> FALSE]

-----------------------------------------------------------------------------

Found(rows) == IF rows = {} THEN {NoTopic} ELSE rows

\* Mutant: the condition is lost.
FindAnybody(table, user) == Found(table)

\* DB().Where("user_id", user).Find(&topic)
FindByUser(table, user) == Found({r \in table : r.user = user})

\* DB().Where("topic_id", thread).Find(&topic)
FindByThread(table, thread) == Found({r \in table : r.thread = thread})

\* DB().Save(&topic) updates every column of the row, or inserts it.
Saved(table, t) == {r \in table : r.id # t.id} \cup {t}

\* DB().Delete(&topic)
Deleted(table, t) == {r \in table : r.id # t.id}

\* Mutant: a new row does not learn whose it is.
Unaddressed(t, user) == t

\* topic.UserId = id; a row found by this id has it already.
Addressed(t, user) == [t EXCEPT !.user = user]

\* Mutant: Msg.TopicId is taken for the thread id, as Topic.TopicId is one.
PurgedByThread(msgs, id) == {m \in msgs : m.thread # id}

\* DB().Model(model.Msg{}).Where("topic_id", id).Delete(nil)
Purged(msgs, id) == {m \in msgs : m.topic # id}

-----------------------------------------------------------------------------

\* banTopic, before it creates or saves the row
Banned(t) == [t EXCEPT !.ban = TRUE, !.verification = "NotSent",
                       !.challenge = 0, !.sent = 0]

\* unbanTopic: a user without a thread is forgotten, another one admitted
AfterUnban(table, t) ==
  IF t.thread = 0
    THEN Deleted(table, t)
    ELSE Saved(table, [t EXCEPT !.ban = FALSE, !.verification = "Completed",
                                !.challenge = 0, !.sent = 0])

\* Mutants: only the ban, or only the captcha, is remembered.
RememberBan(t) == t.ban
RememberCaptcha(t) == t.verification = "NotCompleted"

\* A row terminateTopic may not forget: it records a ban or a pending captcha.
MustRemember(t) == t.ban \/ t.verification = "NotCompleted"

\* terminateTopic, after it purged the messages
AfterTerminate(table, t) ==
  IF MustRemember(t) THEN Saved(table, [t EXCEPT !.thread = 0])
                     ELSE Deleted(table, t)

\* VerificationCleanup: the column-wise UPDATE of the nightly job.  `horizon`
\* is the time the condition compares challange_sent with.
AfterCleanup(table, horizon) ==
  {IF r.verification = "NotCompleted" /\ r.sent # 0 /\ r.sent <= horizon
     THEN [r EXCEPT !.challenge = 0, !.sent = 0]
     ELSE r : r \in table}

=============================================================================
