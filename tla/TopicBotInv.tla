---------------------------- MODULE TopicBotInv -----------------------------
(***************************************************************************)
(* The inductive invariant behind the safety properties of TopicBot.  Most *)
(* of them are not inductive: that a second row cannot appear, or that a   *)
(* ban cannot be lost, depends on what the handler in the critical section *)
(* carries in its local copy of the row, and on where in its code it is.   *)
(***************************************************************************)
EXTENDS TopicBot

\* The mutex is held by exactly the handler that is under way.
Locking == \A g \in Goroutines : pc[g] # "idle" <=> topicLock = g

\* The database draws ids from its counter, one row for each.
RowKeys ==
  /\ \A r \in topics : r.id \in 1 .. (nextId - 1) /\ r.user \in Users
  /\ \A r, s \in topics : r.id = s.id => r = s

\* A link names a row that existed; what MessageIsolation says of it.
Links ==
  \A m \in messages :
    /\ m.topic < nextId
    /\ m.thread \in DOMAIN threads /\ threads[m.thread].owner = m.user
    /\ \A r \in topics : r.id = m.topic => r.user = m.user

Tables == TablesTyped /\ RowKeys /\ UniqueUser /\ ThreadOwner /\ Links

-----------------------------------------------------------------------------
(* What holds of a handler at label `l` of update `u` with local row `t`.  *)

\* The only labels a handler reaches without a row in the database.
MayCreate == {"saveCaptcha", "create", "saveThread", "relay", "record", "ban"}

\* The handler brings a user's message into the user's thread.
Relaying(l, u) ==
  u.kind = "message" /\ l \in {"create", "saveThread", "relay", "record"}

\* The local row is the database's, but for what the handler changed so far.
Copied(l, u, t) ==
  \E r \in topics :
    /\ r.id = t.id /\ r.user = t.user /\ r.ban = t.ban
    /\ u.kind # "reply" => r.verification = t.verification
    /\ l = "check" => r.challenge = 0 /\ r.sent = 0

RowInHand(l, u, t) ==
  /\ t.user \in Users
  /\ t.id = 0 => /\ l \in MayCreate /\ ~t.ban
                 /\ \A r \in topics : r.user # t.user
  /\ t.id # 0 => Copied(l, u, t)

ThreadInHand(l, u, t) ==
  /\ t.thread # 0 => /\ t.thread \in DOMAIN threads
                     /\ threads[t.thread].owner = t.user
  /\ Relaying(l, u) /\ l # "create" => t.thread # 0
  /\ u.kind = "reply" => t.thread # 0 /\ u.thread = t.thread

UpdateInHand(l, u, t) ==
  /\ u.kind = "message" => u.user = t.user
  /\ l \in {"saveCaptcha", "create", "saveThread", "relay"} =>
       u.kind = "message"
  /\ l = "admit" => u.kind = "reply"
  /\ l = "unban" => u.kind \in {"unban", "topicUnban"}
  /\ l = "flag" => u.kind \in {"closed", "reopened"}
  /\ l \in {"consume", "check"} => u.kind = "answer"
  /\ l = "record" => u.kind \in {"message", "reply"}
  /\ u.kind \in {"message", "reply"} /\ l # "saveCaptcha" => u.key \in Keys

Allowed(l, u, t) ==
  /\ Relaying(l, u) => ~t.ban
  /\ Relaying(l, u) /\ Screening[t.user] = {TRUE} =>
       t.id # 0 /\ t.verification = "Completed"
  /\ l \in {"consume", "check"} => t.verification = "NotCompleted"

Coherent(l, u, t) == /\ RowInHand(l, u, t) /\ ThreadInHand(l, u, t)
                     /\ UpdateInHand(l, u, t) /\ Allowed(l, u, t)

Handlers ==
  /\ HandlersTyped /\ Locking
  /\ \A g \in Goroutines : pc[g] # "idle" => Coherent(pc[g], upd[g], row[g])

\* The inductive invariant.  It implies TypeOK, UniqueUser, ThreadOwner,
\* MessageIsolation, BannedNeverRelayed, ScreenedUntilVerified and
\* OneAnswerPerChallenge, and holds in every state a step can start from.
IInv == Tables /\ Handlers

-----------------------------------------------------------------------------
(* Behind NoOrphanLinks, which only holds while no statement fails and     *)
(* nobody kills the process.                                               *)

\* A link names a row with a thread: /unban drops a row that has none, and
\* purges nothing.
Linked == \A m \in messages : \E r \in topics : r.id = m.topic /\ r.thread # 0

\* The database knows the thread in hand, unless one is being made.
ThreadSaved(l, t) ==
  /\ l \notin {"create", "saveThread"} =>
       \A r \in topics : r.id = t.id => r.thread = t.thread
  /\ l \in {"relay", "record"} => t.id # 0

LinksInv ==
  /\ IInv /\ Linked
  /\ \A g \in Goroutines : pc[g] # "idle" => ThreadSaved(pc[g], row[g])

=============================================================================
