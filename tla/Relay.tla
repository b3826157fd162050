-------------------------------- MODULE Relay --------------------------------
(***************************************************************************)
(* What the handlers of services/bots/bot.go and edit.go do to the         *)
(* contents of messages: copies, the links between them, replies and       *)
(* edits, in both directions, for one user who is never asked a captcha (a *)
(* premium or an old account, captcha.go 21-45) and is not banned.  Rows,  *)
(* threads and the mutex are those of TopicBot, cut down to that user: one *)
(* handler is under way at a time, the other updates wait, and any of them *)
(* may be the next.                                                        *)
(*                                                                         *)
(* A message is a record of the sequence `tg`, its index is the message    *)
(* id.  It lies in place 0, the user's private chat, or in a thread of the *)
(* group.  Its content is a draft of a key: editing goes from one draft of *)
(* Drafts[key] to the next.  Albums are in MediaGroup, commands in         *)
(* TopicBot; forwards are copied like other messages, but answer nothing   *)
(* and are never edited.                                                   *)
(***************************************************************************)
EXTENDS Naturals, Sequences

CONSTANTS UserMsgs, AdminMsgs,  \* the keys of messages people write
          Drafts,      \* key -> the kinds of content it takes, draft by draft
          Repeated,    \* keys whose updates Telegram may deliver again
          Faults,      \* "db", "api" (Telegram), "blocked" (by the user), "crash"
          Conversations,  \* bound: the sets of keys one behaviour may use
          MaxThreads      \* bound: no thread removed by hand any more

Keys == UserMsgs \cup AdminMsgs

\* What the handlers tell apart.  "media" and "voice" are what an edit can and
\* cannot replace; stickers and video notes are like "voice".
Relayed == {"text", "media", "voice"}

\* Passed over without a word: buttons or data of a web app, and what Telegram
\* itself announces (a pinned message, a new title).
Unheeded == {"ignored", "service"}

Kinds == Relayed \cup Unheeded \cup {"unsupported"}

ASSUME RelayAssumption ==
  /\ UserMsgs \cap AdminMsgs = {}
  /\ Drafts \in [Keys -> Seq(Kinds) \ {<<>>}]
  /\ \A k \in Keys : Drafts[k][1] = "service" => Len(Drafts[k]) = 1
  /\ Repeated \subseteq Keys /\ Conversations \subseteq SUBSET Keys
  /\ MaxThreads \in Nat

VARIABLES tg,       \* Telegram: all messages ever sent, and
          threads,  \* whether each thread is still there
          row,      \* the user's row of "topics", id 0 if there is none
          nextId,   \* the id counter of "topics"
          links,    \* table "messages"
          pending,  \* updates that were sent and not handled
          busy,     \* the handler with the mutex
          told, lost, overtaken   \* history, see the end of the module

history == <<told, lost, overtaken>>
vars == <<tg, threads, row, nextId, links, pending, busy, told, lost, overtaken>>

Content == [key: Keys, draft: Nat \ {0}]
Message == [place: Nat, content: Content, copyOf: Nat, reply: Nat, live: BOOLEAN]
Row == [id: Nat, thread: Nat, completed: BOOLEAN]  \* completed: verification
Msg == [topic: Nat, userMsg: Nat, topicMsg: Nat]
Update == [type: {"none", "new", "edit"}, msg: Nat, draft: Nat, again: BOOLEAN]

NoRow == [id |-> 0, thread |-> 0, completed |-> FALSE]
NoUpdate == [type |-> "none", msg |-> 0, draft |-> 0, again |-> FALSE]
Free == [step |-> "free", upd |-> NoUpdate, topic |-> NoRow, target |-> 0]
Steps == {"free", "open", "send", "record", "edit", "terminate"}

TypeOK ==
  /\ tg \in Seq(Message) /\ threads \in Seq(BOOLEAN)
  /\ row \in Row /\ nextId \in Nat
  /\ links \subseteq Msg /\ pending \subseteq Update
  /\ busy \in [step: Steps, upd: Update, topic: Row, target: Nat]
  /\ \A l \in links : {l.userMsg, l.topicMsg} \subseteq DOMAIN tg
  /\ told \cup lost \cup overtaken \subseteq DOMAIN tg

Init ==
  /\ tg = <<>> /\ threads = <<>> /\ row = NoRow /\ nextId = 1
  /\ links = {} /\ pending = {} /\ busy = Free
  /\ told = {} /\ lost = {} /\ overtaken = {}

-----------------------------------------------------------------------------
(* Control                                                                 *)

Kind(content) == Drafts[content.key][content.draft]
FromUser(u) == tg[u.msg].place = 0

\* The kind of content an update brings.
Said(u) == Drafts[tg[u.msg].content.key][u.draft]

\* What a statement leaves behind that may fail without ending the handler.
Try(new, old) == {new} \cup (IF "db" \in Faults THEN {old} ELSE {})

Go(step, u, t, x) ==
  /\ busy' = [step |-> step, upd |-> u, topic |-> t, target |-> x]
  /\ UNCHANGED told

Return == busy' = Free /\ UNCHANGED told

\* Mutant: the handler gives up without a notice.
Drop(u) == Return

\* sendTelegramError, sendDatabaseError, sendFailedToEdit, ...: an answer to
\* the message the update is about.
Refuse(u) == busy' = Free /\ told' = told \cup {u.msg}

\* A goroutine takes an update.  One whose answer was lost comes once more.
Take(u) ==
  /\ u \in pending
  /\ \/ pending' = pending \ {u}
     \/ /\ tg[u.msg].content.key \in Repeated /\ ~u.again
        /\ pending' = (pending \ {u}) \cup {[u EXCEPT !.again = TRUE]}
  /\ overtaken' = overtaken \cup
       {u.msg : v \in {w \in pending : /\ u.type = "edit" /\ w.type = "edit"
                                       /\ w.msg = u.msg /\ w.draft < u.draft}}

\* A handler gets the mutex.
Arrive(u) ==
  /\ busy = Free /\ Take(u)
  /\ UNCHANGED <<tg, threads, nextId, links, lost>>

\* Mutant: the message ids of the two chats are taken for one another.
AnyCounterpart(u, id, m) ==
  LET found == {l.topicMsg : l \in {k \in links : k.topic = id}}
  IN  IF found = {} THEN {0} ELSE found

\* DB().Where("topic_id", id).Where("user_msg_id" or "topic_msg_id", m).Find:
\* one of the rows that match, or the zero value.
Counterpart(u, id, m) ==
  LET found == IF FromUser(u)
                 THEN {l.topicMsg : l \in {k \in links : k.topic = id /\ k.userMsg = m}}
                 ELSE {l.userMsg : l \in {k \in links : k.topic = id /\ k.topicMsg = m}}
  IN  IF found = {} THEN {0} ELSE found

\* A lookup in the database fails: sendDatabaseError.
LookupFails(u) == "db" \in Faults /\ Refuse(u)

\* The message the copy is to answer, if the original answers one.
FindReply(u, t) ==
  \/ /\ tg[u.msg].reply = 0
     /\ Go("send", u, t, 0)
  \/ /\ tg[u.msg].reply # 0
     /\ \/ \E x \in Counterpart(u, t.id, tg[u.msg].reply) : Go("send", u, t, x)
        \/ LookupFails(u)

\* The copy to be edited.
FindCopy(u, t) ==
  \/ \E x \in Counterpart(u, t.id, u.msg) :
       IF x = 0 THEN Refuse(u) ELSE Go("edit", u, t, x)
  \/ LookupFails(u)

-----------------------------------------------------------------------------
(* The four handlers, up to their first call to Telegram                   *)

\* What each of them does about a message it does not relay, before and without
\* the mutex: nothing, DeleteMessage, or sendUnsupportedMessage.
Dismiss(u) ==
  /\ Take(u)
  /\ \/ Said(u) = "ignored" /\ UNCHANGED <<tg, told>>
     \/ /\ Said(u) = "service" /\ UNCHANGED told
        /\ \/ tg' = [tg EXCEPT ![u.msg].live = FALSE]
           \/ "api" \in Faults /\ UNCHANGED tg
     \/ /\ Said(u) = "unsupported" /\ FromUser(u)
        /\ told' = told \cup {u.msg} /\ UNCHANGED tg
  /\ UNCHANGED <<threads, row, nextId, links, busy, lost>>

UserNew(u) ==
  /\ Said(u) \in Relayed
  /\ Arrive(u) /\ u.type = "new" /\ FromUser(u) /\ UNCHANGED row
  /\ \/ IF row.thread = 0 THEN Go("open", u, row, 0) ELSE FindReply(u, row)
     \/ LookupFails(u)

UserEdit(u) ==
  /\ Said(u) \in Relayed
  /\ Arrive(u) /\ u.type = "edit" /\ FromUser(u) /\ UNCHANGED row
  /\ \/ IF row.thread = 0 \/ ~row.completed THEN Refuse(u) ELSE FindCopy(u, row)
     \/ LookupFails(u)

\* A thread no row names is nobody's: what is written there is ignored.
OfNobody(u) == row.thread # tg[u.msg].place /\ Return /\ UNCHANGED row

\* In a thread that is somebody's the unsupported message is answered.
Unsupported(u) ==
  /\ Said(u) = "unsupported" /\ row.thread = tg[u.msg].place
  /\ Refuse(u) /\ UNCHANGED row

TopicNew(u) ==
  /\ Said(u) \notin Unheeded
  /\ Arrive(u) /\ u.type = "new" /\ ~FromUser(u)
  /\ \/ OfNobody(u) \/ Unsupported(u)
     \/ /\ Said(u) \in Relayed /\ row.thread = tg[u.msg].place
        /\ LET t == [row EXCEPT !.completed = TRUE]
           IN  row' \in Try(t, row) /\ FindReply(u, t)
     \/ LookupFails(u) /\ UNCHANGED row

TopicEdit(u) ==
  /\ Said(u) \notin Unheeded
  /\ Arrive(u) /\ u.type = "edit" /\ ~FromUser(u)
  /\ \/ OfNobody(u) \/ Unsupported(u)
     \/ /\ Said(u) \in Relayed /\ row.thread = tg[u.msg].place /\ UNCHANGED row
        /\ FindCopy(u, row)
     \/ LookupFails(u) /\ UNCHANGED row

-----------------------------------------------------------------------------
(* The rest of a handler                                                   *)

\* sendSender, which asks for the user's chat and photos first, then on.
Introduce(u, t) == FindReply(u, t) \/ ("api" \in Faults /\ Refuse(u))

\* CreateForumTopic, saveTopic (its error is ignored), sendSender.
OpenThread ==
  /\ busy.step = "open"
  /\ \/ LET t == [busy.topic EXCEPT !.thread = Len(threads) + 1]
            stored == IF t.id = 0 THEN [t EXCEPT !.id = nextId] ELSE t
        IN  /\ threads' = Append(threads, TRUE)
            /\ \/ /\ row' = stored
                  /\ nextId' = nextId + (IF t.id = 0 THEN 1 ELSE 0)
                  /\ Introduce(busy.upd, stored)
               \/ /\ "db" \in Faults /\ UNCHANGED <<row, nextId>>
                  /\ Introduce(busy.upd, t)
     \/ "api" \in Faults /\ Refuse(busy.upd) /\ UNCHANGED <<threads, row, nextId>>
  /\ UNCHANGED <<tg, links, pending, lost, overtaken>>

\* Mutant: the copy answers the message the original answers.
AnswersOriginal(u, x) == tg[u.msg].reply

\* ReplyParameters.MessageID = message.TopicMsgId (or UserMsgId)
Answers(u, x) == x

\* Mutant: the link is recorded although the id of the copy never came.
CopyUnchecked(u, place, x) ==
  /\ tg' = Append(tg, [place |-> place, content |-> tg[u.msg].content,
                       copyOf |-> u.msg, reply |-> Answers(u, x), live |-> TRUE])
  /\ \E id \in {Len(tg) + 1} \cup (IF "api" \in Faults THEN {0} ELSE {}) :
       Go("record", u, busy.topic, id)

\* Telegram copies what the message says now, not what the update says.  Its
\* answer may be lost, and the id of the copy with it.
Copy(u, place, x) ==
  /\ tg' = Append(tg, [place |-> place, content |-> tg[u.msg].content,
                       copyOf |-> u.msg, reply |-> Answers(u, x), live |-> TRUE])
  /\ \/ Go("record", u, busy.topic, Len(tg) + 1)
     \/ "api" \in Faults /\ Refuse(u)

Reachable(x) == x # 0 => tg[x].live

\* CopyMessage into the thread.  When the thread is gone and the message to
\* answer with it, Telegram may complain about either.
SendToThread ==
  LET u == busy.upd  th == busy.topic.thread  x == busy.target
  IN  /\ busy.step = "send" /\ FromUser(u)
      /\ \/ threads[th] /\ Reachable(x) /\ Copy(u, th, x)
         \/ /\ ~threads[th]
            /\ Go("open", u, [busy.topic EXCEPT !.thread = 0], 0) /\ UNCHANGED tg
         \/ ~Reachable(x) /\ Refuse(u) /\ UNCHANGED tg
         \/ "api" \in Faults /\ Refuse(u) /\ UNCHANGED tg
      /\ UNCHANGED <<threads, row, nextId, links, pending, lost, overtaken>>

\* sendError: whoever blocked the bot loses the topic.
BlockedOrFailed(u) ==
  \/ "blocked" \in Faults /\ Go("terminate", u, busy.topic, 0)
  \/ "api" \in Faults /\ Refuse(u)

SendToUser ==
  LET u == busy.upd
  IN  /\ busy.step = "send" /\ ~FromUser(u)
      /\ \/ tg[u.msg].live /\ Copy(u, 0, busy.target)
         \/ ~tg[u.msg].live /\ Refuse(u) /\ UNCHANGED tg
         \/ BlockedOrFailed(u) /\ UNCHANGED tg
      /\ UNCHANGED <<threads, row, nextId, links, pending, lost, overtaken>>

\* Mutant: the two ids are never told apart.
SwappedLink(u, id, x) == [topic |-> id, userMsg |-> u.msg, topicMsg |-> x]

Link(u, id, x) ==
  IF FromUser(u) THEN [topic |-> id, userMsg |-> u.msg, topicMsg |-> x]
                 ELSE [topic |-> id, userMsg |-> x, topicMsg |-> u.msg]

\* DB().Create of the link; its error is ignored.
Record ==
  /\ busy.step = "record"
  /\ links' \in Try(links \cup {Link(busy.upd, busy.topic.id, busy.target)}, links)
  /\ Return
  /\ UNCHANGED <<tg, threads, row, nextId, pending, lost, overtaken>>

\* generateEditMessage: the request by which a content replaces another one.
EditRequest(content) ==
  CASE Kind(content) = "text" -> "editMessageText"
    [] Kind(content) = "media" -> "editMessageMedia"
    [] Kind(content) = "voice" -> "editMessageCaption"

\* Telegram: which requests a message accepts.  A bot can edit what it sent,
\* and a request that changes nothing is an error.  A text with buttons
\* ("ignored") is copied without them, as a text.
Accepts(m, request, new) ==
  /\ m.live /\ m.copyOf # 0 /\ m.content # new
  /\ CASE request = "editMessageText" -> Kind(m.content) \in {"text", "ignored"}
       [] request = "editMessageMedia" -> Kind(m.content) \in {"text", "ignored", "media"}
       [] request = "editMessageCaption" -> Kind(m.content) = "voice"

\* The copy gets the content of the update, which may be an old one.  The answer
\* of an edit that was made may be lost.
EditCopy ==
  LET u == busy.upd  x == busy.target
      new == [key |-> tg[u.msg].content.key, draft |-> u.draft]
      possible == Accepts(tg[x], EditRequest(new), new)
  IN  /\ busy.step = "edit"
      /\ \/ possible /\ tg' = [tg EXCEPT ![x].content = new]
                    /\ (Return \/ ("api" \in Faults /\ Refuse(u)))
         \/ ~possible /\ Refuse(u) /\ UNCHANGED tg
         \/ UNCHANGED tg /\ IF FromUser(u) THEN "api" \in Faults /\ Refuse(u)
                                           ELSE BlockedOrFailed(u)
      /\ UNCHANGED <<threads, row, nextId, links, pending, lost, overtaken>>

\* The messages of a thread go with it.
Emptied(th) ==
  [i \in DOMAIN tg |-> IF tg[i].place = th THEN [tg[i] EXCEPT !.live = FALSE]
                                           ELSE tg[i]]

\* DeleteForumTopic (its error is ignored), terminateTopic, sendBlocked.
Terminate ==
  LET th == busy.topic.thread
  IN  /\ busy.step = "terminate"
      /\ \/ threads' = [threads EXCEPT ![th] = FALSE] /\ tg' = Emptied(th)
         \/ "api" \in Faults /\ UNCHANGED <<threads, tg>>
      /\ links' \in Try({l \in links : l.topic # busy.topic.id}, links)
      /\ row' \in Try(NoRow, row)
      /\ Refuse(busy.upd)
      /\ UNCHANGED <<nextId, pending, lost, overtaken>>

-----------------------------------------------------------------------------
(* People, the nightly job, restarts                                       *)

Visible(place) == {i \in DOMAIN tg : tg[i].place = place /\ tg[i].live}

Send(k, place) ==
  /\ \A i \in DOMAIN tg : tg[i].content.key # k
  /\ \E c \in Conversations : {tg[i].content.key : i \in DOMAIN tg} \cup {k} \subseteq c
  /\ \E r \in Visible(place) \cup {0} :
       tg' = Append(tg, [place |-> place, content |-> [key |-> k, draft |-> 1],
                         copyOf |-> 0, reply |-> r, live |-> TRUE])
  /\ pending' = pending \cup {[type |-> "new", msg |-> Len(tg) + 1, draft |-> 1,
                               again |-> FALSE]}
  /\ UNCHANGED <<threads, row, nextId, links, busy, history>>

Edit(i) ==
  LET d == tg[i].content.draft + 1
  IN  /\ tg[i].copyOf = 0 /\ tg[i].live
      /\ d \in DOMAIN Drafts[tg[i].content.key]
      /\ tg' = [tg EXCEPT ![i].content.draft = d]
      /\ pending' = pending \cup {[type |-> "edit", msg |-> i, draft |-> d,
                                   again |-> FALSE]}
      /\ UNCHANGED <<threads, row, nextId, links, busy, history>>

ThreadRemoved(th) ==
  /\ threads[th] /\ Len(threads) < MaxThreads
  /\ threads' = [threads EXCEPT ![th] = FALSE] /\ tg' = Emptied(th)
  /\ UNCHANGED <<row, nextId, links, pending, busy, history>>

MessageCleanup ==
  /\ \E old \in SUBSET links : links' = links \ old
  /\ UNCHANGED <<tg, threads, row, nextId, pending, busy, history>>

\* The process dies, or exits without waiting for its goroutines: the updates
\* that were answered with 200 are gone, the others Telegram still has.
Crash ==
  /\ "crash" \in Faults
  /\ \E gone \in SUBSET pending :
       /\ pending' = pending \ gone
       /\ lost' = lost \cup {u.msg : u \in gone}
                       \cup (IF busy = Free THEN {} ELSE {busy.upd.msg})
  /\ busy' = Free
  /\ UNCHANGED <<tg, threads, row, nextId, links, told, overtaken>>

Handler ==
  \/ OpenThread \/ SendToThread \/ SendToUser \/ Record \/ EditCopy \/ Terminate

Next ==
  \/ \E u \in pending :
       Dismiss(u) \/ UserNew(u) \/ UserEdit(u) \/ TopicNew(u) \/ TopicEdit(u)
  \/ Handler
  \/ \E k \in UserMsgs : Send(k, 0)
  \/ \E k \in AdminMsgs, th \in DOMAIN threads : threads[th] /\ Send(k, th)
  \/ \E i \in DOMAIN tg : Edit(i)
  \/ \E th \in DOMAIN threads : ThreadRemoved(th)
  \/ MessageCleanup \/ Crash

Spec == Init /\ [][Next]_vars

-----------------------------------------------------------------------------
(* Properties.  An original is in `told` if the bot refused or failed to   *)
(* pass on something of it and answered so, in `lost` if an update of it   *)
(* died with the process, in `overtaken` if an edit of it was handled      *)
(* while an earlier one was still waiting.                                 *)

Settled(o) == busy.upd.msg # o /\ \A u \in pending : u.msg # o
CopiesOf(o) == {c \in DOMAIN tg : tg[c].copyOf = o}

\* A link joins an original with its own copy, one in the private chat and one
\* in the group, whichever updates came twice, late or not at all.
LinksTrue ==
  \A l \in links :
    /\ tg[l.userMsg].place = 0 /\ tg[l.topicMsg].place # 0
    /\ \/ tg[l.topicMsg].copyOf = l.userMsg
       \/ tg[l.userMsg].copyOf = l.topicMsg

\* A copy never says what its original has not said: not the content of
\* another message, although links, threads and rows come and go.
ContentsTrue ==
  \A c \in DOMAIN tg :
    LET o == tg[c].copyOf
    IN  o # 0 => /\ tg[c].content.key = tg[o].content.key
                 /\ tg[c].content.draft <= tg[o].content.draft

\* A copy that answers a message answers the counterpart of what its original
\* answers, never an unrelated message.
RepliesTrue ==
  \A c \in DOMAIN tg :
    LET o == tg[c].copyOf
    IN  o # 0 /\ tg[c].reply # 0 =>
          /\ tg[o].reply # 0
          /\ \/ tg[tg[o].reply].copyOf = tg[c].reply
             \/ tg[tg[c].reply].copyOf = tg[o].reply

\* When nothing of a message is under way any more, its copy says what it says,
\* or the author was told, or an update died with the process, or an older edit
\* was handled after a newer one, or the message was copied twice, or it lies in
\* a thread that is not the user's (any more), or what it says by now is passed
\* over on purpose (buttons were added to it).  There is no other way for the
\* two to differ, whether the link between them still exists or not.
EditsExplained ==
  \A c \in DOMAIN tg :
    LET o == tg[c].copyOf
    IN  (/\ o # 0 /\ Settled(o) /\ tg[o].live /\ tg[c].live
         /\ tg[c].content # tg[o].content)
        => \/ o \in told \cup lost \cup overtaken
           \/ CopiesOf(o) # {c}
           \/ tg[o].place \notin {0, row.thread}
           \/ Kind(tg[o].content) \in Unheeded

\* A message that reached the bot is copied or answered or dies with the process,
\* with two exceptions, in which the bot keeps silent: the message was written
\* in a thread that is not the user's (any more), or it is one that the handlers
\* pass over on purpose (it has buttons or a web app's data, or is an
\* announcement by Telegram itself).
NobodyIgnored ==
  \A o \in DOMAIN tg :
    tg[o].copyOf = 0 /\ Settled(o) /\ CopiesOf(o) = {} =>
      \/ o \in told \cup lost
      \/ tg[o].place \notin {0, row.thread}
      \/ Drafts[tg[o].content.key][1] \in Unheeded

=============================================================================
