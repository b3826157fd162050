----------------------------- MODULE MediaGroup -----------------------------
(***************************************************************************)
(* services/bots/media_group.go: the messages of one album arrive as       *)
(* separate updates, each in a goroutine of its own.  The first one to     *)
(* enter the cache leads: it waits until the cache drops the entry, three  *)
(* seconds after its last use, and then relays what the others added to    *)
(* the group meanwhile.  They add themselves and return.                   *)
(*                                                                         *)
(* The cache is cache2go (not in this repository): NotFoundAdd and Value   *)
(* are atomic, Value renews the entry, and an entry that expired is handed *)
(* to the callback of bots.go, which closes `done`, before it is removed.  *)
(*                                                                         *)
(* The relay itself is the part of handleUserNewMessage and of             *)
(* handleTopicNewMessage that deals with a group; the topic they find, the *)
(* mutex and the tables are TopicBot's, and the topic is one that accepts  *)
(* the album.  A goroutine is named after the MessageID it handles, and a  *)
(* copy after its original.  All updates are of one album, of photos and   *)
(* videos ("visual"), of audio files or of documents, forwarded or not.    *)
(***************************************************************************)
EXTENDS Naturals, SequencesExt

CONSTANT Msgs   \* the message ids of the album

ASSUME MsgsAssumption == Msgs \subseteq Nat

VARIABLES groups,  \* the MediaGroup structs: their Messages and `done`
          cached,  \* the group the cache holds for the album, 0 if none
          pc, ref, \* per goroutine: its next step, and the group it holds
          sent,    \* per goroutine: the messages it asked Telegram to copy
          links,   \* table "messages": <<message, the message copied>>
          told,    \* the goroutines that answered with an error
          kind, forwarded   \* what the album is, and does not cease to be

album == <<kind, forwarded>>
vars == <<groups, cached, pc, ref, sent, links, told, album>>

Kinds == {"visual", "audio", "document"}

Labels == {"start", "publish", "join", "wait", "find", "late", "relay",
           "link", "done"}

TypeOK ==
  /\ groups \in Seq([messages: Seq(Msgs), done: {"nil", "open", "closed"}])
  /\ cached \in 0 .. Len(groups)
  /\ pc \in [Msgs -> Labels]
  /\ ref \in [Msgs -> 0 .. Len(groups)]
  /\ sent \in [Msgs -> Seq(Msgs)]
  /\ links \subseteq Msgs \X Msgs /\ told \subseteq Msgs
  /\ kind \in Kinds /\ forwarded \in BOOLEAN

Init ==
  /\ groups = <<>> /\ cached = 0
  /\ pc = [m \in Msgs |-> "start"] /\ ref = [m \in Msgs |-> 0]
  /\ sent = [m \in Msgs |-> <<>>] /\ links = {} /\ told = {}
  /\ kind \in Kinds /\ forwarded \in BOOLEAN

Goto(m, label) == pc' = [pc EXCEPT ![m] = label]

-----------------------------------------------------------------------------
(* getMediaGroup                                                           *)

Add(i, m) == groups' = [groups EXCEPT ![i].messages = Append(@, m)]

\* NotFoundAdd: only one goroutine finds the cache empty.
Enter(m) ==
  /\ pc[m] = "start"
  /\ \/ /\ cached = 0
        /\ groups' = Append(groups, [messages |-> <<>>, done |-> "nil"])
        /\ cached' = Len(groups) + 1
        /\ ref' = [ref EXCEPT ![m] = Len(groups) + 1]
        /\ Goto(m, "publish")
     \/ /\ cached # 0 /\ Goto(m, "find")
        /\ UNCHANGED <<groups, cached, ref>>
  /\ UNCHANGED <<sent, links, told, album>>

\* The struct gets its channel when others can see it already.
Publish(m) ==
  /\ pc[m] = "publish"
  /\ groups' = [groups EXCEPT ![ref[m]].done = "open"]
  /\ Goto(m, "join")
  /\ UNCHANGED <<cached, ref, sent, links, told, album>>

Join(m) ==
  /\ pc[m] = "join"
  /\ Add(ref[m], m)
  /\ Goto(m, "wait")
  /\ UNCHANGED <<cached, ref, sent, links, told, album>>

\* sort.Slice by MessageID; there is just one way to sort distinct messages.
Sortings(s) ==
  {t \in [DOMAIN s -> ToSet(s)] : \A i, j \in DOMAIN s : i < j => t[i] < t[j]}

\* <-done, then Sort
Wake(m) ==
  /\ pc[m] = "wait" /\ groups[ref[m]].done = "closed"
  /\ \E t \in Sortings(groups[ref[m]].messages) :
       groups' = [groups EXCEPT ![ref[m]].messages = t]
  /\ Goto(m, "relay")
  /\ UNCHANGED <<cached, ref, sent, links, told, album>>

\* Value: another goroutine leads.  When the entry is gone in the meantime
\* the message is relayed on its own.
Find(m) ==
  /\ pc[m] = "find"
  /\ \/ cached # 0 /\ ref' = [ref EXCEPT ![m] = cached] /\ Goto(m, "late")
     \/ cached = 0 /\ UNCHANGED ref /\ Goto(m, "relay")
  /\ UNCHANGED <<groups, cached, sent, links, told, album>>

\* Mutant: the caller is not told to skip the message.
AddAndGoOn(m) ==
  /\ pc[m] = "late"
  /\ Add(ref[m], m)
  /\ Goto(m, "relay")
  /\ UNCHANGED <<cached, ref, sent, links, told, album>>

AddLate(m) ==
  /\ pc[m] = "late"
  /\ Add(ref[m], m)
  /\ Goto(m, "done")
  /\ UNCHANGED <<cached, ref, sent, links, told, album>>

-----------------------------------------------------------------------------
(* The handlers: copy the group, then link the copies to the originals.    *)

\* Mutant: a group is relayed like a single message.
Alone(m) == <<m>>

Album(m) == IF ref[m] = 0 THEN <<m>> ELSE groups[ref[m]].messages

\* generateMediaGroup: the type of the input media, as it is spelt there.
InputType == [visual |-> {"photo", "video"}, audio |-> {"audio"},
              document |-> {"ducument"}]

\* Telegram: what sendMediaGroup takes.
MediaTypes == {"photo", "video", "audio", "document"}

\* CopyMessage of a message that is alone, ForwardMessages of the ids, or
\* SendMediaGroup of what generateMediaGroup makes of the messages.
Acceptable(m) ==
  ref[m] # 0 /\ ~forwarded => InputType[kind] \subseteq MediaTypes

\* Mutant: the error of Telegram is not passed on.
Silent(m) == UNCHANGED told

\* sendTelegramError, sendError
Fail(m) == told' = told \cup {m}

\* Telegram copies and its answer comes, or is lost; or it does not copy.  The
\* messages are read without the mutex of the group.
Relay(m) ==
  /\ pc[m] = "relay"
  /\ \/ /\ Acceptable(m) /\ sent' = [sent EXCEPT ![m] = Album(m)]
        /\ \/ Goto(m, "link") /\ UNCHANGED told
           \/ Goto(m, "done") /\ Fail(m)
     \/ Goto(m, "done") /\ Fail(m) /\ UNCHANGED sent
  /\ UNCHANGED <<groups, cached, ref, links, album>>

\* Mutants: the position is stored for the id; the group is sorted again.
PositionPairs(originals, copied) ==
  {<<i, copied[i]>> : i \in DOMAIN originals}
SortedPairs(originals, copied) ==
  {<<t[i], copied[i]>> : t \in Sortings(originals), i \in DOMAIN originals}

Pairs(originals, copied) ==
  {<<originals[i], copied[i]>> : i \in DOMAIN originals}

\* The loop over mediaGroup.Messages.  A group that grew since it was copied
\* is not linked at all: in a private chat the lengths are compared first, in
\* a topic messages[i] panics and Recover() ends the handler.
Link(m) ==
  /\ pc[m] = "link"
  /\ \/ /\ Len(Album(m)) = Len(sent[m])
        /\ links' = links \cup Pairs(Album(m), sent[m]) /\ UNCHANGED told
     \/ /\ Len(Album(m)) # Len(sent[m])
        /\ Fail(m) \/ UNCHANGED told
        /\ UNCHANGED links
  /\ Goto(m, "done")
  /\ UNCHANGED <<groups, cached, ref, sent, album>>

-----------------------------------------------------------------------------
(* The cache drops the entry.                                              *)

\* mediaGroupLifeSpan is long enough for a leader to get its channel ready.
Prompt == \A m \in Msgs : pc[m] \in {"publish", "join"} => ref[m] # cached

\* Mutant: the callback that closes `done` is not registered.
ExpireQuietly ==
  /\ cached # 0 /\ Prompt
  /\ cached' = 0
  /\ UNCHANGED <<groups, pc, ref, sent, links, told, album>>

Expire ==
  /\ cached # 0 /\ groups[cached].done = "open" /\ Prompt
  /\ groups' = [groups EXCEPT ![cached].done = "closed"]
  /\ UNCHANGED <<cached, pc, ref, sent, links, told, album>>

Evict ==
  /\ cached # 0 /\ groups[cached].done = "closed"
  /\ cached' = 0
  /\ UNCHANGED <<groups, pc, ref, sent, links, told, album>>

-----------------------------------------------------------------------------

Step(m) ==
  \/ Publish(m) \/ Join(m) \/ Wake(m) \/ Find(m) \/ AddLate(m)
  \/ Relay(m) \/ Link(m)

\* Every update has arrived and was handled, and the cache is empty.
Finished == cached = 0 /\ (\A m \in Msgs : pc[m] = "done") /\ UNCHANGED vars

Next == (\E m \in Msgs : Enter(m) \/ Step(m)) \/ Expire \/ Evict \/ Finished

\* Goroutines are scheduled, and timers of the cache fire.  An update need
\* not arrive: Enter has no fairness.
FairSpec == /\ Init /\ [][Next]_vars
            /\ \A m \in Msgs : WF_vars(Step(m))
            /\ WF_vars(Expire) /\ WF_vars(Evict)

-----------------------------------------------------------------------------
(* Properties                                                              *)

\* However the goroutines of an album meet, none of its messages is copied
\* twice: not by two leaders, nor by the leader and on its own.
AtMostOnce ==
  /\ \A m \in Msgs : IsInjective(sent[m])
  /\ \A a, b \in Msgs : a # b => ToSet(sent[a]) \cap ToSet(sent[b]) = {}

\* A link joins a message with its own copy, although messages may be added
\* to the group while its copies are on their way.
LinksPaired == \A l \in links : l[1] = l[2]

\* A leader is never left waiting, whatever the others do.
LeaderAwakes == \A m \in Msgs : pc[m] = "wait" ~> pc[m] = "done"

\* A message added to a group before the cache gave the group up is copied,
\* or its sender is told.  One that is added later is lost without a word.
InTimeSettled ==
  \A m \in Msgs :
    (\E i \in DOMAIN groups :
       groups[i].done = "open" /\ m \in ToSet(groups[i].messages))
      ~> \E l \in Msgs : /\ ref[l] # 0 /\ m \in ToSet(groups[ref[l]].messages)
                         /\ m \in ToSet(sent[l]) \/ l \in told

\* An allowed message (isAllowedMessage: audio, documents, photos and videos)
\* is not turned into a request that Telegram must refuse.  edit.go spells the
\* type of a document as Telegram does, generateMediaGroup does not.
NeverMalformed == \A m \in Msgs : pc[m] = "relay" => Acceptable(m)

=============================================================================
