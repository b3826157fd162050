----------------------------- MODULE RelayProofs -----------------------------
(***************************************************************************)
(* The properties of Relay hold for any number of messages, drafts,        *)
(* threads and faults.  First what every step keeps of the messages, then  *)
(* where a handler may stand after a step, then the invariant part by      *)
(* part.                                                                   *)
(***************************************************************************)
EXTENDS RelayInv, TLAPS, SequenceTheorems

\* What no step takes back: messages stay what they are copies of and answers
\* to, where they are; originals only get later drafts.
Kept ==
  /\ Len(tg) <= Len(tg') /\ Len(threads) <= Len(threads')
  /\ \A i \in DOMAIN tg :
       /\ i \in DOMAIN tg'
       /\ tg'[i].place = tg[i].place
       /\ tg'[i].copyOf = tg[i].copyOf
       /\ tg'[i].reply = tg[i].reply
       /\ tg'[i].content.key = tg[i].content.key
       /\ tg'[i].live => tg[i].live
       /\ tg'[i].content.draft \in Nat
       /\ tg[i].copyOf = 0 => tg[i].content.draft <= tg'[i].content.draft

\* The user's row loses its thread or gets a fresh one.
RowMoves == row'.thread \in {row.thread, 0} \/ row'.thread = Len(threads) + 1

LEMMA Types ==
  ASSUME TypeOK
  PROVE  /\ Len(tg) \in Nat /\ DOMAIN tg = 1 .. Len(tg)
         /\ Len(threads) \in Nat /\ DOMAIN threads = 1 .. Len(threads)
         /\ \A i \in DOMAIN tg :
              /\ tg[i] \in Message /\ tg[i].place \in Nat /\ tg[i].copyOf \in Nat
              /\ tg[i].reply \in Nat /\ tg[i].live \in BOOLEAN
              /\ tg[i].content \in Content
              /\ tg[i].content.key \in Keys /\ tg[i].content.draft \in Nat \ {0}
<1>1. /\ Len(tg) \in Nat /\ DOMAIN tg = 1 .. Len(tg)
      /\ Len(threads) \in Nat /\ DOMAIN threads = 1 .. Len(threads)
      /\ \A i \in DOMAIN tg : tg[i] \in Message
  BY DEF TypeOK
<1>2. \A m \in Message :
        /\ m.place \in Nat /\ m.copyOf \in Nat /\ m.reply \in Nat
        /\ m.live \in BOOLEAN /\ m.content \in Content
        /\ m.content.key \in Keys /\ m.content.draft \in Nat \ {0}
  BY DEF Message, Content
<1> QED  BY <1>1, <1>2

\* A function on an initial segment is a sequence.
LEMMA Segment ==
  ASSUME NEW S, NEW n \in Nat, NEW f \in [1 .. n -> S]
  PROVE  f \in Seq(S) /\ Len(f) = n /\ DOMAIN f = 1 .. n
  OBVIOUS

-----------------------------------------------------------------------------
(* The ways in which the messages change                                   *)

LEMMA Unchanged ==
  ASSUME TypeOK, tg' = tg, Len(threads') >= Len(threads), threads' \in Seq(BOOLEAN)
  PROVE  Kept
  BY Types DEF Kept

LEMMA Appended ==
  ASSUME TypeOK, NEW m \in Message, tg' = Append(tg, m), threads' = threads
  PROVE  /\ Kept /\ tg' \in Seq(Message)
         /\ Len(tg') = Len(tg) + 1 /\ DOMAIN tg' = DOMAIN tg \cup {Len(tg) + 1}
         /\ \A i \in DOMAIN tg : tg'[i] = tg[i]
         /\ tg'[Len(tg) + 1] = m
<1>1. tg \in Seq(Message) /\ Len(tg) \in Nat /\ DOMAIN tg = 1 .. Len(tg)
  BY Types DEF TypeOK
<1>2. tg' \in Seq(Message) /\ Len(tg') = Len(tg) + 1
  BY <1>1
<1>3. /\ DOMAIN tg' = DOMAIN tg \cup {Len(tg) + 1}
      /\ \A i \in DOMAIN tg : tg'[i] = tg[i]
      /\ tg'[Len(tg) + 1] = m
  BY <1>1
<1> QED  BY <1>1, <1>2, <1>3, Types DEF Kept

LEMMA Changed ==
  ASSUME TypeOK, NEW x \in DOMAIN tg, NEW m \in Message, tg' = [tg EXCEPT ![x] = m]
  PROVE  /\ tg' \in Seq(Message) /\ Len(tg') = Len(tg) /\ DOMAIN tg' = DOMAIN tg
         /\ \A i \in DOMAIN tg : i # x => tg'[i] = tg[i]
         /\ tg'[x] = m
<1>1. tg \in Seq(Message) /\ Len(tg) \in Nat /\ DOMAIN tg = 1 .. Len(tg)
  BY Types DEF TypeOK
<1> QED  BY <1>1

\* A content changes: that of a copy, or that of an original to a later draft.
LEMMA Edited ==
  ASSUME TypeOK, NEW x \in DOMAIN tg, NEW c \in Content,
         tg' = [tg EXCEPT ![x].content = c], threads' = threads,
         c.key = tg[x].content.key,
         tg[x].copyOf # 0 \/ tg[x].content.draft <= c.draft
  PROVE  /\ Kept /\ tg' \in Seq(Message)
         /\ Len(tg') = Len(tg) /\ DOMAIN tg' = DOMAIN tg
         /\ \A i \in DOMAIN tg : i # x => tg'[i] = tg[i]
         /\ tg'[x].content = c /\ tg'[x].live = tg[x].live
<1> DEFINE m == [tg[x] EXCEPT !.content = c]
<1>1. Len(tg) \in Nat /\ DOMAIN tg = 1 .. Len(tg)
  BY Types
<1>2. /\ m \in Message /\ m.content = c /\ m.place = tg[x].place
      /\ m.copyOf = tg[x].copyOf /\ m.reply = tg[x].reply /\ m.live = tg[x].live
  BY Types DEF Message
<1>3. tg' = [tg EXCEPT ![x] = m]
  OBVIOUS
<1> HIDE DEF m
<1>4. /\ tg' \in Seq(Message) /\ Len(tg') = Len(tg) /\ DOMAIN tg' = DOMAIN tg
      /\ \A i \in DOMAIN tg : i # x => tg'[i] = tg[i]
      /\ tg'[x] = m
  BY <1>2, <1>3, Changed
<1> QED  BY <1>1, <1>2, <1>4, Types DEF Kept, Content

LEMMA Gone ==
  ASSUME TypeOK, NEW th, tg' = Emptied(th), threads' = [threads EXCEPT ![th] = FALSE]
  PROVE  /\ Kept /\ tg' \in Seq(Message) /\ threads' \in Seq(BOOLEAN)
         /\ Len(tg') = Len(tg) /\ DOMAIN tg' = DOMAIN tg
         /\ Len(threads') = Len(threads)
         /\ \A i \in DOMAIN tg : tg'[i].content = tg[i].content
<1>1. /\ tg \in Seq(Message) /\ Len(tg) \in Nat /\ DOMAIN tg = 1 .. Len(tg)
      /\ threads \in Seq(BOOLEAN)
  BY Types DEF TypeOK
<1>2. ASSUME NEW i \in DOMAIN tg
      PROVE  /\ tg'[i] \in Message
             /\ tg'[i].place = tg[i].place /\ tg'[i].copyOf = tg[i].copyOf
             /\ tg'[i].reply = tg[i].reply /\ tg'[i].content = tg[i].content
             /\ tg'[i].live => tg[i].live
  <2>1. tg'[i] = IF tg[i].place = th THEN [tg[i] EXCEPT !.live = FALSE] ELSE tg[i]
    BY DEF Emptied
  <2> DEFINE m == tg[i]
  <2>2. m \in Message
    BY Types
  <2> HIDE DEF m
  <2>3. /\ [m EXCEPT !.live = FALSE] \in Message
        /\ [m EXCEPT !.live = FALSE].place = m.place
        /\ [m EXCEPT !.live = FALSE].copyOf = m.copyOf
        /\ [m EXCEPT !.live = FALSE].reply = m.reply
        /\ [m EXCEPT !.live = FALSE].content = m.content
        /\ [m EXCEPT !.live = FALSE].live = FALSE
    BY <2>2 DEF Message
  <2> QED  BY <2>1, <2>2, <2>3 DEF m
<1>3. tg' \in Seq(Message) /\ Len(tg') = Len(tg) /\ DOMAIN tg' = DOMAIN tg
  <2>1. tg' \in [1 .. Len(tg) -> Message]
    BY <1>1, <1>2 DEF Emptied
  <2> QED  BY <1>1, <1>2, <2>1, Segment
<1>4. threads' \in Seq(BOOLEAN) /\ Len(threads') = Len(threads)
  <2>1. threads \in [1 .. Len(threads) -> BOOLEAN] /\ Len(threads) \in Nat
    BY Types, <1>1
  <2>2. threads' \in [1 .. Len(threads) -> BOOLEAN]
    BY <2>1, Zenon
  <2> QED  BY <2>1, <2>2, Segment
<1> QED  BY <1>1, <1>2, <1>3, <1>4, Types DEF Kept

\* One message is deleted.
LEMMA Deleted ==
  ASSUME TypeOK, NEW x \in DOMAIN tg, tg' = [tg EXCEPT ![x].live = FALSE],
         threads' = threads
  PROVE  /\ Kept /\ tg' \in Seq(Message) /\ DOMAIN tg' = DOMAIN tg
         /\ \A i \in DOMAIN tg : tg'[i].content = tg[i].content
<1> DEFINE m == [tg[x] EXCEPT !.live = FALSE]
<1>1. Len(tg) \in Nat /\ DOMAIN tg = 1 .. Len(tg)
  BY Types
<1>2. /\ m \in Message /\ m.content = tg[x].content /\ m.place = tg[x].place
      /\ m.copyOf = tg[x].copyOf /\ m.reply = tg[x].reply /\ m.live = FALSE
  BY Types DEF Message
<1>3. tg' = [tg EXCEPT ![x] = m]
  OBVIOUS
<1> HIDE DEF m
<1>4. /\ tg' \in Seq(Message) /\ Len(tg') = Len(tg) /\ DOMAIN tg' = DOMAIN tg
      /\ \A i \in DOMAIN tg : i # x => tg'[i] = tg[i]
      /\ tg'[x] = m
  BY <1>2, <1>3, Changed
<1> QED  BY <1>1, <1>2, <1>4, Types DEF Kept

-----------------------------------------------------------------------------
(* What was found out about a message stays true                           *)

LEMMA GenuineKept ==
  ASSUME TypeOK, Kept, NEW u \in Update, Genuine(u)
  PROVE  Genuine(u)'
<1>1. /\ u.type \in {"new", "edit"} /\ u.msg \in DOMAIN tg /\ tg[u.msg].copyOf = 0
      /\ u.draft \in 1 .. tg[u.msg].content.draft
      /\ tg[u.msg].content.draft \in Nat
      /\ u.type = "new" => u.draft = 1
  BY Types DEF Genuine
<1>2. /\ u.msg \in DOMAIN tg' /\ tg'[u.msg].copyOf = 0
      /\ tg'[u.msg].content.draft \in Nat
      /\ tg[u.msg].content.draft <= tg'[u.msg].content.draft
  BY <1>1 DEF Kept
<1> QED  BY <1>1, <1>2 DEF Genuine

LEMMA PairedKept ==
  ASSUME TypeOK, Kept, NEW a \in DOMAIN tg, NEW b \in DOMAIN tg, Paired(a, b)
  PROVE  Paired(a, b)' /\ a \in DOMAIN tg' /\ b \in DOMAIN tg'
  BY DEF Kept, Paired

LEMMA UnderWayKept ==
  ASSUME TypeOK, Places, Kept, threads' \in Seq(BOOLEAN),
         NEW step, NEW u \in Update, NEW t \in Row, NEW x, UnderWay(step, u, t, x)
  PROVE  UnderWay(step, u, t, x)'
<1>1. Genuine(u) /\ Genuine(u)' /\ u.msg \in DOMAIN tg
  BY GenuineKept DEF UnderWay, Genuine
<1>2. CASE step = "send"
  <2>1. t.thread \in DOMAIN threads'
    BY <1>2, Types DEF UnderWay, Kept
  <2>2. Counterparts(u, x)'
    <3> SUFFICES ASSUME x # 0  PROVE Counterparts(u, x)'
      BY DEF Counterparts
    <3>1. x \in DOMAIN tg /\ tg[u.msg].reply # 0 /\ Paired(tg[u.msg].reply, x)
      BY <1>2 DEF UnderWay, Counterparts
    <3> DEFINE r == tg[u.msg].reply
    <3>2. r \in DOMAIN tg /\ tg'[u.msg].reply = r
      BY <1>1, <3>1 DEF Places, Kept
    <3> HIDE DEF r
    <3>3. Paired(r, x)
      BY <3>1 DEF r
    <3>4. (tg'[r].copyOf = x \/ tg'[x].copyOf = r) /\ x \in DOMAIN tg'
      BY <3>1, <3>2, <3>3 DEF Kept, Paired
    <3> QED  BY <3>1, <3>2, <3>4 DEF Counterparts, Paired, r
  <2> QED  BY <1>1, <1>2, <2>1, <2>2 DEF UnderWay
<1>3. CASE step # "send"
  BY <1>1, <1>3 DEF UnderWay, Kept
<1> QED  BY <1>2, <1>3

-----------------------------------------------------------------------------
(* Where a handler stands after a step                                     *)

\* The handler of u goes on, with what its next call relies on ...
Continues(u) ==
  /\ told' = told
  /\ \E step \in Steps \ {"free"}, t \in Row, x \in Nat :
       /\ busy' = [step |-> step, upd |-> u, topic |-> t, target |-> x]
       /\ UnderWay(step, u, t, x)'

\* ... or ends with an answer.
Outcome(u) == Continues(u) \/ Refuse(u)

\* A lookup finds nothing or the other side of a link.
LEMMA Found ==
  ASSUME TypeOK, LinksTrue, NEW u, NEW id, NEW m \in DOMAIN tg,
         NEW x \in Counterpart(u, id, m)
  PROVE  x = 0 \/ (x \in DOMAIN tg /\ Paired(m, x))
<1>1. \/ x = 0
      \/ \E l \in links : l.userMsg = m /\ l.topicMsg = x
      \/ \E l \in links : l.topicMsg = m /\ l.userMsg = x
  <2>1. CASE FromUser(u)
    BY <2>1, Zenon DEF Counterpart
  <2>2. CASE ~FromUser(u)
    BY <2>2, Zenon DEF Counterpart
  <2> QED  BY <2>1, <2>2
<1>2. ASSUME NEW l \in links
      PROVE  /\ l.userMsg \in DOMAIN tg /\ l.topicMsg \in DOMAIN tg
             /\ Paired(l.userMsg, l.topicMsg)
  BY DEF TypeOK, LinksTrue, Paired
<1> QED  BY <1>1, <1>2 DEF Paired

LEMMA Finds ==
  ASSUME TypeOK, LinksTrue, Places, tg' = tg, NEW u \in Update, Genuine(u),
         NEW t \in Row, u.type = "new", t.thread \in DOMAIN threads',
         FindReply(u, t)
  PROVE  Outcome(u)
<1>1. u.msg \in DOMAIN tg /\ Genuine(u)'
  BY DEF Genuine
<1>2. ASSUME NEW x \in Nat, Go("send", u, t, x), Counterparts(u, x)
      PROVE  Continues(u)
  <2>1. Counterparts(u, x)'
    BY <1>2 DEF Counterparts, Paired
  <2>2. UnderWay("send", u, t, x)'
    BY <1>1, <2>1 DEF UnderWay
  <2> QED  BY <1>2, <2>2 DEF Continues, Go, Steps
<1>3. CASE tg[u.msg].reply = 0 /\ Go("send", u, t, 0)
  BY <1>2, <1>3 DEF Counterparts, Outcome
<1>4. ASSUME tg[u.msg].reply # 0,
             NEW x \in Counterpart(u, t.id, tg[u.msg].reply), Go("send", u, t, x)
      PROVE  Continues(u)
  <2>1. tg[u.msg].reply \in DOMAIN tg
    BY <1>1, <1>4 DEF Places
  <2>2. x = 0 \/ (x \in DOMAIN tg /\ Paired(tg[u.msg].reply, x))
    BY <2>1, Found
  <2>3. x \in Nat /\ Counterparts(u, x)
    BY <1>4, <2>2, Types DEF Counterparts
  <2> QED  BY <1>2, <1>4, <2>3
<1> QED  BY <1>3, <1>4 DEF FindReply, LookupFails, Outcome

LEMMA FindsCopy ==
  ASSUME TypeOK, LinksTrue, tg' = tg, NEW u \in Update, Genuine(u),
         NEW t \in Row, u.type = "edit", FindCopy(u, t)
  PROVE  Outcome(u)
<1>1. u.msg \in DOMAIN tg /\ tg[u.msg].copyOf = 0 /\ Genuine(u)'
  BY DEF Genuine
<1>2. ASSUME NEW x \in Counterpart(u, t.id, u.msg), x # 0, Go("edit", u, t, x)
      PROVE  Continues(u)
  <2>1. x \in DOMAIN tg /\ Paired(u.msg, x)
    BY <1>1, <1>2, Found
  <2>2. x \in Nat /\ tg[x].copyOf = u.msg
    BY <1>1, <1>2, <2>1, Types DEF Paired
  <2>3. UnderWay("edit", u, t, x)'
    BY <1>1, <2>1, <2>2 DEF UnderWay
  <2> QED  BY <1>2, <2>2, <2>3 DEF Continues, Go, Steps
<1> QED  BY <1>2 DEF FindCopy, LookupFails, Outcome

-----------------------------------------------------------------------------
(* The invariant, part by part                                             *)

LEMMA StillGenuine ==
  ASSUME IInv, Kept
  PROVE  \A u \in pending : u \in Update /\ Genuine(u) /\ Genuine(u)'
  BY GenuineKept DEF IInv, TypeOK

\* The update and the local variables of the handler under way.
LEMMA InHand ==
  ASSUME IInv, busy.step # "free"
  PROVE  /\ busy.upd \in Update /\ busy.topic \in Row /\ busy.target \in Nat
         /\ UnderWay(busy.step, busy.upd, busy.topic, busy.target)
         /\ Genuine(busy.upd) /\ busy.upd.msg \in DOMAIN tg
  BY DEF IInv, TypeOK, Handling, UnderWay, Genuine

LEMMA NobodyInHand ==
  ASSUME IInv, busy.step = "free"
  PROVE  busy = Free /\ busy.upd = NoUpdate /\ busy.upd.msg = 0
         /\ busy.upd.type = "none"
  BY DEF IInv, Handling, Free, NoUpdate

LEMMA HandlingAfter ==
  ASSUME NEW u \in Update, Outcome(u) \/ Return
  PROVE  /\ Handling'
         /\ busy' \in [step: Steps, upd: Update, topic: Row, target: Nat]
         /\ busy'.upd \in {u, NoUpdate}
         /\ told' \in {told, told \cup {u.msg}}
<1>1. CASE Continues(u)
  <2>1. told' = told
    BY <1>1 DEF Continues
  <2>2. PICK step \in Steps \ {"free"}, t \in Row, x \in Nat :
             /\ busy' = [step |-> step, upd |-> u, topic |-> t, target |-> x]
             /\ UnderWay(step, u, t, x)'
    BY <1>1 DEF Continues
  <2>3. Handling'
    BY <2>2 DEF Handling
  <2> QED  BY <2>1, <2>2, <2>3
<1>2. CASE Refuse(u) \/ Return
  <2>1. busy' = Free /\ told' \in {told, told \cup {u.msg}}
    BY <1>2 DEF Refuse, Return
  <2> QED  BY <2>1 DEF Handling, Free, Steps, Update, NoUpdate, Row, NoRow
<1> QED  BY <1>1, <1>2 DEF Outcome

LEMMA HandlingKept ==
  ASSUME IInv, Kept, threads' \in Seq(BOOLEAN), busy' = busy
  PROVE  Handling'
<1>1. CASE busy.step = "free"
  BY <1>1, NobodyInHand DEF Handling
<1>2. CASE busy.step # "free"
  <2> DEFINE s == busy.step  u == busy.upd  t == busy.topic  x == busy.target
  <2>1. u \in Update /\ t \in Row /\ UnderWay(s, u, t, x)
    BY <1>2, InHand
  <2>2. s' = s /\ u' = u /\ t' = t /\ x' = x
    OBVIOUS
  <2> HIDE DEF s, u, t, x
  <2>3. UnderWay(s, u, t, x)'
    BY <2>1, <2>2, UnderWayKept DEF IInv
  <2> QED  BY <1>2, <2>3 DEF Handling, s, u, t, x
<1> QED  BY <1>1, <1>2

\* No message is added: what is said of places, copies and answers remains.
LEMMA MessagesSame ==
  ASSUME IInv, Kept, TypeOK', DOMAIN tg' = DOMAIN tg, row'.thread <= Len(threads')
  PROVE  Copies' /\ Places' /\ RepliesTrue'
<1>1. Copies'
  BY DEF IInv, Copies, Kept
<1>2. Places'
  <2>1. Len(threads) \in Nat /\ Len(threads') \in Nat /\ Len(threads) <= Len(threads')
    BY Types DEF IInv, TypeOK, Kept
  <2>2. ASSUME NEW i \in DOMAIN tg'
        PROVE  tg'[i].reply \in DOMAIN tg' \cup {0} /\ tg'[i].place <= Len(threads')
    <3>1. i \in DOMAIN tg /\ tg'[i].reply = tg[i].reply /\ tg'[i].place = tg[i].place
      BY DEF Kept
    <3>2. /\ tg[i].reply \in DOMAIN tg \cup {0} /\ tg[i].place <= Len(threads)
          /\ tg[i].place \in Nat
      BY <3>1, Types DEF IInv, Places
    <3> QED  BY <2>1, <3>1, <3>2
  <2> QED  BY <2>2 DEF Places
<1>3. RepliesTrue'
  <2> SUFFICES ASSUME NEW c \in DOMAIN tg', tg'[c].copyOf # 0, tg'[c].reply # 0
               PROVE  LET o == tg'[c].copyOf
                      IN  /\ tg'[o].reply # 0
                          /\ \/ tg'[tg'[o].reply].copyOf = tg'[c].reply
                             \/ tg'[tg'[c].reply].copyOf = tg'[o].reply
    BY DEF RepliesTrue
  <2> DEFINE o == tg[c].copyOf  r == tg[c].reply  q == tg[o].reply
  <2>1. c \in DOMAIN tg /\ tg'[c].copyOf = o /\ tg'[c].reply = r /\ o # 0 /\ r # 0
    BY DEF Kept
  <2>2. o \in DOMAIN tg /\ r \in DOMAIN tg
    BY <2>1 DEF IInv, Copies, Places
  <2>3. q # 0 /\ (tg[q].copyOf = r \/ tg[r].copyOf = q)
    BY <2>1 DEF IInv, RepliesTrue
  <2>4. q \in DOMAIN tg /\ tg'[o].reply = q
    BY <2>2, <2>3 DEF IInv, Places, Kept
  <2> HIDE DEF o, r, q
  <2>5. tg'[q].copyOf = tg[q].copyOf /\ tg'[r].copyOf = tg[r].copyOf
    BY <2>2, <2>4 DEF Kept
  <2> QED  BY <2>1, <2>3, <2>4, <2>5
<1> QED  BY <1>1, <1>2, <1>3

LEMMA ContentsSame ==
  ASSUME IInv, Kept, DOMAIN tg' = DOMAIN tg,
         \A i \in DOMAIN tg : tg'[i].content = tg[i].content
  PROVE  ContentsTrue'
  BY DEF IInv, Copies, ContentsTrue, Kept

LEMMA LinksSame ==
  ASSUME IInv, Kept, links' \subseteq links
  PROVE  LinksTrue'
<1> SUFFICES ASSUME NEW l \in links'
             PROVE  /\ tg'[l.userMsg].place = 0 /\ tg'[l.topicMsg].place # 0
                    /\ \/ tg'[l.topicMsg].copyOf = l.userMsg
                       \/ tg'[l.userMsg].copyOf = l.topicMsg
  BY DEF LinksTrue
<1>1. l \in links /\ l.userMsg \in DOMAIN tg /\ l.topicMsg \in DOMAIN tg
  BY DEF IInv, TypeOK
<1>2. /\ tg[l.userMsg].place = 0 /\ tg[l.topicMsg].place # 0
      /\ \/ tg[l.topicMsg].copyOf = l.userMsg
         \/ tg[l.userMsg].copyOf = l.topicMsg
  BY <1>1 DEF IInv, LinksTrue
<1> QED  BY <1>1, <1>2 DEF Kept

LEMMA TypesAfter ==
  ASSUME IInv, Kept, tg' \in Seq(Message), threads' \in Seq(BOOLEAN),
         row' \in Row, nextId' \in Nat, links' \subseteq Msg,
         \A l \in links' : {l.userMsg, l.topicMsg} \subseteq DOMAIN tg',
         pending' \subseteq Update,
         busy' \in [step: Steps, upd: Update, topic: Row, target: Nat],
         told' \cup lost' \cup overtaken' \subseteq DOMAIN tg'
  PROVE  TypeOK'
  BY DEF TypeOK

LEMMA LinksLeft ==
  ASSUME IInv, Kept, links' \subseteq links
  PROVE  /\ links' \subseteq Msg /\ LinksTrue'
         /\ \A l \in links' : {l.userMsg, l.topicMsg} \subseteq DOMAIN tg'
<1>1. links' \subseteq Msg
  BY DEF IInv, TypeOK
<1>2. \A l \in links' : {l.userMsg, l.topicMsg} \subseteq DOMAIN tg'
  BY DEF IInv, TypeOK, Kept
<1> QED  BY <1>1, <1>2, LinksSame

\* How message o may be accounted for after a step.
Handled(o) ==
  \/ busy'.upd.msg = o
  \/ \E c \in DOMAIN tg' : tg'[c].copyOf = o
  \/ o \in told' \cup lost'
  \/ tg'[o].place \notin {0, row'.thread}
  \/ Drafts[tg'[o].content.key][1] \in Unheeded

StillNew(o) == \E v \in pending' : v.type = "new" /\ v.msg = o

LEMMA PlacesLeft ==
  ASSUME IInv, Kept, RowMoves, NEW o \in DOMAIN tg, tg[o].place \notin {0, row.thread}
  PROVE  tg'[o].place \notin {0, row'.thread}
<1>1. tg[o].place \in Nat /\ tg[o].place <= Len(threads) /\ Len(threads) \in Nat
  BY Types DEF IInv, Places
<1> QED  BY <1>1 DEF RowMoves, Kept

LEMMA AttendedAfter ==
  ASSUME IInv, Kept, RowMoves, told \subseteq told', lost \subseteq lost',
         \A u \in pending : u.type = "new" => StillNew(u.msg) \/ Handled(u.msg),
         busy.step # "free" => Handled(busy.upd.msg),
         \A o \in DOMAIN tg' \ DOMAIN tg : tg'[o].copyOf # 0 \/ StillNew(o)
  PROVE  Attended'
<1> SUFFICES ASSUME NEW o \in DOMAIN tg', tg'[o].copyOf = 0
             PROVE  StillNew(o) \/ Handled(o)
  BY DEF Attended, StillNew, Handled, CopiesOf
<1>1. CASE o \notin DOMAIN tg
  BY <1>1
<1>2. CASE o \in DOMAIN tg
  <2>1. tg[o].copyOf = 0 /\ o # 0
    BY <1>2, Types DEF Kept, IInv
  <2>2. \/ \E u \in pending : u.type = "new" /\ u.msg = o
        \/ busy.upd.msg = o
        \/ CopiesOf(o) # {} \/ o \in told \cup lost
        \/ tg[o].place \notin {0, row.thread}
        \/ Drafts[tg[o].content.key][1] \in Unheeded
    BY <1>2, <2>1 DEF IInv, Attended
  <2>3. CASE \E u \in pending : u.type = "new" /\ u.msg = o
    BY <2>3
  <2>4. CASE busy.upd.msg = o
    BY <2>1, <2>4, NobodyInHand
  <2>5. CASE CopiesOf(o) # {}
    BY <2>5 DEF CopiesOf, Handled, Kept
  <2>6. CASE o \in told \cup lost
    BY <2>6 DEF Handled
  <2>7. CASE tg[o].place \notin {0, row.thread}
    BY <1>2, <2>7, PlacesLeft DEF Handled
  <2>8. CASE Drafts[tg[o].content.key][1] \in Unheeded
    BY <1>2, <2>8 DEF Handled, Kept
  <2> QED  BY <2>2, <2>3, <2>4, <2>5, <2>6, <2>7, <2>8
<1> QED  BY <1>1, <1>2

\* The edits that wait.
EditsWait == {w \in pending : w.type = "edit"}

\* Where nothing was edited: pending edits, the edit under way and the drafts
\* of originals stay, but the handler may be done.
LEMMA SameEdits ==
  ASSUME EditsWait' = EditsWait, NEW o
  PROVE  EditsOf(o)' = EditsOf(o)
  BY DEF EditsWait, EditsOf

LEMMA InOrderKept ==
  ASSUME IInv, Kept, EditsWait' = EditsWait, told \subseteq told', lost' = lost,
         overtaken' = overtaken, busy'.upd \in {busy.upd, NoUpdate},
         \A o \in DOMAIN tg : tg[o].copyOf = 0 =>
           tg'[o].content.draft = tg[o].content.draft
  PROVE  InOrder'
<1> SUFFICES ASSUME NEW o \in DOMAIN tg', o \notin told \cup lost \cup overtaken,
                    Kind(tg'[o].content) \notin Unheeded
             PROVE  \/ LatestWaits(o)'
                    \/ /\ EditsOf(o)' = {}
                       /\ busy'.upd.type = "edit" /\ busy'.upd.msg = o =>
                            busy'.upd.draft = tg'[o].content.draft
  BY DEF InOrder
<1>1. CASE o \in DOMAIN tg /\ tg[o].copyOf = 0
  <2>1. tg'[o].content.draft = tg[o].content.draft
    BY <1>1
  <2>2. EditsOf(o)' = EditsOf(o) /\ (LatestWaits(o) => LatestWaits(o)')
    BY <2>1, SameEdits DEF LatestWaits
  <2>3. Kind(tg[o].content) \notin Unheeded
    BY <1>1, <2>1 DEF Kept, Kind
  <2>4. \/ LatestWaits(o)
        \/ /\ EditsOf(o) = {}
           /\ busy.upd.type = "edit" /\ busy.upd.msg = o =>
                busy.upd.draft = tg[o].content.draft
    BY <1>1, <2>3 DEF IInv, InOrder
  <2> QED  BY <2>1, <2>2, <2>4 DEF NoUpdate
<1>2. CASE ~(o \in DOMAIN tg /\ tg[o].copyOf = 0)
  <2>1. EditsOf(o)' = {}
    BY <1>2, SameEdits, StillGenuine DEF EditsOf, Genuine
  <2>2. ~(busy'.upd.type = "edit" /\ busy'.upd.msg = o)
    BY <1>2, InHand, NobodyInHand DEF NoUpdate, Genuine
  <2> QED  BY <2>1, <2>2
<1> QED  BY <1>1, <1>2

LEMMA UpToDateKept ==
  ASSUME IInv, Kept, RowMoves, EditsWait' = EditsWait, told \subseteq told',
         lost' = lost, overtaken' = overtaken,
         \/ busy'.upd = busy.upd
         \/ busy.upd.msg \in told'
         \/ busy.upd.type # "edit",
         \A i \in DOMAIN tg : tg'[i].content = tg[i].content,
         \A c \in DOMAIN tg' \ DOMAIN tg : tg'[c].copyOf # 0 =>
           tg'[c].content = tg'[tg'[c].copyOf].content
  PROVE  UpToDate'
<1> SUFFICES ASSUME NEW c \in DOMAIN tg', NEW o, o = tg'[c].copyOf,
                    o # 0, CopiesOf(o)' = {c}, ~Excused(o)',
                    tg'[o].live, tg'[c].live, tg'[c].content # tg'[o].content
             PROVE  \/ LatestWaits(o)'
                    \/ /\ busy'.upd.type = "edit" /\ busy'.upd.msg = o
                       /\ busy'.upd.draft = tg'[o].content.draft
  BY DEF UpToDate
<1>1. c \in DOMAIN tg
  OBVIOUS
<1>2. tg[c].copyOf = o /\ tg[c].live /\ o \in DOMAIN tg
  BY <1>1 DEF IInv, Copies, Kept
<1>3. tg[o].live /\ tg[c].content # tg[o].content /\ tg'[o].content = tg[o].content
  BY <1>1, <1>2 DEF Kept
<1>4. CopiesOf(o) = {c}
  <2>1. CopiesOf(o) \subseteq CopiesOf(o)'
    BY DEF CopiesOf, Kept
  <2> QED  BY <1>1, <1>2, <2>1 DEF CopiesOf
<1>5. ~Excused(o)
  BY <1>2, <1>3, PlacesLeft DEF Excused
<1>6. \/ LatestWaits(o)
      \/ /\ busy.upd.type = "edit" /\ busy.upd.msg = o
         /\ busy.upd.draft = tg[o].content.draft
  BY <1>1, <1>2, <1>3, <1>4, <1>5 DEF IInv, UpToDate
<1>7. CASE LatestWaits(o)
  BY <1>3, <1>7, SameEdits DEF LatestWaits
<1>8. CASE /\ busy.upd.type = "edit" /\ busy.upd.msg = o
           /\ busy.upd.draft = tg[o].content.draft
  <2>1. busy.upd.msg \notin told'
    BY <1>8 DEF Excused
  <2> QED  BY <1>3, <1>8, <2>1
<1> QED  BY <1>6, <1>7, <1>8

-----------------------------------------------------------------------------
(* An update is taken                                                      *)

\* What is written in a thread that is not the user's is passed over.
PassedOver(u) == Return /\ tg[u.msg].place \notin {0, row.thread}

Arriving(u) == UserNew(u) \/ UserEdit(u) \/ TopicNew(u) \/ TopicEdit(u)

LEMMA Arrivals ==
  ASSUME IInv, NEW u \in pending, Arriving(u)
  PROVE  /\ Arrive(u) /\ u \in Update /\ Genuine(u)
         /\ row' \in Row /\ row'.thread = row.thread
         /\ Outcome(u) \/ PassedOver(u)
<1>1. /\ TypeOK /\ LinksTrue /\ Places /\ u \in Update /\ Genuine(u)
      /\ u.msg \in DOMAIN tg /\ row \in Row
  BY DEF IInv, TypeOK, Genuine
<1>2. tg[u.msg].place \in Nat /\ tg[u.msg].place <= Len(threads)
  BY <1>1, Types DEF Places
<1>3. row.thread \in Nat /\ row.thread <= Len(threads)
  BY <1>1 DEF Row, Places
<1>4. CASE UserNew(u)
  <2>1. Arrive(u) /\ tg' = tg /\ threads' = threads /\ u.type = "new" /\ row' = row
    BY <1>4 DEF UserNew, Arrive
  <2>2. CASE row.thread = 0 /\ Go("open", u, row, 0)
    <3>1. Continues(u)
      <4>1. 0 \in Nat /\ "open" \in Steps \ {"free"} /\ told' = told
        BY <2>2 DEF Go, Steps
      <4>2. busy' = [step |-> "open", upd |-> u, topic |-> row, target |-> 0]
        BY <2>2 DEF Go
      <4>3. PICK r \in Row : r = row
        BY <1>1
      <4>4. UnderWay("open", u, r, 0)'
        BY <1>1, <2>1 DEF UnderWay, Genuine
      <4> QED  BY <4>1, <4>2, <4>3, <4>4 DEF Continues
    <3> QED  BY <1>1, <2>1, <3>1 DEF Outcome
  <2>3. CASE row.thread # 0 /\ FindReply(u, row)
    <3>1. PICK r \in Row : r = row
      BY <1>1
    <3>2. r.thread \in DOMAIN threads'
      BY <1>1, <1>3, <2>1, <2>3, <3>1, Types
    <3>3. Outcome(u)
      BY <1>1, <2>1, <2>3, <3>1, <3>2, Finds
    <3> QED  BY <1>1, <2>1, <3>3
  <2>4. CASE Refuse(u)
    BY <1>1, <2>1, <2>4 DEF Outcome
  <2> QED  BY <1>4, <2>2, <2>3, <2>4 DEF UserNew, LookupFails
<1>5. CASE UserEdit(u)
  <2>1. Arrive(u) /\ tg' = tg /\ u.type = "edit" /\ row' = row
    BY <1>5 DEF UserEdit, Arrive
  <2>2. CASE FindCopy(u, row)
    <3>1. PICK r \in Row : r = row
      BY <1>1
    <3> QED  BY <1>1, <2>1, <2>2, <3>1, FindsCopy
  <2>3. CASE Refuse(u)
    BY <1>1, <2>1, <2>3 DEF Outcome
  <2> QED  BY <1>5, <2>2, <2>3 DEF UserEdit, LookupFails
<1>6. CASE TopicNew(u)
  <2>1. Arrive(u) /\ tg' = tg /\ threads' = threads /\ u.type = "new" /\ ~FromUser(u)
    BY <1>6 DEF TopicNew, Arrive
  <2>2. CASE OfNobody(u)
    BY <1>1, <2>1, <2>2 DEF OfNobody, PassedOver, FromUser
  <2>3. CASE LookupFails(u) /\ row' = row
    BY <1>1, <2>1, <2>3 DEF LookupFails, Outcome
  <2>4. CASE /\ row.thread = tg[u.msg].place
             /\ row' \in Try([row EXCEPT !.completed = TRUE], row)
             /\ FindReply(u, [row EXCEPT !.completed = TRUE])
    <3>1. PICK r \in Row : r = [row EXCEPT !.completed = TRUE]
      BY <1>1 DEF Row
    <3>2. row' \in {r, row} /\ r.thread = row.thread
      BY <1>1, <2>4, <3>1 DEF Try, Row
    <3>3. r.thread \in DOMAIN threads'
      BY <1>1, <1>2, <2>1, <2>4, <3>2, Types DEF FromUser
    <3>4. Outcome(u)
      BY <1>1, <2>1, <2>4, <3>1, <3>3, Finds
    <3> QED  BY <1>1, <2>1, <3>2, <3>4
  <2>5. CASE Unsupported(u)
    BY <1>1, <2>1, <2>5 DEF Unsupported, Outcome
  <2> QED  BY <1>6, <2>2, <2>3, <2>4, <2>5 DEF TopicNew
<1>7. CASE TopicEdit(u)
  <2>1. Arrive(u) /\ tg' = tg /\ u.type = "edit" /\ ~FromUser(u) /\ row' = row
    BY <1>7 DEF TopicEdit, Arrive, OfNobody, Unsupported
  <2>2. CASE OfNobody(u)
    BY <1>1, <2>1, <2>2 DEF OfNobody, PassedOver, FromUser
  <2>3. CASE FindCopy(u, row)
    <3>1. PICK r \in Row : r = row
      BY <1>1
    <3> QED  BY <1>1, <2>1, <2>3, <3>1, FindsCopy
  <2>4. CASE Refuse(u)
    BY <1>1, <2>1, <2>4 DEF Outcome
  <2> QED  BY <1>7, <2>2, <2>3, <2>4 DEF TopicEdit, LookupFails, Unsupported
<1> QED  BY <1>4, <1>5, <1>6, <1>7 DEF Arriving

\* What waits after an update was taken, and what may have been overtaken by it.
LEMMA Waiting ==
  ASSUME IInv, NEW u \in pending, Take(u), u \in Update, Genuine(u)
  PROVE  /\ pending' \subseteq Update
         /\ \A w \in pending : w # u => w \in pending'
         /\ \A w \in pending' :
              \/ w \in pending /\ w # u
              \/ w.type = u.type /\ w.msg = u.msg /\ w.draft = u.draft
         /\ overtaken \subseteq overtaken'
         /\ overtaken' \subseteq overtaken \cup {u.msg}
         /\ u.msg \in overtaken' \/
              \A w \in pending :
                u.type = "edit" /\ w.type = "edit" /\ w.msg = u.msg =>
                  w.draft >= u.draft
<1>1. pending \subseteq Update
  BY DEF IInv, TypeOK
<1> DEFINE a == [u EXCEPT !.again = TRUE]
<1>2. a \in Update /\ a.type = u.type /\ a.msg = u.msg /\ a.draft = u.draft
  BY DEF Update
<1>3. pending' = pending \ {u} \/ pending' = (pending \ {u}) \cup {a}
  BY DEF Take
<1> HIDE DEF a
<1>4. overtaken' = overtaken \cup
        {u.msg : v \in {w \in pending : /\ u.type = "edit" /\ w.type = "edit"
                                        /\ w.msg = u.msg /\ w.draft < u.draft}}
  BY DEF Take
<1>5. \A w \in pending : w.draft \in Nat /\ u.draft \in Nat
  BY <1>1 DEF Update
<1>6. \/ u.msg \in overtaken'
      \/ \A w \in pending :
           u.type = "edit" /\ w.type = "edit" /\ w.msg = u.msg => w.draft >= u.draft
  BY <1>4, <1>5
<1> QED  BY <1>1, <1>2, <1>3, <1>4, <1>6

LEMMA ArrivalKeeps ==
  ASSUME IInv, NEW u \in pending, Arriving(u)
  PROVE  IInv'
<1>1. /\ TypeOK /\ Arrive(u) /\ u \in Update /\ Genuine(u)
      /\ row' \in Row /\ row'.thread = row.thread
      /\ Outcome(u) \/ PassedOver(u)
  BY Arrivals DEF IInv
<1>2. /\ tg' = tg /\ threads' = threads /\ nextId' = nextId /\ links' = links
      /\ lost' = lost /\ busy = Free /\ u.msg \in DOMAIN tg /\ u.msg # 0
  BY <1>1, Types DEF Arrive, Genuine
<1>3. Kept /\ RowMoves
  BY <1>1, <1>2, Types, Unchanged DEF TypeOK, RowMoves
<1>4. /\ Handling'
      /\ busy' \in [step: Steps, upd: Update, topic: Row, target: Nat]
      /\ busy'.upd \in {u, NoUpdate}
      /\ told' \in {told, told \cup {u.msg}}
  BY <1>1, HandlingAfter DEF PassedOver
<1>5. /\ pending' \subseteq Update
      /\ \A w \in pending : w # u => w \in pending'
      /\ \A w \in pending' :
           \/ w \in pending /\ w # u
           \/ w.type = u.type /\ w.msg = u.msg /\ w.draft = u.draft
      /\ overtaken \subseteq overtaken'
      /\ overtaken' \subseteq overtaken \cup {u.msg}
      /\ u.msg \in overtaken' \/
           \A w \in pending :
             u.type = "edit" /\ w.type = "edit" /\ w.msg = u.msg => w.draft >= u.draft
  BY <1>1, Waiting DEF Arrive
<1>6. TypeOK'
  BY <1>1, <1>2, <1>4, <1>5 DEF TypeOK
<1>7. Copies' /\ Places' /\ RepliesTrue' /\ ContentsTrue' /\ LinksTrue'
  <2>1. row'.thread <= Len(threads')
    BY <1>1, <1>2 DEF IInv, Places
  <2> QED  BY <1>2, <1>3, <1>6, <2>1, MessagesSame, ContentsSame, LinksSame
<1>8. \A w \in pending' : Genuine(w)'
  BY <1>1, <1>2, <1>5, StillGenuine DEF Genuine, IInv
\* The update is under way, answered or passed over.
<1>9. \/ busy'.upd = u
      \/ u.msg \in told'
      \/ busy'.upd = NoUpdate /\ tg[u.msg].place \notin {0, row'.thread}
  BY <1>1 DEF Outcome, Continues, Refuse, PassedOver, Return, Free
<1>10. Attended'
  <2>1. ASSUME NEW w \in pending, w.type = "new"
        PROVE  StillNew(w.msg) \/ Handled(w.msg)
    <3>1. CASE w # u
      BY <1>5, <2>1, <3>1 DEF StillNew
    <3>2. CASE w = u
      BY <1>2, <1>9, <3>2 DEF Handled
    <3> QED  BY <3>1, <3>2
  <2>2. busy.step = "free"
    BY <1>2 DEF Free
  <2> QED  BY <1>2, <1>3, <1>4, <2>1, <2>2, AttendedAfter
\* The latest edit is among those that wait, or it is the one that arrived.
<1>11. ASSUME NEW o \in DOMAIN tg, LatestWaits(o), ~LatestWaits(o)'
       PROVE  u.type = "edit" /\ u.msg = o /\ u.draft = tg[o].content.draft
  BY <1>2, <1>5, <1>11 DEF LatestWaits, EditsOf
<1>12. InOrder'
  <2> SUFFICES ASSUME NEW o \in DOMAIN tg', o \notin (told \cup lost \cup overtaken)',
                      Kind(tg'[o].content) \notin Unheeded
               PROVE  \/ LatestWaits(o)'
                      \/ /\ EditsOf(o)' = {}
                         /\ busy'.upd.type = "edit" /\ busy'.upd.msg = o =>
                              busy'.upd.draft = tg'[o].content.draft
    BY DEF InOrder
  <2>1. /\ o \in DOMAIN tg /\ o \notin told \cup lost \cup overtaken
        /\ Kind(tg[o].content) \notin Unheeded
    BY <1>2, <1>4, <1>5
  <2>2. CASE u.type = "edit" /\ u.msg = o
    <3>1. LatestWaits(o)
      <4>1. u \in EditsOf(o)
        BY <2>2 DEF EditsOf
      <4> QED  BY <2>1, <4>1 DEF IInv, InOrder
    <3>2. CASE ~LatestWaits(o)'
      <4>1. u.draft = tg[o].content.draft
        BY <1>11, <2>1, <3>1, <3>2
      <4>2. ASSUME NEW w \in EditsOf(o)'  PROVE FALSE
        <5>1. w \in pending' /\ w.type = "edit" /\ w.msg = o
          BY DEF EditsOf
        <5>2. w.draft # tg[o].content.draft
          BY <1>2, <3>2 DEF LatestWaits
        <5>3. w \in pending
          BY <1>5, <4>1, <5>1, <5>2
        <5>4. w.draft >= u.draft
          BY <1>5, <2>2, <5>1, <5>3
        <5>5. w.draft \in 1 .. tg[o].content.draft /\ tg[o].content.draft \in Nat
          BY <1>1, <1>3, <2>1, <5>1, <5>3, StillGenuine, Types DEF Genuine
        <5> QED  BY <4>1, <5>2, <5>4, <5>5
      <4> QED  BY <1>2, <1>4, <4>1, <4>2 DEF NoUpdate
    <3> QED  BY <3>2
  <2>3. CASE ~(u.type = "edit" /\ u.msg = o)
    <3>1. EditsOf(o)' = EditsOf(o)
      <4>1. ASSUME NEW w \in EditsOf(o)  PROVE w \in EditsOf(o)'
        BY <1>5, <2>3, <4>1 DEF EditsOf
      <4>2. ASSUME NEW w \in EditsOf(o)'  PROVE w \in EditsOf(o)
        BY <1>5, <2>3, <4>2 DEF EditsOf
      <4> QED  BY <4>1, <4>2
    <3>2. LatestWaits(o) => LatestWaits(o)'
      BY <1>2, <3>1 DEF LatestWaits
    <3>3. ~(busy'.upd.type = "edit" /\ busy'.upd.msg = o)
      BY <1>4, <2>3 DEF NoUpdate
    <3> QED  BY <2>1, <3>1, <3>2, <3>3 DEF IInv, InOrder
  <2> QED  BY <2>2, <2>3
<1>13. UpToDate'
  <2> SUFFICES ASSUME NEW c \in DOMAIN tg', NEW o, o = tg'[c].copyOf,
                      o # 0, CopiesOf(o)' = {c}, ~Excused(o)',
                      tg'[o].live, tg'[c].live, tg'[c].content # tg'[o].content
               PROVE  \/ LatestWaits(o)'
                      \/ /\ busy'.upd.type = "edit" /\ busy'.upd.msg = o
                         /\ busy'.upd.draft = tg'[o].content.draft
    BY DEF UpToDate
  <2>1. /\ c \in DOMAIN tg /\ o = tg[c].copyOf /\ CopiesOf(o) = {c}
        /\ tg[o].live /\ tg[c].live /\ tg[c].content # tg[o].content
    BY <1>2 DEF CopiesOf
  <2>2. o \in DOMAIN tg
    BY <2>1 DEF IInv, Copies
  <2>3. ~Excused(o)
    BY <1>1, <1>2, <1>4, <1>5 DEF Excused
  <2>4. busy.upd.type = "none"
    BY <1>2 DEF Free, NoUpdate
  <2>5. LatestWaits(o)
    BY <2>1, <2>3, <2>4 DEF IInv, UpToDate
  <2>6. CASE ~LatestWaits(o)'
    <3>1. u.type = "edit" /\ u.msg = o /\ u.draft = tg[o].content.draft
      BY <1>11, <2>2, <2>5, <2>6
    <3>2. busy'.upd = u
      BY <1>2, <1>9, <3>1 DEF Excused
    <3> QED  BY <1>2, <3>1, <3>2
  <2> QED  BY <2>6
<1> QED  BY <1>6, <1>7, <1>8, <1>4, <1>10, <1>12, <1>13 DEF IInv

LEMMA DismissKeeps ==
  ASSUME IInv, NEW u \in pending, Dismiss(u)
  PROVE  IInv'
<1>1. /\ TypeOK /\ Take(u) /\ u \in Update /\ Genuine(u)
      /\ u.msg \in DOMAIN tg /\ tg[u.msg].copyOf = 0
  BY DEF IInv, TypeOK, Genuine, Dismiss
<1>2. /\ threads' = threads /\ row' = row /\ nextId' = nextId /\ links' = links
      /\ lost' = lost /\ busy' = busy
      /\ told \subseteq told' /\ told' \subseteq told \cup {u.msg}
      /\ tg' = tg \/ tg' = [tg EXCEPT ![u.msg].live = FALSE]
      /\ Said(u) \in Unheeded \/ u.msg \in told'
  BY DEF Dismiss, Unheeded
<1>3. /\ Kept /\ tg' \in Seq(Message) /\ threads' \in Seq(BOOLEAN)
      /\ DOMAIN tg' = DOMAIN tg
      /\ \A i \in DOMAIN tg : tg'[i].content = tg[i].content
  <2>1. threads' \in Seq(BOOLEAN) /\ Len(threads') >= Len(threads)
    BY <1>1, <1>2, Types DEF TypeOK
  <2>2. CASE tg' = tg
    BY <1>1, <2>1, <2>2, Unchanged DEF TypeOK
  <2>3. CASE tg' = [tg EXCEPT ![u.msg].live = FALSE]
    <3>1. PICK x \in DOMAIN tg : x = u.msg
      BY <1>1
    <3> QED  BY <1>1, <1>2, <2>1, <2>3, <3>1, Deleted
  <2> QED  BY <1>2, <2>2, <2>3
<1>4. RowMoves /\ row' \in Row /\ row'.thread <= Len(threads')
  BY <1>2 DEF RowMoves, IInv, TypeOK, Places
<1>5. /\ pending' \subseteq Update
      /\ \A w \in pending : w # u => w \in pending'
      /\ \A w \in pending' :
           \/ w \in pending /\ w # u
           \/ w.type = u.type /\ w.msg = u.msg /\ w.draft = u.draft
      /\ overtaken \subseteq overtaken'
      /\ overtaken' \subseteq overtaken \cup {u.msg}
  BY <1>1, Waiting
<1>6. LinksTrue' /\ \A l \in links' : {l.userMsg, l.topicMsg} \subseteq DOMAIN tg'
  BY <1>2, <1>3, LinksLeft
<1>7. TypeOK'
  BY <1>1, <1>2, <1>3, <1>4, <1>5, <1>6, TypesAfter DEF TypeOK
<1>8. Copies' /\ Places' /\ RepliesTrue' /\ ContentsTrue'
  BY <1>3, <1>4, <1>7, MessagesSame, ContentsSame
<1>9. Handling'
  BY <1>2, <1>3, HandlingKept
<1>10. \A w \in pending' : Genuine(w)'
  <2>1. Genuine(u)'
    BY <1>1, <1>3, GenuineKept
  <2> QED  BY <1>3, <1>5, <2>1, StillGenuine DEF Genuine
<1>11. Attended'
  <2>1. ASSUME NEW w \in pending, w.type = "new"
        PROVE  StillNew(w.msg) \/ Handled(w.msg)
    <3>1. CASE w # u
      BY <1>5, <2>1, <3>1 DEF StillNew
    <3>2. CASE w = u
      <4>1. Said(u) = Drafts[tg'[u.msg].content.key][1]
        BY <1>1, <1>3, <2>1, <3>2 DEF Said, Genuine
      <4> QED  BY <1>2, <3>2, <4>1 DEF Handled
    <3> QED  BY <3>1, <3>2
  <2>2. Handled(busy.upd.msg)
    BY <1>2 DEF Handled
  <2> QED  BY <1>2, <1>3, <1>4, <2>1, <2>2, AttendedAfter
\* The latest edit waits on, unless it is the one that was dismissed.
<1>12. ASSUME NEW o \in DOMAIN tg, LatestWaits(o), o \notin told',
              Kind(tg'[o].content) \notin Unheeded
       PROVE  LatestWaits(o)'
  <2>1. PICK w \in pending : /\ w.type = "edit" /\ w.msg = o
                             /\ w.draft = tg[o].content.draft
    BY <1>12 DEF LatestWaits, EditsOf
  <2>2. w # u
    <3>1. Said(w) = Kind(tg'[o].content)
      BY <1>3, <2>1 DEF Said, Kind
    <3> QED  BY <1>2, <1>12, <2>1, <3>1
  <2> QED  BY <1>3, <1>5, <2>1, <2>2 DEF LatestWaits, EditsOf
<1>13. InOrder'
  <2> SUFFICES ASSUME NEW o \in DOMAIN tg', o \notin (told \cup lost \cup overtaken)',
                      Kind(tg'[o].content) \notin Unheeded
               PROVE  \/ LatestWaits(o)'
                      \/ /\ EditsOf(o)' = {}
                         /\ busy'.upd.type = "edit" /\ busy'.upd.msg = o =>
                              busy'.upd.draft = tg'[o].content.draft
    BY DEF InOrder
  <2>1. /\ o \in DOMAIN tg /\ o \notin told \cup lost \cup overtaken
        /\ tg'[o].content = tg[o].content
    BY <1>2, <1>3, <1>5
  <2>2. CASE LatestWaits(o)
    BY <1>12, <2>1, <2>2
  <2>3. CASE ~LatestWaits(o)
    <3>1. /\ EditsOf(o) = {}
          /\ busy.upd.type = "edit" /\ busy.upd.msg = o =>
               busy.upd.draft = tg[o].content.draft
      BY <2>1, <2>3 DEF IInv, InOrder
    <3>2. EditsOf(o)' = {}
      BY <1>5, <3>1 DEF EditsOf
    <3> QED  BY <1>2, <2>1, <3>1, <3>2
  <2> QED  BY <2>2, <2>3
<1>14. UpToDate'
  <2> SUFFICES ASSUME NEW c \in DOMAIN tg', NEW o, o = tg'[c].copyOf,
                      o # 0, CopiesOf(o)' = {c}, ~Excused(o)',
                      tg'[o].live, tg'[c].live, tg'[c].content # tg'[o].content
               PROVE  \/ LatestWaits(o)'
                      \/ /\ busy'.upd.type = "edit" /\ busy'.upd.msg = o
                         /\ busy'.upd.draft = tg'[o].content.draft
    BY DEF UpToDate
  <2>1. /\ c \in DOMAIN tg /\ o = tg[c].copyOf /\ o \in DOMAIN tg
        /\ tg[c].live
    BY <1>3 DEF IInv, Copies, Kept
  <2>2. /\ CopiesOf(o) = {c} /\ tg[o].live
        /\ tg[c].content # tg[o].content /\ tg'[o].content = tg[o].content
    BY <1>3, <2>1 DEF CopiesOf, Kept
  <2>3. ~Excused(o)
    BY <1>2, <1>3, <1>4, <1>5, <2>1, <2>2, PlacesLeft DEF Excused
  <2>4. \/ LatestWaits(o)
        \/ /\ busy.upd.type = "edit" /\ busy.upd.msg = o
           /\ busy.upd.draft = tg[o].content.draft
    BY <2>1, <2>2, <2>3 DEF IInv, UpToDate
  <2>5. LatestWaits(o) => LatestWaits(o)'
    BY <1>12, <2>1 DEF Excused
  <2> QED  BY <1>2, <2>2, <2>4, <2>5
<1> QED  BY <1>6, <1>7, <1>8, <1>9, <1>10, <1>11, <1>13, <1>14 DEF IInv

-----------------------------------------------------------------------------
(* Steps that add no message and change no content                         *)

\* The handler of u goes on, ends with an answer, or ends behind its copy.
Proceeds(u) ==
  \/ Outcome(u)
  \/ Return /\ u.type = "new" /\ CopiesOf(u.msg) # {}

LEMMA QuietStep ==
  ASSUME IInv, Kept, RowMoves, tg' \in Seq(Message), threads' \in Seq(BOOLEAN),
         DOMAIN tg' = DOMAIN tg,
         \A i \in DOMAIN tg : tg'[i].content = tg[i].content,
         row' \in Row, row'.thread <= Len(threads'), nextId' \in Nat,
         links' \subseteq Msg, LinksTrue',
         \A l \in links' : {l.userMsg, l.topicMsg} \subseteq DOMAIN tg',
         pending' = pending, lost' = lost, overtaken' = overtaken,
         NEW u \in Update, u = busy.upd,
         (busy.step # "free" /\ Proceeds(u)) \/ (busy' = busy /\ told' = told)
  PROVE  IInv'
<1>1. /\ Handling'
      /\ busy' \in [step: Steps, upd: Update, topic: Row, target: Nat]
      /\ busy'.upd \in {busy.upd, NoUpdate}
      /\ told \subseteq told' /\ told' \subseteq DOMAIN tg'
  <2>1. CASE busy.step # "free" /\ Proceeds(u)
    <3>1. Outcome(u) \/ Return
      BY <2>1 DEF Proceeds
    <3>2. u.msg \in DOMAIN tg
      BY <2>1, InHand
    <3> QED  BY <3>1, <3>2, HandlingAfter DEF IInv, TypeOK
  <2>2. CASE busy' = busy /\ told' = told
    BY <2>2, HandlingKept DEF IInv, TypeOK
  <2> QED  BY <2>1, <2>2
<1>2. TypeOK'
  BY <1>1, TypesAfter DEF IInv, TypeOK
<1>3. Copies' /\ Places' /\ RepliesTrue' /\ ContentsTrue'
  BY <1>2, MessagesSame, ContentsSame
<1>4. \A w \in pending' : Genuine(w)'
  BY StillGenuine
<1>5. \/ busy'.upd = u
      \/ u.msg \in told'
      \/ u.type = "new" /\ CopiesOf(u.msg) # {}
  BY DEF Proceeds, Outcome, Continues, Refuse
<1>6. Attended'
  <2>1. busy.step # "free" => Handled(busy.upd.msg)
    BY <1>5 DEF Handled, CopiesOf, Kept
  <2>2. \A w \in pending : w.type = "new" => StillNew(w.msg)
    BY DEF StillNew
  <2> QED  BY <1>1, <2>1, <2>2, AttendedAfter
<1>7. InOrder'
  BY <1>1, InOrderKept DEF EditsWait
<1>8. UpToDate'
  <2>1. busy'.upd = busy.upd \/ busy.upd.msg \in told' \/ busy.upd.type # "edit"
    BY <1>5
  <2> QED  BY <1>1, <2>1, UpToDateKept DEF EditsWait
<1> QED  BY <1>1, <1>2, <1>3, <1>4, <1>6, <1>7, <1>8 DEF IInv

\* What holds when the messages, the threads and the row are left alone.
LEMMA Untouched ==
  ASSUME IInv, tg' = tg, threads' = threads, row' = row
  PROVE  /\ Kept /\ RowMoves /\ tg' \in Seq(Message) /\ threads' \in Seq(BOOLEAN)
         /\ row' \in Row /\ row'.thread <= Len(threads')
  BY Unchanged, Types DEF IInv, TypeOK, Places, RowMoves

LEMMA CleanupKeeps ==
  ASSUME IInv, MessageCleanup  PROVE IInv'
<1>1. /\ tg' = tg /\ threads' = threads /\ row' = row /\ nextId' = nextId
      /\ links' \subseteq links /\ pending' = pending /\ busy' = busy /\ told' = told
      /\ lost' = lost /\ overtaken' = overtaken
  BY DEF MessageCleanup, history
<1>2. busy.upd \in Update /\ nextId \in Nat
  BY DEF IInv, TypeOK
<1> QED  BY <1>1, <1>2, Untouched, LinksLeft, QuietStep

LEMMA RemovalKeeps ==
  ASSUME IInv, NEW th \in DOMAIN threads, ThreadRemoved(th)  PROVE IInv'
<1>1. /\ tg' = Emptied(th) /\ threads' = [threads EXCEPT ![th] = FALSE]
      /\ row' = row /\ nextId' = nextId /\ links' = links /\ pending' = pending
      /\ busy' = busy /\ told' = told /\ lost' = lost /\ overtaken' = overtaken
  BY DEF ThreadRemoved, history
<1>2. /\ Kept /\ tg' \in Seq(Message) /\ threads' \in Seq(BOOLEAN)
      /\ DOMAIN tg' = DOMAIN tg /\ Len(threads') = Len(threads)
      /\ \A i \in DOMAIN tg : tg'[i].content = tg[i].content
  BY <1>1, Gone DEF IInv
<1>3. /\ busy.upd \in Update /\ nextId \in Nat /\ row \in Row
      /\ row'.thread <= Len(threads') /\ RowMoves
  BY <1>1, <1>2 DEF IInv, TypeOK, Places, RowMoves
<1> QED  BY <1>1, <1>2, <1>3, LinksLeft, QuietStep

-----------------------------------------------------------------------------
(* The calls of a handler                                                  *)

LEMMA OpenThreadKeeps ==
  ASSUME IInv, OpenThread  PROVE IInv'
<1>1. /\ busy.step = "open" /\ tg' = tg /\ links' = links /\ pending' = pending
      /\ lost' = lost /\ overtaken' = overtaken
  BY DEF OpenThread
<1>2. /\ busy.upd \in Update /\ busy.topic \in Row /\ Genuine(busy.upd)
      /\ busy.upd.type = "new"
  BY <1>1, InHand DEF UnderWay
<1>3. PICK u \in Update : u = busy.upd
  BY <1>2
<1>4. nextId \in Nat /\ row \in Row /\ Len(threads) \in Nat
  BY Types DEF IInv, TypeOK
<1>5. CASE Refuse(busy.upd) /\ UNCHANGED <<threads, row, nextId>>
  <2>1. busy.step # "free" /\ Proceeds(u)
    BY <1>1, <1>3, <1>5 DEF Proceeds, Outcome
  <2>2. /\ Kept /\ RowMoves /\ tg' \in Seq(Message) /\ threads' \in Seq(BOOLEAN)
        /\ row' \in Row /\ row'.thread <= Len(threads')
    BY <1>1, <1>5, Untouched
  <2>3. /\ links' \subseteq Msg /\ LinksTrue'
        /\ \A l \in links' : {l.userMsg, l.topicMsg} \subseteq DOMAIN tg'
    BY <1>1, <2>2, LinksLeft
  <2> QED  BY <1>1, <1>3, <1>4, <1>5, <2>1, <2>2, <2>3, QuietStep
<1>6. ASSUME NEW t \in Row, t.thread = Len(threads) + 1, row' \in {row, t},
             nextId' \in Nat, threads' = Append(threads, TRUE), Introduce(u, t)
      PROVE  IInv'
  <2>1. /\ threads' \in Seq(BOOLEAN) /\ Len(threads') = Len(threads) + 1
        /\ t.thread \in DOMAIN threads'
    BY <1>4, <1>6 DEF IInv, TypeOK
  <2>2. Kept /\ tg' \in Seq(Message)
    BY <1>1, <1>4, <2>1, Unchanged DEF IInv, TypeOK
  <2>3. RowMoves /\ row' \in Row /\ row'.thread <= Len(threads')
    BY <1>4, <1>6, <2>1 DEF RowMoves, IInv, Places, Row
  <2>4. Outcome(u)
    BY <1>1, <1>2, <1>3, <1>6, <2>1, Finds DEF Introduce, Outcome, IInv
  <2>5. busy.step # "free" /\ Proceeds(u)
    BY <1>1, <2>4 DEF Proceeds
  <2>6. /\ links' \subseteq Msg /\ LinksTrue'
        /\ \A l \in links' : {l.userMsg, l.topicMsg} \subseteq DOMAIN tg'
    BY <1>1, <2>2, LinksLeft
  <2> QED  BY <1>1, <1>3, <1>6, <2>1, <2>2, <2>3, <2>5, <2>6, QuietStep
<1>7. CASE ~(Refuse(busy.upd) /\ UNCHANGED <<threads, row, nextId>>)
  <2> DEFINE t == [busy.topic EXCEPT !.thread = Len(threads) + 1]
             stored == IF t.id = 0 THEN [t EXCEPT !.id = nextId] ELSE t
  <2>1. t \in Row /\ t.thread = Len(threads) + 1
    BY <1>2, <1>4 DEF Row
  <2>2. stored \in Row /\ stored.thread = Len(threads) + 1
    <3> HIDE DEF t
    <3>1. [t EXCEPT !.id = nextId] \in Row /\ [t EXCEPT !.id = nextId].thread = t.thread
      BY <1>4, <2>1 DEF Row
    <3> QED  BY <2>1, <3>1
  <2>3. /\ threads' = Append(threads, TRUE)
        /\ \/ /\ row' = stored
              /\ nextId' = nextId + (IF t.id = 0 THEN 1 ELSE 0)
              /\ Introduce(u, stored)
           \/ row' = row /\ nextId' = nextId /\ Introduce(u, t)
    BY <1>3, <1>7 DEF OpenThread
  <2> HIDE DEF t, stored
  <2>4. nextId' \in Nat
    BY <1>4, <2>3
  <2>5. CASE row' = stored /\ Introduce(u, stored)
    BY <1>6, <2>2, <2>3, <2>4, <2>5
  <2>6. CASE row' = row /\ Introduce(u, t)
    BY <1>6, <2>1, <2>3, <2>4, <2>6
  <2> QED  BY <2>3, <2>5, <2>6
<1> QED  BY <1>5, <1>7

LEMMA CopyKeeps ==
  ASSUME IInv, busy.step = "send", NEW u \in Update, u = busy.upd,
         NEW place \in Nat, place <= Len(threads), place = 0 <=> ~FromUser(u),
         Copy(u, place, busy.target),
         UNCHANGED <<threads, row, nextId, links, pending, lost, overtaken>>
  PROVE  IInv'
<1> DEFINE m == [place |-> place, content |-> tg[u.msg].content, copyOf |-> u.msg,
                 reply |-> busy.target, live |-> TRUE]
           new == Len(tg) + 1
<1>1. /\ Genuine(u) /\ u.type = "new" /\ Counterparts(u, busy.target)
      /\ u.msg \in DOMAIN tg /\ u.msg # 0 /\ busy.topic \in Row /\ busy.target \in Nat
      /\ tg[u.msg].copyOf = 0
  BY InHand, Types DEF IInv, UnderWay, Genuine
<1>2. /\ m \in Message /\ m.place = place /\ m.content = tg[u.msg].content
      /\ m.copyOf = u.msg /\ m.reply = busy.target
  BY <1>1, Types DEF Message, IInv
<1>3. tg' = Append(tg, m)
  BY DEF Copy, Answers
<1> HIDE DEF m
<1>4. /\ Kept /\ tg' \in Seq(Message)
      /\ DOMAIN tg' = DOMAIN tg \cup {new} /\ new \notin DOMAIN tg
      /\ \A i \in DOMAIN tg : tg'[i] = tg[i]
      /\ tg'[new] = m /\ new \in Nat
  BY <1>2, <1>3, Appended, Types DEF IInv
<1> HIDE DEF new
<1>5. RowMoves
  BY DEF RowMoves
<1>6. Genuine(u)'
  BY <1>1, <1>4, GenuineKept DEF IInv
<1>7. Outcome(u)
  <2>1. CASE Go("record", u, busy.topic, Len(tg) + 1)
    <3>1. PICK t \in Row : t = busy.topic
      BY <1>1
    <3>2. PICK x \in Nat : x = new
      BY <1>4
    <3>3. UnderWay("record", u, t, x)'
      BY <1>1, <1>2, <1>4, <1>6, <3>2 DEF UnderWay
    <3>4. /\ busy' = [step |-> "record", upd |-> u, topic |-> t, target |-> x]
          /\ told' = told
      BY <2>1, <3>1, <3>2 DEF Go, new
    <3> QED  BY <3>3, <3>4 DEF Outcome, Continues, Steps
  <2>2. CASE Refuse(u)
    BY <2>2 DEF Outcome
  <2> QED  BY <2>1, <2>2 DEF Copy
<1>8. /\ Handling'
      /\ busy' \in [step: Steps, upd: Update, topic: Row, target: Nat]
      /\ busy'.upd \in {busy.upd, NoUpdate}
      /\ told \subseteq told' /\ told' \subseteq DOMAIN tg'
  BY <1>1, <1>4, <1>7, HandlingAfter DEF IInv, TypeOK
<1>9. TypeOK'
  BY <1>4, <1>8, TypesAfter, LinksLeft DEF IInv, TypeOK
<1>10. Copies'
  <2>1. m.place = 0 <=> tg[u.msg].place # 0
    BY <1>2 DEF FromUser
  <2> QED  BY <1>1, <1>2, <1>4, <2>1 DEF IInv, Copies
<1>11. ContentsTrue'
  <2>1. tg[u.msg].content.draft \in Nat
    BY <1>1, Types DEF IInv
  <2>2. \A c \in DOMAIN tg : tg[c].copyOf # 0 => tg[c].copyOf \in DOMAIN tg
    BY DEF IInv, Copies
  <2> QED  BY <1>1, <1>2, <1>4, <2>1, <2>2 DEF IInv, ContentsTrue
<1>12. Places'
  <2>1. busy.target # 0 => busy.target \in DOMAIN tg
    BY <1>1 DEF Counterparts
  <2> QED  BY <1>2, <1>4, <2>1 DEF IInv, Places
<1>13. RepliesTrue'
  <2> SUFFICES ASSUME NEW c \in DOMAIN tg', tg'[c].copyOf # 0, tg'[c].reply # 0
               PROVE  LET o == tg'[c].copyOf
                      IN  /\ tg'[o].reply # 0
                          /\ \/ tg'[tg'[o].reply].copyOf = tg'[c].reply
                             \/ tg'[tg'[c].reply].copyOf = tg'[o].reply
    BY DEF RepliesTrue
  <2> DEFINE o == tg'[c].copyOf  r == tg'[c].reply  q == tg[o].reply
  <2>1. o \in DOMAIN tg /\ r \in DOMAIN tg /\ q # 0 /\ q \in DOMAIN tg
        /\ (tg[q].copyOf = r \/ tg[r].copyOf = q)
    <3>1. CASE c = new
      <4>1. o = u.msg /\ r = busy.target /\ r # 0
        BY <1>2, <1>4, <3>1
      <4>2. r \in DOMAIN tg /\ q # 0 /\ (tg[q].copyOf = r \/ tg[r].copyOf = q)
        BY <1>1, <4>1 DEF Counterparts, Paired
      <4>3. q \in DOMAIN tg
        BY <1>1, <4>1, <4>2 DEF IInv, Places
      <4> QED  BY <1>1, <4>1, <4>2, <4>3
    <3>2. CASE c \in DOMAIN tg
      <4>1. o = tg[c].copyOf /\ r = tg[c].reply
        BY <1>4, <3>2
      <4>2. q # 0 /\ (tg[q].copyOf = r \/ tg[r].copyOf = q)
        BY <3>2, <4>1 DEF IInv, RepliesTrue
      <4>3. o \in DOMAIN tg /\ r \in DOMAIN tg
        BY <3>2, <4>1 DEF IInv, Copies, Places
      <4> QED  BY <4>2, <4>3 DEF IInv, Places
    <3> QED  BY <1>4, <3>1, <3>2
  <2> HIDE DEF o, r, q
  <2>2. tg'[o].reply = q
    BY <1>4, <2>1 DEF q
  <2>3. tg'[q] = tg[q] /\ tg'[r] = tg[r]
    BY <1>4, <2>1
  <2> QED  BY <2>1, <2>2, <2>3 DEF o, r
<1>14. LinksTrue' /\ \A w \in pending' : Genuine(w)'
  BY <1>4, LinksSame, StillGenuine
<1>15. Attended'
  <2>1. \A w \in pending : w.type = "new" => StillNew(w.msg)
    BY DEF StillNew
  <2>2. Handled(busy.upd.msg)
    BY <1>2, <1>4 DEF Handled
  <2>3. \A i \in DOMAIN tg' \ DOMAIN tg : tg'[i].copyOf # 0
    BY <1>1, <1>2, <1>4
  <2> QED  BY <1>4, <1>5, <1>8, <2>1, <2>2, <2>3, AttendedAfter
<1>16. InOrder'
  BY <1>4, <1>8, InOrderKept DEF EditsWait
<1>17. UpToDate'
  <2>1. \A i \in DOMAIN tg' \ DOMAIN tg : tg'[i].content = tg'[tg'[i].copyOf].content
    BY <1>1, <1>2, <1>4
  <2>2. busy.upd.type # "edit"
    BY <1>1
  <2> QED  BY <1>4, <1>5, <1>8, <2>1, <2>2, UpToDateKept DEF EditsWait
<1> QED  BY <1>8, <1>9, <1>10, <1>11, <1>12, <1>13, <1>14, <1>15, <1>16, <1>17
         DEF IInv

\* A step that only moves the handler.
LEMMA ControlKeeps ==
  ASSUME IInv, busy.step # "free", NEW u \in Update, u = busy.upd, Proceeds(u),
         UNCHANGED <<tg, threads, row, nextId, links, pending, lost, overtaken>>
  PROVE  IInv'
<1>1. /\ Kept /\ RowMoves /\ tg' \in Seq(Message) /\ threads' \in Seq(BOOLEAN)
      /\ row' \in Row /\ row'.thread <= Len(threads')
  BY Untouched
<1>2. /\ links' \subseteq Msg /\ LinksTrue'
      /\ \A l \in links' : {l.userMsg, l.topicMsg} \subseteq DOMAIN tg'
  BY <1>1, LinksLeft
<1>3. nextId' \in Nat
  BY DEF IInv, TypeOK
<1> QED  BY <1>1, <1>2, <1>3, QuietStep

LEMMA Blocked ==
  ASSUME IInv, busy.step # "free", NEW u \in Update, u = busy.upd, Genuine(u), tg' = tg,
         BlockedOrFailed(u)
  PROVE  Outcome(u)
<1>1. CASE Refuse(u)
  BY <1>1 DEF Outcome
<1>2. CASE Go("terminate", u, busy.topic, 0)
  <2>1. PICK t \in Row : t = busy.topic
    BY InHand
  <2>2. UnderWay("terminate", u, t, 0)'
    BY DEF UnderWay, Genuine
  <2> QED  BY <1>2, <2>1, <2>2 DEF Outcome, Continues, Go, Steps
<1> QED  BY <1>1, <1>2 DEF BlockedOrFailed

LEMMA SendToThreadKeeps ==
  ASSUME IInv, SendToThread  PROVE IInv'
<1>1. PICK u \in Update : u = busy.upd
  BY InHand DEF SendToThread
<1>2. /\ busy.step = "send" /\ FromUser(u) /\ Genuine(u) /\ u.type = "new"
      /\ busy.topic \in Row /\ busy.topic.thread \in DOMAIN threads
      /\ UNCHANGED <<threads, row, nextId, links, pending, lost, overtaken>>
  BY <1>1, InHand DEF SendToThread, UnderWay
<1>3. CASE Copy(u, busy.topic.thread, busy.target)
  <2>1. PICK th \in DOMAIN threads : th = busy.topic.thread
    BY <1>2
  <2>2. th \in Nat /\ th <= Len(threads) /\ th # 0
    BY Types DEF IInv
  <2> QED  BY <1>1, <1>2, <1>3, <2>1, <2>2, CopyKeeps
<1>4. CASE Go("open", u, [busy.topic EXCEPT !.thread = 0], 0) /\ tg' = tg
  <2>1. PICK t \in Row : t = [busy.topic EXCEPT !.thread = 0]
    BY <1>2 DEF Row
  <2>2. UnderWay("open", u, t, 0)'
    BY <1>2, <1>4 DEF UnderWay, Genuine
  <2>3. Proceeds(u)
    BY <1>4, <2>1, <2>2 DEF Proceeds, Outcome, Continues, Go, Steps
  <2> QED  BY <1>1, <1>2, <1>4, <2>3, ControlKeeps
<1>5. CASE Refuse(u) /\ tg' = tg
  BY <1>1, <1>2, <1>5, ControlKeeps DEF Proceeds, Outcome
<1> QED  BY <1>1, <1>3, <1>4, <1>5 DEF SendToThread

LEMMA SendToUserKeeps ==
  ASSUME IInv, SendToUser  PROVE IInv'
<1>1. PICK u \in Update : u = busy.upd
  BY InHand DEF SendToUser
<1>2. /\ busy.step = "send" /\ ~FromUser(u) /\ Genuine(u)
      /\ UNCHANGED <<threads, row, nextId, links, pending, lost, overtaken>>
  BY <1>1, InHand DEF SendToUser
<1>3. CASE Copy(u, 0, busy.target)
  <2>1. 0 \in Nat /\ 0 <= Len(threads)
    BY Types DEF IInv
  <2> QED  BY <1>1, <1>2, <1>3, <2>1, CopyKeeps
<1>4. CASE Refuse(u) /\ tg' = tg
  BY <1>1, <1>2, <1>4, ControlKeeps DEF Proceeds, Outcome
<1>5. CASE BlockedOrFailed(u) /\ tg' = tg
  <2>1. Proceeds(u)
    BY <1>1, <1>2, <1>5, Blocked DEF Proceeds
  <2> QED  BY <1>1, <1>2, <1>5, <2>1, ControlKeeps
<1> QED  BY <1>1, <1>3, <1>4, <1>5 DEF SendToUser

LEMMA RecordKeeps ==
  ASSUME IInv, Record  PROVE IInv'
<1>1. PICK u \in Update : u = busy.upd
  BY InHand DEF Record
<1> DEFINE x == busy.target  l == Link(u, busy.topic.id, x)
<1>2. /\ busy.step = "record" /\ Genuine(u) /\ u.type = "new" /\ u.msg \in DOMAIN tg
      /\ x \in DOMAIN tg /\ tg[x].copyOf = u.msg /\ u.msg # 0 /\ busy.topic \in Row
      /\ Return /\ links' \subseteq links \cup {l}
      /\ UNCHANGED <<tg, threads, row, nextId, pending, lost, overtaken>>
  BY <1>1, InHand, Types DEF Record, Try, UnderWay, IInv
<1>3. /\ Kept /\ RowMoves /\ tg' \in Seq(Message) /\ threads' \in Seq(BOOLEAN)
      /\ row' \in Row /\ row'.thread <= Len(threads')
  BY <1>2, Untouched
<1>4. tg[x].place = 0 <=> tg[u.msg].place # 0
  BY <1>2 DEF IInv, Copies
<1>5. /\ l \in Msg /\ {l.userMsg, l.topicMsg} \subseteq DOMAIN tg
      /\ tg[l.userMsg].place = 0 /\ tg[l.topicMsg].place # 0
      /\ tg[l.topicMsg].copyOf = l.userMsg \/ tg[l.userMsg].copyOf = l.topicMsg
  <2>1. busy.topic.id \in Nat /\ u.msg \in Nat /\ x \in Nat
    BY <1>2, Types DEF Row, IInv
  <2>2. CASE FromUser(u)
    BY <1>2, <1>4, <2>1, <2>2 DEF Link, FromUser, Msg
  <2>3. CASE ~FromUser(u)
    BY <1>2, <1>4, <2>1, <2>3 DEF Link, FromUser, Msg
  <2> QED  BY <2>2, <2>3
<1> HIDE DEF l
<1>6. /\ links' \subseteq Msg /\ LinksTrue'
      /\ \A k \in links' : {k.userMsg, k.topicMsg} \subseteq DOMAIN tg'
  BY <1>2, <1>5 DEF IInv, TypeOK, LinksTrue
<1>7. Proceeds(u) /\ busy.step # "free" /\ nextId' \in Nat
  BY <1>2 DEF Proceeds, CopiesOf, IInv, TypeOK
<1> QED  BY <1>1, <1>2, <1>3, <1>6, <1>7, QuietStep

LEMMA TerminateKeeps ==
  ASSUME IInv, Terminate  PROVE IInv'
<1>1. PICK u \in Update : u = busy.upd
  BY InHand DEF Terminate
<1>2. /\ busy.step = "terminate" /\ Refuse(u)
      /\ links' \subseteq links /\ row' \in {NoRow, row}
      /\ UNCHANGED <<nextId, pending, lost, overtaken>>
  BY <1>1 DEF Terminate, Try
<1>3. /\ Kept /\ tg' \in Seq(Message) /\ threads' \in Seq(BOOLEAN)
      /\ DOMAIN tg' = DOMAIN tg /\ Len(threads') = Len(threads)
      /\ \A i \in DOMAIN tg : tg'[i].content = tg[i].content
  <2>1. CASE tg' = tg /\ threads' = threads
    <3>1. tg' \in Seq(Message) /\ threads' \in Seq(BOOLEAN)
      BY <2>1 DEF IInv, TypeOK
    <3>2. Kept
      BY <2>1, <3>1, Types, Unchanged DEF IInv
    <3> QED  BY <2>1, <3>1, <3>2
  <2>2. CASE /\ threads' = [threads EXCEPT ![busy.topic.thread] = FALSE]
             /\ tg' = Emptied(busy.topic.thread)
    BY <2>2, Gone DEF IInv
  <2> QED  BY <2>1, <2>2 DEF Terminate
<1>4. /\ RowMoves /\ row' \in Row /\ row'.thread <= Len(threads') /\ nextId' \in Nat
  <2>1. row \in Row /\ row.thread <= Len(threads) /\ nextId \in Nat /\ Len(threads) \in Nat
    BY Types DEF IInv, TypeOK, Places
  <2>2. NoRow \in Row /\ NoRow.thread = 0
    BY DEF NoRow, Row
  <2> QED  BY <1>2, <1>3, <2>1, <2>2 DEF RowMoves
<1>5. /\ links' \subseteq Msg /\ LinksTrue'
      /\ \A l \in links' : {l.userMsg, l.topicMsg} \subseteq DOMAIN tg'
  BY <1>2, <1>3, LinksLeft
<1>6. busy.step # "free" /\ Proceeds(u)
  BY <1>2 DEF Proceeds, Outcome
<1> QED  BY <1>1, <1>2, <1>3, <1>4, <1>5, <1>6, QuietStep

LEMMA EditCopyKeeps ==
  ASSUME IInv, EditCopy  PROVE IInv'
<1>1. PICK u \in Update : u = busy.upd
  BY InHand DEF EditCopy
<1> DEFINE x == busy.target
           new == [key |-> tg[u.msg].content.key, draft |-> u.draft]
<1>2. /\ busy.step = "edit" /\ Genuine(u) /\ u.type = "edit" /\ u.msg \in DOMAIN tg
      /\ x \in DOMAIN tg /\ tg[x].copyOf = u.msg /\ u.msg # 0 /\ tg[u.msg].copyOf = 0
      /\ u.draft \in 1 .. tg[u.msg].content.draft /\ tg[u.msg].content.draft \in Nat
      /\ UNCHANGED <<threads, row, nextId, links, pending, lost, overtaken>>
  BY <1>1, InHand, Types DEF EditCopy, UnderWay, Genuine, IInv
<1>3. CASE Refuse(u) /\ tg' = tg
  BY <1>1, <1>2, <1>3, ControlKeeps DEF Proceeds, Outcome
<1>4. CASE BlockedOrFailed(u) /\ tg' = tg
  <2>1. Proceeds(u)
    BY <1>1, <1>2, <1>4, Blocked DEF Proceeds
  <2> QED  BY <1>1, <1>2, <1>4, <2>1, ControlKeeps
<1>5. CASE tg' = [tg EXCEPT ![x].content = new] /\ (Return \/ Refuse(u))
  <2>1. new \in Content /\ new.key = tg[x].content.key /\ new.draft = u.draft
    BY <1>2, Types DEF Content, IInv, ContentsTrue
  <2>2. new.key = tg[u.msg].content.key
    OBVIOUS
  <2> HIDE DEF new
  <2>3. /\ Kept /\ tg' \in Seq(Message) /\ DOMAIN tg' = DOMAIN tg
        /\ \A i \in DOMAIN tg : i # x => tg'[i] = tg[i]
        /\ tg'[x].content = new
    BY <1>2, <1>5, <2>1, Edited DEF IInv
  <2>4. RowMoves /\ row'.thread <= Len(threads')
    BY <1>2 DEF RowMoves, IInv, Places
  <2>5. /\ Handling'
        /\ busy' \in [step: Steps, upd: Update, topic: Row, target: Nat]
        /\ busy'.upd = NoUpdate
        /\ told \subseteq told' /\ told' \subseteq told \cup {u.msg}
    BY <1>5, HandlingAfter, <1>1 DEF Return, Refuse, Outcome, Free
  <2>6. TypeOK'
    BY <1>2, <2>3, <2>5, TypesAfter, LinksLeft DEF IInv, TypeOK
  <2>7. Copies' /\ Places' /\ RepliesTrue' /\ LinksTrue'
    BY <1>2, <2>3, <2>4, <2>6, MessagesSame, LinksSame
  <2>8. ContentsTrue'
    <3>1. \A c \in DOMAIN tg : tg[c].copyOf # 0 =>
             /\ tg[c].copyOf \in DOMAIN tg /\ tg[c].copyOf # x
             /\ tg'[c].copyOf = tg[c].copyOf
      BY <1>2, <2>3 DEF IInv, Copies, Kept
    <3>2. u.msg # x
      BY <1>2
    <3> QED  BY <1>2, <2>1, <2>2, <2>3, <3>1, <3>2 DEF IInv, ContentsTrue
  <2>9. \A w \in pending' : Genuine(w)'
    BY <1>2, <2>3, StillGenuine
  <2>10. Attended'
    <3>1. \A w \in pending : w.type = "new" => StillNew(w.msg)
      BY <1>2 DEF StillNew
    <3>2. Handled(busy.upd.msg)
      BY <1>1, <1>2, <2>3 DEF Handled, Kept
    <3> QED  BY <1>2, <2>3, <2>4, <2>5, <3>1, <3>2, AttendedAfter
  <2>11. InOrder'
    <3>1. \A o \in DOMAIN tg : tg[o].copyOf = 0 =>
             tg'[o].content.draft = tg[o].content.draft
      BY <1>2, <2>3
    <3> QED  BY <1>2, <2>3, <2>5, <3>1, InOrderKept DEF EditsWait
  <2>12. UpToDate'
    <3> SUFFICES ASSUME NEW c \in DOMAIN tg', NEW o, o = tg'[c].copyOf,
                        o # 0, CopiesOf(o)' = {c}, ~Excused(o)',
                        tg'[o].live, tg'[c].live, tg'[c].content # tg'[o].content
                 PROVE  \/ LatestWaits(o)'
                        \/ /\ busy'.upd.type = "edit" /\ busy'.upd.msg = o
                           /\ busy'.upd.draft = tg'[o].content.draft
      BY DEF UpToDate
    <3>1. /\ c \in DOMAIN tg /\ o = tg[c].copyOf /\ o \in DOMAIN tg /\ o # x
          /\ tg'[o] = tg[o] /\ o \notin told \cup lost \cup overtaken
          /\ Kind(tg[o].content) \notin Unheeded
      BY <1>2, <2>3, <2>5 DEF IInv, Copies, Kept, Excused
    <3>2. LatestWaits(o) => LatestWaits(o)'
      BY <1>2, <3>1 DEF LatestWaits, EditsOf
    \* The copy was up to date but for the edit that has just been made.
    <3>3. CASE o = u.msg
      <4>1. LatestWaits(o) \/ u.draft = tg[o].content.draft
        BY <1>1, <1>2, <3>1, <3>3 DEF IInv, InOrder
      <4>2. c = x
        BY <1>2, <2>3, <3>1, <3>3 DEF CopiesOf, Kept
      <4>3. ASSUME u.draft = tg[o].content.draft  PROVE FALSE
        <5>1. new = tg[o].content
          BY <1>2, <2>1, <2>2, <3>1, <3>3, <4>3, Types DEF IInv, Content, new
        <5> QED  BY <2>3, <3>1, <4>2, <5>1
      <4> QED  BY <3>2, <4>1, <4>3
    <3>4. CASE o # u.msg
      <4>1. c # x
        BY <1>2, <3>1, <3>4
      <4>2. tg[o].live /\ tg[c].live /\ tg[c].content # tg[o].content
        BY <2>3, <3>1, <4>1
      <4>3. CopiesOf(o) = {c}
        BY <2>3 DEF CopiesOf, Kept
      <4>4. ~Excused(o)
        BY <1>2, <2>3, <2>4, <2>5, <3>1, PlacesLeft DEF Excused
      <4>5. LatestWaits(o)
        BY <1>1, <3>1, <3>4, <4>2, <4>3, <4>4 DEF IInv, UpToDate
      <4> QED  BY <3>2, <4>5
    <3> QED  BY <3>3, <3>4
  <2> QED  BY <2>5, <2>6, <2>7, <2>8, <2>9, <2>10, <2>11, <2>12 DEF IInv
<1> QED  BY <1>1, <1>3, <1>4, <1>5 DEF EditCopy

-----------------------------------------------------------------------------
(* People and the end of the process                                       *)

LEMMA SendKeeps ==
  ASSUME IInv, NEW k \in Keys, NEW place \in Nat, place <= Len(threads), Send(k, place)
  PROVE  IInv'
<1>1. PICK r \in Visible(place) \cup {0} :
        tg' = Append(tg, [place |-> place, content |-> [key |-> k, draft |-> 1],
                          copyOf |-> 0, reply |-> r, live |-> TRUE])
  BY DEF Send
<1> DEFINE m == [place |-> place, content |-> [key |-> k, draft |-> 1],
                 copyOf |-> 0, reply |-> r, live |-> TRUE]
           new == Len(tg) + 1
           e == [type |-> "new", msg |-> new, draft |-> 1, again |-> FALSE]
<1>2. new \in Nat /\ new # 0
  BY Types DEF IInv
<1>3. /\ m \in Message /\ m.place = place /\ m.content.draft = 1
      /\ m.copyOf = 0 /\ m.reply = r /\ r \in DOMAIN tg \cup {0}
  BY Types DEF Message, Content, Visible, IInv
<1>4. tg' = Append(tg, m)
  BY <1>1
<1>5. /\ e \in Update /\ e.type = "new" /\ e.msg = new /\ e.draft = 1
      /\ pending' = pending \cup {e}
      /\ UNCHANGED <<threads, row, nextId, links, busy, told, lost, overtaken>>
  BY <1>2 DEF Send, Update, history
<1> HIDE DEF m, e
<1>6. /\ Kept /\ tg' \in Seq(Message)
      /\ DOMAIN tg' = DOMAIN tg \cup {new} /\ new \notin DOMAIN tg
      /\ \A i \in DOMAIN tg : tg'[i] = tg[i]
      /\ tg'[new] = m
  BY <1>3, <1>4, <1>5, Appended, Types DEF IInv
<1> HIDE DEF new
<1>7. /\ RowMoves /\ Handling' /\ LinksTrue'
      /\ \A l \in links' : {l.userMsg, l.topicMsg} \subseteq DOMAIN tg'
  BY <1>5, <1>6, HandlingKept, LinksLeft DEF RowMoves, IInv, TypeOK
<1>8. TypeOK'
  BY <1>5, <1>6, <1>7, TypesAfter DEF IInv, TypeOK
<1>9. Copies'
  <2>1. \A c \in DOMAIN tg : tg[c].copyOf # 0 => tg[c].copyOf \in DOMAIN tg
    BY DEF IInv, Copies
  <2> QED  BY <1>3, <1>6, <2>1 DEF IInv, Copies
<1>10. ContentsTrue'
  <2>1. \A c \in DOMAIN tg : tg[c].copyOf # 0 => tg[c].copyOf \in DOMAIN tg
    BY DEF IInv, Copies
  <2> QED  BY <1>3, <1>6, <2>1 DEF IInv, ContentsTrue
<1>11. Places'
  BY <1>3, <1>5, <1>6 DEF IInv, Places
<1>12. RepliesTrue'
  <2> SUFFICES ASSUME NEW c \in DOMAIN tg', tg'[c].copyOf # 0, tg'[c].reply # 0
               PROVE  LET o == tg'[c].copyOf
                      IN  /\ tg'[o].reply # 0
                          /\ \/ tg'[tg'[o].reply].copyOf = tg'[c].reply
                             \/ tg'[tg'[c].reply].copyOf = tg'[o].reply
    BY DEF RepliesTrue
  <2> DEFINE o == tg[c].copyOf  q == tg[c].reply  s == tg[o].reply
  <2>1. c \in DOMAIN tg /\ tg'[c] = tg[c]
    BY <1>3, <1>6
  <2>2. o \in DOMAIN tg /\ q \in DOMAIN tg
    BY <2>1 DEF IInv, Copies, Places
  <2>3. s # 0 /\ (tg[s].copyOf = q \/ tg[q].copyOf = s)
    BY <2>1 DEF IInv, RepliesTrue
  <2>4. s \in DOMAIN tg
    BY <2>2, <2>3 DEF IInv, Places
  <2> QED  BY <1>6, <2>1, <2>2, <2>3, <2>4
<1>13. \A w \in pending' : Genuine(w)'
  <2>1. PICK d \in Update : d = e
    BY <1>5
  <2>2. Genuine(d)'
    BY <1>3, <1>5, <1>6, <2>1 DEF Genuine
  <2> QED  BY <1>5, <1>6, <2>1, <2>2, StillGenuine
<1>14. Attended'
  <2>1. \A w \in pending : w.type = "new" => StillNew(w.msg)
    BY <1>5 DEF StillNew
  <2>2. StillNew(new)
    BY <1>5 DEF StillNew
  <2>3. Handled(busy.upd.msg)
    BY <1>5 DEF Handled
  <2> QED  BY <1>5, <1>6, <1>7, <2>1, <2>2, <2>3, AttendedAfter
<1>15. EditsWait' = EditsWait
  BY <1>5 DEF EditsWait
<1>16. InOrder'
  BY <1>5, <1>6, <1>15, InOrderKept
<1>17. UpToDate'
  BY <1>3, <1>5, <1>6, <1>7, <1>15, UpToDateKept
<1> QED  BY <1>7, <1>8, <1>9, <1>10, <1>11, <1>12, <1>13, <1>14, <1>16, <1>17 DEF IInv

LEMMA CrashKeeps ==
  ASSUME IInv, Crash  PROVE IInv'
<1>1. PICK gone \in SUBSET pending :
        /\ pending' = pending \ gone
        /\ lost' = lost \cup {u.msg : u \in gone}
                        \cup (IF busy = Free THEN {} ELSE {busy.upd.msg})
  BY DEF Crash
<1>2. /\ busy' = Free
      /\ UNCHANGED <<tg, threads, row, nextId, links, told, overtaken>>
  BY DEF Crash
<1>3. /\ Kept /\ RowMoves /\ tg' \in Seq(Message) /\ threads' \in Seq(BOOLEAN)
      /\ row' \in Row /\ row'.thread <= Len(threads')
  BY <1>2, Untouched
<1>4. /\ Handling' /\ busy'.upd = NoUpdate
      /\ busy' \in [step: Steps, upd: Update, topic: Row, target: Nat]
  BY <1>2 DEF Handling, Free, Steps, Update, NoUpdate, Row, NoRow
<1>5. /\ lost \subseteq lost' /\ lost' \subseteq DOMAIN tg
      /\ \A w \in gone : w.msg \in lost'
      /\ busy.step # "free" => busy.upd.msg \in lost'
  <2>1. \A w \in gone : w.msg \in DOMAIN tg
    BY <1>3, StillGenuine DEF Genuine
  <2>2. busy # Free => busy.step # "free" /\ busy.upd.msg \in DOMAIN tg
    BY InHand, NobodyInHand
  <2>3. lost \subseteq DOMAIN tg
    BY DEF IInv, TypeOK
  <2> QED  BY <1>1, <2>1, <2>2, <2>3 DEF Free
<1>6. TypeOK'
  BY <1>1, <1>2, <1>3, <1>4, <1>5, TypesAfter DEF IInv, TypeOK
<1>7. Copies' /\ Places' /\ RepliesTrue' /\ ContentsTrue' /\ LinksTrue'
  BY <1>2, <1>3, <1>6, MessagesSame, ContentsSame, LinksSame
<1>8. \A w \in pending' : Genuine(w)'
  BY <1>1, <1>3, StillGenuine
<1>9. Attended'
  <2>1. \A w \in pending : w.type = "new" => StillNew(w.msg) \/ Handled(w.msg)
    BY <1>1, <1>5 DEF StillNew, Handled
  <2>2. busy.step # "free" => Handled(busy.upd.msg)
    BY <1>5 DEF Handled
  <2> QED  BY <1>2, <1>3, <1>5, <2>1, <2>2, AttendedAfter
<1>10. ASSUME NEW o, o \notin lost'
       PROVE  EditsOf(o)' = EditsOf(o) /\ ~(busy.upd.type = "edit" /\ busy.upd.msg = o)
  BY <1>1, <1>5, <1>10, NobodyInHand DEF EditsOf
<1>11. InOrder'
  <2> SUFFICES ASSUME NEW o \in DOMAIN tg', o \notin (told \cup lost \cup overtaken)',
                      Kind(tg'[o].content) \notin Unheeded
               PROVE  LatestWaits(o)' \/ EditsOf(o)' = {}
    BY <1>4 DEF InOrder, NoUpdate
  <2>1. EditsOf(o)' = EditsOf(o)
    BY <1>10
  <2>2. LatestWaits(o) \/ EditsOf(o) = {}
    BY <1>2, <1>5 DEF IInv, InOrder
  <2> QED  BY <1>2, <2>1, <2>2 DEF LatestWaits
<1>12. UpToDate'
  <2> SUFFICES ASSUME NEW c \in DOMAIN tg', NEW o, o = tg'[c].copyOf,
                      o # 0, CopiesOf(o)' = {c}, ~Excused(o)',
                      tg'[o].live, tg'[c].live, tg'[c].content # tg'[o].content
               PROVE  LatestWaits(o)'
    BY DEF UpToDate
  <2>1. /\ c \in DOMAIN tg /\ o = tg[c].copyOf /\ CopiesOf(o) = {c}
        /\ tg[o].live /\ tg[c].live /\ tg[c].content # tg[o].content
    BY <1>2 DEF CopiesOf
  <2>2. ~Excused(o) /\ o \notin lost'
    BY <1>2, <1>5 DEF Excused
  <2>3. EditsOf(o)' = EditsOf(o) /\ ~(busy.upd.type = "edit" /\ busy.upd.msg = o)
    BY <1>10, <2>2
  <2>4. LatestWaits(o)
    BY <2>1, <2>2, <2>3 DEF IInv, UpToDate
  <2> QED  BY <1>2, <2>3, <2>4 DEF LatestWaits
<1> QED  BY <1>4, <1>6, <1>7, <1>8, <1>9, <1>11, <1>12 DEF IInv

LEMMA EditKeeps ==
  ASSUME IInv, NEW i \in DOMAIN tg, Edit(i)
  PROVE  IInv'
<1> DEFINE d == tg[i].content.draft + 1
           c == [tg[i].content EXCEPT !.draft = d]
           e == [type |-> "edit", msg |-> i, draft |-> d, again |-> FALSE]
<1>1. /\ tg[i].copyOf = 0 /\ tg' = [tg EXCEPT ![i].content.draft = d]
      /\ pending' = pending \cup {e}
      /\ UNCHANGED <<threads, row, nextId, links, busy, told, lost, overtaken>>
  BY DEF Edit, history
<1>2. /\ d \in Nat /\ d >= 1 /\ tg[i].content.draft \in Nat /\ i \in Nat
      /\ tg[i].content.draft <= d /\ tg[i].content \in Content
  BY Types DEF IInv
<1>3. tg' = [tg EXCEPT ![i].content = c]
  BY <1>1
<1> HIDE DEF d
<1>4. c \in Content /\ c.draft = d /\ c.key = tg[i].content.key
  BY <1>2 DEF Content
<1> HIDE DEF c
<1>5. /\ Kept /\ tg' \in Seq(Message) /\ DOMAIN tg' = DOMAIN tg
      /\ \A j \in DOMAIN tg : j # i => tg'[j] = tg[j]
      /\ tg'[i].content = c /\ tg'[i].live = tg[i].live
  BY <1>1, <1>2, <1>3, <1>4, Edited DEF IInv
<1>6. e \in Update /\ e.type = "edit" /\ e.msg = i /\ e.draft = d
  BY <1>2 DEF Update
<1> HIDE DEF e
<1>7. /\ RowMoves /\ Handling' /\ row'.thread <= Len(threads') /\ LinksTrue'
      /\ \A l \in links' : {l.userMsg, l.topicMsg} \subseteq DOMAIN tg'
  BY <1>1, <1>5, HandlingKept, LinksLeft DEF RowMoves, IInv, TypeOK, Places
<1>8. TypeOK'
  BY <1>1, <1>5, <1>6, <1>7, TypesAfter DEF IInv, TypeOK
<1>9. Copies' /\ Places' /\ RepliesTrue'
  BY <1>5, <1>7, <1>8, MessagesSame
<1>10. ContentsTrue'
  <2> SUFFICES ASSUME NEW j \in DOMAIN tg', NEW o, o = tg'[j].copyOf, o # 0
               PROVE  /\ tg'[j].content.key = tg'[o].content.key
                      /\ tg'[j].content.draft <= tg'[o].content.draft
    BY DEF ContentsTrue
  <2>1. /\ j \in DOMAIN tg /\ tg[j].copyOf = o /\ o \in DOMAIN tg /\ j # i
        /\ tg'[j] = tg[j]
    BY <1>1, <1>5 DEF Kept, IInv, Copies
  <2>2. /\ tg[j].content.key = tg[o].content.key
        /\ tg[j].content.draft <= tg[o].content.draft
        /\ tg[j].content.draft \in Nat /\ tg[o].content.draft \in Nat
    BY <2>1, Types DEF IInv, ContentsTrue
  <2> QED  BY <1>2, <1>4, <1>5, <2>1, <2>2
<1>11. \A w \in pending' : Genuine(w)'
  <2>1. PICK f \in Update : f = e
    BY <1>6
  <2>2. Genuine(f)'
    BY <1>1, <1>2, <1>4, <1>5, <1>6, <2>1 DEF Genuine, Kept
  <2> QED  BY <1>1, <1>5, <2>1, <2>2, StillGenuine
<1>12. Attended'
  <2>1. \A w \in pending : w.type = "new" => StillNew(w.msg)
    BY <1>1 DEF StillNew
  <2>2. Handled(busy.upd.msg)
    BY <1>1 DEF Handled
  <2> QED  BY <1>1, <1>5, <1>7, <2>1, <2>2, AttendedAfter
\* The edit waits, and no other one is concerned.
<1>13. LatestWaits(i)'
  <2>1. e \in pending' /\ tg'[i].content.draft = d
    BY <1>1, <1>4, <1>5
  <2> QED  BY <1>6, <2>1 DEF LatestWaits, EditsOf
<1>14. ASSUME NEW o, o # i  PROVE EditsOf(o)' = EditsOf(o)
  BY <1>1, <1>6, <1>14 DEF EditsOf
<1>15. InOrder'
  <2> SUFFICES ASSUME NEW o \in DOMAIN tg', o # i,
                      o \notin (told \cup lost \cup overtaken)',
                      Kind(tg'[o].content) \notin Unheeded
               PROVE  \/ LatestWaits(o)'
                      \/ /\ EditsOf(o)' = {}
                         /\ busy'.upd.type = "edit" /\ busy'.upd.msg = o =>
                              busy'.upd.draft = tg'[o].content.draft
    BY <1>13 DEF InOrder
  <2>1. o \in DOMAIN tg /\ tg'[o] = tg[o] /\ EditsOf(o)' = EditsOf(o)
    BY <1>5, <1>14
  <2> QED  BY <1>1, <2>1 DEF IInv, InOrder, LatestWaits
<1>16. UpToDate'
  <2> SUFFICES ASSUME NEW j \in DOMAIN tg', NEW o, o = tg'[j].copyOf, o # i,
                      o # 0, CopiesOf(o)' = {j}, ~Excused(o)',
                      tg'[o].live, tg'[j].live, tg'[j].content # tg'[o].content
               PROVE  \/ LatestWaits(o)'
                      \/ /\ busy'.upd.type = "edit" /\ busy'.upd.msg = o
                         /\ busy'.upd.draft = tg'[o].content.draft
    BY <1>13 DEF UpToDate
  <2>1. /\ j \in DOMAIN tg /\ tg[j].copyOf = o /\ o \in DOMAIN tg /\ j # i
        /\ tg'[j] = tg[j] /\ tg'[o] = tg[o]
    BY <1>1, <1>5 DEF Kept, IInv, Copies
  <2>2. CopiesOf(o) = {j}
    BY <1>5 DEF CopiesOf, Kept
  <2>3. ~Excused(o)
    BY <1>1, <1>5, <1>7, <2>1, PlacesLeft DEF Excused
  <2>4. EditsOf(o)' = EditsOf(o)
    BY <1>14
  <2> QED  BY <1>1, <2>1, <2>2, <2>3, <2>4 DEF IInv, UpToDate, LatestWaits
<1> QED  BY <1>7, <1>8, <1>9, <1>10, <1>11, <1>12, <1>15, <1>16 DEF IInv

-----------------------------------------------------------------------------
(* The theorems                                                            *)

LEMMA InitHolds == Init => IInv
<1> SUFFICES ASSUME Init  PROVE IInv
  OBVIOUS
<1>1. /\ tg = <<>> /\ threads = <<>> /\ row = NoRow /\ nextId = 1 /\ links = {}
      /\ pending = {} /\ busy = Free /\ told = {} /\ lost = {} /\ overtaken = {}
  BY DEF Init
<1>2. DOMAIN tg = {} /\ tg \in Seq(Message) /\ threads \in Seq(BOOLEAN)
      /\ Len(threads) = 0
  BY <1>1
<1>3. busy \in [step: Steps, upd: Update, topic: Row, target: Nat] /\ row \in Row
  BY <1>1 DEF Free, Steps, Update, NoUpdate, Row, NoRow
<1>4. TypeOK
  BY <1>1, <1>2, <1>3 DEF TypeOK
<1>5. Copies /\ ContentsTrue /\ RepliesTrue /\ LinksTrue /\ Attended /\ InOrder /\ UpToDate
  BY <1>1, <1>2 DEF Copies, ContentsTrue, RepliesTrue, LinksTrue, Attended, InOrder,
                    UpToDate
<1>6. Places /\ Handling
  BY <1>1, <1>2 DEF Places, Handling, Free, NoRow
<1> QED  BY <1>1, <1>4, <1>5, <1>6 DEF IInv

LEMMA NextHolds == IInv /\ [Next]_vars => IInv'
<1> SUFFICES ASSUME IInv, [Next]_vars  PROVE IInv'
  OBVIOUS
<1>1. CASE \E u \in pending : Dismiss(u) \/ Arriving(u)
  BY <1>1, DismissKeeps, ArrivalKeeps
<1>2. CASE Handler
  BY <1>2, OpenThreadKeeps, SendToThreadKeeps, SendToUserKeeps, RecordKeeps,
     EditCopyKeeps, TerminateKeeps DEF Handler
<1>3. CASE \E k \in UserMsgs : Send(k, 0)
  <2>1. 0 \in Nat /\ 0 <= Len(threads) /\ UserMsgs \subseteq Keys
    BY Types DEF IInv, Keys
  <2> QED  BY <1>3, <2>1, SendKeeps
<1>4. CASE \E k \in AdminMsgs, th \in DOMAIN threads : threads[th] /\ Send(k, th)
  <2>1. PICK k \in AdminMsgs, th \in DOMAIN threads : Send(k, th)
    BY <1>4
  <2>2. th \in Nat /\ th <= Len(threads) /\ k \in Keys
    BY Types DEF IInv, Keys
  <2> QED  BY <2>1, <2>2, SendKeeps
<1>5. CASE \E i \in DOMAIN tg : Edit(i)
  BY <1>5, EditKeeps
<1>6. CASE \E th \in DOMAIN threads : ThreadRemoved(th)
  BY <1>6, RemovalKeeps
<1>7. CASE MessageCleanup
  BY <1>7, CleanupKeeps
<1>8. CASE Crash
  BY <1>8, CrashKeeps
<1>9. CASE UNCHANGED vars
  <2>1. /\ UNCHANGED <<tg, threads, row, nextId, links, pending, busy>>
        /\ UNCHANGED <<told, lost, overtaken>>
    BY <1>9 DEF vars
  <2>2. busy.upd \in Update /\ nextId' \in Nat /\ links' \subseteq links
    BY <2>1 DEF IInv, TypeOK
  <2> QED  BY <2>1, <2>2, Untouched, LinksLeft, QuietStep
<1> QED  BY <1>1, <1>2, <1>3, <1>4, <1>5, <1>6, <1>7, <1>8, <1>9 DEF Next, Arriving

\* The strengthening holds throughout: what a handler looked up remains the
\* counterpart of its message, whatever happens before it calls Telegram, and
\* what is not copied or not up to date is on its way or excused.
THEOREM Invariance == Spec => []IInv
  BY InitHolds, NextHolds, PTL DEF Spec

\* Messages, rows, links and updates keep their shape, and links and the
\* history speak of messages that exist.
THEOREM TypeCorrectness == Spec => []TypeOK
<1>1. IInv => TypeOK
  BY DEF IInv
<1> QED  BY <1>1, Invariance, PTL

\* A link joins a message with its own copy on the other side, however many
\* updates come twice, late, or in another order, and whatever fails.
THEOREM LinksJoinCopies == Spec => []LinksTrue
<1>1. IInv => LinksTrue
  BY DEF IInv
<1> QED  BY <1>1, Invariance, PTL

\* A copy says only what its original said: an edit never reaches the copy of
\* another message through an old link, an old row or a reused lookup.
THEOREM CopiesQuote == Spec => []ContentsTrue
<1>1. IInv => ContentsTrue
  BY DEF IInv
<1> QED  BY <1>1, Invariance, PTL

\* A copy answers the counterpart of what its original answers or nothing.
THEOREM RepliesFollow == Spec => []RepliesTrue
<1>1. IInv => RepliesTrue
  BY DEF IInv
<1> QED  BY <1>1, Invariance, PTL

LEMMA SettledMeans ==
  ASSUME IInv, NEW o \in DOMAIN tg, Settled(o)
  PROVE  ~LatestWaits(o) /\ busy.upd.msg # o /\ ~\E u \in pending : u.msg = o
  BY DEF Settled, LatestWaits, EditsOf

\* When all is handled, a copy differs from its original only for a reason
\* the system knows of; the reasons EditsExplained lists are all there are.
THEOREM DifferencesExplained == Spec => []EditsExplained
<1>1. IInv => EditsExplained
  <2> SUFFICES ASSUME IInv, NEW c \in DOMAIN tg, NEW o, o = tg[c].copyOf, o # 0,
                      Settled(o), tg[o].live, tg[c].live, tg[c].content # tg[o].content,
                      CopiesOf(o) = {c}
               PROVE  Excused(o)
    BY DEF EditsExplained, Excused
  <2>1. o \in DOMAIN tg
    BY DEF IInv, Copies
  <2> QED  BY <2>1, SettledMeans DEF IInv, UpToDate
<1> QED  BY <1>1, Invariance, PTL

\* Whatever reached the bot is copied, answered, dead with the process, in a
\* thread that is not the user's, or of a kind that the handlers pass over on
\* purpose: in every other case no handler returns without a word.
THEOREM NoneIgnored == Spec => []NobodyIgnored
<1>1. IInv => NobodyIgnored
  BY SettledMeans DEF IInv, Attended, NobodyIgnored
<1> QED  BY <1>1, Invariance, PTL

=============================================================================
