------------------------------ MODULE RelayInv -------------------------------
(***************************************************************************)
(* The inductive invariant behind the properties of Relay.  What a copy    *)
(* says and answers depends on the target a handler looked up before it    *)
(* called Telegram; that no message and no edit is lost in silence depends *)
(* on where its update is at each moment.                                  *)
(***************************************************************************)
EXTENDS Relay

\* One of the two is the copy of the other.
Paired(a, b) == tg[a].copyOf = b \/ tg[b].copyOf = a

\* A copy of an original, on the other side of the bot.
Copies ==
  \A c \in DOMAIN tg :
    LET o == tg[c].copyOf
    IN  o # 0 => /\ o \in DOMAIN tg /\ tg[o].copyOf = 0
                 /\ tg[c].place = 0 <=> tg[o].place # 0

\* What is answered exists; nobody writes in a thread that was never opened.
Places ==
  /\ \A i \in DOMAIN tg :
       tg[i].reply \in DOMAIN tg \cup {0} /\ tg[i].place <= Len(threads)
  /\ row.thread <= Len(threads)

-----------------------------------------------------------------------------
(* Updates that wait, and the handler under way                            *)

\* An update is about an original, and not ahead of it.
Genuine(u) ==
  /\ u.type \in {"new", "edit"} /\ u.msg \in DOMAIN tg
  /\ tg[u.msg].copyOf = 0
  /\ u.draft \in 1 .. tg[u.msg].content.draft
  /\ u.type = "new" => u.draft = 1

\* The message that was looked up for the copy to answer.
Counterparts(u, x) ==
  x # 0 => /\ x \in DOMAIN tg /\ tg[u.msg].reply # 0
           /\ Paired(tg[u.msg].reply, x)

UnderWay(step, u, t, x) ==
  /\ Genuine(u)
  /\ step \in {"open", "send", "record"} => u.type = "new"
  /\ step = "send" => t.thread \in DOMAIN threads /\ Counterparts(u, x)
  /\ step = "edit" => u.type = "edit"
  /\ step \in {"record", "edit"} => x \in DOMAIN tg /\ tg[x].copyOf = u.msg

Handling ==
  IF busy.step = "free"
    THEN busy = Free
    ELSE UnderWay(busy.step, busy.upd, busy.topic, busy.target)

-----------------------------------------------------------------------------
(* Nothing is lost in silence                                              *)

\* A message that was neither copied nor answered is still on its way, or was
\* passed over on purpose.
Attended ==
  \A o \in DOMAIN tg :
    tg[o].copyOf = 0 =>
      \/ \E u \in pending : u.type = "new" /\ u.msg = o
      \/ busy.upd.msg = o
      \/ CopiesOf(o) # {} \/ o \in told \cup lost
      \/ tg[o].place \notin {0, row.thread}
      \/ Drafts[tg[o].content.key][1] \in Unheeded

EditsOf(o) == {u \in pending : u.type = "edit" /\ u.msg = o}

\* The edit that makes message o what it is now waits.
LatestWaits(o) == \E u \in EditsOf(o) : u.draft = tg[o].content.draft

\* Edits are handled in order: behind the latest one none is left.  Only one
\* that is dismissed does not wait for the mutex, and may pass an older one.
InOrder ==
  \A o \in DOMAIN tg \ (told \cup lost \cup overtaken) :
    \/ LatestWaits(o)
    \/ Kind(tg[o].content) \in Unheeded
    \/ /\ EditsOf(o) = {}
       /\ busy.upd.type = "edit" /\ busy.upd.msg = o =>
            busy.upd.draft = tg[o].content.draft

\* What is not handled in order, or without an answer.
Excused(o) ==
  \/ o \in told \cup lost \cup overtaken
  \/ tg[o].place \notin {0, row.thread}
  \/ Kind(tg[o].content) \in Unheeded

\* The only copy of a message is up to date, or the latest edit is on its way.
UpToDate ==
  \A c \in DOMAIN tg :
    LET o == tg[c].copyOf
    IN  /\ o # 0 /\ CopiesOf(o) = {c} /\ ~Excused(o)
        /\ tg[o].live /\ tg[c].live /\ tg[c].content # tg[o].content
        => \/ LatestWaits(o)
           \/ /\ busy.upd.type = "edit" /\ busy.upd.msg = o
              /\ busy.upd.draft = tg[o].content.draft

IInv ==
  /\ TypeOK
  /\ Copies /\ ContentsTrue /\ Places /\ RepliesTrue /\ LinksTrue
  /\ \A u \in pending : Genuine(u)
  /\ Handling
  /\ Attended /\ InOrder /\ UpToDate

=============================================================================
