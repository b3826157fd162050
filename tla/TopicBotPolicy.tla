--------------------------- MODULE TopicBotPolicy ----------------------------
(***************************************************************************)
(* TopicBot implements AccessPolicy.  The standing of a user is read off   *)
(* the user's row; the floor off the update in the critical section.       *)
(***************************************************************************)
EXTENDS TopicBotInv

CaptchaOf(t) ==
  CASE t.verification = "NotSent" -> "none"
    [] t.verification = "Completed" -> "passed"
    [] t.verification = "NotCompleted" -> IF t.sent = 0 THEN "spent" ELSE "asked"

\* NoTopic, the row of a user without one, is a stranger's.
RowOf(table, u) == CHOOSE t \in FindByUser(table, u) : TRUE

StandingOf(t) == [captcha |-> CaptchaOf(t), ban |-> t.ban]

StandingIn(table) == [u \in Users |-> StandingOf(RowOf(table, u))]

\* A message is heard once Telegram has put it into the thread.
FloorOf(g) ==
  [role |-> IF upd[g].kind \in UserKinds THEN "user" ELSE "administrator",
   user |-> IF upd[g].kind \in UserKinds THEN upd[g].user ELSE NoUser,
   heard |-> pc[g] = "record" /\ upd[g].kind = "message"]

FloorNow ==
  IF topicLock = Nobody
    THEN [role |-> "nobody", user |-> NoUser, heard |-> FALSE]
    ELSE FloorOf(topicLock)

NeverLetOff == {u \in Users : Screening[u] = {TRUE}}

Policy == INSTANCE AccessPolicy WITH Screened <- NeverLetOff,
                                     standing <- StandingIn(topics),
                                     floor <- FloorNow

\* Whatever fails, dies or is repeated, each step of the handlers and of the
\* nightly job moves the standings as the policy permits: one user's by that
\* user's update, a ban by administrators only, and nobody is heard whose
\* standing at that moment forbids it.
PolicyObeyed == Policy!PolicySpec

-----------------------------------------------------------------------------
(* What a step of the policy rests on beyond IInv: what handler `l` of     *)
(* update `u` knows of its local row `t` from the checks it passed.        *)

\* The updates that may end with terminateTopic.
Terminators == {"kicked", "terminate", "topicTerminate", "reply", "topicEdit"}

\* A user's update carries the user's own row; which calls a kind leads to.
Addressee(l, u, t) ==
  /\ u.kind \in UserKinds => u.user = t.user
  /\ l = "deliver" => u.kind \in {"reply", "topicEdit"}
  /\ l = "delete" => u.kind \in Terminators \cup {"ban", "topicBan"}
  /\ l = "terminate" => u.kind \in Terminators

\* What the checks of the row have found out.
Checked(l, u, t) ==
  /\ t.id = 0 \/ l = "saveCaptcha" => t.verification = "NotSent"
  /\ Relaying(l, u) => t.verification # "NotCompleted"
  /\ u.kind = "reply" /\ l # "admit" => t.verification = "Completed"
  /\ u.kind = "answer" => ~t.ban
  /\ l = "flag" => t.ban = (u.kind = "reopened")

\* Since the handler read its row nobody asked the user again: the challenge
\* in the database is the one in hand, or is gone.
SameChallenge(t) ==
  t.verification = "NotCompleted" =>
    \A r \in topics : r.id = t.id => r.sent \in {0, t.sent}

Carried ==
  \A g \in Goroutines :
    pc[g] # "idle" => /\ Addressee(pc[g], upd[g], row[g])
                      /\ Checked(pc[g], upd[g], row[g])
                      /\ SameChallenge(row[g])

\* The inductive invariant of the refinement.
PolicyInv == IInv /\ Carried

=============================================================================
