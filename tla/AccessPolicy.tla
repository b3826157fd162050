---------------------------- MODULE AccessPolicy -----------------------------
(***************************************************************************)
(* What the bot promises about access, without rows, threads, goroutines   *)
(* or failures: each user has a standing, and whoever has the floor may    *)
(* move it along fixed ways.  A user's own updates move only that user's   *)
(* standing and never lift a ban; the nightly job withdraws challenges;    *)
(* everything else takes an administrator.  A user is heard in the group   *)
(* only while the standing permits it.                                     *)
(*                                                                         *)
(* TopicBotPolicy shows that TopicBot implements this specification.       *)
(***************************************************************************)
CONSTANTS Users,
          NoUser,
          Screened   \* the users shouldSendCaptcha never lets off

VARIABLES standing,  \* user -> where the user is with the captcha, and the ban
          floor      \* whose update is being handled, and whether it was heard

policyVars == <<standing, floor>>

\* VerificationNotSent; a challenge that can be answered; NotCompleted without
\* one (it was answered, or withdrawn); VerificationCompleted.
Captcha == {"none", "asked", "spent", "passed"}
Standing == [captcha: Captcha, ban: BOOLEAN]
Stranger == [captcha |-> "none", ban |-> FALSE]

Floor(role, user, heard) == [role |-> role, user |-> user, heard |-> heard]
Free == Floor("nobody", NoUser, FALSE)
Administrator == Floor("administrator", NoUser, FALSE)
Speaker(u) == Floor("user", u, FALSE)
Heard(u) == Floor("user", u, TRUE)

PolicyInit == standing = [u \in Users |-> Stranger] /\ floor = Free

-----------------------------------------------------------------------------

TakeFloor ==
  /\ floor = Free
  /\ floor' \in {Administrator} \cup {Speaker(u) : u \in Users}
  /\ UNCHANGED standing

\* The handler returns, or dies.
YieldFloor == floor' = Free /\ UNCHANGED standing

\* The handler's write moves one standing; it may be the last thing it does.
Move(u, s) ==
  /\ floor' \in {floor, Free}
  /\ standing' = [standing EXCEPT ![u] = s]

With(u, captcha) == [standing[u] EXCEPT !.captcha = captcha]

(* By the user's own updates *)

Ask(u) == standing[u].captcha = "none" /\ Move(u, With(u, "asked"))

Spend(u) == standing[u].captcha = "asked" /\ Move(u, With(u, "spent"))

Pass(u) == standing[u] = [captcha |-> "spent", ban |-> FALSE]
           /\ Move(u, With(u, "passed"))

MaySpeak(u) ==
  /\ ~standing[u].ban
  /\ \/ standing[u].captcha = "passed"
     \/ standing[u].captcha = "none" /\ u \notin Screened

Speak(u) == MaySpeak(u) /\ floor' = Heard(u) /\ UNCHANGED standing

\* The user blocked the bot, and nothing has to be remembered.
Forget(u) ==
  /\ standing[u] = [captcha |-> "passed", ban |-> FALSE]
  /\ Move(u, Stranger)

\* A handler saves the row it read before the nightly job withdrew the
\* challenge: the challenge can be answered again.
Revive(u) == standing[u].captcha = "spent" /\ Move(u, With(u, "asked"))

ByUser(u) ==
  /\ floor = Speaker(u)
  /\ Ask(u) \/ Spend(u) \/ Pass(u) \/ Speak(u) \/ Forget(u) \/ Revive(u)

(* By administrators *)

Ban(u) == Move(u, [captcha |-> "none", ban |-> TRUE])

\* Without a topic the user is a stranger again, with one a verified user.
Unban(u) == \E c \in {"none", "passed"} : Move(u, [captcha |-> c, ban |-> FALSE])

\* A topic is closed or reopened, with the challenge as the handler read it.
Flag(u) ==
  \E c \in {standing[u].captcha}
             \cup (IF standing[u].captcha = "spent" THEN {"asked"} ELSE {}) :
    Move(u, [captcha |-> c, ban |-> ~standing[u].ban])

\* Whoever is answered counts as verified.
Admit(u) == Move(u, With(u, "passed"))

Terminate(u) == ~standing[u].ban /\ Move(u, Stranger)

ByAdministrator(u) ==
  /\ floor = Administrator
  /\ \/ Ban(u) \/ Unban(u) \/ Flag(u) \/ Admit(u) \/ Terminate(u) \/ Revive(u)

(* By the clock, whoever has the floor *)

Withdraw ==
  /\ UNCHANGED floor
  /\ \E late \in SUBSET {u \in Users : standing[u].captcha = "asked"} :
       standing' = [u \in Users |-> IF u \in late THEN With(u, "spent")
                                                  ELSE standing[u]]

PolicyNext ==
  \/ TakeFloor \/ YieldFloor \/ Withdraw
  \/ \E u \in Users : ByUser(u) \/ ByAdministrator(u)

PolicySpec == PolicyInit /\ [][PolicyNext]_policyVars

=============================================================================
