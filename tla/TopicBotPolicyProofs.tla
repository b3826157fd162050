------------------------ MODULE TopicBotPolicyProofs -------------------------
(***************************************************************************)
(* That every step of TopicBot is a step of AccessPolicy, or a stutter.    *)
(* The invariant of TopicBotProofs says which row the handler in the       *)
(* critical section writes; Carried adds what its checks found out.        *)
(***************************************************************************)
EXTENDS TopicBotPolicy, TopicBotProofs

Obeyed == [Policy!PolicyNext]_Policy!policyVars

-----------------------------------------------------------------------------
(* The standing of a user in a table.                                      *)

\* The standing of a user who has a row is read off that row.
LEMMA StandingOfRow ==
  ASSUME NEW table, \A x, y \in table : x.user = y.user => x = y,
         NEW r \in table, r.user \in Users
  PROVE  StandingIn(table)[r.user] = StandingOf(r)
<1>1. FindByUser(table, r.user) = {r}
  BY DEF FindByUser, Found
<1>2. RowOf(table, r.user) = r
  BY <1>1 DEF RowOf
<1> QED BY <1>2 DEF StandingIn

\* A user without a row is a stranger.
LEMMA StandingOfNobody ==
  ASSUME NEW table, NEW u \in Users, \A r \in table : r.user # u
  PROVE  StandingIn(table)[u] = Policy!Stranger
<1>1. FindByUser(table, u) = {NoTopic}
  BY DEF FindByUser, Found
<1>2. RowOf(table, u) = NoTopic
  BY <1>1 DEF RowOf
<1>3. NoTopic.verification = "NotSent" /\ NoTopic.ban = FALSE
  BY DEF NoTopic
<1>4. StandingOf(NoTopic) = Policy!Stranger
  BY <1>3 DEF StandingOf, CaptchaOf, Policy!Stranger
<1> QED BY <1>2, <1>4 DEF StandingIn

\* Users whose rows two tables agree on have the same standing in both.
LEMMA SameRowsSameStanding ==
  ASSUME NEW s, NEW t, NEW u \in Users,
         \A r : r.user = u => (r \in s <=> r \in t)
  PROVE  StandingIn(s)[u] = StandingIn(t)[u]
<1>1. FindByUser(s, u) = FindByUser(t, u)
  BY DEF FindByUser, Found
<1>2. RowOf(s, u) = RowOf(t, u)
  BY <1>1 DEF RowOf
<1> QED BY <1>2 DEF StandingIn

LEMMA Standings ==
  ASSUME NEW table
  PROVE  StandingIn(table) = [u \in Users |-> StandingIn(table)[u]]
BY DEF StandingIn

\* A write that leaves the rows of the others alone moves one standing.
LEMMA Moved ==
  ASSUME UniqueUser', NEW u \in Users, NEW s,
         \A r : r.user # u => (r \in topics <=> r \in topics'),
         \/ \E r \in topics' : r.user = u /\ StandingOf(r) = s
         \/ s = Policy!Stranger /\ \A r \in topics' : r.user # u
  PROVE  StandingIn(topics') = [StandingIn(topics) EXCEPT ![u] = s]
<1>1. StandingIn(topics')[u] = s
  BY StandingOfRow, StandingOfNobody DEF UniqueUser
<1>2. \A v \in Users : v # u =>
        StandingIn(topics')[v] = StandingIn(topics)[v]
  BY SameRowsSameStanding
<1> HIDE DEF StandingIn
<1> QED BY <1>1, <1>2, Standings

\* A standing that is moved to where it is does not move.
LEMMA NotMoved ==
  ASSUME NEW table, NEW u, NEW s, StandingIn(table)[u] = s
  PROVE  [StandingIn(table) EXCEPT ![u] = s] = StandingIn(table)
BY Standings

-----------------------------------------------------------------------------
(* The floor, and what the handler that has it knows of the standing of    *)
(* the user its row belongs to.                                            *)

\* Whose update the handler in the critical section answers.
LEMMA FloorHeld ==
  ASSUME IInv, NEW g \in Goroutines, pc[g] # "idle"
  PROVE  topicLock = g /\ FloorNow = FloorOf(g)
BY BotAssumption DEF IInv, Handlers, Locking, FloorNow

LEMMA UserHasFloor ==
  ASSUME PolicyInv, NEW g \in Goroutines, pc[g] # "idle",
         upd[g].kind \in UserKinds, pc[g] # "record"
  PROVE  FloorNow = Policy!Speaker(row[g].user)
<1>1. upd[g].user = row[g].user
  BY DEF PolicyInv, Carried, Addressee
<1> QED BY <1>1, FloorHeld
        DEF PolicyInv, FloorOf, Policy!Speaker, Policy!Floor

LEMMA AdministratorHasFloor ==
  ASSUME PolicyInv, NEW g \in Goroutines, pc[g] # "idle",
         upd[g].kind \notin UserKinds
  PROVE  FloorNow = Policy!Administrator
BY FloorHeld DEF PolicyInv, FloorOf, UserKinds, Policy!Administrator, Policy!Floor

LEMMA FloorYielded ==
  ASSUME NEW g, Return(g)
  PROVE  FloorNow' = Policy!Free
BY DEF Return, FloorNow, Policy!Free, Policy!Floor

\* A handler that goes on keeps the floor.
LEMMA FloorKept ==
  ASSUME IInv, NEW g \in Goroutines, pc[g] # "idle", NEW l, NEW t,
         Goto(g, l, t), upd[g].kind = "message" => l # "record" /\ pc[g] # "record"
  PROVE  FloorNow' = FloorNow
<1>1. topicLock = g /\ topicLock' = g /\ pc'[g] = l /\ upd' = upd
  BY FloorHeld, Gone DEF Goto
<1> QED BY <1>1, BotAssumption DEF FloorNow, FloorOf

\* The standing of the user is the one of the row in hand, but that the
\* challenge may have been withdrawn, and an answer that is judged is spent.
InHandNow(g, c) ==
  /\ StandingIn(topics)[row[g].user] = [captcha |-> c, ban |-> row[g].ban]
  /\ c \in Policy!Captcha
  /\ upd[g].kind # "reply" =>
       /\ row[g].verification = "NotSent" => c = "none"
       /\ row[g].verification = "Completed" => c = "passed"
       /\ row[g].verification = "NotCompleted" =>
            c = "spent" \/ (c = "asked" /\ row[g].sent # 0)
  /\ pc[g] = "check" => c = "spent"

LEMMA CaptchaTyped ==
  ASSUME NEW t \in Topic
  PROVE  /\ CaptchaOf(t) \in Policy!Captcha
         /\ t.verification = "NotSent" => CaptchaOf(t) = "none"
         /\ t.verification = "Completed" => CaptchaOf(t) = "passed"
         /\ t.verification = "NotCompleted" =>
              CaptchaOf(t) = IF t.sent = 0 THEN "spent" ELSE "asked"
<1>1. t.verification \in {"NotSent", "NotCompleted", "Completed"}
  BY DEF Topic, Verification
<1> QED BY <1>1 DEF CaptchaOf, Policy!Captcha

LEMMA StandingInHand ==
  ASSUME PolicyInv, NEW g \in Goroutines, pc[g] # "idle"
  PROVE  row[g].user \in Users /\ \E c : InHandNow(g, c)
<1>1. /\ row[g] \in Topic /\ row[g].user \in Users
      /\ Coherent(pc[g], upd[g], row[g])
      /\ Checked(pc[g], upd[g], row[g]) /\ SameChallenge(row[g])
  BY InHand DEF PolicyInv, Carried, Placed
<1>2. CASE row[g].id = 0
  <2>1. /\ row[g].verification = "NotSent" /\ row[g].ban = FALSE
        /\ pc[g] # "check" /\ \A r \in topics : r.user # row[g].user
    BY <1>1, <1>2 DEF Checked, Coherent, RowInHand, MayCreate, Topic
  <2>2. StandingIn(topics)[row[g].user] = [captcha |-> "none", ban |-> FALSE]
    BY <1>1, <2>1, StandingOfNobody DEF Policy!Stranger
  <2>3. InHandNow(g, "none")
    BY <2>1, <2>2 DEF InHandNow, Policy!Captcha
  <2> QED BY <1>1, <2>3
<1>3. CASE row[g].id # 0
  <2>1. PICK r \in topics :
          /\ r.id = row[g].id /\ r.user = row[g].user /\ r.ban = row[g].ban
          /\ upd[g].kind # "reply" => r.verification = row[g].verification
          /\ pc[g] = "check" => r.challenge = 0 /\ r.sent = 0
    BY <1>1, <1>3 DEF Coherent, RowInHand, Copied
  <2>2. StandingIn(topics)[row[g].user] = [captcha |-> CaptchaOf(r), ban |-> row[g].ban]
    BY <1>1, <2>1, StandingOfRow DEF PolicyInv, IInv, Tables, UniqueUser, StandingOf
  <2>3. r \in Topic /\ (row[g].verification = "NotCompleted" => r.sent \in {0, row[g].sent})
    BY <1>1, <2>1 DEF SameChallenge, PolicyInv, IInv, Tables, TablesTyped
  <2>4. pc[g] = "check" => /\ upd[g].kind # "reply" /\ r.sent = 0
                           /\ row[g].verification = "NotCompleted"
    BY <1>1, <2>1 DEF Coherent, UpdateInHand, Allowed
  <2>5. InHandNow(g, CaptchaOf(r))
    BY <2>1, <2>2, <2>3, <2>4, CaptchaTyped DEF InHandNow
  <2> QED BY <1>1, <2>5
<1> QED BY <1>2, <1>3

-----------------------------------------------------------------------------
(* Writes of the row in hand, as moves.                                    *)

\* Saving a form of the row in hand moves its user's standing.
LEMMA SavedMoves ==
  ASSUME IInv, IInv', NEW g \in Goroutines, pc[g] # "idle",
         NEW t \in Topic, t.id = row[g].id, t.user = row[g].user,
         \/ t.id # 0 /\ topics' = Saved(topics, t)
         \/ SaveTopic(t)
  PROVE  StandingIn(topics') =
           [StandingIn(topics) EXCEPT ![row[g].user] = StandingOf(t)]
<1>1. /\ row[g].user \in Users /\ UniqueUser'
      /\ t.id = 0 => \A r \in topics : r.user # t.user
      /\ t.id # 0 => \E r \in topics : r.id = t.id /\ r.user = t.user
  BY InHand DEF Placed, IInv, Tables
<1>2. PICK n : /\ n.user = t.user /\ StandingOf(n) = StandingOf(t)
               /\ topics' = Saved(topics, n)
               /\ \A r \in topics : r.id = n.id => r.user = n.user
  <2>1. CASE t.id # 0
    BY <1>1, <2>1 DEF SaveTopic, Stored, IInv, Tables, RowKeys
  <2>2. CASE t.id = 0
    <3> DEFINE n == [t EXCEPT !.id = nextId]
    <3>1. /\ n.id = nextId /\ n.user = t.user /\ n.ban = t.ban
          /\ n.verification = t.verification /\ n.sent = t.sent
          /\ topics' = Saved(topics, n)
      BY <2>2 DEF SaveTopic, Stored, Topic
    <3> HIDE DEF n
    <3>2. \A r \in topics : r.id # n.id
      BY <3>1 DEF IInv, Tables, TablesTyped, RowKeys
    <3>3. StandingOf(n) = StandingOf(t)
      BY <3>1 DEF StandingOf, CaptchaOf
    <3> QED BY <3>1, <3>2, <3>3
  <2> QED BY <2>1, <2>2
<1>3. \A r : r.user # row[g].user => (r \in topics <=> r \in topics')
  BY <1>2 DEF Saved
<1>4. n \in topics'
  BY <1>2 DEF Saved
<1> QED BY <1>1, <1>2, <1>3, <1>4, Moved

\* Deleting it makes its user a stranger.
LEMMA DeletedMoves ==
  ASSUME IInv, IInv', NEW g \in Goroutines, pc[g] # "idle", row[g].id # 0,
         topics' = Deleted(topics, row[g])
  PROVE  StandingIn(topics') =
           [StandingIn(topics) EXCEPT ![row[g].user] = Policy!Stranger]
<1>1. /\ row[g].user \in Users /\ UniqueUser'
      /\ \E r \in topics : r.id = row[g].id /\ r.user = row[g].user
  BY InHand DEF Placed, IInv, Tables
<1>2. \A r \in topics : r.id = row[g].id <=> r.user = row[g].user
  BY <1>1 DEF IInv, Tables, RowKeys, UniqueUser
<1>3. \A r : r.user # row[g].user => (r \in topics <=> r \in topics')
  BY <1>2 DEF Deleted
<1>4. \A r \in topics' : r.user # row[g].user
  BY <1>2 DEF Deleted
<1> QED BY <1>1, <1>3, <1>4, Moved

-----------------------------------------------------------------------------
(* Moves, as steps of the policy.                                          *)

\* No standing moves: the handler goes on, or yields the floor.
LEMMA Quiet ==
  ASSUME StandingIn(topics') = StandingIn(topics),
         FloorNow' \in {FloorNow, Policy!Free}
  PROVE  Obeyed
BY DEF Obeyed, Policy!PolicyNext, Policy!YieldFloor, Policy!policyVars

Mark(c, b) == [captcha |-> c, ban |-> b]

\* The ways a user's own updates may move the user's standing.
LEMMA UserMoves ==
  ASSUME NEW u \in Users, NEW c, NEW b \in BOOLEAN, NEW s,
         FloorNow = Policy!Speaker(u), FloorNow' \in {FloorNow, Policy!Free},
         StandingIn(topics)[u] = Mark(c, b),
         StandingIn(topics') = [StandingIn(topics) EXCEPT ![u] = s],
         \/ s = Mark(c, b)
         \/ c = "none" /\ s = Mark("asked", b)
         \/ c = "asked" /\ s = Mark("spent", b)
         \/ c = "spent" /\ s = Mark("asked", b)
         \/ c = "spent" /\ ~b /\ s = Mark("passed", b)
         \/ c = "passed" /\ ~b /\ s = Policy!Stranger
  PROVE  Obeyed
<1>1. CASE s = Mark(c, b)
  BY <1>1, NotMoved, Quiet
<1>2. \A x : Policy!With(u, x) = Mark(x, b)
  BY DEF Policy!With, Mark
<1>3. StandingIn(topics)[u].captcha = c /\ StandingIn(topics)[u].ban = b
  BY DEF Mark
<1>4. Policy!Move(u, s)
  BY DEF Policy!Move
<1>5. CASE c = "none" /\ s = Mark("asked", b)
  <2>1. Policy!Ask(u)
    BY <1>2, <1>3, <1>4, <1>5 DEF Policy!Ask
  <2> QED BY <2>1 DEF Obeyed, Policy!PolicyNext, Policy!ByUser
<1>6. CASE c = "asked" /\ s = Mark("spent", b)
  <2>1. Policy!Spend(u)
    BY <1>2, <1>3, <1>4, <1>6 DEF Policy!Spend
  <2> QED BY <2>1 DEF Obeyed, Policy!PolicyNext, Policy!ByUser
<1>7. CASE c = "spent" /\ s = Mark("asked", b)
  <2>1. Policy!Revive(u)
    BY <1>2, <1>3, <1>4, <1>7 DEF Policy!Revive
  <2> QED BY <2>1 DEF Obeyed, Policy!PolicyNext, Policy!ByUser
<1>8. CASE c = "spent" /\ ~b /\ s = Mark("passed", b)
  <2>1. Policy!Pass(u)
    BY <1>2, <1>4, <1>8 DEF Policy!Pass, Mark
  <2> QED BY <2>1 DEF Obeyed, Policy!PolicyNext, Policy!ByUser
<1>9. CASE c = "passed" /\ ~b /\ s = Policy!Stranger
  <2>1. Policy!Forget(u)
    BY <1>4, <1>9 DEF Policy!Forget, Mark
  <2> QED BY <2>1 DEF Obeyed, Policy!PolicyNext, Policy!ByUser
<1> QED BY <1>1, <1>5, <1>6, <1>7, <1>8, <1>9

\* The ways an administrator's update may move a user's standing.
AdministratorMay(c, b, s) ==
  \/ s = Mark(c, b)
  \/ s = Mark("none", TRUE)
  \/ s = Mark("none", FALSE) \/ s = Mark("passed", FALSE)
  \/ s = Mark(c, ~b) \/ (c = "spent" /\ s = Mark("asked", ~b))
  \/ s = Mark("passed", b)
  \/ c = "spent" /\ s = Mark("asked", b)

LEMMA AdministratorMoves ==
  ASSUME NEW u \in Users, NEW c, NEW b \in BOOLEAN, NEW s,
         FloorNow = Policy!Administrator, FloorNow' \in {FloorNow, Policy!Free},
         StandingIn(topics)[u] = Mark(c, b),
         StandingIn(topics') = [StandingIn(topics) EXCEPT ![u] = s],
         AdministratorMay(c, b, s)
  PROVE  Obeyed
<1>1. CASE s = Mark(c, b)
  BY <1>1, NotMoved, Quiet
<1>2. \A x : Policy!With(u, x) = Mark(x, b)
  BY DEF Policy!With, Mark
<1>3. StandingIn(topics)[u].captcha = c /\ StandingIn(topics)[u].ban = b
  BY DEF Mark
<1>4. Policy!Move(u, s)
  BY DEF Policy!Move
<1>5. CASE s = Mark("none", TRUE)
  <2>1. Policy!Ban(u)
    BY <1>4, <1>5 DEF Policy!Ban, Mark
  <2> QED BY <2>1 DEF Obeyed, Policy!PolicyNext, Policy!ByAdministrator
<1>6. CASE s = Mark("none", FALSE) \/ s = Mark("passed", FALSE)
  <2>1. Policy!Unban(u)
    BY <1>4, <1>6 DEF Policy!Unban, Mark
  <2> QED BY <2>1 DEF Obeyed, Policy!PolicyNext, Policy!ByAdministrator
<1>7. CASE s = Mark(c, ~b) \/ (c = "spent" /\ s = Mark("asked", ~b))
  <2>1. Policy!Flag(u)
    BY <1>3, <1>4, <1>7 DEF Policy!Flag, Mark
  <2> QED BY <2>1 DEF Obeyed, Policy!PolicyNext, Policy!ByAdministrator
<1>8. CASE s = Mark("passed", b)
  <2>1. Policy!Admit(u)
    BY <1>2, <1>4, <1>8 DEF Policy!Admit
  <2> QED BY <2>1 DEF Obeyed, Policy!PolicyNext, Policy!ByAdministrator
<1>9. CASE c = "spent" /\ s = Mark("asked", b)
  <2>1. Policy!Revive(u)
    BY <1>2, <1>3, <1>4, <1>9 DEF Policy!Revive
  <2> QED BY <2>1 DEF Obeyed, Policy!PolicyNext, Policy!ByAdministrator
<1> QED BY <1>1, <1>5, <1>6, <1>7, <1>8, <1>9 DEF AdministratorMay

-----------------------------------------------------------------------------
(* The rest of a handler.                                                  *)

\* A handler that leaves the table alone and returns, or goes on unheard.
LEMMA ReturnQuiet ==
  ASSUME NEW g, Return(g), UNCHANGED topics
  PROVE  Obeyed
BY FloorYielded, Quiet

LEMMA GotoQuiet ==
  ASSUME IInv, NEW g \in Goroutines, pc[g] # "idle", NEW l, NEW t,
         Goto(g, l, t), upd[g].kind = "message" => l # "record" /\ pc[g] # "record",
         UNCHANGED topics
  PROVE  Obeyed
BY FloorKept, Quiet

LEMMA SaveCaptchaObeys ==
  ASSUME PolicyInv, IInv', NEW g \in Goroutines, SaveCaptcha(g)
  PROVE  Obeyed
<1> DEFINE t == [row[g] EXCEPT !.sent = now, !.verification = "NotCompleted"]
<1>1. pc[g] = "saveCaptcha" /\ TrySave(t) /\ Return(g)
  BY DEF SaveCaptcha
<1>2. /\ row[g] \in Topic /\ row[g].verification = "NotSent"
      /\ upd[g].kind = "message" /\ now \in Nat \ {0}
  BY <1>1, InHand DEF PolicyInv, Carried, Checked, Coherent, UpdateInHand,
                      IInv, Tables, TablesTyped
<1>3. /\ t \in Topic /\ t.id = row[g].id /\ t.user = row[g].user
      /\ t.ban = row[g].ban /\ t.verification = "NotCompleted" /\ t.sent = now
  BY <1>2 DEF Topic, Verification
<1> HIDE DEF t
<1>4. StandingOf(t) = Mark("asked", row[g].ban)
  BY <1>2, <1>3, CaptchaTyped DEF StandingOf, Mark
<1>5. PICK c : InHandNow(g, c)
  BY <1>1, StandingInHand
<1>6. /\ StandingIn(topics)[row[g].user] = Mark("none", row[g].ban)
      /\ row[g].user \in Users /\ row[g].ban \in BOOLEAN
  BY <1>1, <1>2, <1>5, StandingInHand DEF InHandNow, Mark, Topic
<1>7. CASE SaveTopic(t)
  <2>1. FloorNow = Policy!Speaker(row[g].user) /\ FloorNow' = Policy!Free
    BY <1>1, <1>2, UserHasFloor, FloorYielded DEF UserKinds
  <2>2. StandingIn(topics') =
          [StandingIn(topics) EXCEPT ![row[g].user] = Mark("asked", row[g].ban)]
    BY <1>1, <1>3, <1>4, <1>7, SavedMoves DEF PolicyInv
  <2> QED BY <1>6, <2>1, <2>2, UserMoves
<1>8. CASE SaveFails
  BY <1>1, <1>8, ReturnQuiet DEF SaveFails
<1> QED BY <1>1, <1>7, <1>8 DEF TrySave

LEMMA CreateThreadObeys ==
  ASSUME PolicyInv, NEW g \in Goroutines, CreateThread(g)
  PROVE  Obeyed
<1>1. pc[g] = "create" /\ UNCHANGED topics
      /\ ((\E t : Goto(g, "saveThread", t)) \/ Return(g))
  BY DEF CreateThread, db
<1> QED BY <1>1, ReturnQuiet, GotoQuiet DEF PolicyInv

LEMMA SaveThreadObeys ==
  ASSUME PolicyInv, IInv', NEW g \in Goroutines, SaveThread(g)
  PROVE  Obeyed
<1>1. /\ pc[g] = "saveThread"
      /\ (\E t : Goto(g, "relay", t)) \/ Return(g)
      /\ SaveTopic(row[g]) \/ UNCHANGED topics
  BY DEF SaveThread, Introduced, SaveFails
<1>2. /\ row[g] \in Topic /\ upd[g].kind = "message"
      /\ row[g].verification \in {"NotSent", "Completed"}
  BY <1>1, InHand DEF PolicyInv, Carried, Checked, Coherent, UpdateInHand,
                      Relaying, Topic, Verification
<1>3. FloorNow' \in {FloorNow, Policy!Free}
  BY <1>1, FloorKept, FloorYielded DEF PolicyInv
<1>4. CASE SaveTopic(row[g])
  <2>1. PICK c : InHandNow(g, c)
    BY <1>1, StandingInHand
  <2>2. /\ StandingIn(topics)[row[g].user] = Mark(c, row[g].ban)
        /\ row[g].user \in Users /\ row[g].ban \in BOOLEAN
        /\ StandingOf(row[g]) = Mark(c, row[g].ban)
    BY <1>1, <1>2, <2>1, StandingInHand, CaptchaTyped
    DEF InHandNow, Mark, Topic, StandingOf
  <2>3. FloorNow = Policy!Speaker(row[g].user)
    BY <1>1, <1>2, UserHasFloor DEF UserKinds
  <2>4. StandingIn(topics') =
          [StandingIn(topics) EXCEPT ![row[g].user] = Mark(c, row[g].ban)]
    BY <1>1, <1>2, <1>4, <2>2, SavedMoves DEF PolicyInv
  <2> QED BY <1>3, <2>2, <2>3, <2>4, UserMoves
<1>5. CASE UNCHANGED topics
  BY <1>3, <1>5, Quiet
<1> QED BY <1>1, <1>4, <1>5

\* The one step by which a user is heard.
LEMMA RelayObeys ==
  ASSUME PolicyInv, NEW g \in Goroutines, Relay(g)
  PROVE  Obeyed
<1>1. /\ pc[g] = "relay" /\ UNCHANGED topics
      /\ \/ Goto(g, "record", row[g])
         \/ \E t : Goto(g, "create", t)
         \/ Return(g)
  BY DEF Relay, db
<1>2. CASE Goto(g, "record", row[g])
  <2>1. PICK c : InHandNow(g, c)
    BY <1>1, StandingInHand
  <2>2. /\ upd[g].kind = "message" /\ upd[g].user = row[g].user
        /\ ~row[g].ban /\ row[g].verification \in {"NotSent", "Completed"}
        /\ row[g].user \in Users
        /\ Screening[row[g].user] = {TRUE} => row[g].verification = "Completed"
    BY <1>1, InHand
    DEF PolicyInv, Carried, Checked, Coherent, UpdateInHand, Allowed, Placed,
        Relaying, Topic, Verification
  <2>3. Policy!MaySpeak(row[g].user)
    <3>1. /\ StandingIn(topics)[row[g].user].captcha = c
          /\ StandingIn(topics)[row[g].user].ban = row[g].ban
      BY <2>1 DEF InHandNow
    <3>2. CASE row[g].verification = "Completed"
      BY <2>1, <2>2, <3>1, <3>2 DEF InHandNow, Policy!MaySpeak
    <3>3. CASE row[g].verification = "NotSent"
      <4>1. c = "none" /\ row[g].user \notin NeverLetOff
        BY <2>1, <2>2, <3>3 DEF InHandNow, NeverLetOff
      <4> QED BY <2>2, <3>1, <4>1 DEF Policy!MaySpeak
    <3> QED BY <2>2, <3>2, <3>3
  <2>4. FloorNow = Policy!Speaker(row[g].user)
    BY <1>1, <2>2, UserHasFloor DEF UserKinds
  <2>5. topicLock' = g /\ pc'[g] = "record" /\ upd' = upd
    BY <1>1, <1>2, FloorHeld, Gone DEF PolicyInv, Goto
  <2>6. FloorNow' = Policy!Heard(row[g].user)
    BY <2>2, <2>5, BotAssumption
    DEF FloorNow, FloorOf, UserKinds, Policy!Heard, Policy!Floor
  <2>7. Policy!Speak(row[g].user)
    BY <1>1, <2>3, <2>6 DEF Policy!Speak
  <2> QED BY <2>2, <2>4, <2>7 DEF Obeyed, Policy!PolicyNext, Policy!ByUser
<1> QED BY <1>1, <1>2, ReturnQuiet, GotoQuiet DEF PolicyInv

LEMMA RecordObeys ==
  ASSUME NEW g \in Goroutines, Record(g)
  PROVE  Obeyed
BY ReturnQuiet DEF Record

\* Spending a challenge, withdrawn in the meantime or not.
LEMMA ConsumeChallengeObeys ==
  ASSUME PolicyInv, IInv', NEW g \in Goroutines, ConsumeChallenge(g)
  PROVE  Obeyed
<1> DEFINE t == Spent(row[g])
<1>1. /\ pc[g] = "consume"
      /\ \/ topics' = Saved(topics, t) /\ Goto(g, "check", row[g])
         \/ Return(g) /\ UNCHANGED topics
  BY DEF ConsumeChallenge
<1>2. /\ row[g] \in Topic /\ upd[g].kind = "answer" /\ row[g].id # 0
      /\ row[g].verification = "NotCompleted"
  BY <1>1, InHand DEF PolicyInv, Coherent, UpdateInHand, Allowed, RowInHand, MayCreate
<1>3. /\ t \in Topic /\ t.id = row[g].id /\ t.user = row[g].user
      /\ t.ban = row[g].ban /\ t.verification = "NotCompleted" /\ t.sent = 0
  BY <1>2 DEF Topic, Verification, Spent
<1> HIDE DEF t
<1>4. StandingOf(t) = Mark("spent", row[g].ban)
  BY <1>3, CaptchaTyped DEF StandingOf, Mark
<1>5. PICK c : InHandNow(g, c)
  BY <1>1, StandingInHand
<1>6. /\ StandingIn(topics)[row[g].user] = Mark(c, row[g].ban)
      /\ row[g].user \in Users /\ row[g].ban \in BOOLEAN /\ c \in {"asked", "spent"}
  BY <1>1, <1>2, <1>5, StandingInHand DEF InHandNow, Mark, Topic
<1>7. CASE topics' = Saved(topics, t) /\ Goto(g, "check", row[g])
  <2>1. FloorNow = Policy!Speaker(row[g].user) /\ FloorNow' = FloorNow
    BY <1>1, <1>2, <1>7, UserHasFloor, FloorKept DEF UserKinds, PolicyInv
  <2>2. StandingIn(topics') =
          [StandingIn(topics) EXCEPT ![row[g].user] = Mark("spent", row[g].ban)]
    BY <1>1, <1>2, <1>3, <1>4, <1>7, SavedMoves DEF PolicyInv
  <2> QED BY <1>6, <2>1, <2>2, UserMoves
<1> QED BY <1>1, <1>7, ReturnQuiet

LEMMA CheckAnswerObeys ==
  ASSUME PolicyInv, IInv', NEW g \in Goroutines, CheckAnswer(g)
  PROVE  Obeyed
<1> DEFINE t == [Spent(row[g]) EXCEPT !.verification = "Completed"]
<1>1. /\ pc[g] = "check" /\ Return(g)
      /\ topics' = Saved(topics, t) \/ UNCHANGED topics
  BY DEF CheckAnswer, Try
<1>2. /\ row[g] \in Topic /\ upd[g].kind = "answer" /\ row[g].id # 0
      /\ row[g].ban = FALSE
  BY <1>1, InHand DEF PolicyInv, Carried, Checked, Coherent, UpdateInHand,
                      RowInHand, MayCreate, Topic
<1>3. /\ t \in Topic /\ t.id = row[g].id /\ t.user = row[g].user
      /\ t.ban = row[g].ban /\ t.verification = "Completed"
  BY <1>2 DEF Topic, Verification, Spent
<1> HIDE DEF t
<1>4. StandingOf(t) = Mark("passed", FALSE)
  BY <1>2, <1>3, CaptchaTyped DEF StandingOf, Mark
<1>5. PICK c : InHandNow(g, c)
  BY <1>1, StandingInHand
<1>6. StandingIn(topics)[row[g].user] = Mark("spent", FALSE) /\ row[g].user \in Users
  BY <1>1, <1>2, <1>5, StandingInHand DEF InHandNow, Mark
<1>7. CASE topics' = Saved(topics, t)
  <2>1. FloorNow = Policy!Speaker(row[g].user) /\ FloorNow' = Policy!Free
    BY <1>1, <1>2, UserHasFloor, FloorYielded DEF UserKinds
  <2>2. StandingIn(topics') =
          [StandingIn(topics) EXCEPT ![row[g].user] = Mark("passed", FALSE)]
    BY <1>1, <1>2, <1>3, <1>4, <1>7, SavedMoves DEF PolicyInv
  <2> QED BY <1>6, <2>1, <2>2, UserMoves
<1> QED BY <1>1, <1>7, ReturnQuiet

LEMMA DeleteThreadObeys ==
  ASSUME PolicyInv, NEW g \in Goroutines, DeleteThread(g)
  PROVE  Obeyed
<1>1. pc[g] = "delete" /\ UNCHANGED topics
      /\ \E l \in {"ban", "terminate"} : Goto(g, l, row[g])
  BY DEF DeleteThread, db
<1> QED BY <1>1, GotoQuiet DEF PolicyInv

\* Forgetting a topic, or keeping what has to be remembered of it.
LEMMA TerminateTopicObeys ==
  ASSUME PolicyInv, IInv', NEW g \in Goroutines, TerminateTopic(g)
  PROVE  Obeyed
<1> DEFINE t == [row[g] EXCEPT !.thread = 0]
<1>1. /\ pc[g] = "terminate" /\ Return(g)
      /\ \/ UNCHANGED topics
         \/ MustRemember(row[g]) /\ topics' = Saved(topics, t)
         \/ ~MustRemember(row[g]) /\ topics' = Deleted(topics, row[g])
  BY DEF TerminateTopic, Try, AfterTerminate
<1>2. /\ row[g] \in Topic /\ row[g].id # 0
      /\ Addressee("terminate", upd[g], row[g])
      /\ upd[g].kind = "reply" => row[g].verification = "Completed"
  BY <1>1, InHand DEF PolicyInv, Carried, Checked, Coherent, RowInHand, MayCreate
<1>3. /\ t \in Topic /\ t.id = row[g].id /\ t.user = row[g].user
      /\ StandingOf(t) = Mark(CaptchaOf(row[g]), row[g].ban)
  <2>1. /\ t \in Topic /\ t.id = row[g].id /\ t.user = row[g].user
        /\ t.ban = row[g].ban /\ t.verification = row[g].verification
        /\ t.sent = row[g].sent
    BY <1>2 DEF Topic
  <2> HIDE DEF t
  <2> QED BY <2>1 DEF StandingOf, CaptchaOf, Mark
<1> HIDE DEF t
<1>4. PICK c : InHandNow(g, c)
  BY <1>1, StandingInHand
<1>5. /\ StandingIn(topics)[row[g].user] = Mark(c, row[g].ban)
      /\ row[g].user \in Users /\ row[g].ban \in BOOLEAN
  BY <1>1, <1>2, <1>4, StandingInHand DEF InHandNow, Mark, Topic
<1>6. CaptchaOf(row[g]) = IF upd[g].kind = "reply" THEN "passed"
                          ELSE IF row[g].verification = "NotCompleted" /\ row[g].sent # 0
                          THEN "asked" ELSE c
  BY <1>2, <1>4, CaptchaTyped DEF InHandNow, Topic, Verification
<1>7. /\ FloorNow' = Policy!Free
      /\ \/ upd[g].kind # "reply" /\ FloorNow = Policy!Speaker(row[g].user)
         \/ FloorNow = Policy!Administrator
  BY <1>1, UserHasFloor, AdministratorHasFloor, FloorYielded DEF UserKinds
<1>8. CASE MustRemember(row[g]) /\ topics' = Saved(topics, t)
  <2>1. StandingIn(topics') =
          [StandingIn(topics) EXCEPT
             ![row[g].user] = Mark(CaptchaOf(row[g]), row[g].ban)]
    BY <1>1, <1>2, <1>3, <1>8, SavedMoves DEF PolicyInv
  <2>2. \/ CaptchaOf(row[g]) = c
        \/ c = "spent" /\ CaptchaOf(row[g]) = "asked"
        \/ upd[g].kind = "reply" /\ CaptchaOf(row[g]) = "passed"
    BY <1>4, <1>6 DEF InHandNow
  <2>3. CASE upd[g].kind # "reply" /\ FloorNow = Policy!Speaker(row[g].user)
    BY <1>5, <1>7, <2>1, <2>2, <2>3, UserMoves
  <2>4. CASE FloorNow = Policy!Administrator
    <3> DEFINE s == Mark(CaptchaOf(row[g]), row[g].ban)
    <3>1. AdministratorMay(c, row[g].ban, s)
      BY <2>2 DEF AdministratorMay
    <3>2. StandingIn(topics') = [StandingIn(topics) EXCEPT ![row[g].user] = s]
      BY <2>1
    <3>3. FloorNow' \in {FloorNow, Policy!Free}
      BY <1>7
    <3> HIDE DEF s
    <3> QED BY <1>5, <2>4, <3>1, <3>2, <3>3, AdministratorMoves
  <2> QED BY <1>7, <2>3, <2>4
<1>9. CASE ~MustRemember(row[g]) /\ topics' = Deleted(topics, row[g])
  <2>1. StandingIn(topics') =
          [StandingIn(topics) EXCEPT ![row[g].user] = Policy!Stranger]
    BY <1>1, <1>2, <1>9, DeletedMoves DEF PolicyInv
  <2>2. /\ row[g].ban = FALSE /\ row[g].verification \in {"NotSent", "Completed"}
        /\ Policy!Stranger = Mark("none", FALSE)
    BY <1>2, <1>9 DEF MustRemember, Topic, Verification, Policy!Stranger, Mark
  <2>3. CASE upd[g].kind # "reply" /\ FloorNow = Policy!Speaker(row[g].user)
    <3>1. c \in {"none", "passed"}
      BY <1>4, <2>2, <2>3 DEF InHandNow
    <3> QED BY <1>5, <1>7, <2>1, <2>2, <2>3, <3>1, UserMoves
  <2>4. CASE FloorNow = Policy!Administrator
    <3>1. AdministratorMay(c, row[g].ban, Policy!Stranger)
      BY <2>2 DEF AdministratorMay
    <3> QED BY <1>5, <1>7, <2>1, <2>4, <3>1, AdministratorMoves
  <2> QED BY <1>7, <2>3, <2>4
<1> QED BY <1>1, <1>8, <1>9, ReturnQuiet

LEMMA BanObeys ==
  ASSUME PolicyInv, IInv', NEW g \in Goroutines, BanUser(g) \/ BanTopic(g)
  PROVE  Obeyed
<1> DEFINE t == Banned([row[g] EXCEPT !.thread = 0])
<1>1. /\ pc[g] = "ban" /\ Return(g) /\ upd[g].kind \in {"ban", "topicBan"}
      /\ SaveTopic(t) \/ UNCHANGED topics
  BY DEF BanUser, BanTopic, TrySave, SaveFails, db
<1>2. /\ t \in Topic /\ t.id = row[g].id /\ t.user = row[g].user
      /\ t.ban = TRUE /\ t.verification = "NotSent" /\ row[g] \in Topic
  BY <1>1, InHand DEF PolicyInv, Banned, Topic, Verification
<1> HIDE DEF t
<1>3. StandingOf(t) = Mark("none", TRUE)
  BY <1>2, CaptchaTyped DEF StandingOf, Mark
<1>4. PICK c : InHandNow(g, c)
  BY <1>1, StandingInHand
<1>5. /\ StandingIn(topics)[row[g].user] = Mark(c, row[g].ban)
      /\ row[g].user \in Users /\ row[g].ban \in BOOLEAN
  BY <1>1, <1>2, <1>4, StandingInHand DEF InHandNow, Mark, Topic
<1>6. CASE SaveTopic(t)
  <2>1. FloorNow = Policy!Administrator /\ FloorNow' = Policy!Free
    BY <1>1, AdministratorHasFloor, FloorYielded DEF UserKinds
  <2>2. StandingIn(topics') =
          [StandingIn(topics) EXCEPT ![row[g].user] = Mark("none", TRUE)]
    BY <1>1, <1>2, <1>3, <1>6, SavedMoves DEF PolicyInv
  <2>3. AdministratorMay(c, row[g].ban, Mark("none", TRUE))
    BY DEF AdministratorMay
  <2> QED BY <1>5, <2>1, <2>2, <2>3, AdministratorMoves
<1> QED BY <1>1, <1>6, ReturnQuiet

LEMMA UnbanTopicObeys ==
  ASSUME PolicyInv, IInv', NEW g \in Goroutines, UnbanTopic(g)
  PROVE  Obeyed
<1> DEFINE t == [row[g] EXCEPT !.ban = FALSE, !.verification = "Completed",
                              !.challenge = 0, !.sent = 0]
<1>1. /\ pc[g] = "unban" /\ Return(g)
      /\ \/ UNCHANGED topics
         \/ topics' = Saved(topics, t)
         \/ topics' = Deleted(topics, row[g])
  BY DEF UnbanTopic, Try, AfterUnban
<1>2. /\ row[g] \in Topic /\ row[g].id # 0
      /\ upd[g].kind \in {"unban", "topicUnban"}
  BY <1>1, InHand DEF PolicyInv, Coherent, UpdateInHand, RowInHand, MayCreate
<1>3. /\ t \in Topic /\ t.id = row[g].id /\ t.user = row[g].user
      /\ t.ban = FALSE /\ t.verification = "Completed"
  BY <1>2 DEF Topic, Verification
<1> HIDE DEF t
<1>4. StandingOf(t) = Mark("passed", FALSE) /\ Policy!Stranger = Mark("none", FALSE)
  BY <1>3, CaptchaTyped DEF StandingOf, Mark, Policy!Stranger
<1>5. PICK c : InHandNow(g, c)
  BY <1>1, StandingInHand
<1>6. /\ StandingIn(topics)[row[g].user] = Mark(c, row[g].ban)
      /\ row[g].user \in Users /\ row[g].ban \in BOOLEAN
  BY <1>1, <1>2, <1>5, StandingInHand DEF InHandNow, Mark, Topic
<1>7. FloorNow = Policy!Administrator /\ FloorNow' = Policy!Free
  BY <1>1, <1>2, AdministratorHasFloor, FloorYielded DEF UserKinds
<1>8. CASE topics' = Saved(topics, t)
  <2>1. StandingIn(topics') =
          [StandingIn(topics) EXCEPT ![row[g].user] = Mark("passed", FALSE)]
    BY <1>1, <1>2, <1>3, <1>4, <1>8, SavedMoves DEF PolicyInv
  <2>2. AdministratorMay(c, row[g].ban, Mark("passed", FALSE))
    BY DEF AdministratorMay
  <2> QED BY <1>6, <1>7, <2>1, <2>2, AdministratorMoves
<1>9. CASE topics' = Deleted(topics, row[g])
  <2>1. StandingIn(topics') =
          [StandingIn(topics) EXCEPT ![row[g].user] = Mark("none", FALSE)]
    BY <1>1, <1>2, <1>4, <1>9, DeletedMoves DEF PolicyInv
  <2>2. AdministratorMay(c, row[g].ban, Mark("none", FALSE))
    BY DEF AdministratorMay
  <2> QED BY <1>6, <1>7, <2>1, <2>2, AdministratorMoves
<1> QED BY <1>1, <1>8, <1>9, ReturnQuiet

\* Closing bans and reopening unbans; the challenge may come back.
LEMMA FlagBanObeys ==
  ASSUME PolicyInv, IInv', NEW g \in Goroutines, FlagBan(g)
  PROVE  Obeyed
<1> DEFINE b == (upd[g].kind = "closed")
           t == [row[g] EXCEPT !.ban = b]
<1>1. /\ pc[g] = "flag" /\ Return(g)
      /\ topics' = Saved(topics, t) \/ UNCHANGED topics
  BY DEF FlagBan, Try
<1>2. /\ row[g] \in Topic /\ row[g].id # 0
      /\ upd[g].kind \in {"closed", "reopened"}
      /\ row[g].ban = (upd[g].kind = "reopened")
  BY <1>1, InHand DEF PolicyInv, Carried, Checked, Coherent, UpdateInHand,
                      RowInHand, MayCreate
<1>3. b \in BOOLEAN /\ b = ~row[g].ban
  BY <1>2
<1> HIDE DEF b
<1>4. /\ t \in Topic /\ t.id = row[g].id /\ t.user = row[g].user
      /\ StandingOf(t) = Mark(CaptchaOf(row[g]), ~row[g].ban)
  <2>1. /\ t \in Topic /\ t.id = row[g].id /\ t.user = row[g].user
        /\ t.ban = b /\ t.verification = row[g].verification
        /\ t.sent = row[g].sent
    BY <1>2, <1>3 DEF Topic
  <2> HIDE DEF t
  <2> QED BY <1>3, <2>1 DEF StandingOf, CaptchaOf, Mark
<1> HIDE DEF t
<1>5. PICK c : InHandNow(g, c)
  BY <1>1, StandingInHand
<1>6. /\ StandingIn(topics)[row[g].user] = Mark(c, row[g].ban)
      /\ row[g].user \in Users /\ row[g].ban \in BOOLEAN
  BY <1>1, <1>2, <1>5, StandingInHand DEF InHandNow, Mark, Topic
<1>7. CaptchaOf(row[g]) = c \/ (c = "spent" /\ CaptchaOf(row[g]) = "asked")
  BY <1>2, <1>5, CaptchaTyped DEF InHandNow, Topic, Verification
<1>8. CASE topics' = Saved(topics, t)
  <2>1. FloorNow = Policy!Administrator /\ FloorNow' = Policy!Free
    BY <1>1, <1>2, AdministratorHasFloor, FloorYielded DEF UserKinds
  <2>2. StandingIn(topics') =
          [StandingIn(topics) EXCEPT
             ![row[g].user] = Mark(CaptchaOf(row[g]), ~row[g].ban)]
    BY <1>1, <1>2, <1>4, <1>8, SavedMoves DEF PolicyInv
  <2>3. AdministratorMay(c, row[g].ban, Mark(CaptchaOf(row[g]), ~row[g].ban))
    BY <1>7 DEF AdministratorMay
  <2> QED BY <1>6, <2>1, <2>2, <2>3, AdministratorMoves
<1> QED BY <1>1, <1>8, ReturnQuiet

LEMMA AdmitByReplyObeys ==
  ASSUME PolicyInv, IInv', NEW g \in Goroutines, AdmitByReply(g)
  PROVE  Obeyed
<1> DEFINE t == [row[g] EXCEPT !.verification = "Completed"]
<1>1. pc[g] = "admit" /\ Goto(g, "deliver", t) /\ TrySave(t)
  BY DEF AdmitByReply
<1>2. /\ row[g] \in Topic /\ upd[g].kind = "reply"
  BY <1>1, InHand DEF PolicyInv, Coherent, UpdateInHand
<1>3. FloorNow = Policy!Administrator /\ FloorNow' = FloorNow
  BY <1>1, <1>2, AdministratorHasFloor, FloorKept DEF UserKinds, PolicyInv
<1>4. /\ t \in Topic /\ t.id = row[g].id /\ t.user = row[g].user
      /\ t.ban = row[g].ban /\ t.verification = "Completed"
  BY <1>2 DEF Topic, Verification
<1> HIDE DEF t
<1>5. StandingOf(t) = Mark("passed", row[g].ban)
  BY <1>4, CaptchaTyped DEF StandingOf, Mark
<1>6. PICK c : InHandNow(g, c)
  BY <1>1, StandingInHand
<1>7. /\ StandingIn(topics)[row[g].user] = Mark(c, row[g].ban)
      /\ row[g].user \in Users /\ row[g].ban \in BOOLEAN
  BY <1>1, <1>2, <1>6, StandingInHand DEF InHandNow, Mark, Topic
<1>8. CASE SaveTopic(t)
  <2>1. StandingIn(topics') =
          [StandingIn(topics) EXCEPT ![row[g].user] = Mark("passed", row[g].ban)]
    BY <1>1, <1>4, <1>5, <1>8, SavedMoves DEF PolicyInv
  <2>2. AdministratorMay(c, row[g].ban, Mark("passed", row[g].ban))
    BY DEF AdministratorMay
  <2> QED BY <1>3, <1>7, <2>1, <2>2, AdministratorMoves
<1>9. CASE SaveFails
  BY <1>3, <1>9, Quiet DEF SaveFails
<1> QED BY <1>1, <1>8, <1>9 DEF TrySave

LEMMA DeliverObeys ==
  ASSUME PolicyInv, NEW g \in Goroutines, Deliver(g)
  PROVE  Obeyed
<1>1. /\ pc[g] = "deliver" /\ UNCHANGED topics
      /\ \/ upd[g].kind = "reply" /\ Goto(g, "record", row[g])
         \/ Goto(g, "delete", row[g])
         \/ Return(g)
  BY DEF Deliver, db
<1> QED BY <1>1, ReturnQuiet, GotoQuiet DEF PolicyInv

LEMMA ContinueObeys ==
  ASSUME PolicyInv, IInv', NEW g \in Goroutines, Continue(g)
  PROVE  Obeyed
BY SaveCaptchaObeys, CreateThreadObeys, SaveThreadObeys, RelayObeys,
   RecordObeys, ConsumeChallengeObeys, CheckAnswerObeys, DeleteThreadObeys,
   TerminateTopicObeys, BanObeys, UnbanTopicObeys, FlagBanObeys,
   AdmitByReplyObeys, DeliverObeys
DEF Continue

-----------------------------------------------------------------------------
(* Taking the mutex takes the floor.                                       *)

LEMMA EnterObeys ==
  ASSUME PolicyInv, NEW g \in Goroutines, NEW u, NEW t, NEW l, l # "record",
         Enter(g, u, t, l), UNCHANGED topics, t.user \in Users,
         Addressee(l, u, t), Checked(l, u, t), SameChallenge(t)
  PROVE  Obeyed /\ Carried'
<1>1. /\ topicLock = Nobody /\ topicLock' = g
      /\ pc'[g] = l /\ upd'[g] = u /\ row'[g] = t
      /\ \A h \in Goroutines \ {g} : pc'[h] = "idle"
  BY BotAssumption
  DEF PolicyInv, IInv, Handlers, HandlersTyped, Locking, Enter, LockFree
<1>2. FloorNow = Policy!Free /\ FloorNow' = FloorOf(g)'
  BY <1>1, BotAssumption DEF FloorNow, Policy!Free, Policy!Floor
<1>3. FloorOf(g)' = Policy!Administrator \/ FloorOf(g)' = Policy!Speaker(t.user)
  BY <1>1 DEF FloorOf, Addressee, Policy!Administrator, Policy!Speaker, Policy!Floor
<1>4. Policy!TakeFloor
  BY <1>2, <1>3 DEF Policy!TakeFloor
<1>5. SameChallenge(t)'
  BY DEF SameChallenge
<1> QED BY <1>1, <1>4, <1>5 DEF Obeyed, Policy!PolicyNext, Carried, Addressee,
                                Checked, SameChallenge

\* A row just read holds the challenge of the database.
LEMMA SameWhenRead ==
  ASSUME Tables, NEW t \in topics
  PROVE  SameChallenge(t)
BY DEF Tables, RowKeys, SameChallenge

LEMMA SendCaptchaObeys ==
  ASSUME PolicyInv, NEW g \in Goroutines, NEW u \in Users, NEW c \in Challenges,
         SendCaptcha(g, u, c)
  PROVE  Obeyed /\ Carried'
<1> DEFINE d == Update("message", u, 0, NoKey)
<1>1. PICK t \in FindByUser(topics, u) :
        /\ Enter(g, d, Addressed([t EXCEPT !.challenge = c], u), "saveCaptcha")
        /\ t.verification = "NotSent"
  BY DEF SendCaptcha
<1> DEFINE n == Addressed([t EXCEPT !.challenge = c], u)
<1>2. t \in Topic
  BY FoundByUser DEF PolicyInv, IInv
<1>3. /\ n.user = u /\ n.verification = "NotSent"
      /\ d.kind = "message" /\ d.user = u
  BY <1>1, <1>2 DEF Topic, Addressed, Update
<1>4. Enter(g, d, n, "saveCaptcha") /\ UNCHANGED topics
  BY <1>1 DEF SendCaptcha, db
<1> HIDE DEF n, d
<1>5. /\ Addressee("saveCaptcha", d, n) /\ Checked("saveCaptcha", d, n)
      /\ SameChallenge(n)
  BY <1>3 DEF Addressee, Checked, SameChallenge, Relaying
<1> QED BY <1>3, <1>4, <1>5, EnterObeys

LEMMA AcceptMessageObeys ==
  ASSUME PolicyInv, NEW g \in Goroutines, NEW u \in Users, NEW k \in UserMsgs,
         AcceptMessage(g, u, k)
  PROVE  Obeyed /\ Carried'
<1> DEFINE d == Update("message", u, 0, k)
<1>1. PICK t \in FindByUser(topics, u) :
        /\ MayWrite(t, u)
        /\ \/ t.thread = 0 /\ Enter(g, d, Addressed(t, u), "create")
           \/ t.thread # 0 /\ Enter(g, d, t, "relay")
  BY DEF AcceptMessage
<1>2. /\ t \in Topic
      /\ (t = NoTopic /\ t.id = 0) \/ (t.id # 0 /\ t.user = u)
  BY FoundByUser DEF PolicyInv, IInv
<1>3. PICK n \in Topic, l \in {"create", "relay"} :
        /\ Enter(g, d, n, l) /\ n.user = u /\ n.id = t.id
        /\ n.verification = t.verification
  <2>1. /\ Addressed(t, u) \in Topic
        /\ Addressed(t, u).user = u /\ Addressed(t, u).id = t.id
        /\ Addressed(t, u).verification = t.verification
    BY <1>2 DEF Topic, Addressed
  <2>2. CASE t.thread = 0 /\ Enter(g, d, Addressed(t, u), "create")
    BY <2>1, <2>2
  <2>3. CASE t.thread # 0 /\ Enter(g, d, t, "relay")
    BY <1>2, <2>3 DEF NoTopic
  <2> QED BY <1>1, <2>2, <2>3
<1>4. d.kind = "message" /\ d.user = u
  BY DEF Update
<1> HIDE DEF d
<1>5. /\ n.verification # "NotCompleted"
      /\ n.id = 0 => n.verification = "NotSent"
  <2>1. NoTopic.verification = "NotSent"
    BY DEF NoTopic
  <2>2. t.verification \in {"NotSent", "Completed"}
    BY <1>1 DEF MayWrite
  <2> QED BY <1>2, <1>3, <2>1, <2>2
<1>6. Addressee(l, d, n) /\ Checked(l, d, n) /\ SameChallenge(n)
  BY <1>3, <1>4, <1>5 DEF Addressee, Checked, SameChallenge, Relaying
<1>7. UNCHANGED topics
  BY DEF AcceptMessage, db
<1> QED BY <1>3, <1>6, <1>7, EnterObeys

LEMMA AnswerObeys ==
  ASSUME PolicyInv, NEW g \in Goroutines, NEW u \in Users, NEW c, NEW right,
         Answer(g, u, c, right)
  PROVE  Obeyed /\ Carried'
<1> DEFINE d == Update("answer", u, 0, [challenge |-> c, right |-> right])
<1>1. PICK t \in FindByUser(topics, u) :
        t.id # 0 /\ ~t.ban /\ Enter(g, d, t, "consume") /\ UNCHANGED topics
  BY DEF Answer, db
<1>2. t \in topics /\ t.user = u
  BY <1>1, FoundByUser DEF PolicyInv, IInv, NoTopic
<1>3. d.kind = "answer" /\ d.user = u
  BY DEF Update
<1> HIDE DEF d
<1>4. Addressee("consume", d, t) /\ Checked("consume", d, t) /\ SameChallenge(t)
  BY <1>1, <1>2, <1>3, SameWhenRead
  DEF Addressee, Checked, Relaying, PolicyInv, IInv
<1> QED BY <1>1, <1>2, <1>4, EnterObeys

LEMMA KickedObeys ==
  ASSUME PolicyInv, NEW g \in Goroutines, NEW u \in Users, Kicked(g, u)
  PROVE  Obeyed /\ Carried'
<1>1. PICK t \in FindByUser(topics, u) :
        /\ t.id # 0 /\ UNCHANGED topics
        /\ Enter(g, Update("kicked", u, t.thread, NoKey), t, "delete")
  BY DEF Kicked, db
<1>2. t \in topics /\ t.user = u
  BY <1>1, FoundByUser DEF PolicyInv, IInv, NoTopic
<1> DEFINE d == Update("kicked", u, t.thread, NoKey)
<1>3. d.kind = "kicked" /\ d.user = u /\ Enter(g, d, t, "delete")
  BY <1>1 DEF Update
<1> HIDE DEF d
<1>4. Addressee("delete", d, t) /\ Checked("delete", d, t) /\ SameChallenge(t)
  BY <1>1, <1>2, <1>3, SameWhenRead
  DEF Addressee, Terminators, Checked, Relaying, PolicyInv, IInv
<1> QED BY <1>1, <1>2, <1>3, <1>4, EnterObeys

\* A command of an administrator, for a row that was found.
LEMMA CommandObeys ==
  ASSUME PolicyInv, NEW g \in Goroutines, NEW d, NEW t \in topics, NEW l,
         l # "record", Enter(g, d, t, l), UNCHANGED topics, t.id # 0,
         d.kind \notin UserKinds, Addressee(l, d, t), Checked(l, d, t)
  PROVE  Obeyed /\ Carried'
<1> QED BY SameWhenRead, EnterObeys DEF PolicyInv, IInv, Tables, RowKeys

LEMMA GeneralBanObeys ==
  ASSUME PolicyInv, NEW g \in Goroutines, NEW u \in Users, GeneralBan(g, u)
  PROVE  Obeyed /\ Carried'
<1> DEFINE d == Update("ban", u, 0, NoKey)
<1>1. PICK t \in FindByUser(topics, u), l \in {"delete", "ban"} :
        Enter(g, d, Addressed(t, u), l) /\ UNCHANGED topics
  BY DEF GeneralBan, db
<1>2. /\ t \in Topic
      /\ (t = NoTopic /\ t.id = 0) \/ (t \in topics /\ t.id # 0 /\ t.user = u)
  BY FoundByUser DEF PolicyInv, IInv
<1> DEFINE n == Addressed(t, u)
<1>3. /\ n.user = u /\ n.id = t.id /\ n.verification = t.verification
      /\ n.sent = t.sent /\ d.kind = "ban"
  BY <1>2 DEF Topic, Addressed, Update
<1>4. Enter(g, d, n, l)
  BY <1>1
<1> HIDE DEF d, n
<1>5. t.id = 0 => t.verification = "NotSent"
  BY <1>2 DEF NoTopic
<1>6. SameChallenge(n)
  BY <1>2, <1>3, <1>5, SameWhenRead DEF SameChallenge, PolicyInv, IInv
<1>7. Addressee(l, d, n) /\ Checked(l, d, n)
  BY <1>3, <1>5 DEF Addressee, UserKinds, Checked, Relaying
<1> QED BY <1>1, <1>3, <1>4, <1>6, <1>7, EnterObeys

LEMMA GeneralCommandObeys ==
  ASSUME PolicyInv, NEW g \in Goroutines, NEW u \in Users,
         GeneralUnban(g, u) \/ GeneralTerminate(g, u)
  PROVE  Obeyed /\ Carried'
<1>1. PICK t, d, l :
        /\ t \in FindByUser(topics, u) /\ t.id # 0
        /\ Enter(g, d, t, l) /\ UNCHANGED topics
        /\ \/ d.kind = "unban" /\ l = "unban"
           \/ d.kind = "terminate" /\ l \in {"delete", "terminate"}
  <2>1. CASE GeneralUnban(g, u)
    <3>1. Update("unban", u, 0, NoKey).kind = "unban"
      BY DEF Update
    <3> QED BY <2>1, <3>1 DEF GeneralUnban, db
  <2>2. CASE GeneralTerminate(g, u)
    <3>1. Update("terminate", u, 0, NoKey).kind = "terminate"
      BY DEF Update
    <3>2. PICK t \in FindByUser(topics, u), l \in {"delete", "terminate"} :
            /\ t.id # 0 /\ UNCHANGED topics
            /\ Enter(g, Update("terminate", u, 0, NoKey), t, l)
      BY <2>2 DEF GeneralTerminate, db
    <3> QED BY <3>1, <3>2
  <2> QED BY <2>1, <2>2
<1>2. t \in topics
  BY <1>1, FoundByUser DEF PolicyInv, IInv, NoTopic
<1>3. Addressee(l, d, t) /\ Checked(l, d, t) /\ d.kind \notin UserKinds
  BY <1>1 DEF Addressee, Terminators, UserKinds, Checked, Relaying
<1> QED BY <1>1, <1>2, <1>3, CommandObeys

LEMMA TopicCommandObeys ==
  ASSUME PolicyInv, NEW g \in Goroutines, NEW th \in DOMAIN threads,
         FromTopic(g, th)
  PROVE  Obeyed /\ Carried'
<1>1. PICK t, kind, k, l :
        /\ t \in FindByThread(topics, th) /\ kind \in TopicKinds
        /\ t.id # 0 /\ Enter(g, Update(kind, NoUser, th, k), t, l)
        /\ UNCHANGED topics
        /\ \/ kind \in {"topicBan", "topicTerminate"} /\ l = "delete"
           \/ kind = "topicUnban" /\ l = "unban"
           \/ kind = "closed" /\ ~t.ban /\ l = "flag"
           \/ kind = "reopened" /\ t.ban /\ l = "flag"
           \/ kind = "topicEdit" /\ l = "deliver"
           \/ kind = "reply" /\ l = "admit"
           \/ kind = "reply" /\ l = "deliver" /\ t.verification = "Completed"
  <2>1. CASE TopicBan(g, th)
    BY <2>1 DEF TopicBan, db, TopicKinds
  <2>2. CASE TopicTerminate(g, th)
    BY <2>2 DEF TopicTerminate, db, TopicKinds
  <2>3. CASE TopicUnban(g, th)
    BY <2>3 DEF TopicUnban, db, TopicKinds
  <2>4. CASE TopicClosed(g, th)
    BY <2>4 DEF TopicClosed, db, TopicKinds
  <2>5. CASE TopicReopened(g, th)
    BY <2>5 DEF TopicReopened, db, TopicKinds
  <2>6. CASE \E k \in TopicMsgs : TopicEdit(g, th, k)
    BY <2>6 DEF TopicEdit, db, TopicKinds
  <2>7. CASE \E k \in TopicMsgs : Reply(g, th, k)
    BY <2>7 DEF Reply, db, TopicKinds
  <2> QED BY <2>1, <2>2, <2>3, <2>4, <2>5, <2>6, <2>7 DEF FromTopic
<1>2. t \in topics /\ t \in Topic
  BY <1>1, FoundByThread DEF PolicyInv, IInv
<1> DEFINE d == Update(kind, NoUser, th, k)
<1>3. d.kind = kind /\ Enter(g, d, t, l)
  BY <1>1 DEF Update
<1> HIDE DEF d
<1>4. Addressee(l, d, t) /\ d.kind \notin UserKinds
  BY <1>1, <1>3 DEF Addressee, Terminators, UserKinds, TopicKinds
<1>5. Checked(l, d, t)
  <2>1. t.ban \in BOOLEAN
    BY <1>2 DEF Topic
  <2> QED BY <1>1, <1>3, <2>1 DEF Checked, Relaying
<1> QED BY <1>1, <1>2, <1>3, <1>4, <1>5, CommandObeys

-----------------------------------------------------------------------------
(* What a handler carries from call to call.                               *)

\* After the handler has returned nobody carries anything.
LEMMA CarriedByReturn ==
  ASSUME IInv, NEW g \in Goroutines, pc[g] # "idle", Return(g)
  PROVE  Carried'
<1>1. \A h \in Goroutines : pc'[h] = "idle"
  BY DEF IInv, Handlers, HandlersTyped, Locking, Return
<1> QED BY <1>1 DEF Carried

LEMMA CarriedByGoto ==
  ASSUME IInv, NEW g \in Goroutines, pc[g] # "idle", NEW l, NEW t,
         Goto(g, l, t), Addressee(l, upd[g], t), Checked(l, upd[g], t),
         t.verification = "NotCompleted" =>
           \A r \in topics' : r.id = t.id => r.sent \in {0, t.sent}
  PROVE  Carried'
<1>1. /\ pc'[g] = l /\ row'[g] = t /\ upd'[g] = upd[g]
      /\ \A h \in Goroutines \ {g} : pc'[h] = "idle"
  BY Gone DEF IInv, Handlers, HandlersTyped, Locking, Goto
<1> QED BY <1>1 DEF Carried, Addressee, Checked, SameChallenge, Relaying

\* What the handler at label `l` carries.
LEMMA InHandCarried ==
  ASSUME PolicyInv, NEW g \in Goroutines, pc[g] # "idle"
  PROVE  /\ row[g] \in Topic /\ Addressee(pc[g], upd[g], row[g])
         /\ Checked(pc[g], upd[g], row[g]) /\ SameChallenge(row[g])
         /\ UpdateInHand(pc[g], upd[g], row[g])
BY InHand DEF PolicyInv, Carried, Coherent

\* The calls on the way of a message into its thread change the thread of the
\* local row and give it an id.
Alike(t, r) ==
  t.verification = r.verification /\ t.user = r.user /\ (t.id = 0 => r.id = 0)

LEMMA RelayingAlike ==
  ASSUME PolicyInv, NEW g \in Goroutines,
         CreateThread(g) \/ SaveThread(g) \/ Relay(g), ~Return(g)
  PROVE  \E t \in Topic, l \in {"create", "saveThread", "relay", "record"} :
           Goto(g, l, t) /\ Alike(t, row[g])
<1>1. row[g] \in Topic /\ nextId \in Nat \ {0} /\ Len(threads) + 1 \in Nat
  BY InHandCarried
  DEF PolicyInv, IInv, Tables, TablesTyped, CreateThread, SaveThread, Relay
<1>2. CASE CreateThread(g)
  <2> DEFINE t == [row[g] EXCEPT !.thread = Len(threads) + 1]
  <2>1. t \in Topic /\ Alike(t, row[g])
    BY <1>1 DEF Topic, Alike
  <2>2. Goto(g, "saveThread", t)
    BY <1>2 DEF CreateThread
  <2> HIDE DEF t
  <2> QED BY <2>1, <2>2
<1>3. CASE Relay(g)
  <2> DEFINE t == [row[g] EXCEPT !.thread = 0]
  <2>1. t \in Topic /\ Alike(t, row[g]) /\ Alike(row[g], row[g])
    BY <1>1 DEF Topic, Alike
  <2>2. Goto(g, "record", row[g]) \/ Goto(g, "create", t)
    BY <1>3 DEF Relay
  <2> HIDE DEF t
  <2> QED BY <1>1, <2>1, <2>2
<1>4. CASE SaveThread(g)
  <2> DEFINE t == Stored(row[g])
  <2>1. t \in Topic /\ Alike(t, row[g]) /\ Alike(row[g], row[g])
    BY <1>1 DEF Topic, Alike, Stored
  <2>2. Goto(g, "relay", row[g]) \/ Goto(g, "relay", t)
    BY <1>4 DEF SaveThread, Introduced
  <2> HIDE DEF t
  <2> QED BY <1>1, <2>1, <2>2
<1> QED BY <1>2, <1>3, <1>4

LEMMA RelayingCarries ==
  ASSUME PolicyInv, NEW g \in Goroutines,
         CreateThread(g) \/ SaveThread(g) \/ Relay(g)
  PROVE  Carried'
<1>1. pc[g] \in {"create", "saveThread", "relay"}
  BY DEF CreateThread, SaveThread, Relay
<1>2. CASE Return(g)
  BY <1>1, <1>2, CarriedByReturn DEF PolicyInv
<1>3. CASE ~Return(g)
  <2>1. PICK t \in Topic, l \in {"create", "saveThread", "relay", "record"} :
          Goto(g, l, t) /\ Alike(t, row[g])
    BY <1>3, RelayingAlike
  <2>2. /\ upd[g].kind = "message" /\ upd[g].user = row[g].user
        /\ row[g].verification # "NotCompleted"
        /\ row[g].id = 0 => row[g].verification = "NotSent"
    BY <1>1, InHandCarried DEF UpdateInHand, Addressee, UserKinds, Checked, Relaying
  <2>3. /\ Addressee(l, upd[g], t) /\ Checked(l, upd[g], t)
        /\ t.verification # "NotCompleted"
    BY <2>1, <2>2 DEF Alike, Addressee, Checked, Relaying
  <2> QED BY <1>1, <2>1, <2>3, CarriedByGoto DEF PolicyInv
<1> QED BY <1>2, <1>3

LEMMA ConsumeChallengeCarries ==
  ASSUME PolicyInv, NEW g \in Goroutines, ConsumeChallenge(g)
  PROVE  Carried'
<1>1. /\ pc[g] = "consume"
      /\ \/ topics' = Saved(topics, Spent(row[g])) /\ Goto(g, "check", row[g])
         \/ Return(g)
  BY DEF ConsumeChallenge
<1>2. /\ Spent(row[g]).id = row[g].id /\ Spent(row[g]).sent = 0
      /\ upd[g].kind = "answer" /\ Addressee("check", upd[g], row[g])
      /\ Checked("check", upd[g], row[g])
  BY <1>1, InHandCarried
  DEF Spent, Topic, UpdateInHand, Addressee, Checked, Relaying
<1>3. ASSUME topics' = Saved(topics, Spent(row[g])), Goto(g, "check", row[g])
      PROVE  Carried'
  <2>1. \A r \in topics' : r.id = row[g].id => r.sent = 0
    BY <1>2, <1>3 DEF Saved
  <2> QED BY <1>1, <1>2, <1>3, <2>1, CarriedByGoto DEF PolicyInv
<1> QED BY <1>1, <1>3, CarriedByReturn DEF PolicyInv

\* The other calls after which a handler goes on.
LEMMA DeleteThreadCarries ==
  ASSUME PolicyInv, NEW g \in Goroutines, DeleteThread(g)
  PROVE  Carried'
<1>1. PICK l \in {"ban", "terminate"} :
        /\ pc[g] = "delete" /\ Goto(g, l, row[g]) /\ UNCHANGED topics
        /\ l = "terminate" => upd[g].kind \notin {"ban", "topicBan"}
  BY DEF DeleteThread, db
<1>2. /\ Addressee(l, upd[g], row[g]) /\ Checked(l, upd[g], row[g])
      /\ SameChallenge(row[g])
  BY <1>1, InHandCarried DEF Addressee, Checked, Relaying
<1> QED BY <1>1, <1>2, CarriedByGoto DEF SameChallenge, PolicyInv

LEMMA AdmitByReplyCarries ==
  ASSUME PolicyInv, NEW g \in Goroutines, AdmitByReply(g)
  PROVE  Carried'
<1> DEFINE t == [row[g] EXCEPT !.verification = "Completed"]
<1>1. pc[g] = "admit" /\ Goto(g, "deliver", t)
  BY DEF AdmitByReply
<1>2. row[g] \in Topic /\ row[g].id # 0 /\ upd[g].kind = "reply"
  BY <1>1, InHand DEF PolicyInv, Coherent, RowInHand, MayCreate, UpdateInHand
<1>3. t.verification = "Completed" /\ t.id # 0
  BY <1>2 DEF Topic
<1> HIDE DEF t
<1>4. Addressee("deliver", upd[g], t) /\ Checked("deliver", upd[g], t)
  BY <1>2, <1>3 DEF Addressee, UserKinds, Checked, Relaying
<1> QED BY <1>1, <1>3, <1>4, CarriedByGoto DEF PolicyInv

LEMMA DeliverCarries ==
  ASSUME PolicyInv, NEW g \in Goroutines, Deliver(g)
  PROVE  Carried'
<1>1. pc[g] = "deliver" /\ UNCHANGED topics
  BY DEF Deliver, db
<1>2. Return(g) \/ \E l \in {"record", "delete"} : Goto(g, l, row[g])
  BY DEF Deliver
<1>3. ASSUME NEW l \in {"record", "delete"}, Goto(g, l, row[g]) PROVE Carried'
  <2>1. /\ Addressee(l, upd[g], row[g]) /\ Checked(l, upd[g], row[g])
        /\ SameChallenge(row[g])
    BY <1>1, InHandCarried
    DEF Addressee, Terminators, UserKinds, Checked, Relaying
  <2> QED BY <1>1, <1>3, <2>1, CarriedByGoto DEF SameChallenge, PolicyInv
<1> QED BY <1>1, <1>2, <1>3, CarriedByReturn DEF PolicyInv

LEMMA ContinueCarries ==
  ASSUME PolicyInv, NEW g \in Goroutines, Continue(g)
  PROVE  Carried'
<1>1. CASE Return(g)
  <2>1. pc[g] # "idle"
    BY DEF Continue, SaveCaptcha, CreateThread, SaveThread, Relay, Record,
           ConsumeChallenge, CheckAnswer, DeleteThread, TerminateTopic, BanUser,
           BanTopic, UnbanTopic, FlagBan, AdmitByReply, Deliver
  <2> QED BY <1>1, <2>1, CarriedByReturn DEF PolicyInv
<1>2. CASE ~Return(g)
  BY <1>2, RelayingCarries, ConsumeChallengeCarries, DeleteThreadCarries,
     AdmitByReplyCarries, DeliverCarries
  DEF Continue, SaveCaptcha, Record, CheckAnswer, TerminateTopic, BanUser,
      BanTopic, UnbanTopic, FlagBan
<1> QED BY <1>1, <1>2

-----------------------------------------------------------------------------
(* The nightly job, and what else happens.                                 *)

\* The job moves everybody whose challenge is old enough from asked to spent.
LEMMA VerificationCleanupObeys ==
  ASSUME PolicyInv, IInv', VerificationCleanup
  PROVE  Obeyed /\ Carried'
<1> DEFINE old(r) == /\ r.verification = "NotCompleted" /\ r.sent # 0
                     /\ r.sent <= now + CaptchaDuration
           cut(r) == [r EXCEPT !.challenge = 0, !.sent = 0]
           late == {u \in Users : \E r \in topics : r.user = u /\ old(r)}
<1>1. topics' = {IF old(r) THEN cut(r) ELSE r : r \in topics}
  BY DEF VerificationCleanup, AfterCleanup
<1>2. UNCHANGED <<topicLock, pc, upd, row>>
  BY DEF VerificationCleanup, handlers
<1>3. \A r \in topics :
        /\ r \in Topic /\ r.user \in Users /\ cut(r).id = r.id
        /\ cut(r).user = r.user /\ cut(r).ban = r.ban /\ cut(r).sent = 0
        /\ cut(r).verification = r.verification /\ cut(r) \in Topic
  BY DEF PolicyInv, IInv, Tables, TablesTyped, RowKeys, Topic
<1> HIDE DEF cut, old
<1>4. ASSUME NEW u \in Users, u \in late
      PROVE  /\ StandingIn(topics)[u].captcha = "asked"
             /\ StandingIn(topics')[u] = Policy!With(u, "spent")
  <2>1. PICK r \in topics : r.user = u /\ old(r)
    BY <1>4
  <2>2. cut(r) \in topics' /\ cut(r).user = u
    BY <1>1, <1>3, <2>1
  <2>3. /\ StandingIn(topics)[u] = StandingOf(r)
        /\ StandingIn(topics')[u] = StandingOf(cut(r))
    BY <2>1, <2>2, StandingOfRow DEF PolicyInv, IInv, Tables, UniqueUser
  <2>4. /\ StandingOf(r) = [captcha |-> "asked", ban |-> r.ban]
        /\ StandingOf(cut(r)) = [captcha |-> "spent", ban |-> r.ban]
    BY <1>3, <2>1, CaptchaTyped DEF StandingOf, old
  <2> QED BY <2>3, <2>4 DEF Policy!With
<1>5. ASSUME NEW u \in Users, u \notin late
      PROVE  StandingIn(topics')[u] = StandingIn(topics)[u]
  <2>1. \A r : r.user = u => (r \in topics <=> r \in topics')
    BY <1>1, <1>3, <1>5
  <2> QED BY <2>1, SameRowsSameStanding
<1> HIDE DEF late
<1>6. Policy!Withdraw
  <2>1. FloorNow' = FloorNow
    BY <1>2 DEF FloorNow, FloorOf
  <2> DEFINE on == {u \in Users : u \in late}
  <2>2. on \in SUBSET {u \in Users : StandingIn(topics)[u].captcha = "asked"}
    BY <1>4
  <2>3. StandingIn(topics') =
          [u \in Users |-> IF u \in on THEN Policy!With(u, "spent")
                                       ELSE StandingIn(topics)[u]]
    BY <1>4, <1>5, Standings
  <2> HIDE DEF on
  <2> QED BY <2>1, <2>2, <2>3 DEF Policy!Withdraw
<1>7. Carried'
  <2>1. \A s \in topics' : \E r \in topics : s.id = r.id /\ s.sent \in {0, r.sent}
    BY <1>1, <1>3
  <2> QED BY <1>2, <2>1 DEF PolicyInv, Carried, Addressee, Checked, Relaying,
                            SameChallenge
<1> QED BY <1>6, <1>7 DEF Obeyed, Policy!PolicyNext

LEMMA CarriedFrame ==
  ASSUME Carried, UNCHANGED <<topics, pc, upd, row>>
  PROVE  Carried'
BY DEF Carried, Addressee, Checked, SameChallenge, Relaying

LEMMA EnvironmentObeys ==
  ASSUME PolicyInv, IInv', Environment
  PROVE  Obeyed /\ Carried'
<1>1. CASE MessageCleanup \/ Tick \/ \E th \in DOMAIN threads : ThreadRemoved(th)
  <2>1. UNCHANGED <<topics, topicLock, pc, upd, row>>
    BY <1>1 DEF MessageCleanup, Tick, ThreadRemoved, db, handlers
  <2>2. FloorNow' = FloorNow
    BY <2>1 DEF FloorNow, FloorOf
  <2> QED BY <2>1, <2>2, Quiet, CarriedFrame DEF PolicyInv
<1>2. CASE Crash
  <2>1. topicLock' = Nobody /\ UNCHANGED topics
        /\ \A g \in Goroutines : pc'[g] = "idle"
    BY <1>2 DEF Crash, db
  <2>2. FloorNow' = Policy!Free
    BY <2>1 DEF FloorNow, Policy!Free, Policy!Floor
  <2> QED BY <2>1, <2>2, Quiet DEF Carried
<1> QED BY <1>1, <1>2, VerificationCleanupObeys DEF Environment

-----------------------------------------------------------------------------
(* The refinement.                                                         *)

LEMMA StepObeys == PolicyInv /\ [Next]_vars => PolicyInv' /\ Obeyed
<1> SUFFICES ASSUME PolicyInv, [Next]_vars PROVE PolicyInv' /\ Obeyed
  OBVIOUS
<1>1. IInv'
  BY StepInvariant DEF PolicyInv
<1>2. ASSUME NEW g \in Goroutines, NEW u \in Users, FromUser(g, u)
      PROVE  Obeyed /\ Carried'
  BY <1>2, SendCaptchaObeys, AcceptMessageObeys, AnswerObeys, KickedObeys
  DEF FromUser
<1>3. ASSUME NEW g \in Goroutines, NEW u \in Users, FromGeneral(g, u)
      PROVE  Obeyed /\ Carried'
  BY <1>3, GeneralBanObeys, GeneralCommandObeys DEF FromGeneral
<1>4. ASSUME NEW g \in Goroutines, Continue(g) PROVE Obeyed /\ Carried'
  BY <1>1, <1>4, ContinueObeys, ContinueCarries
<1>5. ASSUME UNCHANGED vars PROVE Obeyed /\ Carried'
  <2>1. UNCHANGED <<topics, topicLock, pc, upd, row>>
    BY <1>5 DEF vars
  <2>2. FloorNow' = FloorNow
    BY <2>1 DEF FloorNow, FloorOf
  <2> QED BY <2>1, <2>2, Quiet, CarriedFrame DEF PolicyInv
<1>6. Obeyed /\ Carried'
  BY <1>1, <1>2, <1>3, <1>4, <1>5, TopicCommandObeys, EnvironmentObeys DEF Next
<1> QED BY <1>1, <1>6 DEF PolicyInv

LEMMA InitObeys == Init => PolicyInv /\ Policy!PolicyInit
<1> SUFFICES ASSUME Init PROVE PolicyInv /\ Policy!PolicyInit
  OBVIOUS
<1>1. Carried
  BY DEF Init, Carried
<1>2. FloorNow = Policy!Free
  BY DEF Init, FloorNow, Policy!Free, Policy!Floor
<1>3. \A u \in Users : StandingIn(topics)[u] = Policy!Stranger
  BY StandingOfNobody DEF Init
<1>4. StandingIn(topics) = [u \in Users |-> Policy!Stranger]
  BY <1>3, Standings
<1> QED BY <1>1, <1>2, <1>4, InitInvariant DEF PolicyInv, Policy!PolicyInit

\* What a handler carries besides its row holds in every reachable state.
THEOREM CarriedAlong == Spec => []PolicyInv
BY InitObeys, StepObeys, PTL DEF Spec

\* The handlers, the jobs and their failures implement AccessPolicy: every
\* write of a row moves one standing along a way the policy has for whoever
\* has the floor, and a message goes into a thread only when its writer may
\* speak at that moment.
THEOREM PolicyRefinement == Spec => PolicyObeyed
BY InitObeys, StepObeys, PTL DEF Spec, PolicyObeyed, Policy!PolicySpec, Obeyed

=============================================================================
