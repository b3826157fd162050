# Topicgram: a verification project

Topicgram is a Telegram bot that brings private messages of users into a forum
group, one topic (thread) per user, and the answers of administrators back.
This directory holds TLA+ modules that model it, TLC configurations that check
the modules on small instances, and theorems about them that TLAPS proves.

    tlc -workers 2 -config Lifecycle.cfg MCTopicBot     # a run
    tlapm TopicBotProofs.tla                            # the proofs of a module

`PROJECT.json` maps every definition to the source lines it stands for, and
lists the runs, the mutants, the hazards, the findings and the theorems.

## 1. Inventory

| Component | Source | State | Operations | Status |
|---|---|---|---|---|
| Topic handlers | `services/bots/bot.go`, `helper.go`, `model/` | tables `topics` and `messages`, mutex `BotAPI.topic`, the local `topic` of a handler; at Telegram the forum threads | relay both ways, replies, edits, block, `/ban` `/unban` `/terminate` in General and in a topic, close and reopen a topic | `TopicBot`, contents in `Relay` |
| User verification | `bot.go:128-238`, `bot.go:314-342`, `captcha.go` | `verification`, `challange_id`, `challange_sent` of a row | send a captcha, consume it, judge the answer | `TopicBot` |
| Math captcha | `services/captcha/math.go` | none (a pure algorithm with a random loop) | `NewMath`, `CheckMath` | `MathCaptcha` |
| Media group cache | `services/bots/media_group.go`, `bots.go:98-102` | cache of `MediaGroup`, its `Messages` and `done` | `getMediaGroup`, the expiry callback, `generateMediaGroup`, relay of a group | `MediaGroup` |
| Cron jobs | `services/cron` | the tables | `VerificationCleanup`, `MessageCleanup` | `TopicBot` |
| Update dispatch, webhook | `bots.go:109-124`, `bot.go:29-78`, `services/webhook` | secret token; at Telegram the updates not yet answered | `HookHandler`, `handleUpdate` | `Service`, dispatch in `TopicBot` |
| Rendering | `edit.go`, `send*.go` | none | build requests, notices | the choice of the request in `Relay` and `MediaGroup`, not the wording |
| Startup, shutdown | `cmd/Topicgram/main.go`, `bots.Load`, `systemd/` | the steps done, the configuration, the goroutines | load the configuration, migrate, check the group, set the webhook, serve, stop | `Service` |
| Database access | `database/`, `config/` | connection | open, migrate | statements and migration |
| Proxy, HTTP client | `pkg/proxy`, `utils` | none | dial through a proxy | not modelled |
| Scripts | `scripts/` | files under `/opt`, units | install, update, uninstall | not modelled |

How they interact. Telegram posts an update to the webhook; `HookHandler`
answers 200 and starts a goroutine with `handleUpdate`, which dispatches on the
chat and the kind of the update. A message of an album first passes the media
group cache, which may block it for seconds or make it return. The handler then
takes `bot.bot.RLock()` and `bot.topic.Lock()`, so that at most one handler at a
time is past this point, reads the row of the user (by user id, or by thread
id) into a local struct, and alternates calls to Telegram with writes of the
whole struct. The two cron jobs write the same tables and take no lock. The
process may die between any two calls; systemd restarts it with the tables as
they are, and the threads at Telegram as they are.

What is hard here. One handler holds a row across several calls to Telegram,
each of which may fail, while crashes, cron jobs and people who delete threads
change what the row describes. Errors of several writes are ignored. A row is
deleted when it seems worthless and created again later, so that old links
could be taken for new ones. Albums are assembled from racing goroutines
against a timer. The list with lines is under `hazards` in `PROJECT.json`.

What makes each component correct:

- *Topic handlers*: one row per user, one thread per row and that of the right
  user, links between copies of the same user's messages only, bans that stick
  and that hold at the time of a relay, the mutex given back, an accepted
  message relayed even if its thread is gone.
- *Verification*: nobody who is always screened writes unverified, one answer
  per challenge, no second challenge by detours, a live challenge not withdrawn.
- *Math captcha*: exactly one right button, only it passes, making it ends.
- *Media groups*: no message copied twice, none lost that came in time, copies
  linked to their originals, the leader awakes.
- *Relay of contents*: links join a message with its own copy, edits and replies
  follow them and reach nothing else, and a copy that differs from its original
  or is missing has a reason somebody knows of.
- *Webhook and start*: no update before the process is ready, none dropped that
  was not begun, none handled twice unless an answer was lost, each one handled
  in the end or lost with a process.
- *Access as a whole*: the standing of a user moves only as `AccessPolicy` says.

## 2. The modules

`TopicTable` holds the rows of both tables as records and the helpers of
`helper.go` as operators on sets of rows. A Telegram message id becomes the place
of the message (a user's chat or a thread) with a key, so a row of `messages`
says which two copies it links, and for whom.

`TopicBot` is the state machine of the handlers. Its variables are the tables
(`topics`, `nextId`, `messages`), what Telegram knows (`threads`, with owner and
whether they are live, and `captchas` shown), the clock `now`, `topicLock`, and
per goroutine the next call `pc`, the update `upd` and the local struct `row`.
An action is one call to Telegram or the database with the code up to the next
one, for example

| Code | Actions |
|---|---|
| `handleUserNewMessage`, new user | `SendCaptcha`, `SaveCaptcha` |
| ... allowed to write | `AcceptMessage`, `CreateThread`, `SaveThread`, `Relay` (with `goto retry`), `Record` |
| `handleUserVerification` | `Answer`, `ConsumeChallenge`, `CheckAnswer` |
| `handleMyChatMember`, `/terminate` | `Kicked` / `GeneralTerminate` / `TopicTerminate`, `DeleteThread`, `TerminateTopic` |
| `/ban` | `GeneralBan`, `DeleteThread`, `BanUser`; `TopicBan`, `DeleteThread`, `BanTopic` |
| `/unban` | `GeneralUnban` / `TopicUnban`, `UnbanTopic` |
| topic closed, reopened | `TopicClosed` / `TopicReopened`, `FlagBan` |
| message or edit in a topic | `Reply`, `AdmitByReply` / `TopicEdit`, `Deliver` (a blocked bot leads to `DeleteThread`), `Record` |
| cron | `VerificationCleanup`, `MessageCleanup` |
| environment | `Crash`, `ThreadRemoved`, `Tick` |

A goroutine is idle until it has the mutex, because nothing it does before
reads the state of this module. Handlers that return without a write
(`handleUserEditMessage`, refused messages, `/start`) are stuttering steps. A
write that may fail is a choice: with `"db"` in `Faults` the old table is a
possible result, and the handler goes on or returns as the code does.

`TopicBotInv` states the inductive invariants, `MCTopicBot` the instances for
TLC, `TopicBotProofs` and `TopicBotLinksProofs` the theorems. The other components
are split the same way: the module, its invariant in `...Inv`, the instances in
`MC...`, the theorems in `...Proofs`.

`AccessPolicy` is the abstract specification of access: each user has a standing
(no captcha yet, asked, spent, passed; banned or not), and somebody has the
floor. Users move their own standing and never lift a ban, administrators do the
rest, the clock withdraws challenges, and a user is heard only while the standing
permits it. `TopicBotPolicy` maps `TopicBot` onto it: the standing is read off the
user's row (no row is a stranger's), the floor off the update in the critical
section, and a message is heard from the moment it is in the thread until its
link is recorded. The policy also says what the code does and a reader might not
expect: an administrator's reply admits anybody (`Admit`), and a handler that
saves the row it read may bring back a challenge that the nightly job withdrew
meanwhile (`Revive`). `PolicyInv` there adds to `IInv` what a handler knows from the
checks it passed (`Carried`); `TopicBotPolicyProofs` proves the refinement from it.

`Relay` models contents for one user whom no captcha concerns. Telegram's
messages are records with a place (the private chat or a thread), a content (the
draft of a key), what they are a copy of and what they answer. `Kinds` of content
are those the handlers tell apart: texts, media that an edit can replace, voice
messages (and stickers) that it cannot, messages with buttons or a web app's data,
announcements of Telegram, and unsupported ones like polls. People send, edit and
reply; their updates wait in `pending` and are handled in any order, some twice.
What is not relayed is dealt with before the mutex is taken (`Dismiss`); else a
handler runs in steps between its calls (`busy`), with the mutex. Commands and the
callbacks are `TopicBot`'s.

| Code | Actions |
|---|---|
| the `switch` all four handlers begin with | `Dismiss`: buttons are passed over in silence, an announcement is deleted, an unsupported message answered; in a thread the last waits for the row, `Unsupported` |
| `handleUserNewMessage` | `UserNew`, `OpenThread` (with `sendSender`), `SendToThread` (with `goto retry`), `Record` |
| `handleTopicNewMessage` | `TopicNew`, `SendToUser`, `Record`, `Terminate` if the user blocked the bot |
| `handleUserEditMessage` | `UserEdit`, `EditCopy` |
| `handleTopicEditMessage` | `TopicEdit`, `EditCopy`, `Terminate` |
| `generateEditMessage` | `EditRequest` |
| cron, environment | `MessageCleanup`, `Send`, `Edit`, `ThreadRemoved`, `Crash` |

Three sets of originals say how the history excuses a difference: `told` (the
author got a notice, or the bot tried), `lost` (an update died with the
process), `overtaken` (an older edit was still waiting when a newer one was
handled). Two more excuses are read off the state: a message in a thread that no
row names any more has no user it could go to; and what has buttons or is an
announcement is passed over on purpose, silently (`Unheeded`). The bot also keeps
silent about a relayed message to which buttons are added later: the copy then
stays as it was. `RelayInv` and `RelayProofs` hold the invariant and the theorems.

`Service` models the life of the process: one action per step of `main`, each with
its failure, `bots.Load` with the webhook it sets at Telegram, signals, the
shutdown that waits for requests and not for goroutines, crashes, and systemd's
restart. Telegram holds an update until one of its calls was answered with 200;
`HookHandler` answers 403, 400, or starts a goroutine and answers 200. It shows
what `TopicBot` and `Relay` assume of updates: they come in any order, once, more
than once if an answer was lost, and not at all if the process that took them
died. Invariant and theorems: `ServiceInv`, `ServiceProofs`.

`MediaGroup` models `getMediaGroup`, the expiry of the cache and the part of
the handlers that copies a group and links the copies, with the type that
`generateMediaGroup` gives to each kind of media; `MCMediaGroup` gives it albums.
`Sortings` is the sort of a group by message id when its leader wakes up.
`MediaGroupInv` and `MediaGroupProofs` hold the invariant and the theorems.
`MathCaptcha` models `NewMath` and `CheckMath`; `MathCaptchaProofs` proves its
properties. `TopicBot` uses its result: an answer there is a challenge and a
bit, whether the right button was pressed.

A definition marked *Mutant* is a faulty variant of the next one. No
specification uses it: it is substituted for the right one to see that a
property notices.

## 3. Runs

| Run | Configuration | Checks | Distinct states |
|---|---|---|---|
| `lifecycle` | 2 users, 2 goroutines, an ordinary and a protected message, an administrator's message, all faults, 2 threads, 3 row ids | `IInv`, `TypeOK`, `UniqueUser`, `ThreadOwner`, `MessageIsolation`, `BannedNeverRelayed`, `PolicyObeyed` | 383,608 |
| `captcha` | 1 user who is always screened, challenge ids 0 to 2, clock to 3, all faults | `PolicyInv`, `ScreenedUntilVerified`, `OneAnswerPerChallenge`, `SpentIsFinal`, `BanSticks`, `PolicyObeyed` | 144,162 |
| `reliable` | 1 user who is screened at some times, no faults, threads deleted by hand, 3 threads, fairness | `NoOrphanLinks`, `LockReleased`, `Healing` | 112,274 |
| `edits` | seven conversations of two or three messages of every kind, with edits, some updates repeated once; all faults, 2 threads | `IInv`, `TypeOK`, `LinksTrue`, `EditsExplained`, `NobodyIgnored` | 1,205,380 |
| `replies` | two messages of the user and an answer with two drafts, any of them a reply; all faults, 2 threads | `ContentsTrue`, `RepliesTrue` | 2,770,931 |
| `webhook` | 2 updates, 2 configurations, 2 crashes or signals, an answer of each update lost, any number of failed starts | `IInv`, `TypeOK`, `ReadyBeforeUse`, `TakenBeforeDropped`, `TwiceOnlyIfUnheard`, `NoneRefused` | 62,832 |
| `webhook_live` | the same with 1 update, fairness | `EachTaken` | 2,376 |
| `album` | an album of 3, of each kind, forwarded or not, fairness | `IInv`, `TypeOK`, `AtMostOnce`, `LinksPaired`, `LeaderAwakes`, `InTimeSettled` | 69,093 |
| `math` | operands below 4, fairness | `TypeOK`, `OneRightButton`, `JudgedRight`, `Finishes` | 93,814 |
| `cleanup_too_early` | 1 user, 1 challenge, no faults | violates `LiveChallengeKept` | |
| `orphan_thread` | 1 user, no faults | violates `OneThreadPerUser` | |
| `document_album` | an album of 2, of each kind | violates `NeverMalformed` | |

What they show. `lifecycle`: whatever fails and whoever deletes threads, rows,
threads and links of two users never get mixed up, and only an administrator
ends a ban. `captcha`: the clock, the unlocked nightly job, a crash between
consuming and judging and the challenge id 0 give nobody a way around the
captcha. `reliable`: the retry loop ends and heals a lost thread, and a purge
takes along all links. In the first two runs every step is one of
`AccessPolicy`'s. `edits`: a linked copy that says something else than its
original is explained by a notice, a lost update, edits that overtook each other,
a second copy, a thread that is not the user's any more, or buttons that were
added; a message without a copy by a notice, a lost update, such a thread, or its
kind; there is no other way, whatever fails. Each excuse is needed: without any one of
them the run ends with a counterexample. The thread that is not the user's takes
two messages of an administrator: the first is copied to the user and then edited;
before the edit is handled the second finds the bot blocked, and `terminateTopic`
forgets the thread although deleting it failed; the edit then finds no row, and
returns. `replies`: stale links
and lost threads cost replies and edits, and never send one to a wrong message.
`webhook`: a half migrated database, a webhook registered by a process that died,
or a new token never lead to an update that is refused, dropped unseen, or
handled by a process that is not ready. The purpose of the last three runs is to
document disagreements (section 6).

Bounds. Two users are what mixing up needs. Two goroutines are what a race for
the mutex needs: past it there is one handler, so a third adds only waiting,
and the mutant without a mutex is caught with two. `MaxThreads` 2 or 3 lets a
thread be lost and made again (in `reliable` twice in one handler); `MaxRows`
lets rows be deleted and created again. `MaxThreads` and `MaxRows` stop new
messages from being accepted, never a handler under way. `MaxTime` 3 with
`CaptchaDuration` 1 has answers in time, on the last moment and late. An album
of three has a leader, a follower that is in time and one that is late; in
`math` 4 is the least number of candidates with which the loop ends. In `captcha`
goroutines are interchangeable, in `lifecycle` users as well: no definition tells
them apart.

`Conversations` names the sets of keys that one behaviour of `Relay` may use, so
that a run goes through several small conversations instead of one large one. In
`edits` each of them is about one thing: three drafts (`m2`) are what it takes for
two edits to overtake each other, and the second one puts media in the place of a
text; buttons that are added (`m4`) or taken away (`a3`) by an edit; two messages of
an administrator; an unsupported message of each side, and an announcement; the
repeated updates of `m3` make a second copy. With two threads the first one may be
lost before or after the message is in it. `replies` has every pair of messages that can answer each
other, in both directions. Both start from nothing, so rows are made, deleted by
a block and made again. In `webhook` an update may meet two processes that die and
a lost answer. `MaxExits` bounds crashes and signals, not starts that fail.

Fairness. `FairSpec` of `TopicBot`: a handler with the mutex continues (weak
fairness per goroutine), because each call to Telegram returns within the
timeout of `utils.BotClient` and the scheduler of Go is fair. Updates arrive
without fairness. In `MediaGroup` goroutines go on and timers of the cache fire;
in `Service` systemd restarts (`Restart=always`, and 20 s between starts keep clear
of the start limit), goroutines of the process go on, and a call of Telegram's or
a step of `main` that can succeed again and again does so at some time (strong
fairness per step: a broken configuration, a database or a Telegram that is down
are put right). In `MathCaptcha` a random generator draws a number not drawn
before at some time. `LockReleased` and `Healing` further rest on people who stop deleting
threads, since each deletion can restart the loop: `MaxThreads` bounds them.

Assumptions worth knowing:

- Ids of rows and of threads are not reused.
- A statement that reports an error had no effect; each statement is atomic.
- `BanUser`, `BanTopic` and `TerminateTopic` put a purge and a save into one
  action. Each may fail on its own, so the tables a crash between them leaves
  behind are the ones a failed statement leaves behind.
- A reply to a message of a lost thread is refused by Telegram and ends the
  handler (fault `"api"`); `Healing` is about messages that reply to nothing.
- The media group life span (3 s) suffices for a leader to set up its channel
  (`Prompt`), and `MediaGroup` assumes a topic that accepts the album. If it did not
  suffice, closing the nil channel would end the process (`media_group.go:69`); the
  model leaves this out. It has one delivery per message: the second copy that a
  repeated update may make is in `Relay` and `TopicBot`.
- `Service` is about one bot, whose host and token may change. When the
  configuration names another bot, nothing removes the webhook of the old one, and
  its calls are refused; `NoneRefused` does not speak of them.
- `EachTaken` takes it that an accepted request is answered. `http.Server` has no
  timeouts and `Shutdown` no deadline, so a client that never finishes a request
  delays the end of the process until systemd kills it; the run does not see this.
- That a user who failed the captcha, or drew challenge 0, is locked out until an
  administrator acts is what the code does. The project does not judge it;
  `SpentIsFinal` says that there is no other way out.
- In `Relay` a message that cannot be edited as asked, or a reply to a message that is
  gone, is an error of Telegram's; whoever edits a message edits one that still
  exists; nobody bans the user, who is let off the captcha (`captcha.go:21-45`).
  The verification of such a user is completed by the first answer only, so that
  edits before it are refused (`bot.go:598`).
- `told` counts the attempt to send a notice. When that fails too, nobody knows.
- Telegram's own limit on the age of updates is not modelled.
- A user has only buttons of captchas the bot showed to that user.

## 4. Proofs

All theorems are about every set of users, goroutines, messages and updates, every
screening, and all bounds. Their assumptions on constants are `NoUserAssumption`,
`BotAssumption`, `CaptchaAssumption`, `MsgsAssumption`, `RelayAssumption` and
`ServiceAssumption`, which TLC evaluates in each run; one theorem adds that some
faults are absent.

| Module | Theorem | Property |
|---|---|---|
| `TopicBotProofs` | `Invariance`, `TypeCorrectness` | `IInv`, `TypeOK` |
| | `OneRowPerUser`, `ThreadsBelong`, `Isolation` | `UniqueUser`, `ThreadOwner`, `MessageIsolation` |
| | `BannedStayOut`, `BansStick` | `BannedNeverRelayed`, `BanSticks` |
| | `ScreeningHolds`, `ChallengesSpent`, `SpentForGood` | `ScreenedUntilVerified`, `OneAnswerPerChallenge`, `SpentIsFinal` |
| `TopicBotPolicyProofs` | `CarriedAlong`, `PolicyRefinement` | `PolicyInv`, `PolicyObeyed` |
| `TopicBotLinksProofs` | `LinksHaveRows`, if `Faults` is within `{"api"}` | `NoOrphanLinks` |
| `RelayProofs` | `Invariance`, `TypeCorrectness` | `IInv`, `TypeOK` |
| | `LinksJoinCopies`, `CopiesQuote`, `RepliesFollow` | `LinksTrue`, `ContentsTrue`, `RepliesTrue` |
| | `DifferencesExplained`, `NoneIgnored` | `EditsExplained`, `NobodyIgnored` |
| `ServiceProofs` | `Invariance`, `TypeCorrectness` | `IInv`, `TypeOK` |
| | `StartedInOrder`, `TokenFits` | `ReadyBeforeUse`, `NoneRefused` |
| | `NothingDropped`, `OnceIfHeard` | `TakenBeforeDropped`, `TwiceOnlyIfUnheard` |
| `MediaGroupProofs` | `Invariance`, `TypeCorrectness` | `IInv`, `TypeOK` |
| | `CopiedOnce`, `LinkedToOwnCopy` | `AtMostOnce`, `LinksPaired` |
| `MathCaptchaProofs` | `Invariance`, `TypeCorrectness` | the module's invariant, `TypeOK` |
| | `OneRight`, `Judgement` | `OneRightButton`, `JudgedRight` |

**Tables and handlers.** None of the properties of `TopicBot` is inductive. That an
insert adds no second row of a user depends on what the handler found long ago; that
a save does not lift a ban depends on the `ban` of its local struct. `IInv` therefore
says of the handler in the critical section how its local row relates to the tables,
in four parts: `RowInHand` (it has no id only if the user has no row, and else agrees
with the row on user, ban and verification), `ThreadInHand` (its thread is the
user's), `UpdateInHand` (which updates lead to which step) and `Allowed` (who may be
at a relay). `Locking` says that only one handler is there. The proof first shows
that a well-formed table stays well-formed under each helper of `helper.go`, then
takes one lemma per action, and closes with `[Next]_vars`. The nightly job is the
delicate step, since it changes rows under a running handler: `Copied` leaves out
`challenge` and `sent` for that reason, and demands them to be 0 only between
consuming and judging, where the job cannot change them any more. The two action
properties, `BanSticks` and `SpentIsFinal`, follow from `IInv` alone: `TableWriters`
reduces a step to the nightly job or a call of the handler with the mutex, `BanKept`
and `PendingKept` go through the calls.

**The policy.** `PolicyRefinement` is a simulation: `Init` maps to the policy's, and
every step to one of its steps or a stutter. A user's standing is that of the one
row, or a stranger's, so a write that leaves the other rows alone moves one standing
(`Moved`); a handler that enters or leaves the critical section takes or gives up
the floor; the nightly job is the policy's clock. Whether the move is one the policy
has for whoever holds the floor depends on what the handler has checked, which
`Carried` remembers from call to call: which updates lead to which call
(`Addressee`), what the checks found in the row (`Checked`), and that since then
nobody asked the user again (`SameChallenge`): the challenge in the database is the
one in hand or was withdrawn. With `SameChallenge`, a stale save can at most bring a
withdrawn challenge back (`Revive`), never renew a spent one.

**Links and rows.** `NoOrphanLinks` rests on `LinksInv`: a link names a row that has
a thread, because `/unban` deletes a row without one and purges nothing; and the
database knows the thread in hand, so that no link is stored for a row which is
deleted without a purge. Telegram may refuse anything (`"api"`). With `"db"` a purge
may fail, and the property is false (`bot.go:848`). `"crash"` is left out because
the model puts a purge and a save into one action: in the code a process may die
between them, in `/ban` in a topic after the row has lost its thread (`bot.go:1001`),
and an `/unban` then deletes the row and leaves the links.

**Contents.** `RelayProofs` first shows what no step takes back (`Kept`): what a
message is a copy of, what it answers and where it is never change, originals only
get later drafts, and the user's row only loses its thread or gets a fresh one. From
this, what a handler looked up before a call is still the right counterpart after
any step of anybody (`UnderWay`), and links, copies and replies follow from it. That
nothing is lost in silence needs three more facts: a message without a copy is
waiting, in hand, or excused (`Attended`); behind the latest edit of a message no
older one waits unless they overtook each other, or the latest is passed over,
which takes no mutex (`InOrder`); and the only copy of a
message is up to date, or the edit that will make it so is on its way, or that edit
is one to be passed over (`UpToDate`).

The proof found that `EditsExplained` had been too strong: a message in a thread
that was left behind had not been among the excuses, and the instance of `edits` had
one message of an administrator only. The property was wrong and not the code: the
administrator was told that the user blocked the bot, and nothing promises more of
such a thread. The case is in the run now (section 3).

**The process.** `IInv` of `Service` ties the step of `main` to what is set up
(`Phase`), above all that the webhook's token is that of the configuration in use
from the step `bot` on, though an earlier process may have registered another. Calls
are one per update and carry that token (`Calling`). An update that was begun and is
held was not heard of, or its answer is under way (`Begun`); so each beginning after
the first costs an exit or a lost answer (`Counted`), which bounds them.

**Albums.** `IInv` of `MediaGroup` says that a message is in one group at most, that a
group has one leader (`OneLeader`, from the cache's get-or-set), and that what was
copied is a prefix of the group even when it grows behind the copies (`Copied`).
Sorting permutes a group before it is copied and never later, which is what
`LinksPaired` depends on.

**The captcha.** For every `N` of at least 4: while buttons are added their texts
differ, each signs its challenge, and the value is 0 exactly with the text of the
answer. A shuffle is a bijection of the four places and keeps this.

Only model-checked: the liveness properties `EachTaken`, `LeaderAwakes`,
`InTimeSettled`, `LockReleased`, `Healing` and `Finishes`, since fairness and
`ENABLED` are out of the prover's reach. Every other property of a passing run is a
theorem. TLC checks the inductive invariants in the runs too, except `LinksInv`,
which was checked on the instance of `reliable` with `"api"` among the faults.

## 5. Not modelled

Wording of notices and of rendered messages, languages, commands' parsing and the
data source names of the four databases. Whether a thread is closed:
`ReopenForumTopic` of `/unban` has no effect in the model (in General it names
thread 0, like the requests of finding 2). The schedule of the cron jobs.

The group id is a constant. `handleTopicNewMessage` has code for a group that
migrates (`bot.go:678-695`), which assigns it under the write lock, but no update
can reach it: `bots.Load` accepts a forum only, which is a supergroup and does not
migrate again, and `handleUpdate` turns away updates of a group that is not a
forum (`bot.go:40`). So the RWMutex is only ever read-locked, and the reads of
`GroupId` outside it are harmless.

The edit of a sticker has no request in `generateEditMessage`, which returns nil;
people cannot edit stickers. A photo none of whose sizes has a file size would be
sent with an empty file id; Telegram always gives the size.

The proxy dialer and the HTTP client: a straight line of calls that return an
error; the modules have that error. One weakness of it is a hazard without a
property: the context is not used once the connection to the proxy is made
(`http.go:126`). The scripts: straight-line shell that a person runs.

## 6. Findings

1. `verification_cleanup.go:23` adds the duration of a captcha to the present
   instead of subtracting it: at midnight every pending challenge is withdrawn,
   the ones just sent included, and these users are locked out (`bot.go:339`).
2. `bot.go:929` and `bot.go:845` delete the thread of the command's message, which
   has id 0 in General, instead of the user's: the old thread stays behind, and
   the user gets a second one.
3. `media_group.go:121` calls documents in albums "ducument". Telegram knows no such
   type, so albums of documents are refused in both directions unless they are
   forwarded; `edit.go:92` has the right word.

Seen and not run as checks: an in-topic `/ban` of a banned user deletes the
thread but not its id from the row (`bot.go:996`, healed by the next relay); a
message that joins an album after its `done` was closed is lost
(`media_group.go:80`); in a topic such a late message makes `messages[i]` panic
(`bot.go:1166`), which `Recover` turns into copies without links; a message with a
reply markup, a forwarded post with buttons for example, is dropped without a word
in both directions (`bot.go:267`, `bot.go:676`, `helper.go:28`), and no doc promises
otherwise.

## 7. Plan

The modules are complete as far as the code can be modelled with profit, and every
safety property of a passing run is proved. What is left:

1. An abstract specification of delivery for `Service` (an update is waiting, begun,
   or settled), which `Relay` and `TopicBot` assume, and the refinement.
2. An abstract specification of an album (each message is copied with its group,
   alone, or never), with the simulation from `IInv` of `MediaGroup`.
3. That `Relay` keeps to `TopicBot` where they overlap: rows, threads and links of
   one user.
