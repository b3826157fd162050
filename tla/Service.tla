------------------------------- MODULE Service -------------------------------
(***************************************************************************)
(* The life of the process: main.go from the configuration to the exit,    *)
(* bots.Load, the webhook handler of bots.go, and systemd, which starts    *)
(* the process again; with Telegram, which holds an update until one of    *)
(* its calls was answered with 200.                                        *)
(*                                                                         *)
(* What a goroutine does with its update is in TopicBot, MediaGroup and    *)
(* Relay; their updates come once, more than once or not at all, in any    *)
(* order, and this module shows when.                                      *)
(***************************************************************************)
EXTENDS Naturals

CONSTANTS Updates,    \* what Telegram has to deliver
          Configs,    \* versions of config.json: each has a token or a host of its own
          MaxExits    \* bound: no crash and no signal any more

ASSUME ServiceAssumption == Configs \subseteq Nat \ {0} /\ MaxExits \in Nat

VARIABLES pc,       \* where main is
          done,     \* the steps it has completed
          conf,     \* the configuration it runs with
          running,  \* the goroutines of handleUpdate
          calls,    \* the HTTP requests it has not answered
          file, tables,  \* on disk: config.json, the tables of the database
          hook,     \* the configuration whose secret token Telegram sends
          held,     \* the updates Telegram still has
          sent, begun, ended, died, unheard, exits   \* history

process == <<pc, done, conf, running, calls>>
history == <<sent, begun, ended, died, unheard, exits>>
vars == <<process, file, tables, hook, held, history>>

None == 0
Steps == {"config", "proxy", "database", "bot", "cron", "listen"}
Tables == {"topics", "messages"}
Call == [upd: Updates, token: Configs, status: {0, 200, 400, 403}]  \* 0: none yet
Goroutine == [upd: Updates, nth: Nat]

\* An update is begun once, once more if the answer was lost, and once more
\* for each process that died before it could answer.
TypeOK ==
  /\ pc \in Steps \cup {"off", "serve", "shutdown"} /\ done \subseteq Steps
  /\ conf \in Configs \cup {None} /\ file \in Configs /\ hook \in Configs \cup {None}
  /\ tables \subseteq Tables /\ calls \subseteq Call /\ running \subseteq Goroutine
  /\ held \cup sent \cup ended \cup died \cup unheard \subseteq Updates
  /\ begun \in [Updates -> 0 .. 2 + MaxExits] /\ exits \in 0 .. MaxExits

Init ==
  /\ pc = "off" /\ done = {} /\ conf = None /\ running = {} /\ calls = {}
  /\ file \in Configs /\ tables = {} /\ hook = None /\ held = {}
  /\ begun = [u \in Updates |-> 0]
  /\ sent = {} /\ ended = {} /\ died = {} /\ unheard = {} /\ exits = 0

-----------------------------------------------------------------------------
(* main                                                                    *)

\* The end of the process, after clog.Fatal, by a signal or by a crash.
\* Nothing waits for the goroutines.
Exit ==
  /\ pc' = "off" /\ done' = {} /\ conf' = None /\ running' = {} /\ calls' = {}
  /\ died' = died \cup {g.upd : g \in running}
  /\ unheard' = unheard \cup {c.upd : c \in {d \in calls : d.status = 200}}

Fatal == Exit /\ UNCHANGED <<sent, begun, ended, exits>>

After == [config |-> "proxy", proxy |-> "database", database |-> "bot",
          bot |-> "cron", cron |-> "listen", listen |-> "serve"]

Complete(step) ==
  /\ pc' = After[step] /\ done' = done \cup {step}
  /\ UNCHANGED <<running, calls, history>>

ReadConfig ==
  /\ pc = "config"
  /\ \/ conf' = file /\ Complete("config")
     \/ Fatal
  /\ UNCHANGED <<file, tables, hook, held>>

RegisterProxy ==
  /\ pc = "proxy"
  /\ \/ Complete("proxy") /\ UNCHANGED conf
     \/ Fatal
  /\ UNCHANGED <<file, tables, hook, held>>

\* Mutant: the error of AutoMigrate is ignored.
OpenUnmigrated ==
  /\ pc = "database"
  /\ tables' \in {tables, tables \cup {"topics"}, Tables}
  /\ Complete("database") /\ UNCHANGED <<conf, file, hook, held>>

\* InitDB: the tables are migrated one after the other.
OpenDatabase ==
  /\ pc = "database"
  /\ \/ tables' = Tables /\ Complete("database") /\ UNCHANGED conf
     \/ tables' \in {tables, tables \cup {"topics"}} /\ Fatal
  /\ UNCHANGED <<file, hook, held>>

\* Mutant: the error of the request that sets the webhook is ignored.
LoadUnregistered ==
  /\ pc = "bot"
  /\ hook' \in {hook, conf} /\ Complete("bot") /\ UNCHANGED conf
  /\ UNCHANGED <<file, tables, held>>

\* bots.Load: the webhook is set after the checks of the group; its answer may
\* be lost.  The commands are set without a look at the errors.
LoadBot ==
  /\ pc = "bot"
  /\ \/ hook' = conf /\ Complete("bot") /\ UNCHANGED conf
     \/ hook' \in {hook, conf} /\ Fatal
  /\ UNCHANGED <<file, tables, held>>

StartCron ==
  /\ pc = "cron"
  /\ Complete("cron")
  /\ UNCHANGED <<conf, file, tables, hook, held>>

Listen ==
  /\ pc = "listen"
  /\ \/ Complete("listen") /\ UNCHANGED conf
     \/ Fatal
  /\ UNCHANGED <<file, tables, hook, held>>

\* A signal is waited for once the webhook is served, before it just kills.
Signal ==
  /\ exits < MaxExits /\ exits' = exits + 1
  /\ pc \notin {"off", "shutdown"}
  /\ IF pc = "serve"
       THEN pc' = "shutdown" /\ UNCHANGED <<done, conf, running, calls, died, unheard>>
       ELSE Exit
  /\ UNCHANGED <<sent, begun, ended, file, tables, hook, held>>

\* srv.Shutdown: no new request, and the end when all are answered.
Shutdown ==
  /\ pc = "shutdown" /\ calls = {}
  /\ Fatal
  /\ UNCHANGED <<file, tables, hook, held>>

Crash ==
  /\ exits < MaxExits /\ exits' = exits + 1
  /\ pc # "off" /\ Exit
  /\ UNCHANGED <<sent, begun, ended, file, tables, hook, held>>

\* systemd: Restart=always, RestartSec=20s, which no start limit can meet.
Restart ==
  /\ pc = "off" /\ pc' = "config"
  /\ UNCHANGED <<done, conf, running, calls, file, tables, hook, held, history>>

Reconfigure ==
  /\ file' \in Configs \ {file}
  /\ UNCHANGED <<process, tables, hook, held, history>>

-----------------------------------------------------------------------------
(* The webhook                                                             *)

Happens(u) ==
  /\ u \notin sent /\ sent' = sent \cup {u} /\ held' = held \cup {u}
  /\ UNCHANGED <<process, file, tables, hook, begun, ended, died, unheard, exits>>

\* Telegram calls one time at once for an update, for several at a time.
CallHook(u) ==
  /\ pc = "serve" /\ u \in held /\ hook # None
  /\ \A c \in calls : c.upd # u
  /\ calls' = calls \cup {[upd |-> u, token |-> hook, status |-> 0]}
  /\ UNCHANGED <<pc, done, conf, running, file, tables, hook, held, history>>

Status(c, status) == calls' = (calls \ {c}) \cup {[c EXCEPT !.status = status]}

Go(u) ==
  /\ begun' = [begun EXCEPT ![u] = @ + 1]
  /\ running' = running \cup {[upd |-> u, nth |-> begun[u] + 1]}

\* Mutant: the update is handled, and the error of that is the answer.
HookReportsErrors(c) ==
  /\ c.status = 0
  /\ \/ c.token # conf /\ Status(c, 403) /\ UNCHANGED <<begun, running>>
     \/ c.token = conf /\ \E s \in {200, 400} : Status(c, s) /\ Go(c.upd)
  /\ UNCHANGED <<pc, done, conf, file, tables, hook, held, sent, ended, died,
                 unheard, exits>>

\* Mutant: a request that cannot be read is answered like any other.
HookAccepts(c) ==
  /\ c.status = 0
  /\ \/ c.token # conf /\ Status(c, 403) /\ UNCHANGED <<begun, running>>
     \/ c.token = conf /\ Status(c, 200) /\ (Go(c.upd) \/ UNCHANGED <<begun, running>>)
  /\ UNCHANGED <<pc, done, conf, file, tables, hook, held, sent, ended, died,
                 unheard, exits>>

\* HookHandler: wrong token, unreadable request, or a goroutine and the answer.
HookHandler(c) ==
  /\ c.status = 0
  /\ \/ c.token # conf /\ Status(c, 403) /\ UNCHANGED <<begun, running>>
     \/ c.token = conf /\ Status(c, 400) /\ UNCHANGED <<begun, running>>
     \/ c.token = conf /\ Go(c.upd) /\ Status(c, 200)
  /\ UNCHANGED <<pc, done, conf, file, tables, hook, held, sent, ended, died,
                 unheard, exits>>

\* Telegram keeps what was not answered with 200.
Answered(c) ==
  /\ c.status # 0 /\ calls' = calls \ {c}
  /\ held' = IF c.status = 200 THEN held \ {c.upd} ELSE held
  /\ UNCHANGED <<pc, done, conf, running, file, tables, hook, history>>

AnswerLost(c) ==
  /\ c.status = 200 /\ c.upd \notin unheard
  /\ calls' = calls \ {c} /\ unheard' = unheard \cup {c.upd}
  /\ UNCHANGED <<pc, done, conf, running, file, tables, hook, held, sent, begun,
                 ended, died, exits>>

\* handleUpdate returns, or panics and is recovered.
Finish(g) ==
  /\ running' = running \ {g} /\ ended' = ended \cup {g.upd}
  /\ UNCHANGED <<pc, done, conf, calls, file, tables, hook, held, sent, begun, died,
                 unheard, exits>>

Starting ==
  \/ ReadConfig \/ RegisterProxy \/ OpenDatabase \/ LoadBot \/ StartCron \/ Listen

Next ==
  \/ Starting \/ Signal \/ Shutdown \/ Crash \/ Restart \/ Reconfigure
  \/ \E u \in Updates : Happens(u) \/ CallHook(u)
  \/ \E c \in calls : HookHandler(c) \/ Answered(c) \/ AnswerLost(c)
  \/ \E g \in running : Finish(g)

\* A step of main that can succeed does so in the end: the configuration is
\* put right, the database and Telegram can be reached.  Calls arrive, with a
\* request that can be read, between two exits; systemd restarts.
Fairness ==
  /\ WF_vars(Restart) /\ WF_vars(Shutdown)
  /\ \A s \in Steps : SF_vars(Starting /\ pc = s /\ pc' = After[s])
  /\ \A u \in Updates :
       /\ SF_vars(CallHook(u))
       /\ SF_vars(\E c \in calls : c.upd = u /\ HookHandler(c) /\ begun' # begun)
       /\ WF_vars(\E c \in calls : c.upd = u /\ c.status = 0 /\ HookHandler(c))
       /\ WF_vars(\E c \in calls : c.upd = u /\ (Answered(c) \/ AnswerLost(c)))
       /\ WF_vars(\E g \in running : g.upd = u /\ Finish(g))

Spec == Init /\ [][Next]_vars /\ Fairness

-----------------------------------------------------------------------------
(* Properties                                                              *)

\* No goroutine handles an update, and no job runs, in a process without its
\* tables, its database connection or (for updates) its loaded bot, however
\* often an earlier process died halfway: main.go 103-157 sets them up first.
ReadyBeforeUse ==
  /\ calls # {} \/ running # {} => {"database", "bot"} \subseteq done
  /\ calls # {} \/ running # {} \/ "cron" \in done => tables = Tables

\* What Telegram no longer holds was handled, is being handled, or died with
\* a process that had begun it: nothing is answered with 200 and then left
\* alone (bots.go 116-123).
TakenBeforeDropped ==
  sent \subseteq held \cup ended \cup died \cup {g.upd : g \in running}

\* An update is handled twice only if Telegram never heard the first answer.
TwiceOnlyIfUnheard == \A u \in Updates : begun[u] > 1 => u \in unheard

\* No call for the bot is answered with 403, although the token changes with the
\* configuration: the webhook is set anew before the process listens.  (Another
\* bot's webhook, left over from an earlier configuration, is not modelled.)
NoneRefused == \A c \in calls : c.status # 403

\* Every update is handled to the end, or its handler dies with a process, given
\* that a request the server accepted is answered: no client stalls Shutdown.
EachTaken == \A u \in Updates : u \in held ~> u \in ended \cup died

=============================================================================
