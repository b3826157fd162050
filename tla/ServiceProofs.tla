--------------------------- MODULE ServiceProofs ----------------------------
(* That IInv of ServiceInv is inductive, and what follows from it.         *)
EXTENDS ServiceInv, TLAPS

\* The steps main has completed are told apart by the step it is at.
LEMMA Stages ==
  /\ Before["off"] = {} /\ Before["config"] = {} /\ Before["proxy"] = {"config"}
  /\ Before["database"] = {"config", "proxy"}
  /\ Before["bot"] = {"config", "proxy", "database"}
  /\ Before["cron"] = {"config", "proxy", "database", "bot"}
  /\ Before["listen"] = {"config", "proxy", "database", "bot", "cron"}
  /\ Before["serve"] = Steps /\ Before["shutdown"] = Steps
  /\ Steps = {"config", "proxy", "database", "bot", "cron", "listen"}
BY DEF Before, Steps

-----------------------------------------------------------------------------
(* The end of a process.                                                   *)

\* A process without a call in flight can end at no cost, one with a call in
\* flight only by a crash or a signal that kills, which are counted.
LEMMA Ended ==
  ASSUME IInv, Exit, UNCHANGED <<sent, begun, ended, file, held>>,
         tables' \subseteq Tables, hook' \in Configs \cup {None},
         \/ calls = {} /\ exits' = exits
         \/ exits < MaxExits /\ exits' = exits + 1
  PROVE  IInv'
<1>1. TypeOK'
  BY ServiceAssumption DEF IInv, TypeOK, Exit, Goroutine, Call
<1>2. Phase' /\ Calling'
  BY Stages DEF Phase, Calling, Exit
<1>3. \A u \in Updates : ~Accepted(u)' /\ (Accepted(u) => u \in unheard')
  BY DEF Accepted, Exit
<1>4. Begun'
  BY <1>3 DEF IInv, Begun, Exit
<1>5. Counted'
  <2> SUFFICES ASSUME NEW u \in Updates
               PROVE  begun[u] <= exits' + (IF u \in unheard' THEN 1 ELSE 0)
                                         + (IF u \in held THEN 0 ELSE 1)
    BY <1>3 DEF Counted, Exit
  <2>1. /\ begun[u] \in Nat /\ exits \in Nat
        /\ begun[u] <= exits + (IF u \in unheard THEN 1 ELSE 0)
                             + (IF u \in held /\ ~Accepted(u) THEN 0 ELSE 1)
    BY ServiceAssumption DEF IInv, TypeOK, Counted
  <2>2. unheard \subseteq unheard'
    BY DEF Exit
  <2>3. CASE exits' = exits + 1
    BY <1>3, <2>1, <2>2, <2>3
  <2>4. CASE calls = {} /\ exits' = exits
    BY <2>1, <2>2, <2>4 DEF Accepted
  <2> QED BY <2>3, <2>4
<1>6. TakenBeforeDropped' /\ TwiceOnlyIfUnheard'
  BY DEF IInv, TakenBeforeDropped, TwiceOnlyIfUnheard, Exit
<1> QED BY <1>1, <1>2, <1>4, <1>5, <1>6 DEF IInv

-----------------------------------------------------------------------------
(* main                                                                    *)

\* A step of main that succeeds leaves calls and updates alone.
LEMMA Completed ==
  ASSUME IInv, NEW step \in Steps, pc = step, Complete(step),
         UNCHANGED <<file, held>>,
         conf' = (IF step = "config" THEN file ELSE conf),
         tables' = (IF step = "database" THEN Tables ELSE tables),
         hook' = (IF step = "bot" THEN conf ELSE hook)
  PROVE  IInv'
<1>1. calls = {} /\ running = {}
  BY Stages DEF IInv, Phase
<1>2. TypeOK'
  BY Stages DEF IInv, TypeOK, Complete, After, history
<1>3. Phase'
  BY <1>1, Stages, ServiceAssumption
     DEF IInv, TypeOK, Phase, Complete, After, None
<1>4. Calling'
  BY <1>1 DEF Calling, Complete
<1>5. Begun' /\ Counted'
  BY DEF IInv, Begun, Counted, Accepted, Complete, history
<1>6. TakenBeforeDropped' /\ TwiceOnlyIfUnheard'
  BY DEF IInv, TakenBeforeDropped, TwiceOnlyIfUnheard, Complete, history
<1> QED BY <1>2, <1>3, <1>4, <1>5, <1>6 DEF IInv

\* Before it listens, a process that ends has no call in flight.
LEMMA Failed ==
  ASSUME IInv, pc \notin {"serve", "shutdown"} \/ calls = {}, Fatal,
         UNCHANGED <<file, held>>,
         tables' \subseteq Tables, hook' \in Configs \cup {None}
  PROVE  IInv'
<1>1. calls = {}
  BY DEF IInv, Phase
<1> QED BY <1>1, Ended DEF Fatal

LEMMA StartingStep ==
  ASSUME IInv, Starting
  PROVE  IInv'
<1> USE DEF IInv
<1>1. CASE ReadConfig
  BY <1>1, Completed, Failed DEF ReadConfig, TypeOK, Steps
<1>2. CASE RegisterProxy
  BY <1>2, Completed, Failed DEF RegisterProxy, TypeOK, Steps
<1>3. CASE OpenDatabase
  BY <1>3, Completed, Failed DEF OpenDatabase, TypeOK, Steps, Tables
<1>4. CASE LoadBot
  BY <1>4, Completed, Failed DEF LoadBot, TypeOK, Steps
<1>5. CASE StartCron
  BY <1>5, Completed DEF StartCron, Steps
<1>6. CASE Listen
  BY <1>6, Completed, Failed DEF Listen, TypeOK, Steps
<1> QED BY <1>1, <1>2, <1>3, <1>4, <1>5, <1>6 DEF Starting

\* Signals, the shutdown, crashes, systemd and the administrator.
LEMMA LifeStep ==
  ASSUME IInv, Signal \/ Shutdown \/ Crash \/ Restart \/ Reconfigure
  PROVE  IInv'
<1>1. CASE Signal /\ pc # "serve"
  BY <1>1, Ended DEF Signal, IInv, TypeOK
<1>2. CASE Crash
  BY <1>2, Ended DEF Crash, IInv, TypeOK
<1>3. CASE Shutdown
  BY <1>3, Failed DEF Shutdown, IInv, TypeOK
<1>4. CASE Signal /\ pc = "serve"
  <2>1. /\ pc' = "shutdown" /\ exits < MaxExits /\ exits' = exits + 1
        /\ UNCHANGED <<done, conf, running, calls, died, unheard, sent, begun, ended,
                       file, tables, hook, held>>
    BY <1>4 DEF Signal
  <2>2. TypeOK'
    BY <2>1, ServiceAssumption DEF IInv, TypeOK
  <2>3. Phase'
    BY <1>4, <2>1, Stages DEF IInv, Phase
  <2>4. Counted'
    BY <2>1, ServiceAssumption DEF IInv, TypeOK, Counted, Accepted
  <2> QED
    BY <2>1, <2>2, <2>3, <2>4
    DEF IInv, Calling, Begun, Accepted, TakenBeforeDropped, TwiceOnlyIfUnheard
<1>5. CASE Restart \/ Reconfigure
  <2>1. TypeOK' /\ Phase'
    BY <1>5, Stages DEF Restart, Reconfigure, IInv, TypeOK, Phase, process, history
  <2> QED
    BY <1>5, <2>1
    DEF Restart, Reconfigure, IInv, Calling, Begun, Counted, Accepted,
        TakenBeforeDropped, TwiceOnlyIfUnheard, process, history
<1> QED BY <1>1, <1>2, <1>3, <1>4, <1>5

-----------------------------------------------------------------------------
(* The webhook                                                             *)

LEMMA HappensStep ==
  ASSUME IInv, NEW u \in Updates, Happens(u)
  PROVE  IInv'
<1> USE DEF Happens, process
<1>1. TypeOK'
  BY DEF IInv, TypeOK
<1>2. Phase' /\ Calling'
  BY DEF IInv, Phase, Calling
<1>3. begun[u] = 0 /\ begun' = begun /\ exits' = exits /\ exits \in Nat
  BY ServiceAssumption DEF IInv, Begun, TypeOK
<1>4. Begun'
  BY <1>3 DEF IInv, Begun, Accepted
<1>5. Counted'
  <2> SUFFICES ASSUME NEW v \in Updates
               PROVE  begun[v] <= exits + (IF v \in unheard THEN 1 ELSE 0)
                                        + (IF v \in held' /\ ~Accepted(v) THEN 0 ELSE 1)
    BY DEF Counted, Accepted
  <2> QED BY <1>3 DEF IInv, Counted
<1>6. TakenBeforeDropped' /\ TwiceOnlyIfUnheard'
  BY DEF IInv, TakenBeforeDropped, TwiceOnlyIfUnheard
<1> QED BY <1>1, <1>2, <1>4, <1>5, <1>6 DEF IInv

LEMMA CallHookStep ==
  ASSUME IInv, NEW u \in Updates, CallHook(u)
  PROVE  IInv'
<1> DEFINE n == [upd |-> u, token |-> hook, status |-> 0]
<1>1. /\ n.upd = u /\ n.token = hook /\ n.status = 0 /\ u \in held
      /\ calls' = calls \cup {n} /\ \A c \in calls : c.upd # u
      /\ pc = "serve" /\ hook # None
      /\ UNCHANGED <<pc, done, conf, running, file, tables, hook, held, history>>
  BY DEF CallHook
<1>2. n \in Call
  BY <1>1 DEF Call, IInv, TypeOK, None
<1> HIDE DEF n
<1>3. TypeOK' /\ Phase'
  BY <1>1, <1>2 DEF IInv, TypeOK, Phase, history
<1>4. Calling'
  BY <1>1 DEF IInv, Calling
<1>5. \A v \in Updates : Accepted(v)' <=> Accepted(v)
  BY <1>1 DEF Accepted
<1> QED
  BY <1>1, <1>3, <1>4, <1>5
  DEF IInv, Begun, Counted, TakenBeforeDropped, TwiceOnlyIfUnheard, history

\* The status of a call is set; the other calls stay as they are.
LEMMA Set ==
  ASSUME IInv, NEW c \in calls, c.status = 0,
         NEW status \in {200, 400, 403}, Status(c, status)
  PROVE  /\ calls' \subseteq Call
         /\ \A d \in calls' :
              /\ \E e \in calls : d.upd = e.upd /\ d.token = e.token
              /\ d.status # 403 \/ status = 403
         /\ \A d, e \in calls' : d.upd = e.upd => d = e
         /\ \A u \in Updates :
              Accepted(u)' <=> Accepted(u) \/ (u = c.upd /\ status = 200)
<1> DEFINE n == [c EXCEPT !.status = status]
<1>1. c \in Call
  BY DEF IInv, TypeOK
<1>2. n \in Call /\ n.upd = c.upd /\ n.token = c.token /\ n.status = status
  BY <1>1 DEF Call
<1>3. calls' = (calls \ {c}) \cup {n}
  BY DEF Status
<1> HIDE DEF n
<1>4. \A d, e \in calls : d.status # 403 /\ (d.upd = e.upd => d = e)
  BY DEF IInv, Calling
<1>5. calls' \subseteq Call
  BY <1>2, <1>3 DEF IInv, TypeOK
<1> QED BY <1>2, <1>3, <1>4, <1>5 DEF Accepted

LEMMA HookHandlerStep ==
  ASSUME IInv, NEW c \in calls, HookHandler(c)
  PROVE  IInv'
<1>1. /\ c.status = 0 /\ c.upd \in Updates /\ c.upd \in held /\ c.token = conf
      /\ hook = conf
      /\ UNCHANGED <<pc, done, conf, file, tables, hook, held, sent, ended, died,
                     unheard, exits>>
  BY Stages DEF HookHandler, IInv, TypeOK, Call, Phase, Calling
<1>2. ~Accepted(c.upd)
  BY <1>1 DEF IInv, Calling, Accepted
<1>3. PICK status \in {200, 400} :
        /\ Status(c, status)
        /\ IF status = 200 THEN Go(c.upd) ELSE UNCHANGED <<begun, running>>
  BY <1>1 DEF HookHandler
<1>4. /\ calls' \subseteq Call
      /\ \A d \in calls' : /\ \E e \in calls : d.upd = e.upd /\ d.token = e.token
                            /\ d.status # 403
      /\ \A d, e \in calls' : d.upd = e.upd => d = e
      /\ \A u \in Updates :
           Accepted(u)' <=> Accepted(u) \/ (u = c.upd /\ status = 200)
  BY <1>1, <1>3, Set
<1>5. Calling' /\ Phase'
  BY <1>1, <1>4 DEF IInv, Calling, Phase
<1>6. CASE status = 400
  BY <1>1, <1>2, <1>3, <1>4, <1>5, <1>6
  DEF IInv, TypeOK, Begun, Counted, TakenBeforeDropped, TwiceOnlyIfUnheard
<1>7. CASE status = 200
  <2> DEFINE g == [upd |-> c.upd, nth |-> begun[c.upd] + 1]
  <2>1. /\ begun \in [Updates -> 0 .. 2 + MaxExits] /\ exits \in 0 .. MaxExits
        /\ exits \in Nat /\ MaxExits \in Nat
        /\ \A u \in Updates : begun[u] \in Nat
    BY ServiceAssumption DEF IInv, TypeOK
  <2>2. /\ g \in Goroutine /\ g.upd = c.upd
        /\ running' = running \cup {g}
        /\ begun' = [begun EXCEPT ![c.upd] = begun[c.upd] + 1]
    BY <1>1, <1>3, <1>7, <2>1 DEF Go, Goroutine
  <2> HIDE DEF g
  <2>3. begun[c.upd] <= exits + (IF c.upd \in unheard THEN 1 ELSE 0)
    BY <1>1, <1>2, <2>1 DEF IInv, Counted
  <2>4. Counted'
    BY <1>1, <1>4, <1>7, <2>1, <2>2, <2>3 DEF IInv, Counted
  <2>5. begun' \in [Updates -> 0 .. 2 + MaxExits]
    BY <1>1, <2>1, <2>2, <2>3
  <2>6. TypeOK'
    BY <1>1, <1>4, <2>2, <2>5 DEF IInv, TypeOK
  <2>7. begun[c.upd] > 0 => c.upd \in unheard
    BY <1>1, <1>2 DEF IInv, Begun
  <2>8. Begun'
    BY <1>1, <1>4, <1>7, <2>1, <2>2 DEF IInv, Begun
  <2>9. TakenBeforeDropped' /\ TwiceOnlyIfUnheard'
    BY <1>1, <2>1, <2>2, <2>7 DEF IInv, TakenBeforeDropped, TwiceOnlyIfUnheard
  <2> QED BY <1>5, <2>4, <2>6, <2>8, <2>9 DEF IInv
<1> QED BY <1>6, <1>7

\* Telegram hears an answer; a call that is answered is the only one for its
\* update.
LEMMA AnsweredStep ==
  ASSUME IInv, NEW c \in calls, Answered(c)
  PROVE  IInv'
<1>1. /\ c.status # 0 /\ calls' = calls \ {c} /\ c.upd \in Updates
      /\ held' = (IF c.status = 200 THEN held \ {c.upd} ELSE held)
      /\ UNCHANGED <<pc, done, conf, running, file, tables, hook, history>>
      /\ \A d \in calls : d.upd = c.upd => d = c
  BY DEF Answered, IInv, TypeOK, Call, Calling
<1>2. /\ \A u \in Updates \ {c.upd} : Accepted(u)' <=> Accepted(u)
      /\ ~Accepted(c.upd)' /\ (Accepted(c.upd) <=> c.status = 200)
  BY <1>1 DEF Accepted
<1>3. TypeOK' /\ Phase'
  BY <1>1 DEF IInv, TypeOK, Phase, history
<1>4. Calling'
  BY <1>1 DEF IInv, Calling
<1>5. Begun' /\ Counted'
  BY <1>1, <1>2 DEF IInv, Begun, Counted, history
<1>6. c.status = 200 => c.upd \in ended \cup died \cup {g.upd : g \in running}
  BY <1>1, <1>2 DEF IInv, Begun
<1>7. TakenBeforeDropped' /\ TwiceOnlyIfUnheard'
  BY <1>1, <1>6 DEF IInv, TakenBeforeDropped, TwiceOnlyIfUnheard, history
<1> QED BY <1>3, <1>4, <1>5, <1>7 DEF IInv

LEMMA AnswerLostStep ==
  ASSUME IInv, NEW c \in calls, AnswerLost(c)
  PROVE  IInv'
<1>1. /\ c.status = 200 /\ c.upd \notin unheard /\ c.upd \in Updates
      /\ calls' = calls \ {c} /\ unheard' = unheard \cup {c.upd}
      /\ UNCHANGED <<pc, done, conf, running, file, tables, hook, held, sent, begun,
                     ended, died, exits>>
      /\ \A d \in calls : d.upd = c.upd => d = c
  BY DEF AnswerLost, IInv, TypeOK, Call, Calling
<1>2. /\ \A u \in Updates \ {c.upd} : Accepted(u)' <=> Accepted(u)
      /\ ~Accepted(c.upd)' /\ Accepted(c.upd)
  BY <1>1 DEF Accepted
<1>3. TypeOK' /\ Phase' /\ Calling'
  BY <1>1 DEF IInv, TypeOK, Phase, Calling
<1>4. Begun'
  BY <1>1, <1>2 DEF IInv, Begun
<1>5. Counted'
  <2>1. \A u \in Updates : begun[u] \in Nat /\ exits \in Nat
    BY ServiceAssumption DEF IInv, TypeOK
  <2> SUFFICES ASSUME NEW u \in Updates
               PROVE  begun[u] <= exits + (IF u \in unheard' THEN 1 ELSE 0)
                                        + (IF u \in held /\ ~Accepted(u)' THEN 0 ELSE 1)
    BY <1>1 DEF Counted
  <2>2. begun[u] <= exits + (IF u \in unheard THEN 1 ELSE 0)
                          + (IF u \in held /\ ~Accepted(u) THEN 0 ELSE 1)
    BY DEF IInv, Counted
  <2> QED BY <1>1, <1>2, <2>1, <2>2
<1>6. TakenBeforeDropped' /\ TwiceOnlyIfUnheard'
  BY <1>1 DEF IInv, TakenBeforeDropped, TwiceOnlyIfUnheard
<1> QED BY <1>3, <1>4, <1>5, <1>6 DEF IInv

LEMMA FinishStep ==
  ASSUME IInv, NEW g \in running, Finish(g)
  PROVE  IInv'
<1> USE DEF Finish
<1>1. g.upd \in Updates
  BY DEF IInv, TypeOK, Goroutine
<1>2. TypeOK' /\ Phase' /\ Calling'
  BY <1>1 DEF IInv, TypeOK, Phase, Calling
<1>3. ended \cup died \cup {h.upd : h \in running}
        \subseteq ended' \cup died' \cup {h.upd : h \in running'}
  OBVIOUS
<1>4. Begun' /\ Counted'
  BY <1>3 DEF IInv, Begun, Counted, Accepted
<1>5. TakenBeforeDropped' /\ TwiceOnlyIfUnheard'
  BY <1>3 DEF IInv, TakenBeforeDropped, TwiceOnlyIfUnheard
<1> QED BY <1>2, <1>4, <1>5 DEF IInv

-----------------------------------------------------------------------------
(* Theorems                                                                *)

\* Whatever fails, dies, is reconfigured or is called again, IInv holds.
THEOREM Invariance == Spec => []IInv
<1>1. Init => IInv
  <2> SUFFICES ASSUME Init PROVE IInv
    OBVIOUS
  <2>1. TypeOK /\ Phase
    BY Stages, ServiceAssumption DEF Init, TypeOK, Phase, None
  <2> QED
    BY <2>1, ServiceAssumption
    DEF Init, IInv, Calling, Begun, Counted, Accepted, TakenBeforeDropped,
        TwiceOnlyIfUnheard
<1>2. IInv /\ [Next]_vars => IInv'
  <2> SUFFICES ASSUME IInv, [Next]_vars PROVE IInv'
    OBVIOUS
  <2>1. CASE UNCHANGED vars
    <3> USE <2>1 DEF vars, process, history
    <3>1. TypeOK' /\ Phase' /\ Calling'
      BY DEF IInv, TypeOK, Phase, Calling
    <3>2. Begun' /\ Counted' /\ TakenBeforeDropped' /\ TwiceOnlyIfUnheard'
      BY DEF IInv, Begun, Counted, Accepted, TakenBeforeDropped, TwiceOnlyIfUnheard
    <3> QED BY <3>1, <3>2 DEF IInv
  <2>2. CASE Starting \/ Signal \/ Shutdown \/ Crash \/ Restart \/ Reconfigure
    BY <2>2, StartingStep, LifeStep
  <2>3. CASE \E u \in Updates : Happens(u) \/ CallHook(u)
    BY <2>3, HappensStep, CallHookStep
  <2>4. CASE \E c \in calls : HookHandler(c) \/ Answered(c) \/ AnswerLost(c)
    BY <2>4, HookHandlerStep, AnsweredStep, AnswerLostStep
  <2>5. CASE \E g \in running : Finish(g)
    BY <2>5, FinishStep
  <2> QED BY <2>1, <2>2, <2>3, <2>4, <2>5 DEF Next
<1> QED BY <1>1, <1>2, PTL DEF Spec

\* Variables have their types, and an update is begun at most once, once more
\* for a lost answer and once for each crash or signal.
THEOREM TypeCorrectness == Spec => []TypeOK
<1>1. IInv => TypeOK
  BY DEF IInv
<1> QED BY <1>1, Invariance, PTL

\* No request meets a process without its tables and its bot, no job one
\* without its tables: the order of the steps in main is enough.
THEOREM StartedInOrder == Spec => []ReadyBeforeUse
<1>1. IInv => ReadyBeforeUse
  BY Stages DEF IInv, TypeOK, Phase, ReadyBeforeUse
<1> QED BY <1>1, Invariance, PTL

\* An update that Telegram let go was handled, is being handled, or died with
\* a process that had begun it.
THEOREM NothingDropped == Spec => []TakenBeforeDropped
<1>1. IInv => TakenBeforeDropped
  BY DEF IInv
<1> QED BY <1>1, Invariance, PTL

\* An update is handled twice only after an answer that Telegram never heard.
THEOREM OnceIfHeard == Spec => []TwiceOnlyIfUnheard
<1>1. IInv => TwiceOnlyIfUnheard
  BY DEF IInv
<1> QED BY <1>1, Invariance, PTL

\* Telegram's token is the one of the process that listens.
THEOREM TokenFits == Spec => []NoneRefused
<1>1. IInv => NoneRefused
  BY DEF IInv, Calling, NoneRefused
<1> QED BY <1>1, Invariance, PTL

=============================================================================
