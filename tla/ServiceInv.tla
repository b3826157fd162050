----------------------------- MODULE ServiceInv ------------------------------
(***************************************************************************)
(* The inductive invariant behind the safety properties of Service.        *)
(***************************************************************************)
EXTENDS Service

\* What main has completed when it is at a step.
Before ==
  [off |-> {}, config |-> {}, proxy |-> {"config"},
   database |-> {"config", "proxy"}, bot |-> {"config", "proxy", "database"},
   cron |-> Steps \ {"cron", "listen"}, listen |-> Steps \ {"listen"},
   serve |-> Steps, shutdown |-> Steps]

\* A process has what its steps set up, and the webhook is its own from the
\* moment it is loaded.
Phase ==
  /\ done = Before[pc]
  /\ conf = None <=> pc \in {"off", "config"}
  /\ "database" \in done => tables = Tables
  /\ "bot" \in done => hook = conf
  /\ calls # {} \/ running # {} => pc \in {"serve", "shutdown"}

\* Telegram calls for what it holds, once at a time, with the token it has,
\* which is therefore never the wrong one.
Calling ==
  /\ \A c \in calls : c.upd \in held /\ c.token = hook /\ c.status # 403
  /\ \A c, d \in calls : c.upd = d.upd => c = d

\* The answer that takes an update off Telegram's hands is under way.
Accepted(u) == \E c \in calls : c.upd = u /\ c.status = 200

\* An update whose answer is under way was begun, and what was begun before
\* its call is answered will be begun again only because nobody heard.
Begun ==
  /\ held \subseteq sent
  /\ \A u \in Updates \ sent : begun[u] = 0
  /\ \A u \in Updates :
       /\ Accepted(u) => u \in ended \cup died \cup {g.upd : g \in running}
       /\ begun[u] > 0 /\ u \in held => u \in unheard \/ Accepted(u)

\* How often an update can have been begun: a process that died and an answer
\* that was lost each cost one more.
Counted ==
  \A u \in Updates :
    begun[u] <= exits + (IF u \in unheard THEN 1 ELSE 0)
                      + (IF u \in held /\ ~Accepted(u) THEN 0 ELSE 1)

\* The inductive invariant.  It implies ReadyBeforeUse and NoneRefused.
IInv ==
  /\ TypeOK /\ Phase /\ Calling /\ Begun /\ Counted
  /\ TakenBeforeDropped /\ TwiceOnlyIfUnheard

=============================================================================
