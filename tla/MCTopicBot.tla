----------------------------- MODULE MCTopicBot -----------------------------
(* Small instances of TopicBot for TLC.                                    *)
EXTENDS TopicBotPolicy, TLC

\* What shouldSendCaptcha may answer: always TRUE for a plain new account,
\* never for an old user id, and either over time for an account that gains
\* and loses premium or a second username.
AlwaysScreened == [u \in Users |-> {TRUE}]
NeverScreened == [u \in Users |-> {FALSE}]
SometimesScreened == [u \in Users |-> BOOLEAN]

Symmetry == Permutations(Users) \cup Permutations(Goroutines)

=============================================================================
