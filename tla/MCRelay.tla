------------------------------- MODULE MCRelay -------------------------------
(* Conversations for TLC.                                                  *)
EXTENDS RelayInv, TLC

CONSTANTS m1, m2, m3, m4, m5, m6, a1, a2, a3, a4

\* m1 stays as it is, m2 is edited twice and gets a photo with the second edit,
\* m3 gets a photo at once, m4 buttons; m5 is an announcement, m6 a poll.  a1
\* stays as it is, a2 gets another photo, a3 has buttons at first, a4 is a poll.
EveryKind ==
  (m1 :> <<"text">>) @@ (m2 :> <<"text", "text", "media">>)
  @@ (m3 :> <<"text", "media">>) @@ (m4 :> <<"text", "ignored">>)
  @@ (m5 :> <<"service">>) @@ (m6 :> <<"unsupported">>)
  @@ (a1 :> <<"media">>) @@ (a2 :> <<"media", "media">>)
  @@ (a3 :> <<"ignored", "media">>) @@ (a4 :> <<"unsupported">>)

\* A message of each side; two of the administrators; two that are not relayed.
Several == {{m2, a2}, {m3, a1}, {m4, a1}, {m2, a3}, {m2, a4}, {m1, a1, a2}, {m5, m6}}

\* Two messages of the user, one of them a voice message, and an answer that
\* is edited.
TwoAndAnswer == (m1 :> <<"text">>) @@ (m2 :> <<"voice">>)
                @@ (a1 :> <<"media", "media">>)

Together == {{m1, m2, a1}}

=============================================================================
