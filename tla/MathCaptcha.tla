---------------------------- MODULE MathCaptcha ----------------------------
(***************************************************************************)
(* services/captcha/math.go and captchaMath of services/bots/captcha.go: a *)
(* sum or a difference of two random numbers, and four buttons that carry  *)
(* the MAC of the challenge and of a value.  The value of the right button *)
(* is 0, that of a wrong one is its number plus one.                       *)
(*                                                                         *)
(* The MAC is abstracted to the pair it signs (nobody forges one, no two   *)
(* pairs collide) and the decimal text of a number to the number.          *)
(*                                                                         *)
(* TopicBot rests on this module: an answer there is a challenge and       *)
(* whether the right button was pressed, and passes if the button is right *)
(* and the row still holds that challenge (JudgedRight).                   *)
(***************************************************************************)
EXTENDS Integers, Sequences

CONSTANTS Challenges,  \* what rand.Crypto.Uint64 may draw
          N            \* both operands lie below N; 100 in the code

ASSUME CaptchaAssumption == Challenges \subseteq Nat /\ N \in Nat /\ N >= 4

VARIABLES challenge,  \* ChallangeId when the captcha is made
          answer,
          buttons,
          stage,      \* where the captcha is in its life
          pressed,    \* the button the user pressed, 0 if none
          stored      \* ChallangeId of the row by then

vars == <<challenge, answer, buttons, stage, pressed, stored>>

Capacity == 4
Operands == 0 .. (N - 1)

\* generateMathCallbackData
Signed(id, value) == <<id, value>>

Button == [text: Int, data: Challenges \X Nat]

TypeOK ==
  /\ challenge \in Challenges /\ stored \in Challenges
  /\ answer \in Nat
  /\ buttons \in Seq(Button) /\ Len(buttons) <= Capacity
  /\ stage \in {"asked", "shown", "passed", "failed"}
  /\ pressed \in 0 .. Capacity

-----------------------------------------------------------------------------
(* NewMath                                                                 *)

\* Mutant: the operands stay as they were drawn.
Unordered(a, b) == <<a, b>>

Ordered(a, b) == IF a < b THEN <<b, a>> ELSE <<a, b>>

Answer(add, pair) == IF add THEN pair[1] + pair[2] ELSE pair[1] - pair[2]

Init ==
  /\ challenge \in Challenges /\ stored = challenge
  /\ \E add \in BOOLEAN, a, b \in Operands : answer = Answer(add, Ordered(a, b))
  /\ buttons = <<[text |-> answer, data |-> Signed(challenge, 0)]>>
  /\ stage = "asked" /\ pressed = 0

\* Mutant: any text will do.
NeverShown(text) == FALSE

Shown(text) == \E i \in DOMAIN buttons : buttons[i].text = text

\* Mutant: the value of a wrong button is its number.
Plain(number) == [text |-> number, data |-> Signed(challenge, number)]

Wrong(number) == [text |-> number, data |-> Signed(challenge, number + 1)]

\* One turn of the loop that adds a button; a turn that draws a number which
\* is there already changes nothing.
AddButton ==
  /\ stage = "asked" /\ Len(buttons) < Capacity
  /\ \E number \in 0 .. (answer + N - 1) :
       ~Shown(number) /\ buttons' = Append(buttons, Wrong(number))
  /\ UNCHANGED <<challenge, answer, stage, pressed, stored>>

Orders == {p \in [1 .. Capacity -> 1 .. Capacity] :
             \A i, j \in 1 .. Capacity : p[i] = p[j] => i = j}

Shuffle ==
  /\ stage = "asked" /\ Len(buttons) = Capacity
  /\ \E p \in Orders : buttons' = [i \in 1 .. Capacity |-> buttons[p[i]]]
  /\ stage' = "shown"
  /\ UNCHANGED <<challenge, answer, pressed, stored>>

-----------------------------------------------------------------------------

CheckMath(id, data) == data = Signed(id, 0)

\* handleUserVerification: by now the row may hold another challenge.
Press ==
  /\ stage = "shown"
  /\ stored' \in Challenges /\ pressed' \in 1 .. Capacity
  /\ stage' = IF CheckMath(stored', buttons[pressed'].data) THEN "passed"
                                                           ELSE "failed"
  /\ UNCHANGED <<challenge, answer, buttons>>

Next == AddButton \/ Shuffle \/ Press

Spec == Init /\ [][Next]_vars

\* rand.Crypto draws a number that is not there yet at some time.
FairSpec == Spec /\ WF_vars(AddButton) /\ WF_vars(Shuffle)

-----------------------------------------------------------------------------
(* Properties                                                              *)

\* The user can solve every captcha and see how: the texts of the four
\* buttons differ, one of them is the answer, and this one alone passes.
OneRightButton ==
  stage # "asked" =>
    /\ \A i, j \in 1 .. Capacity : buttons[i].text = buttons[j].text => i = j
    /\ \E i \in 1 .. Capacity : buttons[i].text = answer
    /\ \A i \in 1 .. Capacity :
         CheckMath(challenge, buttons[i].data) <=> buttons[i].text = answer

\* A press passes exactly if it names the answer of the challenge the row
\* holds at that time: neither a wrong number nor an old captcha passes.
JudgedRight ==
  stage \in {"passed", "failed"} =>
    (stage = "passed" <=> stored = challenge /\ buttons[pressed].text = answer)

\* The loop that adds buttons ends: there are enough numbers below answer + N
\* that are not there yet, whatever the operands.
Finishes == <>(stage = "shown")

=============================================================================
