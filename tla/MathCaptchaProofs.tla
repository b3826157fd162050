------------------------- MODULE MathCaptchaProofs -------------------------
(***************************************************************************)
(* For every set of challenges and every N: a captcha has one right button *)
(* and only that one passes.  The inductive invariant says it of a captcha *)
(* in the making: the buttons there so far bear different texts, each its  *)
(* challenge, and the value 0 exactly with the text of the answer.         *)
(***************************************************************************)
EXTENDS MathCaptcha, TLAPS, SequenceTheorems

Distinct == \A i, j \in DOMAIN buttons : buttons[i].text = buttons[j].text => i = j

Honest ==
  \A i \in DOMAIN buttons :
    /\ buttons[i].data[1] = challenge
    /\ buttons[i].data[2] = 0 <=> buttons[i].text = answer

Solvable == \E i \in DOMAIN buttons : buttons[i].text = answer

Complete == stage # "asked" => Len(buttons) = Capacity

Judged == stage \in {"passed", "failed"} =>
            /\ pressed \in 1 .. Capacity
            /\ stage = "passed" <=> CheckMath(stored, buttons[pressed].data)

IInv == TypeOK /\ Distinct /\ Honest /\ Solvable /\ Complete /\ Judged

-----------------------------------------------------------------------------

\* CheckMath compares the challenge and the value of a well-typed button.
LEMMA CheckMathMeans ==
  ASSUME NEW id \in Challenges, NEW b \in Button
  PROVE  CheckMath(id, b.data) <=> b.data[1] = id /\ b.data[2] = 0
BY DEF CheckMath, Signed, Button

\* What a sequence of buttons is made of.
LEMMA Buttons ==
  ASSUME TypeOK
  PROVE  /\ Len(buttons) \in Nat /\ DOMAIN buttons = 1 .. Len(buttons)
         /\ \A i \in 1 .. Len(buttons) : buttons[i] \in Button
<1>1. buttons \in Seq(Button)
  BY DEF TypeOK
<1>2. Len(buttons) \in Nat /\ DOMAIN buttons = 1 .. Len(buttons)
  BY <1>1
<1>3. QED
  BY <1>1, <1>2, ElementOfSeq

\* Whatever was drawn, the answer is a natural number: the operands are put in
\* order before one is subtracted from the other.
LEMMA AnswerNat ==
  ASSUME NEW add \in BOOLEAN, NEW a \in Operands, NEW b \in Operands
  PROVE  Answer(add, Ordered(a, b)) \in Nat
BY CaptchaAssumption DEF Answer, Ordered, Operands

LEMMA InitIInv == Init => IInv
<1> SUFFICES ASSUME Init PROVE IInv
  OBVIOUS
<1>1. answer \in Nat
  BY AnswerNat DEF Init
<1>2. /\ Len(buttons) = 1 /\ DOMAIN buttons = {1}
      /\ buttons[1].text = answer
      /\ buttons[1].data[1] = challenge /\ buttons[1].data[2] = 0
  BY DEF Init, Signed
<1>3. buttons \in Seq(Button)
  <2>1. [text |-> answer, data |-> Signed(challenge, 0)] \in Button
    BY <1>1, CaptchaAssumption DEF Init, Button, Signed
  <2>2. QED
    BY <2>1 DEF Init
<1>4. TypeOK
  BY <1>1, <1>2, <1>3 DEF Init, TypeOK, Capacity
<1>5. QED
  BY <1>1, <1>2, <1>4 DEF Init, IInv, Distinct, Honest, Solvable, Complete, Judged

-----------------------------------------------------------------------------

\* A turn of the loop adds a button nobody can take for the right one.
LEMMA AddButtonIInv == IInv /\ AddButton => IInv'
<1> SUFFICES ASSUME IInv, AddButton PROVE IInv'
  OBVIOUS
<1> USE DEF IInv
<1>1. PICK number \in 0 .. (answer + N - 1) :
        ~Shown(number) /\ buttons' = Append(buttons, Wrong(number))
  BY DEF AddButton
<1>2. number \in Nat /\ Wrong(number) \in Button
  BY <1>1, CaptchaAssumption DEF Wrong, Signed, Button, TypeOK
<1>3. /\ buttons' \in Seq(Button) /\ Len(buttons') = Len(buttons) + 1
      /\ DOMAIN buttons' = 1 .. (Len(buttons) + 1)
      /\ \A i \in 1 .. Len(buttons) : buttons'[i] = buttons[i]
      /\ buttons'[Len(buttons) + 1] = Wrong(number)
  BY <1>1, <1>2 DEF TypeOK
<1>4. /\ Wrong(number).text = number
      /\ Wrong(number).data[1] = challenge /\ Wrong(number).data[2] = number + 1
  BY DEF Wrong, Signed
<1>5. \A i \in 1 .. Len(buttons) : buttons[i].text # number
  BY <1>1 DEF Shown, TypeOK
<1>6. number # answer
  BY <1>5 DEF Solvable, TypeOK
<1>7. TypeOK'
  BY <1>3 DEF TypeOK, AddButton, Capacity
<1>8. Distinct'
  BY <1>3, <1>4, <1>5 DEF Distinct, TypeOK
<1>9. Honest'
  <2>1. ASSUME NEW i \in DOMAIN buttons'
        PROVE  /\ buttons'[i].data[1] = challenge
               /\ buttons'[i].data[2] = 0 <=> buttons'[i].text = answer
    <3>1. CASE i = Len(buttons) + 1
      BY <1>2, <1>3, <1>4, <1>6, <3>1
    <3>2. CASE i \in 1 .. Len(buttons)
      BY <1>3, <3>2 DEF Honest, TypeOK
    <3>3. QED
      BY <1>3, <2>1, <3>1, <3>2 DEF TypeOK
  <2>2. QED
    BY <2>1 DEF Honest, AddButton
<1>10. Solvable'
  BY <1>3 DEF Solvable, TypeOK, AddButton
<1>11. Complete' /\ Judged'
  BY DEF AddButton, Complete, Judged
<1>12. QED
  BY <1>7, <1>8, <1>9, <1>10, <1>11

\* The order of the buttons means nothing.
LEMMA ShuffleIInv == IInv /\ Shuffle => IInv'
<1> SUFFICES ASSUME IInv, Shuffle PROVE IInv'
  OBVIOUS
<1> USE DEF IInv
<1>1. PICK p \in Orders : buttons' = [i \in 1 .. Capacity |-> buttons[p[i]]]
  BY DEF Shuffle
<1>2. /\ DOMAIN buttons = 1 .. 4 /\ Len(buttons) = 4
      /\ \A i \in 1 .. 4 : buttons[i] \in Button
  BY Buttons DEF Shuffle, Capacity
<1>3. p \in [1 .. 4 -> 1 .. 4] /\ \A i, j \in 1 .. 4 : p[i] = p[j] => i = j
  BY DEF Orders, Capacity
<1>4. /\ buttons' \in Seq(Button) /\ Len(buttons') = 4 /\ DOMAIN buttons' = 1 .. 4
      /\ \A i \in 1 .. 4 : buttons'[i] = buttons[p[i]]
  BY <1>1, <1>2, <1>3 DEF Capacity
<1>5. ASSUME NEW k \in 1 .. 4 PROVE \E i \in 1 .. 4 : p[i] = k
  <2>1. /\ p[1] \in {1, 2, 3, 4} /\ p[2] \in {1, 2, 3, 4}
        /\ p[3] \in {1, 2, 3, 4} /\ p[4] \in {1, 2, 3, 4}
        /\ p[1] # p[2] /\ p[1] # p[3] /\ p[1] # p[4]
        /\ p[2] # p[3] /\ p[2] # p[4] /\ p[3] # p[4]
    BY <1>3
  <2>2. p[1] = k \/ p[2] = k \/ p[3] = k \/ p[4] = k
    BY <1>5, <2>1
  <2>3. QED
    BY <2>2
<1>6. TypeOK'
  BY <1>4 DEF TypeOK, Shuffle, Capacity
<1>7. Distinct'
  BY <1>2, <1>3, <1>4 DEF Distinct
<1>8. Honest'
  BY <1>2, <1>3, <1>4 DEF Honest, Shuffle
<1>9. Solvable'
  <2>1. PICK k \in 1 .. 4 : buttons[k].text = answer
    BY <1>2 DEF Solvable
  <2>2. PICK i \in 1 .. 4 : p[i] = k
    BY <1>5
  <2>3. QED
    BY <1>4, <2>1, <2>2 DEF Solvable, Shuffle
<1>10. Complete' /\ Judged'
  BY <1>4 DEF Shuffle, Complete, Judged, Capacity
<1>11. QED
  BY <1>6, <1>7, <1>8, <1>9, <1>10

LEMMA PressIInv == IInv /\ Press => IInv'
BY DEF IInv, Press, TypeOK, Distinct, Honest, Solvable, Complete, Judged, Capacity

LEMMA StutterIInv == IInv /\ UNCHANGED vars => IInv'
BY DEF IInv, vars, TypeOK, Distinct, Honest, Solvable, Complete, Judged

\* The inductive invariant holds of every captcha that is ever made.
THEOREM Invariance == Spec => []IInv
<1>1. IInv /\ [Next]_vars => IInv'
  BY AddButtonIInv, ShuffleIInv, PressIInv, StutterIInv DEF Next
<1>2. QED
  BY InitIInv, <1>1, PTL DEF Spec

\* NewMath never leaves the natural numbers and never makes a fifth button.
THEOREM TypeCorrectness == Spec => []TypeOK
<1>1. IInv => TypeOK
  BY DEF IInv
<1>2. QED
  BY Invariance, <1>1, PTL

\* A captcha that is shown has four buttons with different texts, and the one
\* with the answer is the only one CheckMath accepts for its challenge.
THEOREM OneRight == Spec => []OneRightButton
<1>1. IInv => OneRightButton
  <2> SUFFICES ASSUME IInv, stage # "asked" PROVE OneRightButton
    BY DEF OneRightButton
  <2>1. DOMAIN buttons = 1 .. Capacity /\ \A i \in 1 .. Capacity : buttons[i] \in Button
    BY Buttons DEF IInv, Complete, Capacity
  <2>2. challenge \in Challenges
    BY DEF IInv, TypeOK
  <2>3. \A i \in 1 .. Capacity :
          CheckMath(challenge, buttons[i].data) <=> buttons[i].text = answer
    BY <2>1, <2>2, CheckMathMeans DEF IInv, Honest
  <2>4. QED
    BY <2>1, <2>3 DEF IInv, Distinct, Solvable, OneRightButton
<1>2. QED
  BY Invariance, <1>1, PTL

\* A press passes if and only if it is the answer of the stored challenge.
THEOREM Judgement == Spec => []JudgedRight
<1>1. IInv => JudgedRight
  <2> SUFFICES ASSUME IInv, stage \in {"passed", "failed"} PROVE JudgedRight
    BY DEF JudgedRight
  <2>1. /\ pressed \in DOMAIN buttons /\ buttons[pressed] \in Button
        /\ stored \in Challenges
    BY Buttons DEF IInv, TypeOK, Complete, Judged, Capacity
  <2>2. stage = "passed" <=> CheckMath(stored, buttons[pressed].data)
    BY DEF IInv, Judged
  <2>3. QED
    BY <2>1, <2>2, CheckMathMeans DEF IInv, Honest, JudgedRight
<1>2. QED
  BY Invariance, <1>1, PTL

=============================================================================
