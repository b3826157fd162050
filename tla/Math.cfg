\* Every captcha with operands below 4 (the least N with which the loop ends).
CONSTANTS
  Challenges = {0, 1}
  N = 4
SPECIFICATION FairSpec
INVARIANTS TypeOK OneRightButton JudgedRight
PROPERTY Finishes
\* A captcha that was answered is done with.
CHECK_DEADLOCK FALSE
