\* What becomes of the kinds of albums.
CONSTANT Msgs <- Album2
SPECIFICATION FairSpec
INVARIANT NeverMalformed
