\* An album of three messages, of any kind, that arrive in any order.
CONSTANT Msgs <- Album3
SPECIFICATION FairSpec
INVARIANTS IInv TypeOK AtMostOnce LinksPaired
PROPERTIES LeaderAwakes InTimeSettled
