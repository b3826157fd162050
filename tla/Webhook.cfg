\* Two updates, two configurations, two crashes or signals, one answer of each
\* update lost, any number of starts that fail.
CONSTANTS
  u1 = u1
  u2 = u2
  Updates = {u1, u2}
  Configs = {1, 2}
  MaxExits = 2
INIT Init
NEXT Next
INVARIANTS IInv TypeOK ReadyBeforeUse TakenBeforeDropped TwiceOnlyIfUnheard NoneRefused
