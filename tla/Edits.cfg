\* A message of each side and every kind of content, edits included, updates in
\* any order, some of the user's perhaps twice, every fault, a thread removed by
\* hand.
CONSTANTS
  m1 = m1
  m2 = m2
  m3 = m3
  m4 = m4
  m5 = m5
  m6 = m6
  a1 = a1
  a2 = a2
  a3 = a3
  a4 = a4
  UserMsgs = {m1, m2, m3, m4, m5, m6}
  AdminMsgs = {a1, a2, a3, a4}
  Drafts <- EveryKind
  Repeated = {m3, m6}
  Faults = {"db", "api", "blocked", "crash"}
  Conversations <- Several
  MaxThreads = 2
SPECIFICATION Spec
INVARIANTS IInv TypeOK LinksTrue EditsExplained NobodyIgnored
\* A conversation may be over.
CHECK_DEADLOCK FALSE
