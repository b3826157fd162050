\* Two messages and an answer, each perhaps a reply to any other, every fault.
CONSTANTS
  m1 = m1
  m2 = m2
  m3 = m3
  m4 = m4
  m5 = m5
  m6 = m6
  a1 = a1
  a2 = a2
  a3 = a3
  a4 = a4
  UserMsgs = {m1, m2}
  AdminMsgs = {a1}
  Drafts <- TwoAndAnswer
  Repeated = {}
  Faults = {"db", "api", "blocked", "crash"}
  Conversations <- Together
  MaxThreads = 2
SPECIFICATION Spec
INVARIANTS ContentsTrue RepliesTrue
\* A conversation may be over.
CHECK_DEADLOCK FALSE
