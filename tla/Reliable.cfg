\* A user screened at some times; no fault but threads deleted by hand: what
\* is left behind, and what ends.
CONSTANTS
  u1 = u1
  g1 = g1
  g2 = g2
  Users = {u1}
  NoUser = NoUser
  Goroutines = {g1, g2}
  Nobody = Nobody
  m1 = m1
  a1 = a1
  Keys = {m1, a1}
  UserMsgs = {m1}
  TopicMsgs = {a1}
  NoKey = NoKey
  Protected = {}
  Screening <- SometimesScreened
  Challenges = {1}
  CaptchaDuration = 1
  Faults = {}
  MaxTime = 1
  MaxThreads = 3
  MaxRows = 3
SPECIFICATION FairSpec
INVARIANT NoOrphanLinks
PROPERTIES LockReleased Healing
