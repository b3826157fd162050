\* One user who is always screened, every fault, the clock and the cron jobs.
CONSTANTS
  u1 = u1
  g1 = g1
  g2 = g2
  Users = {u1}
  NoUser = NoUser
  Goroutines = {g1, g2}
  Nobody = Nobody
  m1 = m1
  a1 = a1
  Keys = {m1, a1}
  UserMsgs = {m1}
  TopicMsgs = {a1}
  NoKey = NoKey
  Protected = {}
  Screening <- AlwaysScreened
  Challenges = {0, 1, 2}
  CaptchaDuration = 1
  Faults = {"db", "api", "crash"}
  MaxTime = 3
  MaxThreads = 2
  MaxRows = 2
SYMMETRY Symmetry
SPECIFICATION Spec
INVARIANTS PolicyInv ScreenedUntilVerified OneAnswerPerChallenge
PROPERTIES SpentIsFinal BanSticks PolicyObeyed
