\* One update, two configurations, two crashes or signals, its answer lost
\* once, any number of starts that fail.
CONSTANTS
  u1 = u1
  u2 = u2
  Updates = {u1}
  Configs = {1, 2}
  MaxExits = 2
SPECIFICATION Spec
PROPERTY EachTaken
