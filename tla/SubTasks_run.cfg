SPECIFICATION FairSpec
CONSTANTS
  a = a
  b = b
  x = x
  y = y
  high = high
  inside = inside
  low = low
  SubTask = {a, b}
  Subject = {x, y}
  Writer = {high, inside, low}
  Observers <- ObserversXY
  Writes <- WritesXY
  Flagged = {a}
  Unguarded = {a}
  Preempting = {high}
  Inside = {inside}
  Capacity = 8
  MaxValue = 2
INVARIANTS RequestIsQueued NoUpdateLost
PROPERTIES UpdateIsSeen
CHECK_DEADLOCK FALSE
