\* Three parameters of one or two bytes, groups that exceed one or three bytes,
\* two buffers; two ranks of one engine, whose second one's failure goes unseen.
CONSTANTS
  NParams = 3
  Sizes = {1, 2}
  Trainers = {t0}
  Source = t0
  Ranks = {r0, r1}
  First = {r0}
  Targets = {1, 3}
  NumBuffers = 2
  MaxRefits = 2
  MaxFaults = 1
  t0 = t0
  r0 = r0
  r1 = r1
SPECIFICATION Spec
INVARIANTS
  GroupsAgree
  TailBounded
PROPERTY
  BroadcastsEnd
CHECK_DEADLOCK FALSE
