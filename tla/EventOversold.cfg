SPECIFICATION Spec
CONSTANTS
  e1 = e1
  u1 = u1
  u2 = u2
  r1 = r1
  r2 = r2
  i1 = i1
  Events = {e1}
  Users = {u1, u2}
  Requests = {r1, r2}
  Imports = {i1}
  Capacities <- JustOne
  NoEvent = NoEvent
  NoOne = NoOne
  MaxCreated = 0
INVARIANTS
  NeverOversold
