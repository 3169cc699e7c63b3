SPECIFICATION FairSpec
CONSTANTS
  e1 = e1
  u1 = u1
  r1 = r1
  r2 = r2
  i1 = i1
  i2 = i2
  e2 = e2
  Events = {e1, e2}
  Users = {u1}
  Requests = {r1, r2}
  Imports = {i1, i2}
  Capacities <- JustOne
  NoEvent = NoEvent
  NoOne = NoOne
  MaxCreated = 1
INVARIANTS
  TypeOK
  PlacesAreConserved
  DoublesNeedRaces
PROPERTIES
  ImplementsBoxOffice
  RegistrationIsAnswered
