SPECIFICATION FairSpec
CONSTANTS
  Session = {s1, s2}
  Code = {c1, c2}
  Wrong = Wrong
  NoCode = NoCode
  Password = {w1}
  NoPassword = NoPassword
  Stated = Stated
  Phone = {t1}
  Unknown = Unknown
  NoRow = NoRow
  MaxAttempts = 2
  CodeTTL = 2
  WindowTTL = 3
  MaxFaults = 1
INVARIANTS
  TypeOK
  UsedIsGone
  TriesBounded
  EditsKept
PROPERTIES
  LockEnds
