SPECIFICATION FairSpec
CONSTANTS
  n1 = n1
  Number = {n1}
  From <- OneNumber
  Sid = {c1, c2}
  Token = {t1, t2}
  Hook = {h1, h2}
  Conn = {k1, k2}
  MaxConcurrentCalls = 1
  MaxCallsPerNumberPerMinute = 1
INVARIANTS TypeOK CeilingRespected RateRespected TokensSingle
PROPERTIES TerminalUnlessLate SlotsHeal
