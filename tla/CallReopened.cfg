SPECIFICATION Spec
CONSTANTS
  n1 = n1
  Number = {n1}
  From <- OneNumber
  Sid = {c1}
  Token = {t1, t2}
  Hook = {h1}
  Conn = {k1, k2}
  MaxConcurrentCalls = 2
  MaxCallsPerNumberPerMinute = 2
PROPERTIES TerminalIsFinal
