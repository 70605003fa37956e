CONSTANTS
  t1 = t1
  t2 = t2
  a1 = a1
  a2 = a2
  None = None
  Teleporters = {t1, t2}
  Targets = {a1, a2}
  Calls <- MCCalls
  MAX_VERSION_INCREMENT = 2
  MaxVersion = 4
  MaxNonce = 3
SPECIFICATION Spec
INVARIANTS TypeOK MappingsAgree VersionsNotExhausted AnswersHeard AsDecided
PROPERTIES CutOff
CHECK_DEADLOCK FALSE
