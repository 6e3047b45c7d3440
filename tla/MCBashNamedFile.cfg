SPECIFICATION Spec
CONSTANTS
  Commands = {c1}
  ShowLimit = 1
  CommandLimit = 2
  SpoolLimit = 3
  PipeCapacity = 2
  Timed = {c1}
  NoFile = NoFile
INVARIANTS NamedFileExists
CHECK_DEADLOCK FALSE
