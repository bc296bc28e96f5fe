SPECIFICATION ResidentSpec
CONSTANTS
  Machines <- FullMachine
  Options <- WithoutOpl
  Requests <- OneOrTwo
  Refusable <- OneOfEachKind
CHECK_DEADLOCK FALSE
INVARIANTS
  OplAsAsked
