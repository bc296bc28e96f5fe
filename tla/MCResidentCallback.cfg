SPECIFICATION ResidentSpec
CONSTANTS
  Machines <- AllMachines
  Options <- DefaultOptions
  Requests <- OneOrTwo
  Refusable <- OneOfEachKind
CHECK_DEADLOCK FALSE
INVARIANTS
  CallbackRestored
