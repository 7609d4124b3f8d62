CONSTANTS
  TERM_NUM = 2
  MAX_NUM_PROCESS = 3
  Executables = {shell, prog}
  TextFiles = {text}
  Absent = {none}
  Shell = shell
  UserCalls = {"execute", "halt", "read"}
  MaxDrift = 1
  PreemptNested <- SafeNested
  PreemptRoot <- SafeRoot
SPECIFICATION Spec
CONSTRAINT SlotFound
INVARIANTS TypeOK ImageAsAsked UserContext TrapStackFree CounterAgrees NoFault ProcessForest
PROPERTIES KeepsJobs
