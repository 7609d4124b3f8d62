CONSTANTS
  TERM_NUM = 2
  MAX_NUM_PROCESS = 3
  Executables = {shell, prog}
  TextFiles = {text}
  Absent = {}
  Shell = shell
  UserCalls = {"execute", "halt"}
  MaxDrift = 1
  PreemptNested <- UserOnly
  PreemptRoot <- LaunchOnly
SPECIFICATION Spec
INVARIANT LimitHolds
