CONSTANTS
  TERM_NUM = 2
  MAX_NUM_PROCESS = 3
  Executables = {shell, prog}
  TextFiles = {}
  Absent = {}
  Shell = shell
  UserCalls = {"execute", "halt", "getargs"}
  MaxDrift = 0
  PreemptNested <- UserOnly
  PreemptRoot <- LaunchOnly
SPECIFICATION Spec
INVARIANT ArgsOwn
