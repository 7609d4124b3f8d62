CONSTANTS
  TERM_NUM = 3
  MAX_NUM_PROCESS = 3
  Executables = {shell}
  TextFiles = {}
  Absent = {}
  Shell = shell
  UserCalls = {"execute", "halt", "read", "getargs", "alt"}
  MaxDrift = 0
  PreemptNested <- UserOnly
  PreemptRoot <- LaunchOnly
SPECIFICATION FairSpec
PROPERTIES RoundRobin ShellRelaunched
