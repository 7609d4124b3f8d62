CONSTANTS
  FILENAME_LEN = 2
  BLOCK_SIZE = 2
  WORD = 64
  direntries <- Directory
  inode_count = 12
  data_count = 72
  inode <- ImageInodes
  data_block <- ImageBlocks
  Texts <- ImageTexts
  Slots = {s0, s1}
  NUM_FD = 4
  DIR_NAME_LENGTH = 2
  Names <- OpenNames
  FdArgs <- Fds
  Sizes <- ReadSizes
  MaxDirReads = 14
  Shell = s0
  Child = s1
  ARGLEN = 6
  BUFSIZE = 6
  ShellName <- Shells
  MAGIC = "ELF"
  Lines <- CommandLines
  SBUFSIZE = 3
  LongestLine = 6
  Replies <- Typed
  CountOf <- Choices
  WrongNames <- SyserrNames
  Statuses <- Returns
  Faults <- Raised
  Softints <- Instructions
  Strays <- StrayVectors
  MaxAnyReads = 1
SPECIFICATION System
INVARIANTS TypeOK WithinFile ArgsAsTyped ShellReports ShowsAnswer SyserrPasses
PROPERTIES KeepsPromises CommandEnds
