SPECIFICATION Spec
CONSTANTS
  FIN_TIME = 5
  ARRIVE_MIN = 1
  ARRIVE_MAX = 1
  QUIT_PROB = 40
  CPU_MIN = 0
  CPU_MAX = 1
  DISK_MIN = 1
  DISK_MAX = 2
  Addresses <- MCAddresses
  NULL = NULL
  Wild = Wild
INVARIANT MaximumIsLongest
CHECK_DEADLOCK FALSE
