SPECIFICATION BatchSpec
CONSTANTS
  EntityLimitCount = 7
  VersionModulus = 4
  MaxVersion = 1
  MaxSize = 5
  Bit29 = {FALSE}
  BatchCounts = {1, 2}
  Garbage = {0}
PROPERTY
  CreatedAlive
CHECK_DEADLOCK FALSE
