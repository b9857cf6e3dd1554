\* Three descriptors, and writes the host may refuse.
CONSTANTS
 MaxOpens=3
 RingRoom=1
 RefusesWrites=TRUE
SPECIFICATION FilesSpec
INVARIANT NoRecordThrows
CHECK_DEADLOCK FALSE
