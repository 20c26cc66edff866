CONSTANTS
  Kinds = {"raw", "listing", "udt", "lgx", "plc5", "plc5_bit", "slc_bit", "plc5_dhp", "plc5_dhp_bit", "slc_dhp_bit", "cip", "cip_bit", "omron", "omron_bit", "omron_raw"}
  Entries <- MCEntries
  Fields <- MCFields
  IdRange = 8
  Faults = {"none", "nomem", "capacity", "large", "add", "buffer"}
  Answers = {"good", "part", "short", "long", "odd", "refused", "dead"}
  Callers = {a1, a2}
  Caller = a1
  TicklerThread = tk
  None = None
  e1 = e1
  e2 = e2
SPECIFICATION TagsSpec
INVARIANTS OneRequest ToldInOrder NoDeadlock
PROPERTIES ReadsWhole OtherBitsKept
CHECK_DEADLOCK FALSE
