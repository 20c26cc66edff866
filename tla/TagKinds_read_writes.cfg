CONSTANTS
  Kinds = {"cip"}
  Entries <- MCEntries
  Fields <- MCFields
  IdRange = 8
  Faults = {"none"}
  Answers = {"good", "part", "short", "long", "odd", "refused", "dead"}
SPECIFICATION Spec
PROPERTY ReadNeverWrites
CHECK_DEADLOCK FALSE
