CONSTANTS
  Clients = {c1}
  Calls = {"read"}
  Answers = {"good", "refused"}
  Fragments = 1
  Builds = {TRUE}
  Connected = TRUE
  AutoRead = FALSE
  AutoWrite = FALSE
  Timeouts = FALSE
SPECIFICATION Spec
INVARIANTS OkMeansRead
CHECK_DEADLOCK FALSE
