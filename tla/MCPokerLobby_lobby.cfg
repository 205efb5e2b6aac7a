SPECIFICATION Spec
CONSTANTS
  Callers = {c1, c2}
  Codes = {k1}
  Ensured = {main}
  NoCode = none
  Inputs <- OneInput
  Ops = {"create", "ensure", "join", "quick"}
  Seats = 1
  MaxListed = 1
  MaxCrowd = 2
  MaxMatch = 4
  MaxDeaths = 2
INVARIANTS AnswersAreTrue JoinersMeet
PROPERTY TablesHeal
CHECK_DEADLOCK FALSE
