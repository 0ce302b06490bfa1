SPECIFICATION Spec
CONSTANTS
  Opts = {"f", "n"}
  Args = {"A", "B"}
  Kind <- MCKind
  Multi = {"ints", "strings"}
  Default <- MCDefault
  Flagged = {"f", "n", "A"}
  Converts <- MCConverts
  Numeric = {"int", "ints"}
  ParseLimit <- MCLimit
  IntLimit <- MCLimit
  Texts <- MCTexts
  Trimmed <- MCTrimmed
  Environments <- MCEnvironments
  Contexts <- MCContexts
  Later <- MCLater
  MaxRuns = 2
INVARIANTS
  TypeOK
  LineThenEnvironmentThenDefault
  EnvironmentFlagIsTrue
  ByUserIsTrue
  AtMostOneBroken
