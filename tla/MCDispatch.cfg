SPECIFICATION Spec
CONSTANTS
  App = "app"
  Subs <- MCSubs
  Aliases <- MCAliases
  Accepts <- MCAccepts
  Clears <- MCClears
  Actions = {"app", "start", "list", "rm"}
  Broken = {"rm"}
  Version = {"-v"}
  Help = {"-h", "--help"}
  Settings <- MCSettings
  Environments <- MCEnvironments
  Texts <- MCWords
  Lines <- MCLines
  exit1 = exit1
  panic1 = panic1
  Exits = {exit1}
  Panics = {panic1}
  Nil = Nil
  MaxDepth = 3
  MaxRuns = 2
  MaxLine = 4
INVARIANTS
  TypeOK
  HooksNeedAWholeLine
  PlainLinesAreRead
  FailuresEndAsSet
  SameAnswerAgain
PROPERTIES
  OneAnswer
  Ends
