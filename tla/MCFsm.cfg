SPECIFICATION Spec
CONSTANTS
  ShortNames <- MCShortNames
  LongNames <- MCLongNames
  Bools <- MCBools
  Positional = "positional"
  Built <- MCBuilt
  Specs <- ManySpecs
  SpecsWithEnv <- EnvSpecs
  Arguments <- AllArguments
  Lines <- MCLines
  MaxArgs = 3
  OtherSpecs <- AllSpecs
  FewArguments <- MCFewArguments
  MaxFewArgs = 2
  MaxTokens = 5
  MaxFrames = 20
  MaxWord = 3
INVARIANTS
  TypeOK
  FindsAReading
  MeansWhatItSays
  InventsNothing
  RespectsOrder
  GroupsAreChoices
  EnvironmentOnlyHelps
PROPERTIES
  Answers
