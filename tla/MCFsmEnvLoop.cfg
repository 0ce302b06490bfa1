SPECIFICATION Spec
CONSTANTS
  ShortNames <- MCShortNames
  LongNames <- MCLongNames
  Bools <- MCBools
  Positional = "positional"
  Built <- MCBuilt
  Specs <- NoSpecs
  SpecsWithEnv <- RepeatedOption
  Arguments <- OneArgument
  Lines <- MCLines
  MaxArgs = 1
  OtherSpecs <- NoSpecs
  FewArguments <- MCFewArguments
  MaxFewArgs = 2
  MaxTokens = 0
  MaxFrames = 20
  MaxWord = 3
INVARIANTS
  NeverOverflows
