SPECIFICATION Spec
CONSTANTS
  MaxTokens = 4
  MaxWord = 2
  Alphabet <- OptionSets
  Built <- MCBuilt
INVARIANTS
  NeverCrashes
