SPECIFICATION Spec
CONSTANTS
  MaxTokens = 5
  MaxWord = 3
  Alphabet <- Elements
  Built <- MCBuilt
INVARIANTS
  LeftClean
  KeepsLanguage
PROPERTIES
  Terminates
