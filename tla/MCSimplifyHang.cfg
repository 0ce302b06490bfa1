SPECIFICATION Spec
CONSTANTS
  MaxTokens = 7
  MaxWord = 2
  Alphabet <- Optionals
  Built <- MCBuilt
PROPERTIES
  Terminates
