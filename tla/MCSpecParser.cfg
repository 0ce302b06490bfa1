SPECIFICATION Writing
CONSTANTS
  MaxTokens = 5
  MaxMatchers = 3
  Alphabet <- AllTokens
  Args <- MCArgs
  Options <- MCOptions
INVARIANTS
  AcceptsGrammar
  BuildsMeaning
  ErrorAtFirstBadToken
