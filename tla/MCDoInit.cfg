SPECIFICATION Spec
CONSTANTS
  Characters <- MCCharacters
  Upper = {"A", "B"}
  Lower = {"a"}
  Digits = {"1"}
  Space = " "
  Tab <- MCTab
  OptionsWord <- MCWord
  Programs <- MCPrograms
  MaxRuns = 2
  MaxWord = 4
  MaxSpec = 3
  MaxDecls = 3
INVARIANTS
  CutsIntoLexemes
  ErrorAtFirstBadCharacter
  DefaultSpecMeans
  BindsThisRun
PROPERTIES
  Ends
