\* Grammars of up to four rules, inputs of up to five bytes.
SPECIFICATION Spec
CONSTANTS
  Jobs <- MCJobs
  Files <- MCFiles
  HashOf <- MCHashOf
  ImportPath <- MCImportPath
  MaxCalls = 3
INVARIANTS
  ReadsTheGrammarWritten
  KeptRulesAreClosed
  ParsesAsThePeg
  ReachIsHonest
PROPERTY
  ReadingGoesOn
