CONSTANTS
  None = None
  MaxRules = 2
  MaxDots = 2
  Execute <- MCExecute
  Programs <- MCPrograms
  Engines <- MCEngines
  Queries <- MCQueries
SPECIFICATION Spec
INVARIANTS
  TypeOK
  FirstMatchWins
  SpellingIsIrrelevant
  FailingRulesAreTransparent
  SubdomainsStayBlocked
PROPERTY
  EveryQueryIsJudged
