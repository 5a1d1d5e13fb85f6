CONSTANTS
  Calls = {c1, c2}
  NoCall = NoCall
  MaxTime = 2
  MaxSteps = 2
  Filters = {0, 2}
  Effects = {"home"}
SPECIFICATION Spec
SYMMETRY Symmetry
INVARIANTS PublishedHasPrice TimesOrdered NoStepTwice DoneStaysPublic ListFitsFilters
