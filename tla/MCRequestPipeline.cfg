SPECIFICATION Spec
CONSTANTS
  DefaultLimit = 2
  MaxLimit = 3
  ShownRows = 2
  Retries = 1
  Held <- HeldLists
  Situations <- SomeSituations
  InitialRows <- FirstRows
  LaterRows <- NewRows
  InitialClosed <- ClosedLoans
INVARIANTS AnswersAreCurrent PagesShowTheLatest ErrorsExplained TraceKept
PROPERTY EveryRequestAnswered
CHECK_DEADLOCK FALSE
