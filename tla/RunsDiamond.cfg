SPECIFICATION Spec
CONSTANTS
  Runs = {1, 2}
  Ops = {1, 2, 3, 4}
  Deps <- DiamondDeps
  WaitOps = {1, 4}
  BatchSize = 2
  Worker = worker
  Resumers = {u}
  None = none
INVARIANT TypeOK
INVARIANT DependenciesFirst
INVARIANT ExecutedOnce
INVARIANT SuccessIsComplete
INVARIANT WaitingIsResumable
PROPERTY TerminalRunsFinal
PROPERTY TerminalOpRunsFinal
PROPERTY CancelNotOverruled
