SPECIFICATION Spec
CONSTANTS
  Runs = {1}
  Ops = {1, 2, 3}
  Deps <- JoinDeps
  WaitOps = {1, 2}
  BatchSize = 1
  Worker = worker
  Resumers = {u, v}
  None = none
INVARIANT DependenciesFirst
PROPERTY TerminalOpRunsFinal
PROPERTY CancelNotOverruled
