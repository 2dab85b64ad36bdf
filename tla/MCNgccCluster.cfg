CONSTANTS
  core = core
  common = common
  forms = forms
  Tasks <- MCTasks
  Needs <- MCNeeds
  Worker <- MCWorker
  Setting <- MCSettings
CHECK_DEADLOCK FALSE
SPECIFICATION FairSpec
INVARIANTS EachTaskInOnePlace DependenciesCompiled SkippedIffDependencyFailed ProcessedIsWritten
PROPERTIES RunEnds
