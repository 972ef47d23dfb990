SPECIFICATION Spec
CONSTANTS
  main = main
  worker = worker
  remote = remote
  NoSuspendModes = {FALSE}
  HookCount = 2
  ToolThreads = {main, worker}
  MainThread = main
  RemoteThread = remote
  Nobody = Nobody
  ExitCodes = {0, 3, 259}
  ModuleHandles = {0, 64}
INVARIANTS
  ResumedOnlyAfterHooks
