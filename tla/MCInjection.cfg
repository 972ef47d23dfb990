SPECIFICATION Spec
CONSTANTS
  main = main
  worker = worker
  remote = remote
  NoSuspendModes = {FALSE, TRUE}
  HookCount = 2
  ToolThreads = {main, worker}
  MainThread = main
  RemoteThread = remote
  Nobody = Nobody
  ExitCodes = {0, 3, 259}
  ModuleHandles = {0, 64}
INVARIANTS
  TypeOK
  ToolNotLeftBehind
  PathFreedInTime
  OriginalsReachNative
  LogReady
  NeverHalfInstalled
  ExitCodeReported
PROPERTIES
  ToolNotInterrupted
  InjectionSettles
  ToolExitNoticed
