----------------------------- MODULE InjectionProofs -----------------------------
(***************************************************************************)
(* Proofs about Injection, for any number of hooks and threads of the tool *)
(* and whatever the tool exits with.                                       *)
(***************************************************************************)
EXTENDS Injection, TLAPS

-------------------------------------------------------------------------------
(* What the steps of each party leave alone.                                 *)

\* A thread moves when it does anything but end the process.
ThreadStep(t) ==
  \/ StartThread(t)
  \/ CallCreateFile(t) \/ CheckOriginal(t) \/ ReturnRefused(t)
  \/ ComposeLine(t) \/ LockLog(t) \/ WriteLog(t) \/ CallOriginalCreateFile(t)
  \/ CallHooked(t) \/ InvokeOriginal(t) \/ Recurse(t) \/ ReturnFromHook(t)

\* Every step is one of the launcher, of the remote thread or of the tool.
LEMMA StepCases ==
  ASSUME [Next]_vars
  PROVE  \/ UNCHANGED vars
         \/ LauncherStep
         \/ RemoteStep
         \/ \E t \in ToolThreads : ThreadStep(t)
         \/ \E t \in ToolThreads : Exit(t) \/ FailAssert(t)
         \/ Detach
BY DEF Next, ToolStep, ThreadStep, Finished

\* The launcher touches the tool from outside only: it creates, resumes or ends
\* it, and has a thread started in it.
LEMMA LauncherFrame ==
  ASSUME LauncherStep
  PROVE  /\ UNCHANGED <<no_suspend_mode, log_returns, remote_exit_code, hook_index, dll_loaded,
                        hookVars, logVars>>
         /\ launcher' # launcher
         /\ threads' = threads \/ Kill
         /\ remote_thread' = remote_thread \/ CreateRemoteThread
         /\ tool' = tool \/ CreateProcess \/ Kill \/ Resume
         /\ tool_exit_code' = tool_exit_code \/ Kill
BY DEF LauncherStep, Unusable, CreateProcessFails, CreateProcess, VirtualAlloc, WriteMemory,
   CreateRemoteThread, InjectCallFails, RemoteThreadWaited, Kill, Resume, ToolWaited,
   LauncherReturns, processVars, remoteVars

\* The remote thread leaves the launcher, the process and its other threads alone.
LEMMA RemoteFrame ==
  ASSUME RemoteStep
  PROVE  UNCHANGED <<launcherVars, processVars>> /\ remote_thread \notin {"none", "ended"}
BY DEF RemoteStep, LoadLibraryFails, LoadLibrary, NameSession, OpenLog, OpenLogFails,
   RemoteLocksLog, LogLoaded, AttachCreateFile, InstallFails, StoreOriginalCreateFile,
   LogInstalled, AttachHook, HookDoesNotApply, StoreTrampoline, InstallFinishes, LogOutcome,
   LineOf, RemoteWrites

\* A thread of the tool that goes on moves only itself, and may take or release
\* the mutex.
LEMMA ThreadFrame ==
  ASSUME NEW t \in ToolThreads, ThreadStep(t)
  PROVE  /\ UNCHANGED <<launcherVars, tool, tool_exit_code, remoteVars, hookVars,
                        g_session_named, g_log_open>>
         /\ tool = "running"
         /\ \E to : threads' = [threads EXCEPT ![t] = to]
BY DEF ThreadStep, StartThread, CallCreateFile, CheckOriginal, ReturnRefused, ComposeLine, LockLog,
   WriteLog, CallOriginalCreateFile, CallHooked, InvokeOriginal, Recurse, ReturnFromHook,
   ThreadGoes, ThreadLogs, ThreadMoves

-------------------------------------------------------------------------------
(* Type correctness.                                                         *)

\* A launcher that has not started yet has its types.
LEMMA InitTypeOK == Init => TypeOK
<1> SUFFICES ASSUME Init PROVE TypeOK
  OBVIOUS
<1>1. /\ no_suspend_mode \in BOOLEAN
      /\ launcher \in LauncherSteps
      /\ exit_code \in Codes /\ tool_exit_code \in Codes
      /\ remote_buffer \in BOOLEAN
      /\ tool = "none"
      /\ remote_exit_code \in {NoCode}
      /\ remote_thread \in RemoteSteps /\ remote_thread # "store_hook"
  BY InjectionAssumption DEF Init, LauncherSteps, Codes, RemoteSteps
<1>2. threads \in [ToolThreads -> ThreadSteps]
  BY DEF Init, ThreadSteps
<1>3. log_returns \in [ToolThreads -> {"outside", "hooked", "call_original"}]
  BY DEF Init
<1>4. hook_index \in 1 .. HookCount + 1
  BY InjectionAssumption DEF Init
<1>5. /\ attached \in [Hooks -> BOOLEAN]
      /\ m_orig \in [Hooks -> {"target", "trampoline"}]
      /\ g_log_mutex = Nobody
  BY DEF Init
<1>6. {dll_loaded, create_file_attached, original_create_file_set, g_session_named,
       g_log_open} \subseteq BOOLEAN
  BY DEF Init
<1> QED BY <1>1, <1>2, <1>3, <1>4, <1>5, <1>6 DEF TypeOK

\* The launcher returns a code of its own or that of the tool.
LEMMA LauncherTypeOK == TypeOK /\ LauncherStep => TypeOK'
<1> SUFFICES ASSUME TypeOK, LauncherStep PROVE TypeOK'
  OBVIOUS
<1>1. UNCHANGED <<no_suspend_mode, log_returns, remote_exit_code, hook_index, dll_loaded,
                  hookVars, logVars>>
  BY LauncherFrame
<1>2. /\ launcher' \in LauncherSteps
      /\ exit_code' \in Codes
      /\ remote_buffer' \in BOOLEAN
  BY DEF LauncherStep, Unusable, CreateProcessFails, CreateProcess, VirtualAlloc, WriteMemory,
     CreateRemoteThread, InjectCallFails, RemoteThreadWaited, Kill, Resume, ToolWaited,
     LauncherReturns, TypeOK, LauncherSteps, Codes
<1>3. /\ tool' \in {"none", "suspended", "running", "exiting", "exited", "aborted",
                 "terminated"}
      /\ tool_exit_code' \in Codes
      /\ threads' \in [ToolThreads -> ThreadSteps]
  BY LauncherFrame DEF Kill, CreateProcess, Resume, TypeOK, Codes, ThreadSteps
<1>4. remote_thread' \in RemoteSteps /\ (remote_thread' = "store_hook" => hook_index' \in Hooks)
  BY <1>1, LauncherFrame DEF CreateRemoteThread, TypeOK, RemoteSteps
<1> QED BY <1>1, <1>2, <1>3, <1>4 DEF TypeOK, hookVars, logVars

\* The loop of apply_all_hooks stays within the registry.
LEMMA RemoteTypeOK == TypeOK /\ RemoteStep => TypeOK'
<1> SUFFICES ASSUME TypeOK, RemoteStep PROVE TypeOK'
  OBVIOUS
<1>1. UNCHANGED <<launcherVars, processVars>>
  BY RemoteFrame
<1>2. /\ remote_thread' \in RemoteSteps
      /\ remote_exit_code' \in ExitCodes \cup ModuleHandles \cup {NoCode, 0}
      /\ hook_index' \in 1 .. HookCount + 1
      /\ remote_thread' = "store_hook" => hook_index' \in Hooks
  BY InjectionAssumption
  DEF RemoteStep, LoadLibraryFails, LoadLibrary, NameSession, OpenLog, OpenLogFails,
     RemoteLocksLog, LogLoaded, AttachCreateFile, InstallFails, StoreOriginalCreateFile,
     LogInstalled, AttachHook, HookDoesNotApply, StoreTrampoline, InstallFinishes, LogOutcome,
     LineOf, RemoteWrites, DllMainReturns, TypeOK, RemoteSteps, Hooks
<1>3. /\ {dll_loaded', create_file_attached', original_create_file_set', g_session_named',
          g_log_open'} \subseteq BOOLEAN
      /\ g_log_mutex' \in ToolThreads \cup {RemoteThread, Nobody}
  BY DEF RemoteStep, LoadLibraryFails, LoadLibrary, NameSession, OpenLog, OpenLogFails,
     RemoteLocksLog, LogLoaded, AttachCreateFile, InstallFails, StoreOriginalCreateFile,
     LogInstalled, AttachHook, HookDoesNotApply, StoreTrampoline, InstallFinishes, LogOutcome,
     LineOf, RemoteWrites, TypeOK, hookVars, logVars
<1>4. attached' \in [Hooks -> BOOLEAN] /\ m_orig' \in [Hooks -> {"target", "trampoline"}]
  BY DEF RemoteStep, LoadLibraryFails, LoadLibrary, NameSession, OpenLog, OpenLogFails,
     RemoteLocksLog, LogLoaded, AttachCreateFile, InstallFails, StoreOriginalCreateFile,
     LogInstalled, AttachHook, HookDoesNotApply, StoreTrampoline, InstallFinishes, LogOutcome,
     LineOf, RemoteWrites, TypeOK, hookVars
<1> QED BY <1>1, <1>2, <1>3, <1>4 DEF TypeOK, launcherVars, processVars

\* A thread goes where it was told to go after its line.
LEMMA ThreadTypeOK == ASSUME TypeOK, NEW t \in ToolThreads, ThreadStep(t) PROVE TypeOK'
<1>1. UNCHANGED <<launcherVars, tool, tool_exit_code, remoteVars, hookVars, g_session_named,
                  g_log_open>>
  BY ThreadFrame
<1>2. /\ threads' \in [ToolThreads -> ThreadSteps]
      /\ log_returns' \in [ToolThreads -> {"outside", "hooked", "call_original"}]
      /\ g_log_mutex' \in ToolThreads \cup {RemoteThread, Nobody}
  BY DEF ThreadStep, StartThread, CallCreateFile, CheckOriginal, ReturnRefused, ComposeLine,
     LockLog, WriteLog, CallOriginalCreateFile, CallHooked, InvokeOriginal, Recurse,
     ReturnFromHook, ThreadGoes, ThreadLogs, ThreadMoves, TypeOK, ThreadSteps
<1> QED BY <1>1, <1>2 DEF TypeOK, launcherVars, remoteVars, hookVars

\* The process ends with a code of its own, whatever stays hooked.
LEMMA NextTypeOK == TypeOK /\ [Next]_vars => TypeOK'
<1> SUFFICES ASSUME TypeOK, [Next]_vars PROVE TypeOK'
  OBVIOUS
<1>1. CASE UNCHANGED vars
  BY <1>1 DEF TypeOK, vars, launcherVars, processVars, remoteVars, hookVars, logVars
<1>2. ASSUME NEW t \in ToolThreads, Exit(t) \/ FailAssert(t) PROVE TypeOK'
  BY <1>2
  DEF Exit, FailAssert, EndThreads, TypeOK, launcherVars, hookVars, logVars, ThreadSteps,
     RemoteSteps, Codes
<1>3. CASE Detach
  <2>1. /\ tool' = "exited"
        /\ UNCHANGED <<launcherVars, threads, log_returns, remoteVars, g_session_named,
                       g_log_mutex>>
    BY <1>3 DEF Detach
  <2>2. tool_exit_code' \in Codes /\ g_log_open' \in BOOLEAN
    BY <1>3 DEF Detach, Shutdown, TypeOK, Codes
  <2>3. create_file_attached' \in BOOLEAN /\ original_create_file_set' \in BOOLEAN
    BY <1>3 DEF Detach, RemoveAll, TypeOK, hookVars
  <2>4. attached' \in [Hooks -> BOOLEAN]
    <3>1. CASE dll_loaded
      <4>1. PICK stuck \in SUBSET Hooks : attached' = [h \in Hooks |-> attached[h] /\ h \in stuck]
        BY <1>3, <3>1 DEF Detach, RemoveAll
      <4> QED BY <4>1, Zenon
    <3>2. CASE ~dll_loaded
      BY <1>3, <3>2 DEF Detach, TypeOK, hookVars
    <3> QED BY <3>1, <3>2
  <2>5. m_orig' \in [Hooks -> {"target", "trampoline"}]
    BY <1>3 DEF Detach, RemoveAll, TypeOK, hookVars
  <2> QED BY <2>1, <2>2, <2>3, <2>4, <2>5 DEF TypeOK, launcherVars, remoteVars
<1> QED BY <1>1, <1>2, <1>3, StepCases, LauncherTypeOK, RemoteTypeOK, ThreadTypeOK

\* Type correctness, for every constant that meets the assumption.
THEOREM TypeCorrect == Spec => []TypeOK
BY InitTypeOK, NextTypeOK, PTL DEF Spec
-------------------------------------------------------------------------------
(* The launcher and the tool.                                                *)

\* ToolNotLeftBehind is not inductive: that Resume never wakes a tool that ended
\* needs where the tool is at each step of the launcher, and that no remote thread
\* survives the launcher needs the launcher to wait for it, on every path.
LauncherInvariant ==
  /\ launcher = "start" => tool = "none"
  /\ tool = "none" => launcher \in {"start", "returned"}
  /\ launcher \in {"start", "allocate", "write", "start_thread"} => remote_thread = "none"
  /\ remote_thread \notin {"none", "ended"} =>
       launcher = "wait_load" /\ tool \in {"suspended", "running"}
  /\ launcher = "returned" => ~Alive
  /\ remote_buffer <=> launcher \in {"write", "start_thread", "wait_load"}
  /\ ~no_suspend_mode =>
       /\ launcher \notin {"start", "wait_exit", "returned"} => tool = "suspended"
       /\ launcher = "returned" /\ tool \in {"exited", "aborted"} => exit_code = tool_exit_code

\* Before the launcher starts there is neither tool nor remote thread.
LEMMA InitLauncherInvariant == Init => LauncherInvariant
BY DEF Init, LauncherInvariant, Alive

\* A step of the launcher: it leaves the states before "wait_load" only with the
\* buffer freed or the thread started, and resumes the tool only from "injected".
LEMMA LauncherKeepsLauncherInvariant ==
  TypeOK /\ LauncherInvariant /\ LauncherStep => LauncherInvariant'
<1> SUFFICES ASSUME TypeOK, LauncherInvariant, LauncherStep PROVE LauncherInvariant'
  OBVIOUS
<1> USE DEF LauncherInvariant, Alive, Ended, TypeOK
<1>1. CASE Unusable \/ CreateProcessFails
  BY <1>1 DEF Unusable, CreateProcessFails, LauncherReturns, processVars, remoteVars
<1>2. CASE CreateProcess
  BY <1>2 DEF CreateProcess, remoteVars
<1>3. CASE VirtualAlloc
  BY <1>3 DEF VirtualAlloc, processVars, remoteVars
<1>4. CASE WriteMemory
  BY <1>4 DEF WriteMemory, processVars, remoteVars
<1>5. CASE CreateRemoteThread
  BY <1>5 DEF CreateRemoteThread, processVars
<1>6. CASE InjectCallFails
  BY <1>6 DEF InjectCallFails, processVars, remoteVars
<1>7. CASE RemoteThreadWaited
  BY <1>7 DEF RemoteThreadWaited, processVars, remoteVars
<1>8. CASE Kill
  BY <1>8 DEF Kill, LauncherReturns, remoteVars
<1>9. CASE Resume
  BY <1>9 DEF Resume, remoteVars
<1>10. CASE ToolWaited
  BY <1>10 DEF ToolWaited, LauncherReturns, processVars, remoteVars
<1> QED
  BY <1>1, <1>2, <1>3, <1>4, <1>5, <1>6, <1>7, <1>8, <1>9, <1>10 DEF LauncherStep

\* A tool that ends by itself takes the remote thread with it.
LEMMA NextLauncherInvariant ==
  TypeOK /\ LauncherInvariant /\ [Next]_vars => LauncherInvariant'
<1> SUFFICES ASSUME TypeOK, LauncherInvariant, [Next]_vars PROVE LauncherInvariant'
  OBVIOUS
<1>1. CASE UNCHANGED vars
  BY <1>1 DEF LauncherInvariant, Alive, vars, launcherVars, processVars, remoteVars
<1>2. CASE RemoteStep
  BY <1>2, RemoteFrame DEF LauncherInvariant, Alive, launcherVars, processVars
<1>3. ASSUME NEW t \in ToolThreads, ThreadStep(t) PROVE LauncherInvariant'
  BY <1>3, ThreadFrame DEF LauncherInvariant, Alive, launcherVars, remoteVars
<1>4. ASSUME NEW t \in ToolThreads, Exit(t) \/ FailAssert(t) PROVE LauncherInvariant'
  BY <1>4 DEF Exit, FailAssert, EndThreads, LauncherInvariant, Alive, launcherVars
<1>5. CASE Detach
  BY <1>5 DEF Detach, LauncherInvariant, Alive, launcherVars, remoteVars
<1> QED
  BY <1>1, <1>2, <1>3, <1>4, <1>5, StepCases, LauncherKeepsLauncherInvariant

\* The launcher's side of every reachable state.
LEMMA LauncherInvariantHolds == Spec => [](TypeOK /\ LauncherInvariant)
BY InitTypeOK, NextTypeOK, InitLauncherInvariant, NextLauncherInvariant, PTL DEF Spec

\* No tool and no thread in it outlives the launcher, whichever of its calls fails.
THEOREM ToolNeverLeftBehind == Spec => []ToolNotLeftBehind
<1>1. LauncherInvariant => ToolNotLeftBehind
  BY DEF LauncherInvariant, ToolNotLeftBehind
<1> QED BY <1>1, LauncherInvariantHolds, PTL

\* The path of the DLL outlives its last reader, and nothing else.
THEOREM PathAlwaysFreedInTime == Spec => []PathFreedInTime
<1>1. LauncherInvariant => PathFreedInTime
  BY DEF LauncherInvariant, PathFreedInTime
<1> QED BY <1>1, LauncherInvariantHolds, PTL

\* What a tool that was started suspended exits with is what the launcher returns.
THEOREM ExitCodeAlwaysReported == Spec => []ExitCodeReported
<1>1. LauncherInvariant => ExitCodeReported
  BY DEF LauncherInvariant, ExitCodeReported
<1> QED BY <1>1, LauncherInvariantHolds, PTL

\* The launcher ends no tool it started suspended once that tool runs.
THEOREM ToolNeverInterrupted == Spec => ToolNotInterrupted
<1>1. TypeOK /\ LauncherInvariant /\ [Next]_vars =>
        [~no_suspend_mode /\ tool' = "terminated" => tool \in {"suspended", "terminated"}]_vars
  <2> SUFFICES ASSUME TypeOK, LauncherInvariant, [Next]_vars, ~no_suspend_mode,
                      tool' = "terminated", tool # "terminated"
               PROVE  tool = "suspended"
    OBVIOUS
  <2>1. CASE UNCHANGED vars \/ RemoteStep
    BY <2>1, RemoteFrame DEF vars, processVars
  <2>2. CASE LauncherStep
    <3>1. CreateProcess \/ Kill \/ Resume
      BY <2>2, LauncherFrame
    <3>2. Kill
      BY <3>1 DEF CreateProcess, Resume
    <3> QED BY <3>2 DEF Kill, LauncherInvariant
  <2>3. CASE (\E t \in ToolThreads : ThreadStep(t) \/ Exit(t) \/ FailAssert(t)) \/ Detach
    BY <2>3, ThreadFrame DEF Exit, FailAssert, Detach
  <2> QED BY <2>1, <2>2, <2>3, StepCases
<1> QED BY <1>1, LauncherInvariantHolds, PTL DEF Spec, ToolNotInterrupted

-------------------------------------------------------------------------------
(* The hooks and the log.                                                    *)

\* An ended process has no thread left to run a detour or to log.
ThreadsEnd ==
  tool \in {"exiting", "exited", "aborted", "terminated"} =>
    \A t \in ToolThreads : threads[t] = "gone"

\* The steps of InstallAll from the first jump on.
HookingSteps ==
  {"store_original", "log_installed", "write_installed", "apply_hooks", "store_hook"}

USE DEF HookingSteps

\* What the remote thread has done when it gets to a step of DllMain.
RemoteProgress ==
  /\ remote_thread \in {"open_log", "log_loaded", "write_loaded"} => g_session_named
  /\ remote_thread \in {"log_loaded", "write_loaded", "attach_create_file"} \cup HookingSteps
       => g_session_named /\ g_log_open
  /\ remote_thread \in HookingSteps => create_file_attached
  /\ remote_thread = "store_hook" => attached[hook_index]

\* Until the DLL is detached or the process aborted, a thread is in one of its
\* functions only through a jump, and every jump was made after the log was opened;
\* the first of them is that of CreateFileW.
DetoursAfterLog ==
  tool \notin {"exited", "aborted"} =>
    /\ \A t \in ToolThreads :
         threads[t] \notin {"unborn", "outside", "gone"} => create_file_attached
    /\ \A h \in Hooks : attached[h] => create_file_attached
    /\ create_file_attached =>
         /\ g_session_named /\ g_log_open
         /\ remote_thread \in HookingSteps \cup {"log_outcome", "write_outcome", "ended"}
         /\ original_create_file_set \/ remote_thread = "store_original"

\* LogReady and OriginalsReachNative are not inductive: that no thread logs too
\* early is due to the order of the steps of DllMain, which they do not mention.
HookInvariant ==
  /\ ThreadsEnd
  /\ RemoteProgress
  /\ DetoursAfterLog
  /\ OriginalsReachNative

\* A process without the DLL has no jumps, and the threads of it are native.
LEMMA InitHookInvariant == Init => HookInvariant
<1> SUFFICES ASSUME Init PROVE HookInvariant
  OBVIOUS
<1>1. \A t \in ToolThreads :
        threads[t] \in {"outside", "unborn"} /\ log_returns[t] = "outside"
  BY DEF Init
<1>2. \A h \in Hooks : ~attached[h] /\ m_orig[h] = "target"
  BY DEF Init
<1> QED
  BY <1>1, <1>2, InjectionAssumption
  DEF Init, HookInvariant, ThreadsEnd, RemoteProgress, DetoursAfterLog, OriginalsReachNative

\* The launcher starts the remote thread before anything is hooked, and a tool it
\* ends has no threads.
LEMMA LauncherKeepsHookInvariant ==
  TypeOK /\ LauncherInvariant /\ HookInvariant /\ LauncherStep => HookInvariant'
<1> SUFFICES ASSUME TypeOK, LauncherInvariant, HookInvariant, LauncherStep
             PROVE  HookInvariant'
  OBVIOUS
<1>1. /\ UNCHANGED <<hook_index, create_file_attached, original_create_file_set, attached, m_orig,
                     log_returns, g_session_named, g_log_open>>
  BY LauncherFrame DEF hookVars, logVars
<1>2. CASE CreateRemoteThread
  <2>1. /\ remote_thread = "none" /\ remote_thread' = "load_library"
        /\ tool' = tool /\ threads' = threads /\ tool \in {"suspended", "running"}
    BY <1>2 DEF CreateRemoteThread, processVars, LauncherInvariant
  <2>2. ~create_file_attached
    BY <2>1 DEF HookInvariant, DetoursAfterLog
  <2> QED
    BY <1>1, <2>1, <2>2
    DEF HookInvariant, ThreadsEnd, RemoteProgress, DetoursAfterLog, OriginalsReachNative
<1>3. CASE Kill
  <2>1. remote_thread' = remote_thread
    BY <1>3 DEF Kill, remoteVars
  <2>2. CASE Alive
    <3>1. /\ tool' = "terminated" /\ tool \notin {"exited", "aborted"}
          /\ \A t \in ToolThreads : threads'[t] = "gone"
      BY <1>3, <2>2 DEF Kill, Alive
    <3> QED
      BY <1>1, <2>1, <3>1
      DEF HookInvariant, ThreadsEnd, RemoteProgress, DetoursAfterLog, OriginalsReachNative
  <2>3. CASE ~Alive
    <3>1. UNCHANGED <<tool, threads>>
      BY <1>3, <2>3 DEF Kill
    <3> QED
      BY <1>1, <2>1, <3>1
      DEF HookInvariant, ThreadsEnd, RemoteProgress, DetoursAfterLog, OriginalsReachNative
  <2> QED BY <2>2, <2>3
<1>4. CASE ~CreateRemoteThread /\ ~Kill
  <2>1. UNCHANGED <<remote_thread, threads>> /\ (tool' = tool \/ CreateProcess \/ Resume)
    BY <1>4, LauncherFrame
  <2>2. \/ tool' = tool
        \/ tool' \in {"running", "suspended"} /\ tool \notin {"exited", "aborted"}
    <3>1. CASE CreateProcess
      BY <3>1 DEF CreateProcess, LauncherInvariant
    <3>2. CASE Resume
      <4>1. launcher = "injected" /\ tool' = IF no_suspend_mode THEN tool ELSE "running"
        BY <3>2 DEF Resume
      <4> QED BY <4>1 DEF LauncherInvariant
    <3> QED BY <2>1, <3>1, <3>2
  <2> QED
    BY <1>1, <2>1, <2>2
    DEF HookInvariant, ThreadsEnd, RemoteProgress, DetoursAfterLog, OriginalsReachNative
<1> QED BY <1>2, <1>3, <1>4


\* The remote thread steps only in a process that lives, and moves no other thread.
LEMMA RemoteStepsAlone ==
  ASSUME LauncherInvariant, RemoteStep
  PROVE  /\ UNCHANGED <<tool, threads, log_returns>>
         /\ tool \in {"suspended", "running"}
         /\ remote_thread \notin {"none", "ended"}
BY RemoteFrame DEF processVars, LauncherInvariant

\* Nothing is hooked before DllMain gets to it, and so no thread is in a detour.
LEMMA NothingHookedYet ==
  ASSUME LauncherInvariant, HookInvariant,
         remote_thread \in {"load_library", "initialize_log", "open_log", "log_loaded",
                            "write_loaded", "attach_create_file"}
  PROVE  /\ ~create_file_attached
         /\ \A h \in Hooks : ~attached[h]
         /\ \A t \in ToolThreads : threads[t] \in {"unborn", "outside", "gone"}
BY DEF LauncherInvariant, HookInvariant, DetoursAfterLog

\* DllMain names and opens the log, attaches the first jump, and attaches each
\* other one and stores its trampoline, in that order.
LEMMA RemoteKeepsHookInvariant ==
  TypeOK /\ LauncherInvariant /\ HookInvariant /\ RemoteStep => HookInvariant'
<1> SUFFICES ASSUME TypeOK, LauncherInvariant, HookInvariant, RemoteStep
             PROVE  HookInvariant'
  OBVIOUS
<1>1. /\ UNCHANGED <<tool, threads, log_returns>>
      /\ tool \in {"suspended", "running"}
      /\ ThreadsEnd'
  BY RemoteStepsAlone DEF ThreadsEnd
<1>2. CASE LoadLibraryFails \/ LoadLibrary \/ NameSession \/ OpenLog \/ OpenLogFails \/ LogLoaded
           \/ InstallFails
  <2>1. /\ UNCHANGED <<create_file_attached, original_create_file_set, attached, m_orig>>
        /\ remote_thread \in {"load_library", "initialize_log", "open_log", "write_loaded",
                              "attach_create_file"}
        /\ remote_thread' \in {"initialize_log", "open_log", "log_loaded", "attach_create_file",
                               "log_outcome", "ended"}
    BY <1>2 DEF LoadLibraryFails, LoadLibrary, NameSession, OpenLog, OpenLogFails, LogLoaded,
       RemoteWrites, InstallFails, DllMainReturns, hookVars
  <2>2. /\ ~create_file_attached
        /\ \A h \in Hooks : ~attached[h]
        /\ \A t \in ToolThreads : threads[t] \in {"unborn", "outside", "gone"}
    BY <2>1, NothingHookedYet
  <2>3. RemoteProgress'
    BY <1>2, InjectionAssumption
    DEF LoadLibraryFails, LoadLibrary, NameSession, OpenLog, OpenLogFails, LogLoaded,
       RemoteWrites, InstallFails, DllMainReturns, HookInvariant, RemoteProgress, logVars
  <2>4. DetoursAfterLog'
    BY <1>1, <2>1, <2>2 DEF DetoursAfterLog
  <2>5. OriginalsReachNative'
    BY <1>1, <2>1, <2>2 DEF HookInvariant, OriginalsReachNative
  <2> QED BY <1>1, <2>3, <2>4, <2>5 DEF HookInvariant
<1>3. CASE AttachCreateFile
  <2>1. /\ remote_thread = "attach_create_file" /\ remote_thread' = "store_original"
        /\ create_file_attached'
        /\ UNCHANGED <<original_create_file_set, attached, m_orig, g_session_named, g_log_open>>
    BY <1>3 DEF AttachCreateFile, logVars
  <2> QED
    BY <1>1, <2>1
    DEF HookInvariant, RemoteProgress, DetoursAfterLog, OriginalsReachNative
<1>4. CASE StoreOriginalCreateFile \/ LogInstalled \/ HookDoesNotApply \/ InstallFinishes
  <2>1. /\ remote_thread \in {"store_original", "write_installed", "apply_hooks"}
        /\ remote_thread' \in {"log_installed", "apply_hooks", "log_outcome"}
        /\ UNCHANGED <<create_file_attached, attached, m_orig, g_session_named, g_log_open>>
        /\ original_create_file_set => original_create_file_set'
        /\ remote_thread = "store_original" => original_create_file_set'
    BY <1>4
    DEF StoreOriginalCreateFile, LogInstalled, RemoteWrites, HookDoesNotApply, InstallFinishes,
       hookVars, logVars
  <2> QED
    BY <1>1, <2>1
    DEF HookInvariant, RemoteProgress, DetoursAfterLog, OriginalsReachNative
<1>5. CASE AttachHook
  <2>1. /\ remote_thread = "apply_hooks" /\ remote_thread' = "store_hook"
        /\ hook_index \in Hooks /\ hook_index' = hook_index
        /\ attached' = [attached EXCEPT ![hook_index] = TRUE]
        /\ UNCHANGED <<create_file_attached, original_create_file_set, m_orig, g_session_named,
                       g_log_open>>
    BY <1>5, InjectionAssumption DEF AttachHook, logVars, TypeOK, Hooks
  <2>2. attached \in [Hooks -> BOOLEAN]
    BY DEF TypeOK
  <2>3. attached'[hook_index'] /\ \A h \in Hooks \ {hook_index} : attached'[h] = attached[h]
    BY <2>1, <2>2
  <2>4. create_file_attached /\ original_create_file_set
    BY <1>1, <2>1 DEF HookInvariant, RemoteProgress, DetoursAfterLog
  <2>5. RemoteProgress' /\ DetoursAfterLog'
    BY <1>1, <2>1, <2>3, <2>4 DEF HookInvariant, RemoteProgress, DetoursAfterLog
  <2>6. OriginalsReachNative'
    BY <1>1, <2>1, <2>3 DEF HookInvariant, OriginalsReachNative
  <2> QED BY <1>1, <2>5, <2>6 DEF HookInvariant
<1>6. CASE StoreTrampoline
  <2>1. /\ remote_thread = "store_hook" /\ remote_thread' = "apply_hooks"
        /\ hook_index \in Hooks
        /\ m_orig' = [m_orig EXCEPT ![hook_index] = "trampoline"]
        /\ UNCHANGED <<create_file_attached, original_create_file_set, attached, g_session_named,
                       g_log_open>>
    BY <1>6 DEF StoreTrampoline, logVars, TypeOK
  <2>2. /\ m_orig'[hook_index] = "trampoline"
        /\ \A h \in Hooks \ {hook_index} : m_orig'[h] = m_orig[h]
    BY <2>1 DEF TypeOK
  <2>3. attached[hook_index]
    BY <2>1 DEF HookInvariant, RemoteProgress
  <2>4. RemoteProgress' /\ DetoursAfterLog'
    BY <1>1, <2>1 DEF HookInvariant, RemoteProgress, DetoursAfterLog
  <2>5. OriginalsReachNative'
    BY <1>1, <2>1, <2>2, <2>3 DEF HookInvariant, OriginalsReachNative
  <2> QED BY <1>1, <2>4, <2>5 DEF HookInvariant
<1>7. CASE RemoteLocksLog \/ LogOutcome
  <2>1. /\ \/ remote_thread \in {"log_outcome", "write_outcome"}
              /\ remote_thread' \in {"write_outcome", "ended"}
           \/ remote_thread = "log_loaded" /\ remote_thread' = "write_loaded"
           \/ remote_thread = "log_installed" /\ remote_thread' = "write_installed"
        /\ UNCHANGED <<create_file_attached, original_create_file_set, attached, m_orig,
                       g_session_named, g_log_open>>
    BY <1>7 DEF RemoteLocksLog, LineOf, LogOutcome, RemoteWrites, DllMainReturns, hookVars
  <2> QED
    BY <1>1, <2>1
    DEF HookInvariant, RemoteProgress, DetoursAfterLog, OriginalsReachNative
<1> QED BY <1>2, <1>3, <1>4, <1>5, <1>6, <1>7 DEF RemoteStep

\* A thread that goes on enters a detour only through a jump, and is to call the
\* original CreateFileW only once it is there.
LEMMA ThreadKeepsHookInvariant ==
  ASSUME TypeOK, HookInvariant, NEW t \in ToolThreads, ThreadStep(t)
  PROVE  HookInvariant'
<1>1. /\ UNCHANGED <<remote_thread, hook_index, create_file_attached, original_create_file_set,
                     attached, m_orig, g_session_named, g_log_open>>
      /\ tool = "running" /\ tool' = "running"
      /\ \A u \in ToolThreads \ {t} : threads'[u] = threads[u]
  BY ThreadFrame DEF remoteVars, hookVars, TypeOK
<1>2. ThreadsEnd'
  BY <1>1 DEF ThreadsEnd
<1>3. threads'[t] \notin {"unborn", "outside", "gone"} => create_file_attached
  <2>1. \/ threads'[t] = "outside"
        \/ threads[t] \notin {"unborn", "outside", "gone"}
        \/ create_file_attached
        \/ \E h \in Hooks : attached[h]
    BY DEF ThreadStep, StartThread, CallCreateFile, CheckOriginal, ReturnRefused, ComposeLine,
       LockLog, WriteLog, CallOriginalCreateFile, CallHooked, InvokeOriginal, Recurse,
       ReturnFromHook, ThreadGoes, ThreadLogs, ThreadMoves, TypeOK
  <2> QED BY <1>1, <2>1 DEF HookInvariant, DetoursAfterLog
<1>4. DetoursAfterLog'
  BY <1>1, <1>3 DEF HookInvariant, DetoursAfterLog
<1>5. RemoteProgress'
  BY <1>1 DEF HookInvariant, RemoteProgress
<1>6. \A u \in ToolThreads \ {t} : log_returns'[u] = log_returns[u]
  BY DEF ThreadStep, StartThread, CallCreateFile, CheckOriginal, ReturnRefused, ComposeLine,
     LockLog, WriteLog, CallOriginalCreateFile, CallHooked, InvokeOriginal, Recurse,
     ReturnFromHook, ThreadGoes, ThreadLogs, ThreadMoves, TypeOK
<1>7. "call_original" \in {threads'[t], log_returns'[t]} =>
        \/ "call_original" \in {threads[t], log_returns[t]} /\ threads[t] # "gone"
        \/ original_create_file_set
  BY DEF ThreadStep, StartThread, CallCreateFile, CheckOriginal, ReturnRefused, ComposeLine,
     LockLog, WriteLog, CallOriginalCreateFile, CallHooked, InvokeOriginal, Recurse,
     ReturnFromHook, ThreadGoes, ThreadLogs, ThreadMoves, TypeOK
<1>8. OriginalsReachNative'
  BY <1>1, <1>6, <1>7 DEF HookInvariant, OriginalsReachNative
<1> QED BY <1>2, <1>4, <1>5, <1>8 DEF HookInvariant

\* No thread is left when the process ends; it aborts with its hooks as they are, and exits
\* only when DllMain has been left.
LEMMA ExitKeepsHookInvariant ==
  ASSUME TypeOK, HookInvariant, NEW t \in ToolThreads, Exit(t) \/ FailAssert(t)
  PROVE  HookInvariant'
<1>1. /\ UNCHANGED <<hook_index, create_file_attached, original_create_file_set, attached, m_orig,
                     log_returns, g_session_named, g_log_open>>
      /\ tool = "running"
      /\ \A u \in ToolThreads : threads'[u] = "gone"
      /\ remote_thread' \in {"none", "ended"}
      /\ remote_thread' = "none" => remote_thread = "none"
      /\ \/ tool' = "exiting" /\ remote_thread \in {"none", "load_library", "ended"}
         \/ tool' = "aborted"
  BY DEF Exit, FailAssert, EndThreads, InDllMain, hookVars, logVars
<1>2. ThreadsEnd'
  BY <1>1 DEF ThreadsEnd
<1>3. RemoteProgress' /\ DetoursAfterLog'
  BY <1>1 DEF HookInvariant, RemoteProgress, DetoursAfterLog
<1>4. OriginalsReachNative'
  BY <1>1 DEF HookInvariant, OriginalsReachNative
<1> QED BY <1>2, <1>3, <1>4 DEF HookInvariant

\* A hook that RemoveAll could not detach keeps its trampoline.
LEMMA DetachKeepsHookInvariant ==
  TypeOK /\ LauncherInvariant /\ HookInvariant /\ Detach => HookInvariant'
<1> SUFFICES ASSUME TypeOK, LauncherInvariant, HookInvariant, Detach PROVE HookInvariant'
  OBVIOUS
<1>1. /\ tool = "exiting" /\ tool' = "exited"
      /\ UNCHANGED <<threads, log_returns, remote_thread, hook_index, g_session_named>>
  BY DEF Detach, remoteVars
<1>2. remote_thread \in {"none", "ended"} /\ \A t \in ToolThreads : threads[t] = "gone"
  BY <1>1 DEF LauncherInvariant, HookInvariant, ThreadsEnd
<1>3. ThreadsEnd' /\ RemoteProgress' /\ DetoursAfterLog'
  BY <1>1, <1>2 DEF HookInvariant, ThreadsEnd, RemoteProgress, DetoursAfterLog
<1>4. \A h \in Hooks : attached'[h] <=> m_orig'[h] = "trampoline"
  <2>1. \A h \in Hooks : attached[h] <=> m_orig[h] = "trampoline"
    BY <1>1, <1>2 DEF HookInvariant, OriginalsReachNative
  <2>2. CASE dll_loaded
    <3>1. PICK stuck \in SUBSET Hooks : attached' = [h \in Hooks |-> attached[h] /\ h \in stuck]
      BY <2>2 DEF Detach, RemoveAll
    <3>2. \A h \in Hooks : attached'[h] <=> attached[h] /\ h \in stuck
      BY <3>1, Zenon
    <3>3. \A h \in Hooks : m_orig'[h] = IF attached'[h] THEN m_orig[h] ELSE "target"
      BY <2>2 DEF Detach, RemoveAll
    <3> QED BY <2>1, <3>2, <3>3
  <2>3. CASE ~dll_loaded
    BY <2>1, <2>3 DEF Detach, hookVars
  <2> QED BY <2>2, <2>3
<1>5. OriginalsReachNative'
  BY <1>1, <1>2, <1>4 DEF OriginalsReachNative
<1> QED BY <1>3, <1>5 DEF HookInvariant

\* Every step keeps the order of the jumps and the log.
LEMMA NextHookInvariant ==
  TypeOK /\ LauncherInvariant /\ HookInvariant /\ [Next]_vars => HookInvariant'
<1> SUFFICES ASSUME TypeOK, LauncherInvariant, HookInvariant, [Next]_vars PROVE HookInvariant'
  OBVIOUS
<1>1. CASE UNCHANGED vars
  BY <1>1
  DEF HookInvariant, ThreadsEnd, RemoteProgress, DetoursAfterLog, OriginalsReachNative, vars,
     processVars, remoteVars, hookVars, logVars
<1> QED
  BY <1>1, StepCases, LauncherKeepsHookInvariant, RemoteKeepsHookInvariant,
     ThreadKeepsHookInvariant, ExitKeepsHookInvariant, DetachKeepsHookInvariant

\* The hooks' side of every reachable state.
LEMMA HookInvariantHolds == Spec => [](TypeOK /\ LauncherInvariant /\ HookInvariant)
BY InitTypeOK, NextTypeOK, InitLauncherInvariant, NextLauncherInvariant, InitHookInvariant,
   NextHookInvariant, PTL DEF Spec

\* An original is called through its trampoline and never through its own jump,
\* whichever attach or detach fails.
THEOREM OriginalsAlwaysReachNative == Spec => []OriginalsReachNative
<1>1. HookInvariant => OriginalsReachNative
  BY DEF HookInvariant
<1> QED BY <1>1, HookInvariantHolds, PTL

\* A thread that logs finds the session named and the file open.
THEOREM LogAlwaysReady == Spec => []LogReady
<1>1. TypeOK /\ LauncherInvariant /\ HookInvariant => LogReady
  <2> SUFFICES ASSUME HookInvariant,
                      NEW t \in ToolThreads, threads[t] \in {"compose", "lock_log", "write_log"}
               PROVE  g_session_named /\ g_log_open
    BY DEF LogReady, Logging
  <2>1. tool \notin {"exited", "aborted"}
    BY DEF HookInvariant, ThreadsEnd
  <2>2. create_file_attached
    BY <2>1 DEF HookInvariant, DetoursAfterLog
  <2> QED BY <2>1, <2>2 DEF HookInvariant, DetoursAfterLog
<1> QED BY <1>1, HookInvariantHolds, PTL

\* Nothing runs in a tool that was started suspended while DllMain runs, so that
\* no thread finds a jump without the pointer that belongs to it.
LEMMA RefusesNothing ==
  ASSUME TypeOK, LauncherInvariant, HookInvariant, NeverHalfInstalled, ~no_suspend_mode,
         NEW t \in ToolThreads, ThreadStep(t)
  PROVE  threads'[t] \notin {"refused", "recursing"}
<1>1. tool = "running" /\ threads \in [ToolThreads -> ThreadSteps]
  BY ThreadFrame DEF TypeOK
<1>2. remote_thread \in {"none", "ended"}
  BY <1>1 DEF LauncherInvariant
<1>3. threads[t] = "check_original" => original_create_file_set
  BY <1>1, <1>2 DEF HookInvariant, DetoursAfterLog
<1>4. \A h \in Hooks : ~(attached[h] /\ m_orig[h] = "target")
  BY <1>1, <1>2 DEF HookInvariant, OriginalsReachNative
<1>5. CASE CheckOriginal(t)
  BY <1>1, <1>3, <1>5 DEF CheckOriginal, ThreadGoes, ThreadLogs, ThreadMoves
<1>6. CASE InvokeOriginal(t)
  BY <1>1, <1>4, <1>6 DEF InvokeOriginal, ThreadGoes, ThreadMoves
<1>7. CASE WriteLog(t)
  <2>1. threads' = [threads EXCEPT ![t] = log_returns[t]]
    BY <1>7 DEF WriteLog, ThreadMoves
  <2> QED BY <1>1, <2>1 DEF TypeOK
<1>8. CASE ~CheckOriginal(t) /\ ~InvokeOriginal(t) /\ ~WriteLog(t)
  BY <1>1, <1>8
  DEF ThreadStep, StartThread, CallCreateFile, ReturnRefused, ComposeLine, LockLog,
     CallOriginalCreateFile, CallHooked, Recurse, ReturnFromHook, ThreadGoes,
     ThreadLogs, ThreadMoves
<1> QED BY <1>5, <1>6, <1>7, <1>8

\* A tool that is started suspended is resumed with its hooks whole, and stays so.
THEOREM HooksNeverSeenHalfInstalled == Spec => []NeverHalfInstalled
<1>1. Init => NeverHalfInstalled
  BY DEF Init, NeverHalfInstalled
<1>2. TypeOK /\ LauncherInvariant /\ HookInvariant /\ NeverHalfInstalled /\ [Next]_vars
        => NeverHalfInstalled'
  <2> SUFFICES ASSUME TypeOK, LauncherInvariant, HookInvariant, NeverHalfInstalled, [Next]_vars
               PROVE  NeverHalfInstalled'
    OBVIOUS
  <2>1. CASE UNCHANGED vars \/ RemoteStep
    BY <2>1, RemoteFrame DEF NeverHalfInstalled, vars, launcherVars, processVars
  <2>2. CASE LauncherStep
    BY <2>2, LauncherFrame DEF NeverHalfInstalled, Kill
  <2>3. ASSUME NEW t \in ToolThreads, ThreadStep(t) PROVE NeverHalfInstalled'
    <3>1. PICK to : threads' = [threads EXCEPT ![t] = to]
      BY <2>3, ThreadFrame
    <3>2. \A u \in ToolThreads \ {t} : threads'[u] = threads[u]
      BY <3>1 DEF TypeOK
    <3>3. no_suspend_mode' = no_suspend_mode
      BY <2>3, ThreadFrame DEF launcherVars
    <3> QED BY <2>3, <3>2, <3>3, RefusesNothing DEF NeverHalfInstalled
  <2>4. CASE (\E t \in ToolThreads : Exit(t) \/ FailAssert(t)) \/ Detach
    BY <2>4 DEF Exit, FailAssert, EndThreads, Detach, NeverHalfInstalled, launcherVars
  <2> QED BY <2>1, <2>2, <2>3, <2>4, StepCases
<1> QED BY <1>1, <1>2, HookInvariantHolds, PTL DEF Spec
=============================================================================
