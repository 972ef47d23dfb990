------------------------------- MODULE Injection -------------------------------
(***************************************************************************)
(* One run of the launcher: it starts tool.exe, has a thread of the tool   *)
(* load tool_hook.dll, and waits for the tool.  The launcher, the remote   *)
(* thread and the threads of the tool interleave.  The remote thread       *)
(* installs the detours from DllMain, one Detours transaction after the    *)
(* other, and after each commit it stores the trampoline in the pointer    *)
(* the detour calls the original through.                                  *)
(*                                                                         *)
(* Windows may refuse any call whose result the code looks at.  Of Windows,*)
(* the model takes that a thread in DllMain holds the loader lock, which a *)
(* thread that starts or exits the process waits for, that exiting the     *)
(* process ends its other threads first, with the exit code of the         *)
(* process, and that a process that fails an assert or crashes ends at     *)
(* once, without DllMain.                                                  *)
(***************************************************************************)
EXTENDS Integers

CONSTANTS
  NoSuspendModes, \* whether a debugger may be attached to the launcher
  HookCount,      \* g_detour_hook_count
  ToolThreads,    \* the threads of the tool; the remote one is not among them
  MainThread,
  RemoteThread,
  Nobody,         \* the log mutex is free
  ExitCodes,      \* what the tool may exit with
  ModuleHandles   \* the low 32 bits of the HMODULE of the loaded DLL

ASSUME InjectionAssumption ==
  /\ NoSuspendModes \subseteq BOOLEAN
  /\ HookCount \in Nat
  /\ MainThread \in ToolThreads
  /\ RemoteThread \notin ToolThreads
  /\ Nobody \notin ToolThreads \cup {RemoteThread}
  /\ ExitCodes \subseteq Nat
  /\ ModuleHandles \subseteq Nat

Hooks == 1 .. HookCount

NoCode == -1

VARIABLES
  no_suspend_mode,
  launcher,                 \* what the launcher does next
  exit_code,                \* what it returned
  remote_buffer,            \* the path of the DLL is in the memory of the tool
  tool,                     \* the process
  tool_exit_code,
  threads,                  \* what each thread of the tool is doing
  remote_thread,            \* what the thread that loads the DLL does next
  remote_exit_code,
  dll_loaded,
  hook_index,               \* the detour_index of apply_all_hooks
  create_file_attached,     \* the jump to DetourCreateFileW is in place
  original_create_file_set, \* g_original_create_file_w is not null
  attached,                 \* the jump to each c_hook's function is in place
  m_orig,                   \* where each c_hook calls the original
  log_returns,              \* what each thread does when its line is logged
  g_session_named,          \* the log of the tool's process: g_session_name is set,
  g_log_open,               \* g_log_handle is valid,
  g_log_mutex               \* and who has locked it

launcherVars == <<no_suspend_mode, launcher, exit_code, remote_buffer>>
processVars  == <<tool, tool_exit_code, threads, log_returns>>
remoteVars   == <<remote_thread, remote_exit_code, hook_index, dll_loaded>>
hookVars     == <<create_file_attached, original_create_file_set, attached, m_orig>>
logVars      == <<g_session_named, g_log_open, g_log_mutex>>
vars         == <<launcherVars, processVars, remoteVars, hookVars, logVars>>

Init ==
  /\ no_suspend_mode \in NoSuspendModes
  /\ launcher = "start"
  /\ exit_code = NoCode
  /\ remote_buffer = FALSE
  /\ tool = "none"
  /\ tool_exit_code = NoCode
  /\ threads = [t \in ToolThreads |-> IF t = MainThread THEN "outside" ELSE "unborn"]
  /\ remote_thread = "none"
  /\ remote_exit_code = NoCode
  /\ dll_loaded = FALSE
  /\ hook_index = 1
  /\ create_file_attached = FALSE
  /\ original_create_file_set = FALSE
  /\ attached = [h \in Hooks |-> FALSE]
  /\ m_orig = [h \in Hooks |-> "target"]
  /\ log_returns = [t \in ToolThreads |-> "outside"]
  /\ g_session_named = FALSE
  /\ g_log_open = FALSE
  /\ g_log_mutex = Nobody

-------------------------------------------------------------------------------
(* The launcher.                                                             *)

Alive == tool \in {"suspended", "running", "exiting"}
Ended == tool \in {"exited", "aborted", "terminated"}

LauncherReturns(code) ==
  /\ launcher' = "returned"
  /\ exit_code' = code

\* No hook DLL beside the launcher, or no path to a tool.
Unusable ==
  /\ launcher = "start"
  /\ LauncherReturns(1)
  /\ UNCHANGED <<no_suspend_mode, remote_buffer, processVars, remoteVars, hookVars, logVars>>

CreateProcessFails ==
  /\ launcher = "start"
  /\ LauncherReturns(2)
  /\ UNCHANGED <<no_suspend_mode, remote_buffer, processVars, remoteVars, hookVars, logVars>>

\* Mutant: CREATE_SUSPENDED is not passed.
MutantCreatesRunning ==
  /\ launcher = "start"
  /\ launcher' = "allocate"
  /\ tool' = "running"
  /\ UNCHANGED <<no_suspend_mode, exit_code, remote_buffer, tool_exit_code, threads,
                 log_returns, remoteVars, hookVars, logVars>>

CreateProcess ==
  /\ launcher = "start"
  /\ launcher' = "allocate"
  /\ tool' = IF no_suspend_mode THEN "running" ELSE "suspended"
  /\ UNCHANGED <<no_suspend_mode, exit_code, remote_buffer, tool_exit_code, threads,
                 log_returns, remoteVars, hookVars, logVars>>

\* InjectDll, call by call.
VirtualAlloc ==
  /\ launcher = "allocate"
  /\ Alive
  /\ launcher' = "write"
  /\ remote_buffer' = TRUE
  /\ UNCHANGED <<no_suspend_mode, exit_code, processVars, remoteVars, hookVars, logVars>>

WriteMemory ==
  /\ launcher = "write"
  /\ Alive
  /\ launcher' = "start_thread"
  /\ UNCHANGED <<no_suspend_mode, exit_code, remote_buffer, processVars, remoteVars,
                 hookVars, logVars>>

\* Mutant: the buffer is freed as soon as the thread exists.
MutantFreesEarly ==
  /\ launcher = "start_thread"
  /\ tool \in {"suspended", "running"}
  /\ launcher' = "wait_load"
  /\ remote_thread' = "load_library"
  /\ remote_buffer' = FALSE
  /\ UNCHANGED <<no_suspend_mode, exit_code, processVars, remote_exit_code, hook_index,
                 dll_loaded, hookVars, logVars>>

CreateRemoteThread ==
  /\ launcher = "start_thread"
  /\ tool \in {"suspended", "running"}
  /\ launcher' = "wait_load"
  /\ remote_thread' = "load_library"
  /\ UNCHANGED <<no_suspend_mode, exit_code, remote_buffer, processVars, remote_exit_code,
                 hook_index, dll_loaded, hookVars, logVars>>

\* Any of the three fails: the buffer, if there is one, is freed.
InjectCallFails ==
  /\ launcher \in {"allocate", "write", "start_thread"}
  /\ launcher' = "kill"
  /\ remote_buffer' = FALSE
  /\ UNCHANGED <<no_suspend_mode, exit_code, processVars, remoteVars, hookVars, logVars>>

\* Mutant: the launcher does not wait for the remote thread.
MutantNoWait ==
  /\ launcher = "wait_load"
  /\ remote_buffer' = FALSE
  /\ launcher' = "injected"
  /\ UNCHANGED <<no_suspend_mode, exit_code, processVars, remoteVars, hookVars, logVars>>

\* The remote thread has ended.  All that is left of the module handle, or of
\* why the thread ended, is its 32-bit exit code.
RemoteThreadWaited ==
  /\ launcher = "wait_load"
  /\ remote_thread = "ended"
  /\ remote_buffer' = FALSE
  /\ launcher' = IF remote_exit_code = 0 THEN "kill" ELSE "injected"
  /\ UNCHANGED <<no_suspend_mode, exit_code, processVars, remoteVars, hookVars, logVars>>

\* Mutant: TerminateProcess is forgotten.
MutantLeavesTool ==
  /\ launcher = "kill"
  /\ LauncherReturns(3)
  /\ UNCHANGED <<no_suspend_mode, remote_buffer, processVars, remoteVars, hookVars, logVars>>

\* InjectDll failed: TerminateProcess, which does nothing to a tool that ended.
Kill ==
  /\ launcher = "kill"
  /\ LauncherReturns(3)
  /\ IF Alive
     THEN /\ tool' = "terminated"
          /\ tool_exit_code' = 3
          /\ threads' = [t \in ToolThreads |-> "gone"]
     ELSE UNCHANGED <<tool, tool_exit_code, threads>>
  /\ UNCHANGED <<no_suspend_mode, remote_buffer, log_returns, remoteVars, hookVars, logVars>>

Resume ==
  /\ launcher = "injected"
  /\ launcher' = "wait_exit"
  /\ tool' = IF no_suspend_mode THEN tool ELSE "running"
  /\ UNCHANGED <<no_suspend_mode, exit_code, remote_buffer, tool_exit_code, threads,
                 log_returns, remoteVars, hookVars, logVars>>

StillActive == 259

\* Mutant: GetExitCodeProcess without the wait.
MutantReadsEarly ==
  /\ launcher = "wait_exit"
  /\ LauncherReturns(IF Ended THEN tool_exit_code ELSE StillActive)
  /\ UNCHANGED <<no_suspend_mode, remote_buffer, processVars, remoteVars, hookVars, logVars>>

\* Mutant: GetExitCodeProcess is asked until it is not STILL_ACTIVE.
MutantPolls ==
  /\ launcher = "wait_exit"
  /\ Ended
  /\ tool_exit_code # StillActive
  /\ LauncherReturns(tool_exit_code)
  /\ UNCHANGED <<no_suspend_mode, remote_buffer, processVars, remoteVars, hookVars, logVars>>

\* The launcher returns what the tool exited with.
ToolWaited ==
  /\ launcher = "wait_exit"
  /\ Ended
  /\ LauncherReturns(tool_exit_code)
  /\ UNCHANGED <<no_suspend_mode, remote_buffer, processVars, remoteVars, hookVars, logVars>>

LauncherStep ==
  \/ Unusable \/ CreateProcessFails \/ CreateProcess
  \/ VirtualAlloc \/ WriteMemory \/ CreateRemoteThread \/ InjectCallFails
  \/ RemoteThreadWaited \/ Kill \/ Resume \/ ToolWaited

-------------------------------------------------------------------------------
(* The remote thread: LoadLibraryW, and DllMain with DLL_PROCESS_ATTACH.     *)

InDllMain == remote_thread \notin {"none", "load_library", "ended"}

RemoteRuns == tool \in {"suspended", "running"}

LoadLibraryFails ==
  /\ remote_thread = "load_library"
  /\ RemoteRuns
  /\ remote_thread' = "ended"
  /\ remote_exit_code' = 0
  /\ UNCHANGED <<launcherVars, processVars, hook_index, dll_loaded, hookVars, logVars>>

LoadLibrary ==
  /\ remote_thread = "load_library"
  /\ RemoteRuns
  /\ remote_thread' = "initialize_log"
  /\ dll_loaded' = TRUE
  /\ UNCHANGED <<launcherVars, processVars, remote_exit_code, hook_index, hookVars, logVars>>

\* DllMain returns TRUE whatever happened, and the handle is the exit code.
DllMainReturns ==
  /\ remote_thread' = "ended"
  /\ remote_exit_code' \in ModuleHandles

\* logging::Initialize takes the mutex and names the session.
NameSession ==
  /\ remote_thread = "initialize_log"
  /\ g_log_mutex = Nobody
  /\ g_log_mutex' = RemoteThread
  /\ g_session_named' = TRUE
  /\ remote_thread' = "open_log"
  /\ UNCHANGED <<launcherVars, processVars, remote_exit_code, hook_index, dll_loaded, hookVars,
                 g_log_open>>

\* Mutant: the mutex is not released.
MutantKeepsMutex ==
  /\ remote_thread = "open_log"
  /\ g_log_open' = TRUE
  /\ remote_thread' = "log_loaded"
  /\ UNCHANGED <<launcherVars, processVars, remote_exit_code, hook_index, dll_loaded, hookVars,
                 g_session_named, g_log_mutex>>

\* It opens the log, with a CreateFileW that must not be detoured yet: the detour
\* would wait for the mutex.
OpenLog ==
  /\ remote_thread = "open_log"
  /\ g_log_open' = TRUE
  /\ g_log_mutex' = Nobody
  /\ remote_thread' = "log_loaded"
  /\ UNCHANGED <<launcherVars, processVars, remote_exit_code, hook_index, dll_loaded, hookVars,
                 g_session_named>>

\* Mutant: DllMain does not look at what Initialize returns.
MutantGoesOn ==
  /\ remote_thread = "open_log"
  /\ g_log_mutex' = Nobody
  /\ remote_thread' = "attach_create_file"
  /\ UNCHANGED <<launcherVars, processVars, remote_exit_code, hook_index, dll_loaded, hookVars,
                 g_session_named, g_log_open>>

\* Without a log nothing is hooked.
OpenLogFails ==
  /\ remote_thread = "open_log"
  /\ g_log_mutex' = Nobody
  /\ DllMainReturns
  /\ UNCHANGED <<launcherVars, processVars, hook_index, dll_loaded, hookVars, g_session_named,
                 g_log_open>>

\* The remote thread logs, as a thread of the tool does; a line stands for the ones it
\* logs in a row.
LineOf == [log_loaded    |-> "write_loaded",
           log_installed |-> "write_installed",
           log_outcome   |-> "write_outcome"]

RemoteLocksLog ==
  /\ remote_thread \in DOMAIN LineOf
  /\ g_log_mutex = Nobody
  /\ g_log_mutex' = RemoteThread
  /\ remote_thread' = LineOf[remote_thread]
  /\ UNCHANGED <<launcherVars, processVars, remote_exit_code, hook_index, dll_loaded, hookVars,
                 g_session_named, g_log_open>>

RemoteWrites(line) ==
  /\ remote_thread = line
  /\ g_log_mutex' = Nobody
  /\ UNCHANGED <<launcherVars, processVars, hook_index, dll_loaded, hookVars, g_session_named,
                 g_log_open>>

LogLoaded ==
  /\ RemoteWrites("write_loaded")
  /\ remote_thread' = "attach_create_file"
  /\ UNCHANGED remote_exit_code

\* InstallAll up to its DetourTransactionCommit.
AttachCreateFile ==
  /\ remote_thread = "attach_create_file"
  /\ create_file_attached' = TRUE
  /\ remote_thread' = "store_original"
  /\ UNCHANGED <<launcherVars, processVars, remote_exit_code, hook_index, dll_loaded,
                 original_create_file_set, attached, m_orig, logVars>>

\* No export to detour, or a transaction that does not get through.
InstallFails ==
  /\ remote_thread = "attach_create_file"
  /\ remote_thread' = "log_outcome"
  /\ UNCHANGED <<launcherVars, processVars, remote_exit_code, hook_index, dll_loaded, hookVars,
                 logVars>>

StoreOriginalCreateFile ==
  /\ remote_thread = "store_original"
  /\ original_create_file_set' = TRUE
  /\ remote_thread' = "log_installed"
  /\ UNCHANGED <<launcherVars, processVars, remote_exit_code, hook_index, dll_loaded,
                 create_file_attached, attached, m_orig, logVars>>

LogInstalled ==
  /\ RemoteWrites("write_installed")
  /\ remote_thread' = "apply_hooks"
  /\ UNCHANGED remote_exit_code

\* Mutant: the loop of apply_all_hooks takes one step too many.
MutantLoopsPastEnd ==
  /\ remote_thread = "apply_hooks"
  /\ hook_index <= HookCount + 1
  /\ attached' = [attached EXCEPT ![hook_index] = TRUE]
  /\ remote_thread' = "store_hook"
  /\ UNCHANGED <<launcherVars, processVars, remote_exit_code, hook_index, dll_loaded,
                 create_file_attached, original_create_file_set, m_orig, logVars>>

\* c_hook::apply of the next hook, up to its DetourTransactionCommit.
AttachHook ==
  /\ remote_thread = "apply_hooks"
  /\ hook_index <= HookCount
  /\ attached' = [attached EXCEPT ![hook_index] = TRUE]
  /\ remote_thread' = "store_hook"
  /\ UNCHANGED <<launcherVars, processVars, remote_exit_code, hook_index, dll_loaded,
                 create_file_attached, original_create_file_set, m_orig, logVars>>

\* A transaction that does not get through leaves image and pointer as they
\* were; apply_all_hooks goes on with the next hook.
HookDoesNotApply ==
  /\ remote_thread = "apply_hooks"
  /\ hook_index <= HookCount
  /\ hook_index' = hook_index + 1
  /\ UNCHANGED <<launcherVars, processVars, remote_thread, remote_exit_code, dll_loaded, hookVars,
                 logVars>>

\* Mutant: the trampoline is only kept in the local `original`.
MutantDropsTrampoline ==
  /\ remote_thread = "store_hook"
  /\ hook_index' = hook_index + 1
  /\ remote_thread' = "apply_hooks"
  /\ UNCHANGED <<launcherVars, processVars, remote_exit_code, dll_loaded, hookVars, logVars>>

StoreTrampoline ==
  /\ remote_thread = "store_hook"
  /\ m_orig' = [m_orig EXCEPT ![hook_index] = "trampoline"]
  /\ hook_index' = hook_index + 1
  /\ remote_thread' = "apply_hooks"
  /\ UNCHANGED <<launcherVars, processVars, remote_exit_code, dll_loaded, create_file_attached,
                 original_create_file_set, attached, logVars>>

InstallFinishes ==
  /\ remote_thread = "apply_hooks"
  /\ hook_index > HookCount
  /\ remote_thread' = "log_outcome"
  /\ UNCHANGED <<launcherVars, processVars, remote_exit_code, hook_index, dll_loaded, hookVars,
                 logVars>>

\* DllMain logs whether InstallAll succeeded.
LogOutcome == RemoteWrites("write_outcome") /\ DllMainReturns

RemoteStep ==
  \/ LoadLibraryFails \/ LoadLibrary
  \/ NameSession \/ OpenLog \/ OpenLogFails \/ RemoteLocksLog \/ LogLoaded
  \/ AttachCreateFile \/ InstallFails \/ StoreOriginalCreateFile \/ LogInstalled
  \/ AttachHook \/ HookDoesNotApply \/ StoreTrampoline \/ InstallFinishes \/ LogOutcome

-------------------------------------------------------------------------------
(* The threads of the tool.  A call of a function that is not detoured is    *)
(* not a step.                                                               *)

ThreadMoves(t, from, to) ==
  /\ tool = "running"
  /\ threads[t] = from
  /\ threads' = [threads EXCEPT ![t] = to]
  /\ UNCHANGED <<launcherVars, tool, tool_exit_code, remoteVars, hookVars, g_session_named,
                 g_log_open>>

ThreadGoes(t, from, to) ==
  /\ ThreadMoves(t, from, to)
  /\ UNCHANGED <<log_returns, g_log_mutex>>

\* The thread calls Log, and then goes on.
ThreadLogs(t, from, to) ==
  /\ ThreadMoves(t, from, "compose")
  /\ log_returns' = [log_returns EXCEPT ![t] = to]
  /\ UNCHANGED g_log_mutex

StartThread(t) ==
  /\ threads[MainThread] = "outside"
  /\ ~InDllMain
  /\ ThreadGoes(t, "unborn", "outside")

CallCreateFile(t) ==
  /\ create_file_attached
  /\ ThreadGoes(t, "outside", "check_original")

CheckOriginal(t) ==
  \/ ~original_create_file_set /\ ThreadGoes(t, "check_original", "refused")
  \/ original_create_file_set /\ ThreadLogs(t, "check_original", "call_original")

\* INVALID_HANDLE_VALUE, though nothing is wrong with the file.
ReturnRefused(t) == ThreadGoes(t, "refused", "outside")

\* MakeTimestampPrefix reads g_session_name, with the mutex in anybody's hands.
ComposeLine(t) == ThreadGoes(t, "compose", "lock_log")

LockLog(t) ==
  /\ g_log_mutex = Nobody
  /\ ThreadMoves(t, "lock_log", "write_log")
  /\ g_log_mutex' = t
  /\ UNCHANGED log_returns

WriteLog(t) ==
  /\ ThreadMoves(t, "write_log", log_returns[t])
  /\ g_log_mutex' = Nobody
  /\ log_returns' = [log_returns EXCEPT ![t] = "outside"]

CallOriginalCreateFile(t) == ThreadGoes(t, "call_original", "outside")

\* Some hooked functions log that they begin and end, as
\* build_cache_file_add_tag_resources does; others do not.
CallHooked(t) ==
  /\ \E h \in Hooks : attached[h]
  /\ ThreadLogs(t, "outside", "hooked") \/ ThreadGoes(t, "outside", "hooked")

\* HOOK_INVOKE, in a hook's own function or in a wrapper such a function calls
\* directly.  The target of a hook that is attached leads to its function again.
InvokeOriginal(t) ==
  \E h \in Hooks :
    ThreadGoes(t, "hooked",
               IF attached[h] /\ m_orig[h] = "target" THEN "recursing" ELSE "hooked")

Recurse(t) == ThreadGoes(t, "recursing", "hooked")

ReturnFromHook(t) ==
  ThreadLogs(t, "hooked", "outside") \/ ThreadGoes(t, "hooked", "outside")

\* The process ends with the code: so does the remote thread, if it has begun.
EndThreads(code) ==
  /\ tool_exit_code' = code
  /\ threads' = [u \in ToolThreads |-> "gone"]
  /\ IF remote_thread \in {"none", "ended"}
     THEN UNCHANGED <<remote_thread, remote_exit_code>>
     ELSE remote_thread' = "ended" /\ remote_exit_code' = code
  /\ UNCHANGED <<launcherVars, log_returns, hook_index, dll_loaded, hookVars, logVars>>

\* ExitProcess: once the loader lock is free every other thread ends where it is.
Exit(t) ==
  /\ tool = "running"
  /\ threads[t] \in {"outside", "hooked"}
  /\ ~InDllMain
  /\ tool' = "exiting"
  /\ \E code \in ExitCodes : EndThreads(code)

\* ASSERT is the assert of C, which ends the process by abort; or the thread crashes.
\* Neither asks for the loader lock, nor tells the DLL.
FailAssert(t) ==
  /\ tool = "running"
  /\ threads[t] \in {"outside", "hooked"}
  /\ tool' = "aborted"
  /\ \E code \in ExitCodes : EndThreads(code)

\* hooks::RemoveAll: a transaction that does not get through leaves its hook.
RemoveAll ==
  /\ create_file_attached' \in {FALSE, create_file_attached}
  /\ original_create_file_set' = FALSE
  /\ attached' \in {[h \in Hooks |-> attached[h] /\ h \in stuck] : stuck \in SUBSET Hooks}
  /\ m_orig' = [h \in Hooks |-> IF attached'[h] THEN m_orig[h] ELSE "target"]

\* logging::Shutdown.  An ended thread may have left the mutex locked; Windows then
\* ends the process at the lock, with a code of its own.
Shutdown ==
  IF g_log_mutex = Nobody
  THEN g_log_open' = FALSE /\ UNCHANGED tool_exit_code
  ELSE tool_exit_code' \in ExitCodes /\ UNCHANGED g_log_open

\* DllMain with DLL_PROCESS_DETACH, if the DLL was loaded.
Detach ==
  /\ tool = "exiting"
  /\ tool' = "exited"
  /\ IF dll_loaded
     THEN RemoveAll /\ Shutdown
     ELSE UNCHANGED <<hookVars, g_log_open, tool_exit_code>>
  /\ UNCHANGED <<launcherVars, threads, log_returns, remoteVars, g_session_named, g_log_mutex>>

ToolStep ==
  \/ \E t \in ToolThreads :
       \/ StartThread(t)
       \/ CallCreateFile(t) \/ CheckOriginal(t) \/ ReturnRefused(t)
       \/ ComposeLine(t) \/ LockLog(t) \/ WriteLog(t) \/ CallOriginalCreateFile(t)
       \/ CallHooked(t) \/ InvokeOriginal(t) \/ Recurse(t) \/ ReturnFromHook(t)
       \/ FailAssert(t)
       \/ Exit(t)
  \/ Detach

-------------------------------------------------------------------------------

Finished ==
  /\ launcher = "returned"
  /\ ~Alive
  /\ UNCHANGED vars

Next == LauncherStep \/ RemoteStep \/ ToolStep \/ Finished

\* The launcher and the remote thread are scheduled and wait for nothing but
\* what they name, a line is written once the mutex is taken, and a process that
\* has begun to exit exits.  What the tool calls, and whether it ever exits, is
\* its own affair.  The mutex is given to any of those that wait for it.
Spec ==
  /\ Init /\ [][Next]_vars
  /\ WF_vars(LauncherStep) /\ WF_vars(RemoteStep) /\ WF_vars(Detach)
  /\ \A t \in ToolThreads : WF_vars(WriteLog(t))

-------------------------------------------------------------------------------
(* Properties.                                                               *)

LauncherSteps ==
  {"start", "allocate", "write", "start_thread", "wait_load", "injected", "kill",
   "wait_exit", "returned"}

ThreadSteps ==
  {"unborn", "outside", "check_original", "refused", "compose", "lock_log", "write_log",
   "call_original", "hooked", "recursing", "gone"}

RemoteSteps ==
  {"none", "load_library", "initialize_log", "open_log", "log_loaded", "write_loaded",
   "attach_create_file", "store_original", "log_installed", "write_installed", "apply_hooks",
   "store_hook", "log_outcome", "write_outcome", "ended"}

Codes == ExitCodes \cup {NoCode, 1, 2, 3}

\* Every variable has its type; the hook being applied is one of the registry.
TypeOK ==
  /\ no_suspend_mode \in BOOLEAN
  /\ launcher \in LauncherSteps
  /\ exit_code \in Codes
  /\ remote_buffer \in BOOLEAN
  /\ tool \in {"none", "suspended", "running", "exiting", "exited", "aborted", "terminated"}
  /\ tool_exit_code \in Codes
  /\ threads \in [ToolThreads -> ThreadSteps]
  /\ log_returns \in [ToolThreads -> {"outside", "hooked", "call_original"}]
  /\ remote_thread \in RemoteSteps
  /\ remote_exit_code \in ExitCodes \cup ModuleHandles \cup {NoCode, 0}
  /\ hook_index \in 1 .. HookCount + 1
  /\ remote_thread = "store_hook" => hook_index \in Hooks
  /\ {dll_loaded, create_file_attached, original_create_file_set, g_session_named,
      g_log_open} \subseteq BOOLEAN
  /\ attached \in [Hooks -> BOOLEAN]
  /\ m_orig \in [Hooks -> {"target", "trampoline"}]
  /\ g_log_mutex \in ToolThreads \cup {RemoteThread, Nobody}

\* No tool is left behind: once the launcher has returned, on whatever path,
\* the process it created has ended, and so has the thread it started there.
ToolNotLeftBehind ==
  launcher = "returned" =>
    /\ ~Alive
    /\ remote_thread \in {"none", "ended"}

\* The path in the tool's memory stays there as long as LoadLibraryW may read
\* it, and is freed on every path.
PathFreedInTime ==
  /\ remote_thread = "load_library" => remote_buffer
  /\ launcher \in {"kill", "injected", "wait_exit", "returned"} => ~remote_buffer

\* Calling an original reaches native code, whatever hooks failed to attach or
\* to detach: the pointer is the trampoline exactly when the jump is in place,
\* but for the moment between a commit and the store after it, where an abort may
\* leave them; and the original CreateFileW, once checked, is there until it is called.
OriginalsReachNative ==
  /\ \A h \in Hooks :
       \/ attached[h] <=> m_orig[h] = "trampoline"
       \/ hook_index = h /\ (remote_thread = "store_hook" \/ tool = "aborted")
  /\ \A t \in ToolThreads :
       "call_original" \in {threads[t], log_returns[t]} /\ threads[t] # "gone"
         => original_create_file_set

Logging(t) == threads[t] \in {"compose", "lock_log", "write_log"}

\* Log reads the name of the session without the mutex Initialize assigns it
\* under, and WriteRaw drops a line that has no file: no thread of the tool logs
\* before Initialize has named the session and opened the file, nor after it is closed.
LogReady ==
  (\E t \in ToolThreads : Logging(t)) =>
    g_session_named /\ g_log_open

\* A tool that is started suspended is never caught between a commit and the store
\* after it: no CreateFileW is refused, and no hooked function calls itself for its
\* original.  (Under a debugger its threads may be.)
NeverHalfInstalled ==
  ~no_suspend_mode => \A t \in ToolThreads : threads[t] \notin {"refused", "recursing"}

\* A tool that was started suspended and exited or aborted by itself has its exit code
\* returned, and not one of the launcher's own.
ExitCodeReported ==
  ~no_suspend_mode /\ launcher = "returned" /\ tool \in {"exited", "aborted"} =>
    exit_code = tool_exit_code

\* Of the tools started suspended only one that has not run yet is terminated: a
\* map is never left half built by the launcher.
ToolNotInterrupted ==
  [][~no_suspend_mode /\ tool' = "terminated" => tool \in {"suspended", "terminated"}]_vars

\* The injection ends: the tool runs or the launcher gives up.  Only a tool that is
\* running already, under a debugger, and logs for ever may keep the remote thread
\* from the mutex.
InjectionSettles ==
  \/ launcher = "allocate" ~> launcher \in {"wait_exit", "returned"}
  \/ []<>(\E t \in ToolThreads : threads[t] = "write_log")

\* The launcher returns once the tool is on its way out, or gone.
ToolExitNoticed == tool \in {"exiting", "aborted"} ~> launcher = "returned"

\* "the launcher resumes the tool only after hooks are committed", says DllMain.
ResumedOnlyAfterHooks == tool = "running" => create_file_attached
=============================================================================
