-------------------------- MODULE MCLauncherArguments --------------------------
(* The launcher started with up to three arguments for tool.exe, of up to two *)
(* words each.                                                                *)
EXTENDS CommandLine

CONSTANTS launcher, tool, word, other_word

Arguments == BoundedSeq({word, other_word}, 2) \ {<<>>}

VARIABLES
  arguments, \* what the user wants tool.exe to get
  tool_argv  \* what tool.exe gets

vars == <<arguments, tool_argv>>

Init ==
  /\ arguments \in BoundedSeq(Arguments, 3)
  /\ tool_argv = <<>>

RunTool ==
  /\ tool_argv = <<>>
  /\ tool_argv' = RunToolWithForwardedArguments(<<<<launcher>>, <<tool>>>> \o arguments)
  /\ UNCHANGED arguments

Spec == Init /\ [][RunTool]_vars

\* "Usage: tool_launcher <path to tool.exe> [arguments passed to tool...]": tool.exe gets
\* the arguments that follow its path.
ArgumentsForwarded == tool_argv # <<>> => Tail(tool_argv) = arguments
=============================================================================
