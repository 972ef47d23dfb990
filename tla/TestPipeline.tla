------------------------------ MODULE TestPipeline ------------------------------
(***************************************************************************)
(* The end-to-end test: build a map through the launcher, copy the tag     *)
(* that the builder left behind to the tags directory, have tool.exe       *)
(* export it to XML and compare that with the expected one.  All four      *)
(* files outlive the test, so there may be others of earlier runs.         *)
(*                                                                         *)
(* A tag stands for what tool.exe exports of it, and a text for the lines  *)
(* getline reads from it.  A tool that exits with 0 may have created       *)
(* nothing: the test looks for the files, but removes only the XML before. *)
(* What it is asked comes to it on a command line, with the paths of the   *)
(* installation and of the project in it: CommandLine.                     *)
(***************************************************************************)
EXTENDS Integers, CommandLine

CONSTANTS
  Texts,      \* the texts there may be: sequences of lines
  EmptyLine,
  Absent,     \* no file
  ExitCodes,  \* how a tool, or the launcher in its place, may fail
  StaleTexts, \* what an earlier run may have left
  Paths,      \* where launcher, tool.exe and the XML may be, as arguments
  NoCode

ASSUME TextsAssumption ==
  /\ \A text \in Texts : text \in Seq(Range(text))
  /\ Absent \notin Texts
  /\ StaleTexts \subseteq Texts
  /\ 0 \notin ExitCodes /\ NoCode \notin ExitCodes \cup {0, 1, 2}

\* A path is not empty.
ASSUME PathsAssumption ==
  \A path \in Paths : path \in Seq(Range(path)) \ {<<>>}

VARIABLES
  source_tag, target_tag, \* in cache_builder and in tags\cache_builder
  expected_xml, actual_xml,
  built,                  \* the tag this run has built, if any
  launcher_exe, tool_exe, actual_path,
  tool_argv,              \* what tool.exe was last started with
  line_number,
  difference_count,
  exit_code,
  pc

paths  == <<launcher_exe, tool_exe, actual_path>>
files  == <<source_tag, target_tag, expected_xml, actual_xml>>
locals == <<line_number, difference_count>>
asked  == <<paths, tool_argv>>
vars   == <<files, built, asked, locals, exit_code, pc>>

MaybeStale == StaleTexts \cup {Absent}

Init ==
  /\ source_tag \in MaybeStale
  /\ target_tag \in MaybeStale
  /\ actual_xml \in MaybeStale
  /\ expected_xml \in Texts \cup {Absent}
  /\ built = Absent
  /\ launcher_exe \in Paths
  /\ tool_exe \in Paths
  /\ actual_path \in Paths
  /\ tool_argv = <<>>
  /\ line_number = 0
  /\ difference_count = 0
  /\ exit_code = NoCode
  /\ pc = "setup"

-------------------------------------------------------------------------------

Exits(code) ==
  /\ exit_code' = code
  /\ pc' = "exited"

Continue(next) ==
  /\ pc' = next
  /\ UNCHANGED exit_code

\* The directories, tool.exe, the launcher and the project root are found.
SetUp ==
  /\ pc = "setup"
  /\ Continue("build")
  /\ UNCHANGED <<files, built, asked, locals>>

SetUpFails ==
  /\ pc = "setup"
  /\ Exits(1)
  /\ UNCHANGED <<files, built, asked, locals>>

map_path == <<"levels/ui/mainmenu/mainmenu">>

\* What tool.exe gets: the test writes the command line of the launcher, and that the
\* one of tool.exe.
BuildArguments ==
  RunToolWithForwardedArguments(CommandLineToArgv(
    JoinLauncherCommandLine(launcher_exe, <<tool_exe, <<"build-cache-file">>, map_path>>)))

Build ==
  /\ pc = "build"
  /\ \/ \E tag \in Texts : source_tag' = tag /\ built' = tag
     \/ UNCHANGED <<source_tag, built>>
  /\ tool_argv' = BuildArguments
  /\ Continue("find_expected")
  /\ UNCHANGED <<target_tag, expected_xml, actual_xml, paths, locals>>

\* tool.exe may not have been started, and may have left a tag behind all the same.
BuildFails ==
  /\ pc = "build"
  /\ source_tag' \in {source_tag} \cup StaleTexts
  /\ tool_argv' \in {tool_argv, BuildArguments}
  /\ \E code \in ExitCodes : Exits(code)
  /\ UNCHANGED <<target_tag, expected_xml, actual_xml, built, paths, locals>>

FindExpected ==
  /\ pc = "find_expected"
  /\ expected_xml # Absent
  /\ Continue("remove_actual")
  /\ UNCHANGED <<files, built, asked, locals>>

\* No baseline, or no directory for the actual XML.
FindExpectedFails ==
  /\ pc = "find_expected"
  /\ Exits(1)
  /\ UNCHANGED <<files, built, asked, locals>>

\* Mutant: a file of an earlier run is left where it is.
MutantKeepsActual ==
  /\ pc = "remove_actual"
  /\ Continue("move_zone")
  /\ UNCHANGED <<files, built, asked, locals>>

RemoveActual ==
  /\ pc = "remove_actual"
  /\ actual_xml' = Absent
  /\ Continue("move_zone")
  /\ UNCHANGED <<source_tag, target_tag, expected_xml, built, asked, locals>>

\* filesystem::remove throws of a file that cannot be removed.
RemoveActualThrows ==
  /\ pc = "remove_actual"
  /\ actual_xml # Absent
  /\ pc' = "thrown"
  /\ UNCHANGED <<files, built, asked, locals, exit_code>>

MoveZone ==
  /\ pc = "move_zone"
  /\ source_tag # Absent
  /\ target_tag' = source_tag
  /\ Continue("export")
  /\ UNCHANGED <<source_tag, expected_xml, actual_xml, built, asked, locals>>

\* No tag, no directory for it, or the copy fails.
MoveZoneFails ==
  /\ pc = "move_zone"
  /\ Exits(1)
  /\ UNCHANGED <<files, built, asked, locals>>

zone_tag_path == <<"/tags/cache_builder/mainmenu.cache_file_resource_gestalt">>

\* Mutant: the path of the XML is not quoted.
MutantXmlBare ==
  CommandLineToArgv(<<Quote(tool_exe), Bare(<<"export-tag-to-xml">>), Quote(zone_tag_path),
                      Bare(actual_path)>>)

ExportArguments ==
  CommandLineToArgv(<<Quote(tool_exe), Bare(<<"export-tag-to-xml">>), Quote(zone_tag_path),
                      Quote(actual_path)>>)

Export ==
  /\ pc = "export"
  /\ actual_xml' \in {actual_xml, target_tag}
  /\ tool_argv' = ExportArguments
  /\ Continue("find_actual")
  /\ UNCHANGED <<source_tag, target_tag, expected_xml, built, paths, locals>>

ExportFails ==
  /\ pc = "export"
  /\ actual_xml' \in {actual_xml, target_tag}
  /\ tool_argv' \in {tool_argv, ExportArguments}
  /\ \E code \in ExitCodes : Exits(code)
  /\ UNCHANGED <<source_tag, target_tag, expected_xml, built, paths, locals>>

FindActual ==
  /\ pc = "find_actual"
  /\ IF actual_xml = Absent THEN Exits(1) ELSE Continue("compare")
  /\ UNCHANGED <<files, built, asked, locals>>

\* A file that does not open counts as a difference.
OpenFails ==
  /\ pc = "compare"
  /\ line_number = 0
  /\ Exits(2)
  /\ UNCHANGED <<files, built, asked, locals>>

\* getline, and what stands for a line behind the last one.
LineOf(text, number) == IF number <= Len(text) THEN text[number] ELSE EmptyLine

\* Mutant: the end of one file is enough.
MutantEndOfOne ==
  \/ line_number = Len(expected_xml)
  \/ line_number = Len(actual_xml)

EndOfBoth ==
  /\ line_number >= Len(expected_xml)
  /\ line_number >= Len(actual_xml)

CompareLine ==
  /\ pc = "compare"
  /\ ~EndOfBoth
  /\ line_number' = line_number + 1
  /\ difference_count' =
       IF LineOf(expected_xml, line_number') # LineOf(actual_xml, line_number')
       THEN difference_count + 1 ELSE difference_count
  /\ UNCHANGED <<files, built, asked, exit_code, pc>>

CompareEnds ==
  /\ pc = "compare"
  /\ EndOfBoth
  /\ Exits(IF difference_count = 0 THEN 0 ELSE 2)
  /\ UNCHANGED <<files, built, asked, locals>>

Step ==
  \/ SetUp \/ SetUpFails
  \/ Build \/ BuildFails
  \/ FindExpected \/ FindExpectedFails
  \/ RemoveActual \/ RemoveActualThrows
  \/ MoveZone \/ MoveZoneFails
  \/ Export \/ ExportFails
  \/ FindActual \/ OpenFails
  \/ CompareLine \/ CompareEnds

Finished == pc \in {"exited", "thrown"} /\ UNCHANGED vars

Next == Step \/ Finished

Spec == Init /\ [][Next]_vars

-------------------------------------------------------------------------------
(* Properties.                                                               *)

\* The two texts have the same lines but for empty ones at the end.
SameLines ==
  \A i \in DOMAIN expected_xml \cup DOMAIN actual_xml :
    LineOf(expected_xml, i) = LineOf(actual_xml, i)

\* However many lines each file has, the comparison ends in 0 exactly if they are
\* the same.
VerdictExact ==
  [][CompareEnds => (exit_code' = 0 <=> SameLines)]_vars

\* A test that passes has compared the tag in cache_builder, which is the one this run
\* has built if it has built any, and nothing that an earlier run left behind in the
\* tags directory or as XML.  (A build that exits with 0 and writes nothing leaves the
\* tag of an earlier one, which the test then takes for its own.)
VerdictAboutThisBuild ==
  exit_code = 0 =>
    /\ actual_xml = source_tag
    /\ built # Absent => actual_xml = built

\* Wherever the test, tool.exe and the XML are, in a path with blanks or without, tool.exe
\* is started with the arguments the test means, through the launcher and directly.
ToolAskedAsMeant ==
  /\ pc \in {"find_expected", "remove_actual", "move_zone", "export"} =>
       tool_argv = <<tool_exe, <<"build-cache-file">>, map_path>>
  /\ pc \in {"find_actual", "compare"} =>
       tool_argv = <<tool_exe, <<"export-tag-to-xml">>, zone_tag_path, actual_path>>

\* "XML files are identical.", the test prints when it passes.
IdenticalIfPassed == exit_code = 0 => expected_xml = actual_xml
=============================================================================
