---------------------------- MODULE MCTestPipeline ----------------------------
(* Texts of up to three lines, of which one may be empty; paths with and without blanks. *)
EXTENDS TestPipeline

CONSTANTS tag_line

MCTexts == UNION {[1 .. n -> {tag_line, EmptyLine}] : n \in 0 .. 3}

MCStaleTexts == {<<tag_line>>, <<EmptyLine, tag_line, EmptyLine>>}

\* The one test.ps1 knows is below "Program Files (x86)".
MCPaths == {<<"H3EK">>, <<"Program", "Files", "(x86)/H3EK">>}
=============================================================================
