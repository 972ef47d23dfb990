--------------------------- MODULE TestPipelineProofs ---------------------------
(***************************************************************************)
(* Proofs about TestPipeline and the command lines of CommandLine.         *)
(***************************************************************************)
EXTENDS TestPipeline, CseriesProofs

-------------------------------------------------------------------------------
(* Command lines.                                                            *)

\* FlattenSeq is the last value of any function that goes through the sequences as it
\* does: there is only one.
LEMMA FlattenedBy ==
  ASSUME NEW seqs, Len(seqs) \in Nat \ {0}, NEW f,
         f = [i \in 1 .. Len(seqs) |-> IF i = 1 THEN seqs[i] ELSE f[i - 1] \o seqs[i]]
  PROVE  FlattenSeq(seqs) = f[Len(seqs)]
<1> DEFINE n == Len(seqs)
           flatten == CHOOSE g : g = [i \in 1 .. n |->
                                       IF i = 1 THEN seqs[i] ELSE g[i - 1] \o seqs[i]]
           Same == {k \in 0 .. n : k = 0 \/ flatten[k] = f[k]}
<1>1. flatten = [i \in 1 .. n |-> IF i = 1 THEN seqs[i] ELSE flatten[i - 1] \o seqs[i]]
  OBVIOUS
<1>2. FlattenSeq(seqs) = flatten[n]
  BY DEF FlattenSeq
<1> HIDE DEF flatten
<1>3. \A k \in 0 .. n : k \in Same
  <2>1. 0 \in Same
    OBVIOUS
  <2>2. ASSUME NEW k \in 0 .. n - 1, k \in Same PROVE k + 1 \in Same
    <3>1. k + 1 \in 1 .. n /\ k + 1 \in 0 .. n /\ (k + 1 = 1 <=> k = 0) /\ (k + 1) - 1 = k
      OBVIOUS
    <3>2. flatten[k + 1] = IF k = 0 THEN seqs[k + 1] ELSE flatten[k] \o seqs[k + 1]
      BY <1>1, <3>1
    <3>3. f[k + 1] = IF k = 0 THEN seqs[k + 1] ELSE f[k] \o seqs[k + 1]
      BY <3>1
    <3> QED BY <2>2, <3>1, <3>2, <3>3
  <2> HIDE DEF Same
  <2> QED BY <2>1, <2>2, AllUpTo
<1>4. n \in 0 .. n /\ n # 0
  OBVIOUS
<1>5. flatten[n] = f[n]
  BY <1>3, <1>4
<1> HIDE DEF Same
<1> QED BY <1>2, <1>5

\* Sequences of one element each are put together to the sequence of these.
LEMMA SingletonsFlattened ==
  ASSUME NEW T, NEW x \in Seq(T)
  PROVE  FlattenSeq([i \in 1 .. Len(x) |-> <<x[i]>>]) = x
<1> DEFINE n    == Len(x)
           seqs == [i \in 1 .. n |-> <<x[i]>>]
           f    == [i \in 1 .. n |-> [j \in 1 .. i |-> x[j]]]
<1>1. n \in Nat /\ x = [i \in 1 .. n |-> x[i]] /\ (n = 0 => x = <<>>)
  OBVIOUS
<1>2. Len(seqs) = n
  OBVIOUS
<1>3. CASE n = 0
  BY <1>1, <1>2, <1>3 DEF FlattenSeq
<1>4. CASE n # 0
  <2>1. ASSUME NEW i \in 1 .. n
        PROVE  f[i] = IF i = 1 THEN seqs[i] ELSE f[i - 1] \o seqs[i]
    <3>1. CASE i = 1
      BY <3>1
    <3>2. CASE i # 1
      <4>1. i - 1 \in 1 .. n
        BY <3>2
      <4>2. f[i - 1] = [j \in 1 .. i - 1 |-> x[j]] /\ f[i] = [j \in 1 .. i |-> x[j]]
        BY <4>1
      <4>3. \A j \in 1 .. n : x[j] \in T
        OBVIOUS
      <4>4. [j \in 1 .. i - 1 |-> x[j]] \o <<x[i]>> = [j \in 1 .. i |-> x[j]]
        BY <3>2, <4>3
      <4> QED BY <3>2, <4>2, <4>4
    <3> QED BY <3>1, <3>2
  <2>2. f = [i \in 1 .. Len(seqs) |-> IF i = 1 THEN seqs[i] ELSE f[i - 1] \o seqs[i]]
    BY <1>2, <2>1
  <2>3. Len(seqs) \in Nat \ {0}
    BY <1>1, <1>2, <1>4
  <2>4. FlattenSeq(seqs) = f[Len(seqs)]
    <3> HIDE DEF f, seqs
    <3> QED BY <2>2, <2>3, FlattenedBy
  <2>5. f[n] = x
    BY <1>1, <1>4
  <2> QED BY <1>2, <2>4, <2>5
<1> QED BY <1>3, <1>4

\* Two sequences are put one behind the other.
LEMMA PairFlattened ==
  ASSUME NEW a, NEW b
  PROVE  FlattenSeq(<<a, b>>) = a \o b
<1> DEFINE f == [i \in 1 .. 2 |-> IF i = 1 THEN a ELSE a \o b]
<1>1. f = [i \in 1 .. Len(<<a, b>>) |-> IF i = 1 THEN <<a, b>>[i] ELSE f[i - 1] \o <<a, b>>[i]]
  OBVIOUS
<1>2. f[2] = a \o b /\ Len(<<a, b>>) = 2
  OBVIOUS
<1>3. Len(<<a, b>>) \in Nat \ {0}
  OBVIOUS
<1>4. FlattenSeq(<<a, b>>) = f[Len(<<a, b>>)]
  <2> HIDE DEF f
  <2> QED BY <1>1, <1>3, FlattenedBy
<1> QED BY <1>2, <1>4

\* The arguments a command line is split into, if each piece is quoted or a single word.
LEMMA EachPieceAnArgument ==
  ASSUME NEW T, NEW argv \in Seq(T), NEW line, DOMAIN line = 1 .. Len(argv),
         \A i \in 1 .. Len(argv) :
           line[i].words = argv[i] /\ (line[i].quoted \/ argv[i] = <<argv[i][1]>>)
  PROVE  CommandLineToArgv(line) = argv
<1>1. ASSUME NEW i \in 1 .. Len(argv)
      PROVE  (IF line[i].quoted THEN <<line[i].words>>
              ELSE [word \in DOMAIN line[i].words |-> <<line[i].words[word]>>]) = <<argv[i]>>
  <2>1. CASE line[i].quoted
    BY <2>1
  <2>2. CASE ~line[i].quoted
    <3>1. PICK w : argv[i] = <<w>>
      BY <2>2
    <3>2. DOMAIN <<w>> = 1 .. 1 /\ [word \in DOMAIN <<w>> |-> << <<w>>[word] >>] = << <<w>> >>
      OBVIOUS
    <3> QED BY <2>2, <3>1, <3>2
  <2> QED BY <2>1, <2>2
<1>2. [i \in DOMAIN line |->
        LET piece == line[i]
        IN  IF piece.quoted THEN <<piece.words>>
            ELSE [word \in DOMAIN piece.words |-> <<piece.words[word]>>]]
      = [i \in 1 .. Len(argv) |-> <<argv[i]>>]
  BY <1>1
<1> QED BY <1>2, SingletonsFlattened DEF CommandLineToArgv

\* The command line that tests/main.cpp writes for the launcher is split into the path of
\* the launcher and the arguments, if none of these is empty.
LEMMA LauncherGetsArguments ==
  ASSUME NEW W, NEW launcher \in Seq(W), NEW args \in Seq(Seq(W)),
         \A i \in DOMAIN args : args[i] # <<>>
  PROVE  CommandLineToArgv(JoinLauncherCommandLine(launcher, args)) = <<launcher>> \o args
<1> DEFINE argv   == <<launcher>> \o args
           pieces == [i \in DOMAIN args |->
                       IF HasBlank(args[i]) THEN Quote(args[i]) ELSE Bare(args[i])]
           line   == <<Quote(launcher)>> \o pieces
<1>1. /\ argv \in Seq(Seq(W))
      /\ Len(argv) = Len(args) + 1 /\ Len(args) \in Nat
      /\ argv[1] = launcher
      /\ \A i \in 1 .. Len(args) : argv[i + 1] = args[i]
  OBVIOUS
<1>2. DOMAIN line = 1 .. Len(argv) /\ line[1] = Quote(launcher)
      /\ \A i \in 1 .. Len(args) : line[i + 1] = pieces[i]
  <2> DEFINE Pieces == {pieces[i] : i \in DOMAIN args} \cup {Quote(launcher)}
  <2>1. pieces \in Seq(Pieces) /\ Len(pieces) = Len(args)
    OBVIOUS
  <2> HIDE DEF Pieces, pieces
  <2> QED BY <2>1, <1>1
<1>3. ASSUME NEW i \in 1 .. Len(args)
      PROVE  pieces[i].words = args[i] /\ (pieces[i].quoted \/ args[i] = <<args[i][1]>>)
  <2>1. args[i] \in Seq(W) /\ args[i] # <<>>
    OBVIOUS
  <2>2. CASE HasBlank(args[i])
    BY <2>2 DEF Quote
  <2>3. CASE ~HasBlank(args[i])
    <3>1. args[i] = <<args[i][1]>>
      BY <2>1, <2>3 DEF HasBlank
    <3>2. pieces[i].words = args[i]
      BY <2>3 DEF Bare
    <3> QED BY <3>1, <3>2
  <2> QED BY <2>2, <2>3
<1>4. Quote(launcher).quoted /\ Quote(launcher).words = launcher
  BY DEF Quote
<1> HIDE DEF argv, pieces, line
<1>5. ASSUME NEW i \in 1 .. Len(argv)
      PROVE  line[i].words = argv[i] /\ (line[i].quoted \/ argv[i] = <<argv[i][1]>>)
  <2>1. CASE i = 1
    BY <1>1, <1>2, <1>4, <2>1
  <2>2. CASE i # 1
    <3>1. i - 1 \in 1 .. Len(args) /\ (i - 1) + 1 = i
      BY <1>1, <2>2
    <3>2. argv[i] = args[i - 1] /\ line[i] = pieces[i - 1]
      BY <1>1, <1>2, <3>1
    <3> QED BY <1>3, <3>1, <3>2
  <2> QED BY <2>1, <2>2
<1>6. CommandLineToArgv(line) = argv
  BY <1>1, <1>2, <1>5, EachPieceAnArgument
<1> QED BY <1>6 DEF argv, line, pieces, JoinLauncherCommandLine

\* The launcher passes arguments on as it was given them, any number of them, if each is
\* a single word.  (Another one reaches the tool as more or fewer: ArgumentsForwarded.)
THEOREM SingleWordsForwarded ==
  ASSUME NEW W, NEW launcher \in Seq(W), NEW tool \in Seq(W), NEW args \in Seq(Seq(W)),
         \A i \in DOMAIN args : Len(args[i]) = 1
  PROVE  RunToolWithForwardedArguments(<<launcher, tool>> \o args) = <<tool>> \o args
<1> DEFINE argv  == <<launcher, tool>> \o args
           words == [i \in 1 .. Len(args) |-> args[i][1]]
<1>1. /\ Len(argv) = Len(args) + 2
      /\ argv[2] = tool
      /\ SubSeq(argv, 3, Len(argv)) = args
  OBVIOUS
<1>2. words \in Seq(W) /\ Len(words) = Len(args)
  OBVIOUS
<1>3. args = [i \in 1 .. Len(args) |-> <<words[i]>>]
  OBVIOUS
<1>4. FlattenSeq(args) = words
  <2> HIDE DEF words
  <2> QED BY <1>2, <1>3, SingletonsFlattened
<1>5. JoinArgumentsFrom(argv, 3) = Bare(words)
  BY <1>1, <1>4 DEF JoinArgumentsFrom
<1> DEFINE line == <<Quote(tool), Bare(words)>>
<1>6. RunToolWithForwardedArguments(argv) = CommandLineToArgv(line)
  BY <1>1, <1>5 DEF RunToolWithForwardedArguments, ToolCommandLine
<1>7. [i \in DOMAIN line |->
        LET piece == line[i]
        IN  IF piece.quoted THEN <<piece.words>>
            ELSE [word \in DOMAIN piece.words |-> <<piece.words[word]>>]]
      = << <<tool>>, args >>
  <2>1. DOMAIN words = 1 .. Len(args)
    BY <1>2
  <2>2. [word \in DOMAIN words |-> <<words[word]>>] = args
    BY <1>3, <2>1
  <2>3. DOMAIN line = 1 .. 2 /\ line[1] = Quote(tool) /\ line[2] = Bare(words)
    OBVIOUS
  <2>4. Quote(tool).quoted /\ Quote(tool).words = tool
    BY DEF Quote
  <2>5. ~Bare(words).quoted /\ Bare(words).words = words
    BY DEF Bare
  <2> HIDE DEF line, words
  <2> QED BY <2>2, <2>3, <2>4, <2>5
<1>8. CommandLineToArgv(line) = FlattenSeq(<< <<tool>>, args >>)
  BY <1>7 DEF CommandLineToArgv
<1> QED BY <1>6, <1>8, PairFlattened

-------------------------------------------------------------------------------
(* The test.                                                                 *)

\* The words of what tool.exe is asked: those of the test, and those of the paths.
FixedWords ==
  {"build-cache-file", "levels/ui/mainmenu/mainmenu", "export-tag-to-xml",
   "/tags/cache_builder/mainmenu.cache_file_resource_gestalt"}

Words == FixedWords \cup UNION {Range(path) : path \in Paths}

\* What the test always asks is made of such words.
LEMMA FixedArguments ==
  /\ <<"build-cache-file">> \in Seq(Words) /\ map_path \in Seq(Words)
  /\ <<"export-tag-to-xml">> \in Seq(Words) /\ zone_tag_path \in Seq(Words)
<1>1. FixedWords \subseteq Words
  BY Zenon DEF Words
<1>2. \A w \in FixedWords : <<w>> \in Seq(Words)
  BY <1>1
<1> QED BY <1>2 DEF FixedWords, map_path, zone_tag_path

\* A path is a sequence of them, and not empty.
LEMMA PathWords ==
  \A path \in Paths : path \in Seq(Words) /\ path # <<>>
<1> SUFFICES ASSUME NEW path \in Paths PROVE path \in Seq(Words) /\ path # <<>>
  OBVIOUS
<1>1. path \in Seq(Range(path)) /\ path # <<>>
  BY PathsAssumption
<1>2. Range(path) \subseteq Words
  BY DEF Words
<1> HIDE DEF Words
<1> QED BY <1>1, <1>2

\* Two ways to put four together.
LEMMA FirstAndRest ==
  ASSUME NEW T, NEW a \in T, NEW b \in T, NEW c \in T, NEW d \in T
  PROVE  <<a>> \o <<b, c, d>> = <<a, b>> \o <<c, d>> /\ <<b>> \o <<c, d>> = <<b, c, d>>
<1>1. /\ <<a>> \in Seq(T) /\ <<b, c, d>> \in Seq(T) /\ <<a, b>> \in Seq(T)
      /\ <<c, d>> \in Seq(T) /\ <<b>> \in Seq(T)
  OBVIOUS
<1> DEFINE x == <<a>> \o <<b, c, d>>
           y == <<a, b>> \o <<c, d>>
           z == <<b>> \o <<c, d>>
<1>2. x \in Seq(T) /\ Len(x) = 4 /\ x[1] = a /\ x[2] = b /\ x[3] = c /\ x[4] = d
  BY <1>1, ConcatProperties
<1>3. y \in Seq(T) /\ Len(y) = 4 /\ y[1] = a /\ y[2] = b /\ y[3] = c /\ y[4] = d
  BY <1>1, ConcatProperties
<1>4. z \in Seq(T) /\ Len(z) = 3 /\ z[1] = b /\ z[2] = c /\ z[3] = d
  BY <1>1, ConcatProperties
<1> HIDE DEF x, y, z
<1>5. x = y
  BY <1>2, <1>3, SeqEqual
<1>6. z = <<b, c, d>>
  BY <1>1, <1>4, SeqEqual
<1> QED BY <1>5, <1>6 DEF x, y, z

\* Through the launcher tool.exe is asked to build the map.
LEMMA BuildAskedAsMeant ==
  ASSUME launcher_exe \in Paths, tool_exe \in Paths
  PROVE  BuildArguments = <<tool_exe, <<"build-cache-file">>, map_path>>
<1> DEFINE args == <<tool_exe, <<"build-cache-file">>, map_path>>
           rest == << <<"build-cache-file">>, map_path >>
<1>1. launcher_exe \in Seq(Words) /\ tool_exe \in Seq(Words) /\ tool_exe # <<>>
  BY PathWords
<1>2. rest \in Seq(Seq(Words)) /\ \A i \in DOMAIN rest : Len(rest[i]) = 1
  BY FixedArguments DEF map_path
<1>3. args \in Seq(Seq(Words)) /\ \A i \in DOMAIN args : args[i] # <<>>
  BY <1>1, FixedArguments DEF map_path
<1>4. /\ <<launcher_exe>> \o args = <<launcher_exe, tool_exe>> \o rest
      /\ <<tool_exe>> \o rest = args
  <2> DEFINE T == Seq(Words)
             b == <<"build-cache-file">>
  <2>1. launcher_exe \in T /\ tool_exe \in T /\ b \in T /\ map_path \in T
    BY <1>1, FixedArguments
  <2> HIDE DEF T, b
  <2> HIDE DEF args, rest
  <2>2. <<launcher_exe>> \o <<tool_exe, b, map_path>>
          = <<launcher_exe, tool_exe>> \o <<b, map_path>>
    BY <2>1, FirstAndRest
  <2>3. <<tool_exe>> \o <<b, map_path>> = <<tool_exe, b, map_path>>
    BY <2>1, FirstAndRest
  <2> QED BY <2>2, <2>3 DEF b, args, rest
<1> HIDE DEF args, rest
<1>5. CommandLineToArgv(JoinLauncherCommandLine(launcher_exe, args)) = <<launcher_exe>> \o args
  BY <1>1, <1>3, LauncherGetsArguments
<1>6. RunToolWithForwardedArguments(<<launcher_exe, tool_exe>> \o rest) = <<tool_exe>> \o rest
  BY <1>1, <1>2, SingleWordsForwarded
<1> QED BY <1>4, <1>5, <1>6 DEF BuildArguments, args

\* Directly it is asked to export the tag.
LEMMA ExportAskedAsMeant ==
  ASSUME tool_exe \in Paths, actual_path \in Paths
  PROVE  ExportArguments =
           <<tool_exe, <<"export-tag-to-xml">>, zone_tag_path, actual_path>>
<1> DEFINE argv == <<tool_exe, <<"export-tag-to-xml">>, zone_tag_path, actual_path>>
           line == <<Quote(tool_exe), Bare(<<"export-tag-to-xml">>), Quote(zone_tag_path),
                     Quote(actual_path)>>
<1>1. tool_exe \in Seq(Words) /\ actual_path \in Seq(Words)
  BY PathWords
<1>2. argv \in Seq(Seq(Words)) /\ Len(argv) = 4
  BY <1>1, FixedArguments
<1>3. DOMAIN line = 1 .. Len(argv)
  OBVIOUS
<1>4. \A i \in 1 .. Len(argv) :
        line[i].words = argv[i] /\ (line[i].quoted \/ argv[i] = <<argv[i][1]>>)
  <2>1. line[1].words = argv[1] /\ line[1].quoted
    BY DEF Quote
  <2>2. line[2].words = argv[2] /\ argv[2] = <<argv[2][1]>>
    BY DEF Bare
  <2>3. line[3].words = argv[3] /\ line[3].quoted
    BY DEF Quote
  <2>4. line[4].words = argv[4] /\ line[4].quoted
    BY DEF Quote
  <2>5. \A i \in 1 .. Len(argv) : i \in {1, 2, 3, 4}
    BY <1>2
  <2> HIDE DEF argv, line
  <2> QED BY <2>1, <2>2, <2>3, <2>4, <2>5
<1> HIDE DEF argv, line
<1>5. CommandLineToArgv(line) = argv
  BY <1>2, <1>3, <1>4, EachPieceAnArgument
<1> QED BY <1>5 DEF ExportArguments, argv, line

PathsKnown == launcher_exe \in Paths /\ tool_exe \in Paths /\ actual_path \in Paths

\* Where the tag of this run is, if it has built one, from its build to the comparison,
\* and that nothing else is where it should be.
BuildFollowed ==
  /\ source_tag \in Texts \cup {Absent}
  /\ pc \in {"setup", "build"} => built = Absent
  /\ pc \in {"find_expected", "remove_actual", "move_zone", "export", "find_actual", "compare"} =>
       built = Absent \/ source_tag = built
  /\ pc \in {"export", "find_actual", "compare"} => source_tag # Absent
  /\ pc \in {"move_zone", "export"} => actual_xml = Absent
  /\ pc = "export" => target_tag = source_tag
  /\ pc = "find_actual" => actual_xml \in {Absent, source_tag}
  /\ pc = "compare" => actual_xml = source_tag
  /\ exit_code # NoCode => pc = "exited"

\* What the comparison has found in the lines it has seen.
DifferencesCounted ==
  /\ pc \in {"setup", "build", "find_expected"} => expected_xml \in Texts \cup {Absent}
  /\ pc \in {"remove_actual", "move_zone", "export", "find_actual", "compare"} =>
       expected_xml \in Texts
  /\ line_number \in Nat /\ difference_count \in Nat
  /\ pc \notin {"compare", "exited"} => line_number = 0 /\ difference_count = 0
  /\ pc = "compare" =>
       (difference_count = 0 <=>
          \A i \in 1 .. line_number : LineOf(expected_xml, i) = LineOf(actual_xml, i))

PipelineInvariant ==
  /\ PathsKnown
  /\ BuildFollowed
  /\ DifferencesCounted
  /\ ToolAskedAsMeant
  /\ VerdictAboutThisBuild

\* It holds before the test ...
LEMMA InvariantInitially == Init => PipelineInvariant
BY TextsAssumption, SMT
DEF Init, MaybeStale, PipelineInvariant, PathsKnown, BuildFollowed, DifferencesCounted,
    ToolAskedAsMeant, VerdictAboutThisBuild

\* ... and each step of the test keeps it.
LEMMA InvariantKept == PipelineInvariant /\ [Next]_vars => PipelineInvariant'
<1> SUFFICES ASSUME PipelineInvariant, [Next]_vars PROVE PipelineInvariant'
  OBVIOUS
<1>0. NoCode \notin ExitCodes \cup {0, 1, 2} /\ 0 \notin ExitCodes
  BY TextsAssumption
<1> USE DEF PipelineInvariant, Exits, Continue, vars, files, asked, locals, paths
<1>1. PathsKnown'
  BY DEF PathsKnown, Next, Finished, Step, SetUp, SetUpFails, Build, BuildFails, FindExpected,
    FindExpectedFails, RemoveActual, RemoveActualThrows, MoveZone, MoveZoneFails, Export,
    ExportFails, FindActual, OpenFails, CompareLine, CompareEnds
<1>2. ToolAskedAsMeant'
  <2>1. BuildArguments = <<tool_exe, <<"build-cache-file">>, map_path>>
    BY BuildAskedAsMeant DEF PathsKnown
  <2>2. ExportArguments = <<tool_exe, <<"export-tag-to-xml">>, zone_tag_path, actual_path>>
    BY ExportAskedAsMeant DEF PathsKnown
  <2> QED BY <2>1, <2>2 DEF ToolAskedAsMeant, Next, Finished, Step, SetUp, SetUpFails, Build,
    BuildFails, FindExpected, FindExpectedFails, RemoveActual, RemoveActualThrows, MoveZone,
    MoveZoneFails, Export, ExportFails, FindActual, OpenFails, CompareLine, CompareEnds
<1>3. BuildFollowed'
  BY <1>0, TextsAssumption DEF BuildFollowed, Next, Finished, Step, SetUp, SetUpFails, Build, BuildFails,
    FindExpected, FindExpectedFails, RemoveActual, RemoveActualThrows, MoveZone, MoveZoneFails,
    Export, ExportFails, FindActual, OpenFails, CompareLine, CompareEnds
<1>4. VerdictAboutThisBuild'
  BY <1>0 DEF VerdictAboutThisBuild, BuildFollowed, Next, Finished, Step, SetUp, SetUpFails,
    Build, BuildFails, FindExpected, FindExpectedFails, RemoveActual, RemoveActualThrows,
    MoveZone, MoveZoneFails, Export, ExportFails, FindActual, OpenFails, CompareLine, CompareEnds
<1>5. DifferencesCounted'
  <2>1. CASE CompareLine
    <3>1. /\ UNCHANGED <<expected_xml, actual_xml, pc>> /\ pc = "compare"
          /\ line_number' = line_number + 1 /\ line_number \in Nat /\ difference_count \in Nat
      BY <2>1 DEF CompareLine, DifferencesCounted
    <3>2. 1 .. line_number + 1 = (1 .. line_number) \cup {line_number + 1}
      BY <3>1
    <3>3. difference_count' =
            IF LineOf(expected_xml, line_number + 1) # LineOf(actual_xml, line_number + 1)
            THEN difference_count + 1 ELSE difference_count
      BY <2>1 DEF CompareLine, LineOf
    <3>4. difference_count' = 0 <=>
            \A i \in 1 .. line_number + 1 : LineOf(expected_xml, i) = LineOf(actual_xml, i)
      BY <3>1, <3>2, <3>3 DEF DifferencesCounted
    <3> QED BY <3>1, <3>3, <3>4 DEF DifferencesCounted, LineOf
  <2>2. CASE FindActual
    BY <2>2 DEF FindActual, DifferencesCounted
  <2>3. CASE ~CompareLine /\ ~FindActual
    BY <2>3 DEF DifferencesCounted, LineOf, Next, Finished, Step, SetUp, SetUpFails, Build,
      BuildFails, FindExpected, FindExpectedFails, RemoveActual, RemoveActualThrows, MoveZone,
      MoveZoneFails, Export, ExportFails, OpenFails, CompareEnds
  <2> QED BY <2>1, <2>2, <2>3
<1> QED BY <1>1, <1>2, <1>3, <1>4, <1>5

\* However the test ends, a test that passes has compared the tag in cache_builder, and
\* what this run has built if it has built any.
THEOREM VerdictAlwaysAboutThisBuild == Spec => []VerdictAboutThisBuild
<1>1. PipelineInvariant => VerdictAboutThisBuild
  BY DEF PipelineInvariant
<1> QED BY <1>1, InvariantInitially, InvariantKept, PTL DEF Spec

\* Of any paths that are not empty, with blanks or without: tool.exe is started with the
\* arguments that the test means.
THEOREM ToolAlwaysAskedAsMeant == Spec => []ToolAskedAsMeant
<1>1. PipelineInvariant => ToolAskedAsMeant
  BY DEF PipelineInvariant
<1> QED BY <1>1, InvariantInitially, InvariantKept, PTL DEF Spec

\* The lines of a text.
LEMMA LinesOfText ==
  \A text \in Texts : Len(text) \in Nat /\ DOMAIN text = 1 .. Len(text)
BY TextsAssumption

\* Of two texts of any length: the comparison ends in 0 exactly if they have the same
\* lines but for empty ones at the end.
THEOREM VerdictAlwaysExact == Spec => VerdictExact
<1>1. ASSUME PipelineInvariant, CompareEnds PROVE exit_code' = 0 <=> SameLines
  <2>1. expected_xml \in Texts /\ actual_xml \in Texts /\ line_number \in Nat
    BY <1>1 DEF PipelineInvariant, BuildFollowed, DifferencesCounted, CompareEnds
  <2>2. exit_code' = 0 <=> difference_count = 0
    BY <1>1 DEF CompareEnds, Exits
  <2>3. difference_count = 0 <=>
          \A i \in 1 .. line_number : LineOf(expected_xml, i) = LineOf(actual_xml, i)
    BY <1>1 DEF PipelineInvariant, DifferencesCounted, CompareEnds
  <2>4. line_number >= Len(expected_xml) /\ line_number >= Len(actual_xml)
    BY <1>1 DEF CompareEnds, EndOfBoth
  <2>5. /\ Len(expected_xml) \in Nat /\ DOMAIN expected_xml = 1 .. Len(expected_xml)
        /\ Len(actual_xml) \in Nat /\ DOMAIN actual_xml = 1 .. Len(actual_xml)
    BY <2>1, LinesOfText
  <2>6. DOMAIN expected_xml \cup DOMAIN actual_xml \subseteq 1 .. line_number
    BY <2>1, <2>4, <2>5
  <2>7. ASSUME NEW i \in 1 .. line_number, i \notin DOMAIN expected_xml \cup DOMAIN actual_xml
        PROVE  LineOf(expected_xml, i) = LineOf(actual_xml, i)
    BY <2>1, <2>5, <2>7 DEF LineOf
  <2> QED BY <2>2, <2>3, <2>6, <2>7 DEF SameLines
<1>2. PipelineInvariant /\ [Next]_vars => [CompareEnds => (exit_code' = 0 <=> SameLines)]_vars
  BY <1>1
<1> QED BY <1>2, InvariantInitially, InvariantKept, PTL DEF Spec, VerdictExact
=============================================================================
