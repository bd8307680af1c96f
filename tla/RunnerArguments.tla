--------------------------- MODULE RunnerArguments ---------------------------
(***************************************************************************)
(* The private protocol between the launcher and the Runner: the command   *)
(* line that names the Kernel and the SDK it was compiled with             *)
(* (native/runner/RunnerArguments.cc).  The parser reads one argument      *)
(* after the other and gives up at the first it refuses.                   *)
(***************************************************************************)
EXTENDS Integers, Sequences, SequencesExt

CONSTANT MaxArguments   \* bound on the arguments after the executable

Option == {"--kernel", "--sdk-version", "--sdk-revision"}
Separator == "--"
Empty == ""
Argument == Option \cup {Separator, Empty, "word"}
Uninterpreted == {Separator, "word"}    \* of the application's arguments

NoOption == "none"

VARIABLES
  argv,     \* the arguments read so far
  parse     \* the position of the parser and the configuration it fills

parseVars == <<argv, parse>>

Unparsed == [at |-> "option", option |-> NoOption,
             values |-> [o \in Option |-> Empty], arguments |-> <<>>]

ParseInit == argv = <<>> /\ parse = Unparsed

Refused == [parse EXCEPT !.at = "refused"]
Seen(o) == parse.values[o] # Empty

\* Mutant: an option given again replaces its value.
ParseOptionAgain(argument) ==
  IF argument = Separator THEN [parse EXCEPT !.at = "rest"]
  ELSE IF argument \in Option
       THEN [parse EXCEPT !.at = "value", !.option = argument]
       ELSE Refused

ParseOption(argument) ==
  IF argument = Separator THEN [parse EXCEPT !.at = "rest"]
  ELSE IF argument \in Option /\ ~Seen(argument)
       THEN [parse EXCEPT !.at = "value", !.option = argument]
       ELSE Refused

\* read_value takes whatever follows the option, "--" included.
ParseValue(argument) ==
  IF argument = Empty THEN Refused
  ELSE [parse EXCEPT !.at = "option", !.option = NoOption,
                     !.values[parse.option] = argument]

ReadArgument ==
  /\ parse.at \in {"option", "value", "rest"}
  /\ Len(argv) < MaxArguments
  /\ \E argument \in IF parse.at = "rest" THEN Uninterpreted ELSE Argument :
       /\ argv' = Append(argv, argument)
       /\ parse' = CASE parse.at = "option" -> ParseOption(argument)
                     [] parse.at = "value" -> ParseValue(argument)
                     [] parse.at = "rest" ->
                          [parse EXCEPT !.arguments = Append(@, argument)]

\* A value or an option is missing at the end.
EndArguments ==
  /\ parse.at \in {"option", "value", "rest"}
  /\ UNCHANGED argv
  /\ parse' = IF parse.at # "value" /\ \A o \in Option : Seen(o)
              THEN [parse EXCEPT !.at = "accepted"]
              ELSE [parse EXCEPT !.at = "missing"]

ParseRunnerArguments == ReadArgument \/ EndArguments

-----------------------------------------------------------------------------
(* The lines the usage message describes.                                  *)

Order == {f \in [1 .. 3 -> Option] : \A i, j \in 1 .. 3 : f[i] = f[j] => i = j}

\* Each option once, in any order, with a value, then the application's
\* arguments after a separator: what has been read so far fits.
Fits(line, order) ==
  \A i \in 1 .. Len(line) :
    CASE i \in {1, 3, 5} -> line[i] = order[(i + 1) \div 2]
      [] i \in {2, 4, 6} -> line[i] # Empty
      [] i = 7 -> line[i] = Separator
      [] OTHER -> TRUE

\* The parser accepts exactly the lines of the usage message, with the values
\* and the application arguments they carry; where it gives up early, no way
\* to go on would have made the line one of them.
ParsesTheUsage ==
  /\ parse.at = "accepted" =>
       \E order \in Order :
         /\ Fits(argv, order) /\ Len(argv) >= 6
         /\ \A i \in 1 .. 3 : parse.values[order[i]] = argv[2 * i]
         /\ parse.arguments = SubSeq(argv, 8, Len(argv))
  /\ parse.at = "missing" =>
       \A order \in Order : Fits(argv, order) => Len(argv) < 6
  /\ parse.at = "refused" => \A order \in Order : ~Fits(argv, order)
=============================================================================
