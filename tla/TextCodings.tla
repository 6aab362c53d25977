----------------------------- MODULE TextCodings -----------------------------
(***************************************************************************)
(* The texts the tools exchange with other programs, with the reader or the *)
(* writer at the other end:                                                 *)
(*   filesystem.c          ci_json_string writes names into the overlay     *)
(*   def_file_generator.c  read_line, trim and decode_shell_argument read   *)
(*                         the parameter files Bazel writes                 *)
(* A text is a sequence of characters; NL and SOH stand for the control     *)
(* characters with a short escape and without one.                          *)
(***************************************************************************)
EXTENDS Naturals, Sequences, SequencesExt

CONSTANT MaxLength   \* bound: characters of a text

Characters == {"a", "n", " ", "'", "\"", "\\", "NL", "SOH"}

VARIABLE text   \* any text, a character at a time

Init == text = << >>

Next ==
  \/ Len(text) < MaxLength /\ \E c \in Characters : text' = Append(text, c)
  \/ Len(text) = MaxLength /\ UNCHANGED text

Spec == Init /\ [][Next]_text

------------------------------------------------------------------------------
(* ci_json_string.                                                          *)

Control == {"NL", "SOH"}

\* Mutant: a backslash is written as it is.
EscapeNoBackslash(c) ==
  CASE c = "\"" -> <<"\\", c>>
    [] c = "NL" -> <<"\\", "n">>
    [] c = "SOH" -> <<"\\", "u", "0", "0", "0", "1">>
    [] OTHER -> <<c>>

Escape(c) ==
  CASE c \in {"\"", "\\"} -> <<"\\", c>>
    [] c = "NL" -> <<"\\", "n">>
    [] c = "SOH" -> <<"\\", "u", "0", "0", "0", "1">>
    [] OTHER -> <<c>>

ci_json_string(t) == <<"\"">> \o FlattenSeq([k \in DOMAIN t |-> Escape(t[k])]) \o <<"\"">>

\* Mutant: a control character is counted as its short escape.
JsonSizeOfShort(t) ==
  FoldLeft(LAMBDA size, c : size + (IF c \in Control \cup {"\"", "\\"} THEN 2 ELSE 1), 3, t)

\* What the first loop counts: two quotes, a zero and the characters.
Counted(size, c) ==
  CASE c \in Control -> size + 6
    [] c \in {"\"", "\\"} -> size + 2
    [] OTHER -> size + 1
JsonSize(t) == FoldLeft(Counted, 3, t)

\* clang's reader of the overlay: a string up to its closing quote.
JsonStep(s, c) ==
  CASE s.mode = "start" /\ c = "\"" -> [s EXCEPT !.mode = "in"]
    [] s.mode = "in" /\ c = "\"" -> [s EXCEPT !.mode = "end"]
    [] s.mode = "in" /\ c = "\\" -> [s EXCEPT !.mode = "escape"]
    [] s.mode = "in" /\ c \notin Control \cup {"\"", "\\"} -> [s EXCEPT !.value = Append(@, c)]
    [] s.mode = "escape" /\ c \in {"\"", "\\"} -> [s EXCEPT !.mode = "in", !.value = Append(@, c)]
    [] s.mode = "escape" /\ c = "n" -> [s EXCEPT !.mode = "in", !.value = Append(@, "NL")]
    [] s.mode = "escape" /\ c = "u" -> [s EXCEPT !.mode = "hex"]
    [] s.mode = "hex" /\ c = "0" -> s
    [] s.mode = "hex" /\ c = "1" -> [s EXCEPT !.mode = "in", !.value = Append(@, "SOH")]
    [] OTHER -> [s EXCEPT !.mode = "error"]
ReadJson(j) == FoldLeft(JsonStep, [mode |-> "start", value |-> << >>], j)

------------------------------------------------------------------------------
(* Parameter files.                                                         *)

Space == {" ", "NL"}

\* Mutant: white space inside quotes ends an argument, too.
IsSeparatorAnywhere(s, c) == c \in Space

IsSeparator(s, c) == s.quote = "none" /\ c \in Space

\* Mutant: what follows the first argument is taken for more of it.
IsSecondArgumentNever(s) == FALSE

IsSecondArgument(s) == s.quote = "none" /\ s.separated

\* One step of the loop of decode_shell_argument.
DecodeStep(s, c) ==
  IF s.error THEN s
  ELSE IF s.escaped THEN [s EXCEPT !.escaped = FALSE, !.value = Append(@, c)]
  ELSE IF IsSeparator(s, c) THEN [s EXCEPT !.separated = s.started]
  ELSE IF s.quote # "none" /\ c = s.quote THEN [s EXCEPT !.quote = "none"]
  ELSE IF s.quote = "'" THEN [s EXCEPT !.value = Append(@, c)]
  ELSE IF IsSecondArgument(s) THEN [s EXCEPT !.error = TRUE]
  ELSE IF c = "\\" THEN [s EXCEPT !.escaped = TRUE, !.started = TRUE]
  ELSE IF s.quote = "none" /\ c \in {"'", "\""} THEN [s EXCEPT !.quote = c, !.started = TRUE]
  ELSE [s EXCEPT !.started = TRUE, !.value = Append(@, c)]

\* The loop.
Blank == [quote |-> "none", started |-> FALSE, separated |-> FALSE,
          escaped |-> FALSE, error |-> FALSE, value |-> << >>]
Decoded(line) == FoldLeft(DecodeStep, Blank, line)

\* [accepted, value]: more than one argument, none, an open quote or a trailing
\* backslash are errors.
decode_shell_argument(line) ==
  LET s == Decoded(line)
  IN  [accepted |-> ~s.error /\ ~s.escaped /\ s.quote = "none" /\ s.started, value |-> s.value]

\* White space at either end goes.
trim(t) ==
  LET kept == {k \in DOMAIN t : t[k] \notin Space}
  IN  IF kept = {} THEN << >>
      ELSE SubSeq(t, CHOOSE i \in kept : \A k \in kept : i <= k,
                     CHOOSE i \in kept : \A k \in kept : i >= k)

\* How Bazel writes a name into a shell-quoted parameter file: in single
\* quotes unless all of it is harmless; a single quote goes outside them.
Quoted(c) == IF c = "'" THEN <<"'", "\\", "'", "'">> ELSE <<c>>
ShellQuote(t) ==
  IF t # << >> /\ \A k \in DOMAIN t : t[k] \in {"a", "n"} THEN t
  ELSE <<"'">> \o FlattenSeq([k \in DOMAIN t |-> Quoted(t[k])]) \o <<"'">>

------------------------------------------------------------------------------
(* Properties.                                                              *)

\* Whatever a file is called, clang reads that name from the overlay.
JsonReadsBack == ReadJson(ci_json_string(text)) = [mode |-> "end", value |-> text]

\* The block that the first loop of ci_json_string measures holds what the
\* second one writes, and the zero after it.
JsonFits == Len(ci_json_string(text)) + 1 <= JsonSize(text)

\* A name that Bazel quotes is the name the generator opens, whatever white
\* space and quotes are in it, unless a line break cuts its line in two.
NameReadsBack ==
  "NL" \notin ToSet(text) =>
    decode_shell_argument(trim(ShellQuote(text))) = [accepted |-> TRUE, value |-> text]

\* A line that names two files is an error, never one file or a file with a
\* space in its name.
TwoNamesAreRejected ==
  \A k \in DOMAIN text :
    LET left == decode_shell_argument(trim(SubSeq(text, 1, k - 1)))
        right == decode_shell_argument(trim(SubSeq(text, k + 1, Len(text))))
    IN  text[k] = " " /\ left.accepted /\ right.accepted =>
          ~decode_shell_argument(trim(text)).accepted

\* What one program writes the other reads, and nothing else: the names of the
\* overlay and those of the parameter files.
TextsReadBack == JsonReadsBack /\ JsonFits /\ NameReadsBack /\ TwoNamesAreRejected
==============================================================================
