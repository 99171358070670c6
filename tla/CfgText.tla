------------------------------ MODULE CfgText ------------------------------
(***************************************************************************)
(* How cfg_parsing.c reads a text: a character at a time, a keyword by its *)
(* length, a value up to the end of its line.  Characters are strings;     *)
(* "NL" is the newline and "EOF" what fgetc returns at the end.            *)
(***************************************************************************)
EXTENDS Integers, Sequences

Text == Seq(STRING \ {"EOF"})

\* fgetc: the end of the file can be read any number of times.
At(text, pos) == IF pos \in 1..Len(text) THEN text[pos] ELSE "EOF"

\* Where the line that pos is on ends: its newline, or the end of the file.
LineEnd(text, pos) ==
  CHOOSE q \in pos..(Len(text) + 1) :
    /\ At(text, q) \in {"NL", "EOF"}
    /\ \A r \in pos..(q - 1) : At(text, r) # "NL"

\* file_read_value with a maximal length cuts the value below it; 0 is none.
Cut(value, max) ==
  IF max # 0 /\ Len(value) >= max THEN SubSeq(value, 1, max - 1) ELSE value

ReadValue(text, pos, max) == Cut(SubSeq(text, pos, LineEnd(text, pos) - 1), max)

\* Wrong: the newline is left to be read.
AfterValueMutant(text, pos) == LineEnd(text, pos)

\* Where the file stands after file_read_value.
AfterValue(text, pos) == LineEnd(text, pos) + 1

\* compare: the rest of word against what follows its first character.  It
\* reads Len(word) - 1 characters from pos on, whether they match or not.
Compare(text, pos, word) ==
  \A i \in 2..Len(word) : At(text, pos + i - 2) = word[i]
=============================================================================
