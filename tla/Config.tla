------------------------------- MODULE Config -------------------------------
(***************************************************************************)
(* The configuration of cfg_parsing.c: read_cfg and read_srv_cfg, which    *)
(* every start of a program calls, and write_to_cfg, which the header      *)
(* declares and no program calls yet.  The two files are its state; a      *)
(* stdio stream that has begun to read holds the text as it was.           *)
(***************************************************************************)
EXTENDS CfgText, SequencesExt

CONSTANTS Word,      \* the characters of each keyword, its = included
          PortMax,   \* the maximal length read_cfg allows a port, 5
          Digit      \* the characters that are digits

Keywords == {"address", "server", "port", "id"}
Fields == {"address", "port", "id"}

ASSUME ConfigAssumption ==
  /\ <<"NL">> \in Text
  /\ \A k \in Keywords : Word[k] \in Text /\ Len(Word[k]) > 2
  /\ \A k \in Keywords : \A i \in 1..Len(Word[k]) : Word[k][i] # "NL"
  /\ \A k \in Keywords : Word[k][1] \notin {"#", "["}
  /\ \A k, l \in Keywords : Word[k][1] = Word[l][1] => k = l
  /\ PortMax \in Nat \ {0, 1}

VARIABLES conf,     \* the configuration file
          tmp,      \* the temporary file of write_to_cfg
          rpc, rtext, rpos, fm, got,            \* a read
          wpc, wtext, wpos, wfm, key, val, at,  \* a write
          cut       \* history: not all of what it wrote got through

readVars == <<rpc, rtext, rpos, fm, got>>
writeVars == <<wpc, wtext, wpos, wfm, key, val, at, cut>>
configVars == <<conf, tmp, readVars, writeVars>>

\* A path without a file; no file holds this character.
Missing == <<"EOF">>

\* What a field has when nothing was read for it, and what id has when there
\* is no file: read_cfg leaves the uninitialized pointer of main as it is.
Default == <<"NL">>
Garbage == <<"NL", "NL">>

FieldOf(k) == IF k = "server" THEN "address" ELSE k
MaxOf(f) == IF f = "port" THEN PortMax ELSE 0

\* strtol takes the digits a text begins with.
Digits(text) ==
  SubSeq(text, 1, (CHOOSE n \in 0..Len(text) :
                     /\ \A i \in 1..n : text[i] \in Digit
                     /\ n < Len(text) => text[n + 1] \notin Digit))

Converted(f, value) == IF f = "port" THEN Digits(value) ELSE value

ConfigInit(files) ==
  /\ conf \in files
  /\ tmp = Missing
  /\ rpc = "idle" /\ rtext = <<>> /\ rpos = 1 /\ fm = "e"
  /\ got = [f \in Fields |-> Default]
  /\ wpc = "idle" /\ wtext = <<>> /\ wpos = 1 /\ wfm = "e"
  /\ key = "id" /\ val = <<>> /\ at = 0 /\ cut = FALSE

-----------------------------------------------------------------------------
(***************************************************************************)
(* Reading.  known is the set of keywords the program looks for.           *)
(***************************************************************************)
ReadNoFile(known) ==
  /\ rpc = "idle"
  /\ conf = Missing
  /\ rpc' = "ready"
  /\ rtext' = Missing
  /\ \E junk \in {Default, Garbage} :
       got' = [f \in Fields |-> IF f = "id" /\ "id" \in known THEN junk ELSE Default]
  /\ UNCHANGED <<conf, tmp, rpos, fm, writeVars>>

OpenForRead ==
  /\ rpc = "idle"
  /\ conf # Missing
  /\ rpc' = "scan"
  /\ rtext' = conf
  /\ rpos' = 1
  /\ fm' = "e"
  /\ got' = [f \in Fields |-> Default]
  /\ UNCHANGED <<conf, tmp, writeVars>>

\* do ... while (act_c != EOF), where last is the place act_c was read from.
ReadUntil(last) == rpc' = IF At(rtext, last) = "EOF" THEN "ready" ELSE "scan"

\* Wrong: a line that begins like no keyword is not skipped.
StateOfMutant(c, known) ==
  IF \E k \in known : Word[k][1] = c THEN CHOOSE k \in known : Word[k][1] = c ELSE "e"

\* Wrong: an invalid line has the state of its first character.
StateOfLetterMutant(c, known) ==
  IF \E k \in known : Word[k][1] = c THEN CHOOSE k \in known : Word[k][1] = c ELSE c

\* The state that the first character of a line leads to.
StateOf(c, known) ==
  IF \E k \in known : Word[k][1] = c THEN CHOOSE k \in known : Word[k][1] = c ELSE "c"

\* Cases 'e' and 'c'.  An empty line is an invalid one whose end has been read.
ScanChar(known) ==
  /\ rpc = "scan"
  /\ fm \in {"e", "c"}
  /\ fm' = IF fm = "e" THEN StateOf(At(rtext, rpos), known)
           ELSE IF At(rtext, rpos) = "NL" THEN "e" ELSE "c"
  /\ rpos' = rpos + 1
  /\ ReadUntil(rpos)
  /\ UNCHANGED <<conf, tmp, rtext, got, writeVars>>

\* A keyword and its value: the last one given wins.
ScanEntry ==
  LET word == Word[fm]
      start == rpos + Len(word) - 1
      value == ReadValue(rtext, start, MaxOf(FieldOf(fm)))
  IN /\ rpc = "scan"
     /\ fm \in Keywords
     /\ Compare(rtext, rpos, word)
     /\ got' = [got EXCEPT ![FieldOf(fm)] = Converted(FieldOf(fm), value)]
     /\ rpos' = AfterValue(rtext, start)
     /\ fm' = "e"
     /\ UNCHANGED <<conf, tmp, rpc, rtext, writeVars>>

\* Wrong: the characters are put back and the line is begun anew.
ScanMismatchMutant ==
  /\ rpc = "scan"
  /\ fm \in Keywords
  /\ ~Compare(rtext, rpos, Word[fm])
  /\ rpos' = rpos - 1
  /\ fm' = "e"
  /\ UNCHANGED <<conf, tmp, rpc, rtext, got, writeVars>>

\* Anything else that begins like a keyword: as many characters are read as
\* the keyword has, the end of the line among them when it is short.
ScanMismatch ==
  /\ rpc = "scan"
  /\ fm \in Keywords
  /\ ~Compare(rtext, rpos, Word[fm])
  /\ rpos' = rpos + Len(Word[fm]) - 1
  /\ fm' = "c"
  /\ ReadUntil(rpos' - 1)
  /\ UNCHANGED <<conf, tmp, rtext, got, writeVars>>

ReadStep(known) ==
  ReadNoFile(known) \/ OpenForRead \/ ScanChar(known) \/ ScanEntry \/ ScanMismatch

-----------------------------------------------------------------------------
(***************************************************************************)
(* Writing.  at is the place after the last name= that was found, or 0.    *)
(***************************************************************************)
OpenForWrite(k, v) ==
  /\ wpc = "idle"
  /\ key' = k /\ val' = v
  /\ wpos' = 1 /\ wfm' = "e" /\ at' = 0
  /\ IF conf = Missing THEN wpc' = "return 1" /\ UNCHANGED wtext
                       ELSE wpc' = "find" /\ wtext' = conf
  /\ UNCHANGED <<conf, tmp, readVars, cut>>

FindUntil(last, found) ==
  wpc' = IF At(wtext, last) # "EOF" THEN "find" ELSE IF found = 0 THEN "append" ELSE "create"

FindChar ==
  /\ wpc = "find"
  /\ wfm \in {"e", "c"}
  /\ wfm' = IF wfm = "e" THEN (IF At(wtext, wpos) = Word[key][1] THEN "v" ELSE "c")
            ELSE IF At(wtext, wpos) = "NL" THEN "e" ELSE "c"
  /\ wpos' = wpos + 1
  /\ FindUntil(wpos, at)
  /\ UNCHANGED <<conf, tmp, readVars, wtext, key, val, at, cut>>

\* Unlike the reader it goes on at the value, as if that were a line.
FindName ==
  LET found == Compare(wtext, wpos, Word[key])
  IN /\ wpc = "find"
     /\ wfm = "v"
     /\ wpos' = wpos + Len(Word[key]) - 1
     /\ wfm' = IF found THEN "e" ELSE "c"
     /\ at' = IF found THEN wpos' ELSE at
     /\ FindUntil(wpos' - 1, at')
     /\ UNCHANGED <<conf, tmp, readVars, wtext, key, val, cut>>

\* Wrong: the = is forgotten.
EntryMutant(k, v) == SubSeq(Word[k], 1, Len(Word[k]) - 1) \o v \o <<"NL">>

Entry(k, v) == Word[k] \o v \o <<"NL">>

\* A name that is not there goes to the end of the file.  What is written is
\* less than a buffer of stdio, so that the close of the stream, or the exit of
\* the program, writes it all at once, up to where the disk is full.  None of
\* the results of fwrite and fclose is looked at.
AppendEntry ==
  /\ wpc = "append"
  /\ \E written \in Prefixes(Entry(key, val)) :
       conf' = conf \o written /\ cut' = (written # Entry(key, val))
  /\ wpc' = "return 0"
  /\ UNCHANGED <<tmp, readVars, wtext, wpos, wfm, key, val, at>>

\* fopen of the temporary file.  A NULL it may return is not noticed.
CreateTemp ==
  /\ wpc = "create"
  /\ \/ wpc' = "fill" /\ tmp' = <<>>
     \/ wpc' = "crashed" /\ UNCHANGED tmp
  /\ UNCHANGED <<conf, readVars, wtext, wpos, wfm, key, val, at, cut>>

\* Wrong: the rest begins after the end of the old line.
UpdatedMutant(text, pos, v) ==
  SubSeq(text, 1, pos - 1) \o v \o SubSeq(text, LineEnd(text, pos) + 1, Len(text))

\* The text with v for the value at pos.
Updated(text, pos, v) ==
  SubSeq(text, 1, pos - 1) \o v \o SubSeq(text, LineEnd(text, pos), Len(text))

\* Here too the results of fwrite, fputc and fclose are dropped.
CloseTemp ==
  /\ wpc = "fill"
  /\ tmp' \in Prefixes(Updated(wtext, at, val))
  /\ cut' = (tmp' # Updated(wtext, at, val))
  /\ wpc' = "remove"
  /\ UNCHANGED <<conf, readVars, wtext, wpos, wfm, key, val, at>>

RemoveConf ==
  /\ wpc = "remove"
  /\ \/ conf # Missing /\ conf' = Missing /\ wpc' = "rename"
     \/ wpc' = "return 1" /\ UNCHANGED conf
  /\ UNCHANGED <<tmp, readVars, wtext, wpos, wfm, key, val, at, cut>>

\* rename of ssds-client.conf.tmp, a name nothing writes: it always fails.
RenameTemp ==
  /\ wpc = "rename"
  /\ wpc' = "return 1"
  /\ UNCHANGED <<conf, tmp, readVars, wtext, wpos, wfm, key, val, at, cut>>

\* What was local to a call is gone when it returns or its program ends.
Forgotten ==
  /\ wpc' = "idle" /\ wtext' = <<>> /\ wpos' = 1 /\ wfm' = "e"
  /\ key' = "id" /\ val' = <<>> /\ at' = 0 /\ cut' = FALSE

\* The caller has its answer.
WriteReturned ==
  /\ wpc \in {"return 0", "return 1", "crashed"}
  /\ Forgotten
  /\ UNCHANGED <<conf, tmp, readVars>>

\* The program is killed; what its streams hold by then is written when the
\* handler exits, and is not after SIGKILL.
WriterKilled ==
  /\ wpc \in {"find", "append", "create", "fill", "remove", "rename"}
  /\ Forgotten
  /\ IF wpc = "append"
       THEN \E written \in Prefixes(Entry(key, val)) : conf' = conf \o written
       ELSE UNCHANGED conf
  /\ IF wpc = "fill" THEN tmp' \in Prefixes(Updated(wtext, at, val)) ELSE UNCHANGED tmp
  /\ UNCHANGED readVars

WriteStep ==
  \/ FindChar \/ FindName \/ AppendEntry \/ CreateTemp \/ CloseTemp
  \/ RemoveConf \/ RenameTemp \/ WriteReturned

ConfigTypeOK ==
  /\ conf \in Text \cup {Missing} /\ tmp \in Text \cup {Missing}
  /\ rpc \in {"idle", "scan", "ready"}
  /\ rtext \in Text \cup {Missing} /\ rpos \in Nat \ {0}
  /\ fm \in {"e", "c"} \cup Keywords
  /\ got \in [Fields -> Text]
  /\ wpc \in {"idle", "find", "append", "create", "fill", "remove", "rename",
              "return 0", "return 1", "crashed"}
  /\ wtext \in Text /\ wpos \in Nat \ {0}
  /\ wfm \in {"e", "c", "v"} /\ key \in Keywords /\ val \in Text /\ at \in Nat
  /\ cut \in BOOLEAN
=============================================================================
