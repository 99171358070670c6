--------------------------- MODULE StartupProofs ---------------------------
(***************************************************************************)
(* What the reader of the configuration does with any text, and with any   *)
(* writes to it between two starts, what a write leaves of a text, what    *)
(* the search for repositories and the command line come to: proved of     *)
(* Startup.                                                                *)
(***************************************************************************)
EXTENDS Startup, FiniteSetTheorems, SequenceTheorems, WellFoundedInduction, TLAPS

-----------------------------------------------------------------------------
(***************************************************************************)
(* Texts.                                                                  *)
(***************************************************************************)
\* Nothing but the end of a text reads as its end.
LEMMA AtText ==
  ASSUME NEW t \in Text, NEW p \in Int
  PROVE  /\ Len(t) \in Nat
         /\ At(t, p) # "EOF" <=> p \in 1..Len(t)
BY DEF Text, At

\* Every line has its end.
LEMMA LineEndIs ==
  ASSUME NEW t \in Text, NEW p \in 1..(Len(t) + 1)
  PROVE  /\ LineEnd(t, p) \in p..(Len(t) + 1)
         /\ At(t, LineEnd(t, p)) \in {"NL", "EOF"}
         /\ \A r \in p..(LineEnd(t, p) - 1) : At(t, r) # "NL"
<1> DEFINE T == {q \in p..(Len(t) + 1) : At(t, q) \in {"NL", "EOF"}}
<1>1. Len(t) \in Nat
  BY AtText
<1>2. Len(t) + 1 \in T
  BY <1>1 DEF At
<1>3. T \subseteq Nat /\ T # {}
  BY <1>1, <1>2
<1>4. PICK q \in T : \A r \in T : ~ (<<r, q>> \in OpToRel(<, Nat))
  <2> HIDE DEF T
  <2> QED  BY <1>3, NatLessThanWellFounded, WFMin
<1>5. \A r \in T : ~(r < q)
  BY <1>3, <1>4 DEF OpToRel
<1>6. \A r \in p..(q - 1) : At(t, r) # "NL"
  BY <1>1, <1>5
<1>7. \E x \in p..(Len(t) + 1) :
        /\ At(t, x) \in {"NL", "EOF"}
        /\ \A r \in p..(x - 1) : At(t, r) # "NL"
  BY <1>6
<1> QED  BY <1>7 DEF LineEnd

\* Where a keyword was found the text has all of it.
LEMMA CompareIs ==
  ASSUME NEW t \in Text, NEW p \in Nat \ {0}, NEW k \in Keywords, Compare(t, p, Word[k])
  PROVE  p + Len(Word[k]) - 1 \in 2..(Len(t) + 1)
<1>1. Word[k] \in Text /\ Len(Word[k]) > 2 /\ Len(Word[k]) \in Nat
  BY ConfigAssumption DEF Text
<1>2. At(t, p + Len(Word[k]) - 2) = Word[k][Len(Word[k])]
  BY <1>1 DEF Compare
<1>3. Word[k][Len(Word[k])] # "EOF"
  BY <1>1 DEF Text
<1>4. p + Len(Word[k]) - 2 \in 1..Len(t)
  BY <1>1, <1>2, <1>3, AtText
<1> QED  BY <1>1, <1>4, AtText

\* An entry, and a text with a new value in it, are texts.
LEMMA EntryIsText ==
  ASSUME NEW k \in Keywords, NEW v \in Text
  PROVE  Entry(k, v) \in Text
<1>1. Word[k] \in Text
  BY ConfigAssumption
<1>2. <<"NL">> \in Text
  BY ConfigAssumption
<1>3. Word[k] \o v \in Text
  BY <1>1, ConcatProperties DEF Text
<1> QED  BY <1>2, <1>3, ConcatProperties DEF Entry, Text

LEMMA UpdatedIsText ==
  ASSUME NEW t \in Text, NEW v \in Text, NEW p \in 1..(Len(t) + 1)
  PROVE  Updated(t, p, v) \in Text
<1> DEFINE end == LineEnd(t, p)
<1>1. end \in p..(Len(t) + 1) /\ Len(t) \in Nat
  BY LineEndIs, AtText
<1> HIDE DEF end
<1>2. SubSeq(t, 1, p - 1) \in Text /\ SubSeq(t, end, Len(t)) \in Text
  BY <1>1, SubSeqProperties DEF Text
<1>3. SubSeq(t, 1, p - 1) \o v \in Text
  BY <1>2, ConcatProperties DEF Text
<1>4. SubSeq(t, 1, p - 1) \o v \o SubSeq(t, end, Len(t)) \in Text
  BY <1>2, <1>3, ConcatProperties DEF Text
<1> QED  BY <1>4 DEF Updated, end

\* What got through of a text is a text.
LEMMA PrefixIs ==
  ASSUME NEW e \in Text, NEW w \in Prefixes(e)
  PROVE  /\ w \in Text /\ Len(w) \in Nat /\ Len(e) \in Nat /\ Len(w) <= Len(e)
         /\ \A i \in 1..Len(w) : w[i] = e[i]
<1>1. PICK l \in 0..Len(e) : w = SubSeq(e, 1, l)
  BY DEF Prefixes
<1>2. Len(e) \in Nat /\ \A i \in 1..l : e[i] \in STRING \ {"EOF"}
  BY <1>1 DEF Text
<1> QED  BY <1>1, <1>2, SubSeqProperties DEF Text

-----------------------------------------------------------------------------
(***************************************************************************)
(* The files: whoever was killed where, each is a text or is not there.    *)
(***************************************************************************)
FileInv ==
  /\ conf \in Text \cup {Missing}
  /\ tmp \in Text \cup {Missing}
  /\ key \in Keywords /\ val \in Text
  /\ wpos \in Nat \ {0}
  /\ wpc \in {"find", "append", "create", "fill", "remove"} => conf = wtext /\ wtext \in Text
  /\ at # 0 /\ wpc \in {"find", "create", "fill"} => at \in 1..(Len(wtext) + 1)
  /\ wpc \in {"create", "fill"} => at # 0

LEMMA MissingIsNoText == Missing \notin Text
BY DEF Missing, Text

LEMMA FileStart == StartupInit => FileInv
<1>1. <<>> \in Text
  BY DEF Text
<1> QED  BY <1>1, StartupAssumption DEF StartupInit, ConfigInit, FileInv, Keywords

LEMMA FileWrites ==
  ASSUME FileInv, WriteStep
  PROVE  FileInv'
<1> USE DEF FileInv
<1>1. CASE FindChar
  BY <1>1 DEF FindChar, FindUntil
<1>2. CASE FindName
  <2>1. Len(Word[key]) \in Nat /\ Len(Word[key]) > 2
    BY ConfigAssumption DEF Text
  <2>2. CASE Compare(wtext, wpos, Word[key])
    <3>1. wpos' \in 2..(Len(wtext) + 1)
      BY <1>2, <2>2, CompareIs DEF FindName
    <3> QED  BY <1>2, <2>2, <3>1, AtText DEF FindName, FindUntil
  <2>3. CASE ~Compare(wtext, wpos, Word[key])
    BY <1>2, <2>1, <2>3 DEF FindName, FindUntil
  <2> QED  BY <2>2, <2>3
<1>3. CASE AppendEntry
  <2>1. PICK written \in Prefixes(Entry(key, val)) : conf' = conf \o written
    BY <1>3 DEF AppendEntry
  <2>2. written \in Text
    BY <2>1, EntryIsText, PrefixIs
  <2>3. conf' \in Text
    BY <1>3, <2>1, <2>2, ConcatProperties DEF AppendEntry, Text
  <2> QED  BY <1>3, <2>3 DEF AppendEntry
<1>4. CASE CreateTemp
  <2>1. <<>> \in Text
    BY DEF Text
  <2> QED  BY <1>4, <2>1 DEF CreateTemp
<1>5. CASE CloseTemp
  <2>1. Updated(wtext, at, val) \in Text
    BY <1>5, UpdatedIsText DEF CloseTemp
  <2>2. tmp' \in Text
    BY <1>5, <2>1, PrefixIs DEF CloseTemp
  <2> QED  BY <1>5, <2>2 DEF CloseTemp
<1>6. CASE RemoveConf \/ RenameTemp
  BY <1>6 DEF RemoveConf, RenameTemp
<1>7. CASE WriteReturned
  <2>1. <<>> \in Text
    BY DEF Text
  <2>2. /\ wpc' = "idle" /\ wpos' = 1 /\ key' = "id" /\ val' = <<>> /\ at' = 0
        /\ UNCHANGED <<conf, tmp>>
    BY <1>7 DEF WriteReturned, Forgotten
  <2> QED  BY <2>1, <2>2 DEF Keywords
<1> QED  BY <1>1, <1>2, <1>3, <1>4, <1>5, <1>6, <1>7 DEF WriteStep

LEMMA FileStep ==
  ASSUME FileInv, [Next]_vars
  PROVE  FileInv'
<1>0. <<>> \in Text
  BY DEF Text
<1>1. CASE Writes
  <2>1. ASSUME NEW k \in Keywords, NEW v \in Values, OpenForWrite(k, v)
        PROVE  FileInv'
    <3>1. v \in Text
      BY StartupAssumption
    <3>2. /\ key' = k /\ val' = v /\ wpos' = 1 /\ at' = 0
          /\ UNCHANGED <<conf, tmp>>
      BY <2>1 DEF OpenForWrite
    <3>3. \/ wpc' = "return 1"
          \/ wpc' = "find" /\ conf # Missing /\ wtext' = conf
      BY <2>1 DEF OpenForWrite
    <3>4. wpos' \in Nat \ {0}
      BY <3>2
    <3> QED  BY <3>1, <3>2, <3>3, <3>4 DEF FileInv
  <2>2. CASE WriterKilled
    <3>1. tmp' \in Text \cup {Missing}
      <4>1. wpc = "fill" => Updated(wtext, at, val) \in Text
        BY UpdatedIsText DEF FileInv
      <4> QED  BY <2>2, <4>1, PrefixIs DEF WriterKilled, FileInv
    <3>2. conf' \in Text \cup {Missing}
      <4>1. CASE wpc = "append"
        <5>1. PICK written \in Prefixes(Entry(key, val)) : conf' = conf \o written
          BY <2>2, <4>1 DEF WriterKilled
        <5>2. written \in Text /\ conf \in Text
          BY <4>1, <5>1, EntryIsText, PrefixIs DEF FileInv
        <5> QED  BY <5>1, <5>2, ConcatProperties DEF Text
      <4>2. CASE wpc # "append"
        BY <2>2, <4>2 DEF WriterKilled, FileInv
      <4> QED  BY <4>1, <4>2
    <3>3. /\ wpc' = "idle" /\ wpos' = 1 /\ key' = "id" /\ val' = <<>> /\ at' = 0
      BY <2>2 DEF WriterKilled, Forgotten
    <3> QED  BY <1>0, <3>1, <3>2, <3>3 DEF FileInv, Keywords
  <2> QED  BY <1>1, <2>1, <2>2, FileWrites DEF Writes
<1>2. CASE PutBack
  BY <1>2, MissingIsNoText DEF PutBack, Quiet, FileInv, writeVars
<1>3. CASE Read
  BY <1>3 DEF Read, ReadStep, ReadNoFile, OpenForRead, ScanChar, ScanEntry, ScanMismatch,
              FileInv, writeVars
<1>4. CASE Parse \/ HandOn \/ Again \/ Search \/ UNCHANGED vars
  BY <1>4 DEF Parse, HandOn, Again, Search, vars, configVars, FileInv, writeVars
<1> QED  BY <1>1, <1>2, <1>3, <1>4 DEF Next

-----------------------------------------------------------------------------
(***************************************************************************)
(* The reader: between two lines it stands behind the end of one, and at a *)
(* keyword it stands behind the first character of a line.                 *)
(***************************************************************************)
ScanInv ==
  rpc = "scan" =>
    /\ rtext \in Text
    /\ rpos \in Nat \ {0}
    /\ fm \in {"e", "c"} \cup Known
    /\ fm = "e" => rpos = 1 \/ At(rtext, rpos - 1) \in {"NL", "EOF"}
    /\ fm \in Keywords => /\ rpos > 1
                          /\ At(rtext, rpos - 1) = Word[fm][1]
                          /\ LineStart(rtext, rpos - 1)

FreshInv == rpc = "idle" => \A f \in Fields : got[f] = Default

LineInv == FileInv /\ ScanInv /\ FreshInv

\* Neither what a program is nor what it has read changes while it reads, but
\* for the steps of the reader.
LEMMA OthersStep ==
  ASSUME [Next]_vars, ~Read, ~Again
  PROVE  UNCHANGED <<who, readVars>>
<1>1. CASE Parse
  BY <1>1 DEF Parse, ParamsStep, TakeCommand, TakeOther, TakeHelp, TakeStrange, TakeUnlisted,
              EndOfArguments, Argument, configVars
<1>2. CASE Writes
  BY <1>2 DEF Writes, OpenForWrite, WriterKilled, WriteStep, FindChar, FindName, AppendEntry,
              CreateTemp, CloseTemp, RemoveConf, RenameTemp, WriteReturned, paramVars
<1>3. CASE HandOn \/ PutBack \/ Search \/ UNCHANGED vars
  BY <1>3 DEF HandOn, PutBack, Search, vars, configVars, paramVars
<1> QED  BY <1>1, <1>2, <1>3 DEF Next

LEMMA KnownKeywords == Known \subseteq Keywords /\ "e" \notin Keywords /\ "c" \notin Keywords
BY DEF Known, Keywords

\* A first character that some keyword begins with was not the end, and what
\* it comes after was one.
LEMMA ScanCharStep ==
  ASSUME LineInv, ScanChar(Known), UNCHANGED who
  PROVE  ScanInv'
<1> USE DEF LineInv, ScanInv
<1>0. Known' = Known /\ rtext \in Text /\ rpos \in Nat \ {0} /\ rtext' = rtext /\ rpos' = rpos + 1
  BY DEF ScanChar, Known
<1>1. CASE fm = "c"
  BY <1>0, <1>1, KnownKeywords DEF ScanChar, ReadUntil
<1>2. CASE fm = "e" /\ fm' = "c"
  BY <1>0, <1>2, KnownKeywords DEF ScanChar
<1>3. CASE fm = "e" /\ fm' # "c"
  <2>1. fm' \in Known /\ Word[fm'][1] = At(rtext, rpos)
    BY <1>3 DEF ScanChar, StateOf
  <2>2. Word[fm'] \in Text /\ Len(Word[fm']) > 2 /\ Len(Word[fm']) \in Nat
    BY <2>1, KnownKeywords, ConfigAssumption DEF Text
  <2>3. At(rtext, rpos) # "EOF"
    BY <2>1, <2>2 DEF Text
  <2>4. rpos \in 1..Len(rtext)
    BY <1>0, <2>3, AtText
  <2>5. LineStart(rtext, rpos)
    BY <1>0, <1>3, <2>4, AtText DEF LineStart, ScanChar
  <2> QED  BY <1>0, <2>1, <2>5, KnownKeywords
<1> QED  BY <1>1, <1>2, <1>3 DEF ScanChar

\* The entry that was read is all of a line, and leaves the reader behind it.
LEMMA ScanEntryStep ==
  ASSUME LineInv, OnlyWholeLines, ScanEntry, UNCHANGED who
  PROVE  ScanInv' /\ OnlyWholeLines'
<1> DEFINE word == Word[fm]
           start == rpos + Len(word) - 1
<1>0. /\ Known' = Known /\ rtext \in Text /\ rpos \in Nat \ {0} /\ rtext' = rtext
      /\ fm \in Keywords /\ fm \in Known /\ rpos > 1
      /\ At(rtext, rpos - 1) = word[1]
      /\ LineStart(rtext, rpos - 1)
      /\ Compare(rtext, rpos, word)
  BY KnownKeywords DEF ScanEntry, Known, LineInv, ScanInv
<1>1. word \in Text /\ Len(word) > 2 /\ Len(word) \in Nat
  BY <1>0, ConfigAssumption DEF Text
<1>2. start \in 2..(Len(rtext) + 1) /\ start \in 1..(Len(rtext) + 1)
  BY <1>0, CompareIs, AtText
<1>3. /\ LineEnd(rtext, start) \in start..(Len(rtext) + 1)
      /\ At(rtext, LineEnd(rtext, start)) \in {"NL", "EOF"}
  BY <1>0, <1>2, LineEndIs
<1>4. ScanInv'
  <2>1. rpos' = LineEnd(rtext, start) + 1 /\ fm' = "e"
    BY DEF ScanEntry, AfterValue
  <2>2. Len(rtext) \in Nat
    BY <1>0, AtText
  <2>3. LineEnd(rtext, start) \in Nat
    BY <1>2, <1>3, <2>2
  <2>4. rpos' \in Nat \ {0} /\ rpos' - 1 = LineEnd(rtext, start)
    BY <2>1, <2>3
  <2> QED  BY <1>0, <1>3, <2>1, <2>4, KnownKeywords DEF ScanInv
<1>5. Says(rtext, rpos - 1, fm)
  <2>1. \A n \in 1..Len(word) : At(rtext, (rpos - 1) + n - 1) = word[n]
    <3> SUFFICES ASSUME NEW n \in 1..Len(word)
                 PROVE  At(rtext, (rpos - 1) + n - 1) = word[n]
      OBVIOUS
    <3>1. CASE n = 1
      BY <1>0, <3>1
    <3>2. CASE n # 1
      <4>1. n \in 2..Len(word) /\ (rpos - 1) + n - 1 = rpos + n - 2
        BY <1>0, <1>1, <3>2, SMTT(30)
      <4> QED  BY <1>0, <4>1 DEF Compare
    <3> QED  BY <3>1, <3>2
  <2> QED  BY <1>0, <2>1 DEF Says
<1>6. rpos - 1 \in 1..Len(rtext)
  <2>1. At(rtext, rpos - 1) # "EOF"
    BY <1>0, <1>1 DEF Text
  <2> QED  BY <1>0, <2>1, AtText
<1>7. ValueAt(rtext, rpos - 1, fm) =
        Converted(FieldOf(fm), ReadValue(rtext, start, MaxOf(FieldOf(fm))))
  <2>1. (rpos - 1) + Len(Word[fm]) = start
    BY <1>0, <1>1
  <2> QED  BY <2>1 DEF ValueAt
<1>8. ASSUME NEW f \in Fields, got'[f] \notin {Default, Garbage}
      PROVE  \E p \in 1..Len(rtext), k \in Known :
               FieldOf(k) = f /\ Says(rtext, p, k) /\ got'[f] = ValueAt(rtext, p, k)
  <2>1. CASE f = FieldOf(fm) /\ got'[f] = ValueAt(rtext, rpos - 1, fm)
    BY <1>0, <1>5, <1>6, <2>1
  <2>2. CASE got'[f] = got[f]
    BY <1>8, <2>2 DEF OnlyWholeLines
  <2>3. f = FieldOf(fm) => got'[f] = ValueAt(rtext, rpos - 1, fm) \/ got'[f] = got[f]
    BY <1>7 DEF ScanEntry
  <2>4. f # FieldOf(fm) => got'[f] = got[f]
    BY DEF ScanEntry
  <2> QED  BY <2>1, <2>2, <2>3, <2>4
<1>9. OnlyWholeLines'
  BY <1>0, <1>8 DEF OnlyWholeLines, Says, ValueAt, LineStart
<1> QED  BY <1>4, <1>9

LEMMA LineStep ==
  ASSUME LineInv, OnlyWholeLines, [Next]_vars
  PROVE  LineInv' /\ OnlyWholeLines'
<1>1. FileInv'
  BY FileStep DEF LineInv
<1>2. CASE ~Read /\ ~Again
  <2>1. UNCHANGED <<who, readVars>>
    BY <1>2, OthersStep
  <2> QED  BY <1>1, <2>1 DEF LineInv, ScanInv, FreshInv, OnlyWholeLines, readVars, Known,
                             Says, ValueAt, LineStart
<1>3. CASE Again
  <2>1. rpc' = "idle" /\ \A f \in Fields : got'[f] = Default
    BY <1>3 DEF Again
  <2> QED  BY <1>1, <2>1 DEF LineInv, ScanInv, FreshInv, OnlyWholeLines
<1>4. CASE Read
  <2>0. UNCHANGED who
    BY <1>4 DEF Read, paramVars
  <2>1. CASE ReadNoFile(Known)
    <3>1. rpc' = "ready" /\ \A f \in Fields : got'[f] \in {Default, Garbage}
      BY <2>1 DEF ReadNoFile
    <3> QED  BY <1>1, <3>1 DEF LineInv, ScanInv, FreshInv, OnlyWholeLines
  <2>2. CASE OpenForRead
    <3>1. /\ rpc' = "scan" /\ rtext' = conf /\ rpos' = 1 /\ fm' = "e"
          /\ \A f \in Fields : got'[f] = Default
      BY <2>2 DEF OpenForRead
    <3>2. rtext' \in Text
      BY <2>2, <3>1 DEF OpenForRead, LineInv, FileInv
    <3> QED  BY <1>1, <3>1, <3>2, KnownKeywords DEF LineInv, ScanInv, FreshInv, OnlyWholeLines
  <2>3. CASE ScanChar(Known)
    <3>1. rpc' # "idle" /\ UNCHANGED <<rtext, got>>
      BY <2>3 DEF ScanChar, ReadUntil
    <3>2. OnlyWholeLines'
      BY <2>0, <3>1 DEF OnlyWholeLines, Known, Says, ValueAt, LineStart
    <3> QED  BY <1>1, <2>0, <2>3, <3>1, <3>2, ScanCharStep DEF LineInv, FreshInv
  <2>4. CASE ScanEntry
    <3>1. rpc' # "idle"
      BY <2>4 DEF ScanEntry
    <3> QED  BY <1>1, <2>0, <2>4, <3>1, ScanEntryStep DEF LineInv, FreshInv
  <2>5. CASE ScanMismatch
    <3>1. rpc' # "idle" /\ UNCHANGED <<rtext, got>> /\ fm' = "c"
      BY <2>5 DEF ScanMismatch, ReadUntil
    <3>2. OnlyWholeLines'
      BY <2>0, <3>1 DEF OnlyWholeLines, Known, Says, ValueAt, LineStart
    <3>3. Len(Word[fm]) \in Nat /\ Len(Word[fm]) > 2
      BY <2>5, ConfigAssumption DEF ScanMismatch, Text
    <3>4. ScanInv'
      BY <2>5, <3>1, <3>3, KnownKeywords DEF ScanMismatch, LineInv, ScanInv
    <3> QED  BY <1>1, <3>1, <3>2, <3>4 DEF LineInv, FreshInv
  <2> QED  BY <1>4, <2>1, <2>2, <2>3, <2>4, <2>5 DEF Read, ReadStep
<1> QED  BY <1>2, <1>3, <1>4

LEMMA LineInit == StartupInit => LineInv /\ OnlyWholeLines
<1> SUFFICES ASSUME StartupInit PROVE LineInv /\ OnlyWholeLines
  OBVIOUS
<1>1. rpc = "idle" /\ \A f \in Fields : got[f] = Default
  BY DEF StartupInit, ConfigInit
<1> QED  BY <1>1, FileStart DEF LineInv, ScanInv, FreshInv, OnlyWholeLines

\* Whatever the configuration is like and whoever writes to it, a value is
\* only ever read from a whole line that gives it (cfg_parsing.c:40).
THEOREM ReadsOnlyWholeLines == Spec => []OnlyWholeLines
<1>1. StartupInit => LineInv /\ OnlyWholeLines
  BY LineInit
<1>2. LineInv /\ OnlyWholeLines /\ [Next]_vars => (LineInv /\ OnlyWholeLines)'
  BY LineStep
<1> QED  BY <1>1, <1>2, PTL DEF Spec

-----------------------------------------------------------------------------
(***************************************************************************)
(* The search for missing repositories: once the first name was found no   *)
(* other one can be missing.                                               *)
(***************************************************************************)
First == SubSeq(list, 1, LineEnd(list, 1) - 1)
LongFirst == list # <<>> /\ LineEnd(list, 1) > NameMin
AllThere == LongFirst /\ Names \subseteq dir /\ Cardinality(dir) <= DirMax

ListInv ==
  /\ list \in Text /\ required \in Seq(Text)
  /\ mpc = "idle" => list = <<>> /\ mpos = 1 /\ required = <<>> /\ missing = 0
  /\ mpc = "names" => mpos \in 1..(Len(list) + 1)
  /\ mpc = "names" /\ mpos = 1 => required = <<>>
  /\ mpc \in {"idle", "names", "directory"} => i1 = 1 /\ missing = 0
  /\ i1 \in Nat
  /\ LongFirst /\ ((mpc = "names" /\ mpos # 1) \/ mpc \in {"directory", "search"}) =>
       Len(required) > 0 /\ required[1] = First
  /\ mpc = "search" /\ AllThere => missing = 0 /\ local = dir /\ (i1 = 1 \/ found)

LEMMA ListStart == StartupInit => ListInv /\ AllThereIsNone
<1> SUFFICES ASSUME StartupInit PROVE ListInv /\ AllThereIsNone
  OBVIOUS
<1>1. <<>> \in Text /\ <<>> \in Seq(Text)
  BY DEF Text
<1>2. /\ mpc = "idle" /\ list = <<>> /\ mpos = 1 /\ required = <<>> /\ ~LongFirst
      /\ i1 = 1 /\ missing = 0
  BY DEF StartupInit, MissingInit, LongFirst
<1> QED  BY <1>1, <1>2 DEF ListInv, AllThereIsNone

\* A name that is long enough is taken, the first one as it is.
LEMMA ReadNameStep ==
  ASSUME ListInv, ReadName
  PROVE  ListInv' /\ AllThereIsNone'
<1> DEFINE end == LineEnd(list, mpos)
           name == ReadValue(list, mpos, 0)
<1>1. /\ list \in Text /\ list' = list /\ required \in Seq(Text)
      /\ mpc = "names" /\ mpos \in 1..(Len(list) + 1)
      /\ i1 = 1 /\ missing = 0 /\ UNCHANGED <<i1, missing>>
      /\ mpc' \in {"names", "directory"}
  BY DEF ReadName, ListInv
<1>2. Len(list) \in Nat /\ end \in mpos..(Len(list) + 1)
  BY <1>1, LineEndIs, AtText
<1>3. name = SubSeq(list, mpos, end - 1)
  BY DEF ReadValue, Cut
<1> HIDE DEF end, name
<1>4. name \in Text /\ Len(name) = end - mpos
  <2>1. \A n \in mpos..(end - 1) : list[n] \in STRING \ {"EOF"}
    BY <1>1, <1>2 DEF Text
  <2> QED  BY <1>1, <1>2, <1>3, <2>1, SubSeqProperties DEF Text
<1>5. /\ required' = IF Len(name) >= NameMin THEN Append(required, name) ELSE required
      /\ mpos' = end + 2
      /\ mpc' = "names" => At(list, end + 1) # "EOF"
  BY <1>2 DEF ReadName, NextName, AfterValue, end, name
<1>6. required' \in Seq(Text)
  BY <1>1, <1>4, <1>5
<1>7. mpc' = "names" => mpos' \in 1..(Len(list) + 1)
  BY <1>1, <1>2, <1>5, AtText
<1>8. mpos' # 1
  BY <1>1, <1>2, <1>5
<1>9. ASSUME LongFirst
      PROVE  Len(required') > 0 /\ required'[1] = First
  <2>1. CASE mpos = 1
    <3>1. required = <<>> /\ name = First /\ Len(name) >= NameMin
      BY <1>1, <1>2, <1>3, <1>4, <1>9, <2>1, MissingAssumption DEF ListInv, LongFirst, First, end
    <3> QED  BY <1>1, <1>4, <1>5, <1>9, <3>1 DEF ListInv
  <2>2. CASE mpos # 1
    <3>1. Len(required) > 0 /\ required[1] = First
      BY <1>1, <1>9, <2>2 DEF ListInv
    <3> QED  BY <1>1, <1>4, <1>5, <3>1
  <2> QED  BY <2>1, <2>2
<1>10. LongFirst' <=> LongFirst
  BY <1>1 DEF LongFirst
<1>11. First' = First
  BY <1>1 DEF First
<1> QED  BY <1>1, <1>6, <1>7, <1>8, <1>9, <1>10, <1>11 DEF ListInv, AllThereIsNone

LEMMA SearchNameStep ==
  ASSUME ListInv, SearchName
  PROVE  ListInv' /\ AllThereIsNone'
<1>1. /\ UNCHANGED <<mpc, list, dir, mpos, required, local>> /\ mpc = "search"
      /\ i1' = i1 + 1 /\ i1 \in Nat
  BY DEF SearchName, ListInv
<1>2. ASSUME AllThere
      PROVE  found' /\ missing' = 0
  <2>1. i1 = 1 \/ found
    BY <1>1, <1>2 DEF ListInv
  <2>2. i1 = 1 => required[i1] \in Names
    BY <1>1, <1>2, AtText DEF ListInv, AllThere, LongFirst, Names, First, LineStart, Text
  <2> QED  BY <1>1, <1>2, <2>1, <2>2 DEF SearchName, Found, ListInv, AllThere
<1>3. (AllThere' <=> AllThere) /\ (LongFirst' <=> LongFirst)
  BY <1>1 DEF AllThere, LongFirst, Names, LineStart
<1>4. First' = First
  BY <1>1 DEF First
<1> QED  BY <1>1, <1>2, <1>3, <1>4 DEF ListInv, AllThereIsNone

LEMMA ListStep ==
  ASSUME ListInv, AllThereIsNone, [Next]_vars
  PROVE  ListInv' /\ AllThereIsNone'
<1>1. CASE UNCHANGED missingVars
  BY <1>1 DEF missingVars, ListInv, AllThereIsNone, AllThere, LongFirst, Names, LineStart, First
<1>2. CASE Search
  <2>1. CASE OpenList
    <3>1. list' \in Text
      BY <2>1, MissingAssumption DEF OpenList
    <3> QED  BY <2>1, <3>1 DEF OpenList, ListInv, AllThereIsNone
  <2>2. CASE NoList
    BY <2>2 DEF NoList, ListInv, AllThereIsNone
  <2>3. CASE SearchEnds
    <3>1. AllThere' <=> AllThere
      BY <2>3 DEF SearchEnds, AllThere, LongFirst, Names, LineStart
    <3> QED  BY <2>3, <3>1 DEF SearchEnds, ListInv, AllThereIsNone, AllThere, LongFirst
  <2>4. CASE CheckReturns
    <3>1. <<>> \in Text /\ <<>> \in Seq(Text)
      BY DEF Text
    <3> QED  BY <2>4, <3>1 DEF CheckReturns, ListInv, AllThereIsNone
  <2>5. CASE OpenDir
    <3>1. Cardinality(dir') <= DirMax => local' = dir'
      BY <2>5 DEF OpenDir, Pointed
    <3>2. /\ mpc = "directory" /\ mpc' = "search" /\ i1 = 1 /\ missing = 0
          /\ UNCHANGED <<list, mpos, required, i1, missing>>
      BY <2>5 DEF OpenDir, ListInv
    <3>3. (LongFirst' <=> LongFirst) /\ First' = First
      BY <3>2 DEF LongFirst, First
    <3>4. AllThere' => local' = dir'
      BY <3>1 DEF AllThere
    <3> QED  BY <3>2, <3>3, <3>4 DEF ListInv, AllThereIsNone
  <2>6. CASE OpenDirFails
    BY <2>6 DEF OpenDirFails, ListInv, AllThereIsNone
  <2> QED  BY <1>2, <2>1, <2>2, <2>3, <2>4, <2>5, <2>6, ReadNameStep, SearchNameStep
           DEF Search, MissingStep
<1> QED  BY <1>1, <1>2 DEF Next, Parse, HandOn, Read, Again, Writes, PutBack, vars

\* Although found is never reset and every name after the first is read
\* without its first character, a machine that has all its repositories, in a
\* directory that is read at once, is never told that one is missing (detect_missing_repos.c:74).
THEOREM NoneIsReported == Spec => []AllThereIsNone
<1>1. StartupInit => ListInv /\ AllThereIsNone
  BY ListStart
<1>2. ListInv /\ AllThereIsNone /\ [Next]_vars => (ListInv /\ AllThereIsNone)'
  BY ListStep
<1> QED  BY <1>1, <1>2, PTL DEF Spec

-----------------------------------------------------------------------------
(***************************************************************************)
(* What is read of a plain text is what its lines say.                     *)
(***************************************************************************)
\* The line at p gives the field f.
Gives(t, p, f, known) == \E k \in known : FieldOf(k) = f /\ Says(t, p, k)

\* v is what the lines of t before the place n say of f.
SaidUpto(v, t, f, n, known) ==
  \/ /\ v = Default
     /\ \A p \in 1..(n - 1) : ~Gives(t, p, f, known)
  \/ \E p \in 1..(n - 1), k \in known :
       /\ FieldOf(k) = f /\ Says(t, p, k) /\ v = ValueAt(t, p, k)
       /\ \A q \in (p + 1)..(n - 1) : ~Gives(t, q, f, known)

\* A line says one thing, and says it in the text.
LEMMA SaysOne ==
  ASSUME NEW t \in Text, NEW p \in Int, NEW k \in Keywords, Says(t, p, k)
  PROVE  /\ At(t, p) = Word[k][1]
         /\ p \in 1..Len(t)
         /\ \A l \in Keywords : Says(t, p, l) => l = k
<1>1. \A l \in Keywords : /\ Word[l] \in Text /\ Len(Word[l]) > 2 /\ Len(Word[l]) \in Nat
                          /\ 1 \in 1..Len(Word[l])
  BY ConfigAssumption DEF Text
<1>2. \A l \in Keywords : Says(t, p, l) => At(t, p) = Word[l][1]
  <2> SUFFICES ASSUME NEW l \in Keywords, Says(t, p, l) PROVE At(t, p) = Word[l][1]
    OBVIOUS
  <2>1. At(t, p + 1 - 1) = Word[l][1]
    BY <1>1 DEF Says
  <2> QED  BY <2>1
<1>3. Word[k][1] # "EOF"
  BY <1>1 DEF Text
<1> QED  BY <1>2, <1>3, AtText, ConfigAssumption

\* What follows the first character of a line tells whether it says k.
LEMMA SaysWhenCompared ==
  ASSUME NEW t \in Text, NEW p \in Nat \ {0}, NEW k \in Keywords,
         LineStart(t, p), At(t, p) = Word[k][1]
  PROVE  Says(t, p, k) <=> Compare(t, p + 1, Word[k])
<1> DEFINE word == Word[k]
<1>1. Len(word) \in Nat
  BY ConfigAssumption DEF Text
<1> HIDE DEF word
<1>2. ASSUME Compare(t, p + 1, word), NEW n \in 1..Len(word)
      PROVE  At(t, p + n - 1) = word[n]
  <2>1. CASE n = 1
    BY <2>1 DEF word
  <2>2. CASE n # 1
    <3>1. n \in 2..Len(word) /\ p + n - 1 = (p + 1) + n - 2
      BY <1>1, <2>2
    <3> QED  BY <1>2, <3>1 DEF Compare
  <2> QED  BY <2>1, <2>2
<1>3. ASSUME \A n \in 1..Len(word) : At(t, p + n - 1) = word[n], NEW n \in 2..Len(word)
      PROVE  At(t, (p + 1) + n - 2) = word[n]
  <2>1. n \in 1..Len(word) /\ (p + 1) + n - 2 = p + n - 1
    BY <1>1
  <2> QED  BY <1>3, <2>1
<1> QED  BY <1>2, <1>3 DEF Says, Compare, word

\* Lines that say nothing of f change nothing of what is said of it.
LEMMA SaidGoesOn ==
  ASSUME NEW v, NEW t, NEW f, NEW known, NEW n \in Int, NEW m \in Int, n <= m,
         SaidUpto(v, t, f, n, known),
         \A q \in n..(m - 1) : ~Gives(t, q, f, known)
  PROVE  SaidUpto(v, t, f, m, known)
<1>1. CASE v = Default /\ \A p \in 1..(n - 1) : ~Gives(t, p, f, known)
  <2>1. \A p \in 1..(m - 1) : ~Gives(t, p, f, known)
    BY <1>1
  <2> QED  BY <1>1, <2>1 DEF SaidUpto
<1>2. ASSUME NEW p \in 1..(n - 1), NEW k \in known,
             FieldOf(k) = f, Says(t, p, k), v = ValueAt(t, p, k),
             \A q \in (p + 1)..(n - 1) : ~Gives(t, q, f, known)
      PROVE  SaidUpto(v, t, f, m, known)
  <2>1. p \in 1..(m - 1) /\ \A q \in (p + 1)..(m - 1) : ~Gives(t, q, f, known)
    BY <1>2
  <2> QED  BY <1>2, <2>1 DEF SaidUpto
<1> QED  BY <1>1, <1>2 DEF SaidUpto

\* Nothing is said behind the end of a text.
LEMMA SaidByTheEnd ==
  ASSUME NEW v, NEW t \in Text, NEW f, NEW known \in SUBSET Keywords,
         NEW n \in Int, n > Len(t), SaidUpto(v, t, f, n, known)
  PROVE  SaidUpto(v, t, f, Len(t) + 1, known)
<1>1. Len(t) \in Nat
  BY AtText
<1>2. CASE v = Default /\ \A p \in 1..(n - 1) : ~Gives(t, p, f, known)
  <2>1. \A p \in 1..((Len(t) + 1) - 1) : ~Gives(t, p, f, known)
    BY <1>1, <1>2
  <2> QED  BY <1>2, <2>1 DEF SaidUpto
<1>3. ASSUME NEW p \in 1..(n - 1), NEW k \in known,
             FieldOf(k) = f, Says(t, p, k), v = ValueAt(t, p, k),
             \A q \in (p + 1)..(n - 1) : ~Gives(t, q, f, known)
      PROVE  SaidUpto(v, t, f, Len(t) + 1, known)
  <2>1. p \in 1..Len(t)
    BY <1>3, SaysOne
  <2>2. p \in 1..((Len(t) + 1) - 1)
        /\ \A q \in (p + 1)..((Len(t) + 1) - 1) : ~Gives(t, q, f, known)
    BY <1>1, <1>3, <2>1
  <2> QED  BY <1>3, <2>2 DEF SaidUpto
<1> QED  BY <1>2, <1>3 DEF SaidUpto

\* A line that gives a field gives no other one.
LEMMA SaidAnew ==
  ASSUME NEW t \in Text, NEW known \in SUBSET Keywords, NEW p \in 1..Len(t), NEW k \in known,
         Says(t, p, k), NEW n \in Int, n > p,
         \A q \in (p + 1)..(n - 1) : ~LineStart(t, q)
  PROVE  /\ SaidUpto(ValueAt(t, p, k), t, FieldOf(k), n, known)
         /\ \A f, v : f # FieldOf(k) /\ SaidUpto(v, t, f, p, known) => SaidUpto(v, t, f, n, known)
<1>0. Len(t) \in Nat
  BY AtText
<1>1. \A f : \A q \in (p + 1)..(n - 1) : ~Gives(t, q, f, known)
  BY DEF Gives, Says
<1>2. p \in 1..(n - 1)
  BY <1>0
<1>3. SaidUpto(ValueAt(t, p, k), t, FieldOf(k), n, known)
  BY <1>1, <1>2 DEF SaidUpto
<1>4. ASSUME NEW f, NEW v, f # FieldOf(k), SaidUpto(v, t, f, p, known)
      PROVE  SaidUpto(v, t, f, n, known)
  <2>1. ~Gives(t, p, f, known)
    BY <1>4, SaysOne DEF Gives
  <2>2. \A q \in p..(n - 1) : ~Gives(t, q, f, known)
    BY <1>0, <1>1, <2>1
  <2> QED  BY <1>0, <1>2, <1>4, <2>2, SaidGoesOn
<1> QED  BY <1>3, <1>4

\* What all lines say is what the text says.
LEMMA SaidIsSaid ==
  ASSUME NEW v, NEW t \in Text, NEW f, NEW known \in SUBSET Keywords,
         SaidUpto(v, t, f, Len(t) + 1, known)
  PROVE  v = Said(t, f, known)
<1> DEFINE S == {0} \cup {p \in 1..Len(t) : Gives(t, p, f, known)}
<1>1. Len(t) \in Nat /\ S \subseteq Nat
  BY AtText
<1>2. LastOf(t, f, known) = Max(S)
  BY DEF LastOf, Gives
<1>3. \A x \in S : (\A y \in S : x >= y) => Max(S) = x
  <2> SUFFICES ASSUME NEW x \in S, \A y \in S : x >= y PROVE Max(S) = x
    OBVIOUS
  <2>1. \A z \in S : (\A y \in S : z >= y) => z = x
    BY <1>1
  <2> HIDE DEF S
  <2> QED  BY <2>1 DEF Max
<1>4. CASE v = Default /\ \A p \in 1..((Len(t) + 1) - 1) : ~Gives(t, p, f, known)
  <2>1. S = {0}
    BY <1>1, <1>4
  <2>2. Max(S) = 0
    BY <1>3, <2>1
  <2> QED  BY <1>2, <1>4, <2>2 DEF Said
<1>5. ASSUME NEW p \in 1..((Len(t) + 1) - 1), NEW k \in known,
             FieldOf(k) = f, Says(t, p, k), v = ValueAt(t, p, k),
             \A q \in (p + 1)..((Len(t) + 1) - 1) : ~Gives(t, q, f, known)
      PROVE  v = Said(t, f, known)
  <2>1. p \in S
    BY <1>1, <1>5 DEF Gives
  <2>2. \A y \in S : p >= y
    BY <1>1, <1>5
  <2>3. Max(S) = p
    BY <1>3, <2>1, <2>2
  <2>4. k = CHOOSE l \in known : FieldOf(l) = f /\ Says(t, p, l)
    <3>1. \A l \in known : Says(t, p, l) => l = k
      BY <1>5, SaysOne
    <3> QED  BY <1>5, <3>1
  <2>5. p # 0
    BY <1>5
  <2> QED  BY <1>2, <1>5, <2>3, <2>4, <2>5 DEF Said
<1> QED  BY <1>4, <1>5 DEF SaidUpto

\* Up to where the text has been read, not counting the line of a keyword that
\* is being compared.
ReadTo == IF rpc = "ready" THEN Len(rtext) + 1
          ELSE IF fm \in Keywords THEN rpos - 1 ELSE rpos

\* Between two lines the reader stands at the beginning of one, in a line it
\* skips it stands behind a character of it.
Placed ==
  /\ rpc = "scan" /\ fm = "e" => rpos > Len(rtext) \/ LineStart(rtext, rpos)
  /\ rpc = "scan" /\ fm = "c" => rpos > 1 /\ At(rtext, rpos - 1) # "NL"

ReadSoFar == \A f \in Fields : SaidUpto(got[f], rtext, f, ReadTo, Known)

PlainInv ==
  /\ DOMAIN got = Fields
  /\ rpc # "idle" /\ rtext # Missing =>
    /\ rtext \in Text
    /\ IsPlain(rtext, Known) => Placed /\ ReadSoFar

\* What holds of a reader in the middle of a plain text.
Scans ==
  /\ rtext \in Text /\ rpos \in Nat \ {0} /\ IsPlain(rtext, Known)
  /\ Placed /\ ReadSoFar /\ ScanInv
  /\ rpc = "scan" /\ DOMAIN got = Fields

\* Lines that say nothing.
LEMMA NothingGiven ==
  ASSUME NEW t \in Text, NEW p \in Int, NEW known \in SUBSET Keywords,
         LineStart(t, p) => \A k \in known : At(t, p) # Word[k][1]
  PROVE  \A f : ~Gives(t, p, f, known)
BY SaysOne DEF Gives, Says

\* Only at a line begins one, and every place up to its end is on it.
LEMMA OnALine ==
  ASSUME NEW t \in Text, NEW p \in 1..(Len(t) + 1)
  PROVE  \A q \in (p + 1)..LineEnd(t, p) : ~LineStart(t, q)
<1>1. /\ LineEnd(t, p) \in p..(Len(t) + 1) /\ Len(t) \in Nat
      /\ \A r \in p..(LineEnd(t, p) - 1) : At(t, r) # "NL"
  BY LineEndIs, AtText
<1> SUFFICES ASSUME NEW q \in (p + 1)..LineEnd(t, p) PROVE ~LineStart(t, q)
  OBVIOUS
<1>2. q - 1 \in p..(LineEnd(t, p) - 1) /\ q # 1
  BY <1>1
<1> QED  BY <1>1, <1>2 DEF LineStart

LEMMA PlainLineBegins ==
  ASSUME Scans, UNCHANGED who, ScanChar(Known), fm = "e"
  PROVE  (Placed /\ ReadSoFar)'
<1>1. /\ rtext' = rtext /\ got' = got /\ Known' = Known /\ rpos' = rpos + 1
      /\ rtext \in Text /\ rpos \in Nat \ {0} /\ Len(rtext) \in Nat
      /\ Known \in SUBSET Keywords /\ "e" \notin Keywords /\ "c" \notin Keywords
      /\ fm' = StateOf(At(rtext, rpos), Known)
      /\ rpc' = IF At(rtext, rpos) = "EOF" THEN "ready" ELSE "scan"
  BY AtText, KnownKeywords DEF ScanChar, ReadUntil, Scans, Known
<1>2. ReadTo = rpos /\ \A f \in Fields : SaidUpto(got[f], rtext, f, rpos, Known)
  <2>1. ReadTo = rpos
    BY <1>1 DEF ReadTo, Scans
  <2> QED  BY <2>1 DEF Scans, ReadSoFar
<1>3. \A k \in Known : Word[k][1] # "EOF"
  BY <1>1, ConfigAssumption DEF Text
<1>4. CASE rpos > Len(rtext)
  <2>1. At(rtext, rpos) = "EOF"
    BY <1>1, <1>4 DEF At
  <2>2. fm' = "c" /\ rpc' = "ready"
    BY <1>1, <1>3, <2>1 DEF StateOf
  <2>3. ReadTo' = Len(rtext) + 1
    BY <1>1, <2>2 DEF ReadTo
  <2>4. \A f \in Fields : SaidUpto(got[f], rtext, f, Len(rtext) + 1, Known)
    BY <1>1, <1>2, <1>4, SaidByTheEnd
  <2> QED  BY <1>1, <2>2, <2>3, <2>4 DEF Placed, ReadSoFar
<1>5. CASE rpos \in 1..Len(rtext)
  <2>1. LineStart(rtext, rpos) /\ At(rtext, rpos) = rtext[rpos] /\ At(rtext, rpos) # "EOF"
    BY <1>1, <1>5, AtText DEF Scans, Placed, At
  <2>2. At(rtext, rpos) # "NL"
    BY <1>5, <2>1 DEF Scans, IsPlain
  <2>3. rpc' = "scan"
    BY <1>1, <2>1
  <2>4. CASE \E k \in Known : Word[k][1] = At(rtext, rpos)
    <3>1. fm' \in Keywords /\ fm' # "e" /\ fm' # "c"
      BY <1>1, <2>4 DEF StateOf
    <3>2. ReadTo' = rpos
      BY <1>1, <2>3, <3>1 DEF ReadTo
    <3> QED  BY <1>1, <1>2, <3>1, <3>2 DEF Placed, ReadSoFar
  <2>5. CASE ~\E k \in Known : Word[k][1] = At(rtext, rpos)
    <3>1. fm' = "c"
      BY <1>1, <2>5 DEF StateOf
    <3>2. ReadTo' = rpos + 1
      BY <1>1, <2>3, <3>1 DEF ReadTo
    <3>3. \A f : ~Gives(rtext, rpos, f, Known)
      BY <1>1, <2>5, NothingGiven
    <3>4. \A f \in Fields : SaidUpto(got[f], rtext, f, rpos + 1, Known)
      BY <1>1, <1>2, <3>3, SaidGoesOn
    <3> QED  BY <1>1, <2>2, <3>1, <3>2, <3>4 DEF Placed, ReadSoFar
  <2> QED  BY <2>4, <2>5
<1> QED  BY <1>1, <1>4, <1>5

LEMMA PlainLineGoesOn ==
  ASSUME Scans, UNCHANGED who, ScanChar(Known), fm = "c"
  PROVE  (Placed /\ ReadSoFar)'
<1>1. /\ rtext' = rtext /\ got' = got /\ Known' = Known /\ rpos' = rpos + 1
      /\ rtext \in Text /\ rpos \in Nat \ {0} /\ Len(rtext) \in Nat
      /\ Known \in SUBSET Keywords /\ "e" \notin Keywords /\ "c" \notin Keywords
      /\ fm' = IF At(rtext, rpos) = "NL" THEN "e" ELSE "c"
      /\ rpc' = IF At(rtext, rpos) = "EOF" THEN "ready" ELSE "scan"
      /\ rpos > 1 /\ At(rtext, rpos - 1) # "NL"
  BY AtText, KnownKeywords DEF ScanChar, ReadUntil, Scans, Known, Placed
<1>2. \A f \in Fields : SaidUpto(got[f], rtext, f, rpos, Known)
  <2>1. ReadTo = rpos
    BY <1>1 DEF ReadTo, Scans
  <2> QED  BY <2>1 DEF Scans, ReadSoFar
<1>3. \A f : ~Gives(rtext, rpos, f, Known)
  BY <1>1, NothingGiven DEF LineStart
<1>4. CASE At(rtext, rpos) = "EOF"
  <2>1. fm' = "c" /\ rpc' = "ready" /\ rpos > Len(rtext)
    BY <1>1, <1>4, AtText
  <2>2. ReadTo' = Len(rtext) + 1
    BY <1>1, <2>1 DEF ReadTo
  <2>3. \A f \in Fields : SaidUpto(got[f], rtext, f, Len(rtext) + 1, Known)
    BY <1>1, <1>2, <2>1, SaidByTheEnd
  <2> QED  BY <1>1, <2>1, <2>2, <2>3 DEF Placed, ReadSoFar
<1>5. CASE At(rtext, rpos) # "EOF"
  <2>1. rpc' = "scan" /\ ReadTo' = rpos + 1
    BY <1>1, <1>5 DEF ReadTo
  <2>2. \A f \in Fields : SaidUpto(got[f], rtext, f, rpos + 1, Known)
    BY <1>1, <1>2, <1>3, SaidGoesOn
  <2>3. Placed'
    BY <1>1, <2>1 DEF Placed, LineStart
  <2> QED  BY <1>1, <2>1, <2>2, <2>3 DEF ReadSoFar
<1> QED  BY <1>4, <1>5

\* The line of a plain text that only begins like a keyword is long enough for
\* it: the reader stays on the line.
LEMMA PlainMismatch ==
  ASSUME Scans, UNCHANGED who, ScanMismatch
  PROVE  (Placed /\ ReadSoFar)'
<1> DEFINE p == rpos - 1
           len == Len(Word[fm])
           end == LineEnd(rtext, p)
<1>1. /\ rtext' = rtext /\ got' = got /\ Known' = Known /\ rpos' = rpos + Len(Word[fm]) - 1
      /\ rtext \in Text /\ rpos \in Nat \ {0} /\ Len(rtext) \in Nat
      /\ Known \in SUBSET Keywords /\ "e" \notin Keywords /\ "c" \notin Keywords
      /\ fm \in Known /\ fm \in Keywords /\ fm' = "c"
      /\ rpc' = IF At(rtext, rpos + Len(Word[fm]) - 1 - 1) = "EOF" THEN "ready" ELSE "scan"
      /\ rpos > 1 /\ At(rtext, p) = Word[fm][1] /\ LineStart(rtext, p)
      /\ ~Compare(rtext, rpos, Word[fm])
  BY AtText, KnownKeywords DEF ScanMismatch, ReadUntil, Scans, Known, ScanInv
<1>2. len \in Nat /\ len > 2 /\ Word[fm][1] # "EOF"
  BY <1>1, ConfigAssumption DEF Text
<1>3. p \in 1..Len(rtext) /\ p \in Nat \ {0} /\ p + 1 = rpos /\ p \in 1..(Len(rtext) + 1)
  BY <1>1, <1>2, AtText, SMTT(30)
<1>4. ~Says(rtext, p, fm)
  BY <1>1, <1>3, SaysWhenCompared
<1>5. end - p >= len
  <2>1. rtext[p] = Word[fm][1]
    BY <1>1, <1>3 DEF At
  <2> QED  BY <1>1, <1>3, <1>4, <2>1 DEF Scans, IsPlain
<1>6. /\ end \in p..(Len(rtext) + 1)
      /\ \A r \in p..(end - 1) : At(rtext, r) # "NL"
  BY <1>1, <1>3, LineEndIs
<1>7. \A q \in (p + 1)..end : ~LineStart(rtext, q)
  BY <1>1, <1>3, OnALine
<1> HIDE DEF p, len, end
<1>8. /\ rpos' = p + len /\ rpos' - 1 = p + len - 1
      /\ p + len - 1 \in p..(end - 1) /\ p + len - 1 \in 1..Len(rtext) /\ p + len > 1
  <2>1. rpos' = rpos + len - 1
    BY <1>1 DEF len
  <2>2. /\ p \in Nat \ {0} /\ p + 1 = rpos /\ end \in p..(Len(rtext) + 1)
        /\ len \in Nat /\ len > 2 /\ end - p >= len /\ Len(rtext) \in Nat
    BY <1>1, <1>2, <1>3, <1>5, <1>6
  <2> QED  BY ONLY <2>1, <2>2
<1>9. At(rtext, rpos' - 1) # "EOF" /\ At(rtext, rpos' - 1) # "NL"
  BY <1>1, <1>6, <1>8, AtText
<1>10. rpc' = "scan"
  <2>1. rpos + Len(Word[fm]) - 1 - 1 = rpos' - 1
    BY <1>1
  <2> QED  BY <1>1, <1>9, <2>1
<1>11. ReadTo = p /\ ReadTo' = p + len
  BY <1>1, <1>8, <1>10 DEF ReadTo, Scans, p
<1>12. \A q \in p..(p + len - 1) : \A f : ~Gives(rtext, q, f, Known)
  <2> SUFFICES ASSUME NEW q \in p..(p + len - 1) PROVE \A f : ~Gives(rtext, q, f, Known)
    OBVIOUS
  <2>1. CASE q = p
    <3>1. \A k \in Known : ~Says(rtext, p, k)
      <4> SUFFICES ASSUME NEW k \in Known, Says(rtext, p, k) PROVE FALSE
        OBVIOUS
      <4>1. Word[k][1] = Word[fm][1] /\ k \in Keywords
        BY <1>1, <1>3, SaysOne
      <4> QED  BY <1>1, <1>4, <4>1, ConfigAssumption
    <3> QED  BY <2>1, <3>1 DEF Gives
  <2>2. CASE q # p
    <3>1. ~LineStart(rtext, q)
      BY <1>2, <1>3, <1>6, <1>7, <1>8, <2>2
    <3> QED  BY <3>1 DEF Gives, Says
  <2> QED  BY <2>1, <2>2
<1>13. \A f \in Fields : SaidUpto(got[f], rtext, f, p + len, Known)
  <2>1. \A f \in Fields : SaidUpto(got[f], rtext, f, p, Known)
    BY <1>11 DEF Scans, ReadSoFar
  <2>2. p \in Int /\ p + len \in Int /\ p <= p + len
    BY <1>2, <1>3
  <2>3. ASSUME NEW f \in Fields PROVE SaidUpto(got[f], rtext, f, p + len, Known)
    <3>1. SaidUpto(got[f], rtext, f, p, Known)
      BY <2>1
    <3>2. \A q \in p..(p + len - 1) : ~Gives(rtext, q, f, Known)
      BY <1>12
    <3>3. PICK m \in Int : m = p + len
      BY <2>2
    <3>4. PICK n \in Int : n = p
      BY <2>2
    <3>5. \A q \in n..(m - 1) : ~Gives(rtext, q, f, Known)
      BY <1>2, <1>3, <3>2, <3>3, <3>4
    <3>6. SaidUpto(got[f], rtext, f, n, Known) /\ n <= m
      BY <2>2, <3>1, <3>3, <3>4
    <3>7. SaidUpto(got[f], rtext, f, m, Known)
      BY <3>5, <3>6, SaidGoesOn
    <3> QED  BY <3>3, <3>7
  <2> QED  BY <2>3
<1>14. Placed'
  BY <1>1, <1>8, <1>9 DEF Placed
<1> QED  BY <1>1, <1>11, <1>13, <1>14 DEF ReadSoFar

\* The value takes the rest of its line, and the reader is behind it.
LEMMA PlainEntry ==
  ASSUME Scans, UNCHANGED who, ScanEntry
  PROVE  (Placed /\ ReadSoFar)'
<1> DEFINE p == rpos - 1
           len == Len(Word[fm])
           start == p + len
           end == LineEnd(rtext, start)
           value == ValueAt(rtext, p, fm)
<1>1. /\ rtext' = rtext /\ Known' = Known /\ rpc' = "scan" /\ fm' = "e"
      /\ rtext \in Text /\ rpos \in Nat \ {0} /\ Len(rtext) \in Nat
      /\ Known \in SUBSET Keywords /\ "e" \notin Keywords /\ "c" \notin Keywords
      /\ fm \in Known /\ fm \in Keywords
      /\ rpos > 1 /\ At(rtext, p) = Word[fm][1] /\ LineStart(rtext, p)
      /\ Compare(rtext, rpos, Word[fm])
  BY AtText, KnownKeywords DEF ScanEntry, Scans, Known, ScanInv
<1>2. len \in Nat /\ len > 2 /\ Word[fm][1] # "EOF"
  BY <1>1, ConfigAssumption DEF Text
<1>3. p \in 1..Len(rtext) /\ p \in Nat \ {0} /\ p + 1 = rpos /\ rpos + len - 1 = start
  <2>1. rpos \in Int /\ rpos > 1 /\ len \in Int
    BY <1>1, <1>2
  <2> HIDE DEF len
  <2>2. p \in Nat \ {0} /\ p \in Int /\ p + 1 = rpos
    BY <2>1
  <2>3. rpos + len - 1 = start
    BY <2>1
  <2>4. At(rtext, p) # "EOF" /\ rtext \in Text
    BY <1>1, <1>2
  <2> HIDE DEF p
  <2>5. p \in 1..Len(rtext)
    BY <2>2, <2>4, AtText
  <2> QED  BY <2>2, <2>3, <2>5
<1>4. Says(rtext, p, fm)
  BY <1>1, <1>3, SaysWhenCompared
<1>5. start \in 2..(Len(rtext) + 1) /\ start \in 1..(Len(rtext) + 1)
  BY <1>1, <1>3, CompareIs
<1>6. /\ end \in start..(Len(rtext) + 1) /\ At(rtext, end) \in {"NL", "EOF"}
      /\ \A r \in start..(end - 1) : At(rtext, r) # "NL"
  BY <1>1, <1>5, LineEndIs
<1>7. rpos' = end + 1
  BY <1>3 DEF ScanEntry, AfterValue
<1>8. got' = [got EXCEPT ![FieldOf(fm)] = value]
  BY <1>3 DEF ScanEntry, ValueAt
<1>9. \A n \in 1..len : At(rtext, p + n - 1) # "NL"
  BY <1>1, <1>4, ConfigAssumption DEF Says
<1> HIDE DEF p, len, start, end, value
<1>10. \A q \in (p + 1)..(end + 1 - 1) : ~LineStart(rtext, q)
  <2> SUFFICES ASSUME NEW q \in (p + 1)..(end + 1 - 1) PROVE At(rtext, q - 1) # "NL" /\ q # 1
    BY DEF LineStart
  <2>0. q \in Int /\ start \in Int /\ end \in Int
    BY <1>5, <1>6
  <2>1. CASE q - 1 < start
    <3>1. q - p \in 1..len /\ p + (q - p) - 1 = q - 1
      BY <1>2, <1>3, <2>0, <2>1 DEF start
    <3> QED  BY <1>3, <1>9, <2>0, <3>1
  <2>2. CASE q - 1 >= start
    BY <1>3, <1>6, <2>0, <2>2
  <2> QED  BY <2>0, <2>1, <2>2
<1>11. ReadTo = p /\ ReadTo' = end + 1
  BY <1>1, <1>7 DEF ReadTo, Scans, p
<1>12. end + 1 \in Int /\ end + 1 > p
  BY <1>2, <1>3, <1>5, <1>6 DEF start
<1>13. /\ SaidUpto(value, rtext, FieldOf(fm), end + 1, Known)
       /\ \A f, v : f # FieldOf(fm) /\ SaidUpto(v, rtext, f, p, Known)
                      => SaidUpto(v, rtext, f, end + 1, Known)
  <2>1. /\ SaidUpto(ValueAt(rtext, p, fm), rtext, FieldOf(fm), end + 1, Known)
        /\ \A f, v : f # FieldOf(fm) /\ SaidUpto(v, rtext, f, p, Known)
                       => SaidUpto(v, rtext, f, end + 1, Known)
    <3>1. rtext \in Text /\ Known \in SUBSET Keywords /\ fm \in Known
      BY <1>1
    <3>2. PICK m \in Int : m = end + 1
      BY <1>12
    <3>3. m > p /\ \A q \in (p + 1)..(m - 1) : ~LineStart(rtext, q)
      BY <1>3, <1>6, <1>10, <1>12, <3>2
    <3>4. PICK n \in 1..Len(rtext) : n = p
      BY <1>3
    <3>5. m > n /\ (\A q \in (n + 1)..(m - 1) : ~LineStart(rtext, q)) /\ Says(rtext, n, fm)
      BY <1>4, <3>3, <3>4
    <3>6. /\ SaidUpto(ValueAt(rtext, n, fm), rtext, FieldOf(fm), m, Known)
          /\ \A f, v : f # FieldOf(fm) /\ SaidUpto(v, rtext, f, n, Known)
                         => SaidUpto(v, rtext, f, m, Known)
      BY <3>1, <3>5, SaidAnew
    <3> QED  BY <3>2, <3>4, <3>6
  <2> QED  BY <2>1 DEF value
<1>14. ASSUME NEW f \in Fields PROVE SaidUpto(got'[f], rtext, f, end + 1, Known)
  <2>1. SaidUpto(got[f], rtext, f, p, Known)
    BY <1>11 DEF Scans, ReadSoFar
  <2>2. CASE f = FieldOf(fm) /\ got'[f] = value
    BY <1>13, <2>2
  <2>3. CASE got'[f] = got[f] /\ f # FieldOf(fm)
    BY <1>13, <2>1, <2>3
  <2>4. f \in DOMAIN got
    BY DEF Scans
  <2> QED  BY <1>8, <2>2, <2>3, <2>4
<1>15. Placed'
  <2>1. rpos' \in Nat /\ rpos' > 1 /\ rpos' - 1 = end
    BY <1>1, <1>5, <1>6, <1>7
  <2>2. rpos' > Len(rtext) \/ At(rtext, rpos' - 1) = "NL"
    BY <1>1, <1>6, <1>7, <2>1, AtText
  <2> QED  BY <1>1, <2>1, <2>2 DEF Placed, LineStart
<1> QED  BY <1>1, <1>11, <1>14, <1>15 DEF ReadSoFar

LEMMA PlainStep ==
  ASSUME LineInv, PlainInv, [Next]_vars
  PROVE  PlainInv'
<1>1. CASE ~Read /\ ~Again
  <2>1. UNCHANGED <<who, readVars>>
    BY <1>1, OthersStep
  <2>2. rtext' = rtext /\ got' = got /\ rpc' = rpc /\ rpos' = rpos /\ fm' = fm /\ Known' = Known
    BY <2>1 DEF readVars, Known
  <2> QED  BY <2>2 DEF PlainInv, Placed, ReadSoFar, ReadTo
<1>2. CASE Again
  BY <1>2 DEF Again, PlainInv
<1>3. CASE Read
  <2>0. UNCHANGED who
    BY <1>3 DEF Read, paramVars
  <2>1. CASE ReadNoFile(Known)
    BY <2>1 DEF ReadNoFile, PlainInv
  <2>2. CASE OpenForRead
    <3>1. /\ rpc' = "scan" /\ rtext' = conf /\ rpos' = 1 /\ fm' = "e"
          /\ got' = [f \in Fields |-> Default] /\ conf \in Text
      BY <2>2 DEF OpenForRead, LineInv, FileInv
    <3>2. Placed'
      BY <3>1 DEF Placed, LineStart
    <3>3. ReadTo' = 1
      BY <3>1, KnownKeywords DEF ReadTo
    <3>4. ReadSoFar'
      <4>1. \A f \in Fields : got'[f] = Default
        BY <3>1
      <4> QED  BY <3>3, <4>1 DEF ReadSoFar, SaidUpto
    <3> QED  BY <3>1, <3>2, <3>4 DEF PlainInv
  <2>3. CASE ScanChar(Known) \/ ScanEntry \/ ScanMismatch
    <3>1. /\ rpc = "scan" /\ rtext \in Text /\ rpos \in Nat \ {0} /\ rtext' = rtext
          /\ ScanInv /\ Known' = Known
      BY <2>0, <2>3 DEF ScanChar, ScanEntry, ScanMismatch, LineInv, ScanInv, Known
    <3>2. rtext # Missing
      BY <3>1, MissingIsNoText
    <3>3. DOMAIN got' = Fields
      BY <2>3 DEF ScanChar, ScanEntry, ScanMismatch, PlainInv
    <3>4. IsPlain(rtext, Known) => (Placed /\ ReadSoFar)'
      <4> SUFFICES ASSUME IsPlain(rtext, Known) PROVE (Placed /\ ReadSoFar)'
        OBVIOUS
      <4>1. Scans
        BY <3>1, <3>2 DEF Scans, PlainInv
      <4>2. ScanChar(Known) => fm = "e" \/ fm = "c"
        BY DEF ScanChar
      <4> QED  BY <2>0, <2>3, <4>1, <4>2, PlainLineBegins, PlainLineGoesOn, PlainMismatch,
                  PlainEntry
    <3> QED  BY <3>1, <3>3, <3>4 DEF PlainInv
  <2> QED  BY <1>3, <2>1, <2>2, <2>3 DEF Read, ReadStep
<1> QED  BY <1>1, <1>2, <1>3

LEMMA PlainInvSuffices ==
  ASSUME PlainInv
  PROVE  ReadsWhatIsSaid
<1> SUFFICES ASSUME rpc = "ready", rtext # Missing, IsPlain(rtext, Known), NEW f \in Fields
             PROVE  got[f] = Said(rtext, f, Known)
  BY DEF ReadsWhatIsSaid
<1>1. rtext \in Text /\ SaidUpto(got[f], rtext, f, Len(rtext) + 1, Known)
  BY DEF PlainInv, ReadSoFar, ReadTo
<1>2. Known \in SUBSET Keywords
  BY KnownKeywords
<1> QED  BY <1>1, <1>2, SaidIsSaid

\* Of a text without an empty line and without a line that is cut short, a
\* program reads exactly what its lines say, the last one of each field
\* (cfg_parsing.c:35).
THEOREM ReadsWhatLinesSay == Spec => []ReadsWhatIsSaid
<1>1. StartupInit => LineInv /\ OnlyWholeLines /\ PlainInv
  <2> SUFFICES ASSUME StartupInit PROVE LineInv /\ OnlyWholeLines /\ PlainInv
    OBVIOUS
  <2>1. rpc = "idle" /\ DOMAIN got = Fields
    BY DEF StartupInit, ConfigInit
  <2> QED  BY <2>1, LineInit DEF PlainInv
<1>2. LineInv /\ OnlyWholeLines /\ PlainInv /\ [Next]_vars => (LineInv /\ OnlyWholeLines /\ PlainInv)'
  BY LineStep, PlainStep
<1>3. PlainInv => ReadsWhatIsSaid
  BY PlainInvSuffices
<1> QED  BY <1>1, <1>2, <1>3, PTL DEF Spec

-----------------------------------------------------------------------------
(***************************************************************************)
(* The command line: the commands are counted as they come, and the one    *)
(* that is done is the only one there was.                                 *)
(***************************************************************************)
\* One more argument adds its place to those of its kind.
LEMMA OneMoreGiven ==
  ASSUME given \in Seq(Arguments), NEW a \in Arguments, Argument(a), NEW kinds
  PROVE  /\ given' \in Seq(Arguments)
         /\ Given(kinds)' = Given(kinds) \cup (IF a \in kinds THEN {Len(given) + 1} ELSE {})
         /\ Len(given) + 1 \notin Given(kinds)
         /\ given'[Len(given) + 1] = a
         /\ \A i \in Given(kinds) : given'[i] = given[i]
<1>1. given' = Append(given, a) /\ Len(given) \in Nat /\ DOMAIN given = 1..Len(given)
  BY DEF Argument
<1>2. DOMAIN given' = 1..(Len(given) + 1)
  BY <1>1
<1>3. \A i \in 1..(Len(given) + 1) : given'[i] = IF i = Len(given) + 1 THEN a ELSE given[i]
  BY <1>1
<1> QED  BY <1>1, <1>2, <1>3 DEF Given

LEMMA GivenIsFinite ==
  ASSUME given \in Seq(Arguments), NEW kinds
  PROVE  IsFiniteSet(Given(kinds)) /\ Cardinality(Given(kinds)) \in Nat
<1>1. Len(given) \in Nat /\ Given(kinds) \subseteq 1..Len(given)
  BY DEF Given
<1>2. IsFiniteSet(1..Len(given))
  BY <1>1, FS_Interval
<1> QED  BY <1>1, <1>2, FS_Subset, FS_CardinalityType

\* Inductive form of CommandIsMeant: while there are arguments, seen is the
\* number of commands among them and command the last of them.
MeantInv ==
  /\ given \in Seq(Arguments)
  /\ command \in Commands \cup {"none", "update_all"}
  /\ ppc = "parsing" => /\ seen = Cardinality(Given(Commands))
                        /\ seen = 1 => \E i \in DOMAIN given :
                             Given(Commands) = {i} /\ command = given[i]

LEMMA TakesCommand ==
  ASSUME MeantInv, TakeCommand
  PROVE  MeantInv'
<1>1. PICK c \in Commands : Argument(c) /\ command' = c
  BY DEF TakeCommand
<1>2. given \in Seq(Arguments) /\ c \in Arguments /\ Len(given) \in Nat
  BY DEF MeantInv, Arguments
<1>3. /\ given' \in Seq(Arguments)
      /\ Given(Commands)' = Given(Commands) \cup {Len(given) + 1}
      /\ Len(given) + 1 \notin Given(Commands)
      /\ given'[Len(given) + 1] = c
  BY <1>1, <1>2, OneMoreGiven
<1>4. IsFiniteSet(Given(Commands)) /\ Cardinality(Given(Commands)) \in Nat
  BY <1>2, GivenIsFinite
<1>5. Cardinality(Given(Commands)') = Cardinality(Given(Commands)) + 1
  BY <1>3, <1>4, FS_AddElement
<1>6. ppc = "parsing" /\ ppc' = ppc /\ seen' = seen + 1 /\ seen = Cardinality(Given(Commands))
  BY <1>1 DEF MeantInv, TakeCommand, Argument
<1>7. ASSUME seen' = 1 PROVE Given(Commands)' = {Len(given) + 1}
  <2>1. Cardinality(Given(Commands)) = 0
    BY <1>4, <1>6, <1>7
  <2>2. Given(Commands) = {}
    BY <1>4, <2>1, FS_EmptySet
  <2> QED  BY <1>3, <2>2
<1>8. Len(given) + 1 \in DOMAIN given'
  BY <1>1, <1>2 DEF Argument
<1> QED  BY <1>1, <1>3, <1>5, <1>6, <1>7, <1>8 DEF MeantInv

LEMMA TakesOther ==
  ASSUME MeantInv, NEW a \in {"level", "operand"}, Argument(a), UNCHANGED <<ppc, command, seen>>
  PROVE  MeantInv'
<1>1. given \in Seq(Arguments) /\ a \in Arguments /\ a \notin Commands /\ Len(given) \in Nat
  BY DEF MeantInv, Arguments, Commands
<1>2. given' \in Seq(Arguments) /\ Given(Commands)' = Given(Commands)
      /\ \A i \in Given(Commands) : given'[i] = given[i]
  <2>1. /\ given' \in Seq(Arguments)
        /\ Given(Commands)' = Given(Commands)
                              \cup (IF a \in Commands THEN {Len(given) + 1} ELSE {})
        /\ \A i \in Given(Commands) : given'[i] = given[i]
    BY <1>1, OneMoreGiven
  <2> QED  BY <1>1, <2>1
<1>3. DOMAIN given \subseteq DOMAIN given'
  BY <1>1 DEF Argument
<1> QED  BY <1>2, <1>3 DEF MeantInv

LEMMA EndsMeant ==
  ASSUME MeantInv, EndOfArguments
  PROVE  MeantInv' /\ CommandIsMeant'
<1> DEFINE operands == Cardinality(Given({"operand"}))
<1>1. given \in Seq(Arguments) /\ UNCHANGED <<who, given, seen>> /\ ppc' # "parsing" /\ ppc = "parsing"
  BY DEF MeantInv, EndOfArguments
<1>2. operands = 0 <=> Given({"operand"}) = {}
  BY <1>1, GivenIsFinite, FS_EmptySet
<1>3. Cardinality(Given(Commands)) \in Nat /\ seen = Cardinality(Given(Commands))
  BY <1>1, GivenIsFinite DEF MeantInv
<1>4. command' \in {command, "update_all"}
  BY DEF EndOfArguments, WithoutPackages
<1>5. CommandIsMeant'
  <2> SUFFICES ASSUME ppc' = "parsed", who' = "client" PROVE
                 \E i \in DOMAIN given :
                   /\ Given(Commands) = {i}
                   /\ command' = IF given[i] = "update" /\ Given({"operand"}) = {}
                                 THEN "update_all" ELSE given[i]
    BY <1>1 DEF CommandIsMeant, Given
  <2>1. /\ ~TooMany /\ seen # 0
        /\ command' = WithoutPackages(command, operands)
    BY <1>1 DEF EndOfArguments
  <2>2. seen = 1
    BY <1>3, <2>1 DEF TooMany
  <2>3. PICK i \in DOMAIN given : Given(Commands) = {i} /\ command = given[i]
    BY <1>1, <2>2 DEF MeantInv
  <2> HIDE DEF operands
  <2> QED  BY <1>2, <2>1, <2>3 DEF WithoutPackages
<1> QED  BY <1>1, <1>4, <1>5 DEF MeantInv

LEMMA ParamsKeepsMeant ==
  ASSUME MeantInv, ParamsStep
  PROVE  MeantInv' /\ CommandIsMeant'
<1>1. CASE TakeCommand
  BY <1>1, TakesCommand DEF TakeCommand, Argument, CommandIsMeant
<1>2. CASE TakeOther
  <2>1. PICK a \in {"level", "operand"} : Argument(a)
    BY <1>2 DEF TakeOther
  <2> QED  BY <1>2, <2>1, TakesOther DEF TakeOther, Argument, CommandIsMeant
<1>3. CASE TakeHelp \/ TakeStrange \/ TakeUnlisted
  <2>1. PICK a \in Arguments : Argument(a)
    BY <1>3 DEF TakeHelp, TakeStrange, TakeUnlisted, Arguments
  <2>2. given' \in Seq(Arguments)
    BY <2>1, OneMoreGiven DEF MeantInv
  <2>3. ppc' \in {"usage", "PARAMS_ERROR", "crashed"} /\ command' = command
    BY <1>3 DEF TakeHelp, TakeStrange, TakeUnlisted
  <2> QED  BY <2>2, <2>3 DEF MeantInv, CommandIsMeant
<1> QED  BY <1>1, <1>2, <1>3, EndsMeant DEF ParamsStep

LEMMA MeantStep ==
  ASSUME MeantInv, CommandIsMeant, [Next]_vars
  PROVE  MeantInv' /\ CommandIsMeant'
<1>1. CASE Parse
  BY <1>1, ParamsKeepsMeant DEF Parse
<1>2. CASE HandOn \/ Again
  <2>1. Fresh /\ ppc' \in {"reading", "parsing"}
    BY <1>2 DEF HandOn, Again
  <2>2. given' = <<>> /\ command' = "none" /\ seen' = 0
    BY <2>1 DEF Fresh
  <2>3. Given(Commands)' = {}
    BY <2>2 DEF Given
  <2>4. Cardinality(Given(Commands)') = 0
    BY <2>3, FS_EmptySet
  <2> QED  BY <2>1, <2>2, <2>4 DEF MeantInv, CommandIsMeant
<1>3. CASE Read \/ Writes \/ PutBack \/ Search \/ UNCHANGED vars
  <2>1. UNCHANGED paramVars
    BY <1>3 DEF Read, Writes, PutBack, Search, vars
  <2> QED  BY <2>1 DEF paramVars, MeantInv, CommandIsMeant, Given
<1> QED  BY <1>1, <1>2, <1>3 DEF Next

LEMMA MeantInit == StartupInit => MeantInv /\ CommandIsMeant
<1> SUFFICES ASSUME StartupInit PROVE MeantInv /\ CommandIsMeant
  OBVIOUS
<1>1. ppc = "parsing" /\ given = <<>> /\ command = "none" /\ seen = 0
  BY DEF StartupInit, ParamsInit
<1>2. Given(Commands) = {}
  BY <1>1 DEF Given
<1>3. Cardinality(Given(Commands)) = 0
  BY <1>2, FS_EmptySet
<1> QED  BY <1>1, <1>3 DEF MeantInv, CommandIsMeant

\* Whatever is typed, a client does the one command that was given, and
\* updates everything only for an update without packages (params.c:85,
\* client_main.c:68).
THEOREM CommandIsTheOneGiven == Spec => []CommandIsMeant
<1>1. StartupInit => MeantInv /\ CommandIsMeant
  BY MeantInit
<1>2. MeantInv /\ CommandIsMeant /\ [Next]_vars => (MeantInv /\ CommandIsMeant)'
  BY MeantStep
<1> QED  BY <1>1, <1>2, PTL DEF Spec

-----------------------------------------------------------------------------
(***************************************************************************)
(* Types.                                                                  *)
(***************************************************************************)
\* There is a longest beginning of digits.
LEMMA DigitsIsText ==
  ASSUME NEW v \in Text
  PROVE  Digits(v) \in Text
<1> DEFINE T == {q \in 1..(Len(v) + 1) : q = Len(v) + 1 \/ v[q] \notin Digit}
<1>1. Len(v) \in Nat
  BY DEF Text
<1>2. T \subseteq Nat /\ T # {}
  BY <1>1
<1>3. PICK q \in T : \A r \in T : ~ (<<r, q>> \in OpToRel(<, Nat))
  <2> HIDE DEF T
  <2> QED  BY <1>2, NatLessThanWellFounded, WFMin
<1>4. \A r \in T : ~(r < q)
  BY <1>2, <1>3 DEF OpToRel
<1>5. \E n \in 0..Len(v) :
        /\ \A i \in 1..n : v[i] \in Digit
        /\ n < Len(v) => v[n + 1] \notin Digit
  <2>1. q - 1 \in 0..Len(v) /\ (q - 1) + 1 = q
    BY <1>1
  <2>2. \A i \in 1..(q - 1) : v[i] \in Digit
    BY <1>1, <1>4
  <2>3. q - 1 < Len(v) => v[(q - 1) + 1] \notin Digit
    BY <1>1, <2>1
  <2> QED  BY <2>1, <2>2, <2>3
<1> DEFINE n == CHOOSE m \in 0..Len(v) : /\ \A i \in 1..m : v[i] \in Digit
                                         /\ m < Len(v) => v[m + 1] \notin Digit
<1>6. n \in 0..Len(v) /\ Digits(v) = SubSeq(v, 1, n)
  BY <1>5 DEF Digits
<1> HIDE DEF n
<1>7. SubSeq(v, 1, n) \in Text
  BY <1>1, <1>6, SubSeqProperties DEF Text
<1> QED  BY <1>6, <1>7

\* Every value that is read is a text.
LEMMA ValueIsText ==
  ASSUME NEW t \in Text, NEW p \in 1..(Len(t) + 1), NEW f
  PROVE  Converted(f, ReadValue(t, p, MaxOf(f))) \in Text
<1> DEFINE end == LineEnd(t, p)
           line == SubSeq(t, p, end - 1)
<1>1. Len(t) \in Nat /\ end \in p..(Len(t) + 1)
  BY LineEndIs, AtText
<1> HIDE DEF end
<1>2. line \in Text /\ Len(line) \in Nat
  BY <1>1, SubSeqProperties DEF Text
<1> HIDE DEF line
<1>3. PICK max \in Nat : max = MaxOf(f)
  BY ConfigAssumption DEF MaxOf
<1>4. Cut(line, max) \in Text
  <2>1. CASE max # 0 /\ Len(line) >= max
    <3>1. max - 1 \in 0..Len(line) /\ Cut(line, max) = SubSeq(line, 1, max - 1)
      BY <1>2, <2>1 DEF Cut
    <3> QED  BY <1>2, <3>1, SubSeqProperties DEF Text
  <2>2. CASE ~(max # 0 /\ Len(line) >= max)
    BY <1>2, <2>2 DEF Cut
  <2> QED  BY <2>1, <2>2
<1> QED  BY <1>3, <1>4, DigitsIsText DEF Converted, ReadValue, line, end

\* A search that is under way has counted from 0.
CountInv == mpc \in {"names", "directory", "search"} => missing \in Nat

TypeInv == StartupTypeOK /\ CountInv

ReadTypeOK ==
  /\ rpc \in {"idle", "scan", "ready"}
  /\ rtext \in Text \cup {Missing} /\ rpos \in Nat \ {0}
  /\ fm \in {"e", "c"} \cup Keywords
  /\ got \in [Fields -> Text]

LEMMA DefaultIsText == Default \in Text /\ Garbage \in Text /\ <<>> \in Text
<1>1. PICK nl : nl = "NL"
  OBVIOUS
<1>2. <<nl>> \in Text
  BY <1>1, ConfigAssumption
<1>3. nl \in STRING \ {"EOF"}
  BY <1>2 DEF Text
<1>4. <<nl, nl>> \in Text /\ <<>> \in Text
  BY <1>3 DEF Text
<1> QED  BY <1>1, <1>2, <1>4 DEF Default, Garbage

LEMMA ReadTypes ==
  ASSUME ReadTypeOK, LineInv, ReadStep(Known)
  PROVE  ReadTypeOK'
<1> USE DEF ReadTypeOK
<1>0. fm \in Keywords => Len(Word[fm]) \in Nat /\ Len(Word[fm]) > 2
  BY ConfigAssumption DEF Text
<1>1. CASE ReadNoFile(Known)
  <2>1. rtext' = Missing /\ rpc' = "ready" /\ UNCHANGED <<rpos, fm>>
    BY <1>1 DEF ReadNoFile
  <2>2. PICK junk \in {Default, Garbage} :
          got' = [f \in Fields |-> IF f = "id" /\ "id" \in Known THEN junk ELSE Default]
    BY <1>1 DEF ReadNoFile
  <2>3. got' \in [Fields -> Text]
    BY <2>2, DefaultIsText
  <2> QED  BY <2>1, <2>3
<1>2. CASE OpenForRead
  <2>1. rtext' \in Text /\ rpc' = "scan" /\ rpos' = 1 /\ fm' = "e"
    BY <1>2 DEF OpenForRead, LineInv, FileInv
  <2>2. got' \in [Fields -> Text]
    BY <1>2, DefaultIsText DEF OpenForRead
  <2> QED  BY <2>1, <2>2
<1>3. CASE ScanChar(Known)
  <2>1. rtext' = rtext /\ got' = got /\ rpos' = rpos + 1 /\ rpc' \in {"ready", "scan"}
    BY <1>3 DEF ScanChar, ReadUntil
  <2>2. fm' \in {"e", "c"} \cup Keywords
    BY <1>3, KnownKeywords DEF ScanChar, StateOf
  <2> QED  BY <2>1, <2>2
<1>4. CASE ScanEntry
  <2> DEFINE start == rpos + Len(Word[fm]) - 1
  <2>1. rtext \in Text /\ fm \in Keywords /\ start \in 1..(Len(rtext) + 1) /\ Len(rtext) \in Nat
    BY <1>4, CompareIs, AtText DEF ScanEntry, LineInv, ScanInv
  <2>2. got' = [got EXCEPT ![FieldOf(fm)] =
                  Converted(FieldOf(fm), ReadValue(rtext, start, MaxOf(FieldOf(fm))))]
        /\ rpos' = LineEnd(rtext, start) + 1 /\ fm' = "e" /\ UNCHANGED <<rpc, rtext>>
    BY <1>4 DEF ScanEntry, AfterValue
  <2> HIDE DEF start
  <2>3. LineEnd(rtext, start) \in start..(Len(rtext) + 1)
    BY <2>1, LineEndIs
  <2>4. rpos' \in Nat \ {0}
    BY <2>1, <2>2, <2>3
  <2>5. got' \in [Fields -> Text]
    BY <2>1, <2>2, ValueIsText
  <2> QED  BY <2>2, <2>4, <2>5
<1>5. CASE ScanMismatch
  <2>1. rtext' = rtext /\ got' = got /\ fm' = "c" /\ rpc' \in {"ready", "scan"}
        /\ rpos' = rpos + Len(Word[fm]) - 1 /\ fm \in Keywords
    BY <1>5 DEF ScanMismatch, ReadUntil
  <2> QED  BY <1>0, <2>1
<1> QED  BY <1>1, <1>2, <1>3, <1>4, <1>5 DEF ReadStep

WriteTypeOK ==
  /\ wpc \in {"idle", "find", "append", "create", "fill", "remove", "rename",
              "return 0", "return 1", "crashed"}
  /\ wtext \in Text /\ wfm \in {"e", "c", "v"} /\ at \in Nat /\ cut \in BOOLEAN

\* No keyword is so short that a comparison reads nothing.
LEMMA WordIsLong == \A k \in Keywords : Len(Word[k]) \in Nat /\ Len(Word[k]) > 2
BY ConfigAssumption DEF Text

LEMMA WriteTypes ==
  ASSUME WriteTypeOK, FileInv, Writes
  PROVE  WriteTypeOK'
<1> USE DEF WriteTypeOK
<1>1. CASE \E k \in Keywords, v \in Values : OpenForWrite(k, v)
  <2>1. PICK k \in Keywords, v \in Values : OpenForWrite(k, v)
    BY <1>1
  <2>2. wfm' = "e" /\ at' = 0 /\ cut' = cut
    BY <2>1 DEF OpenForWrite
  <2>3. \/ wpc' = "return 1" /\ wtext' = wtext
        \/ wpc' = "find" /\ wtext' = conf /\ conf \in Text
    BY <2>1 DEF OpenForWrite, FileInv
  <2> QED  BY <2>2, <2>3
<1>2. CASE FindChar
  BY <1>2 DEF FindChar, FindUntil
<1>3. CASE FindName
  <2>1. Len(Word[key]) \in Nat /\ Len(Word[key]) > 2
    <3>1. key \in Keywords
      BY DEF FileInv
    <3> QED  BY <3>1, WordIsLong
  <2> QED  BY <1>3, <2>1 DEF FindName, FindUntil, FileInv
<1>4. CASE AppendEntry \/ CreateTemp \/ CloseTemp \/ RemoveConf \/ RenameTemp
  BY <1>4 DEF AppendEntry, CreateTemp, CloseTemp, RemoveConf, RenameTemp
<1>5. CASE WriteReturned \/ WriterKilled
  <2>1. Forgotten
    BY <1>5 DEF WriteReturned, WriterKilled
  <2> QED  BY <2>1, DefaultIsText DEF Forgotten
<1> QED  BY <1>1, <1>2, <1>3, <1>4, <1>5 DEF Writes, WriteStep

LEMMA SearchTypes ==
  ASSUME MissingTypeOK, CountInv, ListInv, MissingStep
  PROVE  MissingTypeOK' /\ CountInv'
<1> USE DEF MissingTypeOK, CountInv
<1>1. CASE OpenList
  <2>1. list' \in Text
    BY <1>1, MissingAssumption DEF OpenList
  <2> QED  BY <1>1, <2>1 DEF OpenList, ListInv
<1>2. CASE NoList
  BY <1>2 DEF NoList
<1>3. CASE ReadName
  <2>1. /\ list \in Text /\ mpos \in 1..(Len(list) + 1) /\ Len(list) \in Nat
        /\ mpos' = LineEnd(list, mpos) + 1 + 1
        /\ UNCHANGED <<list, dir, local, i1, found, missing>> /\ mpc = "names"
        /\ mpc' \in {"directory", "names"}
    BY <1>3, AtText DEF ReadName, NextName, AfterValue, ListInv
  <2>2. LineEnd(list, mpos) \in mpos..(Len(list) + 1)
    BY <2>1, LineEndIs
  <2>3. mpos' \in Nat \ {0}
    BY <2>1, <2>2
  <2>4. required' \in Seq(Text)
    BY <1>3, ReadNameStep DEF ListInv
  <2> QED  BY <2>1, <2>3, <2>4
<1>4. CASE SearchName
  <2>1. found' \in BOOLEAN
    BY <1>4 DEF SearchName, Found
  <2>2. missing \in Nat /\ missing' \in Nat
    BY <1>4 DEF SearchName
  <2>3. i1' \in Nat \ {0} /\ UNCHANGED <<mpc, list, dir, mpos, required, local>>
    BY <1>4 DEF SearchName
  <2> QED  BY <2>1, <2>2, <2>3
<1>5. CASE SearchEnds
  BY <1>5 DEF SearchEnds
<1>6. CASE CheckReturns
  <2>1. <<>> \in Seq(Text)
    OBVIOUS
  <2>2. /\ mpc' = "idle" /\ list' = <<>> /\ dir' = {} /\ local' = {} /\ mpos' = 1
        /\ required' = <<>>
        /\ i1' = 1 /\ found' = FALSE /\ missing' = 0
    BY <1>6 DEF CheckReturns
  <2>3. list' \in Text /\ dir' \subseteq Text /\ local' \subseteq Text
    BY <2>2, DefaultIsText
  <2>4. required' \in Seq(Text)
    BY <2>1, <2>2
  <2>5. found' \in BOOLEAN
    BY <2>2
  <2>6. missing' \in Nat /\ mpos' \in Nat \ {0} /\ i1' \in Nat \ {0}
    BY <2>2
  <2> QED  BY <2>2, <2>3, <2>4, <2>5, <2>6
<1>7. CASE OpenDir
  <2>1. dir' \subseteq Text /\ local' \subseteq Text
    BY <1>7, MissingAssumption DEF OpenDir, Pointed
  <2> QED  BY <1>7, <2>1 DEF OpenDir
<1>8. CASE OpenDirFails
  BY <1>8 DEF OpenDirFails
<1> QED  BY <1>1, <1>2, <1>3, <1>4, <1>5, <1>6, <1>7, <1>8 DEF MissingStep

ParamTypeOK ==
  /\ who \in Programs
  /\ ppc \in {"parsing", "parsed", "reading", "usage", "PARAMS_ERROR", "crashed"}
  /\ seen \in Nat /\ pkgs \in Nat

LEMMA ParamTypes ==
  ASSUME ParamTypeOK, MeantInv, ParamsStep
  PROVE  ParamTypeOK'
<1> USE DEF ParamTypeOK
<1>1. CASE EndOfArguments
  <2>1. Cardinality(Given({"operand"})) \in Nat
    BY GivenIsFinite DEF MeantInv
  <2> QED  BY <1>1, <2>1 DEF EndOfArguments
<1>2. CASE TakeCommand \/ TakeOther \/ TakeHelp \/ TakeStrange \/ TakeUnlisted
  BY <1>2 DEF TakeCommand, TakeOther, TakeHelp, TakeStrange, TakeUnlisted, Argument
<1> QED  BY <1>1, <1>2 DEF ParamsStep

\* The types, from those of the parts and the invariants that say more.
LEMMA TypeParts ==
  ASSUME ListInv, FileInv
  PROVE  StartupTypeOK <=>
           /\ ParamTypeOK /\ ReadTypeOK /\ WriteTypeOK /\ MissingTypeOK
           /\ given \in Seq(Arguments) /\ command \in Commands \cup {"none", "update_all"}
BY DEF StartupTypeOK, ParamTypeOK, ReadTypeOK, WriteTypeOK, ConfigTypeOK, FileInv

AllInv == LineInv /\ OnlyWholeLines /\ ListInv /\ AllThereIsNone /\ MeantInv /\ CommandIsMeant

LEMMA TypeStep ==
  ASSUME AllInv, TypeInv, [Next]_vars
  PROVE  AllInv' /\ TypeInv'
<1>1. AllInv'
  BY LineStep, ListStep, MeantStep DEF AllInv
<1>2. ListInv /\ FileInv /\ ListInv' /\ FileInv' /\ MeantInv /\ MeantInv' /\ LineInv
  BY <1>1 DEF AllInv, LineInv
<1>3. ParamTypeOK /\ ReadTypeOK /\ WriteTypeOK /\ MissingTypeOK /\ CountInv
  BY <1>2, TypeParts DEF TypeInv
<1>4. given' \in Seq(Arguments) /\ command' \in Commands \cup {"none", "update_all"}
  BY <1>2 DEF MeantInv
<1>5. ParamTypeOK'
  <2>1. CASE Parse
    BY <1>2, <1>3, <2>1, ParamTypes DEF Parse
  <2>2. CASE HandOn \/ Again
    BY <1>3, <2>2 DEF HandOn, Again, Fresh, ParamTypeOK
  <2>3. CASE UNCHANGED paramVars
    BY <1>3, <2>3 DEF paramVars, ParamTypeOK
  <2> QED  BY <2>1, <2>2, <2>3 DEF Next, Read, Writes, PutBack, Search, vars
<1>6. ReadTypeOK'
  <2>1. CASE Read
    BY <1>2, <1>3, <2>1, ReadTypes DEF Read
  <2>2. CASE Again
    <3>1. got' \in [Fields -> Text]
      BY <2>2, DefaultIsText DEF Again
    <3> QED  BY <2>2, <3>1, DefaultIsText DEF Again, ReadTypeOK
  <2>3. CASE ~Read /\ ~Again
    BY <1>3, <2>3, OthersStep DEF readVars, ReadTypeOK
  <2> QED  BY <2>1, <2>2, <2>3
<1>7. WriteTypeOK'
  <2>1. CASE Writes
    BY <1>2, <1>3, <2>1, WriteTypes
  <2>2. CASE UNCHANGED writeVars
    BY <1>3, <2>2 DEF writeVars, WriteTypeOK
  <2>3. Read => UNCHANGED writeVars
    BY DEF Read, ReadStep, ReadNoFile, OpenForRead, ScanChar, ScanEntry, ScanMismatch
  <2> QED  BY <2>1, <2>2, <2>3 DEF Next, Parse, HandOn, Again, PutBack, Search, vars, configVars
<1>8. MissingTypeOK' /\ CountInv'
  <2>1. CASE Search
    BY <1>2, <1>3, <2>1, SearchTypes DEF Search
  <2>2. CASE UNCHANGED missingVars
    BY <1>3, <2>2 DEF missingVars, MissingTypeOK, CountInv
  <2> QED  BY <2>1, <2>2 DEF Next, Parse, HandOn, Read, Again, Writes, PutBack, vars
<1>9. StartupTypeOK'
  BY <1>2, <1>4, <1>5, <1>6, <1>7, <1>8 DEF StartupTypeOK, ParamTypeOK, ReadTypeOK, WriteTypeOK,
                                            ConfigTypeOK, FileInv
<1> QED  BY <1>1, <1>8, <1>9 DEF TypeInv

LEMMA TypeInit == StartupInit => AllInv /\ TypeInv
<1> SUFFICES ASSUME StartupInit PROVE AllInv /\ TypeInv
  OBVIOUS
<1>1. AllInv
  BY LineInit, ListStart, MeantInit DEF AllInv
<1>2. got \in [Fields -> Text]
  BY DefaultIsText DEF StartupInit, ConfigInit
<1>3. ReadTypeOK /\ WriteTypeOK
  <2>1. /\ rpc = "idle" /\ rtext = <<>> /\ rpos = 1 /\ fm = "e"
        /\ wpc = "idle" /\ wtext = <<>> /\ wfm = "e" /\ at = 0 /\ cut = FALSE
    BY DEF StartupInit, ConfigInit
  <2>2. cut \in BOOLEAN
    BY <2>1, Zenon
  <2>3. WriteTypeOK
    BY <2>1, <2>2, DefaultIsText DEF WriteTypeOK
  <2> QED  BY <1>2, <2>1, <2>3, DefaultIsText DEF ReadTypeOK
<1>4. ParamTypeOK /\ MissingTypeOK /\ CountInv
  <2>1. <<>> \in Seq(Text)
    OBVIOUS
  <2>2. MissingTypeOK /\ CountInv
    <3>1. /\ mpc = "idle" /\ list = <<>> /\ dir = {} /\ local = {} /\ mpos = 1
          /\ required = <<>> /\ i1 = 1 /\ found = FALSE /\ missing = 0
      BY DEF StartupInit, MissingInit
    <3>2. list \in Text /\ dir \subseteq Text /\ local \subseteq Text
      BY <3>1, DefaultIsText
    <3>3. required \in Seq(Text)
      BY <2>1, <3>1
    <3>4. found \in BOOLEAN
      BY <3>1
    <3>5. missing \in Nat \cup {-1} /\ missing \in Nat /\ mpos \in Nat \ {0} /\ i1 \in Nat \ {0}
      BY <3>1
    <3> QED  BY <3>1, <3>2, <3>3, <3>4, <3>5 DEF MissingTypeOK, CountInv
  <2> QED  BY <2>2 DEF StartupInit, ParamsInit, ParamTypeOK
<1> QED  BY <1>1, <1>3, <1>4, TypeParts DEF AllInv, LineInv, MeantInv, TypeInv

\* Every variable of a start, a write and a search stays in its type: no text
\* ever holds the end of a file.
THEOREM StartupTypes == Spec => []StartupTypeOK
<1>1. StartupInit => AllInv /\ TypeInv
  BY TypeInit
<1>2. AllInv /\ TypeInv /\ [Next]_vars => (AllInv /\ TypeInv)'
  BY TypeStep
<1>3. TypeInv => StartupTypeOK
  BY DEF TypeInv
<1> QED  BY <1>1, <1>2, <1>3, PTL DEF Spec

-----------------------------------------------------------------------------
(***************************************************************************)
(* What a text says that was written to, line by line.                     *)
(***************************************************************************)
OneLine(v) == \A i \in 1..Len(v) : v[i] # "NL"

\* There is one place where a line ends.
LEMMA LineEndOne ==
  ASSUME NEW t \in Text, NEW p \in 1..(Len(t) + 1), NEW q \in p..(Len(t) + 1),
         At(t, q) \in {"NL", "EOF"}, \A r \in p..(q - 1) : At(t, r) # "NL"
  PROVE  LineEnd(t, p) = q
<1> DEFINE e == LineEnd(t, p)
<1>1. /\ e \in p..(Len(t) + 1) /\ At(t, e) \in {"NL", "EOF"} /\ Len(t) \in Nat
      /\ \A r \in p..(e - 1) : At(t, r) # "NL"
  BY LineEndIs, AtText
<1> HIDE DEF e
<1>2. ~(q < e)
  <2> SUFFICES ASSUME q < e PROVE FALSE
    OBVIOUS
  <2>1. q \in p..(e - 1) /\ q \in 1..Len(t)
    BY <1>1
  <2> QED  BY <1>1, <2>1, AtText
<1>3. ~(e < q)
  <2> SUFFICES ASSUME e < q PROVE FALSE
    OBVIOUS
  <2>1. e \in p..(q - 1) /\ e \in 1..Len(t)
    BY <1>1
  <2> QED  BY <1>1, <2>1, AtText
<1> QED  BY <1>1, <1>2, <1>3 DEF e

\* The characters of a keyword, and where a line that says it goes on.
LEMMA KeywordChars ==
  ASSUME NEW k \in Keywords
  PROVE  /\ Len(Word[k]) \in Nat /\ Len(Word[k]) > 2
         /\ \A i \in 1..Len(Word[k]) : Word[k][i] \notin {"NL", "EOF"}
BY ConfigAssumption DEF Text

LEMMA SaysInLine ==
  ASSUME NEW t \in Text, NEW p \in 1..Len(t), NEW k \in Keywords, Says(t, p, k)
  PROVE  /\ p + Len(Word[k]) \in 1..(Len(t) + 1) /\ p + Len(Word[k]) <= LineEnd(t, p)
         /\ LineEnd(t, p + Len(Word[k])) = LineEnd(t, p)
<1> DEFINE n == Len(Word[k])
           e == LineEnd(t, p)
<1>1. /\ e \in p..(Len(t) + 1) /\ At(t, e) \in {"NL", "EOF"} /\ Len(t) \in Nat
      /\ \A r \in p..(e - 1) : At(t, r) # "NL"
  BY LineEndIs, AtText
<1>2. n \in Nat /\ n > 2 /\ \A i \in 1..n : Word[k][i] \notin {"NL", "EOF"}
  BY KeywordChars
<1>3. \A i \in 1..n : At(t, p + i - 1) = Word[k][i]
  BY DEF Says
<1> HIDE DEF n, e
<1>4. p + n <= e
  <2> SUFFICES ASSUME ~(p + n <= e) PROVE FALSE
    OBVIOUS
  <2>1. e - p + 1 \in 1..n /\ p + (e - p + 1) - 1 = e
    BY <1>1, <1>2
  <2> QED  BY <1>1, <1>2, <1>3, <2>1
<1>5. /\ p + n \in 1..(Len(t) + 1) /\ e \in (p + n)..(Len(t) + 1)
      /\ \A r \in (p + n)..(e - 1) : At(t, r) # "NL"
  BY <1>1, <1>2, <1>4
<1>6. LineEnd(t, p + n) = e
  BY <1>1, <1>5, LineEndOne
<1> QED  BY <1>4, <1>5, <1>6 DEF n, e

\* The line at p of t is the line at q of u.
SameLine(t, p, u, q) ==
  /\ p \in 1..Len(t) /\ LineStart(t, p)
  /\ q \in 1..Len(u) /\ LineStart(u, q)
  /\ \A i \in 0..(LineEnd(t, p) - p) : At(u, q + i) = At(t, p + i)

LEMMA SameEnds ==
  ASSUME NEW t \in Text, NEW u \in Text, NEW p, NEW q, SameLine(t, p, u, q)
  PROVE  LineEnd(u, q) - q = LineEnd(t, p) - p /\ SameLine(u, q, t, p)
<1> DEFINE e == LineEnd(t, p)
           d == e - p
<1>1. /\ Len(t) \in Nat /\ Len(u) \in Nat /\ p \in 1..Len(t) /\ q \in 1..Len(u)
      /\ e \in p..(Len(t) + 1) /\ At(t, e) \in {"NL", "EOF"}
      /\ \A r \in p..(e - 1) : At(t, r) # "NL"
  BY LineEndIs, AtText DEF SameLine
<1>2. \A i \in 0..d : At(u, q + i) = At(t, p + i)
  BY DEF SameLine
<1> HIDE DEF e
<1>3. d \in Nat /\ q + d \in Int /\ p + d = e
  BY <1>1
<1>4. At(u, q + d) \in {"NL", "EOF"}
  BY <1>1, <1>2, <1>3
<1>5. \A r \in q..(q + d - 1) : At(u, r) # "NL"
  <2> SUFFICES ASSUME NEW r \in q..(q + d - 1) PROVE At(u, r) # "NL"
    OBVIOUS
  <2>1. r - q \in 0..d /\ q + (r - q) = r /\ p + (r - q) \in p..(e - 1)
    BY <1>1, <1>3
  <2> QED  BY <1>1, <1>2, <2>1
<1>6. q + d \in q..(Len(u) + 1)
  <2>1. CASE d = 0
    BY <1>1, <2>1
  <2>2. CASE d > 0
    <3>1. d - 1 \in 0..d /\ p + (d - 1) \in 1..Len(t) /\ q + (d - 1) \in Int
      BY <1>1, <1>3, <2>2
    <3>2. At(u, q + (d - 1)) # "EOF"
      BY <1>2, <3>1, AtText
    <3>3. q + (d - 1) \in 1..Len(u)
      BY <3>1, <3>2, AtText
    <3> QED  BY <1>1, <1>3, <3>3
  <2> QED  BY <1>3, <2>1, <2>2
<1>7. LineEnd(u, q) = q + d
  <2> HIDE DEF d
  <2> DEFINE x == q + d
  <2>1. q \in 1..(Len(u) + 1) /\ x \in q..(Len(u) + 1)
    BY <1>1, <1>6
  <2>2. At(u, x) \in {"NL", "EOF"} /\ \A r \in q..(x - 1) : At(u, r) # "NL"
    <3>1. At(u, x) \in {"NL", "EOF"}
      BY <1>4
    <3>2. q..(x - 1) = q..(q + d - 1)
      BY <1>1, <1>3
    <3>3. \A r \in q..(x - 1) : At(u, r) # "NL"
      BY <1>5, <3>2
    <3> QED  BY <3>1, <3>3
  <2> HIDE DEF x
  <2>3. LineEnd(u, q) = x
    BY ONLY <2>1, <2>2, LineEndOne, u \in Text
  <2> QED  BY <2>3 DEF x
<1>8. LineEnd(u, q) - q = d
  BY <1>1, <1>3, <1>7
<1> QED  BY <1>2, <1>8 DEF SameLine, e

\* It says the same.
LEMMA SameSays ==
  ASSUME NEW t \in Text, NEW u \in Text, NEW p, NEW q, SameLine(t, p, u, q),
         NEW k \in Keywords, Says(t, p, k)
  PROVE  Says(u, q, k) /\ ValueAt(u, q, k) = ValueAt(t, p, k)
<1> DEFINE n == Len(Word[k])
           d == LineEnd(t, p) - p
<1>1. /\ Len(t) \in Nat /\ Len(u) \in Nat /\ p \in 1..Len(t) /\ q \in 1..Len(u)
      /\ LineEnd(t, p) \in p..(Len(t) + 1) /\ LineEnd(u, q) \in q..(Len(u) + 1)
  BY LineEndIs, AtText DEF SameLine
<1>2. /\ n \in Nat /\ n > 2 /\ p + n <= LineEnd(t, p)
      /\ LineEnd(t, p + n) = LineEnd(t, p)
  BY <1>1, SaysInLine, KeywordChars
<1>31. LineEnd(u, q) - q = d
  BY SameEnds
<1>3. \A i \in 0..d : At(u, q + i) = At(t, p + i)
  BY DEF SameLine
<1>5. \A i \in 1..n : At(t, p + i - 1) = Word[k][i]
  BY DEF Says
<1> HIDE DEF n
<1>4. LineEnd(t, p) = p + d /\ LineEnd(u, q) = q + d /\ d \in Nat /\ n <= d
  BY <1>1, <1>2, <1>31
<1> HIDE DEF d
<1>6. \A i \in 1..n : At(u, q + i - 1) = Word[k][i]
  <2> SUFFICES ASSUME NEW i \in 1..n PROVE At(u, q + i - 1) = Word[k][i]
    OBVIOUS
  <2>1. i - 1 \in 0..d /\ q + (i - 1) = q + i - 1 /\ p + (i - 1) = p + i - 1
    BY <1>1, <1>2, <1>4
  <2> QED  BY <1>3, <1>5, <2>1
<1>7. Says(u, q, k)
  BY <1>6 DEF Says, SameLine, n
<1>8. LineEnd(u, q + n) = LineEnd(u, q)
  BY <1>1, <1>7, SaysInLine DEF n
<1>9. SubSeq(t, p + n, LineEnd(t, p + n) - 1) = SubSeq(u, q + n, LineEnd(u, q + n) - 1)
  <2> DEFINE a == SubSeq(t, p + n, p + d - 1)
             b == SubSeq(u, q + n, q + d - 1)
             m == d - n
  <2>0. p + n \in Int /\ p + d - 1 \in Int /\ q + n \in Int /\ q + d - 1 \in Int /\ m \in Nat
    BY <1>1, <1>2, <1>4
  <2>00. p + d <= Len(t) + 1 /\ q + d <= Len(u) + 1
    BY <1>1, <1>4
  <2>01. /\ \A i \in 1..Len(t) : t[i] \in STRING
         /\ \A i \in 1..Len(u) : u[i] \in STRING
    BY DEF Text
  <2>1. /\ \A i \in (p + n)..(p + d - 1) : t[i] \in STRING /\ i \in 1..Len(t)
        /\ \A i \in (q + n)..(q + d - 1) : u[i] \in STRING /\ i \in 1..Len(u)
    <3> HIDE DEF d
    <3>1. p + n \in Nat \ {0} /\ q + n \in Nat \ {0}
      BY <1>1, <1>2
    <3>2. (p + n)..(p + d - 1) \subseteq 1..Len(t)
      BY <1>1, <1>4, <2>0, <2>00, <3>1
    <3>3. (q + n)..(q + d - 1) \subseteq 1..Len(u)
      BY <1>1, <1>4, <2>0, <2>00, <3>1
    <3> QED  BY <2>01, <3>2, <3>3
  <2>2. /\ Len(a) = m /\ a \in Seq(STRING)
        /\ \A i \in 1..m : a[i] = t[p + n + i - 1]
    <3>1. /\ a \in Seq(STRING)
          /\ Len(a) = IF p + n <= p + d - 1 THEN (p + d - 1) - (p + n) + 1 ELSE 0
          /\ \A i \in 1..((p + d - 1) - (p + n) + 1) : a[i] = t[p + n + i - 1]
      BY <2>0, <2>1, SubSeqProperties
    <3>2. (p + d - 1) - (p + n) + 1 = m /\ (p + n <= p + d - 1 <=> m # 0)
      BY <1>1, <1>2, <1>4, <2>0
    <3> HIDE DEF m, a
    <3> QED  BY <2>0, <3>1, <3>2
  <2>3. /\ Len(b) = m /\ b \in Seq(STRING)
        /\ \A i \in 1..m : b[i] = u[q + n + i - 1]
    <3>1. /\ b \in Seq(STRING)
          /\ Len(b) = IF q + n <= q + d - 1 THEN (q + d - 1) - (q + n) + 1 ELSE 0
          /\ \A i \in 1..((q + d - 1) - (q + n) + 1) : b[i] = u[q + n + i - 1]
      BY <2>0, <2>1, SubSeqProperties
    <3>2. (q + d - 1) - (q + n) + 1 = m /\ (q + n <= q + d - 1 <=> m # 0)
      BY <1>1, <1>2, <1>4, <2>0
    <3> HIDE DEF m, b
    <3> QED  BY <2>0, <3>1, <3>2
  <2>4. ASSUME NEW i \in 1..m PROVE a[i] = b[i]
    <3>1. /\ n + i - 1 \in 0..d
          /\ p + n + i - 1 = p + (n + i - 1) /\ q + n + i - 1 = q + (n + i - 1)
          /\ p + (n + i - 1) \in (p + n)..(p + d - 1) /\ q + (n + i - 1) \in (q + n)..(q + d - 1)
      BY <1>1, <1>2, <1>4, <2>0
    <3>2. At(u, q + (n + i - 1)) = At(t, p + (n + i - 1))
      BY <1>3, <3>1
    <3>3. t[p + (n + i - 1)] = u[q + (n + i - 1)]
      BY <2>1, <3>1, <3>2 DEF At
    <3> HIDE DEF a, b
    <3> QED  BY <2>2, <2>3, <3>1, <3>3
  <2>5. a = b
    <3> HIDE DEF a, b, m
    <3> QED  BY <2>0, <2>2, <2>3, <2>4
  <2>6. LineEnd(t, p + n) = p + d /\ LineEnd(u, q + n) = q + d
    BY <1>2, <1>4, <1>8
  <2> QED
    <3> HIDE DEF d
    <3>1. (p + d) - 1 = p + d - 1 /\ (q + d) - 1 = q + d - 1
      BY <1>1, <1>4
    <3> QED  BY <2>5, <2>6, <3>1
<1> QED  BY <1>7, <1>9 DEF ValueAt, ReadValue, n

\* Both say the same.
LEMMA SameGives ==
  ASSUME NEW t \in Text, NEW u \in Text, NEW p, NEW q, SameLine(t, p, u, q),
         NEW known \in SUBSET Keywords, NEW f
  PROVE  /\ Gives(u, q, f, known) <=> Gives(t, p, f, known)
         /\ \A k \in known : Says(t, p, k) => /\ Says(u, q, k)
                                              /\ ValueAt(u, q, k) = ValueAt(t, p, k)
<1>1. SameLine(u, q, t, p)
  BY SameEnds
<1>2. \A k \in known : Says(t, p, k) => Says(u, q, k) /\ ValueAt(u, q, k) = ValueAt(t, p, k)
  BY SameSays
<1>3. \A k \in known : Says(u, q, k) => Says(t, p, k)
  BY <1>1, SameSays
<1> QED  BY <1>2, <1>3 DEF Gives

\* Of some places of a text one is the last.
LEMMA LastPlace ==
  ASSUME NEW n \in Nat, NEW S \in SUBSET (1..n), S # {}
  PROVE  \E p \in S : \A q \in (p + 1)..n : q \notin S
<1> DEFINE T == {i \in 0..n : n - i \in S}
<1>1. \A p \in S : n - p \in T
  <2> SUFFICES ASSUME NEW p \in S PROVE n - p \in T
    OBVIOUS
  <2>1. p \in 1..n
    OBVIOUS
  <2>2. n - p \in 0..n /\ n - (n - p) = p
    BY <2>1
  <2> QED  BY <2>2
<1>2. T \subseteq Nat /\ T # {}
  <2>1. PICK p \in S : TRUE
    OBVIOUS
  <2>2. n - p \in T
    BY <1>1, <2>1
  <2>3. T \subseteq Nat
    OBVIOUS
  <2> HIDE DEF T
  <2> QED  BY <2>2, <2>3
<1>3. PICK i \in T : \A j \in T : ~(<<j, i>> \in OpToRel(<, Nat))
  <2> HIDE DEF T
  <2> QED  BY <1>2, NatLessThanWellFounded, WFMin
<1>4. \A j \in T : ~(j < i)
  BY <1>2, <1>3 DEF OpToRel
<1>5. n - i \in S /\ i \in Nat
  BY <1>2
<1> HIDE DEF T
<1>6. ASSUME NEW q \in ((n - i) + 1)..n PROVE q \notin S
  <2>1. n - q < i /\ q \in Int
    BY <1>5
  <2> QED  BY <1>1, <1>4, <2>1
<1> QED  BY <1>5, <1>6

\* Of each field a text says something, be it nothing.
LEMMA SaidSomehow ==
  ASSUME NEW t \in Text, NEW f, NEW known \in SUBSET Keywords
  PROVE  SaidUpto(Said(t, f, known), t, f, Len(t) + 1, known)
<1> DEFINE n == Len(t)
           S == {p \in 1..n : Gives(t, p, f, known)}
<1>1. n \in Nat /\ (n + 1) - 1 = n
  BY AtText
<1>2. \E v : SaidUpto(v, t, f, n + 1, known)
  <2>1. CASE S = {}
    <3>1. \A p \in 1..((n + 1) - 1) : ~Gives(t, p, f, known)
      BY <1>1, <2>1
    <3> QED  BY <3>1 DEF SaidUpto
  <2>2. CASE S # {}
    <3>1. PICK p \in S : \A q \in (p + 1)..n : q \notin S
      <4> HIDE DEF n
      <4>1. S \in SUBSET (1..n)
        OBVIOUS
      <4> HIDE DEF S
      <4> QED  BY <1>1, <2>2, <4>1, LastPlace
    <3>2. p \in 1..n /\ Gives(t, p, f, known)
      OBVIOUS
    <3>3. PICK k \in known : FieldOf(k) = f /\ Says(t, p, k)
      BY <3>2 DEF Gives
    <3>4. \A q \in (p + 1)..n : ~Gives(t, q, f, known)
      BY <1>1, <3>1, <3>2
    <3>5. SaidUpto(ValueAt(t, p, k), t, f, n + 1, known)
      <4>1. p \in 1..((n + 1) - 1) /\ \A q \in (p + 1)..((n + 1) - 1) : ~Gives(t, q, f, known)
        BY <1>1, <3>2, <3>4
      <4> HIDE DEF n
      <4> QED  BY <3>3, <4>1 DEF SaidUpto
    <3> QED  BY <3>5
  <2> QED  BY <2>1, <2>2
<1> QED  BY <1>2, SaidIsSaid

\* A text whose lines for a field are those of another one says the same of it.
LEMMA SaidMoves ==
  ASSUME NEW t \in Text, NEW u \in Text, NEW f, NEW known \in SUBSET Keywords,
         NEW g \in [1..Len(t) -> Int],
         \A p \in 1..Len(t) : Gives(t, p, f, known) => SameLine(t, p, u, g[p]),
         \A q \in 1..Len(u) : Gives(u, q, f, known) =>
           \E p \in 1..Len(t) : Gives(t, p, f, known) /\ q = g[p],
         \A p, r \in 1..Len(t) :
           p < r /\ Gives(t, p, f, known) /\ Gives(t, r, f, known) => g[p] < g[r]
  PROVE  Said(u, f, known) = Said(t, f, known)
<1> DEFINE v == Said(t, f, known)
<1>1. /\ Len(t) \in Nat /\ Len(u) \in Nat /\ (Len(t) + 1) - 1 = Len(t)
      /\ (Len(u) + 1) - 1 = Len(u)
  BY AtText
<1>2. SaidUpto(v, t, f, Len(t) + 1, known)
  BY SaidSomehow
<1> HIDE DEF v
<1>3. ASSUME v = Default, \A p \in 1..((Len(t) + 1) - 1) : ~Gives(t, p, f, known)
      PROVE  SaidUpto(v, u, f, Len(u) + 1, known)
  <2>1. \A q \in 1..((Len(u) + 1) - 1) : ~Gives(u, q, f, known)
    BY <1>1, <1>3
  <2>2. SaidUpto(v, u, f, Len(u) + 1, known)
    BY <1>3, <2>1 DEF SaidUpto
  <2> QED  BY <2>2
<1>4. ASSUME NEW p \in 1..((Len(t) + 1) - 1), NEW k \in known,
             FieldOf(k) = f, Says(t, p, k), v = ValueAt(t, p, k),
             \A q \in (p + 1)..((Len(t) + 1) - 1) : ~Gives(t, q, f, known)
      PROVE  SaidUpto(v, u, f, Len(u) + 1, known)
  <2>1. p \in 1..Len(t) /\ Gives(t, p, f, known)
    BY <1>1, <1>4 DEF Gives
  <2>2. SameLine(t, p, u, g[p])
    BY <2>1
  <2>3. Says(u, g[p], k) /\ ValueAt(u, g[p], k) = v
    BY <1>4, <2>2, SameGives
  <2>4. g[p] \in 1..((Len(u) + 1) - 1)
    BY <1>1, <2>2 DEF SameLine
  <2>5. ASSUME NEW q \in (g[p] + 1)..((Len(u) + 1) - 1), Gives(u, q, f, known) PROVE FALSE
    <3>1. q \in 1..Len(u) /\ g[p] < q /\ q \in Int /\ g[p] \in Int
      BY <1>1, <2>4
    <3>2. PICK r \in 1..Len(t) : Gives(t, r, f, known) /\ q = g[r]
      BY <2>5, <3>1
    <3>3. ~(r > p)
      BY <1>1, <1>4, <2>1, <3>2
    <3>4. r = p \/ r < p
      BY <1>1, <2>1, <3>3
    <3>5. r < p => g[r] < g[p]
      BY <2>1, <3>2
    <3> QED  BY <3>1, <3>2, <3>4, <3>5
  <2> QED  BY <1>4, <2>3, <2>4, <2>5 DEF SaidUpto
<1>5. SaidUpto(v, u, f, Len(u) + 1, known)
  BY <1>2, <1>3, <1>4, <1>1 DEF SaidUpto
<1> QED  BY <1>5, SaidIsSaid DEF v

\* A line at the end of a text that is ended.
LEMMA AppendedAt ==
  ASSUME NEW t \in Text, NEW k \in Keywords, NEW v \in Text
  PROVE  LET u == t \o Entry(k, v)
             n == Len(t)
             m == Len(Word[k])
         IN /\ u \in Text /\ Len(u) = n + m + Len(v) + 1
            /\ \A r \in 1..n : At(u, r) = At(t, r)
            /\ \A i \in 1..m : At(u, n + i) = Word[k][i]
            /\ \A i \in 1..Len(v) : At(u, n + m + i) = v[i]
            /\ At(u, n + m + Len(v) + 1) = "NL"
<1> DEFINE n == Len(t)
           w == Word[k]
           m == Len(w)
           l == Len(v)
           C == STRING \ {"EOF"}
           wv == w \o v
           e == Entry(k, v)
           x == <<"NL">>
           u == t \o e
<1>1. /\ n \in Nat /\ m \in Nat /\ l \in Nat
      /\ t \in Seq(C) /\ w \in Seq(C) /\ v \in Seq(C) /\ x \in Seq(C)
  BY ConfigAssumption DEF Text
<1>2. /\ e = wv \o x /\ Len(x) = 1 /\ x[1] = "NL"
      /\ u = t \o e /\ n = Len(t)
  BY DEF Entry
<1> HIDE DEF n, w, m, l, C, wv, e, u, x
<1>3. /\ wv \in Seq(C) /\ Len(wv) = m + l
      /\ \A i \in 1..(m + l) : wv[i] = IF i <= m THEN w[i] ELSE v[i - m]
  BY <1>1, ConcatProperties DEF wv, m, l
<1>4. /\ e \in Seq(C) /\ Len(e) = m + l + 1
      /\ \A i \in 1..(m + l + 1) : e[i] = IF i <= m + l THEN wv[i] ELSE x[i - (m + l)]
  <2>1. /\ wv \o x \in Seq(C) /\ Len(wv \o x) = Len(wv) + Len(x)
        /\ \A i \in 1..(Len(wv) + Len(x)) :
             (wv \o x)[i] = IF i <= Len(wv) THEN wv[i] ELSE x[i - Len(wv)]
    BY <1>1, <1>3, ConcatProperties
  <2> QED  BY <1>2, <1>3, <2>1
<1>5. /\ u \in Seq(C) /\ Len(u) = n + (m + l + 1)
      /\ \A i \in 1..(n + (m + l + 1)) : u[i] = IF i <= n THEN t[i] ELSE e[i - n]
  <2>1. /\ t \o e \in Seq(C) /\ Len(t \o e) = Len(t) + Len(e)
        /\ \A i \in 1..(Len(t) + Len(e)) : (t \o e)[i] = IF i <= Len(t) THEN t[i] ELSE e[i - Len(t)]
    BY <1>1, <1>4, ConcatProperties
  <2> QED  BY <1>2, <1>4, <2>1
<1>6. n + (m + l + 1) = n + m + l + 1
  BY <1>1
<1>7. \A r \in 1..n : At(u, r) = At(t, r)
  <2> SUFFICES ASSUME NEW r \in 1..n PROVE At(u, r) = At(t, r)
    OBVIOUS
  <2>1. r \in 1..(n + (m + l + 1)) /\ r <= n
    BY <1>1
  <2> QED  BY <1>5, <2>1 DEF At, n
<1>8. \A i \in 1..m : At(u, n + i) = w[i]
  <2> SUFFICES ASSUME NEW i \in 1..m PROVE At(u, n + i) = w[i]
    OBVIOUS
  <2>1. /\ n + i \in 1..(n + (m + l + 1)) /\ ~(n + i <= n) /\ (n + i) - n = i
        /\ i \in 1..(m + l + 1) /\ i <= m + l /\ i \in 1..(m + l) /\ i <= m
    BY <1>1
  <2> QED  BY <1>3, <1>4, <1>5, <2>1 DEF At
<1>9. \A i \in 1..l : At(u, n + m + i) = v[i]
  <2> SUFFICES ASSUME NEW i \in 1..l PROVE At(u, n + m + i) = v[i]
    OBVIOUS
  <2>1. /\ n + m + i \in 1..(n + (m + l + 1)) /\ ~(n + m + i <= n) /\ (n + m + i) - n = m + i
        /\ m + i \in 1..(m + l + 1) /\ m + i <= m + l /\ m + i \in 1..(m + l) /\ ~(m + i <= m)
        /\ (m + i) - m = i
    BY <1>1
  <2> QED  BY <1>3, <1>4, <1>5, <2>1 DEF At
<1>10. At(u, n + m + l + 1) = "NL"
  <2>1. /\ n + m + l + 1 \in 1..(n + (m + l + 1)) /\ ~(n + m + l + 1 <= n)
        /\ (n + m + l + 1) - n = m + l + 1
        /\ m + l + 1 \in 1..(m + l + 1) /\ ~(m + l + 1 <= m + l) /\ (m + l + 1) - (m + l) = 1
    BY <1>1
  <2>2. u[n + m + l + 1] = "NL"
    BY <1>2, <1>4, <1>5, <2>1
  <2> QED  BY <1>5, <2>1, <2>2 DEF At
<1> QED  BY <1>5, <1>6, <1>7, <1>8, <1>9, <1>10 DEF n, m, l, u, e, w, C, Text

\* An old line stays what it is when another one is appended, and the new one
\* is the last.
LEMMA AppendedLines ==
  ASSUME NEW t \in Text, IsEnded(t), NEW k \in Keywords, NEW v \in Text, OneLine(v)
  PROVE  LET u == t \o Entry(k, v)
             n == Len(t)
         IN /\ u \in Text /\ n + 1 \in 1..Len(u)
            /\ \A p \in 1..n : LineStart(t, p) => SameLine(t, p, u, p)
            /\ \A q \in 1..n : LineStart(u, q) => LineStart(t, q)
            /\ \A q \in (n + 2)..Len(u) : ~LineStart(u, q)
            /\ Says(u, n + 1, k)
            /\ ValueAt(u, n + 1, k) = Converted(FieldOf(k), Cut(v, MaxOf(FieldOf(k))))
<1> DEFINE u == t \o Entry(k, v)
           n == Len(t)
           m == Len(Word[k])
           l == Len(v)
           start == n + m + 1
           end == n + m + l + 1
<1>1. /\ u \in Text /\ Len(u) = end
      /\ \A r \in 1..n : At(u, r) = At(t, r)
      /\ \A i \in 1..m : At(u, n + i) = Word[k][i]
      /\ \A i \in 1..l : At(u, n + m + i) = v[i]
      /\ At(u, end) = "NL"
  BY AppendedAt
<1>2. /\ n \in Nat /\ l \in Nat /\ m \in Nat /\ m > 2
      /\ \A i \in 1..m : Word[k][i] \notin {"NL", "EOF"}
      /\ \A i \in 1..l : v[i] \notin {"NL", "EOF"}
  BY AtText, KeywordChars DEF OneLine, Text
<1>3. n = 0 \/ At(t, n) = "NL"
  <2>1. t = <<>> => n = 0
    OBVIOUS
  <2>2. t # <<>> => n \in 1..n
    BY <1>2 DEF Text
  <2> QED  BY <2>1, <2>2 DEF IsEnded, At
<1> HIDE DEF u, n, m, l
<1>4. /\ end \in Nat /\ start \in 1..end /\ n + 1 \in 1..end
      /\ end \in start..(end + 1)
  BY <1>2
<1>5. ASSUME NEW p \in 1..n, LineStart(t, p) PROVE SameLine(t, p, u, p)
  <2> DEFINE e == LineEnd(t, p)
  <2>1. /\ e \in p..(n + 1) /\ \A r \in p..(e - 1) : At(t, r) # "NL"
    <3>1. p \in 1..(Len(t) + 1)
      BY <1>2 DEF n
    <3> QED  BY <3>1, LineEndIs DEF n
  <2> HIDE DEF e
  <2>2. e <= n
    <3> SUFFICES ASSUME e = n + 1 PROVE FALSE
      BY <1>2, <2>1
    <3>1. n \in p..(e - 1) /\ n # 0
      BY <1>2
    <3> QED  BY <1>3, <2>1, <3>1
  <2>3. LineStart(u, p)
    <3>1. p # 1 => p - 1 \in 1..n
      BY <1>2
    <3> QED  BY <1>1, <1>5, <3>1 DEF LineStart
  <2>4. ASSUME NEW i \in 0..(e - p) PROVE At(u, p + i) = At(t, p + i)
    <3>1. p + i \in 1..n
      BY <1>2, <2>1, <2>2
    <3> QED  BY <1>1, <3>1
  <2>5. p \in 1..Len(u)
    BY <1>1, <1>2
  <2> QED  BY <1>5, <2>3, <2>4, <2>5 DEF SameLine, e, n
<1>6. ASSUME NEW q \in 1..n, LineStart(u, q) PROVE LineStart(t, q)
  <2>1. q # 1 => q - 1 \in 1..n
    BY <1>2
  <2> QED  BY <1>1, <1>6, <2>1 DEF LineStart
<1>7. \A i \in 1..(m + l) : At(u, n + i) # "NL"
  <2> SUFFICES ASSUME NEW i \in 1..(m + l) PROVE At(u, n + i) # "NL"
    OBVIOUS
  <2>1. CASE i <= m
    BY <1>1, <1>2, <2>1
  <2>2. CASE ~(i <= m)
    <3>1. i - m \in 1..l /\ n + i = n + m + (i - m)
      BY <1>2, <2>2
    <3> QED  BY <1>1, <1>2, <3>1
  <2> QED  BY <2>1, <2>2
<1>8. ASSUME NEW q \in (n + 2)..Len(u) PROVE ~LineStart(u, q)
  <2>1. q # 1 /\ q - 1 - n \in 1..(m + l) /\ q - 1 = n + (q - 1 - n)
    BY <1>1, <1>2
  <2> QED  BY <1>7, <2>1 DEF LineStart
<1>9. Says(u, n + 1, k)
  <2>1. LineStart(u, n + 1)
    <3>1. n # 0 => n \in 1..n /\ (n + 1) - 1 = n /\ n + 1 > 1
      BY <1>2
    <3>2. n = 0 => n + 1 = 1
      BY <1>2
    <3> QED  BY <1>1, <1>3, <3>1, <3>2 DEF LineStart
  <2>2. \A i \in 1..m : n + 1 + i - 1 = n + i
    BY <1>2
  <2>3. \A i \in 1..m : At(u, n + 1 + i - 1) = Word[k][i]
    BY <1>1, <2>2
  <2> QED  BY <2>1, <2>3 DEF Says, m
<1>10. LineEnd(u, start) = end
  <2>1. \A r \in start..(end - 1) : At(u, r) # "NL"
    <3> SUFFICES ASSUME NEW r \in start..(end - 1) PROVE At(u, r) # "NL"
      OBVIOUS
    <3>1. r - n \in 1..(m + l) /\ r = n + (r - n)
      BY <1>2
    <3> QED  BY <1>7, <3>1
  <2>2. start \in 1..(Len(u) + 1) /\ end \in start..(Len(u) + 1)
    BY <1>1, <1>2, <1>4
  <2> HIDE DEF start, end
  <2> QED  BY <1>1, <2>1, <2>2, LineEndOne
<1>11. SubSeq(u, start, end - 1) = v
  <2> DEFINE a == SubSeq(u, start, end - 1)
  <2>1. \A i \in start..(end - 1) : u[i] \in STRING
    <3>1. \A i \in 1..Len(u) : u[i] \in STRING
      BY <1>1 DEF Text
    <3>2. start..(end - 1) \subseteq 1..Len(u)
      BY <1>1, <1>2
    <3> QED  BY <3>1, <3>2
  <2>2. start \in Int /\ end - 1 \in Int /\ (end - 1) - start + 1 = l
        /\ (start <= end - 1 <=> l # 0)
    BY <1>2
  <2>3. /\ a \in Seq(STRING) /\ Len(a) = l
        /\ \A i \in 1..l : a[i] = u[start + i - 1]
    <3>1. /\ a \in Seq(STRING)
          /\ Len(a) = IF start <= end - 1 THEN (end - 1) - start + 1 ELSE 0
          /\ \A i \in 1..((end - 1) - start + 1) : a[i] = u[start + i - 1]
      <4> HIDE DEF start, end
      <4> QED  BY <2>1, <2>2, SubSeqProperties
    <3> HIDE DEF a, start, end
    <3> QED  BY <1>2, <2>2, <3>1
  <2>4. ASSUME NEW i \in 1..l PROVE a[i] = v[i]
    <3>1. start + i - 1 = n + m + i /\ n + m + i \in 1..Len(u)
      BY <1>1, <1>2
    <3>2. a[i] = u[n + m + i] /\ At(u, n + m + i) = v[i]
      <4> HIDE DEF a, start
      <4> QED  BY <1>1, <2>3, <3>1
    <3> HIDE DEF a
    <3> QED  BY <3>1, <3>2 DEF At
  <2>5. v \in Seq(STRING) /\ Len(v) = l
    BY DEF Text, l
  <2> HIDE DEF a
  <2> QED  BY <2>3, <2>4, <2>5 DEF a
<1>12. ValueAt(u, n + 1, k) = Converted(FieldOf(k), Cut(v, MaxOf(FieldOf(k))))
  <2>1. n + 1 + m = start
    BY <1>2
  <2> HIDE DEF start, end
  <2> QED  BY <1>10, <1>11, <2>1 DEF ValueAt, ReadValue, m
<1> QED  BY <1>1, <1>4, <1>5, <1>6, <1>8, <1>9, <1>12 DEF u, n

\* What a text says when a line was appended: of the field of it what the line
\* gives, of the others what it said.
LEMMA AppendedSays ==
  ASSUME NEW t \in Text, IsEnded(t), NEW k \in Keywords, NEW v \in Text, OneLine(v), NEW f
  PROVE  Said(t \o Entry(k, v), f, Keywords)
           = IF f = FieldOf(k) THEN Converted(f, Cut(v, MaxOf(f))) ELSE Said(t, f, Keywords)
<1> DEFINE u == t \o Entry(k, v)
           n == Len(t)
<1>1. /\ u \in Text /\ n + 1 \in 1..Len(u) /\ n \in Nat /\ Len(u) \in Nat
      /\ \A p \in 1..n : LineStart(t, p) => SameLine(t, p, u, p)
      /\ \A q \in 1..n : LineStart(u, q) => LineStart(t, q)
      /\ \A q \in (n + 2)..Len(u) : ~LineStart(u, q)
      /\ Says(u, n + 1, k)
      /\ ValueAt(u, n + 1, k) = Converted(FieldOf(k), Cut(v, MaxOf(FieldOf(k))))
  BY AppendedLines, AtText
<1> HIDE DEF u
<1>2. CASE f = FieldOf(k)
  <2>1. \A q \in ((n + 1) + 1)..((Len(u) + 1) - 1) : ~Gives(u, q, f, Keywords)
    <3> SUFFICES ASSUME NEW q \in ((n + 1) + 1)..((Len(u) + 1) - 1)
                 PROVE  ~Gives(u, q, f, Keywords)
      OBVIOUS
    <3>1. q \in (n + 2)..Len(u)
      BY <1>1
    <3> QED  BY <1>1, <3>1 DEF Gives, Says
  <2>2. n + 1 \in 1..((Len(u) + 1) - 1)
    BY <1>1
  <2>3. SaidUpto(Converted(f, Cut(v, MaxOf(f))), u, f, Len(u) + 1, Keywords)
    <3> HIDE DEF n
    <3> QED  BY <1>1, <1>2, <2>1, <2>2 DEF SaidUpto
  <2>4. Converted(f, Cut(v, MaxOf(f))) = Said(u, f, Keywords)
    BY <1>1, <2>3, SaidIsSaid
  <2> QED  BY <1>2, <2>4 DEF u
<1>3. CASE f # FieldOf(k)
  <2> DEFINE g == [p \in 1..n |-> p]
  <2>1. g \in [1..Len(t) -> Int]
    OBVIOUS
  <2>2. \A p \in 1..Len(t) : Gives(t, p, f, Keywords) => SameLine(t, p, u, g[p])
    BY <1>1 DEF Gives, Says
  <2>3. ASSUME NEW q \in 1..Len(u), Gives(u, q, f, Keywords)
        PROVE  \E p \in 1..Len(t) : Gives(t, p, f, Keywords) /\ q = g[p]
    <3>1. LineStart(u, q)
      BY <2>3 DEF Gives, Says
    <3>2. q # n + 1
      BY <1>1, <1>3, <2>3, SaysOne DEF Gives
    <3>3. q \in 1..n
      BY <1>1, <3>1, <3>2
    <3>4. SameLine(t, q, u, q)
      BY <1>1, <3>1, <3>3
    <3>5. Gives(t, q, f, Keywords)
      BY <1>1, <2>3, <3>4, SameGives
    <3> QED  BY <3>3, <3>5
  <2>4. \A p, r \in 1..Len(t) :
          p < r /\ Gives(t, p, f, Keywords) /\ Gives(t, r, f, Keywords) => g[p] < g[r]
    OBVIOUS
  <2> HIDE DEF g, n
  <2>5. Said(u, f, Keywords) = Said(t, f, Keywords)
    BY <1>1, <2>1, <2>2, <2>3, <2>4, SaidMoves
  <2> QED  BY <1>3, <2>5 DEF u
<1> QED  BY <1>2, <1>3

\* A text to which the beginning of an entry was appended has the characters of
\* the one that has all of it.
LEMMA PrefixAt ==
  ASSUME NEW t \in Text, NEW k \in Keywords, NEW v \in Text, NEW w \in Prefixes(Entry(k, v))
  PROVE  LET u == t \o w
             all == t \o Entry(k, v)
         IN /\ u \in Text /\ Len(t) <= Len(u) /\ Len(u) <= Len(all)
            /\ \A r \in 1..Len(u) : At(u, r) = At(all, r)
<1> DEFINE u == t \o w
           all == t \o Entry(k, v)
           n == Len(t)
<1>1. /\ Entry(k, v) \in Text /\ w \in Text /\ n \in Nat
      /\ Len(w) \in Nat /\ Len(Entry(k, v)) \in Nat /\ Len(w) <= Len(Entry(k, v))
      /\ \A i \in 1..Len(w) : w[i] = Entry(k, v)[i]
  BY EntryIsText, PrefixIs, AtText
<1>2. /\ u \in Text /\ Len(u) = n + Len(w)
      /\ \A i \in 1..(n + Len(w)) : u[i] = IF i <= n THEN t[i] ELSE w[i - n]
  BY <1>1, ConcatProperties DEF Text
<1>3. /\ Len(all) = n + Len(Entry(k, v))
      /\ \A i \in 1..(n + Len(Entry(k, v))) :
           all[i] = IF i <= n THEN t[i] ELSE Entry(k, v)[i - n]
  BY <1>1, ConcatProperties DEF Text
<1> HIDE DEF u, all, n
<1>4. ASSUME NEW r \in 1..Len(u) PROVE At(u, r) = At(all, r)
  <2>1. /\ r \in 1..(n + Len(w)) /\ r \in 1..(n + Len(Entry(k, v))) /\ r \in 1..Len(all)
        /\ (~(r <= n) => r - n \in 1..Len(w))
    BY <1>1, <1>2, <1>3
  <2> QED  BY <1>1, <1>2, <1>3, <2>1 DEF At
<1> QED  BY <1>1, <1>2, <1>3, <1>4 DEF u, all, n

\* The beginning of an entry says nothing of the fields it is not for.
LEMMA PrefixSays ==
  ASSUME NEW t \in Text, IsEnded(t), NEW k \in Keywords, NEW v \in Text, OneLine(v),
         NEW w \in Prefixes(Entry(k, v)), NEW f, f # FieldOf(k)
  PROVE  Said(t \o w, f, Keywords) = Said(t, f, Keywords)
<1> DEFINE u == t \o w
           all == t \o Entry(k, v)
           n == Len(t)
           g == [p \in 1..n |-> p]
<1>1. /\ all \in Text /\ n + 1 \in 1..Len(all) /\ n \in Nat /\ Len(all) \in Nat
      /\ \A p \in 1..n : LineStart(t, p) => SameLine(t, p, all, p)
      /\ \A q \in 1..n : LineStart(all, q) => LineStart(t, q)
      /\ \A q \in (n + 2)..Len(all) : ~LineStart(all, q)
      /\ Says(all, n + 1, k)
  BY AppendedLines, AtText
<1>2. /\ u \in Text /\ n <= Len(u) /\ Len(u) <= Len(all) /\ Len(u) \in Nat
      /\ \A r \in 1..Len(u) : At(u, r) = At(all, r)
  BY PrefixAt, AtText
<1> HIDE DEF u, all
<1>3. At(all, n + 1) = Word[k][1] /\ At(all, n + 1) # "EOF"
  BY <1>1, SaysOne, AtText
<1>4. \A q \in 1..Len(u) : LineStart(u, q) <=> LineStart(all, q)
  <2> SUFFICES ASSUME NEW q \in 1..Len(u) PROVE LineStart(u, q) <=> LineStart(all, q)
    OBVIOUS
  <2>1. q # 1 => q - 1 \in 1..Len(u)
    BY <1>2
  <2> QED  BY <1>2, <2>1 DEF LineStart
<1>5. ASSUME NEW p \in 1..n, LineStart(t, p)
      PROVE  SameLine(t, p, u, p)
  <2> DEFINE e == LineEnd(t, p)
  <2>1. e \in p..(n + 1)
    <3>1. p \in 1..(Len(t) + 1)
      BY <1>1
    <3> QED  BY <3>1, LineEndIs
  <2>2. SameLine(t, p, all, p)
    BY <1>1, <1>5
  <2> HIDE DEF n
  <2>3. \A i \in 0..(e - p) : At(all, p + i) = At(t, p + i)
    BY <2>2 DEF SameLine
  <2> HIDE DEF e
  <2>4. e # n + 1
    <3> SUFFICES ASSUME e = n + 1 PROVE FALSE
      OBVIOUS
    <3>1. (n + 1) - p \in 0..(e - p) /\ p + ((n + 1) - p) = n + 1
      BY <1>1, <2>1
    <3>2. At(t, n + 1) = "EOF"
      BY <1>1 DEF At, n
    <3> QED  BY <1>3, <2>3, <3>1, <3>2
  <2>5. ASSUME NEW i \in 0..(e - p) PROVE At(u, p + i) = At(t, p + i)
    <3>1. p + i \in 1..Len(u)
      BY <1>1, <1>2, <2>1, <2>4
    <3> QED  BY <1>2, <2>3, <3>1
  <2>6. p \in 1..Len(u)
    BY <1>1, <1>2
  <2>7. LineStart(u, p)
    BY <1>4, <2>2, <2>6 DEF SameLine
  <2> QED  BY <1>5, <2>5, <2>6, <2>7 DEF SameLine, e, n
<1>6. g \in [1..Len(t) -> Int]
  OBVIOUS
<1>7. \A p \in 1..Len(t) : Gives(t, p, f, Keywords) => SameLine(t, p, u, g[p])
  BY <1>5 DEF Gives, Says
<1>8. ASSUME NEW q \in 1..Len(u), Gives(u, q, f, Keywords)
      PROVE  \E p \in 1..Len(t) : Gives(t, p, f, Keywords) /\ q = g[p]
  <2>1. PICK l \in Keywords : FieldOf(l) = f /\ Says(u, q, l)
    BY <1>8 DEF Gives
  <2>2. LineStart(all, q) /\ q \in 1..Len(all)
    BY <1>1, <1>2, <1>4, <2>1 DEF Says
  <2>3. q # n + 1
    <3> SUFFICES ASSUME q = n + 1 PROVE FALSE
      OBVIOUS
    <3>1. Word[l][1] = Word[k][1]
      BY <1>2, <1>3, <2>1, SaysOne
    <3>2. l = k
      BY <3>1, ConfigAssumption
    <3> QED  BY <2>1, <3>2
  <2>4. q \in 1..n
    BY <1>1, <2>2, <2>3
  <2>5. SameLine(t, q, u, q)
    BY <1>1, <1>5, <2>2, <2>4
  <2>6. Gives(t, q, f, Keywords)
    BY <1>2, <1>8, <2>5, SameGives
  <2> QED  BY <2>4, <2>6
<1>9. \A p, r \in 1..Len(t) :
        p < r /\ Gives(t, p, f, Keywords) /\ Gives(t, r, f, Keywords) => g[p] < g[r]
  OBVIOUS
<1> HIDE DEF g, n
<1>10. Said(u, f, Keywords) = Said(t, f, Keywords)
  BY <1>2, <1>6, <1>7, <1>8, <1>9, SaidMoves
<1> QED  BY <1>10 DEF u

\* A text with a new value in it: before the value, the value, and behind it.
LEMMA UpdatedAt ==
  ASSUME NEW t \in Text, NEW v \in Text, NEW p \in 1..(Len(t) + 1)
  PROVE  LET u == Updated(t, p, v)
             e == LineEnd(t, p)
             d == (p + Len(v)) - e
         IN /\ u \in Text /\ Len(u) = Len(t) + d
            /\ \A r \in 1..(p - 1) : At(u, r) = At(t, r)
            /\ \A i \in 1..Len(v) : At(u, (p - 1) + i) = v[i]
            /\ \A r \in Int : r >= e => At(u, r + d) = At(t, r)
<1> DEFINE n == Len(t)
           l == Len(v)
           e == LineEnd(t, p)
           d == (p + l) - e
           C == STRING \ {"EOF"}
           a == SubSeq(t, 1, p - 1)
           b == SubSeq(t, e, n)
           av == a \o v
           u == Updated(t, p, v)
           m == (n - e) + 1
<1>1. /\ n \in Nat /\ l \in Nat /\ t \in Seq(C) /\ v \in Seq(C)
      /\ e \in p..(n + 1) /\ n = Len(t) /\ l = Len(v)
      /\ \A i \in 1..n : t[i] \in C
  BY LineEndIs, AtText DEF Text
<1>2. u = av \o b
  BY DEF Updated
<1>20. p \in 1..(n + 1) /\ n = Len(t)
  OBVIOUS
<1> HIDE DEF n, l, e, C, a, b, av, u
<1>3. /\ a \in Seq(C) /\ Len(a) = p - 1
      /\ \A i \in 1..(p - 1) : a[i] = t[i]
  <2>1. \A i \in 1..(p - 1) : t[i] \in C
    BY <1>1, <1>20
  <2>2. /\ a \in Seq(C) /\ Len(a) = IF 1 <= p - 1 THEN (p - 1) - 1 + 1 ELSE 0
        /\ \A i \in 1..((p - 1) - 1 + 1) : a[i] = t[1 + i - 1]
    BY <1>1, <1>20, <2>1, SubSeqProperties DEF a
  <2>3. (p - 1) - 1 + 1 = p - 1 /\ \A i \in 1..(p - 1) : 1 + i - 1 = i
    BY <1>20
  <2> QED  BY <1>20, <2>2, <2>3
<1>4. /\ b \in Seq(C) /\ Len(b) = m /\ m \in Nat
      /\ \A i \in 1..m : b[i] = t[(e + i) - 1]
  <2>1. \A i \in e..n : t[i] \in C
    BY <1>1, <1>20
  <2>2. /\ b \in Seq(C) /\ Len(b) = IF e <= n THEN n - e + 1 ELSE 0
        /\ \A i \in 1..(n - e + 1) : b[i] = t[e + i - 1]
    BY <1>1, <1>20, <2>1, SubSeqProperties DEF b
  <2>3. \A i \in 1..m : e + i - 1 = (e + i) - 1
    BY <1>1, <1>20
  <2> QED  BY <1>1, <1>20, <2>2, <2>3
<1> HIDE DEF m
<1>5. /\ av \in Seq(C) /\ Len(av) = (p - 1) + l
      /\ \A i \in 1..((p - 1) + l) : av[i] = IF i <= p - 1 THEN a[i] ELSE v[i - (p - 1)]
  <2>1. /\ a \o v \in Seq(C) /\ Len(a \o v) = Len(a) + Len(v)
        /\ \A i \in 1..(Len(a) + Len(v)) : (a \o v)[i] = IF i <= Len(a) THEN a[i] ELSE v[i - Len(a)]
    BY <1>1, <1>3, ConcatProperties
  <2> QED  BY <1>1, <1>3, <2>1 DEF av
<1>6. /\ u \in Seq(C) /\ Len(u) = (p - 1) + l + m
      /\ \A i \in 1..((p - 1) + l + m) :
           u[i] = IF i <= (p - 1) + l THEN av[i] ELSE b[i - ((p - 1) + l)]
  <2>1. /\ av \o b \in Seq(C) /\ Len(av \o b) = Len(av) + Len(b)
        /\ \A i \in 1..(Len(av) + Len(b)) :
             (av \o b)[i] = IF i <= Len(av) THEN av[i] ELSE b[i - Len(av)]
    BY <1>4, <1>5, ConcatProperties
  <2> QED  BY <1>2, <1>4, <1>5, <2>1
<1>7. \A r \in 1..(p - 1) : At(u, r) = At(t, r)
  <2> SUFFICES ASSUME NEW r \in 1..(p - 1) PROVE At(u, r) = At(t, r)
    OBVIOUS
  <2>1. /\ r \in 1..((p - 1) + l + m) /\ r <= (p - 1) + l /\ r \in 1..((p - 1) + l)
        /\ r <= p - 1 /\ r \in 1..n
    BY <1>1, <1>4, <1>20
  <2> QED  BY <1>3, <1>5, <1>6, <1>20, <2>1 DEF At
<1>8. \A i \in 1..l : At(u, (p - 1) + i) = v[i]
  <2> SUFFICES ASSUME NEW i \in 1..l PROVE At(u, (p - 1) + i) = v[i]
    OBVIOUS
  <2>1. /\ (p - 1) + i \in 1..((p - 1) + l + m) /\ (p - 1) + i <= (p - 1) + l
        /\ (p - 1) + i \in 1..((p - 1) + l) /\ ~((p - 1) + i <= p - 1)
        /\ ((p - 1) + i) - (p - 1) = i
    BY <1>1, <1>4, <1>20
  <2> QED  BY <1>5, <1>6, <2>1 DEF At
<1>9. ASSUME NEW r \in Int, r >= e PROVE At(u, r + d) = At(t, r)
  <2>0. Len(u) = n + d /\ d \in Int
    BY <1>1, <1>6, <1>20 DEF m
  <2>1. CASE r > n
    <3>1. r + d \notin 1..Len(u) /\ r \notin 1..n
      BY <1>1, <2>0, <2>1
    <3> QED  BY <1>20, <3>1 DEF At
  <2>2. CASE ~(r > n)
    <3> DEFINE i == (r + d) - ((p - 1) + l)
    <3>1. /\ r + d \in 1..((p - 1) + l + m) /\ ~(r + d <= (p - 1) + l)
          /\ i \in 1..m /\ (e + i) - 1 = r /\ r \in 1..n /\ r + d \in 1..Len(u)
      <4>1. /\ p \in Int /\ l \in Int /\ e \in Int /\ n \in Int /\ r \in Int
            /\ 1 <= p /\ 0 <= l /\ p <= e /\ e <= r /\ r <= n
        BY <1>1, <1>20, <1>9, <2>2
      <4>2. d = (p + l) - e /\ m = n - e + 1 /\ Len(u) = n + d
        BY <2>0 DEF m
      <4>3. i = (r - e) + 1 /\ r + d = ((p + l) + r) - e
        BY <4>1, <4>2
      <4>4. r \in 1..n /\ (e + i) - 1 = r /\ i \in 1..m
        BY <4>1, <4>2, <4>3
      <4>5. r + d \in Int /\ 1 <= r + d /\ (p - 1) + l < r + d
        BY <4>1, <4>3
      <4>6. (p - 1) + l + m = n + d /\ r + d <= n + d
        BY <4>1, <4>2
      <4> QED  BY <4>1, <4>2, <4>4, <4>5, <4>6
    <3> HIDE DEF d
    <3>2. u[r + d] = b[i]
      BY <1>6, <3>1
    <3> HIDE DEF i
    <3>3. b[i] = t[r]
      BY <1>4, <3>1
    <3> QED  BY <1>20, <3>1, <3>2, <3>3 DEF At
  <2> QED  BY <2>1, <2>2
<1>10. Len(u) = n + d
  BY <1>1, <1>6, <1>20 DEF m
<1> QED  BY <1>6, <1>7, <1>8, <1>9, <1>10 DEF n, l, u, e, C, Text

\* A line that is not the changed one stays, if at another place; the changed
\* one is where it was and has the new value.
OthersKept(t, o, u, e, d) ==
  /\ u \in Text /\ o \in 1..Len(u) /\ d \in Int /\ e \in Int /\ o < e /\ o < e + d
  /\ e <= Len(t) + 1
  /\ \A r \in 1..(o - 1) : LineStart(t, r) => SameLine(t, r, u, r)
  /\ \A r \in 1..(o - 1) : LineStart(u, r) => LineStart(t, r)
  /\ \A r \in (o + 1)..e : ~LineStart(t, r)
  /\ \A r \in (o + 1)..(e + d) : ~LineStart(u, r)
  /\ \A r \in (e + 1)..Len(t) : LineStart(t, r) => SameLine(t, r, u, r + d)
  /\ \A r \in (e + d + 1)..Len(u) :
       LineStart(u, r) => r - d \in (e + 1)..Len(t) /\ LineStart(t, r - d)

LEMMA UpdatedLines ==
  ASSUME NEW t \in Text, NEW k \in Keywords, NEW o \in 1..Len(t), Says(t, o, k),
         NEW v \in Text, OneLine(v)
  PROVE  LET p == o + Len(Word[k])
             u == Updated(t, p, v)
             e == LineEnd(t, p)
             d == (p + Len(v)) - e
         IN /\ OthersKept(t, o, u, e, d)
            /\ Says(u, o, k)
            /\ ValueAt(u, o, k) = Converted(FieldOf(k), Cut(v, MaxOf(FieldOf(k))))
<1> DEFINE m == Len(Word[k])
           n == Len(t)
           l == Len(v)
           p == o + m
           u == Updated(t, p, v)
           e == LineEnd(t, p)
           d == (p + l) - e
<1>1. /\ p \in 1..(n + 1) /\ e = LineEnd(t, o) /\ p <= e
  BY SaysInLine
<1>2. /\ n \in Nat /\ l \in Nat /\ m \in Nat /\ m > 2 /\ o \in 1..n
      /\ \A i \in 1..m : Word[k][i] \notin {"NL", "EOF"}
      /\ \A i \in 1..l : v[i] \notin {"NL", "EOF"}
  BY AtText, KeywordChars DEF OneLine, Text
<1>3. /\ u \in Text /\ Len(u) = n + d
      /\ \A r \in 1..(p - 1) : At(u, r) = At(t, r)
      /\ \A i \in 1..l : At(u, (p - 1) + i) = v[i]
      /\ \A r \in Int : r >= e => At(u, r + d) = At(t, r)
  BY <1>1, UpdatedAt
<1>4. /\ e \in o..(n + 1) /\ At(t, e) \in {"NL", "EOF"}
      /\ \A r \in o..(e - 1) : At(t, r) # "NL"
  <2>1. o \in 1..(Len(t) + 1)
    BY <1>2
  <2> QED  BY <1>1, <2>1, LineEndIs
<1>5. \A i \in 1..m : At(t, o + i - 1) = Word[k][i]
  BY DEF Says
<1>6. LineStart(t, o)
  BY DEF Says
<1>7. o - 1 > 0 => At(t, o - 1) = "NL"
  BY <1>2, <1>6 DEF LineStart
<1>8. \A r \in (o + 1)..e : ~LineStart(t, r)
  <2>1. o \in 1..(Len(t) + 1)
    BY <1>2
  <2> QED  BY <1>1, <2>1, OnALine
<1> HIDE DEF m, n, l, u, e
<1>9. /\ d \in Int /\ e + d = p + l /\ p = o + m /\ o < p /\ o < e /\ o < e + d
      /\ e \in p..(n + 1) /\ o \in 1..Len(u) /\ e \in Int
  <2>1. e \in Int /\ p \in Int /\ e \in p..(n + 1) /\ o < p /\ o < e /\ p = o + m
    BY <1>1, <1>2, <1>4
  <2> HIDE DEF p
  <2>2. d \in Int /\ e + d = p + l
    BY <1>2, <2>1
  <2> HIDE DEF d
  <2>3. o < e + d /\ n + d >= (p + l) - 1 /\ n + d \in Int
    BY <1>2, <2>1, <2>2
  <2>4. o \in 1..(n + d)
    BY <1>2, <2>1, <2>2, <2>3
  <2> QED  BY <1>3, <2>1, <2>2, <2>3, <2>4
<1>90. p \in Int
  BY <1>2
<1> HIDE DEF d, p
<1>10. ASSUME NEW r \in 1..(o - 1), LineStart(t, r) PROVE SameLine(t, r, u, r)
  <2> DEFINE x == LineEnd(t, r)
  <2>1. x \in r..(n + 1) /\ \A y \in r..(x - 1) : At(t, y) # "NL"
    <3>1. r \in 1..(Len(t) + 1)
      BY <1>2 DEF n
    <3> QED  BY <3>1, LineEndIs DEF n
  <2> HIDE DEF x
  <2>2. x <= o - 1
    <3> SUFFICES ASSUME ~(x <= o - 1) PROVE FALSE
      OBVIOUS
    <3>1. o - 1 \in r..(x - 1) /\ o - 1 > 0
      BY <1>2, <2>1
    <3> QED  BY <1>7, <2>1, <3>1
  <2>3. LineStart(u, r)
    <3>1. r # 1 => r - 1 \in 1..(p - 1)
      BY <1>2, <1>9, <1>90
    <3> QED  BY <1>3, <1>10, <3>1 DEF LineStart
  <2>4. ASSUME NEW i \in 0..(x - r) PROVE At(u, r + i) = At(t, r + i)
    <3>1. r + i \in 1..(p - 1)
      BY <1>2, <1>9, <1>90, <2>1, <2>2
    <3> QED  BY <1>3, <3>1
  <2>5. r \in 1..Len(u) /\ r \in 1..n
    BY <1>2, <1>9
  <2> QED  BY <1>10, <2>3, <2>4, <2>5 DEF SameLine, x, n
<1>11. ASSUME NEW r \in 1..(o - 1), LineStart(u, r) PROVE LineStart(t, r)
  <2>1. r # 1 => r - 1 \in 1..(p - 1)
    BY <1>2, <1>9, <1>90
  <2> QED  BY <1>3, <1>11, <2>1 DEF LineStart
<1>12. \A r \in o..((e + d) - 1) : At(u, r) # "NL"
  <2> SUFFICES ASSUME NEW r \in o..((e + d) - 1) PROVE At(u, r) # "NL"
    OBVIOUS
  <2>1. CASE r < p
    <3>1. r \in 1..(p - 1) /\ r \in o..(e - 1)
      BY <1>2, <1>9, <1>90, <2>1
    <3> QED  BY <1>3, <1>4, <3>1
  <2>2. CASE ~(r < p)
    <3> DEFINE i == r - (p - 1)
    <3>1. i \in 1..l /\ r = (p - 1) + i
      BY <1>2, <1>9, <1>90, <2>2
    <3> HIDE DEF i
    <3> QED  BY <1>2, <1>3, <3>1
  <2> QED  BY <2>1, <2>2
<1>13. ASSUME NEW r \in (o + 1)..(e + d) PROVE ~LineStart(u, r)
  <2>1. r # 1 /\ r - 1 \in o..((e + d) - 1)
    BY <1>2, <1>9
  <2> QED  BY <1>12, <2>1 DEF LineStart
<1>14. ASSUME NEW r \in (e + 1)..n, LineStart(t, r) PROVE SameLine(t, r, u, r + d)
  <2> DEFINE x == LineEnd(t, r)
  <2>1. x \in r..(n + 1)
    <3>1. r \in 1..(Len(t) + 1)
      BY <1>2, <1>9 DEF n
    <3> QED  BY <3>1, LineEndIs DEF n
  <2> HIDE DEF x
  <2>2. LineStart(u, r + d)
    <3>1. r - 1 \in Int /\ r - 1 >= e /\ (r - 1) + d = (r + d) - 1 /\ r + d > 1 /\ r > 1
      BY <1>2, <1>9
    <3>2. At(u, (r - 1) + d) = At(t, r - 1)
      BY <1>3, <3>1
    <3> QED  BY <1>14, <3>1, <3>2 DEF LineStart
  <2>3. ASSUME NEW i \in 0..(x - r) PROVE At(u, (r + d) + i) = At(t, r + i)
    <3>1. r + i \in Int /\ r + i >= e /\ (r + i) + d = (r + d) + i
      BY <1>9, <2>1
    <3> QED  BY <1>3, <3>1
  <2>4. r + d \in 1..Len(u) /\ r \in 1..n
    BY <1>2, <1>3, <1>9
  <2> QED  BY <1>14, <2>2, <2>3, <2>4 DEF SameLine, x, n
<1>15. ASSUME NEW r \in (e + d + 1)..Len(u), LineStart(u, r)
       PROVE  r - d \in (e + 1)..n /\ LineStart(t, r - d)
  <2>1. /\ r - d \in (e + 1)..n /\ r - d > 1 /\ (r - d) - 1 >= e /\ (r - d) - 1 \in Int
        /\ ((r - d) - 1) + d = r - 1 /\ r > 1
    BY <1>2, <1>3, <1>9
  <2>2. At(u, ((r - d) - 1) + d) = At(t, (r - d) - 1)
    BY <1>3, <2>1
  <2> QED  BY <1>15, <2>1, <2>2 DEF LineStart
<1>16. Says(u, o, k)
  <2>1. LineStart(u, o)
    <3>1. o # 1 => o - 1 \in 1..(p - 1)
      BY <1>2, <1>9, <1>90
    <3> QED  BY <1>3, <1>6, <3>1 DEF LineStart
  <2>2. \A i \in 1..m : At(u, o + i - 1) = Word[k][i]
    <3> SUFFICES ASSUME NEW i \in 1..m PROVE At(u, o + i - 1) = Word[k][i]
      OBVIOUS
    <3>1. o + i - 1 \in 1..(p - 1)
      BY <1>2, <1>9, <1>90
    <3> QED  BY <1>3, <1>5, <3>1
  <2> QED  BY <2>1, <2>2 DEF Says, m
<1>17. LineEnd(u, p) = e + d
  <2> DEFINE x == e + d
  <2>1. p \in 1..(Len(u) + 1) /\ x \in p..(Len(u) + 1)
    BY <1>2, <1>3, <1>9, <1>90
  <2>2. At(u, x) \in {"NL", "EOF"}
    BY <1>3, <1>4, <1>9
  <2>3. \A r \in p..(x - 1) : At(u, r) # "NL"
    <3>1. p..(x - 1) \subseteq o..((e + d) - 1)
      BY <1>2, <1>9, <1>90
    <3> QED  BY <1>12, <3>1
  <2> HIDE DEF x
  <2>4. LineEnd(u, p) = x
    BY ONLY <1>3, <2>1, <2>2, <2>3, LineEndOne
  <2> QED  BY <2>4 DEF x
<1>18. SubSeq(u, p, (e + d) - 1) = v
  <2> DEFINE x == (e + d) - 1
             a == SubSeq(u, p, x)
  <2>0. x \in Int /\ (x - p) + 1 = l /\ (p <= x <=> l # 0) /\ x <= Len(u)
    BY <1>2, <1>3, <1>9, <1>90
  <2>1. \A i \in p..x : u[i] \in STRING
    <3>1. \A i \in 1..Len(u) : u[i] \in STRING
      BY <1>3 DEF Text
    <3>2. p..x \subseteq 1..Len(u)
      <4> HIDE DEF x
      <4> QED  BY <1>2, <1>3, <1>9, <1>90, <2>0
    <3> QED  BY <3>1, <3>2
  <2> HIDE DEF x
  <2>2. /\ a \in Seq(STRING) /\ Len(a) = l
        /\ \A i \in 1..l : a[i] = u[p + i - 1]
    <3>1. /\ a \in Seq(STRING) /\ Len(a) = IF p <= x THEN x - p + 1 ELSE 0
          /\ \A i \in 1..(x - p + 1) : a[i] = u[p + i - 1]
      BY <1>90, <2>0, <2>1, SubSeqProperties
    <3> HIDE DEF a
    <3> QED  BY <1>2, <1>90, <2>0, <3>1
  <2>3. ASSUME NEW i \in 1..l PROVE a[i] = v[i]
    <3>1. p + i - 1 = (p - 1) + i /\ (p - 1) + i \in 1..Len(u)
      BY <1>2, <1>3, <1>9, <1>90
    <3>2. a[i] = u[(p - 1) + i] /\ At(u, (p - 1) + i) = v[i]
      <4> HIDE DEF a
      <4> QED  BY <1>3, <2>2, <3>1
    <3> HIDE DEF a
    <3> QED  BY <3>1, <3>2 DEF At
  <2>4. v \in Seq(STRING) /\ Len(v) = l
    BY DEF Text, l
  <2> HIDE DEF a
  <2>5. a = v
    BY <2>2, <2>3, <2>4
  <2> QED  BY <2>5 DEF a, x
<1>19. ValueAt(u, o, k) = Converted(FieldOf(k), Cut(v, MaxOf(FieldOf(k))))
  <2>1. o + m = p
    BY <1>9
  <2> QED  BY <1>17, <1>18, <2>1 DEF ValueAt, ReadValue, m
<1>20. e <= n + 1
  BY <1>9, <1>2
<1> QED
  BY <1>3, <1>8, <1>9, <1>10, <1>11, <1>13, <1>14, <1>15, <1>16, <1>19, <1>20
     DEF OthersKept, m, n, l, u, e, d, p

\* What a text says when a value in it was changed, by the only line that gives
\* the field.
LEMMA UpdatedSays ==
  ASSUME NEW t \in Text, NEW k \in Keywords, NEW o \in 1..Len(t), Says(t, o, k),
         NEW v \in Text, OneLine(v), NEW f,
         \A q \in 1..Len(t) : Gives(t, q, FieldOf(k), Keywords) => q = o
  PROVE  Said(Updated(t, o + Len(Word[k]), v), f, Keywords)
           = IF f = FieldOf(k) THEN Converted(f, Cut(v, MaxOf(f))) ELSE Said(t, f, Keywords)
<1> DEFINE p == o + Len(Word[k])
           u == Updated(t, p, v)
           e == LineEnd(t, p)
           d == (p + Len(v)) - e
           n == Len(t)
<1>0. /\ OthersKept(t, o, u, e, d) /\ Says(u, o, k)
      /\ ValueAt(u, o, k) = Converted(FieldOf(k), Cut(v, MaxOf(FieldOf(k))))
  BY UpdatedLines
<1>00. n = Len(t)
  OBVIOUS
<1> HIDE DEF p, u, e, d, n
<1>1. /\ u \in Text /\ o \in 1..Len(u) /\ d \in Int /\ e \in Int /\ o < e /\ o < e + d
      /\ e <= n + 1
      /\ \A r \in 1..(o - 1) : LineStart(t, r) => SameLine(t, r, u, r)
      /\ \A r \in 1..(o - 1) : LineStart(u, r) => LineStart(t, r)
      /\ \A r \in (o + 1)..e : ~LineStart(t, r)
      /\ \A r \in (o + 1)..(e + d) : ~LineStart(u, r)
      /\ \A r \in (e + 1)..n : LineStart(t, r) => SameLine(t, r, u, r + d)
      /\ \A r \in (e + d + 1)..Len(u) :
           LineStart(u, r) => r - d \in (e + 1)..n /\ LineStart(t, r - d)
      /\ Says(u, o, k)
      /\ ValueAt(u, o, k) = Converted(FieldOf(k), Cut(v, MaxOf(FieldOf(k))))
  BY <1>0, <1>00 DEF OthersKept
<1>2. n \in Nat /\ n = Len(t) /\ Len(u) \in Nat /\ o \in 1..n
  BY <1>00, <1>1, AtText
<1> DEFINE g == [r \in 1..n |-> IF r < e THEN r ELSE r + d]
<1>3. ASSUME NEW r \in 1..n, LineStart(t, r), r # o
      PROVE  SameLine(t, r, u, g[r])
  <2>1. CASE r < o
    <3>1. r \in 1..(o - 1) /\ g[r] = r
      BY <1>1, <1>2, <2>1
    <3> QED  BY <1>1, <1>3, <3>1
  <2>2. CASE ~(r < o)
    <3>1. r \in (o + 1)..e \/ r \in (e + 1)..n
      BY <1>1, <1>2, <1>3, <2>2
    <3>2. r \in (e + 1)..n
      BY <1>1, <1>3, <3>1
    <3>3. g[r] = r + d
      BY <1>1, <1>2, <3>2
    <3> QED  BY <1>1, <1>3, <3>2, <3>3
  <2> QED  BY <2>1, <2>2
<1>4. ASSUME NEW q \in 1..Len(u), LineStart(u, q), q # o
      PROVE  \E r \in 1..n : r # o /\ LineStart(t, r) /\ q = g[r]
  <2>1. CASE q < o
    <3>1. q \in 1..(o - 1) /\ q \in 1..n /\ g[q] = q
      BY <1>1, <1>2, <2>1
    <3> QED  BY <1>1, <1>4, <3>1
  <2>2. CASE ~(q < o)
    <3>1. q \in (o + 1)..(e + d) \/ q \in (e + d + 1)..Len(u)
      BY <1>1, <1>2, <1>4, <2>2
    <3>2. q \in (e + d + 1)..Len(u)
      BY <1>1, <1>4, <3>1
    <3>3. q - d \in (e + 1)..n /\ LineStart(t, q - d)
      BY <1>1, <1>4, <3>2
    <3>4. q - d \in 1..n /\ q - d # o /\ ~(q - d < e) /\ (q - d) + d = q
      BY <1>1, <1>2, <3>3
    <3>5. g[q - d] = q
      BY <3>4
    <3> QED  BY <3>3, <3>4, <3>5
  <2> QED  BY <2>1, <2>2
<1>5. ASSUME NEW q \in 1..Len(u), q # o, Gives(u, q, f, Keywords)
      PROVE  \E r \in 1..n : r # o /\ Gives(t, r, f, Keywords) /\ q = g[r]
  <2>1. LineStart(u, q)
    BY <1>5 DEF Gives, Says
  <2>2. PICK r \in 1..n : r # o /\ LineStart(t, r) /\ q = g[r]
    BY <1>4, <1>5, <2>1
  <2>3. SameLine(t, r, u, g[r])
    BY <1>3, <2>2
  <2>4. Gives(t, r, f, Keywords)
    <3> HIDE DEF g
    <3> QED  BY <1>1, <1>5, <2>2, <2>3, SameGives
  <2> QED  BY <2>2, <2>4
<1>6. CASE f = FieldOf(k)
  <2>1. \A q \in (o + 1)..((Len(u) + 1) - 1) : ~Gives(u, q, f, Keywords)
    <3> SUFFICES ASSUME NEW q \in (o + 1)..((Len(u) + 1) - 1), Gives(u, q, f, Keywords)
                 PROVE  FALSE
      OBVIOUS
    <3>1. q \in 1..Len(u) /\ q # o
      BY <1>1, <1>2
    <3>2. PICK r \in 1..n : r # o /\ Gives(t, r, f, Keywords)
      BY <1>5, <3>1
    <3> QED  BY <1>2, <1>6, <3>2
  <2>2. o \in 1..((Len(u) + 1) - 1)
    BY <1>1, <1>2
  <2>3. SaidUpto(Converted(f, Cut(v, MaxOf(f))), u, f, Len(u) + 1, Keywords)
    BY <1>1, <1>6, <2>1, <2>2 DEF SaidUpto
  <2>4. Converted(f, Cut(v, MaxOf(f))) = Said(u, f, Keywords)
    BY <1>1, <2>3, SaidIsSaid
  <2> QED  BY <1>6, <2>4 DEF u, p
<1>7. CASE f # FieldOf(k)
  <2>0. ~Gives(t, o, f, Keywords) /\ ~Gives(u, o, f, Keywords)
    BY <1>1, <1>7, SaysOne DEF Gives
  <2>1. g \in [1..Len(t) -> Int]
    BY <1>1, <1>2
  <2>2. ASSUME NEW r \in 1..Len(t), Gives(t, r, f, Keywords) PROVE SameLine(t, r, u, g[r])
    <3>1. LineStart(t, r) /\ r # o /\ r \in 1..n
      BY <1>2, <2>0, <2>2 DEF Gives, Says
    <3> QED  BY <1>3, <3>1
  <2>3. \A q \in 1..Len(u) : Gives(u, q, f, Keywords) =>
          \E r \in 1..Len(t) : Gives(t, r, f, Keywords) /\ q = g[r]
    BY <1>2, <1>5, <2>0
  <2>40. \A x : Gives(t, x, f, Keywords) => LineStart(t, x) /\ x # o
    <3>1. \A x : Gives(t, x, f, Keywords) => LineStart(t, x)
      BY DEF Gives, Says
    <3> QED  BY <2>0, <3>1
  <2>4. ASSUME NEW r \in 1..Len(t), NEW s \in 1..Len(t), r < s,
               Gives(t, r, f, Keywords), Gives(t, s, f, Keywords)
        PROVE  g[r] < g[s]
    <3>1. r \in 1..n /\ s \in 1..n /\ LineStart(t, s) /\ LineStart(t, r) /\ r # o /\ s # o
      BY <1>2, <2>4, <2>40
    <3>2. r \notin (o + 1)..e /\ s \notin (o + 1)..e
      BY <1>1, <3>1
    <3>3. CASE r < e /\ s >= e
      <4>1. g[r] = r /\ g[s] = s + d /\ r < o /\ s > e
        BY <1>1, <1>2, <3>1, <3>2, <3>3
      <4> HIDE DEF g
      <4> QED  BY <1>1, <1>2, <4>1
    <3>4. CASE ~(r < e /\ s >= e)
      BY <1>1, <1>2, <2>4, <3>1, <3>4
    <3> QED  BY <3>3, <3>4
  <2> HIDE DEF g
  <2>5. Said(u, f, Keywords) = Said(t, f, Keywords)
    BY <1>1, <2>1, <2>2, <2>3, <2>4, SaidMoves
  <2> QED  BY <1>7, <2>5 DEF u, p
<1> QED  BY <1>6, <1>7

-----------------------------------------------------------------------------
(***************************************************************************)
(* The writer: where it looks for a name, and what it leaves behind.       *)
(***************************************************************************)
\* No value that is written goes over the end of a line.
OneLineValues == \A v \in Values : OneLine(v)

\* The value behind a name does not begin like the name.
Apart ==
  \A p \in 1..Len(wtext) : Says(wtext, p, key) => At(wtext, p + Len(Word[key])) # Word[key][1]

\* Where the writer expects a name there is a line, or the value of the name
\* just found; and at is the place behind the name on a line that says it.
FindInv ==
  /\ at # 0 => /\ at \in Nat /\ at - Len(Word[key]) \in 1..Len(wtext)
               /\ Says(wtext, at - Len(Word[key]), key)
  /\ wpc = "find" /\ wfm = "e" => LineStart(wtext, wpos) \/ at = wpos
  /\ wpc = "find" /\ wfm = "v" => /\ wpos > 1 /\ LineStart(wtext, wpos - 1)
                                  /\ At(wtext, wpos - 1) = Word[key][1]

WrittenInv ==
  /\ wpc \in {"find", "append", "create", "fill", "remove", "rename", "return 0"} =>
       OneLine(val) /\ wtext \in Text
  /\ wpc = "return 0" => \E written \in Prefixes(Entry(key, val)) :
                            conf = wtext \o written /\ (cut \/ written = Entry(key, val))
  /\ wpc \in {"remove", "rename"} /\ ~cut => tmp = Updated(wtext, at, val)
  /\ wpc \in {"create", "fill", "remove", "rename"} => at # 0
  /\ wpc \in {"find", "create", "fill", "remove", "rename"} /\ Apart => FindInv

LEMMA WrittenStart == StartupInit => WrittenInv
BY DEF StartupInit, ConfigInit, WrittenInv

LEMMA FindCharStep ==
  ASSUME FileInv, WrittenInv, FindChar
  PROVE  WrittenInv'
<1>1. /\ UNCHANGED <<conf, tmp, wtext, key, val, at>> /\ wpos' = wpos + 1
      /\ wpc = "find" /\ wfm \in {"e", "c"} /\ wpos \in Nat \ {0}
      /\ wpc' \in {"find", "append", "create"} /\ (wpc' = "create" => at # 0)
      /\ wfm' = IF wfm = "e" THEN (IF At(wtext, wpos) = Word[key][1] THEN "v" ELSE "c")
                ELSE IF At(wtext, wpos) = "NL" THEN "e" ELSE "c"
      /\ OneLine(val) /\ wtext \in Text /\ key \in Keywords
  BY DEF FindChar, FindUntil, FileInv, WrittenInv
<1>2. ASSUME Apart PROVE FindInv'
  <2>1. FindInv
    BY <1>1, <1>2 DEF WrittenInv
  <2>2. wpos + 1 > 1 /\ (wpos + 1) - 1 = wpos
    BY <1>1
  <2>3. CASE wfm = "e"
    <3>1. At(wtext, wpos) = Word[key][1] => LineStart(wtext, wpos)
      <4> SUFFICES ASSUME at = wpos PROVE At(wtext, wpos) # Word[key][1]
        BY <1>1, <2>1, <2>3 DEF FindInv
      <4>1. /\ at - Len(Word[key]) \in 1..Len(wtext) /\ Says(wtext, at - Len(Word[key]), key)
            /\ (at - Len(Word[key])) + Len(Word[key]) = wpos
        BY <1>1, <2>1, KeywordChars DEF FindInv
      <4> QED  BY <1>2, <4>1 DEF Apart
    <3>2. wfm' = "v" => At(wtext, wpos) = Word[key][1]
      BY <1>1, <2>3
    <3>3. wfm' \in {"v", "c"}
      BY <1>1, <2>3
    <3> QED  BY <1>1, <2>1, <2>2, <3>1, <3>2, <3>3 DEF FindInv
  <2>4. CASE wfm = "c"
    <3>1. wfm' = "e" => At(wtext, wpos) = "NL"
      BY <1>1, <2>4
    <3>2. wfm' \in {"e", "c"}
      BY <1>1, <2>4
    <3>3. wfm' = "e" => LineStart(wtext, wpos + 1)
      BY <2>2, <3>1 DEF LineStart
    <3> QED  BY <1>1, <2>1, <3>2, <3>3 DEF FindInv
  <2> QED  BY <1>1, <2>3, <2>4
<1>3. Apart' <=> Apart
  BY <1>1 DEF Apart
<1> QED  BY <1>1, <1>2, <1>3 DEF WrittenInv, OneLine

LEMMA FindNameStep ==
  ASSUME FileInv, WrittenInv, FindName
  PROVE  WrittenInv'
<1> DEFINE m == Len(Word[key])
           named == Compare(wtext, wpos, Word[key])
<1>1. /\ UNCHANGED <<conf, tmp, wtext, key, val>> /\ wpos' = wpos + m - 1
      /\ wpc = "find" /\ wfm = "v" /\ wpos \in Nat \ {0}
      /\ wpc' \in {"find", "append", "create"} /\ (wpc' = "create" => at' # 0)
      /\ wfm' = (IF named THEN "e" ELSE "c") /\ at' = IF named THEN wpos' ELSE at
      /\ OneLine(val) /\ wtext \in Text /\ key \in Keywords
      /\ m \in Nat /\ m > 2
  BY KeywordChars DEF FindName, FindUntil, FileInv, WrittenInv
<1>2. ASSUME Apart PROVE FindInv'
  <2>1. FindInv
    BY <1>1, <1>2 DEF WrittenInv
  <2>2. wpos > 1 /\ LineStart(wtext, wpos - 1) /\ At(wtext, wpos - 1) = Word[key][1]
    BY <1>1, <2>1 DEF FindInv
  <2>3. CASE named
    <3>1. wpos - 1 \in Nat \ {0} /\ (wpos - 1) + 1 = wpos
      BY <1>1, <2>2
    <3>2. Says(wtext, wpos - 1, key)
      BY <1>1, <2>2, <2>3, <3>1, SaysWhenCompared
    <3>3. wpos - 1 \in 1..Len(wtext)
      BY <1>1, <3>1, <3>2, SaysOne
    <3>4. at' = wpos' /\ at' - m = wpos - 1 /\ wfm' = "e" /\ at' \in Nat
      BY <1>1, <2>3
    <3> QED  BY <1>1, <3>2, <3>3, <3>4 DEF FindInv
  <2>4. CASE ~named
    BY <1>1, <2>1, <2>4 DEF FindInv
  <2> QED  BY <2>3, <2>4
<1>3. Apart' <=> Apart
  BY <1>1 DEF Apart
<1> QED  BY <1>1, <1>2, <1>3 DEF WrittenInv, OneLine

LEMMA OtherWrites ==
  ASSUME FileInv, WrittenInv,
         AppendEntry \/ CreateTemp \/ CloseTemp \/ RemoveConf \/ RenameTemp \/ WriteReturned
           \/ WriterKilled
  PROVE  WrittenInv'
<1>1. CASE AppendEntry
  BY <1>1 DEF AppendEntry, FileInv, WrittenInv, OneLine
<1>2. ASSUME CreateTemp \/ CloseTemp \/ RemoveConf, wpc' # "return 1", wpc' # "crashed"
      PROVE  WrittenInv'
  <2>1. /\ UNCHANGED <<wtext, wpos, wfm, key, val, at>>
        /\ \/ wpc = "create" /\ wpc' = "fill"
           \/ wpc = "fill" /\ wpc' = "remove" /\ (~cut' => tmp' = Updated(wtext, at, val))
           \/ wpc = "remove" /\ wpc' = "rename" /\ tmp' = tmp /\ cut' = cut
    BY <1>2 DEF CreateTemp, CloseTemp, RemoveConf
  <2>2. (Apart' <=> Apart) /\ (FindInv => FindInv')
    BY <2>1 DEF Apart, FindInv
  <2> QED  BY <2>1, <2>2 DEF WrittenInv, OneLine
<1>3. CASE wpc' \in {"return 1", "crashed", "idle"}
  BY <1>3 DEF WrittenInv
<1> QED  BY <1>1, <1>2, <1>3 DEF RenameTemp, WriteReturned, WriterKilled, Forgotten

LEMMA WrittenStep ==
  ASSUME OneLineValues, FileInv, WrittenInv, [Next]_vars
  PROVE  WrittenInv'
<1>1. CASE Writes
  <2>1. ASSUME NEW k \in Keywords, NEW v \in Values, OpenForWrite(k, v)
        PROVE  WrittenInv'
    <3>1. CASE conf = Missing
      BY <2>1, <3>1 DEF OpenForWrite, WrittenInv
    <3>2. CASE conf # Missing
      <4>1. wpc' = "find" /\ wtext' = conf /\ val' = v /\ at' = 0 /\ wfm' = "e" /\ wpos' = 1
        BY <2>1, <3>2 DEF OpenForWrite
      <4>2. OneLine(val') /\ wtext' \in Text
        BY <3>2, <4>1 DEF OneLineValues, FileInv
      <4> QED  BY <4>1, <4>2 DEF WrittenInv, FindInv, LineStart, OneLine
    <3> QED  BY <3>1, <3>2
  <2> QED  BY <1>1, <2>1, FindCharStep, FindNameStep, OtherWrites DEF Writes, WriteStep
<1>2. CASE PutBack
  <2>1. wpc' = "idle"
    BY <1>2 DEF PutBack, Quiet, writeVars
  <2> QED  BY <2>1 DEF WrittenInv
<1>3. CASE Parse \/ HandOn \/ Read \/ Again \/ Search \/ UNCHANGED vars
  <2>1. UNCHANGED <<conf, tmp>> /\ UNCHANGED writeVars
    BY <1>3 DEF Parse, HandOn, Read, Again, Search, vars, configVars,
                ReadStep, ReadNoFile, OpenForRead, ScanChar, ScanEntry, ScanMismatch
  <2>2. /\ UNCHANGED <<wpc, wtext, wpos, wfm, key, val, at, cut>>
    BY <2>1 DEF writeVars
  <2>3. (Apart' <=> Apart) /\ (FindInv => FindInv') /\ (OneLine(val)' <=> OneLine(val))
    BY <2>2 DEF Apart, FindInv, OneLine
  <2> QED  BY <2>1, <2>2, <2>3 DEF WrittenInv
<1> QED  BY <1>1, <1>2, <1>3 DEF Next

LEMMA WrittenIsSaid == FileInv /\ WrittenInv => ZeroIsWritten
<1> SUFFICES ASSUME FileInv, WrittenInv, wpc = "return 0", IsEnded(wtext), NEW f \in Fields
             PROVE  IF f = FieldOf(key)
                    THEN cut \/ Said(conf, f, Keywords) = Converted(f, Cut(val, MaxOf(f)))
                    ELSE Said(conf, f, Keywords) = Said(wtext, f, Keywords)
  BY DEF ZeroIsWritten
<1>1. wtext \in Text /\ OneLine(val) /\ key \in Keywords /\ val \in Text /\ IsEnded(wtext)
  BY DEF FileInv, WrittenInv
<1>2. PICK written \in Prefixes(Entry(key, val)) :
        conf = wtext \o written /\ (cut \/ written = Entry(key, val))
  BY DEF WrittenInv
<1>3. Said(wtext \o Entry(key, val), f, Keywords) = IF f = FieldOf(key)
                                                    THEN Converted(f, Cut(val, MaxOf(f)))
                                                    ELSE Said(wtext, f, Keywords)
  BY ONLY <1>1, AppendedSays
<1>4. CASE f = FieldOf(key)
  BY <1>2, <1>3, <1>4
<1>5. CASE f # FieldOf(key)
  <2>1. Said(wtext \o written, f, Keywords) = Said(wtext, f, Keywords)
    BY ONLY <1>1, <1>2, <1>5, PrefixSays
  <2> QED  BY <1>2, <1>5, <2>1
<1> QED  BY <1>4, <1>5

LEMMA SingleIsOne ==
  ASSUME NEW t \in Text, NEW k \in Keywords, IsSingle(t, k), NEW o \in 1..Len(t), Says(t, o, k)
  PROVE  \A q \in 1..Len(t) : Gives(t, q, FieldOf(k), Keywords) => q = o
<1> DEFINE S == {p \in 1..Len(t) : Gives(t, p, FieldOf(k), Keywords)}
<1>1. Cardinality(S) = 1
  BY DEF IsSingle, Gives
<1>2. IsFiniteSet(S)
  <2>1. Len(t) \in Int /\ 1 \in Int
    BY AtText
  <2>2. IsFiniteSet(1..Len(t))
    BY <2>1, FS_Interval
  <2> QED  BY <2>2, FS_Subset
<1>3. o \in S
  BY DEF Gives
<1> HIDE DEF S
<1>4. PICK x : S = {x}
  BY <1>1, <1>2, FS_Singleton
<1> QED  BY <1>3, <1>4 DEF S

LEMMA UpdatedIsSaid == FileInv /\ WrittenInv => NothingLost
<1> SUFFICES ASSUME FileInv, WrittenInv, wpc = "rename", ~cut, IsSingle(wtext, key),
                    NEW f \in Fields
             PROVE  Said(tmp, f, Keywords) = IF f = FieldOf(key)
                                             THEN Converted(f, Cut(val, MaxOf(f)))
                                             ELSE Said(wtext, f, Keywords)
  BY DEF NothingLost
<1> DEFINE o == at - Len(Word[key])
<1>1. /\ wtext \in Text /\ OneLine(val) /\ key \in Keywords /\ val \in Text
      /\ tmp = Updated(wtext, at, val) /\ at # 0
  BY DEF FileInv, WrittenInv
<1>2. FindInv
  <2>1. Apart
    BY DEF IsSingle, Apart
  <2> QED  BY <2>1 DEF WrittenInv
<1>3. o \in 1..Len(wtext) /\ Says(wtext, o, key)
  BY <1>1, <1>2 DEF FindInv
<1>4. \A q \in 1..Len(wtext) : Gives(wtext, q, FieldOf(key), Keywords) => q = o
  BY <1>1, <1>3, SingleIsOne
<1>5. at = o + Len(Word[key])
  BY <1>1, <1>2, <1>3, KeywordChars DEF FindInv
<1> HIDE DEF o
<1> QED  BY <1>1, <1>3, <1>4, <1>5, UpdatedSays

\* When write_to_cfg returns 0 the text says of the other fields what it said,
\* however much of the entry got through, and of the field what was written when
\* all of it did: for any text that ends with a newline, whatever its lines are
\* (cfg_parsing.c:313).
THEOREM ZeroMeansWritten ==
  ASSUME OneLineValues
  PROVE  Spec => []ZeroIsWritten
<1>1. StartupInit => FileInv /\ WrittenInv
  BY FileStart, WrittenStart
<1>2. FileInv /\ WrittenInv /\ [Next]_vars => (FileInv /\ WrittenInv)'
  BY FileStep, WrittenStep
<1>3. FileInv /\ WrittenInv => ZeroIsWritten
  BY WrittenIsSaid
<1> QED  BY <1>1, <1>2, <1>3, PTL DEF Spec

\* Before write_to_cfg renames it, a temporary file that no failed write has cut
\* says all that the configuration said but for the field that was asked for,
\* when one line gives that field (cfg_parsing.c:298).
THEOREM NothingIsLost ==
  ASSUME OneLineValues
  PROVE  Spec => []NothingLost
<1>1. StartupInit => FileInv /\ WrittenInv
  BY FileStart, WrittenStart
<1>2. FileInv /\ WrittenInv /\ [Next]_vars => (FileInv /\ WrittenInv)'
  BY FileStep, WrittenStep
<1>3. FileInv /\ WrittenInv => NothingLost
  BY UpdatedIsSaid
<1> QED  BY <1>1, <1>2, <1>3, PTL DEF Spec
=============================================================================
