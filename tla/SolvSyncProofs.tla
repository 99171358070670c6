--------------------------- MODULE SolvSyncProofs ---------------------------
(***************************************************************************)
(* Theorems about SolvSync: what compare_files computes, and that a client *)
(* may trust its backups.                                                  *)
(***************************************************************************)
EXTENDS SolvSync, SequenceTheorems, WellFoundedInduction, TLAPS

\* No file has a byte that compare_files takes for its end.
NoEOFByte == \A f \in Files : \A c \in Contents[f] : \A k \in 1..Len(c) : c[k] # 255

-----------------------------------------------------------------------------
\* EOF is not a byte.
LEMMA ByteIsNotEOF == \A b \in Byte : b # EOF
<1> SUFFICES ASSUME NEW b \in 0..255
             PROVE  b # -1
  BY DEF Byte, EOF
<1>1. b >= 0
  OBVIOUS
<1> QED  BY <1>1

\* The loop of compare_files ends: there is a first place where it stops, the
\* end of the first file at the latest.
LEMMA FirstStop ==
  ASSUME NEW c \in Seq(Byte), NEW d \in Seq(Byte)
  PROVE  \E k \in 1..(Len(c) + 1) :
           Stops(c, d, k) /\ \A j \in 1..(k - 1) : ~Stops(c, d, j)
<1> DEFINE T == {k \in 1..(Len(c) + 1) : Stops(c, d, k)}
<1>1. Len(c) \in Nat
  OBVIOUS
<1>2. Len(c) + 1 \in T
  BY <1>1 DEF Stops, Fgetc
<1>3. T \subseteq Nat /\ T # {}
  BY <1>1, <1>2
<1>4. PICK k \in T : \A j \in T : ~ (<<j, k>> \in OpToRel(<, Nat))
  <2> HIDE DEF T
  <2> QED  BY <1>3, NatLessThanWellFounded, WFMin
<1>5. \A j \in T : ~(j < k)
  BY <1>3, <1>4 DEF OpToRel
<1> QED  BY <1>1, <1>5

\* Without bytes of value 255 compare_files returns OK exactly for identical
\* files, as its comment promises (client.h:82).
THEOREM CompareIsEquality ==
  ASSUME NEW c \in Seq(Byte), NEW d \in Seq(Byte),
         \A k \in 1..Len(c) : c[k] # 255,
         \A k \in 1..Len(d) : d[k] # 255
  PROVE  CompareFiles(c, d) <=> c = d
<1> DEFINE last == CHOOSE k \in 1..(Len(c) + 1) :
                     Stops(c, d, k) /\ \A j \in 1..(k - 1) : ~Stops(c, d, j)
<1>1. /\ last \in 1..(Len(c) + 1)
      /\ Stops(c, d, last)
      /\ \A j \in 1..(last - 1) : ~Stops(c, d, j)
  BY FirstStop
<1>2. CompareFiles(c, d) <=> Fgetc(c, last) = Fgetc(d, last)
  BY DEF CompareFiles
<1> HIDE DEF last
<1>3. ASSUME Fgetc(c, last) = Fgetc(d, last)
      PROVE  c = d
  <2>1. Fgetc(c, last) = EOF /\ Fgetc(d, last) = EOF
    BY <1>1, <1>3 DEF Stops
  <2>2. last = Len(c) + 1
    <3>1. CASE last > Len(c)
      BY <3>1, <1>1
    <3>2. CASE last <= Len(c)
      <4>1. c[last] \in Byte /\ c[last] # 255 /\ ~(last > Len(c))
        BY <3>2, <1>1
      <4>2. Fgetc(c, last) = c[last]
        BY <4>1 DEF Fgetc
      <4>3. c[last] # EOF
        BY <4>1, ByteIsNotEOF
      <4> QED  BY <2>1, <4>2, <4>3
    <3> QED  BY <3>1, <3>2, <1>1
  <2>3. last > Len(d)
    <3>1. CASE last <= Len(d)
      <4>1. d[last] \in Byte /\ d[last] # 255 /\ ~(last > Len(d))
        BY <3>1, <1>1
      <4>2. Fgetc(d, last) = d[last]
        BY <4>1 DEF Fgetc
      <4>3. d[last] # EOF
        BY <4>1, ByteIsNotEOF
      <4> QED  BY <2>1, <4>2, <4>3
    <3> QED  BY <3>1, <1>1
  <2>4. ASSUME NEW j \in 1..Len(c)
        PROVE  j <= Len(d) /\ c[j] = d[j]
    <3>1. Fgetc(c, j) # EOF /\ Fgetc(d, j) # EOF /\ Fgetc(c, j) = Fgetc(d, j)
      BY <1>1, <2>2 DEF Stops
    <3> QED  BY <3>1 DEF Fgetc
  <2>5. Len(c) = Len(d)
    <3>1. Len(c) <= Len(d)
      <4>1. CASE Len(c) = 0
        BY <4>1
      <4>2. CASE Len(c) # 0
        BY <4>2, <2>4
      <4> QED  BY <4>1, <4>2
    <3> QED  BY <3>1, <2>2, <2>3, <1>1
  <2> QED  BY <2>4, <2>5, SeqEqual
<1> QED  BY <1>2, <1>3
-----------------------------------------------------------------------------
\* A content: it is a file that is there, can be cut anywhere, and no content
\* of its file is a cut of it.
LEMMA ContentFacts ==
  ASSUME NEW f \in Files, NEW c \in Contents[f]
  PROVE  /\ c \in Seq(Byte)
         /\ c # NoFile /\ c # Unseen /\ c # <<>>
         /\ c \in Prefixes(c) /\ <<>> \in Prefixes(c)
         /\ \A p \in Prefixes(c) : p # c => SubSeq(c, 1, Len(p) + 1) \in Prefixes(c)
         /\ \A p \in Prefixes(c) : p \in Contents[f] => p = c
         /\ Prefixes(c) \subseteq Partial(f)
         /\ Cut(c) \subseteq Prefixes(c) /\ c \notin Cut(c)
<1>1. c \in Seq(Byte) /\ c # <<>> /\ Len(c) \in Nat
  BY SyncAssumption
<1>2. Len(c) # 0
  BY <1>1
<1>3. c[1] \in Byte
  BY <1>1, <1>2
<1>4. c # NoFile /\ c # Unseen
  BY <1>3, ByteIsNotEOF DEF NoFile, Unseen
<1>5. c \in Prefixes(c)
  <2>1. SubSeq(c, 1, Len(c)) = c
    BY <1>1, SubSeqFull
  <2>2. Len(c) \in 0..Len(c)
    BY <1>1
  <2> QED  BY <2>1, <2>2 DEF Prefixes
<1>6. <<>> \in Prefixes(c)
  <2>1. SubSeq(c, 1, 0) = <<>>
    BY SubSeqEmpty
  <2> QED  BY <2>1, <1>1 DEF Prefixes
<1>7. ASSUME NEW p \in Prefixes(c), p # c
      PROVE  SubSeq(c, 1, Len(p) + 1) \in Prefixes(c)
  <2>1. PICK n \in 0..Len(c) : p = SubSeq(c, 1, n)
    BY DEF Prefixes
  <2>2. Len(p) = n
    <3>1. \A k \in 1..n : c[k] \in Byte
      BY <1>1
    <3>2. Len(p) = IF 1 <= n THEN n - 1 + 1 ELSE 0
      BY <2>1, <3>1, SubSeqProperties
    <3> QED  BY <3>2
  <2>3. n # Len(c)
    BY <2>1, <1>7, <1>1, SubSeqFull
  <2>4. Len(p) + 1 \in 0..Len(c)
    BY <2>2, <2>3, <1>1
  <2> QED  BY <2>4 DEF Prefixes
<1>8. ASSUME NEW p \in Prefixes(c), p \in Contents[f]
      PROVE  p = c
  BY <1>8, SyncAssumption DEF Prefixes
<1>9. Prefixes(c) \subseteq Partial(f)
  BY DEF Partial
<1>10. Cut(c) \subseteq Prefixes(c) /\ c \notin Cut(c)
  BY DEF Cut
<1> QED  BY <1>1, <1>4, <1>5, <1>6, <1>7, <1>8, <1>9, <1>10

\* What a run has done to its files when it is at a step.
Flow ==
  /\ pc \in {"compare", "question"} => Registered
  /\ pc \in {"header", "content"} => src \in Contents[file]
  /\ pc = "content" => stored[file] \in Prefixes(src)
  /\ pc \in {"copy", "copying"} => /\ saw[file] \in Contents[file]
                                   /\ stored[file] \in Prefixes(saw[file])
  /\ pc = "copying" => src \in Contents[file] /\ backup[file] \in Prefixes(src)
  /\ pc \in {"compare", "question", "open", "header", "content"} => saw[file] = Unseen
  /\ pc # "idle" /\ file = "solv" => saw["yum"] = Unseen
  /\ pc # "idle" /\ file = "yum" => saw["solv"] \in Contents["solv"]
  /\ pc = "asked" => file = "yum" /\ saw["yum"] \in Contents["yum"]

TypeInv == TypeOK /\ Flow

\* The invariant holds at the start.
LEMMA TypeInit == Init => TypeInv
<1> SUFFICES ASSUME Init PROVE TypeInv
  OBVIOUS
<1> QED  BY SyncAssumption DEF Init, TypeInv, TypeOK, Flow, SyncPc, Files

\* Every step keeps it.
LEMMA TypeStep == TypeInv /\ [Next]_vars => TypeInv'
<1> SUFFICES ASSUME TypeInv, [Next]_vars PROVE TypeInv'
  OBVIOUS
<1> USE DEF TypeInv, TypeOK, Flow, files, run, ghosts
<1>0. Files = {"solv", "yum"}
  BY DEF Files
<1> USE <1>0
<1>1. CASE Start
  BY <1>1 DEF Start, FirstStep, SyncPc
<1>2. CASE CompareSame
  BY <1>2 DEF CompareSame, Same, Advance, FirstStep, SyncPc
<1>3. CASE CompareDiffers
  BY <1>3 DEF CompareDiffers, SyncPc
<1>4. CASE Agree
  BY <1>4 DEF Agree, SyncPc
<1>5. CASE Decline
  BY <1>5 DEF Decline, EndRun, SyncPc
<1>6. CASE OpenFails
  BY <1>6 DEF OpenFails, EndRun, SyncPc
<1>7. CASE Open
  BY <1>7 DEF Open, SyncPc
<1>8. CASE Truncate
  BY <1>8, ContentFacts DEF Truncate, SyncPc
<1>9. CASE StoreByte
  BY <1>9, ContentFacts DEF StoreByte, SyncPc
<1>10. CASE Refused
  BY <1>10 DEF Refused, EndRun, SyncPc
<1>11. CASE Confirmed
  BY <1>11, ContentFacts DEF Confirmed, SyncPc
<1>12. CASE LoseUnflushed
  BY <1>12, ContentFacts DEF LoseUnflushed, SyncPc
<1>13. CASE CopyOpen
  BY <1>13, ContentFacts DEF CopyOpen, SyncPc
<1>14. CASE CopyNoSource
  BY <1>14, ContentFacts DEF CopyNoSource, Advance, FirstStep, SyncPc
<1>15. CASE CopyNoTarget
  BY <1>15 DEF CopyNoTarget, Advance, FirstStep, SyncPc
<1>16. CASE CopyByte
  BY <1>16, ContentFacts DEF CopyByte, SyncPc
<1>17. CASE CopyShort
  BY <1>17 DEF CopyShort, Advance, FirstStep, SyncPc
<1>18. CASE CopyDone
  <2>1. src \in Contents[file] /\ {src, orig[file]} \subseteq Contents[file] \cup {NoFile}
    BY <1>18 DEF CopyDone
  <2>2. \A f \in Files : seen'[f] \subseteq Contents[f] \cup {NoFile}
    BY <1>18, <2>1 DEF CopyDone
  <2>3. doubt' \subseteq Files /\ DOMAIN seen' = Files
    BY <1>18 DEF CopyDone
  <2> QED
    BY <1>18, <2>2, <2>3 DEF CopyDone, Advance, FirstStep, SyncPc
<1>19. CASE Answer
  BY <1>19 DEF Answer, EndRun, SyncPc
<1>20. CASE Killed
  BY <1>20, ContentFacts DEF Killed, EndRun, SyncPc
<1>21. ASSUME NEW f \in Files, Replace(f)
       PROVE  TypeInv'
  BY <1>21 DEF Replace
<1>22. ASSUME NEW f \in Files, OtherClient(f)
       PROVE  TypeInv'
  BY <1>22, ContentFacts DEF OtherClient
<1>23. CASE UNCHANGED vars
  BY <1>23 DEF vars
<1> QED
  BY <1>1, <1>2, <1>3, <1>4, <1>5, <1>6, <1>7, <1>8, <1>9, <1>10, <1>11, <1>12,
     <1>13, <1>14, <1>15, <1>16, <1>17, <1>18, <1>19, <1>20, <1>21, <1>22, <1>23
     DEF Next, ClientStep, ServerStep

\* Every file, backup and stored copy is a content, one cut short, or not there.
THEOREM SyncTypeCorrect == Spec => []TypeOK
<1>1. TypeInv => TypeOK
  BY DEF TypeInv
<1> QED  BY <1>1, TypeInit, TypeStep, PTL DEF Spec
-----------------------------------------------------------------------------
\* A file cut short has the bytes of the file.
LEMMA PartialBytes ==
  ASSUME NoEOFByte, NEW f \in Files, NEW p \in Partial(f)
  PROVE  p \in Seq(Byte) /\ \A k \in 1..Len(p) : p[k] # 255
<1>1. PICK c \in Contents[f] : p \in Prefixes(c)
  BY DEF Partial
<1>2. PICK n \in 0..Len(c) : p = SubSeq(c, 1, n)
  BY <1>1 DEF Prefixes
<1>3. c \in Seq(Byte) /\ Len(c) \in Nat
  BY ContentFacts
<1>4. \A k \in 1..n : c[k] \in Byte /\ c[k] # 255
  BY <1>3 DEF NoEOFByte
<1>5. /\ p \in Seq(Byte)
      /\ Len(p) = IF 1 <= n THEN n - 1 + 1 ELSE 0
      /\ \A k \in 1..(n - 1 + 1) : p[k] = c[1 + k - 1]
  BY <1>2, <1>4, SubSeqProperties
<1>6. Len(p) = n
  BY <1>5, <1>3
<1>7. \A k \in 1..Len(p) : p[k] = c[k]
  BY <1>5, <1>6, <1>3
<1> QED  BY <1>4, <1>5, <1>6, <1>7

\* So the client's comparison tells exactly whether file and backup are equal.
LEMMA SameIsEqual ==
  ASSUME NoEOFByte, TypeInv, NEW f \in Files
  PROVE  Same(f) <=> orig[f] # NoFile /\ backup[f] = orig[f]
<1>1. CASE orig[f] = NoFile \/ backup[f] = NoFile
  BY <1>1 DEF Same
<1>2. CASE orig[f] # NoFile /\ backup[f] # NoFile
  <2>1. orig[f] \in Partial(f) /\ backup[f] \in Partial(f)
    BY <1>2, ContentFacts DEF TypeInv, TypeOK
  <2>2. CompareFiles(orig[f], backup[f]) <=> orig[f] = backup[f]
    BY <2>1, PartialBytes, CompareIsEquality
  <2> QED  BY <1>2, <2>2 DEF Same
<1> QED  BY <1>1, <1>2

\* What a run did with the files before it got to a step, for files that are
\* not in doubt, and what the history of a file contains.
Trust ==
  /\ \A f \in Files : /\ orig[f] \in seen[f]
                      /\ backup[f] \in Contents[f] => backup[f] \in seen[f]
  /\ \A f \in Files \ doubt :
       /\ Registered /\ orig[f] # NoFile /\ backup[f] = orig[f] => stored[f] = orig[f]
       /\ pc # "idle" /\ saw[f] # Unseen => stored[f] = saw[f]
  /\ pc \in {"header", "content"} => file \in doubt \/ orig[file] = src
  /\ pc = "copy" => file \in doubt \/ orig[file] = saw[file]
  /\ pc = "copying" => /\ src \in seen[file]
                       /\ file \in doubt \/ stored[file] = src
  /\ Registered /\ pc \in {"question", "open", "header", "content", "copy"} =>
       file \in doubt \/ orig[file] = NoFile \/ orig[file] # backup[file]

SyncInv == TypeInv /\ Trust

\* The invariant holds at the start.
LEMMA SyncInit == Init => SyncInv
<1> SUFFICES ASSUME Init PROVE SyncInv
  OBVIOUS
<1>1. TypeInv
  BY TypeInit
<1>2. \A f \in Files : orig[f] # NoFile /\ NoFile \notin Contents[f]
  BY ContentFacts DEF Init
<1> QED  BY <1>1, <1>2 DEF Init, SyncInv, Trust

\* Every step keeps it.
LEMMA SyncStep == NoEOFByte /\ SyncInv /\ [Next]_vars => SyncInv'
<1> SUFFICES ASSUME NoEOFByte, SyncInv, [Next]_vars PROVE SyncInv'
  OBVIOUS
<1>0. TypeInv /\ TypeInv'
  BY TypeStep DEF SyncInv
<1> SUFFICES Trust'
  BY <1>0 DEF SyncInv
<1>s. Files = {"solv", "yum"}
  BY DEF Files
<1> USE <1>0, <1>s DEF SyncInv, Trust, TypeInv, TypeOK, Flow, files, run, ghosts
<1>1. CASE Start
  BY <1>1 DEF Start, FirstStep
<1>2. CASE CompareSame
  BY <1>2, SameIsEqual DEF CompareSame, Advance, FirstStep
<1>3. CASE CompareDiffers
  BY <1>3, SameIsEqual DEF CompareDiffers
<1>4. CASE Agree
  BY <1>4 DEF Agree
<1>5. CASE Decline
  BY <1>5 DEF Decline, EndRun
<1>6. CASE OpenFails
  BY <1>6 DEF OpenFails, EndRun
<1>7. CASE Open
  BY <1>7 DEF Open
<1>8. CASE Truncate
  BY <1>8 DEF Truncate
<1>9. CASE StoreByte
  BY <1>9 DEF StoreByte
<1>10. CASE Refused
  BY <1>10 DEF Refused, EndRun
<1>11. CASE Confirmed
  BY <1>11, ContentFacts DEF Confirmed
<1>12. CASE LoseUnflushed
  BY <1>12 DEF LoseUnflushed
<1>13. CASE CopyOpen
  BY <1>13, ContentFacts DEF CopyOpen
<1>14. CASE CopyNoSource
  BY <1>14, ContentFacts DEF CopyNoSource, Advance, FirstStep
<1>15. CASE CopyNoTarget
  BY <1>15 DEF CopyNoTarget, Advance, FirstStep
<1>16. CASE CopyByte
  BY <1>16, ContentFacts DEF CopyByte
<1>17. CASE CopyShort
  BY <1>17, ContentFacts DEF CopyShort, Advance, FirstStep
<1>18. CASE CopyDone
  <2>1. /\ pc = "copying" /\ file \in Files /\ src \in Contents[file] /\ src # NoFile
        /\ backup[file] = src /\ UNCHANGED <<files, src, saw>>
        /\ pc' \in {"compare", "open", "asked"} /\ (pc' = "open" => ~Registered)
    BY <1>18, ContentFacts DEF CopyDone, Advance, FirstStep
  <2>2. CASE stored[file] = src
    <3>1. stored[file] = saw[file]
      BY <2>1, <2>2, ContentFacts
    <3>2. /\ doubt' = doubt \ {file}
          /\ seen' = [seen EXCEPT ![file] = {src, orig[file]}]
      BY <1>18, <2>2 DEF CopyDone
    <3>3. \A f \in Files : /\ orig'[f] \in seen'[f]
                           /\ backup'[f] \in Contents[f] => backup'[f] \in seen'[f]
      BY <2>1, <3>2
    <3>4. ASSUME NEW f \in Files \ doubt'
          PROVE  /\ Registered /\ orig'[f] # NoFile /\ backup'[f] = orig'[f] =>
                      stored'[f] = orig'[f]
                 /\ saw'[f] # Unseen => stored'[f] = saw'[f]
      BY <2>1, <2>2, <3>1, <3>2
    <3>5. /\ pc' \notin {"header", "content", "copy", "copying"}
          /\ Registered => pc' \notin {"question", "open", "header", "content", "copy"}
      BY <2>1
    <3> QED  BY <3>3, <3>4, <3>5
  <2>3. CASE stored[file] # src
    <3>1. UNCHANGED ghosts
      BY <1>18, <2>3 DEF CopyDone
    <3> QED  BY <2>1, <3>1
  <2> QED  BY <2>2, <2>3
<1>19. CASE Answer
  BY <1>19 DEF Answer, EndRun
<1>20. CASE Killed
  BY <1>20 DEF Killed, EndRun
<1>21. ASSUME NEW f \in Files, Replace(f)
       PROVE  Trust'
  BY <1>21, ContentFacts DEF Replace, Sending
<1>22. ASSUME NEW f \in Files, OtherClient(f)
       PROVE  Trust'
  BY <1>22 DEF OtherClient
<1>23. CASE UNCHANGED vars
  BY <1>23 DEF vars
<1> QED
  BY <1>1, <1>2, <1>3, <1>4, <1>5, <1>6, <1>7, <1>8, <1>9, <1>10, <1>11, <1>12,
     <1>13, <1>14, <1>15, <1>16, <1>17, <1>18, <1>19, <1>20, <1>21, <1>22, <1>23
     DEF Next, ClientStep, ServerStep

\* The invariant holds in every state.
LEMMA SyncInvariant == ASSUME NoEOFByte PROVE Spec => []SyncInv
<1>1. Init => SyncInv
  BY SyncInit
<1>2. SyncInv /\ [Next]_vars => SyncInv'
  BY SyncStep
<1> QED  BY <1>1, <1>2, PTL DEF Spec

\* A backup that compares equal means that the server has the file, unless the
\* file is in doubt (client_main.c:126, 143).
THEOREM BackupsAreTrusted == ASSUME NoEOFByte PROVE Spec => []BackupIsTrusted
<1>1. SyncInv => BackupIsTrusted
  BY SameIsEqual DEF SyncInv, Trust, BackupIsTrusted
<1> QED  BY <1>1, SyncInvariant, PTL

\* A request is solved with the files as this run saw them (client_main.c:106-157).
THEOREM RequestsAreSynced == ASSUME NoEOFByte PROVE Spec => []RequestIsSynced
<1>1. SyncInv => RequestIsSynced
  <2> SUFFICES ASSUME SyncInv, pc = "asked", NEW f \in Files
               PROVE  saw[f] # Unseen /\ (f \notin doubt => stored[f] = saw[f])
    BY DEF RequestIsSynced
  <2>1. saw[f] \in Contents[f]
    BY DEF SyncInv, TypeInv, Flow, Files
  <2> QED  BY <2>1, ContentFacts DEF SyncInv, Trust
<1> QED  BY <1>1, SyncInvariant, PTL
=============================================================================
