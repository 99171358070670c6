------------------------------ MODULE SolvSync ------------------------------
(***************************************************************************)
(* The two files of a client, @System.solv and yum.conf, over many of its  *)
(* runs: the file itself, which the package manager or the user replaces   *)
(* at any time, the backup that tells the client whether the server has    *)
(* it, and the copy in the server's directory.  The conversation itself is *)
(* that of Rds; here a run is what main does with the files.               *)
(*                                                                         *)
(* A file is replaced by renaming a new one into its place, so a program   *)
(* that has it open keeps reading what it opened.                          *)
(***************************************************************************)
EXTENDS Integers, Sequences

CONSTANTS Contents,     \* for each file the contents it may have
          Registered,   \* the configuration holds an identifier
          Faults        \* which faults may happen

EOF == -1
Files == {"solv", "yum"}
NoFile == <<EOF>>       \* no content: a byte is never negative
Unseen == <<EOF, EOF>>

Byte == 0..255

\* The contents of every file are not empty, and none is another one cut short.
ASSUME SyncAssumption ==
  /\ Contents \in [Files -> SUBSET (Seq(Byte) \ {<<>>})]
  /\ \A f \in Files : \A c, d \in Contents[f] : \A n \in 0..Len(d) :
       c = SubSeq(d, 1, n) => c = d
  /\ Registered \in BOOLEAN

Prefixes(c) == {SubSeq(c, 1, n) : n \in 0..Len(c)}
Cut(c) == Prefixes(c) \ {c}
Partial(f) == UNION {Prefixes(c) : c \in Contents[f]}

SyncPc == {"idle", "compare", "question", "open", "header", "content", "copy",
           "copying", "asked"}

VARIABLES orig,     \* what is at the path of each file
          backup,   \* what is in the client's backup of it
          stored,   \* what is in the server's directory
          pc,       \* where the run of the client is
          file,     \* the file it is about
          src,      \* the open file it sends or copies
          saw,      \* what this run compared or sent of each file
          seen,     \* what each file has been since it was last in step
          doubt     \* the files the client cannot judge by their backup

files == <<orig, backup, stored>>
run == <<pc, file, src, saw>>
ghosts == <<seen, doubt>>
vars == <<orig, backup, stored, pc, file, src, saw, seen, doubt>>

Init ==
  /\ orig \in [Files -> UNION {Contents[f] : f \in Files}]
  /\ \A f \in Files : orig[f] \in Contents[f]
  /\ backup = [f \in Files |-> NoFile]
  /\ stored = [f \in Files |-> NoFile]
  /\ pc = "idle"
  /\ file = "solv"
  /\ src = NoFile
  /\ saw = [f \in Files |-> Unseen]
  /\ seen = [f \in Files |-> {orig[f]}]
  /\ doubt = {}

-----------------------------------------------------------------------------
\* compare_files reads both files into a char each until one of them is EOF,
\* and a byte of value 255 is EOF as well.
Fgetc(c, k) == IF k > Len(c) \/ c[k] = 255 THEN EOF ELSE c[k]
Stops(c, d, k) ==
  Fgetc(c, k) = EOF \/ Fgetc(d, k) = EOF \/ Fgetc(c, k) # Fgetc(d, k)
CompareFilesMutant(c, d) ==
  \A k \in 1..(IF Len(c) < Len(d) THEN Len(c) ELSE Len(d)) : c[k] = d[k]
CompareFiles(c, d) ==
  LET last == CHOOSE k \in 1..(Len(c) + 1) :
                Stops(c, d, k) /\ \A j \in 1..(k - 1) : ~Stops(c, d, j)
  IN  Fgetc(c, last) = Fgetc(d, last)

\* FILE_ERROR if one of the two cannot be opened.
Same(f) ==
  /\ orig[f] # NoFile
  /\ backup[f] # NoFile
  /\ CompareFiles(orig[f], backup[f])

\* What a run does with a file first: without an identifier it sends it.
FirstStep == IF Registered THEN "compare" ELSE "open"

\* After one file comes the other, after that the request.
Advance ==
  IF file = "solv"
    THEN pc' = FirstStep /\ file' = "yum"
    ELSE pc' = "asked" /\ UNCHANGED file

EndRun == pc' = "idle"

Start ==
  /\ pc = "idle"
  /\ pc' = FirstStep
  /\ file' = "solv"
  /\ src' = NoFile
  /\ saw' = [f \in Files |-> Unseen]
  /\ UNCHANGED <<files, ghosts>>

CompareSame ==
  /\ pc = "compare"
  /\ Same(file)
  /\ saw' = [saw EXCEPT ![file] = orig[file]]
  /\ Advance
  /\ UNCHANGED <<files, src, ghosts>>

CompareDiffers ==
  /\ pc = "compare"
  /\ ~Same(file)
  /\ pc' = "question"
  /\ UNCHANGED <<files, file, src, saw, ghosts>>

Agree ==
  /\ pc = "question"
  /\ pc' = "open"
  /\ UNCHANGED <<files, file, src, saw, ghosts>>

DeclineMutant ==
  /\ pc = "question"
  /\ Advance
  /\ UNCHANGED <<files, src, saw, ghosts>>
Decline ==
  /\ pc = "question"
  /\ EndRun
  /\ UNCHANGED <<files, file, src, saw, ghosts>>

-----------------------------------------------------------------------------
\* ssds_send_file and the branch of the server that stores the file.
OpenFails ==
  /\ pc = "open"
  /\ orig[file] = NoFile
  /\ EndRun
  /\ UNCHANGED <<files, file, src, saw, ghosts>>

OpenMutant ==
  /\ pc = "open"
  /\ src' = orig[file]
  /\ pc' = "header"
  /\ UNCHANGED <<files, file, saw, ghosts>>
Open ==
  /\ pc = "open"
  /\ orig[file] # NoFile
  /\ src' = orig[file]
  /\ pc' = "header"
  /\ UNCHANGED <<files, file, saw, ghosts>>

\* fopen(..., "wb") on the server
Truncate ==
  /\ pc = "header"
  /\ stored' = [stored EXCEPT ![file] = <<>>]
  /\ pc' = "content"
  /\ UNCHANGED <<orig, backup, file, src, saw, ghosts>>

StoreByte ==
  /\ pc = "content"
  /\ stored[file] # src
  /\ stored' = [stored EXCEPT ![file] = SubSeq(src, 1, Len(@) + 1)]
  /\ UNCHANGED <<orig, backup, run, ghosts>>

\* The server cannot open or write the file: ANSWER_ERROR, or no answer.
RefusedMutant ==
  /\ "refuse" \in Faults
  /\ pc \in {"header", "content"}
  /\ saw' = [saw EXCEPT ![file] = src]
  /\ pc' = "copy"
  /\ UNCHANGED <<files, file, src, ghosts>>
Refused ==
  /\ "refuse" \in Faults
  /\ pc \in {"header", "content"}
  /\ EndRun
  /\ UNCHANGED <<files, file, src, saw, ghosts>>

Confirmed ==
  /\ pc = "content"
  /\ stored[file] = src
  /\ saw' = [saw EXCEPT ![file] = src]
  /\ pc' = "copy"
  /\ UNCHANGED <<files, file, src, ghosts>>

\* The server answers before it closes the file, and may fail to flush it.
LoseUnflushed ==
  /\ "flush" \in Faults
  /\ pc \in {"copy", "copying"}
  /\ \E rest \in Cut(saw[file]) : stored' = [stored EXCEPT ![file] = rest]
  /\ doubt' = doubt \cup {file}
  /\ UNCHANGED <<orig, backup, run, seen>>

-----------------------------------------------------------------------------
\* copy_file opens the file once more, and only warns when it fails.
CopyOpen ==
  /\ pc = "copy"
  /\ orig[file] # NoFile
  /\ src' = orig[file]
  /\ backup' = [backup EXCEPT ![file] = <<>>]
  /\ pc' = "copying"
  /\ UNCHANGED <<orig, stored, file, saw, ghosts>>

\* Both are opened before either is looked at: the backup is truncated.
CopyNoSource ==
  /\ pc = "copy"
  /\ orig[file] = NoFile
  /\ backup' = [backup EXCEPT ![file] = <<>>]
  /\ Advance
  /\ UNCHANGED <<orig, stored, src, saw, ghosts>>

CopyNoTarget ==
  /\ "backup" \in Faults
  /\ pc = "copy"
  /\ Advance
  /\ UNCHANGED <<files, src, saw, ghosts>>

CopyByte ==
  /\ pc = "copying"
  /\ backup[file] # src
  /\ backup' = [backup EXCEPT ![file] = SubSeq(src, 1, Len(@) + 1)]
  /\ UNCHANGED <<orig, stored, run, ghosts>>

\* fwrite's result is not looked at.
CopyShort ==
  /\ "backup" \in Faults
  /\ pc = "copying"
  /\ backup[file] # src
  /\ Advance
  /\ UNCHANGED <<files, src, saw, ghosts>>

\* Server and backup have the same: what came before no longer matters.
CopyDone ==
  /\ pc = "copying"
  /\ backup[file] = src
  /\ Advance
  /\ IF stored[file] = src
       THEN /\ doubt' = doubt \ {file}
            /\ seen' = [seen EXCEPT ![file] = {src, orig[file]}]
       ELSE UNCHANGED ghosts
  /\ UNCHANGED <<files, src, saw>>

\* The request is answered by what the server has now.
Answer ==
  /\ pc = "asked"
  /\ EndRun
  /\ UNCHANGED <<files, file, src, saw, ghosts>>

-----------------------------------------------------------------------------
\* A signal, a lost connection, a killed process: what the client has written
\* to the socket may still reach the server's file.
Killed ==
  /\ "kill" \in Faults
  /\ pc # "idle"
  /\ EndRun
  /\ IF pc \in {"header", "content"}
       THEN \E got \in Prefixes(src) \cup {stored[file]} :
              stored' = [stored EXCEPT ![file] = got]
       ELSE UNCHANGED stored
  /\ UNCHANGED <<orig, backup, file, src, saw, ghosts>>

\* The package manager or the user replaces or removes a file.  The backup says
\* nothing about a content the file has had before, nor about a file that was
\* replaced between being sent and being copied.
Sending == IF pc \in {"header", "content", "copy"} THEN {file} ELSE {}

Replace(f) ==
  \E c \in Contents[f] \cup {NoFile} :
    /\ c # orig[f]
    /\ orig' = [orig EXCEPT ![f] = c]
    /\ seen' = [seen EXCEPT ![f] = @ \cup {c}]
    /\ doubt' = IF c \in seen[f] \/ f \in Sending THEN doubt \cup {f} ELSE doubt
    /\ UNCHANGED <<backup, stored, run>>

\* The server keeps one copy for all its clients, and serves one at a time.  A
\* run that waits in its queue meanwhile reads and changes nothing of the
\* server's before its first byte is stored: the other client then comes first.
OtherClient(f) ==
  /\ "other" \in Faults
  /\ pc = "idle"
  /\ \E c \in Partial(f) : stored' = [stored EXCEPT ![f] = c]
  /\ doubt' = doubt \cup {f}
  /\ UNCHANGED <<orig, backup, run, seen>>

ClientStep ==
  \/ Start \/ CompareSame \/ CompareDiffers \/ Agree \/ Decline
  \/ OpenFails \/ Open
  \/ CopyOpen \/ CopyNoSource \/ CopyNoTarget \/ CopyByte \/ CopyShort \/ CopyDone
  \/ Killed

ServerStep ==
  \/ Truncate \/ StoreByte \/ Refused \/ Confirmed \/ LoseUnflushed \/ Answer
  \/ \E f \in Files : OtherClient(f)

Next == ClientStep \/ ServerStep \/ \E f \in Files : Replace(f)

Spec == Init /\ [][Next]_vars

-----------------------------------------------------------------------------
\* Every file is a content, a content cut short, or not there.
TypeOK ==
  /\ DOMAIN orig = Files /\ DOMAIN backup = Files /\ DOMAIN stored = Files
  /\ DOMAIN saw = Files /\ DOMAIN seen = Files
  /\ \A f \in Files : /\ orig[f] \in Contents[f] \cup {NoFile}
                      /\ backup[f] \in Partial(f) \cup {NoFile}
                      /\ stored[f] \in Partial(f) \cup {NoFile}
                      /\ saw[f] \in Contents[f] \cup {Unseen}
                      /\ seen[f] \subseteq Contents[f] \cup {NoFile}
  /\ pc \in SyncPc
  /\ file \in Files
  /\ src \in {NoFile} \cup Contents["solv"] \cup Contents["yum"]
  /\ doubt \subseteq Files

\* A backup that compares equal means that the server has the file as it is
\* (client_main.c:126, 143 send nothing then): after refusals, kills at any
\* point, failed or truncated backups, and replacements at any time.  The
\* exceptions are the files in doubt: a content that returned, a replacement
\* between sending and copying, a server that lost the file.
BackupIsTrusted ==
  Registered =>
    \A f \in Files \ doubt : Same(f) => stored[f] = orig[f]

\* When the request is solved, the server has each file as this run saw it,
\* whether it was sent or only compared (client_main.c:106-157).
RequestIsSynced ==
  pc = "asked" =>
    \A f \in Files : /\ saw[f] # Unseen
                     /\ f \notin doubt => stored[f] = saw[f]
=============================================================================
