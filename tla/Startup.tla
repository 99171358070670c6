------------------------------ MODULE Startup ------------------------------
(***************************************************************************)
(* Starting a program of the project again and again on one machine: the   *)
(* command line, then the configuration.  Between two starts the           *)
(* configuration may be written to (no program does that yet), and the     *)
(* repositories that are required may be looked for (only the tests do).   *)
(***************************************************************************)
EXTENDS Params, Config, MissingRepos

CONSTANTS Files,    \* the texts a user may have written
          Values,   \* the values that are written
          MaxText   \* the bound on the texts among them that are written to

ASSUME StartupAssumption == Files \subseteq Text /\ Values \subseteq Text

vars == <<paramVars, configVars, missingVars>>

StartupInit == ParamsInit /\ ConfigInit(Files \cup {Missing}) /\ MissingInit

\* read_srv_cfg looks for nothing but the port.
Known == IF who = "client" THEN Keywords ELSE {"port"}

\* No write and no search is under way.
Quiet == wpc = "idle" /\ mpc = "idle"

Parse == Quiet /\ ParamsStep /\ UNCHANGED <<configVars, missingVars>>

Fresh == given' = <<>> /\ command' = "none" /\ seen' = 0 /\ pkgs' = 0

\* main goes on to read_cfg.  What was asked for is the job of RdsClient.
HandOn ==
  /\ ppc = "parsed"
  /\ ppc' = "reading"
  /\ Fresh
  /\ UNCHANGED <<who, configVars, missingVars>>

Read == ppc = "reading" /\ ReadStep(Known) /\ UNCHANGED <<paramVars, missingVars>>

\* The program is over and another one is started.
Again ==
  /\ ppc \in {"usage", "PARAMS_ERROR", "crashed"} \/ rpc = "ready"
  /\ who' \in Programs
  /\ ppc' = "parsing"
  /\ Fresh
  /\ rpc' = "idle" /\ rtext' = <<>> /\ rpos' = 1 /\ fm' = "e"
  /\ got' = [f \in Fields |-> Default]
  /\ UNCHANGED <<conf, tmp, writeVars, missingVars>>

\* Another program writes.  What it does while a start parses or scans would
\* do as well before or after: only the open of the file sees the other.
Writes ==
  /\ given = <<>> /\ ppc \in {"parsing", "reading"} /\ rpc = "idle" /\ mpc = "idle"
  /\ \/ /\ conf \in Files \cup {Missing} /\ Len(conf) <= MaxText
        /\ \E k \in Keywords, v \in Values : OpenForWrite(k, v)
     \/ WriteStep
     \/ WriterKilled
  /\ UNCHANGED <<paramVars, missingVars>>

\* A user puts the temporary file where the rename should have put it.
PutBack ==
  /\ Quiet
  /\ conf = Missing /\ tmp # Missing
  /\ conf' = tmp /\ tmp' = Missing
  /\ UNCHANGED <<paramVars, readVars, writeVars, missingVars>>

\* A search reads neither of the files; bound: none is around.
Search ==
  /\ given = <<>> /\ ppc = "parsing" /\ wpc = "idle" /\ conf = Missing /\ tmp = Missing
  /\ MissingStep
  /\ UNCHANGED <<paramVars, configVars>>

Next == Parse \/ HandOn \/ Read \/ Again \/ Writes \/ PutBack \/ Search

\* A program that reads goes on reading.
Spec == StartupInit /\ [][Next]_vars /\ WF_vars(Read)

-----------------------------------------------------------------------------
(***************************************************************************)
(* What a text says, by its lines and without an automaton.                *)
(***************************************************************************)
LineStart(text, p) == p = 1 \/ (p > 1 /\ At(text, p - 1) = "NL")

\* The line at p begins with the keyword k.
Says(text, p, k) ==
  LineStart(text, p) /\ \A i \in 1..Len(Word[k]) : At(text, p + i - 1) = Word[k][i]

\* The value of that line, as read_cfg promises to hand it on.
ValueAt(text, p, k) ==
  Converted(FieldOf(k), ReadValue(text, p + Len(Word[k]), MaxOf(FieldOf(k))))

\* The last line that gives f, or 0.
LastOf(text, f, known) ==
  Max({0} \cup {p \in 1..Len(text) : \E k \in known : FieldOf(k) = f /\ Says(text, p, k)})

Said(text, f, known) ==
  LET p == LastOf(text, f, known)
  IN IF p = 0 THEN Default
     ELSE ValueAt(text, p, CHOOSE k \in known : FieldOf(k) = f /\ Says(text, p, k))

\* No line is empty, and none that begins like a keyword is shorter than it:
\* such a line takes the next one with it.
IsPlain(text, known) ==
  \A p \in 1..Len(text) : LineStart(text, p) =>
    /\ text[p] # "NL"
    /\ \A k \in known : text[p] = Word[k][1] =>
         Says(text, p, k) \/ LineEnd(text, p) - p >= Len(Word[k])

IsEnded(text) == text = <<>> \/ text[Len(text)] = "NL"

\* One line gives the field of k, it is k that gives it, and the value of it
\* does not begin like k itself.
IsSingle(text, k) ==
  /\ Cardinality({p \in 1..Len(text) :
                    \E l \in Keywords : FieldOf(l) = FieldOf(k) /\ Says(text, p, l)}) = 1
  /\ \A p \in 1..Len(text) : Says(text, p, k) => At(text, p + Len(Word[k])) # Word[k][1]

-----------------------------------------------------------------------------
\* Every variable stays in its type.
StartupTypeOK ==
  /\ who \in Programs
  /\ ppc \in {"parsing", "parsed", "reading", "usage", "PARAMS_ERROR", "crashed"}
  /\ given \in Seq(Arguments)
  /\ command \in Commands \cup {"none", "update_all"}
  /\ seen \in Nat /\ pkgs \in Nat
  /\ ConfigTypeOK
  /\ MissingTypeOK

\* A client that goes on was given one command and no second one, and does
\* that command; it updates everything exactly when it was told to update and
\* given no package (params.c:85, client_main.c:68).  The code and not the test:
\* tests/test_params.c:49, in a suite that is commented out, expects command to
\* be -1, which is none, after "--install emacs".
CommandIsMeant ==
  ppc = "parsed" /\ who = "client" =>
    \E i \in DOMAIN given :
      /\ Given(Commands) = {i}
      /\ command = IF given[i] = "update" /\ Given({"operand"}) = {}
                   THEN "update_all" ELSE given[i]

\* What read_cfg and read_srv_cfg hand on of a plain text is what its lines
\* say: of each field the last line that gives it, a port cut to the digits
\* that fit (cfg_parsing.c:35).
ReadsWhatIsSaid ==
  rpc = "ready" /\ rtext # Missing /\ IsPlain(rtext, Known) =>
    \A f \in Fields : got[f] = Said(rtext, f, Known)

\* Whatever the text is like, every value that was read stands, as a whole,
\* on a line that begins with a keyword for it: a value is never taken out of
\* a comment, an invalid line or another value (cfg_parsing.c:40).
OnlyWholeLines ==
  \A f \in Fields : got[f] \notin {Default, Garbage} =>
    \E p \in 1..Len(rtext), k \in Known :
      /\ FieldOf(k) = f
      /\ Says(rtext, p, k)
      /\ got[f] = ValueAt(rtext, p, k)

\* write_to_cfg removes the configuration before the new one has its place;
\* when it does, and every write got through, the temporary file says all that
\* the lines of the old text said, whatever these are like, with the new value
\* of the one field that was asked for (cfg_parsing.c:298).
NothingLost ==
  wpc = "rename" /\ ~cut /\ IsSingle(wtext, key) =>
    \A f \in Fields :
      Said(tmp, f, Keywords) = IF f = FieldOf(key)
                               THEN Converted(f, Cut(val, MaxOf(f)))
                               ELSE Said(wtext, f, Keywords)

\* When write_to_cfg returns 0 and the last line of the text was ended (else
\* the entry is no line of its own), the configuration says of the other fields what it said, whatever its lines are
\* like and however much of the entry got through, and of the field the value
\* that was given, when all of it did (cfg_parsing.c:313).
ZeroIsWritten ==
  wpc = "return 0" /\ IsEnded(wtext) =>
    \A f \in Fields :
      IF f = FieldOf(key)
      THEN cut \/ Said(conf, f, Keywords) = Converted(f, Cut(val, MaxOf(f)))
      ELSE Said(conf, f, Keywords) = Said(wtext, f, Keywords)

\* The real names of the list, by its lines.
Names ==
  {SubSeq(list, p, LineEnd(list, p) - 1) : p \in {q \in 1..Len(list) : LineStart(list, q)}}

\* None is counted as missing when all of them are there; the first name must
\* be long enough to be looked at, and the directory small enough to be read at
\* once (detect_missing_repos.c:74).  This is the 0 that
\* tests/test_missing_repos.c:53 expects, and not the header's "returns 1 if
\* everything is OK" (detect_missing_repos.h:35), which no path of the code
\* returns for it.
AllThereIsNone ==
  /\ mpc = "counted"
  /\ list # <<>> /\ Names \subseteq dir
  /\ LineEnd(list, 1) > NameMin
  /\ Cardinality(dir) <= DirMax
  => missing = 0

\* A configuration is read to its end, whatever its text is (cfg_parsing.c:108).
ReadEnds == rpc = "scan" ~> rpc = "ready"
=============================================================================
