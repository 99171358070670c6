------------------------------- MODULE Params -------------------------------
(***************************************************************************)
(* The command line of both programs: parse_params_cl and                  *)
(* parse_params_srv of params.c, called from the two main functions.  The  *)
(* arguments are whatever a user types, one per step, and getopt hands     *)
(* the options out before the operands.                                    *)
(***************************************************************************)
EXTENDS Integers, Sequences, FiniteSets

CONSTANTS MaxArgs  \* the bound on the arguments of one start

ASSUME ParamsAssumption == MaxArgs \in Nat

VARIABLES who,      \* the program that starts
          ppc,      \* where the parsing is, or how it ended
          given,    \* the arguments so far
          command,  \* params->command
          seen,     \* the commands counted
          pkgs      \* params->pkg_count

paramVars == <<who, ppc, given, command, seen, pkgs>>

Programs == {"client", "server"}

\* The long options that are commands.
Commands == {"install", "chkdep", "update", "erase"}

\* "operand" is a package name, "strange" a short option getopt does not know,
\* "unlisted" a long option that is not in the table.
Arguments == Commands \cup {"help", "level", "operand", "strange", "unlisted"}

ParamsInit ==
  /\ who \in Programs
  /\ ppc = "parsing"
  /\ given = <<>>
  /\ command = "none"
  /\ seen = 0
  /\ pkgs = 0

\* One more argument of the command line, taken by getopt or left to it.
Argument(a) ==
  /\ ppc = "parsing"
  /\ Len(given) < MaxArgs
  /\ given' = Append(given, a)
  /\ UNCHANGED <<who, pkgs>>

TakeCommand ==
  /\ who = "client"
  /\ \E c \in Commands :
       /\ Argument(c)
       /\ command' = c
  /\ seen' = seen + 1
  /\ UNCHANGED ppc

\* -v, -d, and the operands, which getopt moves behind the options.
TakeOther ==
  /\ \E a \in {"level", "operand"} : Argument(a)
  /\ UNCHANGED <<ppc, command, seen>>

\* --help or -h prints the usage and exits.
TakeHelp ==
  /\ Argument("help")
  /\ ppc' = "usage"
  /\ UNCHANGED <<command, seen>>

TakeStrange ==
  /\ Argument("strange")
  /\ ppc' = "PARAMS_ERROR"
  /\ UNCHANGED <<command, seen>>

\* The table of long options has no entry of zeros at its end: for a name that
\* is not in it getopt_long compares what follows the table in memory, which
\* may be zeros or may not be a string.  The server has no long options.
TakeUnlisted ==
  /\ Argument("unlisted")
  /\ \/ ppc' = "PARAMS_ERROR"
     \/ who = "client" /\ ppc' = "crashed"
  /\ UNCHANGED <<command, seen>>

\* Wrong: two commands are let through.
TooManyMutant == seen > 2

TooMany == seen > 1

\* main makes an update of everything of an update without packages.
WithoutPackages(c, n) == IF c = "update" /\ n = 0 THEN "update_all" ELSE c

\* The places of the arguments of these kinds.
Given(kinds) == {i \in DOMAIN given : given[i] \in kinds}

\* getopt has no more options; the operands are the packages.
EndOfArguments ==
  LET operands == Cardinality(Given({"operand"}))
      wrong == who = "client" /\ (TooMany \/ seen = 0)
  IN /\ ppc = "parsing"
     /\ ppc' = IF wrong THEN "PARAMS_ERROR" ELSE "parsed"
     /\ pkgs' = IF wrong THEN 0 ELSE operands
     /\ command' = IF wrong THEN command ELSE WithoutPackages(command, operands)
     /\ UNCHANGED <<who, given, seen>>

ParamsStep ==
  \/ TakeCommand \/ TakeOther \/ TakeHelp \/ TakeStrange \/ TakeUnlisted
  \/ EndOfArguments

ParamsTypeOK ==
  /\ who \in Programs
  /\ ppc \in {"parsing", "parsed", "usage", "PARAMS_ERROR", "crashed"}
  /\ given \in Seq(Arguments)
  /\ command \in Commands \cup {"none", "update_all"}
  /\ seen \in Nat
  /\ pkgs \in Nat
=============================================================================
