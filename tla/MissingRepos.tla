---------------------------- MODULE MissingRepos ----------------------------
(***************************************************************************)
(* check_for_missing_repos of detect_missing_repos.c, which the tests      *)
(* call: the names in a list of required repositories against the names in *)
(* the directory of the repositories that are there.                       *)
(***************************************************************************)
EXTENDS CfgText, FiniteSets

CONSTANTS RepoLists,  \* the texts of required_repos_list.txt
          RepoDirs,   \* the sets of names in the directory
          DirMax,     \* how many of them the buffer of readdir holds
          NameMin     \* REPO_NAME_MIN_LENGTH

ASSUME MissingAssumption ==
  /\ RepoLists \subseteq Text /\ RepoDirs \subseteq SUBSET Text
  /\ NameMin \in Nat /\ DirMax \in Nat

VARIABLES mpc, list, mpos,
          dir,        \* the names in the directory
          required,   \* the names of the list as they were read
          local,      \* the names that local_repos points at
          i1, found, missing

missingVars == <<mpc, list, mpos, dir, required, local, i1, found, missing>>

MissingInit ==
  /\ mpc = "idle"
  /\ list = <<>> /\ mpos = 1
  /\ dir = {} /\ local = {}
  /\ required = <<>>
  /\ i1 = 1 /\ found = FALSE /\ missing = 0

\* fopen of the list.
OpenList ==
  /\ mpc = "idle"
  /\ list' \in RepoLists
  /\ mpc' = "names"
  /\ UNCHANGED <<mpos, dir, required, local, i1, found, missing>>

\* There is no list: the answer is -1, before anything is read.
NoList ==
  /\ mpc = "idle"
  /\ mpc' = "counted"
  /\ missing' = -1
  /\ UNCHANGED <<list, mpos, dir, required, local, i1, found>>

\* Where the next name is read.  A character is taken to see whether the file
\* has ended, and the fseek that should put it back has its arguments swapped.
NextName(text, pos) == AfterValue(text, pos) + 1

ReadName ==
  LET name == ReadValue(list, mpos, 0)
  IN /\ mpc = "names"
     /\ required' = IF Len(name) >= NameMin THEN Append(required, name) ELSE required
     /\ mpos' = NextName(list, mpos)
     /\ mpc' = IF At(list, AfterValue(list, mpos)) = "EOF" THEN "directory" ELSE "names"
     /\ UNCHANGED <<list, dir, local, i1, found, missing>>

\* readdir hands out its own buffer, and only pointers into it are kept: when
\* it is filled again they point at whatever is there then.
Pointed(names) == IF Cardinality(names) <= DirMax THEN {names} ELSE SUBSET UNION RepoDirs

OpenDir ==
  /\ mpc = "directory"
  /\ dir' \in RepoDirs
  /\ local' \in Pointed(dir')
  /\ mpc' = "search"
  /\ UNCHANGED <<list, mpos, required, i1, found, missing>>

\* A NULL of opendir goes to readdir.
OpenDirFails ==
  /\ mpc = "directory"
  /\ mpc' = "crashed"
  /\ UNCHANGED <<list, mpos, dir, required, local, i1, found, missing>>

\* Wrong: found starts anew for each name.
FoundMutant(name) == name \in local

\* The inner loop.  found is not reset between two names.
Found(name) == found \/ name \in local

SearchName ==
  /\ mpc = "search"
  /\ i1 <= Len(required)
  /\ found' = Found(required[i1])
  /\ missing' = IF found' THEN missing ELSE missing + 1
  /\ i1' = i1 + 1
  /\ UNCHANGED <<mpc, list, mpos, dir, required, local>>

SearchEnds ==
  /\ mpc = "search"
  /\ i1 > Len(required)
  /\ mpc' = "counted"
  /\ UNCHANGED <<list, mpos, dir, required, local, i1, found, missing>>

\* The caller has its answer, or is gone; everything was local to the call.
CheckReturns ==
  /\ mpc \in {"counted", "crashed"}
  /\ mpc' = "idle"
  /\ list' = <<>> /\ mpos' = 1
  /\ dir' = {} /\ local' = {}
  /\ required' = <<>>
  /\ i1' = 1 /\ found' = FALSE /\ missing' = 0

MissingStep ==
  \/ OpenList \/ NoList \/ ReadName \/ OpenDir \/ OpenDirFails
  \/ SearchName \/ SearchEnds \/ CheckReturns

MissingTypeOK ==
  /\ mpc \in {"idle", "names", "directory", "search", "counted", "crashed"}
  /\ list \in Text /\ dir \subseteq Text /\ local \subseteq Text
  /\ mpos \in Nat \ {0}
  /\ required \in Seq(Text)
  /\ i1 \in Nat \ {0} /\ found \in BOOLEAN /\ missing \in Nat \cup {-1}
=============================================================================
