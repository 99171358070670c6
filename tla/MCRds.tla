------------------------------- MODULE MCRds -------------------------------
(***************************************************************************)
(* Small instances of Rds for TLC.                                         *)
(***************************************************************************)
EXTENDS Rds, TLC

CONSTANTS c1, c2

ClientSymmetry == Permutations(Clients)

Sized(solv, yum) ==
  [f \in FileCodes |-> IF f = "SEND_SOLV" THEN solv ELSE yum]

\* A first run sends both files, a run with nothing changed sends none.
JobFirst == [id |-> FALSE, files |-> FileCodes, size |-> Sized(4, 1),
             cmd |-> "GET_INSTALL", req |-> 1]
JobSolv  == [id |-> TRUE, files |-> {"SEND_SOLV"}, size |-> Sized(3, 1),
             cmd |-> "GET_UPDATE", req |-> 1]
JobNone  == [id |-> TRUE, files |-> {}, size |-> Sized(1, 1),
             cmd |-> "GET_ERASE", req |-> 1]
JobYum  == [id |-> TRUE, files |-> {"SEND_YUM_CONF"}, size |-> Sized(1, 1),
             cmd |-> "GET_ERASE", req |-> 1]
JobEven == [id |-> TRUE, files |-> {"SEND_SOLV"}, size |-> Sized(2, 1),
            cmd |-> "GET_INSTALL", req |-> 1]
JobCheck == [id |-> TRUE, files |-> {}, size |-> Sized(1, 1),
             cmd |-> "PAR_CHK_DEP", req |-> 1]

PromptFaults == FaultKinds \ {"power"}
PromptJobs == {JobFirst, JobSolv, JobNone, JobCheck}
ServedJobs == {JobFirst, JobSolv, JobNone}
EvenJobs == {JobEven}
LeavingJobs == {JobCheck, JobNone}
StreamJobs == {JobSolv, JobYum}
AllFaults == FaultKinds
=============================================================================
