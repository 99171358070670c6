----------------------------- MODULE RdsClient -----------------------------
(***************************************************************************)
(* One run of rds-client per member of Clients: client_main.c from the     *)
(* connection on, and the functions of client.c and network_util.c it      *)
(* calls up to the answer of the server.  What the answer sets off         *)
(* (download and rpm transaction) uses no connection and is the outcome    *)
(* "transaction" here.                                                     *)
(*                                                                         *)
(* What a run depends on is fixed when it starts and kept in job[c]: is an *)
(* identifier configured (id), which files differ from their backups       *)
(* (files), their sizes, the command, the length of the request.           *)
(*                                                                         *)
(* The definitions named ...Mutant, here and in the other modules, belong  *)
(* to no specification: each is a wrong variant of the definition that     *)
(* follows it, and shows what a property of the system would catch.        *)
(***************************************************************************)
EXTENDS RdsNet

CONSTANTS Jobs,      \* the jobs a run may have
          FileChunk  \* the most bytes of a file in one write (131072)

Commands == GetCodes \cup {"PAR_CHK_DEP"}

Job == [id : BOOLEAN, files : SUBSET FileCodes, size : [FileCodes -> Nat],
        cmd : Commands, req : Nat \ {0}]

\* Without an identifier both files are sent, whatever the backups hold.
ASSUME ClientAssumption ==
  /\ Jobs \subseteq Job
  /\ \A j \in Jobs : ~j.id => j.files = FileCodes
  /\ FileChunk \in Nat \ {0}

VARIABLES job,     \* what the run is about
          cpc,     \* where the run is
          try,     \* connection_try
          todo,    \* the files it still has to get acknowledged
          sent,    \* bytes of the current file already written
          cbuf,    \* what sock_recv has read so far
          backup,  \* the files copied to /var/cache/ssds by this run
          did,     \* what the run did for its user
          status   \* the exit status of the run

clientVars == <<job, cpc, try, todo, sent, cbuf, backup, did, status>>

Receiving == {"reply", "check", "answer"}
ClientPc  == {"connect", "sync", "content", "done"}
               \cup Receiving \cup {"replied", "checked", "answered"}
Did       == {"none", "nothing", "declined", "no dependencies", "error",
              "transaction"}
Status    == {"OK", "NETWORKING_ERROR", "FILE_ERROR", "REPO_ERROR",
              "ANSWER_OK", "ANSWER_ERROR", "ANSWER_NO_DEP", "-1", "signal"}

ClientTypeOK ==
  /\ job \in [Clients -> Jobs]
  /\ cpc \in [Clients -> ClientPc]
  /\ try \in [Clients -> 1..3]
  /\ todo \in [Clients -> SUBSET FileCodes]
  /\ sent \in [Clients -> Nat]
  /\ cbuf \in [Clients -> Seq(Byte)]
  /\ backup \in [Clients -> SUBSET FileCodes]
  /\ did \in [Clients -> Did]
  /\ status \in [Clients -> Status]

ClientInit ==
  /\ job \in [Clients -> Jobs]
  /\ cpc = [c \in Clients |-> "connect"]
  /\ try = [c \in Clients |-> 1]
  /\ todo = [c \in Clients |-> job[c].files]
  /\ sent = [c \in Clients |-> 0]
  /\ cbuf = [c \in Clients |-> <<>>]
  /\ backup = [c \in Clients |-> {}]
  /\ did = [c \in Clients |-> "none"]
  /\ status = [c \in Clients |-> "OK"]

-----------------------------------------------------------------------------
\* @System.solv goes first, then yum.conf.
CurFile(c) == IF "SEND_SOLV" \in todo[c] THEN "SEND_SOLV" ELSE "SEND_YUM_CONF"

Header(c) ==
  [code |-> CurFile(c), by |-> c, len |-> SmallLen,
   data |-> job[c].size[CurFile(c)]]
Content(c, f) ==
  [code |-> ContentCode[f], by |-> c, len |-> job[c].size[f], data |-> 0]
Request(c) == [code |-> job[c].cmd, by |-> c, len |-> job[c].req, data |-> 0]

GoTo(c, pc) == cpc' = [cpc EXCEPT ![c] = pc]

\* The label end: of main and ssds_gc_cleanup, which closes the socket.
Finish(c, what, st) ==
  /\ GoTo(c, "done")
  /\ did' = [did EXCEPT ![c] = what]
  /\ status' = [status EXCEPT ![c] = st]
  /\ cbuf' = [cbuf EXCEPT ![c] = <<>>]
  /\ Close("client", c)
  /\ UNCHANGED <<job, try, todo, sent, backup>>

AttemptsMutant == 4
Attempts == 3

\* client_connect succeeds.  The third attempt counts as failed even when it
\* succeeds: the run ends at once and closes the connection it has.
Connect(c) ==
  /\ cpc[c] = "connect"
  /\ listening
  /\ Len(backlog) < Backlog
  /\ backlog' = Append(backlog, c)
  /\ IF try[c] < Attempts
       THEN /\ GoTo(c, "sync")
            /\ sock' = [sock EXCEPT !["client"][c] = "open",
                                    !["server"][c] = "open"]
            /\ UNCHANGED status
       ELSE /\ GoTo(c, "done")
            /\ sock' = [sock EXCEPT !["client"][c] = "closed",
                                    !["server"][c] = "open"]
            /\ status' = [status EXCEPT ![c] = "NETWORKING_ERROR"]
  /\ UNCHANGED <<inbox, listening, job, try, todo, sent, cbuf, backup, did>>

\* connect(2) fails; after two failures one attempt is left.
ConnectFails(c) ==
  /\ cpc[c] = "connect"
  /\ ~listening \/ "connect" \in Faults
  /\ \/ /\ try[c] < Attempts
        /\ try' = [try EXCEPT ![c] = @ + 1]
        /\ UNCHANGED <<netVars, job, cpc, todo, sent, cbuf, backup, did, status>>
     \/ /\ try[c] = Attempts
        /\ Finish(c, "none", "NETWORKING_ERROR")

-----------------------------------------------------------------------------
\* No file is left to send.
SyncedMutant(c) == cpc[c] = "sync"
Synced(c) == cpc[c] = "sync" /\ todo[c] = {}

\* With an identifier, a changed file is sent only if the user agrees; the run
\* ends with status OK when he does not.
Declines(c) ==
  /\ cpc[c] = "sync"
  /\ todo[c] # {} /\ job[c].id
  /\ "decline" \in Faults
  /\ Finish(c, "declined", "OK")

\* ssds_send_file cannot open the file.
FileMissing(c) ==
  /\ cpc[c] = "sync"
  /\ todo[c] # {}
  /\ "file" \in Faults
  /\ Finish(c, "none", "FILE_ERROR")

\* ssds_send_file: the header announces the size of the file.
SendHeader(c) ==
  /\ cpc[c] = "sync"
  /\ todo[c] # {}
  /\ Write("client", c, Bytes(Header(c)))
  /\ sent' = [sent EXCEPT ![c] = 0]
  /\ GoTo(c, IF job[c].size[CurFile(c)] = 0 THEN "reply" ELSE "content")
  /\ UNCHANGED <<job, try, todo, cbuf, backup, did, status>>

\* One turn of the fread loop.  The header and the content are written without
\* waiting for the server in between.
SendContent(c) ==
  LET size == job[c].size[CurFile(c)]
      upto == IF sent[c] + FileChunk < size THEN sent[c] + FileChunk ELSE size
  IN /\ cpc[c] = "content"
     /\ Write("client", c,
              SubSeq(Bytes(Content(c, CurFile(c))), sent[c] + 1, upto))
     /\ sent' = [sent EXCEPT ![c] = upto]
     /\ GoTo(c, IF upto = size THEN "reply" ELSE "content")
     /\ UNCHANGED <<job, try, todo, cbuf, backup, did, status>>

\* Dependency checking is not implemented: the run just ends.
ChkDep(c) ==
  /\ Synced(c)
  /\ job[c].cmd = "PAR_CHK_DEP"
  /\ Finish(c, "none", "OK")

\* ssds_send_repo: no repository could be read on the client.
RepoError(c) ==
  /\ Synced(c)
  /\ job[c].cmd \in GetCodes
  /\ "repo" \in Faults
  /\ Finish(c, "none", "REPO_ERROR")

SendRepo(c) ==
  /\ Synced(c)
  /\ job[c].cmd \in GetCodes
  /\ Write("client", c, Bytes(Request(c)))
  /\ GoTo(c, "check")
  /\ UNCHANGED <<job, try, todo, sent, cbuf, backup, did, status>>

\* SIGPIPE is not handled: a write to a connection known to be reset ends the
\* run.
Sigpipe(c) ==
  /\ \/ cpc[c] = "content"
     \/ cpc[c] = "sync" /\ todo[c] # {}
     \/ Synced(c) /\ job[c].cmd \in GetCodes
  /\ sock["client"][c] = "reset"
  /\ Finish(c, "none", "signal")

-----------------------------------------------------------------------------
(***************************************************************************)
(* sock_recv, in its three uses: the reply to a file (ssds_send_file), the *)
(* acknowledgement of the request (ssds_check_repo) and the answer         *)
(* (ssds_answer_process).  It reads again only after a read that filled    *)
(* its buffer.                                                             *)
(***************************************************************************)
Received == [reply |-> "replied", check |-> "checked", answer |-> "answered"]

ReadMore(c) ==
  /\ cpc[c] \in Receiving
  /\ \E r \in Reads("client", c) :
       /\ r.ret = MaxInput
       /\ Consume("client", c, r)
       /\ cbuf' = [cbuf EXCEPT ![c] = @ \o r.data]
  /\ UNCHANGED <<job, cpc, try, todo, sent, backup, did, status>>

ReadLast(c) ==
  /\ cpc[c] \in Receiving
  /\ \E r \in Reads("client", c) :
       /\ r.ret < MaxInput
       /\ r.ret = -1 => cbuf[c] # <<>>
       /\ Consume("client", c, r)
       /\ cbuf' = [cbuf EXCEPT ![c] = @ \o r.data]
  /\ GoTo(c, Received[cpc[c]])
  /\ UNCHANGED <<job, try, todo, sent, backup, did, status>>

\* The first read fails and sock_recv returns NULL.  Only ssds_answer_process
\* looks: the other two hand it to the parser and use an uninitialized root
\* node, which crashes the run or yields no known code.
ReadFails(c) ==
  /\ cpc[c] \in Receiving
  /\ cbuf[c] = <<>>
  /\ \E r \in Reads("client", c) : r.ret = -1
  /\ \/ cpc[c] \in {"reply", "answer"} /\ Finish(c, "none", "NETWORKING_ERROR")
     \/ cpc[c] \in {"reply", "check"} /\ Finish(c, "none", "signal")
     \/ /\ cpc[c] = "check"
        /\ GoTo(c, "answer")
        /\ UNCHANGED <<netVars, job, try, todo, sent, cbuf, backup, did, status>>

\* A buffer the parser rejects leaves the root node uninitialized.
Garbage(c) == cbuf[c] # <<>> /\ ~IsWhole(cbuf[c])
CodeIn(c)  == IF IsWhole(cbuf[c]) THEN Parsed(cbuf[c]).code ELSE "none"

AcceptedMutant(c) == cpc[c] = "replied" /\ IsWhole(cbuf[c])
Accepted(c) == cpc[c] = "replied" /\ CodeIn(c) = "ANSWER_OK"

\* The server has the file, and main copies it to the backup, which may fail
\* with no more than a warning.
FileAccepted(c) ==
  /\ Accepted(c)
  /\ \/ backup' = [backup EXCEPT ![c] = @ \cup {CurFile(c)}]
     \/ "copy" \in Faults /\ UNCHANGED backup
  /\ todo' = [todo EXCEPT ![c] = @ \ {CurFile(c)}]
  /\ cbuf' = [cbuf EXCEPT ![c] = <<>>]
  /\ GoTo(c, "sync")
  /\ UNCHANGED <<netVars, job, try, sent, did, status>>

FileRefused(c) ==
  /\ cpc[c] = "replied"
  /\ ~Accepted(c)
  /\ Finish(c, "none", "NETWORKING_ERROR")

\* ssds_check_repo: whatever arrived, main goes on to the answer.
Checked(c) ==
  /\ cpc[c] = "checked"
  /\ cbuf' = [cbuf EXCEPT ![c] = <<>>]
  /\ GoTo(c, "answer")
  /\ UNCHANGED <<netVars, job, try, todo, sent, backup, did, status>>

ParserCrash(c) ==
  /\ cpc[c] \in {"replied", "checked", "answered"}
  /\ Garbage(c)
  /\ Finish(c, "none", "signal")

\* ssds_answer_process: an answer without packages, and no JSON at all, both
\* count no package in any of the four lists.
Answered(c) ==
  /\ cpc[c] = "answered"
  /\ LET code     == CodeIn(c)
         packages == IF IsWhole(cbuf[c]) THEN Parsed(cbuf[c]).data ELSE 0
     IN \/ code = "ANSWER_ERROR"  /\ Finish(c, "error", code)
        \/ code = "ANSWER_NO_DEP" /\ Finish(c, "no dependencies", code)
        \/ /\ code \notin {"ANSWER_ERROR", "ANSWER_NO_DEP"}
           /\ packages = 0
           /\ Finish(c, "nothing",
                     IF code = "ANSWER_OK" THEN "ANSWER_OK" ELSE "-1")
        \/ /\ code = "ANSWER_OK"
           /\ packages > 0
           /\ \/ Finish(c, "transaction", "OK")
              \/ "decline" \in Faults /\ Finish(c, "declined", "ANSWER_OK")

\* The user, or the system, kills the run.
Killed(c) ==
  /\ cpc[c] # "done"
  /\ "kill" \in Faults
  /\ Finish(c, "none", "signal")

ClientStep(c) ==
  \/ Connect(c) \/ ConnectFails(c)
  \/ Declines(c) \/ FileMissing(c) \/ SendHeader(c) \/ SendContent(c)
  \/ ChkDep(c) \/ RepoError(c) \/ SendRepo(c)
  \/ ReadMore(c) \/ ReadLast(c) \/ ReadFails(c)
  \/ FileAccepted(c) \/ FileRefused(c) \/ Checked(c) \/ Answered(c)
  \/ ParserCrash(c) \/ Sigpipe(c) \/ Killed(c)
=============================================================================
