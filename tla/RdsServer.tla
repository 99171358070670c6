----------------------------- MODULE RdsServer -----------------------------
(***************************************************************************)
(* rds-server: the accept loop of server_main.c and                        *)
(* ssds_server_accept_connection / ssds_server_process of server.c.  One   *)
(* process, one client at a time, and one @System.solv and one yum.conf    *)
(* for all of them.                                                        *)
(***************************************************************************)
EXTENDS RdsNet

CONSTANTS AnswerLens,  \* the lengths an answer may have
          PkgCounts    \* the numbers of packages an answer may list

ASSUME ServerAssumption ==
  /\ AnswerLens \subseteq Nat \ {0}
  /\ PkgCounts \subseteq Nat

VARIABLES spc,      \* where the server is
          cur,      \* the client it serves
          sbuf,     \* what sock_recv or sock_solv_recv has read so far
          root,     \* the message being processed, NoMsg when it has no code
          prev,     \* what an uninitialized SsdsJsonRead may still point to
          disk,     \* the stored files
          verdict   \* the code of the reply to a file

serverVars == <<spc, cur, sbuf, root, prev, disk, verdict>>

ServerPc == {"accept", "recv", "parse", "dispatch", "store", "reply", "fclose",
             "solve", "close", "down"}

ServerTypeOK ==
  /\ spc \in ServerPc
  /\ cur \in Clients \cup {NoClient}
  /\ sbuf \in Seq(Byte)
  /\ root \in Message
  /\ prev \in Message
  /\ disk \in [FileCodes -> Seq(Byte)]
  /\ verdict \in {"ANSWER_OK", "ANSWER_ERROR"}

ServerInit ==
  /\ spc = "accept"
  /\ cur = NoClient
  /\ sbuf = <<>>
  /\ root = NoMsg
  /\ prev = NoMsg
  /\ disk = [f \in FileCodes |-> <<>>]
  /\ verdict = "ANSWER_OK"

-----------------------------------------------------------------------------
\* An accept that fails takes no client, and the main loop calls it again: the
\* step of the server that changes nothing.
Accept ==
  /\ spc = "accept"
  /\ backlog # <<>>
  /\ cur' = Head(backlog)
  /\ backlog' = Tail(backlog)
  /\ spc' = "recv"
  /\ UNCHANGED <<inbox, sock, listening, sbuf, root, prev, disk, verdict>>

\* sock_recv reads on after a read that filled its buffer.
RecvMore ==
  /\ spc = "recv"
  /\ \E r \in Reads("server", cur) :
       /\ r.ret = MaxInput
       /\ Consume("server", cur, r)
       /\ sbuf' = sbuf \o r.data
  /\ UNCHANGED <<spc, cur, root, prev, disk, verdict>>

RecvLast ==
  /\ spc = "recv"
  /\ \E r \in Reads("server", cur) :
       /\ r.ret < MaxInput
       /\ r.ret = -1 => sbuf # <<>>
       /\ Consume("server", cur, r)
       /\ sbuf' = sbuf \o r.data
  /\ spc' = "parse"
  /\ UNCHANGED <<cur, root, prev, disk, verdict>>

\* sock_recv returns NULL: NETWORKING_ERROR ends the conversation.
RecvFails ==
  /\ spc = "recv"
  /\ sbuf = <<>>
  /\ \E r \in Reads("server", cur) : r.ret = -1
  /\ spc' = "close"
  /\ UNCHANGED <<netVars, cur, sbuf, root, prev, disk, verdict>>

\* Wrong: no text at all is handled like a syntax error.
ParseResultsMutant(buf) ==
  IF IsWhole(buf) THEN {<<Parsed(buf), Parsed(buf)>>}
                  ELSE {<<NoMsg, prev>>, <<prev, prev>>}

\* ssds_js_rd_parse.  On a syntax error it returns EXIT_FAILURE, which its
\* caller takes for success, and leaves the root node uninitialized: the
\* memory of the message processed before, or nothing the getters know.  (The
\* third outcome of that read, a crash, is Segfault.)  The end of the
\* connection reads as an empty text, which parses to no root.
ParseResults(buf) ==
  IF IsWhole(buf) THEN {<<Parsed(buf), Parsed(buf)>>}
  ELSE IF buf = <<>> THEN {<<NoMsg, NoMsg>>}
  ELSE {<<NoMsg, prev>>, <<prev, prev>>}

Parse ==
  /\ spc = "parse"
  /\ \E result \in ParseResults(sbuf) :
       /\ root' = result[1]
       /\ prev' = result[2]
  /\ sbuf' = <<>>
  /\ spc' = "dispatch"
  /\ UNCHANGED <<netVars, cur, disk, verdict>>

\* default: a message without a known code is dropped and the next one read.
Ignore ==
  /\ spc = "dispatch"
  /\ root.code \notin FileCodes \cup GetCodes
  /\ root' = NoMsg
  /\ spc' = "recv"
  /\ UNCHANGED <<netVars, cur, sbuf, prev, disk, verdict>>

-----------------------------------------------------------------------------
(***************************************************************************)
(* SEND_SOLV and SEND_YUM_CONF.  bytes_written is the length of the file   *)
(* since it was opened.                                                    *)
(***************************************************************************)
\* fopen(..., "wb") empties the file.  Wrong: opened for appending.
OpenedMutant(f) == disk[f]
Opened(f) == <<>>

OpenFile ==
  /\ spc = "dispatch"
  /\ root.code \in FileCodes
  /\ disk' = [disk EXCEPT ![root.code] = Opened(root.code)]
  /\ spc' = "store"
  /\ UNCHANGED <<netVars, cur, sbuf, root, prev, verdict>>

Reply(code) ==
  Write("server", cur,
        Bytes([code |-> code, by |-> root.by, len |-> SmallLen, data |-> 0]))

\* FILE_ERROR: the client is told and the conversation ends.
OpenFails ==
  /\ spc = "dispatch"
  /\ root.code \in FileCodes
  /\ "disk" \in Faults
  /\ Reply("ANSWER_ERROR")
  /\ spc' = "close"
  /\ UNCHANGED <<cur, sbuf, root, prev, disk, verdict>>

StoreMore ==
  /\ spc = "store"
  /\ \E r \in Reads("server", cur) :
       /\ r.ret = MaxInput
       /\ Consume("server", cur, r)
       /\ sbuf' = sbuf \o r.data
  /\ UNCHANGED <<spc, cur, root, prev, disk, verdict>>

\* What sock_solv_recv returns after its last read: one byte short when that
\* read failed.  Wrong: the last piece is copied in front.
ChunkMutant(r) == r.data \o sbuf
Chunk(r) ==
  IF r.ret = -1 THEN SubSeq(sbuf, 1, Len(sbuf) - 1) ELSE sbuf \o r.data

\* The length decides whether more is expected.  Wrong: every chunk is
\* confirmed; the length is off by one.
AfterChunkEarlyMutant(stored) == "reply"
AfterChunkLateMutant(stored) ==
  IF Len(stored) > root.data THEN "reply" ELSE "store"
AfterChunk(stored) == IF Len(stored) = root.data THEN "reply" ELSE "store"

\* fwrite stores a chunk.  After the end of the connection the loop never ends.
StoreChunk ==
  /\ spc = "store"
  /\ \E r \in Reads("server", cur) :
       LET stored == disk[root.code] \o Chunk(r)
       IN /\ r.ret < MaxInput
          /\ r.ret = -1 => sbuf # <<>>
          /\ Consume("server", cur, r)
          /\ disk' = [disk EXCEPT ![root.code] = stored]
          /\ spc' = AfterChunk(stored)
  /\ sbuf' = <<>>
  /\ verdict' = "ANSWER_OK"
  /\ UNCHANGED <<cur, root, prev>>

\* fwrite stores a part of the chunk only, whatever the read behind it gave.
StoreFails ==
  /\ spc = "store"
  /\ "disk" \in Faults
  /\ \E r \in Reads("server", cur) :
       /\ r.ret < MaxInput
       /\ r.ret = -1 => sbuf # <<>>
       /\ Consume("server", cur, r)
       /\ \E n \in 0..(Len(Chunk(r)) - 1) :
            disk' = [disk EXCEPT ![root.code] = @ \o SubSeq(Chunk(r), 1, n)]
  /\ sbuf' = <<>>
  /\ verdict' = "ANSWER_ERROR"
  /\ spc' = "reply"
  /\ UNCHANGED <<cur, root, prev>>

\* The first read of a chunk fails: fwrite is called with a freed buffer and
\* the length (size_t)-1.  It stores nothing, or what is left in memory, and
\* reports less than that length.  (Or it crashes: Segfault.)
StoreReadFails ==
  /\ spc = "store"
  /\ sbuf = <<>>
  /\ \E r \in Reads("server", cur) : r.ret = -1
  /\ \/ UNCHANGED disk
     \/ disk' = [disk EXCEPT ![root.code] = Append(@, Junk)]
  /\ verdict' = "ANSWER_ERROR"
  /\ spc' = "reply"
  /\ UNCHANGED <<netVars, cur, sbuf, root, prev>>

\* The reply is written before the file is closed; a failed transfer sets
\* client_end.
ReplyToFile ==
  /\ spc = "reply"
  /\ Reply(verdict)
  /\ spc' = "fclose"
  /\ UNCHANGED <<cur, sbuf, root, prev, disk, verdict>>

CloseFile ==
  /\ spc = "fclose"
  /\ spc' = IF verdict = "ANSWER_OK" THEN "recv" ELSE "close"
  /\ root' = NoMsg
  /\ UNCHANGED <<netVars, cur, sbuf, prev, disk, verdict>>

-----------------------------------------------------------------------------
\* GET_INSTALL, GET_UPDATE, GET_UPDATE_ALL and GET_ERASE: an acknowledgement,
\* then the answer of the solver, then client_end.
\* Wrong: the conversation ends with the acknowledgement.
AfterAckMutant == "close"
AfterAck == "solve"

Acknowledge ==
  /\ spc = "dispatch"
  /\ root.code \in GetCodes
  /\ Reply("ANSWER_OK")
  /\ spc' = AfterAck
  /\ UNCHANGED <<cur, sbuf, root, prev, disk, verdict>>

\* The answer sets client_end.  Wrong: it does not.
AfterAnswerMutant == "recv"
AfterAnswer == "close"

Solve ==
  /\ spc = "solve"
  /\ \E n \in AnswerLens, answer \in {<<"ANSWER_NO_DEP", 0>>}
                               \cup {<<"ANSWER_OK", k>> : k \in PkgCounts} :
       Write("server", cur, Bytes([code |-> answer[1], by |-> root.by,
                                   len |-> n, data |-> answer[2]]))
  /\ spc' = AfterAnswer
  /\ UNCHANGED <<cur, sbuf, root, prev, disk, verdict>>

\* Wrong: the socket stays open.
CloseClientMutant ==
  /\ spc = "close"
  /\ cur' = NoClient
  /\ root' = NoMsg
  /\ sbuf' = <<>>
  /\ spc' = "accept"
  /\ UNCHANGED <<netVars, prev, disk, verdict>>

\* acceptEnd: the next client is accepted.
CloseClient ==
  /\ spc = "close"
  /\ Close("server", cur)
  /\ cur' = NoClient
  /\ root' = NoMsg
  /\ sbuf' = <<>>
  /\ spc' = "accept"
  /\ UNCHANGED <<prev, disk, verdict>>

-----------------------------------------------------------------------------
\* The process ends.  Of an open file, what stdio still holds is lost unless
\* the process leaves through exit(3).
Dies(flushed) ==
  /\ ServerGone
  /\ spc' = "down"
  /\ cur' = NoClient
  /\ sbuf' = <<>>
  /\ root' = NoMsg
  /\ prev' = NoMsg
  /\ IF spc \in {"store", "reply", "fclose"} /\ ~flushed
       THEN \E n \in 0..Len(disk[root.code]) :
              disk' = [disk EXCEPT ![root.code] = SubSeq(@, 1, n)]
       ELSE UNCHANGED disk
  /\ UNCHANGED verdict

\* SIGTERM, SIGINT: ssds_signal_handler closes all and calls exit.
Signalled == spc # "down" /\ "signal" \in Faults /\ Dies(TRUE)

PowerLost == spc # "down" /\ "power" \in Faults /\ Dies(FALSE)

\* Use of the uninitialized root node, or of the freed buffer: SIGSEGV is
\* handled like SIGTERM.
Segfault ==
  /\ \/ spc = "parse" /\ sbuf # <<>> /\ ~IsWhole(sbuf)
     \/ /\ spc = "store" /\ sbuf = <<>>
        /\ \E r \in Reads("server", cur) : r.ret = -1
  /\ Dies(TRUE)

\* SIGPIPE is not handled and ends the process at once.
ServerSigpipe ==
  /\ \/ spc \in {"reply", "solve"}
     \/ spc = "dispatch" /\ root.code \in GetCodes
     \/ spc = "dispatch" /\ root.code \in FileCodes /\ "disk" \in Faults
  /\ sock["server"][cur] = "reset"
  /\ Dies(FALSE)

Restart ==
  /\ spc = "down"
  /\ "restart" \in Faults
  /\ listening' = TRUE
  /\ spc' = "accept"
  /\ UNCHANGED <<inbox, sock, backlog, cur, sbuf, root, prev, disk, verdict>>

ServerStep ==
  \/ Accept \/ RecvMore \/ RecvLast \/ RecvFails \/ Parse \/ Ignore
  \/ OpenFile \/ OpenFails \/ StoreMore \/ StoreChunk \/ StoreFails
  \/ StoreReadFails \/ ReplyToFile \/ CloseFile
  \/ Acknowledge \/ Solve \/ CloseClient
  \/ Segfault \/ ServerSigpipe

ServerFault == Signalled \/ PowerLost \/ Restart
=============================================================================
