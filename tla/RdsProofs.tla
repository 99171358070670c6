----------------------------- MODULE RdsProofs -----------------------------
(***************************************************************************)
(* Theorems about Rds, for every value of its constants.                   *)
(***************************************************************************)
EXTENDS Rds, TLAPS

-----------------------------------------------------------------------------
(***************************************************************************)
(* The network: what its operators leave of NetTypeOK.                     *)
(***************************************************************************)
\* Messages are made of bytes.
LEMMA BytesType ==
  ASSUME NEW m \in Message
  PROVE  Bytes(m) \in Seq(Byte)
<1>1. m.len \in Nat
  BY DEF Message
<1>2. Bytes(m) \in [1..m.len -> Byte]
  BY <1>1 DEF Bytes, Byte
<1>3. [1..m.len -> Byte] \subseteq Seq(Byte)
  BY <1>1
<1> QED
  BY <1>2, <1>3

\* A read returns a number and bytes of the inbox.
LEMMA ReadsType ==
  ASSUME NetTypeOK, NEW s \in Sides, NEW c \in Clients, NEW r \in Reads(s, c)
  PROVE  /\ r.ret \in Int
         /\ r.data \in Seq(Byte)
         /\ Len(r.data) <= Len(inbox[s][c])
         /\ r.data = SubSeq(inbox[s][c], 1, Len(r.data))
<1> DEFINE in == inbox[s][c]
<1>1. in \in Seq(Byte)
  BY DEF NetTypeOK
<1>2. CASE \E n \in ChunkLens(Len(in)) :
             r = [ret |-> n, data |-> SubSeq(in, 1, n)]
  <2>1. PICK n \in ChunkLens(Len(in)) :
               r = [ret |-> n, data |-> SubSeq(in, 1, n)]
    BY <1>2
  <2>2. n \in 1..Len(in)
    BY <1>1, NetAssumption DEF ChunkLens
  <2>3. /\ SubSeq(in, 1, n) \in Seq(Byte)
        /\ Len(SubSeq(in, 1, n)) = n
    BY <1>1, <2>2
  <2> QED
    BY <2>1, <2>2, <2>3
<1>3. CASE r \in {[ret |-> 0, data |-> <<>>], [ret |-> -1, data |-> <<>>]}
  <2>1. r.data = <<>> /\ r.ret \in Int
    BY <1>3
  <2>2. SubSeq(in, 1, 0) = <<>>
    BY <1>1
  <2> QED
    BY <1>1, <2>1, <2>2
<1> QED
  BY <1>2, <1>3 DEF Reads

\* Taking bytes out of an inbox leaves the network typed.
LEMMA ConsumeType ==
  ASSUME NetTypeOK, NEW s \in Sides, NEW c \in Clients, NEW r \in Reads(s, c),
         Consume(s, c, r)
  PROVE  NetTypeOK'
<1>1. /\ r.data \in Seq(Byte)
      /\ Len(r.data) <= Len(inbox[s][c])
      /\ inbox[s][c] \in Seq(Byte)
  BY ReadsType DEF NetTypeOK
<1>2. SubSeq(inbox[s][c], Len(r.data) + 1, Len(inbox[s][c])) \in Seq(Byte)
  BY <1>1
<1> QED
  BY <1>2 DEF NetTypeOK, Consume

\* So does a write of bytes into the peer's inbox, whether they arrive or not.
LEMMA WriteType ==
  ASSUME NetTypeOK, NEW s \in Sides, NEW c \in Clients,
         NEW bytes \in Seq(Byte), Write(s, c, bytes)
  PROVE  NetTypeOK'
<1>1. Other(s) \in Sides
  BY DEF Other, Sides
<1>2. inbox[Other(s)][c] \o bytes \in Seq(Byte)
  BY <1>1 DEF NetTypeOK
<1>3. CASE sock[s][c] = "open" /\ sock[Other(s)][c] = "open"
  <2>1. /\ inbox' = [inbox EXCEPT ![Other(s)][c] = @ \o bytes]
        /\ UNCHANGED <<sock, backlog, listening>>
    BY <1>3 DEF Write
  <2> QED
    BY <1>1, <1>2, <2>1 DEF NetTypeOK
<1>4. CASE ~(sock[s][c] = "open" /\ sock[Other(s)][c] = "open")
  <2>1. /\ sock' = [sock EXCEPT ![s][c] = "reset"]
        /\ UNCHANGED <<inbox, backlog, listening>>
    BY <1>4 DEF Write
  <2> QED
    BY <2>1 DEF NetTypeOK, SockState
<1> QED
  BY <1>3, <1>4

\* So does closing a connection.
LEMMA CloseType ==
  ASSUME NetTypeOK, NEW s \in Sides, NEW c \in Clients, Close(s, c)
  PROVE  NetTypeOK'
<1>1. Other(s) \in Sides
  BY DEF Other, Sides
<1>2. <<>> \in Seq(Byte)
  OBVIOUS
<1> QED
  BY <1>1, <1>2 DEF NetTypeOK, Close, SockState

\* So does the end of the server, which resets its connections.
LEMMA ServerGoneType ==
  ASSUME NetTypeOK, ServerGone
  PROVE  NetTypeOK'
<1>1. <<>> \in Seq(Byte) /\ <<>> \in Seq(Clients)
  OBVIOUS
<1> QED
  BY <1>1 DEF NetTypeOK, ServerGone, SockState, Sides

-----------------------------------------------------------------------------
(***************************************************************************)
(* The client.                                                             *)
(***************************************************************************)
\* The parts of what a client wants have the types that Job gives them.
LEMMA JobType ==
  ASSUME ClientTypeOK, NEW c \in Clients
  PROVE  /\ job[c].id \in BOOLEAN
         /\ job[c].files \in SUBSET FileCodes
         /\ job[c].size \in [FileCodes -> Nat]
         /\ job[c].cmd \in Commands
         /\ job[c].req \in Nat
<1>1. job[c] \in Job
  BY ClientAssumption DEF ClientTypeOK
<1> QED
  BY <1>1 DEF Job

\* The file a client is about is one of the two.
LEMMA CurFileType ==
  ASSUME NEW c \in Clients
  PROVE  CurFile(c) \in FileCodes
BY DEF CurFile, FileCodes

\* The messages of a client are messages.
LEMMA ClientMessages ==
  ASSUME ClientTypeOK, NEW c \in Clients
  PROVE  /\ Header(c) \in Message
         /\ \A f \in FileCodes : Content(c, f) \in Message
         /\ job[c].cmd \in GetCodes => Request(c) \in Message
<1>1. FileCodes \subseteq Codes /\ GetCodes \subseteq Codes
  BY DEF Codes, JsonCodes
<1>2. Header(c) \in Message
  BY <1>1, CurFileType, JobType, NetAssumption DEF Header, Message
<1>3. \A f \in FileCodes : ContentCode[f] \in Codes
  BY DEF ContentCode, Codes
<1>4. \A f \in FileCodes : Content(c, f) \in Message
  BY <1>3, JobType DEF Content, Message
<1>5. job[c].cmd \in GetCodes => Request(c) \in Message
  BY <1>1, JobType DEF Request, Message
<1> QED
  BY <1>2, <1>4, <1>5

\* Ending a run leaves the network and the client typed.
LEMMA FinishType ==
  ASSUME NetTypeOK, ClientTypeOK, NEW c \in Clients,
         NEW what \in Did, NEW st \in Status, Finish(c, what, st)
  PROVE  NetTypeOK' /\ ClientTypeOK'
<1>1. NetTypeOK'
  BY CloseType DEF Finish, Sides
<1>2. ClientTypeOK'
  BY DEF Finish, GoTo, ClientTypeOK, ClientPc
<1> QED
  BY <1>1, <1>2

\* Every step of a client keeps the network and the client typed.
LEMMA ClientStepType ==
  ASSUME NetTypeOK, ClientTypeOK, NEW c \in Clients, ClientStep(c)
  PROVE  NetTypeOK' /\ ClientTypeOK'
<1> USE DEF ClientTypeOK
<1>p. Receiving \subseteq ClientPc /\ "client" \in Sides /\ "server" \in Sides
  BY DEF Receiving, ClientPc, Sides
<1>1. CASE Connect(c)
  <2>1. backlog' \in Seq(Clients)
    BY <1>1 DEF Connect, NetTypeOK
  <2>2. sock' \in [Sides -> [Clients -> SockState]]
    <3>1. PICK x \in {"open", "closed"} :
                 sock' = [sock EXCEPT !["client"][c] = x,
                                      !["server"][c] = "open"]
      BY <1>1 DEF Connect
    <3> QED
      BY <1>p, <3>1 DEF NetTypeOK, SockState
  <2>3. cpc' \in [Clients -> ClientPc] /\ status' \in [Clients -> Status]
    BY <1>1 DEF Connect, GoTo, ClientPc, Status
  <2> QED
    BY <1>1, <2>1, <2>2, <2>3 DEF Connect, NetTypeOK
<1>2. CASE ConnectFails(c)
  <2>1. CASE Finish(c, "none", "NETWORKING_ERROR")
    BY <2>1, FinishType DEF Did, Status
  <2>2. CASE /\ try[c] < Attempts
             /\ try' = [try EXCEPT ![c] = @ + 1]
             /\ UNCHANGED <<netVars, job, cpc, todo, sent, cbuf, backup, did,
                           status>>
    <3>0. try[c] \in 1..3 /\ try[c] < 3
      BY <2>2 DEF Attempts
    <3>1. try[c] + 1 \in 1..3
      BY <3>0
    <3>2. try' \in [Clients -> 1..3]
      BY <2>2, <3>1
    <3> QED
      BY <2>2, <3>2 DEF netVars, NetTypeOK
  <2>3. \/ Finish(c, "none", "NETWORKING_ERROR")
        \/ /\ try[c] < Attempts
           /\ try' = [try EXCEPT ![c] = @ + 1]
           /\ UNCHANGED <<netVars, job, cpc, todo, sent, cbuf, backup, did,
                         status>>
    BY <1>2 DEF ConnectFails
  <2> QED
    BY <2>1, <2>2, <2>3
<1>3. CASE Declines(c) \/ FileMissing(c) \/ ChkDep(c) \/ RepoError(c)
           \/ Sigpipe(c) \/ FileRefused(c) \/ ParserCrash(c) \/ Killed(c)
  BY <1>3, FinishType DEF Declines, FileMissing, ChkDep, RepoError, Sigpipe,
     FileRefused, ParserCrash, Killed, Did, Status
<1>4. CASE SendHeader(c)
  <2>1. NetTypeOK'
    BY <1>4, <1>p, ClientMessages, BytesType, WriteType DEF SendHeader
  <2>2. ClientTypeOK'
    BY <1>4 DEF SendHeader, GoTo, ClientPc, Receiving
  <2> QED
    BY <2>1, <2>2
<1>5. CASE SendContent(c)
  <2> DEFINE size == job[c].size[CurFile(c)]
             upto == IF sent[c] + FileChunk < size
                       THEN sent[c] + FileChunk ELSE size
             all  == Bytes(Content(c, CurFile(c)))
  <2>1. /\ size \in Nat /\ upto \in Nat /\ sent[c] \in Nat
        /\ all \in Seq(Byte) /\ Len(all) = size
    <3>1. size \in Nat /\ sent[c] \in Nat
      BY CurFileType, JobType
    <3>2. all \in Seq(Byte)
      BY CurFileType, ClientMessages, BytesType
    <3>3. Len(all) = size
      BY <3>1 DEF Bytes, Content
    <3> QED
      BY <3>1, <3>2, <3>3, ClientAssumption
  <2>2. upto <= size
    BY <2>1, ClientAssumption
  <2>3. SubSeq(all, sent[c] + 1, upto) \in Seq(Byte)
    BY <2>1, <2>2
  <2>4. NetTypeOK'
    BY <1>5, <1>p, <2>3, WriteType DEF SendContent
  <2>5. ClientTypeOK'
    BY <1>5, <2>1 DEF SendContent, GoTo, ClientPc, Receiving
  <2> QED
    BY <2>4, <2>5
<1>6. CASE SendRepo(c)
  <2>1. NetTypeOK'
    BY <1>6, <1>p, ClientMessages, BytesType, WriteType DEF SendRepo
  <2>2. ClientTypeOK'
    BY <1>6 DEF SendRepo, GoTo, ClientPc, Receiving
  <2> QED
    BY <2>1, <2>2
<1>7. CASE ReadMore(c)
  <2>1. PICK r \in Reads("client", c) :
               /\ Consume("client", c, r)
               /\ cbuf' = [cbuf EXCEPT ![c] = @ \o r.data]
    BY <1>7 DEF ReadMore
  <2>2. r.data \in Seq(Byte) /\ NetTypeOK'
    BY <1>p, <2>1, ReadsType, ConsumeType
  <2>3. cbuf[c] \o r.data \in Seq(Byte)
    BY <2>2
  <2> QED
    BY <1>7, <2>1, <2>2, <2>3 DEF ReadMore
<1>8. CASE ReadLast(c)
  <2>1. PICK r \in Reads("client", c) :
               /\ Consume("client", c, r)
               /\ cbuf' = [cbuf EXCEPT ![c] = @ \o r.data]
    BY <1>8 DEF ReadLast
  <2>2. r.data \in Seq(Byte) /\ NetTypeOK'
    BY <1>p, <2>1, ReadsType, ConsumeType
  <2>3. cbuf[c] \o r.data \in Seq(Byte)
    BY <2>2
  <2>4. Received[cpc[c]] \in ClientPc
    BY <1>8 DEF ReadLast, Received, Receiving, ClientPc
  <2> QED
    BY <1>8, <2>1, <2>2, <2>3, <2>4 DEF ReadLast, GoTo
<1>9. CASE ReadFails(c)
  <2>1. CASE /\ GoTo(c, "answer")
             /\ UNCHANGED <<netVars, job, try, todo, sent, cbuf, backup, did,
                           status>>
    BY <2>1 DEF GoTo, ClientPc, Receiving, netVars, NetTypeOK
  <2>2. CASE \/ Finish(c, "none", "NETWORKING_ERROR")
             \/ Finish(c, "none", "signal")
    BY <2>2, FinishType DEF Did, Status
  <2> QED
    BY <1>9, <2>1, <2>2 DEF ReadFails
<1>10. CASE FileAccepted(c)
  <2>1. backup' \in [Clients -> SUBSET FileCodes]
    <3>1. backup[c] \cup {CurFile(c)} \in SUBSET FileCodes
      BY CurFileType
    <3> QED
      BY <1>10, <3>1 DEF FileAccepted
  <2>2. todo' \in [Clients -> SUBSET FileCodes]
    BY <1>10 DEF FileAccepted
  <2> QED
    BY <1>10, <2>1, <2>2
       DEF FileAccepted, GoTo, ClientPc, netVars, NetTypeOK
<1>11. CASE Checked(c)
  BY <1>11 DEF Checked, GoTo, ClientPc, Receiving, netVars, NetTypeOK
<1>12. CASE Answered(c)
  <2>1. PICK what \in Did, st \in Status : Finish(c, what, st)
    BY <1>12 DEF Answered, Did, Status
  <2> QED
    BY <2>1, FinishType
<1> QED
  BY <1>1, <1>2, <1>3, <1>4, <1>5, <1>6, <1>7, <1>8, <1>9, <1>10, <1>11, <1>12
     DEF ClientStep

-----------------------------------------------------------------------------
(***************************************************************************)
(* The server.                                                             *)
(***************************************************************************)
\* The message of a root node that holds none is a message, and junk is a byte.
LEMMA NoMsgType == NoMsg \in Message /\ Junk \in Byte
<1>1. NoMsg \in Message
  BY DEF NoMsg, Message, Codes
<1> QED
  BY <1>1 DEF Junk, Byte

\* Past the accept loop the server has a client, and reads and writes its socket.
HasClient ==
  /\ spc \notin {"accept", "down"} => cur \in Clients
  /\ spc \in {"store", "reply", "fclose"} => root.code \in FileCodes

\* The acknowledgement the server writes leaves the network typed.
LEMMA ReplyType ==
  ASSUME NetTypeOK, ServerTypeOK, cur \in Clients, NEW code \in AnswerCodes,
         Reply(code)
  PROVE  NetTypeOK'
<1> DEFINE m == [code |-> code, by |-> root.by, len |-> SmallLen, data |-> 0]
<1>1. root.by \in Clients \cup {NoClient}
  BY DEF ServerTypeOK, Message
<1>2. code \in Codes
  BY DEF Codes, JsonCodes
<1>3. m \in Message
  BY <1>1, <1>2, NetAssumption DEF Message
<1>4. Bytes(m) \in Seq(Byte)
  BY <1>3, BytesType
<1>5. Write("server", cur, Bytes(m))
  BY DEF Reply
<1> QED
  BY <1>4, <1>5, WriteType DEF Sides

\* A server that dies leaves typed files, flushed or cut.
LEMMA DiesType ==
  ASSUME NetTypeOK, ServerTypeOK, HasClient, NEW flushed \in BOOLEAN,
         Dies(flushed)
  PROVE  NetTypeOK' /\ ServerTypeOK' /\ HasClient'
<1>1. NetTypeOK'
  BY ServerGoneType DEF Dies
<1>2. disk' \in [FileCodes -> Seq(Byte)]
  <2>1. CASE spc \in {"store", "reply", "fclose"} /\ ~flushed
    <3>1. PICK n \in 0..Len(disk[root.code]) :
                 disk' = [disk EXCEPT ![root.code] = SubSeq(@, 1, n)]
      BY <2>1 DEF Dies
    <3>2. disk[root.code] \in Seq(Byte)
      BY <2>1 DEF HasClient, ServerTypeOK
    <3>3. SubSeq(disk[root.code], 1, n) \in Seq(Byte)
      BY <3>1, <3>2
    <3> QED
      BY <3>1, <3>3 DEF ServerTypeOK
  <2>2. CASE ~(spc \in {"store", "reply", "fclose"} /\ ~flushed)
    BY <2>2 DEF Dies, ServerTypeOK
  <2> QED
    BY <2>1, <2>2
<1>3. <<>> \in Seq(Byte)
  OBVIOUS
<1>4. ServerTypeOK'
  BY <1>2, <1>3, NoMsgType DEF Dies, ServerTypeOK, ServerPc
<1>5. HasClient'
  BY DEF Dies, HasClient
<1> QED
  BY <1>1, <1>4, <1>5

\* Every step of the server keeps the network and the server typed.
LEMMA ServerStepType ==
  ASSUME NetTypeOK, ServerTypeOK, HasClient, ServerStep \/ ServerFault
  PROVE  NetTypeOK' /\ ServerTypeOK' /\ HasClient'
<1> USE DEF ServerTypeOK
<1>p. "server" \in Sides /\ <<>> \in Seq(Byte)
  BY DEF Sides
<1>1. CASE Accept
  <2>1. Head(backlog) \in Clients /\ Tail(backlog) \in Seq(Clients)
    BY <1>1 DEF Accept, NetTypeOK
  <2> QED
    BY <1>1, <2>1 DEF Accept, NetTypeOK, ServerPc, HasClient
<1>2. CASE RecvMore
  <2>1. cur \in Clients
    BY <1>2 DEF RecvMore, HasClient
  <2>2. PICK r \in Reads("server", cur) :
               Consume("server", cur, r) /\ sbuf' = sbuf \o r.data
    BY <1>2 DEF RecvMore
  <2>3. r.data \in Seq(Byte) /\ NetTypeOK'
    BY <1>p, <2>1, <2>2, ReadsType, ConsumeType
  <2>4. sbuf' \in Seq(Byte)
    BY <2>2, <2>3
  <2> QED
    BY <1>2, <2>1, <2>3, <2>4 DEF RecvMore, HasClient
<1>3. CASE RecvLast
  <2>1. cur \in Clients
    BY <1>3 DEF RecvLast, HasClient
  <2>2. PICK r \in Reads("server", cur) :
               Consume("server", cur, r) /\ sbuf' = sbuf \o r.data
    BY <1>3 DEF RecvLast
  <2>3. r.data \in Seq(Byte) /\ NetTypeOK'
    BY <1>p, <2>1, <2>2, ReadsType, ConsumeType
  <2>4. sbuf' \in Seq(Byte)
    BY <2>2, <2>3
  <2> QED
    BY <1>3, <2>1, <2>3, <2>4 DEF RecvLast, HasClient, ServerPc
<1>4. CASE RecvFails
  BY <1>4 DEF RecvFails, HasClient, ServerPc, netVars, NetTypeOK
<1>5. CASE Parse
  <2>1. PICK result \in ParseResults(sbuf) :
               root' = result[1] /\ prev' = result[2]
    BY <1>5 DEF Parse
  <2>2. IsWhole(sbuf) => Parsed(sbuf) \in Message
    <3>1. SUFFICES ASSUME IsWhole(sbuf) PROVE Parsed(sbuf) \in Message
      OBVIOUS
    <3>2. sbuf # <<>> /\ sbuf \in Seq(Byte)
      BY <3>1 DEF IsWhole
    <3>3. sbuf[Len(sbuf)] \in Byte
      BY <3>2
    <3> QED
      BY <3>3 DEF Parsed, Byte
  <2>3. root' \in Message /\ prev' \in Message
    BY <2>1, <2>2, NoMsgType DEF ParseResults
  <2> QED
    BY <1>5, <1>p, <2>3 DEF Parse, HasClient, ServerPc, netVars, NetTypeOK
<1>6. CASE Ignore
  BY <1>6, NoMsgType DEF Ignore, HasClient, ServerPc, netVars, NetTypeOK
<1>7. CASE OpenFile
  <2>1. disk' \in [FileCodes -> Seq(Byte)]
    BY <1>7, <1>p DEF OpenFile, Opened
  <2> QED
    BY <1>7, <2>1 DEF OpenFile, HasClient, ServerPc, netVars, NetTypeOK
<1>8. CASE OpenFails
  BY <1>8, ReplyType DEF OpenFails, HasClient, ServerPc, AnswerCodes
<1>9. CASE StoreMore
  <2>1. cur \in Clients
    BY <1>9 DEF StoreMore, HasClient
  <2>2. PICK r \in Reads("server", cur) :
               Consume("server", cur, r) /\ sbuf' = sbuf \o r.data
    BY <1>9 DEF StoreMore
  <2>3. r.data \in Seq(Byte) /\ NetTypeOK'
    BY <1>p, <2>1, <2>2, ReadsType, ConsumeType
  <2>4. sbuf' \in Seq(Byte)
    BY <2>2, <2>3
  <2> QED
    BY <1>9, <2>1, <2>3, <2>4 DEF StoreMore, HasClient
<1>10. CASE StoreChunk
  <2>1. cur \in Clients /\ root.code \in FileCodes
    BY <1>10 DEF StoreChunk, HasClient
  <2>2. PICK r \in Reads("server", cur) :
               LET stored == disk[root.code] \o Chunk(r)
               IN /\ r.ret = -1 => sbuf # <<>>
                  /\ Consume("server", cur, r)
                  /\ disk' = [disk EXCEPT ![root.code] = stored]
                  /\ spc' = AfterChunk(stored)
    BY <1>10 DEF StoreChunk
  <2>3. r.data \in Seq(Byte) /\ NetTypeOK'
    BY <1>p, <2>1, <2>2, ReadsType, ConsumeType
  <2>4. Chunk(r) \in Seq(Byte)
    BY <2>2, <2>3 DEF Chunk
  <2>5. disk[root.code] \o Chunk(r) \in Seq(Byte)
    BY <2>1, <2>4
  <2>6. disk' \in [FileCodes -> Seq(Byte)]
    BY <2>2, <2>5
  <2>7. spc' \in {"reply", "store"}
    BY <2>2 DEF AfterChunk
  <2> QED
    BY <1>10, <1>p, <2>1, <2>3, <2>6, <2>7 DEF StoreChunk, HasClient, ServerPc
<1>11. CASE StoreFails
  <2>1. cur \in Clients /\ root.code \in FileCodes
    BY <1>11 DEF StoreFails, HasClient
  <2>2. PICK r \in Reads("server", cur) :
               /\ r.ret = -1 => sbuf # <<>>
               /\ Consume("server", cur, r)
               /\ \E n \in 0..(Len(Chunk(r)) - 1) :
                    disk' = [disk EXCEPT ![root.code] = @ \o SubSeq(Chunk(r), 1, n)]
    BY <1>11 DEF StoreFails
  <2>3. r.data \in Seq(Byte) /\ NetTypeOK'
    BY <1>p, <2>1, <2>2, ReadsType, ConsumeType
  <2>4. PICK n \in 0..(Len(Chunk(r)) - 1) :
               disk' = [disk EXCEPT ![root.code] = @ \o SubSeq(Chunk(r), 1, n)]
    BY <2>2
  <2>5. Chunk(r) \in Seq(Byte)
    BY <2>2, <2>3 DEF Chunk
  <2>6. SubSeq(Chunk(r), 1, n) \in Seq(Byte)
    BY <2>4, <2>5
  <2>7. disk[root.code] \o SubSeq(Chunk(r), 1, n) \in Seq(Byte)
    BY <2>1, <2>6
  <2>8. disk' \in [FileCodes -> Seq(Byte)]
    BY <2>4, <2>7
  <2> QED
    BY <1>11, <1>p, <2>1, <2>3, <2>8 DEF StoreFails, HasClient, ServerPc
<1>12. CASE StoreReadFails
  <2>1. root.code \in FileCodes
    BY <1>12 DEF StoreReadFails, HasClient
  <2>2. Append(disk[root.code], Junk) \in Seq(Byte)
    BY <2>1, NoMsgType
  <2>3. disk' \in [FileCodes -> Seq(Byte)]
    BY <1>12, <2>2 DEF StoreReadFails
  <2> QED
    BY <1>12, <2>3 DEF StoreReadFails, HasClient, ServerPc, netVars, NetTypeOK
<1>13. CASE ReplyToFile
  <2>1. verdict \in AnswerCodes /\ cur \in Clients
    BY <1>13 DEF AnswerCodes, ReplyToFile, HasClient
  <2> QED
    BY <1>13, <2>1, ReplyType DEF ReplyToFile, HasClient, ServerPc
<1>14. CASE CloseFile
  BY <1>14, NoMsgType DEF CloseFile, HasClient, ServerPc, netVars, NetTypeOK
<1>15. CASE Acknowledge
  BY <1>15, ReplyType
     DEF Acknowledge, AfterAck, HasClient, ServerPc, AnswerCodes
<1>16. CASE Solve
  <2>1. cur \in Clients
    BY <1>16 DEF Solve, HasClient
  <2>2. PICK n \in AnswerLens,
             answer \in {<<"ANSWER_NO_DEP", 0>>}
                          \cup {<<"ANSWER_OK", k>> : k \in PkgCounts} :
               Write("server", cur,
                     Bytes([code |-> answer[1], by |-> root.by,
                            len |-> n, data |-> answer[2]]))
    BY <1>16 DEF Solve
  <2>3. answer[1] \in Codes /\ answer[2] \in Nat /\ n \in Nat
    <3>1. n \in Nat
      BY ServerAssumption
    <3>2. CASE answer = <<"ANSWER_NO_DEP", 0>>
      BY <3>1, <3>2 DEF Codes, JsonCodes, AnswerCodes
    <3>3. CASE \E k \in PkgCounts : answer = <<"ANSWER_OK", k>>
      BY <3>1, <3>3, ServerAssumption DEF Codes, JsonCodes, AnswerCodes
    <3> QED
      BY <3>2, <3>3
  <2>4. [code |-> answer[1], by |-> root.by, len |-> n, data |-> answer[2]]
          \in Message
    BY <2>3 DEF Message
  <2>5. NetTypeOK'
    BY <1>p, <2>1, <2>2, <2>4, BytesType, WriteType
  <2> QED
    BY <1>16, <2>1, <2>5 DEF Solve, AfterAnswer, HasClient, ServerPc
<1>17. CASE CloseClient
  <2>1. cur \in Clients
    BY <1>17 DEF CloseClient, HasClient
  <2>2. NetTypeOK'
    BY <1>17, <1>p, <2>1, CloseType DEF CloseClient
  <2> QED
    BY <1>17, <1>p, <2>2, NoMsgType DEF CloseClient, HasClient, ServerPc
<1>18. CASE Segfault \/ ServerSigpipe \/ Signalled \/ PowerLost
  <2>1. PICK flushed \in BOOLEAN : Dies(flushed)
    BY <1>18 DEF Segfault, ServerSigpipe, Signalled, PowerLost
  <2> QED
    BY <2>1, DiesType
<1>19. CASE Restart
  BY <1>19 DEF Restart, HasClient, ServerPc, NetTypeOK
<1> QED
  BY <1>1, <1>2, <1>3, <1>4, <1>5, <1>6, <1>7, <1>8, <1>9, <1>10, <1>11, <1>12,
     <1>13, <1>14, <1>15, <1>16, <1>17, <1>18, <1>19 DEF ServerStep, ServerFault

-----------------------------------------------------------------------------
(***************************************************************************)
(* Type correctness.                                                       *)
(***************************************************************************)
TypeInv == TypeOK /\ HasClient

\* At the start everything is typed and the server has no client.
LEMMA TypeInit == Init => TypeInv
<1> SUFFICES ASSUME Init PROVE TypeInv
  OBVIOUS
<1>1. <<>> \in Seq(Byte) /\ <<>> \in Seq(Clients)
  OBVIOUS
<1>2. NetTypeOK
  BY <1>1 DEF Init, NetInit, NetTypeOK, SockState
<1>3. ClientTypeOK
  <2>1. \A c \in Clients : job[c].files \in SUBSET FileCodes
    BY ClientAssumption DEF Init, ClientInit, Job
  <2> QED
    BY <1>1, <2>1 DEF Init, ClientInit, ClientTypeOK, ClientPc, Did, Status
<1>4. ServerTypeOK /\ HasClient
  BY <1>1, NoMsgType DEF Init, ServerInit, ServerTypeOK, HasClient, ServerPc
<1> QED
  BY <1>2, <1>3, <1>4 DEF TypeInv, TypeOK

\* Every step of every process keeps TypeInv.
LEMMA TypeStep == TypeInv /\ [Next]_vars => TypeInv'
<1> SUFFICES ASSUME TypeInv, [Next]_vars PROVE TypeInv'
  OBVIOUS
<1> USE DEF TypeInv, TypeOK
<1>1. CASE \E c \in Clients : ClientStep(c) /\ UNCHANGED serverVars
  <2>1. NetTypeOK' /\ ClientTypeOK'
    BY <1>1, ClientStepType
  <2> QED
    BY <1>1, <2>1 DEF serverVars, ServerTypeOK, HasClient
<1>2. CASE (ServerStep \/ ServerFault) /\ UNCHANGED clientVars
  <2>1. NetTypeOK' /\ ServerTypeOK' /\ HasClient'
    BY <1>2, ServerStepType
  <2> QED
    BY <1>2, <2>1 DEF clientVars, ClientTypeOK
<1>3. CASE UNCHANGED vars
  BY <1>3 DEF vars, netVars, clientVars, serverVars, NetTypeOK, ClientTypeOK,
     ServerTypeOK, HasClient
<1> QED
  BY <1>1, <1>2, <1>3 DEF Next

\* TypeInv always holds.
LEMMA TypeInvariant == Spec => []TypeInv
BY TypeInit, TypeStep, PTL DEF Spec

\* Every variable of the two programs and of the network keeps its type.
THEOREM TypeCorrect == Spec => []TypeOK
BY TypeInvariant, PTL DEF TypeInv

-----------------------------------------------------------------------------
(***************************************************************************)
(* The sockets of the server.  What a step does to the server's end of a   *)
(* connection: a write or a close by the client leaves it held.            *)
(***************************************************************************)
\* Every step of a client keeps the account of the server's connections.
LEMMA ClientKeepsSockets ==
  ASSUME TypeInv, SocketInv, NEW c \in Clients, ClientStep(c),
         UNCHANGED serverVars
  PROVE  SocketInv'
<1> DEFINE Held == {d \in Clients : sock["server"][d] \in Live}
<1>1. /\ sock \in [Sides -> [Clients -> SockState]]
      /\ backlog \in Seq(Clients)
      /\ cpc \in [Clients -> ClientPc]
  BY DEF TypeInv, TypeOK, NetTypeOK, ClientTypeOK
<1>2. ASSUME Held' = Held, UNCHANGED <<backlog, listening>>,
             \A d \in Clients : cpc'[d] = "connect" =>
                cpc[d] = "connect" /\ sock'["server"][d] = sock["server"][d]
      PROVE  SocketInv'
  BY <1>2 DEF SocketInv, NoSocketLeak, Queued, serverVars
<1>3. ASSUME NEW what, NEW st, Finish(c, what, st) PROVE SocketInv'
  <2>1. /\ cpc' = [cpc EXCEPT ![c] = "done"]
        /\ UNCHANGED <<backlog, listening>>
        /\ Close("client", c)
    BY <1>3 DEF Finish, GoTo, Close
  <2>2. \A d \in Clients \ {c} : sock'["server"][d] = sock["server"][d]
    BY <1>1, <2>1 DEF Close, Other, Sides
  <2>3. sock'["server"][c] \in Live <=> sock["server"][c] \in Live
    BY <1>1, <2>1 DEF Close, Other, Sides, Live
  <2> QED
    BY <1>1, <1>2, <2>1, <2>2, <2>3
<1>4. ASSUME NEW bytes, Write("client", c, bytes), NEW pc \in ClientPc,
             GoTo(c, pc), pc # "connect"
      PROVE  SocketInv'
  <2>1. /\ UNCHANGED <<backlog, listening>>
        /\ sock'["server"] = sock["server"]
    BY <1>1, <1>4 DEF Write, Sides
  <2> QED
    BY <1>1, <1>2, <1>4, <2>1 DEF GoTo
<1>5. ASSUME UNCHANGED <<sock, backlog, listening>>,
             \A d \in Clients : cpc'[d] = "connect" => cpc[d] = "connect"
      PROVE  SocketInv'
  BY <1>2, <1>5
<1>6. CASE Connect(c)
  <2>1. /\ cpc[c] = "connect" /\ listening
        /\ backlog' = Append(backlog, c)
        /\ UNCHANGED listening
    BY <1>6 DEF Connect
  <2>2. PICK pc \in {"sync", "done"}, x \in {"open", "closed"} :
               /\ cpc' = [cpc EXCEPT ![c] = pc]
               /\ sock' = [sock EXCEPT !["client"][c] = x,
                                      !["server"][c] = "open"]
    BY <1>6 DEF Connect, GoTo
  <2>3. sock["server"][c] = "none"
    BY <2>1 DEF SocketInv
  <2>4. c \notin Queued /\ c # cur
    BY <2>3, NetAssumption DEF SocketInv, NoSocketLeak, Live
  <2>5. Queued' = Queued \cup {c}
    BY <1>1, <2>1 DEF Queued
  <2>6. Held' = Held \cup {c}
    BY <1>1, <2>2 DEF Live, Sides
  <2>7. NoSocketLeak'
    BY <2>4, <2>5, <2>6 DEF SocketInv, NoSocketLeak, serverVars
  <2>8. cur' \notin Queued'
    BY <2>4, <2>5 DEF SocketInv, serverVars
  <2>9. \A j, k \in DOMAIN backlog' : backlog'[j] = backlog'[k] => j = k
    <3>1. \A j, k \in DOMAIN backlog : backlog[j] = backlog[k] => j = k
      BY DEF SocketInv
    <3>2. \A k \in DOMAIN backlog : backlog[k] # c
      BY <2>4 DEF Queued
    <3> QED
      BY <1>1, <2>1, <3>1, <3>2
  <2>10. \A d \in Clients : cpc'[d] = "connect" => sock'["server"][d] = "none"
    BY <1>1, <2>2 DEF SocketInv, Sides
  <2> QED
    BY <2>1, <2>7, <2>8, <2>9, <2>10 DEF SocketInv, serverVars
<1>7. CASE ConnectFails(c)
  <2>1. CASE Finish(c, "none", "NETWORKING_ERROR")
    BY <1>3, <2>1
  <2>2. CASE UNCHANGED <<netVars, cpc>>
    BY <1>5, <2>2 DEF netVars
  <2> QED
    BY <1>7, <2>1, <2>2 DEF ConnectFails
<1>8. CASE SendHeader(c) \/ SendContent(c) \/ SendRepo(c)
  BY <1>4, <1>8
     DEF SendHeader, SendContent, SendRepo, ClientPc, Receiving
<1>9. CASE ReadMore(c) \/ ReadLast(c) \/ FileAccepted(c) \/ Checked(c)
  <2>1. /\ UNCHANGED <<sock, backlog, listening>>
        /\ \/ UNCHANGED cpc
           \/ cpc[c] \in Receiving /\ GoTo(c, Received[cpc[c]])
           \/ GoTo(c, "sync") \/ GoTo(c, "answer")
    BY <1>9 DEF ReadMore, ReadLast, FileAccepted, Checked, Consume, netVars
  <2>2. \A pc \in Receiving : Received[pc] # "connect"
    BY DEF Receiving, Received
  <2>3. \A d \in Clients : cpc'[d] = "connect" => cpc[d] = "connect"
    BY <1>1, <2>1, <2>2 DEF GoTo
  <2> QED
    BY <1>5, <2>1, <2>3
<1>10. CASE ReadFails(c)
  <2>1. CASE GoTo(c, "answer") /\ UNCHANGED netVars
    BY <1>1, <1>5, <2>1 DEF GoTo, netVars
  <2> QED
    BY <1>3, <1>10, <2>1 DEF ReadFails
<1>11. CASE Declines(c) \/ FileMissing(c) \/ ChkDep(c) \/ RepoError(c)
            \/ Sigpipe(c) \/ FileRefused(c) \/ ParserCrash(c) \/ Killed(c)
            \/ Answered(c)
  BY <1>3, <1>11 DEF Declines, FileMissing, ChkDep, RepoError, Sigpipe,
     FileRefused, ParserCrash, Killed, Answered
<1> QED
  BY <1>6, <1>7, <1>8, <1>9, <1>10, <1>11 DEF ClientStep

\* The end of the server closes every connection that it holds.
LEMMA DiesKeepsSockets ==
  ASSUME TypeInv, SocketInv, NEW flushed, Dies(flushed), UNCHANGED clientVars
  PROVE  SocketInv'
<1>1. sock \in [Sides -> [Clients -> SockState]]
  BY DEF TypeInv, TypeOK, NetTypeOK
<1>2. /\ cur' = NoClient /\ spc' = "down" /\ backlog' = <<>> /\ listening' = FALSE
      /\ ServerGone
  BY DEF Dies, ServerGone
<1>3. \A d \in Clients :
        sock'["server"][d] = IF sock["server"][d] \in Live
                               THEN "closed" ELSE sock["server"][d]
  BY <1>1, <1>2 DEF ServerGone, Sides
<1>4. \A d \in Clients : sock'["server"][d] \notin Live
  BY <1>3 DEF Live
<1>5. Queued' = {}
  BY <1>2 DEF Queued
<1>6. NoSocketLeak'
  BY <1>2, <1>4, <1>5 DEF NoSocketLeak
<1>7. \A d \in Clients : cpc'[d] = "connect" => sock'["server"][d] = "none"
  BY <1>3 DEF SocketInv, clientVars, Live
<1> QED
  BY <1>2, <1>5, <1>6, <1>7, NetAssumption DEF SocketInv

\* Every step of the server, faults included, keeps the account.
LEMMA ServerKeepsSockets ==
  ASSUME TypeInv, SocketInv, ServerStep \/ ServerFault, UNCHANGED clientVars
  PROVE  SocketInv'
<1> DEFINE Held == {d \in Clients : sock["server"][d] \in Live}
<1>1. /\ sock \in [Sides -> [Clients -> SockState]]
      /\ backlog \in Seq(Clients)
      /\ HasClient /\ ServerTypeOK
  BY DEF TypeInv, TypeOK, NetTypeOK
<1>2. ASSUME Held' = Held, UNCHANGED <<backlog, listening, cur>>,
             \A d \in Clients : sock["server"][d] = "none"
                                  => sock'["server"][d] = "none",
             spc \notin {"accept", "down"}, spc' \notin {"accept", "down"}
      PROVE  SocketInv'
  BY <1>2 DEF SocketInv, NoSocketLeak, Queued, clientVars
<1>3. ASSUME NEW bytes, Write("server", cur, bytes), UNCHANGED cur,
             spc \notin {"accept", "down"}, spc' \notin {"accept", "down"}
      PROVE  SocketInv'
  <2>1. cur \in Clients /\ cur \in Held
    <3>1. cur \in Clients
      BY <1>1, <1>3 DEF HasClient
    <3> QED
      BY <3>1, NetAssumption DEF SocketInv, NoSocketLeak
  <2>2. /\ UNCHANGED <<backlog, listening>>
        /\ \A d \in Clients \ {cur} : sock'["server"][d] = sock["server"][d]
    BY <1>1, <1>3 DEF Write, Sides
  <2>3. sock'["server"][cur] \in Live
    BY <1>1, <1>3, <2>1 DEF Write, Sides, Live
  <2>4. Held' = Held
    BY <2>1, <2>2, <2>3
  <2>5. sock["server"][cur] # "none"
    BY <2>1 DEF Live
  <2> QED
    BY <1>2, <1>3, <2>2, <2>4, <2>5
<1>4. CASE Accept
  <2>1. /\ backlog # <<>> /\ cur' = Head(backlog) /\ backlog' = Tail(backlog)
        /\ spc = "accept" /\ spc' = "recv" /\ UNCHANGED <<sock, listening>>
    BY <1>4 DEF Accept
  <2>2. cur = NoClient /\ cur' \in Clients
    BY <1>1, <2>1 DEF SocketInv
  <2>t. \A k \in DOMAIN backlog' :
          /\ k + 1 \in DOMAIN backlog /\ backlog'[k] = backlog[k + 1]
          /\ k \in Nat /\ k + 1 # 1
    BY <1>1, <2>1
  <2>h. 1 \in DOMAIN backlog /\ cur' = backlog[1]
    BY <1>1, <2>1
  <2>3. Queued = Queued' \cup {cur'}
    <3>1. \A k \in DOMAIN backlog :
            k = 1 \/ (k - 1 \in DOMAIN backlog' /\ backlog[k] = backlog'[k - 1])
      BY <1>1, <2>1
    <3>2. Queued \subseteq Queued' \cup {cur'}
      BY <2>h, <3>1 DEF Queued
    <3>3. Queued' \cup {cur'} \subseteq Queued
      BY <2>h, <2>t DEF Queued
    <3> QED
      BY <3>2, <3>3
  <2>4. cur' \notin Queued'
    <3>1. \A k \in DOMAIN backlog' : backlog'[k] # cur'
      BY <2>t, <2>h DEF SocketInv
    <3> QED
      BY <3>1 DEF Queued
  <2>5. \A j, k \in DOMAIN backlog' : backlog'[j] = backlog'[k] => j = k
    <3>1. \A j, k \in DOMAIN backlog' : backlog'[j] = backlog'[k] => j + 1 = k + 1
      BY <2>t DEF SocketInv
    <3> QED
      BY <2>t, <3>1
  <2>6. NoSocketLeak'
    BY <2>1, <2>2, <2>3, NetAssumption DEF SocketInv, NoSocketLeak
  <2> QED
    BY <2>1, <2>4, <2>5, <2>6 DEF SocketInv, clientVars
<1>5. CASE \/ RecvMore \/ RecvLast \/ RecvFails \/ Parse \/ Ignore
           \/ OpenFile \/ StoreMore \/ StoreChunk \/ StoreFails
           \/ StoreReadFails \/ CloseFile
  <2>1. UNCHANGED <<sock, backlog, listening, cur>>
    BY <1>5 DEF RecvMore, RecvLast, RecvFails, Parse, Ignore, OpenFile,
       StoreMore, StoreChunk, StoreFails, StoreReadFails, CloseFile, Consume,
       netVars
  <2>2. spc \notin {"accept", "down"} /\ spc' \notin {"accept", "down"}
    BY <1>5 DEF RecvMore, RecvLast, RecvFails, Parse, Ignore, OpenFile,
       StoreMore, StoreChunk, StoreFails, StoreReadFails, CloseFile, AfterChunk
  <2> QED
    BY <1>2, <2>1, <2>2
<1>6. CASE OpenFails \/ ReplyToFile \/ Acknowledge \/ Solve
  <2>1. \E bytes : Write("server", cur, bytes)
    BY <1>6 DEF OpenFails, ReplyToFile, Acknowledge, Solve, Reply
  <2>2. /\ UNCHANGED cur
        /\ spc \notin {"accept", "down"} /\ spc' \notin {"accept", "down"}
    BY <1>6 DEF OpenFails, ReplyToFile, Acknowledge, Solve, AfterAck, AfterAnswer
  <2> QED
    BY <1>3, <2>1, <2>2
<1>7. CASE CloseClient
  <2>1. /\ Close("server", cur) /\ cur' = NoClient
        /\ spc = "close" /\ spc' = "accept" /\ UNCHANGED <<backlog, listening>>
    BY <1>7 DEF CloseClient, Close
  <2>2. cur \in Clients
    BY <1>1, <2>1 DEF HasClient
  <2>3. cur \in Held
    BY <2>2, NetAssumption DEF SocketInv, NoSocketLeak
  <2>4. /\ \A d \in Clients \ {cur} : sock'["server"][d] = sock["server"][d]
        /\ sock'["server"][cur] = "closed"
    BY <1>1, <2>1, <2>2, <2>3 DEF Close, Other, Sides
  <2>5. Held' = Held \ {cur}
    BY <2>2, <2>4 DEF Live
  <2>6. Queued' = Queued /\ cur \notin Queued
    BY <2>1 DEF Queued, SocketInv
  <2>7. NoSocketLeak'
    BY <2>1, <2>5, <2>6 DEF SocketInv, NoSocketLeak
  <2>8. \A d \in Clients : cpc'[d] = "connect" => sock'["server"][d] = "none"
    BY <2>3, <2>4 DEF SocketInv, clientVars, Live
  <2>9. cur' \notin Queued'
    BY <1>1, <2>1, <2>6, NetAssumption DEF Queued
  <2> QED
    BY <2>1, <2>7, <2>8, <2>9 DEF SocketInv
<1>8. CASE Segfault \/ ServerSigpipe \/ Signalled \/ PowerLost
  <2>1. \E flushed : Dies(flushed)
    BY <1>8 DEF Segfault, ServerSigpipe, Signalled, PowerLost
  <2> QED
    BY <2>1, DiesKeepsSockets
<1>9. CASE Restart
  BY <1>9 DEF Restart, SocketInv, NoSocketLeak, Queued, clientVars
<1> QED
  BY <1>4, <1>5, <1>6, <1>7, <1>8, <1>9 DEF ServerStep, ServerFault

\* At the start there is no connection.
LEMMA SocketsInit == Init => SocketInv
<1> SUFFICES ASSUME Init PROVE SocketInv
  OBVIOUS
<1>1. /\ sock = [s \in Sides |-> [c \in Clients |-> "none"]]
      /\ backlog = <<>> /\ listening = TRUE /\ cur = NoClient /\ spc = "accept"
  BY DEF Init, NetInit, ServerInit
<1>2. Queued = {}
  BY <1>1 DEF Queued
<1>3. NoSocketLeak
  BY <1>1, <1>2 DEF NoSocketLeak, Live, Sides
<1> QED
  BY <1>1, <1>2, <1>3 DEF SocketInv, Sides

\* Every step keeps SocketInv.
LEMMA SocketsStep == TypeInv /\ SocketInv /\ [Next]_vars => SocketInv'
<1> SUFFICES ASSUME TypeInv, SocketInv, [Next]_vars PROVE SocketInv'
  OBVIOUS
<1>1. CASE UNCHANGED vars
  BY <1>1 DEF vars, netVars, clientVars, serverVars, SocketInv, NoSocketLeak,
     Queued
<1> QED
  BY <1>1, ClientKeepsSockets, ServerKeepsSockets DEF Next

\* SocketInv always holds.
LEMMA SocketInvariant == Spec => []SocketInv
BY SocketsInit, SocketsStep, TypeInvariant, PTL DEF Spec

\* The server holds exactly the connections it serves or has queued.
THEOREM NoSocketIsLeaked == Spec => []NoSocketLeak
BY SocketInvariant, PTL DEF SocketInv

-----------------------------------------------------------------------------
(***************************************************************************)
(* The owner of a stored file.  A byte reaches a file only through the     *)
(* inbox of the connection being served and the buffer of the read.        *)
(***************************************************************************)
\* A part of what belongs to one client belongs to it.
LEMMA OwnSubSeq ==
  ASSUME NEW bytes \in Seq(Byte), NEW c, OwnBytes(bytes, c),
         NEW m \in Nat \ {0}, NEW n \in Nat, n <= Len(bytes)
  PROVE  OwnBytes(SubSeq(bytes, m, n), c)
<1> DEFINE sub == SubSeq(bytes, m, n)
<1>1. CASE m > n
  <2>1. Len(sub) = 0
    BY <1>1
  <2> QED
    BY <2>1 DEF OwnBytes
<1>2. CASE m <= n
  <2>1. Len(sub) = n - m + 1
    BY <1>2
  <2>2. \A k \in 1..Len(sub) : sub[k] = bytes[m + k - 1] /\ m + k - 1 \in 1..Len(bytes)
    BY <1>2, <2>1
  <2> QED
    BY <2>2 DEF OwnBytes
<1> QED
  BY <1>1, <1>2

\* Two pieces that belong to one client belong to it together.
LEMMA OwnConcat ==
  ASSUME NEW a \in Seq(Byte), NEW b \in Seq(Byte), NEW c
  PROVE  /\ OwnBytes(a, c) /\ OwnBytes(b, c) => OwnBytes(a \o b, c)
         /\ OwnOrJunk(a, c) /\ OwnBytes(b, c) => OwnOrJunk(a \o b, c)
<1>1. \A k \in 1..Len(a \o b) :
        \/ k \in 1..Len(a) /\ (a \o b)[k] = a[k]
        \/ k - Len(a) \in 1..Len(b) /\ (a \o b)[k] = b[k - Len(a)]
  OBVIOUS
<1> QED
  BY <1>1 DEF OwnBytes, OwnOrJunk

\* The bytes of a message belong to its sender.
LEMMA OwnMessage ==
  ASSUME NEW m \in Message
  PROVE  OwnBytes(Bytes(m), m.by)
<1>1. m.len \in Nat
  BY DEF Message
<1>2. Len(Bytes(m)) = m.len
  BY <1>1 DEF Bytes
<1> QED
  BY <1>1, <1>2 DEF OwnBytes, Bytes

\* A client puts only bytes of its own into its connection.
LEMMA ClientKeepsOwners ==
  ASSUME TypeInv, OwnerInv, NEW c \in Clients, ClientStep(c),
         UNCHANGED serverVars
  PROVE  OwnerInv'
<1>1. /\ inbox \in [Sides -> [Clients -> Seq(Byte)]]
      /\ "server" \in Sides /\ "client" \in Sides
      /\ ClientTypeOK
  BY DEF TypeInv, TypeOK, NetTypeOK, Sides
<1>2. ASSUME \A d \in Clients : OwnBytes(inbox'["server"][d], d)
      PROVE  OwnerInv'
  BY <1>2 DEF OwnerInv, serverVars, OwnBytes, OwnOrJunk
<1>3. ASSUME inbox'["server"] = inbox["server"] PROVE OwnerInv'
  BY <1>2, <1>3 DEF OwnerInv
<1>4. ASSUME NEW bytes \in Seq(Byte), OwnBytes(bytes, c),
             Write("client", c, bytes)
      PROVE  OwnerInv'
  <2>1. CASE UNCHANGED inbox
    BY <1>3, <2>1
  <2>2. CASE inbox' = [inbox EXCEPT !["server"][c] = @ \o bytes]
    <3>1. OwnBytes(inbox["server"][c], c)
      BY DEF OwnerInv
    <3>2. OwnBytes(inbox["server"][c] \o bytes, c)
      BY <1>1, <1>4, <3>1, OwnConcat
    <3>3. \A d \in Clients : inbox'["server"][d] =
             IF d = c THEN inbox["server"][c] \o bytes ELSE inbox["server"][d]
      BY <1>1, <2>2
    <3>4. \A d \in Clients : OwnBytes(inbox'["server"][d], d)
      BY <3>2, <3>3 DEF OwnerInv
    <3> QED
      BY <1>2, <3>4
  <2> QED
    BY <1>4, <2>1, <2>2 DEF Write, Other
<1>5. ASSUME NEW what, NEW st, Finish(c, what, st) PROVE OwnerInv'
  <2>1. inbox'["server"] = inbox["server"]
    BY <1>1, <1>5 DEF Finish, Close
  <2> QED
    BY <1>3, <2>1
<1>6. CASE Connect(c)
  BY <1>3, <1>6 DEF Connect
<1>7. CASE ConnectFails(c)
  BY <1>3, <1>5, <1>7 DEF ConnectFails, netVars
<1>8. CASE SendHeader(c) \/ SendRepo(c)
  <2>1. PICK m \in Message : m.by = c /\ Write("client", c, Bytes(m))
    BY <1>1, <1>8, ClientMessages
       DEF SendHeader, SendRepo, Header, Request
  <2> QED
    BY <1>4, <2>1, BytesType, OwnMessage
<1>9. CASE SendContent(c)
  <2> DEFINE size == job[c].size[CurFile(c)]
             upto == IF sent[c] + FileChunk < size
                       THEN sent[c] + FileChunk ELSE size
             m    == Content(c, CurFile(c))
  <2>1. m \in Message /\ m.by = c /\ m.len = size
    BY <1>1, CurFileType, ClientMessages DEF Content
  <2>2. size \in Nat /\ sent[c] \in Nat
    BY <1>1, CurFileType, JobType DEF ClientTypeOK
  <2>3. /\ Bytes(m) \in Seq(Byte) /\ OwnBytes(Bytes(m), c)
        /\ Len(Bytes(m)) = size
    BY <2>1, <2>2, BytesType, OwnMessage DEF Bytes
  <2>4. upto \in Nat /\ upto <= size
    BY <2>2, ClientAssumption
  <2>5. /\ SubSeq(Bytes(m), sent[c] + 1, upto) \in Seq(Byte)
        /\ OwnBytes(SubSeq(Bytes(m), sent[c] + 1, upto), c)
    BY <2>2, <2>3, <2>4, OwnSubSeq
  <2>6. Write("client", c, SubSeq(Bytes(m), sent[c] + 1, upto))
    BY <1>9 DEF SendContent
  <2> QED
    BY <1>4, <2>5, <2>6
<1>10. CASE ReadMore(c) \/ ReadLast(c)
  <2>1. PICK r : Consume("client", c, r)
    BY <1>10 DEF ReadMore, ReadLast
  <2>2. inbox'["server"] = inbox["server"]
    BY <1>1, <2>1 DEF Consume
  <2> QED
    BY <1>3, <2>2
<1>11. CASE FileAccepted(c) \/ Checked(c)
  BY <1>3, <1>11 DEF FileAccepted, Checked, netVars
<1>12. CASE ReadFails(c)
  BY <1>3, <1>5, <1>12 DEF ReadFails, netVars
<1>13. CASE Declines(c) \/ FileMissing(c) \/ ChkDep(c) \/ RepoError(c)
            \/ Sigpipe(c) \/ FileRefused(c) \/ ParserCrash(c) \/ Killed(c)
            \/ Answered(c)
  BY <1>5, <1>13 DEF Declines, FileMissing, ChkDep, RepoError, Sigpipe,
     FileRefused, ParserCrash, Killed, Answered
<1> QED
  BY <1>6, <1>7, <1>8, <1>9, <1>10, <1>11, <1>12, <1>13 DEF ClientStep

\* The prefix of a file that has one owner has that owner.
LEMMA OwnPrefix ==
  ASSUME NEW bytes \in Seq(Byte), NEW c, OwnOrJunk(bytes, c),
         NEW n \in 0..Len(bytes)
  PROVE  OwnOrJunk(SubSeq(bytes, 1, n), c)
<1>1. /\ Len(SubSeq(bytes, 1, n)) = n
      /\ \A k \in 1..n : SubSeq(bytes, 1, n)[k] = bytes[k]
  OBVIOUS
<1> QED
  BY <1>1 DEF OwnOrJunk

\* What the server reads, and what it leaves to read, is the client's.
LEMMA OwnRead ==
  ASSUME TypeInv, OwnerInv, cur \in Clients, NEW r \in Reads("server", cur),
         Consume("server", cur, r)
  PROVE  /\ r.data \in Seq(Byte) /\ OwnBytes(r.data, cur)
         /\ \A d \in Clients : OwnBytes(inbox'["server"][d], d)
<1> DEFINE in == inbox["server"][cur]
<1>1. /\ NetTypeOK /\ "server" \in Sides
      /\ in \in Seq(Byte) /\ OwnBytes(in, cur)
  BY DEF TypeInv, TypeOK, NetTypeOK, OwnerInv, Sides
<1>2. /\ r.data \in Seq(Byte) /\ Len(r.data) <= Len(in)
      /\ r.data = SubSeq(in, 1, Len(r.data))
  BY <1>1, ReadsType
<1>3. OwnBytes(SubSeq(in, 1, Len(r.data)), cur)
  BY <1>1, <1>2, OwnSubSeq
<1>4. OwnBytes(SubSeq(in, Len(r.data) + 1, Len(in)), cur)
  <2>1. Len(r.data) + 1 \in Nat \ {0} /\ Len(in) \in Nat
    BY <1>1, <1>2
  <2> QED
    BY <1>1, <2>1, OwnSubSeq
<1>5. \A d \in Clients : inbox'["server"][d] =
         IF d = cur THEN SubSeq(in, Len(r.data) + 1, Len(in))
                    ELSE inbox["server"][d]
  BY <1>1 DEF Consume, NetTypeOK
<1> QED
  BY <1>2, <1>3, <1>4, <1>5 DEF OwnerInv

\* A server that dies leaves a prefix of the file it was writing.
LEMMA DiesKeepsOwners ==
  ASSUME TypeInv, OwnerInv, NEW flushed \in BOOLEAN, Dies(flushed)
  PROVE  OwnerInv'
<1>1. /\ NetTypeOK /\ ServerTypeOK /\ HasClient
  BY DEF TypeInv, TypeOK
<1>2. \A d \in Clients : OwnBytes(inbox'["server"][d], d)
  <2>1. \A d \in Clients : inbox'["server"][d] = <<>>
    BY <1>1 DEF Dies, ServerGone, NetTypeOK, Sides
  <2>2. Len(<<>>) = 0
    OBVIOUS
  <2> QED
    BY <2>1, <2>2 DEF OwnBytes
<1>3. \A f \in FileCodes :
        \E c \in Clients \cup {NoClient} : OwnOrJunk(disk'[f], c)
  <2> TAKE f \in FileCodes
  <2>1. PICK c \in Clients \cup {NoClient} : OwnOrJunk(disk[f], c)
    BY DEF OwnerInv
  <2>2. disk[f] \in Seq(Byte) /\ disk \in [FileCodes -> Seq(Byte)]
    BY <1>1 DEF ServerTypeOK
  <2>3. CASE UNCHANGED disk
    BY <2>1, <2>3
  <2>4. CASE \E n \in 0..Len(disk[root.code]) :
               disk' = [disk EXCEPT ![root.code] = SubSeq(@, 1, n)]
    <3>1. PICK n \in 0..Len(disk[root.code]) :
                 disk' = [disk EXCEPT ![root.code] = SubSeq(@, 1, n)]
      BY <2>4
    <3>2. CASE f = root.code
      BY <2>1, <2>2, <3>1, <3>2, OwnPrefix
    <3>3. CASE f # root.code
      BY <2>1, <2>2, <3>1, <3>3
    <3> QED
      BY <3>2, <3>3
  <2> QED
    BY <2>3, <2>4 DEF Dies
<1>4. sbuf' = <<>> /\ spc' = "down"
  BY DEF Dies
<1>5. OwnBytes(sbuf', cur')
  BY <1>4 DEF OwnBytes
<1> QED
  BY <1>2, <1>3, <1>4, <1>5 DEF OwnerInv

\* Every step of the server keeps what it read, and each file, to one client.
LEMMA ServerKeepsOwners ==
  ASSUME TypeInv, OwnerInv, ServerStep \/ ServerFault
  PROVE  OwnerInv'
<1>1. /\ NetTypeOK /\ ServerTypeOK /\ HasClient
      /\ inbox \in [Sides -> [Clients -> Seq(Byte)]]
      /\ disk \in [FileCodes -> Seq(Byte)] /\ sbuf \in Seq(Byte)
      /\ "server" \in Sides /\ "client" \in Sides
  BY DEF TypeInv, TypeOK, NetTypeOK, ServerTypeOK, Sides
<1>2. OwnBytes(<<>>, cur')
  BY DEF OwnBytes
<1>in. ASSUME inbox'["server"] = inbox["server"]
       PROVE  \A d \in Clients : OwnBytes(inbox'["server"][d], d)
  BY <1>in DEF OwnerInv
<1>3. ASSUME inbox'["server"] = inbox["server"], UNCHANGED disk,
             sbuf' = <<>> \/ UNCHANGED <<sbuf, cur>>,
             spc' # "store",
             spc' \in {"accept", "down"} =>
                sbuf' = <<>> \/ spc \in {"accept", "down"}
      PROVE  OwnerInv'
  <2>1. \A d \in Clients : OwnBytes(inbox'["server"][d], d)
    BY <1>in, <1>3
  <2>2. OwnBytes(sbuf', cur')
    BY <1>2, <1>3 DEF OwnerInv
  <2> QED
    BY <1>3, <2>1, <2>2 DEF OwnerInv
<1>4. ASSUME NEW bytes, Write("server", cur, bytes)
      PROVE  inbox'["server"] = inbox["server"]
  BY <1>1, <1>4 DEF Write, Other
\* Steps that write nothing to a file.
<1>5. CASE Accept
  <2>1. sbuf = <<>>
    BY <1>5 DEF Accept, OwnerInv
  <2> QED
    BY <1>3, <1>5, <2>1 DEF Accept
<1>6. CASE RecvFails \/ Parse \/ Ignore \/ CloseFile \/ Restart
  BY <1>3, <1>6 DEF RecvFails, Parse, Ignore, CloseFile, Restart, netVars
<1>7. CASE OpenFails \/ ReplyToFile \/ Acknowledge
  <2>1. \E bytes : Write("server", cur, bytes)
    BY <1>7 DEF OpenFails, ReplyToFile, Acknowledge, Reply
  <2> QED
    BY <1>3, <1>4, <1>7, <2>1
       DEF OpenFails, ReplyToFile, Acknowledge, AfterAck
<1>8. CASE Solve
  <2>1. \E bytes : Write("server", cur, bytes)
    BY <1>8 DEF Solve
  <2> QED
    BY <1>3, <1>4, <1>8, <2>1 DEF Solve, AfterAnswer
<1>9. CASE CloseClient
  <2>1. cur \in Clients
    BY <1>1, <1>9 DEF CloseClient, HasClient
  <2>2. /\ sbuf' = <<>> /\ spc' = "accept" /\ UNCHANGED disk
        /\ inbox' = [inbox EXCEPT !["server"][cur] = <<>>]
    BY <1>9 DEF CloseClient, Close
  <2>3. \A d \in Clients : inbox'["server"][d] =
           IF d = cur THEN <<>> ELSE inbox["server"][d]
    BY <1>1, <2>2
  <2>4. \A d \in Clients : OwnBytes(inbox'["server"][d], d)
    BY <2>3 DEF OwnerInv, OwnBytes
  <2> QED
    BY <1>2, <2>2, <2>4 DEF OwnerInv
\* Steps that read.
<1>10. CASE RecvMore \/ RecvLast \/ StoreMore
  <2>1. cur \in Clients
    BY <1>1, <1>10 DEF RecvMore, RecvLast, StoreMore, HasClient
  <2>2. PICK r \in Reads("server", cur) :
               Consume("server", cur, r) /\ sbuf' = sbuf \o r.data
    BY <1>10 DEF RecvMore, RecvLast, StoreMore
  <2>3. /\ r.data \in Seq(Byte) /\ OwnBytes(r.data, cur)
        /\ \A d \in Clients : OwnBytes(inbox'["server"][d], d)
    BY <2>1, <2>2, OwnRead
  <2>4. OwnBytes(sbuf', cur)
    BY <1>1, <2>2, <2>3, OwnConcat DEF OwnerInv
  <2>5. /\ UNCHANGED <<cur, root, disk>>
        /\ spc' = "store" => spc = "store"
        /\ spc' \notin {"accept", "down"}
    BY <1>10 DEF RecvMore, RecvLast, StoreMore
  <2> QED
    BY <2>3, <2>4, <2>5 DEF OwnerInv
\* Steps that write to a file.
<1>11. ASSUME NEW c \in Clients \cup {NoClient}, NEW f \in FileCodes,
              NEW stored, OwnOrJunk(stored, c),
              disk' = [disk EXCEPT ![f] = stored]
       PROVE  \A g \in FileCodes :
                \E d \in Clients \cup {NoClient} : OwnOrJunk(disk'[g], d)
  <2>1. \A g \in FileCodes : disk'[g] = IF g = f THEN stored ELSE disk[g]
    BY <1>1, <1>11
  <2> QED
    BY <1>11, <2>1 DEF OwnerInv
<1>12. CASE OpenFile
  <2>1. /\ root.code \in FileCodes /\ cur \in Clients
        /\ disk' = [disk EXCEPT ![root.code] = <<>>]
        /\ spc' = "store" /\ UNCHANGED <<inbox, sbuf, cur, root>>
    BY <1>1, <1>12 DEF OpenFile, Opened, netVars, HasClient
  <2>2. OwnOrJunk(<<>>, cur)
    BY DEF OwnOrJunk
  <2>3. disk'[root.code] = <<>>
    BY <1>1, <2>1
  <2>4. \A g \in FileCodes :
          \E d \in Clients \cup {NoClient} : OwnOrJunk(disk'[g], d)
    BY <1>11, <2>1, <2>2
  <2> QED
    BY <2>1, <2>2, <2>3, <2>4 DEF OwnerInv
<1>13. ASSUME spc = "store"
       PROVE  /\ cur \in Clients /\ root.code \in FileCodes
              /\ disk[root.code] \in Seq(Byte)
              /\ OwnOrJunk(disk[root.code], cur)
  BY <1>1, <1>13 DEF HasClient, OwnerInv
<1>130. ASSUME NEW r, r.data \in Seq(Byte), OwnBytes(r.data, cur), r.ret = -1 => sbuf # <<>>
        PROVE  Chunk(r) \in Seq(Byte) /\ OwnBytes(Chunk(r), cur)
  <2>1. OwnBytes(sbuf, cur)
    BY DEF OwnerInv
  <2>2. CASE r.ret = -1
    <3>1. Len(sbuf) - 1 \in Nat /\ Len(sbuf) - 1 <= Len(sbuf)
      BY <1>1, <1>130, <2>2
    <3> QED
      BY <1>1, <2>1, <2>2, <3>1, OwnSubSeq DEF Chunk
  <2>3. CASE r.ret # -1
    BY <1>1, <1>130, <2>1, <2>3, OwnConcat DEF Chunk
  <2> QED
    BY <2>2, <2>3
<1>14. CASE StoreChunk
  <2>1. PICK r \in Reads("server", cur) :
               /\ Consume("server", cur, r)
               /\ disk' = [disk EXCEPT ![root.code] = disk[root.code] \o Chunk(r)]
               /\ spc' = AfterChunk(disk[root.code] \o Chunk(r))
               /\ r.ret = -1 => sbuf # <<>>
    BY <1>14 DEF StoreChunk
  <2>2. /\ spc = "store" /\ sbuf' = <<>> /\ UNCHANGED <<cur, root>>
        /\ spc' \in {"store", "reply"}
    BY <1>14, <2>1 DEF StoreChunk, AfterChunk
  <2>3. /\ r.data \in Seq(Byte) /\ OwnBytes(r.data, cur)
        /\ \A d \in Clients : OwnBytes(inbox'["server"][d], d)
    BY <1>13, <2>1, <2>2, OwnRead
  <2>4. Chunk(r) \in Seq(Byte) /\ OwnBytes(Chunk(r), cur)
    BY <1>130, <2>1, <2>3
  <2>5. OwnOrJunk(disk[root.code] \o Chunk(r), cur)
    BY <1>13, <2>2, <2>4, OwnConcat
  <2>6. disk'[root.code] = disk[root.code] \o Chunk(r)
    BY <1>1, <1>13, <2>1, <2>2
  <2>7. \A g \in FileCodes :
          \E d \in Clients \cup {NoClient} : OwnOrJunk(disk'[g], d)
    BY <1>11, <1>13, <2>1, <2>2, <2>5
  <2> QED
    BY <1>2, <2>2, <2>3, <2>5, <2>6, <2>7 DEF OwnerInv
<1>15. CASE StoreFails
  <2>1. PICK r \in Reads("server", cur) :
               /\ r.ret = -1 => sbuf # <<>>
               /\ Consume("server", cur, r)
               /\ \E n \in 0..(Len(Chunk(r)) - 1) :
                    disk' = [disk EXCEPT ![root.code] = @ \o SubSeq(Chunk(r), 1, n)]
    BY <1>15 DEF StoreFails
  <2>2. PICK n \in 0..(Len(Chunk(r)) - 1) :
               disk' = [disk EXCEPT ![root.code] = @ \o SubSeq(Chunk(r), 1, n)]
    BY <2>1
  <2>3. spc = "store" /\ sbuf' = <<>> /\ UNCHANGED cur /\ spc' = "reply"
    BY <1>15 DEF StoreFails
  <2>4. /\ r.data \in Seq(Byte) /\ OwnBytes(r.data, cur)
        /\ \A d \in Clients : OwnBytes(inbox'["server"][d], d)
    BY <1>13, <2>1, <2>3, OwnRead
  <2>5. Chunk(r) \in Seq(Byte) /\ OwnBytes(Chunk(r), cur)
    BY <1>130, <2>1, <2>4
  <2>6. n \in Nat /\ n <= Len(Chunk(r))
    BY <2>5
  <2>7. SubSeq(Chunk(r), 1, n) \in Seq(Byte) /\ OwnBytes(SubSeq(Chunk(r), 1, n), cur)
    BY <2>5, <2>6, OwnSubSeq
  <2>8. OwnOrJunk(disk[root.code] \o SubSeq(Chunk(r), 1, n), cur)
    BY <1>13, <2>3, <2>7, OwnConcat
  <2>9. \A g \in FileCodes :
          \E d \in Clients \cup {NoClient} : OwnOrJunk(disk'[g], d)
    BY <1>1, <1>11, <1>13, <2>2, <2>3, <2>8
  <2> QED
    BY <1>2, <2>3, <2>4, <2>9 DEF OwnerInv
<1>16. CASE StoreReadFails
  <2>1. /\ spc = "store" /\ spc' = "reply" /\ UNCHANGED <<inbox, sbuf, cur>>
        /\ \/ UNCHANGED disk
           \/ disk' = [disk EXCEPT ![root.code] = Append(@, Junk)]
    BY <1>16 DEF StoreReadFails, netVars
  <2>2. OwnOrJunk(Append(disk[root.code], Junk), cur)
    BY <1>13, <2>1 DEF OwnOrJunk
  <2>3. \A g \in FileCodes :
          \E d \in Clients \cup {NoClient} : OwnOrJunk(disk'[g], d)
    <3>1. CASE UNCHANGED disk
      BY <3>1 DEF OwnerInv
    <3>2. CASE disk' = [disk EXCEPT ![root.code] = Append(@, Junk)]
      <4>1. disk' = [disk EXCEPT ![root.code] = Append(disk[root.code], Junk)]
        BY <3>2
      <4> QED
        BY <1>11, <1>13, <2>1, <2>2, <4>1
    <3> QED
      BY <2>1, <3>1, <3>2
  <2> QED
    BY <2>1, <2>3 DEF OwnerInv
<1>17. CASE Segfault \/ ServerSigpipe \/ Signalled \/ PowerLost
  <2>1. \E flushed \in BOOLEAN : Dies(flushed)
    BY <1>17 DEF Segfault, ServerSigpipe, Signalled, PowerLost
  <2> QED
    BY <2>1, DiesKeepsOwners
<1> QED
  BY <1>5, <1>6, <1>7, <1>8, <1>9, <1>10, <1>12, <1>14, <1>15, <1>16, <1>17
     DEF ServerStep, ServerFault

\* The stored files start empty.
LEMMA OwnersInit == Init => OwnerInv
<1> SUFFICES ASSUME Init PROVE OwnerInv
  OBVIOUS
<1>1. /\ \A c \in Clients : inbox["server"][c] = <<>>
      /\ sbuf = <<>> /\ spc = "accept"
      /\ \A f \in FileCodes : disk[f] = <<>>
  BY DEF Init, NetInit, ServerInit, Sides
<1>2. \A f \in FileCodes : OwnOrJunk(disk[f], NoClient)
  BY <1>1 DEF OwnOrJunk
<1> QED
  BY <1>1, <1>2 DEF OwnerInv, OwnBytes

\* Every step keeps OwnerInv.
LEMMA OwnersStep == TypeInv /\ OwnerInv /\ [Next]_vars => OwnerInv'
<1> SUFFICES ASSUME TypeInv, OwnerInv, [Next]_vars PROVE OwnerInv'
  OBVIOUS
<1>1. CASE UNCHANGED vars
  BY <1>1 DEF vars, netVars, serverVars, OwnerInv, OwnBytes, OwnOrJunk
<1> QED
  BY <1>1, ClientKeepsOwners, ServerKeepsOwners DEF Next

\* OwnerInv always holds.
LEMMA OwnerInvariant == Spec => []OwnerInv
BY OwnersInit, OwnersStep, TypeInvariant, PTL DEF Spec

\* No stored file ever mixes the bytes of two clients.
THEOREM FilesHaveOneOwner == Spec => []OneOwnerPerFile
<1>1. OwnerInv => OneOwnerPerFile
  <2> SUFFICES ASSUME OwnerInv, NEW f \in FileCodes,
                      NEW i \in 1..Len(disk[f]), NEW j \in 1..Len(disk[f]),
                      Junk \notin {disk[f][i], disk[f][j]}
               PROVE  disk[f][i].msg.by = disk[f][j].msg.by
    BY DEF OneOwnerPerFile
  <2>1. PICK c \in Clients \cup {NoClient} : OwnOrJunk(disk[f], c)
    BY DEF OwnerInv
  <2> QED
    BY <2>1 DEF OwnOrJunk
<1> QED
  BY <1>1, OwnerInvariant, PTL
=============================================================================
