--------------------------- MODULE RdsLinkProofs ---------------------------
(***************************************************************************)
(* Theorems about Rds on every network: how the two ends of a connection   *)
(* and the progress of its run go together, and in which order the bytes   *)
(* of a run reach the files of the server.                                 *)
(***************************************************************************)
EXTENDS RdsProofs, SequenceTheorems

-----------------------------------------------------------------------------
(***************************************************************************)
(* Where a run stands.                                                     *)
(***************************************************************************)
\* The size and the bytes of the file a run is sending, and what it has written.
Size(c)    == job[c].size[CurFile(c)]
Whole(c)   == Bytes(Content(c, CurFile(c)))
Written(c) == SubSeq(Whole(c), 1, sent[c])

\* The two ends of a connection agree: the server's is reset only when the
\* client has closed its own, and a client that goes on has not.
Linked(c) ==
  /\ sock["server"][c] \in Live => sock["client"][c] \in {"open", "closed"}
  /\ sock["server"][c] = "reset" => sock["client"][c] = "closed"
  /\ cpc[c] = "connect" => /\ sock["client"][c] = "none"
                           /\ sock["server"][c] = "none"
                           /\ inbox["client"][c] = <<>>
                           /\ inbox["server"][c] = <<>>
  /\ cpc[c] = "done" => sock["client"][c] \in {"none", "closed"}
  /\ cpc[c] \notin {"connect", "done"} => sock["client"][c] \in Live

\* A file is sent once, a request only when none is left to send.
OnItsWay(c) ==
  /\ todo[c] \cup backup[c] \subseteq job[c].files
  /\ todo[c] \cap backup[c] = {}
  /\ cpc[c] \in {"connect", "sync", "content"} => cbuf[c] = <<>>
  /\ cpc[c] = "content" => todo[c] # {} /\ sent[c] < Size(c)
  /\ cpc[c] \in {"reply", "replied"} => todo[c] # {} /\ sent[c] = Size(c)
  /\ cpc[c] \in {"check", "checked", "answer", "answered"} => todo[c] = {}

LinkInv == \A c \in Clients : Linked(c) /\ OnItsWay(c)

\* What a step of c may change of the other runs: nothing.
Apart(c) ==
  \A d \in Clients \ {c} :
    /\ job'[d] = job[d] /\ cpc'[d] = cpc[d] /\ todo'[d] = todo[d]
    /\ sent'[d] = sent[d] /\ cbuf'[d] = cbuf[d] /\ backup'[d] = backup[d]
    /\ \A s \in Sides : inbox'[s][d] = inbox[s][d] /\ sock'[s][d] = sock[s][d]

\* What the types say of one run and of its connection.
LEMMA RunType ==
  ASSUME TypeInv, NEW c \in Clients
  PROVE  /\ "client" \in Sides /\ "server" \in Sides
         /\ \A s \in Sides : /\ inbox[s][c] \in Seq(Byte)
                             /\ sock[s][c] \in SockState
         /\ cpc[c] \in ClientPc /\ sent[c] \in Nat /\ cbuf[c] \in Seq(Byte)
         /\ todo[c] \subseteq FileCodes
         /\ CurFile(c) \in FileCodes
         /\ todo[c] # {} => CurFile(c) \in todo[c]
         /\ Size(c) \in Nat
         /\ Whole(c) \in Seq(Byte) /\ Len(Whole(c)) = Size(c)
<1>1. NetTypeOK /\ ClientTypeOK
  BY DEF TypeInv, TypeOK
<1>2. /\ "client" \in Sides /\ "server" \in Sides
      /\ \A s \in Sides : inbox[s][c] \in Seq(Byte) /\ sock[s][c] \in SockState
  BY <1>1 DEF NetTypeOK, Sides
<1>3. /\ cpc[c] \in ClientPc /\ sent[c] \in Nat /\ cbuf[c] \in Seq(Byte)
      /\ todo[c] \subseteq FileCodes
  BY <1>1 DEF ClientTypeOK
<1>4. CurFile(c) \in FileCodes /\ (todo[c] # {} => CurFile(c) \in todo[c])
  BY <1>3 DEF CurFile, FileCodes
<1>5. Size(c) \in Nat
  BY <1>1, <1>4, JobType DEF Size
<1>6. Whole(c) \in Seq(Byte)
  BY <1>1, <1>4, ClientMessages, BytesType DEF Whole
<1>7. Len(Whole(c)) = Size(c)
  BY <1>5 DEF Whole, Size, Bytes, Content
<1> QED
  BY <1>2, <1>3, <1>4, <1>5, <1>6, <1>7

\* A write touches one connection: its bytes arrive when both ends are open,
\* and the writer's end is reset when they are not.
LEMMA WriteEffect ==
  ASSUME NetTypeOK, NEW s \in Sides, NEW c \in Clients,
         NEW bytes \in Seq(Byte), Write(s, c, bytes)
  PROVE  /\ CanWrite(s, c) /\ UNCHANGED <<backlog, listening>>
         /\ \A d \in Clients, t \in Sides :
              d # c => inbox'[t][d] = inbox[t][d] /\ sock'[t][d] = sock[t][d]
         /\ inbox'[s][c] = inbox[s][c]
         /\ sock'[Other(s)][c] = sock[Other(s)][c]
         /\ \/ /\ sock[s][c] = "open" /\ sock[Other(s)][c] = "open"
               /\ inbox'[Other(s)][c] = inbox[Other(s)][c] \o bytes
               /\ sock' = sock
            \/ /\ ~(sock[s][c] = "open" /\ sock[Other(s)][c] = "open")
               /\ inbox' = inbox
               /\ sock'[s][c] = "reset"
<1>1. Other(s) \in Sides /\ Other(s) # s
  BY DEF Other, Sides
<1>2. CASE sock[s][c] = "open" /\ sock[Other(s)][c] = "open"
  <2>1. /\ inbox' = [inbox EXCEPT ![Other(s)][c] = @ \o bytes]
        /\ sock' = sock /\ CanWrite(s, c) /\ UNCHANGED <<backlog, listening>>
    BY <1>2 DEF Write
  <2> QED
    BY <1>1, <1>2, <2>1 DEF NetTypeOK
<1>3. CASE ~(sock[s][c] = "open" /\ sock[Other(s)][c] = "open")
  <2>1. /\ sock' = [sock EXCEPT ![s][c] = "reset"]
        /\ inbox' = inbox /\ CanWrite(s, c) /\ UNCHANGED <<backlog, listening>>
    BY <1>3 DEF Write
  <2> QED
    BY <1>1, <1>3, <2>1 DEF NetTypeOK
<1> QED
  BY <1>2, <1>3

\* So does a read, which takes the first bytes of what has arrived.
LEMMA ConsumeEffect ==
  ASSUME NetTypeOK, NEW s \in Sides, NEW c \in Clients, NEW r \in Reads(s, c),
         Consume(s, c, r)
  PROVE  /\ UNCHANGED <<sock, backlog, listening>>
         /\ \A d \in Clients, t \in Sides :
              d # c \/ t # s => inbox'[t][d] = inbox[t][d]
         /\ r.data \in Seq(Byte) /\ inbox'[s][c] \in Seq(Byte)
         /\ inbox[s][c] = r.data \o inbox'[s][c]
<1> DEFINE in == inbox[s][c]
           n  == Len(r.data)
<1>1. /\ in \in Seq(Byte) /\ r.data \in Seq(Byte) /\ n \in Nat /\ n <= Len(in)
      /\ r.data = SubSeq(in, 1, n)
  BY ReadsType DEF NetTypeOK
<1>2. /\ inbox' = [inbox EXCEPT ![s][c] = SubSeq(in, n + 1, Len(in))]
      /\ UNCHANGED <<sock, backlog, listening>>
  BY DEF Consume
<1>3. inbox'[s][c] = SubSeq(in, n + 1, Len(in))
  BY <1>2 DEF NetTypeOK
<1>4. SubSeq(in, n + 1, Len(in)) \in Seq(Byte)
  BY <1>1
<1>5. SubSeq(in, 1, n) \o SubSeq(in, n + 1, Len(in)) = in
  <2>1. SubSeq(in, 1, n) \o SubSeq(in, n + 1, Len(in)) = SubSeq(in, 1, Len(in))
    <3>1. 1 \in 1..(Len(in) + 1) /\ n \in (1 - 1)..Len(in) /\ Len(in) \in n..Len(in)
      BY <1>1
    <3> HIDE DEF in, n
    <3> QED
      BY <1>1, <3>1, ConcatAdjacentSubSeq
  <2> QED
    BY <1>1, <2>1, SubSeqFull
<1>6. \A d \in Clients, t \in Sides :
        d # c \/ t # s => inbox'[t][d] = inbox[t][d]
  BY <1>2 DEF NetTypeOK
<1> QED
  BY <1>1, <1>2, <1>3, <1>4, <1>5, <1>6

\* Closing drops what was not read, which resets the peer.
LEMMA CloseEffect ==
  ASSUME NetTypeOK, NEW s \in Sides, NEW c \in Clients, Close(s, c)
  PROVE  /\ UNCHANGED <<backlog, listening>>
         /\ \A d \in Clients, t \in Sides :
              d # c => inbox'[t][d] = inbox[t][d] /\ sock'[t][d] = sock[t][d]
         /\ inbox'[s][c] = <<>> /\ inbox'[Other(s)][c] = inbox[Other(s)][c]
         /\ sock'[s][c] = IF sock[s][c] \in Live THEN "closed" ELSE sock[s][c]
         /\ sock'[Other(s)][c] =
              IF /\ sock[s][c] \in Live
                 /\ sock[Other(s)][c] = "open" /\ inbox[s][c] # <<>>
                THEN "reset" ELSE sock[Other(s)][c]
<1>1. Other(s) \in Sides /\ Other(s) # s
  BY DEF Other, Sides
<1>2. /\ inbox' = [inbox EXCEPT ![s][c] = <<>>]
      /\ UNCHANGED <<backlog, listening>>
  BY DEF Close
<1>3. CASE sock[s][c] \in Live
  <2>1. sock' = [sock EXCEPT ![s][c] = "closed",
                   ![Other(s)][c] = IF @ = "open" /\ inbox[s][c] # <<>>
                                      THEN "reset" ELSE @]
    BY <1>3 DEF Close
  <2> QED
    BY <1>1, <1>2, <1>3, <2>1 DEF NetTypeOK
<1>4. CASE sock[s][c] \notin Live
  <2>1. sock' = sock
    BY <1>4 DEF Close
  <2> QED
    BY <1>1, <1>2, <1>4, <2>1 DEF NetTypeOK
<1> QED
  BY <1>3, <1>4

\* A run that ends closes its connection and leaves the rest as it was.
Ends(c) ==
  /\ cpc'[c] = "done" /\ cbuf'[c] = <<>>
  /\ todo'[c] = todo[c] /\ sent'[c] = sent[c] /\ backup'[c] = backup[c]
  /\ inbox'["server"][c] = inbox["server"][c] /\ inbox'["client"][c] = <<>>
  /\ sock'["client"][c] = IF sock["client"][c] \in Live
                            THEN "closed" ELSE sock["client"][c]
  /\ sock'["server"][c] = IF /\ sock["client"][c] \in Live
                             /\ sock["server"][c] = "open"
                             /\ inbox["client"][c] # <<>>
                            THEN "reset" ELSE sock["server"][c]

\* Whatever a process ends with, its end of the connection ends with it.
LEMMA FinishEnds ==
  ASSUME TypeInv, NEW c \in Clients, NEW what, NEW st, Finish(c, what, st)
  PROVE  Ends(c) /\ Apart(c) /\ UNCHANGED <<job, backlog, listening>>
<1>1. NetTypeOK /\ ClientTypeOK /\ "client" \in Sides /\ Other("client") = "server"
  BY DEF TypeInv, TypeOK, Sides, Other
<1>2. /\ cpc' = [cpc EXCEPT ![c] = "done"] /\ cbuf' = [cbuf EXCEPT ![c] = <<>>]
      /\ UNCHANGED <<job, todo, sent, backup>> /\ Close("client", c)
  BY DEF Finish, GoTo
<1> QED
  BY <1>1, <1>2, CloseEffect DEF Ends, Apart, ClientTypeOK

\* What a read may return: bytes that have arrived or, when there are none,
\* the end of the connection or its reset.
LEMMA ReadCases ==
  ASSUME NetTypeOK, NEW s \in Sides, NEW c \in Clients, NEW r \in Reads(s, c)
  PROVE  \/ /\ r.ret \in 1..Len(inbox[s][c]) /\ r.ret <= MaxInput
            /\ Prompt /\ r.ret < MaxInput => r.ret = Len(inbox[s][c])
            /\ Len(r.data) = r.ret
         \/ /\ inbox[s][c] = <<>> /\ r.data = <<>>
            /\ \/ r.ret \in {0, -1} /\ sock[s][c] = "reset"
               \/ r.ret = 0 /\ sock[Other(s)][c] = "closed"
<1> DEFINE in == inbox[s][c]
<1>1. in \in Seq(Byte)
  BY DEF NetTypeOK
<1>2. CASE \E n \in ChunkLens(Len(in)) :
             r = [ret |-> n, data |-> SubSeq(in, 1, n)]
  <2>1. PICK n \in ChunkLens(Len(in)) :
               r = [ret |-> n, data |-> SubSeq(in, 1, n)]
    BY <1>2
  <2>2. /\ n \in 1..Len(in) /\ n <= MaxInput
        /\ Prompt /\ n < MaxInput => n = Len(in)
    BY <1>1, NetAssumption DEF ChunkLens
  <2>3. Len(SubSeq(in, 1, n)) = n
    BY <1>1, <2>2
  <2> QED
    BY <2>1, <2>2, <2>3
<1>3. CASE r \notin {[ret |-> n, data |-> SubSeq(in, 1, n)] : n \in ChunkLens(Len(in))}
  <2>1. /\ in = <<>>
        /\ \/ /\ r = [ret |-> 0, data |-> <<>>]
              /\ sock[s][c] = "reset" \/ sock[Other(s)][c] = "closed"
           \/ r = [ret |-> -1, data |-> <<>>] /\ sock[s][c] = "reset"
    BY <1>3 DEF Reads
  <2> QED
    BY <2>1
<1> QED
  BY <1>2, <1>3

\* A step of a run keeps its two invariants and touches no other run.
LEMMA ClientKeepsLinks ==
  ASSUME TypeInv, LinkInv, NEW c \in Clients, ClientStep(c)
  PROVE  Linked(c)' /\ OnItsWay(c)' /\ Apart(c) /\ job' = job
<1> USE DEF GoTo
<1>1. /\ NetTypeOK /\ ClientTypeOK /\ "client" \in Sides /\ "server" \in Sides
      /\ Other("client") = "server" /\ Other("server") = "client"
      /\ Linked(c) /\ OnItsWay(c)
  BY DEF TypeInv, TypeOK, Sides, Other, LinkInv
<1>2. /\ cpc[c] \in ClientPc /\ sent[c] \in Nat /\ Size(c) \in Nat
      /\ todo[c] \subseteq FileCodes /\ CurFile(c) \in FileCodes
      /\ todo[c] # {} => CurFile(c) \in todo[c]
      /\ \A s \in Sides : inbox[s][c] \in Seq(Byte) /\ sock[s][c] \in SockState
  BY RunType
<1>3. ASSUME todo'[c] = todo[c], job' = job
      PROVE  CurFile(c)' = CurFile(c) /\ Size(c)' = Size(c)
  BY <1>3 DEF CurFile, Size
<1>4. ASSUME Ends(c), Apart(c), job' = job
      PROVE  Linked(c)' /\ OnItsWay(c)' /\ Apart(c) /\ job' = job
  BY <1>1, <1>2, <1>4 DEF Ends, Linked, OnItsWay, Live, SockState
<1>5. ASSUME NEW what, NEW st, Finish(c, what, st)
      PROVE  Linked(c)' /\ OnItsWay(c)' /\ Apart(c) /\ job' = job
  BY <1>4, <1>5, FinishEnds
<1>6. CASE Connect(c)
  <2>1. PICK pc \in {"sync", "done"}, x \in {"open", "closed"} :
               /\ pc = "done" <=> x = "closed"
               /\ cpc' = [cpc EXCEPT ![c] = pc]
               /\ sock' = [sock EXCEPT !["client"][c] = x,
                                      !["server"][c] = "open"]
    BY <1>6 DEF Connect
  <2>2. UNCHANGED <<inbox, job, todo, sent, cbuf, backup>>
    BY <1>6 DEF Connect
  <2>3. /\ sock'["client"][c] = x /\ sock'["server"][c] = "open"
        /\ cpc'[c] = pc
    BY <1>1, <2>1 DEF NetTypeOK, ClientTypeOK, Sides
  <2>4. Apart(c)
    BY <1>1, <2>1, <2>2 DEF NetTypeOK, ClientTypeOK, Apart, Sides
  <2>5. Linked(c)'
    BY <2>1, <2>3 DEF Linked, Live
  <2>6. cpc[c] = "connect"
    BY <1>6 DEF Connect
  <2>7. OnItsWay(c)'
    BY <1>1, <2>1, <2>2, <2>3, <2>6 DEF OnItsWay
  <2> QED
    BY <2>2, <2>4, <2>5, <2>7
<1>7. CASE ConnectFails(c)
  <2>1. CASE Finish(c, "none", "NETWORKING_ERROR")
    BY <1>5, <2>1
  <2>2. CASE UNCHANGED <<netVars, job, cpc, todo, sent, cbuf, backup>>
    BY <1>1, <1>3, <2>2 DEF netVars, Linked, OnItsWay, Apart
  <2> QED
    BY <1>7, <2>1, <2>2 DEF ConnectFails
<1>8. ASSUME NEW bytes \in Seq(Byte), Write("client", c, bytes),
             cpc[c] \in {"sync", "content"},
             NEW pc \in {"content", "reply", "check"},
             cpc' = [cpc EXCEPT ![c] = pc],
             UNCHANGED <<job, todo, cbuf, backup>>,
             NEW n \in Nat, sent' = [sent EXCEPT ![c] = n],
             pc = "content" => todo[c] # {} /\ n < Size(c),
             pc = "reply" => todo[c] # {} /\ n = Size(c),
             pc = "check" => todo[c] = {}
      PROVE  Linked(c)' /\ OnItsWay(c)' /\ Apart(c) /\ job' = job
  <2>1. cpc'[c] = pc /\ sent'[c] = n
    BY <1>1, <1>8 DEF ClientTypeOK
  <2>2. OnItsWay(c)'
    BY <1>1, <1>3, <1>8, <2>1 DEF OnItsWay
  <2>3. Apart(c)
    BY <1>1, <1>8, WriteEffect DEF Apart, ClientTypeOK
  <2>4. /\ sock'["server"][c] = sock["server"][c]
        /\ \/ sock'["client"][c] = sock["client"][c]
           \/ /\ sock'["client"][c] = "reset"
              /\ ~(sock["client"][c] = "open" /\ sock["server"][c] = "open")
    BY <1>1, <1>8, WriteEffect
  <2>5. Linked(c)'
    BY <1>1, <1>8, <2>1, <2>4 DEF Linked, Live
  <2> QED
    BY <1>8, <2>2, <2>3, <2>5
<1>9. CASE SendHeader(c)
  <2>1. Bytes(Header(c)) \in Seq(Byte)
    BY <1>1, ClientMessages, BytesType
  <2> DEFINE pc == IF Size(c) = 0 THEN "reply" ELSE "content"
  <2>2. /\ Write("client", c, Bytes(Header(c))) /\ cpc[c] = "sync"
        /\ cpc' = [cpc EXCEPT ![c] = pc] /\ sent' = [sent EXCEPT ![c] = 0]
        /\ todo[c] # {} /\ UNCHANGED <<job, todo, cbuf, backup>>
    BY <1>9 DEF SendHeader, Size
  <2>3. /\ pc \in {"content", "reply", "check"} /\ pc # "check"
        /\ pc = "content" => 0 < Size(c)
        /\ pc = "reply" => 0 = Size(c)
    BY <1>2
  <2> HIDE DEF pc
  <2> QED
    BY <1>8, <2>1, <2>2, <2>3
<1>10. CASE SendContent(c)
  <2> DEFINE upto == IF sent[c] + FileChunk < Size(c)
                       THEN sent[c] + FileChunk ELSE Size(c)
             some == SubSeq(Whole(c), sent[c] + 1, upto)
             pc   == IF upto = Size(c) THEN "reply" ELSE "content"
  <2>1. /\ Write("client", c, some) /\ cpc[c] = "content"
        /\ cpc' = [cpc EXCEPT ![c] = pc] /\ sent' = [sent EXCEPT ![c] = upto]
        /\ UNCHANGED <<job, todo, cbuf, backup>>
    BY <1>10 DEF SendContent, Size, Whole
  <2>2. upto \in Nat /\ upto <= Size(c)
    BY <1>2, ClientAssumption
  <2>3. some \in Seq(Byte)
    BY <1>2, <2>2, RunType
  <2>4. todo[c] # {}
    BY <1>1, <2>1 DEF OnItsWay
  <2>5. /\ pc \in {"content", "reply", "check"} /\ pc # "check"
        /\ pc = "content" => upto < Size(c)
        /\ pc = "reply" => upto = Size(c)
    BY <1>2, <2>2
  <2> HIDE DEF upto, pc
  <2> QED
    BY <1>8, <2>1, <2>2, <2>3, <2>4, <2>5
<1>11. CASE SendRepo(c)
  <2>1. Bytes(Request(c)) \in Seq(Byte)
    BY <1>1, <1>11, ClientMessages, BytesType DEF SendRepo
  <2>2. /\ Write("client", c, Bytes(Request(c))) /\ cpc[c] = "sync"
        /\ cpc' = [cpc EXCEPT ![c] = "check"] /\ sent' = sent
        /\ todo[c] = {} /\ UNCHANGED <<job, todo, cbuf, backup>>
    BY <1>11 DEF SendRepo, Synced
  <2>3. sent' = [sent EXCEPT ![c] = sent[c]]
    BY <1>1, <2>2 DEF ClientTypeOK
  <2> QED
    BY <1>2, <1>8, <2>1, <2>2, <2>3
<1>12. CASE ReadMore(c) \/ ReadLast(c)
  <2>1. PICK r \in Reads("client", c) :
               /\ Consume("client", c, r)
               /\ cbuf' = [cbuf EXCEPT ![c] = @ \o r.data]
    BY <1>12 DEF ReadMore, ReadLast
  <2>2. /\ UNCHANGED sock
        /\ \A d \in Clients, t \in Sides :
             d # c \/ t # "client" => inbox'[t][d] = inbox[t][d]
    BY <1>1, <2>1, ConsumeEffect
  <2>3. /\ cpc[c] \in Receiving
        /\ cpc' \in {cpc, [cpc EXCEPT ![c] = Received[cpc[c]]]}
        /\ UNCHANGED <<job, todo, sent, backup>>
    BY <1>1, <1>12 DEF ReadMore, ReadLast, ClientTypeOK
  <2>4. \/ cpc'[c] = cpc[c]
        \/ cpc[c] = "reply" /\ cpc'[c] = "replied"
        \/ cpc[c] = "check" /\ cpc'[c] = "checked"
        \/ cpc[c] = "answer" /\ cpc'[c] = "answered"
    BY <1>1, <2>3 DEF Received, Receiving, ClientTypeOK
  <2>5. Apart(c)
    BY <1>1, <2>1, <2>2, <2>3 DEF Apart, ClientTypeOK
  <2>6. Linked(c)'
    BY <1>1, <2>2, <2>3, <2>4 DEF Linked, Receiving
  <2>7. OnItsWay(c)'
    BY <1>1, <1>3, <2>3, <2>4 DEF OnItsWay, Receiving
  <2> QED
    BY <2>3, <2>5, <2>6, <2>7
<1>13. CASE ReadFails(c)
  <2>1. CASE /\ cpc[c] = "check" /\ cpc' = [cpc EXCEPT ![c] = "answer"]
             /\ UNCHANGED <<netVars, job, todo, sent, cbuf, backup>>
    <3>1. cpc'[c] = "answer" /\ Apart(c)
      BY <1>1, <2>1 DEF Apart, ClientTypeOK, netVars
    <3> QED
      BY <1>1, <1>3, <2>1, <3>1 DEF Linked, OnItsWay, netVars
  <2> QED
    BY <1>5, <1>13, <2>1 DEF ReadFails
<1>14. CASE FileAccepted(c)
  <2>1. /\ cpc[c] = "replied" /\ cpc'[c] = "sync" /\ cbuf'[c] = <<>>
        /\ todo'[c] = todo[c] \ {CurFile(c)}
        /\ backup'[c] \in {backup[c], backup[c] \cup {CurFile(c)}}
        /\ UNCHANGED <<netVars, job, sent>>
    BY <1>1, <1>14 DEF FileAccepted, Accepted, ClientTypeOK
  <2>2. Apart(c)
    BY <1>1, <1>14 DEF FileAccepted, Apart, ClientTypeOK, netVars
  <2>3. Linked(c)'
    BY <1>1, <2>1 DEF Linked, netVars
  <2>4. CurFile(c) \in todo[c]
    BY <1>1, <1>2, <2>1 DEF OnItsWay
  <2>5. OnItsWay(c)'
    BY <1>1, <2>1, <2>4 DEF OnItsWay
  <2> QED
    BY <2>1, <2>2, <2>3, <2>5
<1>15. CASE Checked(c)
  <2>1. /\ cpc[c] = "checked" /\ cpc'[c] = "answer" /\ Apart(c)
        /\ UNCHANGED <<netVars, job, todo, sent, backup>>
    BY <1>1, <1>15 DEF Checked, Apart, ClientTypeOK, netVars
  <2> QED
    BY <1>1, <1>3, <2>1 DEF Linked, OnItsWay, netVars
<1>16. CASE Declines(c) \/ FileMissing(c) \/ ChkDep(c) \/ RepoError(c)
            \/ Sigpipe(c) \/ FileRefused(c) \/ ParserCrash(c) \/ Killed(c)
            \/ Answered(c)
  BY <1>5, <1>16 DEF Declines, FileMissing, ChkDep, RepoError, Sigpipe,
     FileRefused, ParserCrash, Killed, Answered
<1> QED
  BY <1>6, <1>7, <1>9, <1>10, <1>11, <1>12, <1>13, <1>14, <1>15, <1>16
     DEF ClientStep

\* What the server writes is a message to the client it serves.
LEMMA ServerWrites ==
  ASSUME TypeInv, OpenFails \/ ReplyToFile \/ Acknowledge \/ Solve
  PROVE  cur \in Clients /\ \E bytes \in Seq(Byte) : Write("server", cur, bytes)
<1>1. NetTypeOK /\ ServerTypeOK /\ HasClient /\ "server" \in Sides
  BY DEF TypeInv, TypeOK, Sides
<1>2. cur \in Clients
  BY <1>1 DEF OpenFails, ReplyToFile, Acknowledge, Solve, HasClient
<1>3. root.by \in Clients \cup {NoClient}
  BY <1>1 DEF ServerTypeOK, Message
<1>4. CASE OpenFails \/ ReplyToFile \/ Acknowledge
  <2>1. PICK code \in AnswerCodes : Reply(code)
    BY <1>1, <1>4
       DEF OpenFails, ReplyToFile, Acknowledge, AnswerCodes, ServerTypeOK
  <2> DEFINE m == [code |-> code, by |-> root.by, len |-> SmallLen, data |-> 0]
  <2>2. code \in Codes
    BY DEF Codes, JsonCodes
  <2>3. m \in Message
    BY <1>3, <2>2, NetAssumption DEF Message
  <2>4. Write("server", cur, Bytes(m))
    BY <2>1 DEF Reply
  <2> QED
    BY <1>2, <2>3, <2>4, BytesType
<1>5. CASE Solve
  <2>1. PICK n \in AnswerLens,
             answer \in {<<"ANSWER_NO_DEP", 0>>}
                          \cup {<<"ANSWER_OK", k>> : k \in PkgCounts} :
               Write("server", cur,
                     Bytes([code |-> answer[1], by |-> root.by,
                            len |-> n, data |-> answer[2]]))
    BY <1>5 DEF Solve
  <2>2. n \in Nat
    BY ServerAssumption
  <2>3. answer[1] \in Codes /\ answer[2] \in Nat
    <3>1. CASE answer = <<"ANSWER_NO_DEP", 0>>
      BY <3>1 DEF Codes, JsonCodes, AnswerCodes
    <3>2. CASE \E k \in PkgCounts : answer = <<"ANSWER_OK", k>>
      BY <3>2, ServerAssumption DEF Codes, JsonCodes, AnswerCodes
    <3> QED
      BY <3>1, <3>2
  <2>4. [code |-> answer[1], by |-> root.by, len |-> n, data |-> answer[2]]
          \in Message
    BY <1>3, <2>2, <2>3 DEF Message
  <2> QED
    BY <1>2, <2>1, <2>4, BytesType
<1> QED
  BY <1>4, <1>5

\* The client that is served has a connection.
LEMMA ServedIsLive ==
  ASSUME TypeInv, SocketInv, LinkInv, cur \in Clients
  PROVE  /\ sock["server"][cur] \in Live
         /\ cpc[cur] # "connect"
         /\ sock["client"][cur] \in {"open", "closed"}
         /\ sock["client"][cur] = "closed" <=> cpc[cur] = "done"
         /\ cpc[cur] # "done" => sock["server"][cur] = "open"
<1>1. sock["server"][cur] \in Live
  BY NetAssumption DEF SocketInv, NoSocketLeak
<1> QED
  BY <1>1 DEF LinkInv, Linked, Live

\* A step of the server keeps every run's connection and progress.
LEMMA ServerKeepsLinks ==
  ASSUME TypeInv, SocketInv, LinkInv, ServerStep \/ ServerFault,
         UNCHANGED clientVars
  PROVE  LinkInv'
<1>1. /\ NetTypeOK /\ HasClient /\ "client" \in Sides /\ "server" \in Sides
      /\ Other("client") = "server" /\ Other("server") = "client"
  BY DEF TypeInv, TypeOK, Sides, Other
<1>2. \A c \in Clients : OnItsWay(c)'
  BY DEF LinkInv, OnItsWay, Size, CurFile, clientVars
<1>3. ASSUME \A c \in Clients : Linked(c)' PROVE LinkInv'
  BY <1>2, <1>3 DEF LinkInv
<1>4. ASSUME UNCHANGED <<inbox, sock>> PROVE LinkInv'
  BY <1>3, <1>4 DEF LinkInv, Linked, clientVars
<1>5. ASSUME NEW c \in Clients, c = cur,
             \A d \in Clients, t \in Sides :
               d # c => inbox'[t][d] = inbox[t][d] /\ sock'[t][d] = sock[t][d],
             sock'["server"][c] \in Live =>
               sock'["client"][c] \in {"open", "closed"},
             sock'["server"][c] = "reset" => sock'["client"][c] = "closed",
             \/ sock'["client"][c] = sock["client"][c]
             \/ sock["client"][c] = "open" /\ sock'["client"][c] = "reset"
      PROVE  LinkInv'
  <2>1. ASSUME NEW d \in Clients, d # c PROVE Linked(d)'
    <3>1. Linked(d) /\ cpc' = cpc
      BY DEF LinkInv, clientVars
    <3>2. \A t \in Sides : inbox'[t][d] = inbox[t][d] /\ sock'[t][d] = sock[t][d]
      BY <1>5, <2>1
    <3> QED
      BY <1>1, <3>1, <3>2 DEF Linked
  <2>2. Linked(c)'
    <3>1. Linked(c) /\ cpc' = cpc /\ cpc[c] # "connect"
      BY <1>5, ServedIsLive DEF LinkInv, clientVars
    <3> QED
      BY <1>5, <3>1 DEF Linked, Live
  <2> QED
    BY <1>3, <2>1, <2>2
<1>6. ASSUME NEW c \in Clients, c = cur, NEW r \in Reads("server", c),
             Consume("server", c, r)
      PROVE  LinkInv'
  <2>1. /\ UNCHANGED sock
        /\ \A d \in Clients, t \in Sides :
             d # c \/ t # "server" => inbox'[t][d] = inbox[t][d]
    BY <1>1, <1>6, ConsumeEffect
  <2>2. Linked(c)
    BY DEF LinkInv
  <2> QED
    BY <1>5, <1>6, <2>1, <2>2 DEF Linked
<1>7. ASSUME cur \in Clients, NEW bytes \in Seq(Byte),
             Write("server", cur, bytes)
      PROVE  LinkInv'
  <2>1. /\ \A d \in Clients, t \in Sides :
             d # cur => inbox'[t][d] = inbox[t][d] /\ sock'[t][d] = sock[t][d]
        /\ sock'["client"][cur] = sock["client"][cur]
        /\ \/ sock' = sock
           \/ /\ ~(sock["server"][cur] = "open" /\ sock["client"][cur] = "open")
              /\ sock'["server"][cur] = "reset"
    BY <1>1, <1>7, WriteEffect
  <2>2. sock["client"][cur] = "closed" \/ sock' = sock
    BY <1>7, <2>1, ServedIsLive
  <2> QED
    BY <1>5, <1>7, <2>1, <2>2, ServedIsLive DEF LinkInv, Linked
<1>8. CASE Accept \/ RecvFails \/ Parse \/ Ignore \/ OpenFile \/ StoreReadFails
           \/ CloseFile \/ Restart
  BY <1>4, <1>8 DEF Accept, RecvFails, Parse, Ignore, OpenFile, StoreReadFails,
     CloseFile, Restart, netVars
<1>9. CASE RecvMore \/ RecvLast \/ StoreMore \/ StoreChunk \/ StoreFails
  <2>1. cur \in Clients
    BY <1>1, <1>9 DEF RecvMore, RecvLast, StoreMore, StoreChunk, StoreFails,
       HasClient
  <2>2. PICK r \in Reads("server", cur) : Consume("server", cur, r)
    BY <1>9 DEF RecvMore, RecvLast, StoreMore, StoreChunk, StoreFails
  <2> QED
    BY <1>6, <2>1, <2>2
<1>10. CASE OpenFails \/ ReplyToFile \/ Acknowledge \/ Solve
  <2>1. cur \in Clients /\ \E bytes \in Seq(Byte) : Write("server", cur, bytes)
    BY <1>10, ServerWrites
  <2> QED
    BY <1>7, <2>1
<1>11. CASE CloseClient
  <2>1. cur \in Clients /\ Close("server", cur)
    BY <1>1, <1>11 DEF CloseClient, HasClient
  <2>2. /\ \A d \in Clients, t \in Sides :
             d # cur => inbox'[t][d] = inbox[t][d] /\ sock'[t][d] = sock[t][d]
        /\ sock'["server"][cur] = "closed"
        /\ \/ sock'["client"][cur] = sock["client"][cur]
           \/ sock["client"][cur] = "open" /\ sock'["client"][cur] = "reset"
    BY <1>1, <2>1, CloseEffect, ServedIsLive
  <2> QED
    BY <1>5, <2>1, <2>2 DEF Live
<1>12. CASE Segfault \/ ServerSigpipe \/ Signalled \/ PowerLost
  <2>1. ServerGone
    BY <1>12 DEF Segfault, ServerSigpipe, Signalled, PowerLost, Dies
  <2>2. \A d \in Clients :
          /\ sock'["server"][d] = IF sock["server"][d] \in Live
                                    THEN "closed" ELSE sock["server"][d]
          /\ sock'["client"][d] = sock["client"][d]
               \/ (sock["client"][d] = "open" /\ sock'["client"][d] = "reset")
          /\ inbox'["server"][d] = <<>>
          /\ inbox'["client"][d] = inbox["client"][d]
    BY <1>1, <2>1 DEF ServerGone, NetTypeOK
  <2>3. ASSUME NEW d \in Clients PROVE Linked(d)'
    <3>1. Linked(d)
      BY DEF LinkInv
    <3>2. cpc' = cpc
      BY DEF clientVars
    <3> QED
      BY <2>2, <3>1, <3>2 DEF Linked, Live
  <2> QED
    BY <1>3, <2>3
<1> QED
  BY <1>8, <1>9, <1>10, <1>11, <1>12 DEF ServerStep, ServerFault

\* A run begins with everything still to do.
LEMMA LinksInit == Init => LinkInv
<1> SUFFICES ASSUME Init, NEW c \in Clients PROVE Linked(c) /\ OnItsWay(c)
  BY DEF LinkInv
<1>1. Linked(c)
  BY DEF Init, NetInit, ClientInit, Linked, Live, Sides
<1>2. OnItsWay(c)
  BY DEF Init, ClientInit, OnItsWay
<1> QED
  BY <1>1, <1>2

\* Every step keeps LinkInv.
LEMMA LinksStep == TypeInv /\ SocketInv /\ LinkInv /\ [Next]_vars => LinkInv'
<1> SUFFICES ASSUME TypeInv, SocketInv, LinkInv, [Next]_vars PROVE LinkInv'
  OBVIOUS
<1>1. CASE UNCHANGED vars
  BY <1>1 DEF vars, netVars, clientVars, LinkInv, Linked, OnItsWay, Size, CurFile
<1>2. ASSUME NEW c \in Clients, ClientStep(c) PROVE LinkInv'
  <2>1. Linked(c)' /\ OnItsWay(c)' /\ Apart(c)
    BY <1>2, ClientKeepsLinks
  <2>2. \A d \in Clients \ {c} : Linked(d)' /\ OnItsWay(d)'
    BY <2>1 DEF LinkInv, Linked, OnItsWay, Size, CurFile, Apart, Sides
  <2> QED
    BY <2>1, <2>2 DEF LinkInv
<1> QED
  BY <1>1, <1>2, ServerKeepsLinks DEF Next

\* LinkInv always holds.
LEMMA LinkInvariant == Spec => []LinkInv
BY LinksInit, LinksStep, TypeInvariant, SocketInvariant, PTL DEF Spec

-----------------------------------------------------------------------------
(***************************************************************************)
(* The order of stored bytes.                                              *)
(***************************************************************************)
\* y may come next to x: of one message, only its next byte.
Follows(x, y) == Junk \notin {x, y} /\ x.msg = y.msg => y.i = x.i + 1
Ordered(s)    == \A k \in 1..(Len(s) - 1) : Follows(s[k], s[k + 1])

\* What the server has stored of c, is about to store and has yet to read.
Stream(c) ==
  IF c = cur /\ spc = "store"
    THEN (disk[root.code] \o sbuf) \o inbox["server"][c]
    ELSE inbox["server"][c]

Joined(c) == sock["client"][c] = "open" /\ sock["server"][c] = "open"

\* The codes of the messages a run with these files to send may still write.
LeftCodes(files) == files \cup {ContentCode[f] : f \in files} \cup GetCodes

\* What c writes next may come after x.
Continues(c, x) ==
  /\ cpc[c] = "sync" => x.msg.code \notin LeftCodes(todo[c])
  /\ cpc[c] \in {"content", "reply", "replied"} =>
       x.msg.code \notin LeftCodes(todo[c] \ {CurFile(c)})
  /\ cpc[c] = "content" /\ x.msg.code = ContentCode[CurFile(c)] =>
       x.i = sent[c]

Streams(c) ==
  /\ Ordered(Stream(c))
  /\ Joined(c) /\ Stream(c) # <<>> => Continues(c, Stream(c)[Len(Stream(c))])

\* Inductive form of StoredInOrder.
OrderInv ==
  /\ \A c \in Clients : Streams(c)
  /\ \A f \in FileCodes : Ordered(disk[f])
  /\ spc = "dispatch" => sbuf = <<>>

\* Bytes are put together in any order.
LEMMA ConcatBytes ==
  ASSUME NEW a \in Seq(Byte), NEW b \in Seq(Byte), NEW d \in Seq(Byte)
  PROVE  (a \o b) \o d = a \o (b \o d)
BY ConcatAssociative

\* Two parts are in order when each is and the second follows the first.
LEMMA OrderedParts ==
  ASSUME NEW a \in Seq(Byte), NEW b \in Seq(Byte)
  PROVE  /\ Ordered(a \o b) <=>
              /\ Ordered(a) /\ Ordered(b)
              /\ a # <<>> /\ b # <<>> => Follows(a[Len(a)], b[1])
         /\ b # <<>> => /\ a \o b # <<>>
                        /\ (a \o b)[Len(a \o b)] = b[Len(b)]
<1> DEFINE s == a \o b
<1>1. /\ Len(a) \in Nat /\ Len(b) \in Nat /\ Len(s) = Len(a) + Len(b)
      /\ \A k \in 1..Len(a) : s[k] = a[k]
      /\ \A k \in 1..Len(b) : s[Len(a) + k] = b[k]
      /\ a # <<>> <=> Len(a) > 0
      /\ b # <<>> <=> Len(b) > 0
      /\ s # <<>> <=> Len(s) > 0
  OBVIOUS
<1> HIDE DEF s
<1>2. ASSUME Ordered(s)
      PROVE  /\ Ordered(a) /\ Ordered(b)
             /\ a # <<>> /\ b # <<>> => Follows(a[Len(a)], b[1])
  <2>1. ASSUME NEW k \in 1..(Len(a) - 1) PROVE Follows(a[k], a[k + 1])
    <3>1. k \in 1..(Len(s) - 1) /\ k \in 1..Len(a) /\ k + 1 \in 1..Len(a)
      BY <1>1
    <3> QED
      BY <1>1, <1>2, <3>1 DEF Ordered
  <2>2. ASSUME NEW k \in 1..(Len(b) - 1) PROVE Follows(b[k], b[k + 1])
    <3>1. /\ Len(a) + k \in 1..(Len(s) - 1)
          /\ k \in 1..Len(b) /\ k + 1 \in 1..Len(b)
          /\ (Len(a) + k) + 1 = Len(a) + (k + 1)
      BY <1>1
    <3>2. Follows(s[Len(a) + k], s[(Len(a) + k) + 1])
      BY <1>2, <3>1 DEF Ordered
    <3>3. s[Len(a) + k] = b[k] /\ s[Len(a) + (k + 1)] = b[k + 1]
      BY <1>1, <3>1
    <3> QED
      BY <3>1, <3>2, <3>3
  <2>3. ASSUME a # <<>>, b # <<>> PROVE Follows(a[Len(a)], b[1])
    <3>1. /\ Len(a) \in 1..(Len(s) - 1) /\ Len(a) \in 1..Len(a) /\ 1 \in 1..Len(b)
      BY <1>1, <2>3
    <3>2. Follows(s[Len(a)], s[Len(a) + 1])
      BY <1>2, <3>1 DEF Ordered
    <3> QED
      BY <1>1, <3>1, <3>2
  <2> QED
    BY <2>1, <2>2, <2>3 DEF Ordered
<1>3. ASSUME Ordered(a), Ordered(b),
             a # <<>> /\ b # <<>> => Follows(a[Len(a)], b[1])
      PROVE  Ordered(s)
  <2> SUFFICES ASSUME NEW k \in 1..(Len(s) - 1) PROVE Follows(s[k], s[k + 1])
    BY DEF Ordered
  <2>1. CASE k < Len(a)
    <3>1. k \in 1..(Len(a) - 1) /\ k \in 1..Len(a) /\ k + 1 \in 1..Len(a)
      BY <1>1, <2>1
    <3> QED
      BY <1>1, <1>3, <3>1 DEF Ordered
  <2>2. CASE k = Len(a)
    <3>1. /\ a # <<>> /\ b # <<>> /\ Len(a) \in 1..Len(a) /\ 1 \in 1..Len(b)
      BY <1>1, <2>2
    <3>2. s[k] = a[Len(a)] /\ s[k + 1] = b[1]
      BY <1>1, <2>2, <3>1
    <3> QED
      BY <1>3, <3>1, <3>2
  <2>3. CASE k > Len(a)
    <3>1. PICK j \in 1..(Len(b) - 1) : k = Len(a) + j
      <4>1. k - Len(a) \in 1..(Len(b) - 1) /\ k = Len(a) + (k - Len(a))
        BY <1>1, <2>3
      <4> QED
        BY <4>1
    <3>2. j \in 1..Len(b) /\ j + 1 \in 1..Len(b) /\ k + 1 = Len(a) + (j + 1)
      BY <1>1, <3>1
    <3>3. s[k] = b[j] /\ s[k + 1] = b[j + 1]
      BY <1>1, <3>1, <3>2
    <3> QED
      BY <1>3, <3>1, <3>3 DEF Ordered
  <2> QED
    BY <1>1, <2>1, <2>2, <2>3
<1>4. ASSUME b # <<>> PROVE s # <<>> /\ s[Len(s)] = b[Len(b)]
  <2>1. Len(b) \in 1..Len(b) /\ Len(s) > 0
    BY <1>1, <1>4
  <2> QED
    BY <1>1, <2>1
<1> QED
  BY <1>2, <1>3, <1>4 DEF s

\* The beginning of what is in order is in order.
LEMMA OrderedPrefix ==
  ASSUME NEW s \in Seq(Byte), Ordered(s), NEW n \in 0..Len(s)
  PROVE  SubSeq(s, 1, n) \in Seq(Byte) /\ Ordered(SubSeq(s, 1, n))
<1>1. /\ SubSeq(s, 1, n) \in Seq(Byte) /\ Len(SubSeq(s, 1, n)) = n
      /\ \A k \in 1..n : SubSeq(s, 1, n)[k] = s[k]
  OBVIOUS
<1>2. ASSUME NEW k \in 1..(n - 1) PROVE Follows(s[k], s[k + 1])
  BY DEF Ordered
<1>3. \A k \in 1..(n - 1) : k \in 1..n /\ k + 1 \in 1..n
  OBVIOUS
<1> QED
  BY <1>1, <1>2, <1>3 DEF Ordered

\* b holds the bytes of m from the i-th on.
Piece(b, m, i) ==
  /\ b \in Seq(Byte) /\ b # <<>>
  /\ \A k \in 1..Len(b) : b[k].msg = m /\ b[k].i = i + k - 1

\* A piece of a message is in order, and ends where its length says.
LEMMA PieceOrder ==
  ASSUME NEW m, NEW i \in Nat, NEW b, Piece(b, m, i)
  PROVE  /\ Ordered(b) /\ b[1].msg = m /\ b[1].i = i
         /\ b[Len(b)].msg = m /\ b[Len(b)].i = i + Len(b) - 1
<1>1. /\ Len(b) \in Nat /\ 1 \in 1..Len(b) /\ Len(b) \in 1..Len(b)
      /\ \A k \in 1..(Len(b) - 1) :
           k \in Nat /\ k \in 1..Len(b) /\ k + 1 \in 1..Len(b)
  <2>1. b \in Seq(Byte) /\ b # <<>>
    BY DEF Piece
  <2> QED
    BY <2>1
<1>2. ASSUME NEW k \in 1..(Len(b) - 1) PROVE Follows(b[k], b[k + 1])
  <2>1. b[k].i = i + k - 1 /\ b[k + 1].i = i + (k + 1) - 1
    BY <1>1 DEF Piece
  <2>2. k \in Nat
    BY <1>1
  <2>3. b[k + 1].i = b[k].i + 1
    BY <2>1, <2>2
  <2> QED
    BY <2>3 DEF Follows
<1>3. b[1].i = i
  BY <1>1 DEF Piece
<1> QED
  BY <1>1, <1>2, <1>3 DEF Piece, Ordered

\* What a client writes is a piece of one message.
LEMMA PieceOf ==
  ASSUME NEW m \in Message, NEW i \in 1..m.len, NEW j \in i..m.len
  PROVE  /\ Piece(SubSeq(Bytes(m), i, j), m, i)
         /\ Len(SubSeq(Bytes(m), i, j)) = j - i + 1
         /\ Piece(Bytes(m), m, 1)
<1>1. m.len \in Nat /\ Bytes(m) \in Seq(Byte)
  BY BytesType DEF Message
<1>2. Len(Bytes(m)) = m.len
  BY <1>1 DEF Bytes
<1>3. \A k \in 1..m.len : Bytes(m)[k].msg = m /\ Bytes(m)[k].i = k
  BY <1>1 DEF Bytes
<1>4. Piece(Bytes(m), m, 1)
  BY <1>1, <1>2, <1>3 DEF Piece
<1> DEFINE b == SubSeq(Bytes(m), i, j)
<1>5. /\ b \in Seq(Byte) /\ Len(b) = j - i + 1 /\ b # <<>>
      /\ \A k \in 1..Len(b) : b[k] = Bytes(m)[i + k - 1] /\ i + k - 1 \in 1..m.len
  BY <1>1, <1>2
<1>6. Piece(b, m, i)
  <2>1. ASSUME NEW k \in 1..Len(b) PROVE b[k].msg = m /\ b[k].i = i + k - 1
    <3>1. b[k] = Bytes(m)[i + k - 1] /\ i + k - 1 \in 1..m.len
      BY <1>5
    <3>2. Bytes(m)[i + k - 1].msg = m /\ Bytes(m)[i + k - 1].i = i + k - 1
      BY <1>3, <3>1
    <3> HIDE DEF b
    <3> QED
      BY <3>1, <3>2
  <2> HIDE DEF b
  <2> QED
    BY <1>5, <2>1 DEF Piece
<1> QED
  BY <1>4, <1>5, <1>6

\* What is on its way from a client is a sequence of bytes.
LEMMA StreamParts ==
  ASSUME TypeInv, NEW c \in Clients
  PROVE  /\ Stream(c) \in Seq(Byte)
         /\ inbox["server"][c] \in Seq(Byte) /\ sbuf \in Seq(Byte)
         /\ spc = "store" => disk[root.code] \in Seq(Byte)
         /\ c # cur \/ spc # "store" => Stream(c) = inbox["server"][c]
<1>1. inbox["server"][c] \in Seq(Byte) /\ sbuf \in Seq(Byte)
  BY DEF TypeInv, TypeOK, NetTypeOK, ServerTypeOK, Sides
<1>2. spc = "store" => disk[root.code] \in Seq(Byte)
  BY DEF TypeInv, TypeOK, HasClient, ServerTypeOK
<1>3. Stream(c) \in Seq(Byte)
  <2>1. CASE c = cur /\ spc = "store"
    <3>1. disk[root.code] \o sbuf \in Seq(Byte)
      BY <1>1, <1>2, <2>1
    <3>2. Stream(c) = (disk[root.code] \o sbuf) \o inbox["server"][c]
      BY <2>1 DEF Stream
    <3> QED
      BY <1>1, <3>1, <3>2
  <2>2. CASE ~(c = cur /\ spc = "store")
    BY <1>1, <2>2 DEF Stream
  <2> QED
    BY <2>1, <2>2
<1> QED
  BY <1>1, <1>2, <1>3 DEF Stream

\* What the server has taken away leaves the rest in order.
LEMMA StreamGoesOn ==
  ASSUME NEW c \in Clients, Streams(c), UNCHANGED clientVars,
         NEW a \in Seq(Byte), NEW b \in Seq(Byte),
         Stream(c) = a \o b, Stream(c)' = b, Joined(c)' => Joined(c)
  PROVE  Streams(c)'
<1>1. Ordered(a \o b) /\ (Joined(c) /\ a \o b # <<>> =>
                             Continues(c, (a \o b)[Len(a \o b)]))
  BY DEF Streams
<1>2. Ordered(b) /\ (b # <<>> => a \o b # <<>>
                                   /\ (a \o b)[Len(a \o b)] = b[Len(b)])
  BY <1>1, OrderedParts
<1>3. ASSUME NEW x, Continues(c, x) PROVE Continues(c, x)'
  BY <1>3 DEF Continues, CurFile, clientVars
<1>4. Joined(c)' /\ b # <<>> => Continues(c, b[Len(b)])'
  BY <1>1, <1>2, <1>3
<1> QED
  BY <1>2, <1>4 DEF Streams

\* Nothing on its way is in order.
LEMMA NoStream ==
  ASSUME NEW c \in Clients, Stream(c)' = <<>>
  PROVE  Streams(c)'
BY DEF Streams, Ordered

\* A step of the server that leaves the files alone and starts no transfer.
LEMMA StreamStays ==
  ASSUME TypeInv, NEW c \in Clients, Streams(c), UNCHANGED clientVars,
         inbox'["server"][c] = inbox["server"][c],
         c # cur \/ spc # "store", c # cur' \/ spc' # "store",
         Joined(c)' => Joined(c)
  PROVE  Streams(c)'
<1>1. PICK b \in Seq(Byte) : b = inbox["server"][c]
  BY StreamParts
<1>2. Stream(c) = b /\ Stream(c)' = b
  BY <1>1 DEF Stream
<1>3. <<>> \in Seq(Byte) /\ <<>> \o b = b
  OBVIOUS
<1> QED
  BY <1>2, <1>3, StreamGoesOn

\* A read of the server while it receives a message.
LEMMA RecvKeepsOrder ==
  ASSUME TypeInv, OrderInv, RecvMore \/ RecvLast, UNCHANGED clientVars
  PROVE  OrderInv'
<1>1. /\ NetTypeOK /\ cur \in Clients /\ "server" \in Sides
      /\ spc = "recv" /\ spc' \in {"recv", "parse"} /\ UNCHANGED <<cur, disk>>
  BY DEF TypeInv, TypeOK, HasClient, Sides, RecvMore, RecvLast
<1>2. PICK r \in Reads("server", cur) : Consume("server", cur, r)
  BY DEF RecvMore, RecvLast
<1>3. /\ UNCHANGED sock
      /\ \A d \in Clients : d # cur =>
           inbox'["server"][d] = inbox["server"][d]
      /\ r.data \in Seq(Byte) /\ inbox'["server"][cur] \in Seq(Byte)
      /\ inbox["server"][cur] = r.data \o inbox'["server"][cur]
  BY <1>1, <1>2, ConsumeEffect, ZenonT(30)
<1>4. ASSUME NEW c \in Clients PROVE Streams(c)'
  <2>1. Streams(c) /\ (Joined(c)' => Joined(c))
    BY <1>3 DEF OrderInv, Joined
  <2>2. CASE c # cur
    BY <1>1, <1>3, <2>1, <2>2, StreamStays
  <2>3. CASE c = cur
    <3>1. PICK b \in Seq(Byte) : b = inbox'["server"][c]
      BY <1>3, <2>3
    <3>2. PICK a \in Seq(Byte) : a = r.data
      BY <1>3
    <3>3. Stream(c) = a \o b /\ Stream(c)' = b
      BY <1>1, <1>3, <2>3, <3>1, <3>2 DEF Stream
    <3> QED
      BY <2>1, <3>3, StreamGoesOn
  <2> QED
    BY <2>2, <2>3
<1> QED
  BY <1>1, <1>4 DEF OrderInv

\* A read of the server while it stores a file.
LEMMA StoreReads ==
  ASSUME TypeInv, cur \in Clients, spc = "store", NEW r \in Reads("server", cur),
         Consume("server", cur, r)
  PROVE  /\ \E D, E, J \in Seq(Byte) :
              /\ D = disk[root.code] /\ E = sbuf \o r.data
              /\ J = inbox'["server"][cur]
              /\ Stream(cur) = (D \o E) \o J
         /\ UNCHANGED sock
         /\ \A d \in Clients : d # cur =>
              inbox'["server"][d] = inbox["server"][d]
<1>1. NetTypeOK /\ "server" \in Sides
  BY DEF TypeInv, TypeOK, Sides
<1>2. /\ UNCHANGED sock
      /\ \A d \in Clients : d # cur =>
           inbox'["server"][d] = inbox["server"][d]
      /\ r.data \in Seq(Byte) /\ inbox'["server"][cur] \in Seq(Byte)
      /\ inbox["server"][cur] = r.data \o inbox'["server"][cur]
  BY <1>1, ConsumeEffect
<1>3. PICK D, S, data, J \in Seq(Byte) :
             /\ D = disk[root.code] /\ S = sbuf /\ data = r.data
             /\ J = inbox'["server"][cur]
  BY <1>2, StreamParts
<1>4. Stream(cur) = (D \o S) \o (data \o J)
  BY <1>2, <1>3 DEF Stream
<1>5. D \o S \in Seq(Byte) /\ S \o data \in Seq(Byte)
  OBVIOUS
<1>6. (D \o S) \o (data \o J) = ((D \o S) \o data) \o J
  <2>1. PICK P \in Seq(Byte) : P = D \o S
    BY <1>5
  <2>2. (P \o data) \o J = P \o (data \o J)
    BY ConcatBytes
  <2> QED
    BY <2>1, <2>2
<1>7. (D \o S) \o data = D \o (S \o data)
  BY ConcatBytes
<1>8. \E E \in Seq(Byte) : E = sbuf \o r.data /\ Stream(cur) = (D \o E) \o J
  BY <1>3, <1>4, <1>5, <1>6, <1>7
<1> QED
  BY <1>2, <1>3, <1>8

\* A step of the server while it stores a file.  Only a failed read makes it
\* drop a byte, and then nothing more arrives.
LEMMA StoreKeepsOrder ==
  ASSUME TypeInv, OrderInv, StoreMore \/ StoreChunk \/ StoreFails,
         UNCHANGED clientVars
  PROVE  OrderInv'
<1>1. /\ NetTypeOK /\ ServerTypeOK /\ cur \in Clients /\ "server" \in Sides
      /\ spc = "store" /\ UNCHANGED <<cur, root>> /\ root.code \in FileCodes
  BY DEF TypeInv, TypeOK, HasClient, Sides, StoreMore, StoreChunk, StoreFails
<1>2. PICK r \in Reads("server", cur) :
        /\ Consume("server", cur, r)
        /\ \/ /\ sbuf' = sbuf \o r.data /\ UNCHANGED <<spc, disk>>
           \/ /\ r.ret = -1 => sbuf # <<>>
              /\ sbuf' = <<>> /\ spc' \in {"store", "reply"}
              /\ disk' = [disk EXCEPT ![root.code] =
                            disk[root.code] \o Chunk(r)]
           \/ /\ sbuf' = <<>> /\ spc' = "reply"
              /\ \E n \in 0..(Len(sbuf \o r.data) - 1) :
                   disk' = [disk EXCEPT ![root.code] =
                              disk[root.code] \o SubSeq(sbuf \o r.data, 1, n)]
  <2>1. CASE StoreMore
    BY <2>1 DEF StoreMore
  <2>2. CASE StoreChunk
    BY <2>2 DEF StoreChunk, AfterChunk
  <2>3. CASE StoreFails
    <3>1. PICK r \in Reads("server", cur) :
            /\ r.ret = -1 => sbuf # <<>>
            /\ Consume("server", cur, r)
            /\ \E n \in 0..(Len(Chunk(r)) - 1) :
                 disk' = [disk EXCEPT ![root.code] =
                            disk[root.code] \o SubSeq(Chunk(r), 1, n)]
      BY <2>3 DEF StoreFails
    <3>n. PICK n \in 0..(Len(Chunk(r)) - 1) :
            disk' = [disk EXCEPT ![root.code] =
                       disk[root.code] \o SubSeq(Chunk(r), 1, n)]
      BY <3>1
    <3>2. sbuf \in Seq(Byte) /\ r.data \in Seq(Byte)
      BY <1>1, <3>1, ConsumeEffect DEF ServerTypeOK
    <3>3. CASE r.ret # -1
      <4>1. Chunk(r) = sbuf \o r.data /\ Len(sbuf \o r.data) \in Nat
        BY <3>2, <3>3 DEF Chunk
      <4>2. n \in 0..(Len(sbuf \o r.data) - 1)
        BY <3>n, <4>1
      <4> QED
        BY <2>3, <3>1, <3>n, <4>1, <4>2 DEF StoreFails
    <3>4. CASE r.ret = -1
      <4>1. r.data = <<>>
        BY <1>1, <3>1, <3>4, ReadCases, SMTT(30)
      <4>2. /\ Len(sbuf) - 1 \in Nat /\ Chunk(r) = SubSeq(sbuf, 1, Len(sbuf) - 1)
            /\ Len(Chunk(r)) = Len(sbuf) - 1 /\ sbuf \o r.data = sbuf
        BY <3>1, <3>2, <3>4, <4>1 DEF Chunk
      <4>3. n \in 0..(Len(sbuf \o r.data) - 1)
        BY <3>n, <3>2, <4>2
      <4>4. SubSeq(Chunk(r), 1, n) = SubSeq(sbuf \o r.data, 1, n)
        BY <3>n, <3>2, <4>2
      <4> QED
        BY <2>3, <3>1, <3>n, <4>3, <4>4 DEF StoreFails
    <3> QED
      BY <3>3, <3>4
  <2> QED
    BY <2>1, <2>2, <2>3
<1>3. PICK D, E, J \in Seq(Byte) :
        /\ D = disk[root.code] /\ E = sbuf \o r.data
        /\ J = inbox'["server"][cur]
        /\ Stream(cur) = (D \o E) \o J
  BY <1>1, <1>2, StoreReads
<1>4. /\ UNCHANGED sock
      /\ \A d \in Clients : d # cur =>
           inbox'["server"][d] = inbox["server"][d]
  BY <1>1, <1>2, StoreReads
<1>5. \A c \in Clients : Streams(c) /\ (Joined(c)' => Joined(c))
  BY <1>4 DEF OrderInv, Joined
<1>6. PICK X, Y \in Seq(Byte) : X = D \o E /\ Y = X \o J
  <2>1. D \o E \in Seq(Byte) /\ (D \o E) \o J \in Seq(Byte)
    OBVIOUS
  <2> QED
    BY <2>1
<1>e. <<>> \in Seq(Byte) /\ <<>> \o Y = Y /\ X \o <<>> = X
  OBVIOUS
<1>7. Ordered(X)
  <2>1. Ordered(X \o J)
    BY <1>1, <1>3, <1>5, <1>6 DEF Streams
  <2> QED
    BY <2>1, OrderedParts
<1>8. /\ Ordered(D) /\ Ordered(E)
      /\ D # <<>> /\ E # <<>> => Follows(D[Len(D)], E[1])
  BY <1>6, <1>7, OrderedParts
<1>9. ASSUME NEW n \in 0..Len(E)
      PROVE  SubSeq(E, 1, n) \in Seq(Byte) /\ Ordered(D \o SubSeq(E, 1, n))
  <2>1. SubSeq(E, 1, n) \in Seq(Byte) /\ Ordered(SubSeq(E, 1, n))
    BY <1>8, <1>9, OrderedPrefix
  <2>2. SubSeq(E, 1, n) # <<>> => E # <<>> /\ SubSeq(E, 1, n)[1] = E[1]
    OBVIOUS
  <2> QED
    BY <1>8, <2>1, <2>2, OrderedParts
<1>c. PICK c \in Clients : c = cur /\ c = cur'
  BY <1>1
<1>10. ASSUME NEW d \in Clients, d # c PROVE Streams(d)'
  BY <1>1, <1>4, <1>5, <1>10, <1>c, StreamStays
<1>11. ASSUME Stream(c)' \in {J, Y} PROVE Streams(c)'
  <2>1. Stream(c) = X \o J /\ Streams(c) /\ (Joined(c)' => Joined(c))
    BY <1>3, <1>5, <1>6, <1>c
  <2>2. CASE Stream(c)' = J
    BY <2>1, <2>2, StreamGoesOn
  <2>3. CASE Stream(c)' = Y
    <3>1. Stream(c) = <<>> \o Y
      BY <1>6, <1>e, <2>1
    <3> QED
      BY <1>e, <2>1, <2>3, <3>1, StreamGoesOn
  <2> QED
    BY <1>11, <2>2, <2>3
<1>12. ASSUME NEW x \in Seq(Byte), Ordered(x),
              disk' = [disk EXCEPT ![root.code] = x]
       PROVE  (\A f \in FileCodes : Ordered(disk'[f])) /\ disk'[root.code] = x
  BY <1>1, <1>12 DEF OrderInv, ServerTypeOK
<1>13. ASSUME Streams(c)', \A f \in FileCodes : Ordered(disk'[f])
       PROVE  OrderInv'
  <2>1. spc' # "dispatch"
    BY <1>1, <1>2
  <2> QED
    BY <1>10, <1>13, <2>1 DEF OrderInv
<1>14. CASE sbuf' = sbuf \o r.data /\ UNCHANGED <<spc, disk>>
  <2>1. Stream(c)' = Y
    BY <1>1, <1>3, <1>6, <1>14, <1>c DEF Stream
  <2>2. \A f \in FileCodes : Ordered(disk'[f])
    BY <1>14 DEF OrderInv
  <2> QED
    BY <1>11, <1>13, <2>1, <2>2
<1>15. CASE /\ r.ret # -1 /\ sbuf' = <<>>
            /\ disk' = [disk EXCEPT ![root.code] = disk[root.code] \o Chunk(r)]
  <2>1. disk' = [disk EXCEPT ![root.code] = X]
    BY <1>3, <1>6, <1>15 DEF Chunk
  <2>2. (\A f \in FileCodes : Ordered(disk'[f])) /\ disk'[root.code] = X
    BY <1>7, <1>12, <2>1
  <2>3. Stream(c)' \in {J, Y}
    BY <1>1, <1>3, <1>6, <1>e, <1>15, <1>c, <2>2 DEF Stream
  <2> QED
    BY <1>11, <1>13, <2>2, <2>3
<1>16. CASE /\ r.ret = -1 /\ sbuf # <<>> /\ sbuf' = <<>>
            /\ disk' = [disk EXCEPT ![root.code] = disk[root.code] \o Chunk(r)]
  <2>1. /\ inbox["server"][cur] = <<>> /\ r.data = <<>>
        /\ sock["server"][cur] = "reset"
    BY <1>1, <1>2, <1>16, ReadCases, SMTT(30)
  <2>2. sbuf = E /\ J = <<>>
    <3>1. sbuf \in Seq(Byte)
      BY <1>1 DEF ServerTypeOK
    <3>2. inbox["server"][cur] = r.data \o inbox'["server"][cur]
      BY <1>1, <1>2, ConsumeEffect
    <3> QED
      BY <1>3, <2>1, <3>1, <3>2
  <2> DEFINE x == SubSeq(E, 1, Len(E) - 1)
  <2>3. Len(E) - 1 \in 0..Len(E)
    BY <1>16, <2>2
  <2>4. x \in Seq(Byte) /\ Ordered(D \o x)
    BY <1>9, <2>3
  <2>5. disk' = [disk EXCEPT ![root.code] = D \o x]
    BY <1>3, <1>16, <2>2 DEF Chunk
  <2> HIDE DEF x
  <2>6. D \o x \in Seq(Byte) /\ ((D \o x) \o <<>>) \o <<>> = D \o x
    BY <2>4
  <2>7. (\A f \in FileCodes : Ordered(disk'[f])) /\ disk'[root.code] = D \o x
    BY <1>12, <2>4, <2>5, <2>6
  <2>8. Stream(c)' \in {<<>>, D \o x}
    BY <1>1, <1>3, <1>16, <1>c, <2>2, <2>6, <2>7 DEF Stream
  <2>9. Streams(c)'
    <3>1. ~Joined(c)'
      BY <1>1, <1>4, <1>c, <2>1 DEF Joined
    <3>2. Ordered(<<>>)
      BY DEF Ordered
    <3> QED
      BY <2>4, <2>8, <3>1, <3>2 DEF Streams
  <2> QED
    BY <1>13, <2>7, <2>9
<1>17. CASE /\ sbuf' = <<>> /\ spc' = "reply"
            /\ \E n \in 0..(Len(sbuf \o r.data) - 1) :
                 disk' = [disk EXCEPT ![root.code] =
                            disk[root.code] \o SubSeq(sbuf \o r.data, 1, n)]
  <2>1. PICK n \in 0..(Len(E) - 1) :
               disk' = [disk EXCEPT ![root.code] = D \o SubSeq(E, 1, n)]
    BY <1>3, <1>17
  <2>2. n \in 0..Len(E)
    OBVIOUS
  <2>3. SubSeq(E, 1, n) \in Seq(Byte) /\ Ordered(D \o SubSeq(E, 1, n))
    BY <1>9, <2>2
  <2>4. \A f \in FileCodes : Ordered(disk'[f])
    <3>1. PICK x \in Seq(Byte) : x = D \o SubSeq(E, 1, n)
      <4>1. PICK y \in Seq(Byte) : y = SubSeq(E, 1, n)
        BY <2>3
      <4>2. D \o y \in Seq(Byte)
        OBVIOUS
      <4> QED
        BY <4>1, <4>2
    <3> QED
      BY <1>12, <2>1, <2>3, <3>1
  <2>5. Stream(c)' = J
    BY <1>1, <1>3, <1>17, <1>c DEF Stream
  <2> QED
    BY <1>11, <1>13, <2>4, <2>5
<1> QED
  BY <1>2, <1>14, <1>15, <1>16, <1>17

\* The server reads on where it had not read anything of a file.
LEMMA OpenKeepsOrder ==
  ASSUME TypeInv, OrderInv, OpenFile, UNCHANGED clientVars
  PROVE  OrderInv'
<1>1. /\ ServerTypeOK /\ cur \in Clients /\ root.code \in FileCodes
      /\ spc = "dispatch" /\ spc' = "store" /\ sbuf = <<>>
      /\ UNCHANGED <<netVars, cur, sbuf, root>>
      /\ disk' = [disk EXCEPT ![root.code] = <<>>]
  BY DEF TypeInv, TypeOK, HasClient, OpenFile, Opened, OrderInv
<1>2. /\ disk'[root.code] = <<>>
      /\ \A f \in FileCodes : disk'[f] \in {<<>>, disk[f]}
  BY <1>1 DEF ServerTypeOK
<1>3. \A f \in FileCodes : Ordered(disk'[f])
  <2>1. Ordered(<<>>)
    BY DEF Ordered
  <2> QED
    BY <1>2, <2>1 DEF OrderInv
<1>4. ASSUME NEW c \in Clients PROVE Streams(c)'
  <2>1. Streams(c) /\ (Joined(c)' => Joined(c))
    BY <1>1 DEF OrderInv, Joined, netVars
  <2>2. CASE c # cur
    BY <1>1, <2>1, <2>2, StreamStays DEF netVars
  <2>3. CASE c = cur
    <3>1. PICK b \in Seq(Byte) : b = inbox["server"][c]
      BY StreamParts
    <3>2. <<>> \in Seq(Byte) /\ <<>> \o b = b /\ (<<>> \o <<>>) \o b = b
      OBVIOUS
    <3>3. Stream(c) = b
      BY <1>1, <3>1 DEF Stream
    <3>4. Stream(c)' = b
      BY <1>1, <1>2, <2>3, <3>1, <3>2 DEF Stream, netVars
    <3> QED
      BY <2>1, <3>2, <3>3, <3>4, StreamGoesOn
  <2> QED
    BY <2>2, <2>3
<1> QED
  BY <1>1, <1>3, <1>4 DEF OrderInv

\* A failed read stores nothing, or what no client sent.
LEMMA FailKeepsOrder ==
  ASSUME TypeInv, OrderInv, StoreReadFails, UNCHANGED clientVars
  PROVE  OrderInv'
<1>1. /\ ServerTypeOK /\ cur \in Clients /\ root.code \in FileCodes
      /\ spc = "store" /\ spc' = "reply"
      /\ UNCHANGED <<netVars, cur, sbuf, root>>
  BY DEF TypeInv, TypeOK, HasClient, StoreReadFails
<1>2. PICK D \in Seq(Byte) : D = disk[root.code]
  BY <1>1 DEF ServerTypeOK
<1>3. Ordered(D) /\ Ordered(D \o <<Junk>>)
  <2>1. Ordered(D) /\ Ordered(<<Junk>>)
    BY <1>1, <1>2 DEF OrderInv, Ordered
  <2>2. <<Junk>> \in Seq(Byte) /\ <<Junk>>[1] = Junk
    BY NoMsgType
  <2>3. D # <<>> => Follows(D[Len(D)], <<Junk>>[1])
    BY <2>2 DEF Follows
  <2> QED
    BY <2>1, <2>2, <2>3, OrderedParts
<1>4. \A f \in FileCodes : Ordered(disk'[f])
  <2>1. CASE disk' = disk
    BY <2>1 DEF OrderInv
  <2>2. CASE disk' = [disk EXCEPT ![root.code] = Append(@, Junk)]
    <3>1. D \o <<Junk>> = Append(D, Junk)
      BY NoMsgType
    <3>2. disk' = [disk EXCEPT ![root.code] = D \o <<Junk>>]
      BY <1>2, <2>2, <3>1
    <3>3. PICK x : x = D \o <<Junk>>
      OBVIOUS
    <3> QED
      BY <1>1, <1>3, <3>2, <3>3 DEF OrderInv, ServerTypeOK
  <2> QED
    BY <2>1, <2>2 DEF StoreReadFails
<1>5. ASSUME NEW c \in Clients PROVE Streams(c)'
  <2>1. Streams(c) /\ (Joined(c)' => Joined(c))
    BY <1>1 DEF OrderInv, Joined, netVars
  <2>2. CASE c # cur
    BY <1>1, <2>1, <2>2, StreamStays DEF netVars
  <2>3. CASE c = cur
    <3>1. PICK S, I \in Seq(Byte) : S = sbuf /\ I = inbox["server"][c]
      BY StreamParts
    <3>2. D \o S \in Seq(Byte)
      OBVIOUS
    <3>3. Stream(c) = (D \o S) \o I /\ Stream(c)' = I
      BY <1>1, <1>2, <2>3, <3>1 DEF Stream, netVars
    <3> QED
      BY <2>1, <3>2, <3>3, StreamGoesOn
  <2> QED
    BY <2>2, <2>3
<1> QED
  BY <1>1, <1>4, <1>5 DEF OrderInv

\* Of a server that dies, each file keeps a beginning.
LEMMA DiesKeepsOrder ==
  ASSUME TypeInv, OrderInv, NEW flushed \in BOOLEAN, Dies(flushed)
  PROVE  OrderInv'
<1>1. /\ NetTypeOK /\ ServerTypeOK /\ HasClient /\ ServerGone
      /\ spc' = "down" /\ "server" \in Sides
  BY DEF TypeInv, TypeOK, Sides, Dies
<1>2. \A c \in Clients : inbox'["server"][c] = <<>>
  BY <1>1 DEF ServerGone, NetTypeOK
<1>3. ASSUME NEW c \in Clients PROVE Streams(c)'
  BY <1>1, <1>2, NoStream DEF Stream
<1>4. \A f \in FileCodes : Ordered(disk'[f])
  <2>1. CASE spc \in {"store", "reply", "fclose"} /\ ~flushed
    <3>1. PICK D \in Seq(Byte) : D = disk[root.code] /\ root.code \in FileCodes
      BY <1>1, <2>1 DEF HasClient, ServerTypeOK
    <3>2. PICK n \in 0..Len(D) :
                 disk' = [disk EXCEPT ![root.code] = SubSeq(D, 1, n)]
      BY <2>1, <3>1 DEF Dies
    <3>3. Ordered(D)
      BY <3>1 DEF OrderInv
    <3>4. PICK x \in Seq(Byte) : x = SubSeq(D, 1, n) /\ Ordered(x)
      BY <3>3, OrderedPrefix
    <3> QED
      BY <1>1, <3>1, <3>2, <3>4 DEF OrderInv, ServerTypeOK
  <2>2. CASE ~(spc \in {"store", "reply", "fclose"} /\ ~flushed)
    BY <2>2 DEF Dies, OrderInv
  <2> QED
    BY <2>1, <2>2
<1> QED
  BY <1>1, <1>3, <1>4 DEF OrderInv

\* Every step of the server keeps the order.
LEMMA ServerKeepsOrder ==
  ASSUME TypeInv, OrderInv, ServerStep \/ ServerFault, UNCHANGED clientVars
  PROVE  OrderInv'
<1>1. /\ NetTypeOK /\ HasClient /\ "client" \in Sides /\ "server" \in Sides
      /\ Other("server") = "client"
  BY DEF TypeInv, TypeOK, Sides, Other
<1>2. ASSUME \A c \in Clients : inbox'["server"][c] = inbox["server"][c],
             \A c \in Clients : Joined(c)' => Joined(c),
             spc # "store", spc' # "store", disk' = disk,
             spc' = "dispatch" => sbuf' = <<>>
      PROVE  OrderInv'
  <2>1. ASSUME NEW c \in Clients PROVE Streams(c)'
    BY <1>2, StreamStays DEF OrderInv
  <2> QED
    BY <1>2, <2>1 DEF OrderInv
<1>3. CASE Accept \/ RecvFails \/ Parse \/ Ignore \/ CloseFile \/ Restart
  <2>1. /\ UNCHANGED <<inbox, sock, disk>> /\ spc # "store" /\ spc' # "store"
        /\ spc' = "dispatch" => sbuf' = <<>>
    BY <1>3 DEF Accept, RecvFails, Parse, Ignore, CloseFile, Restart, netVars
  <2> QED
    BY <1>2, <2>1 DEF Joined
<1>4. CASE OpenFails \/ ReplyToFile \/ Acknowledge \/ Solve
  <2>1. PICK c \in Clients, bytes \in Seq(Byte) :
               c = cur /\ Write("server", c, bytes)
    BY <1>4, ServerWrites
  <2>2. /\ UNCHANGED disk /\ spc # "store" /\ spc' # "store"
        /\ spc' # "dispatch"
    BY <1>4 DEF OpenFails, ReplyToFile, Acknowledge, Solve, AfterAck, AfterAnswer
  <2>3. /\ \A d \in Clients, t \in Sides :
             d # c => inbox'[t][d] = inbox[t][d] /\ sock'[t][d] = sock[t][d]
        /\ inbox'["server"][c] = inbox["server"][c]
        /\ sock'["client"][c] = sock["client"][c]
        /\ sock' = sock \/ sock'["server"][c] = "reset"
    BY <1>1, <2>1, WriteEffect
  <2>4. \A d \in Clients : Joined(d)' => Joined(d)
    BY <1>1, <2>3 DEF Joined
  <2> QED
    BY <1>1, <1>2, <2>2, <2>3, <2>4
<1>5. CASE CloseClient
  <2>1. PICK c \in Clients : c = cur /\ Close("server", c)
    BY <1>1, <1>5 DEF CloseClient, HasClient
  <2>2. /\ UNCHANGED disk /\ spc = "close" /\ spc' = "accept"
    BY <1>5 DEF CloseClient
  <2>3. /\ \A d \in Clients, t \in Sides :
             d # c => inbox'[t][d] = inbox[t][d] /\ sock'[t][d] = sock[t][d]
        /\ inbox'["server"][c] = <<>>
    BY <1>1, <2>1, CloseEffect
  <2>4. ASSUME NEW d \in Clients PROVE Streams(d)'
    <3>1. CASE d = c
      BY <2>2, <2>3, <3>1, NoStream DEF Stream
    <3>2. CASE d # c
      <4>1. Streams(d) /\ (Joined(d)' => Joined(d))
        BY <1>1, <2>3, <3>2 DEF OrderInv, Joined
      <4> QED
        BY <1>1, <2>2, <2>3, <3>2, <4>1, StreamStays
    <3> QED
      BY <3>1, <3>2
  <2> QED
    BY <2>2, <2>4 DEF OrderInv
<1>6. CASE Segfault \/ ServerSigpipe \/ Signalled \/ PowerLost
  BY <1>6, DiesKeepsOrder DEF Segfault, ServerSigpipe, Signalled, PowerLost
<1> QED
  BY <1>3, <1>4, <1>5, <1>6, RecvKeepsOrder, StoreKeepsOrder, OpenKeepsOrder,
     FailKeepsOrder DEF ServerStep, ServerFault

\* A header, the file under it and a request have different codes, and so have
\* two files.
LEMMA CodesApart ==
  ASSUME NEW files \in SUBSET FileCodes, NEW f \in FileCodes
  PROVE  /\ f \in files => f \in LeftCodes(files)
         /\ f \notin LeftCodes(files \ {f}) /\ f # ContentCode[f]
         /\ ContentCode[f] \notin LeftCodes(files \ {f})
         /\ GetCodes \subseteq LeftCodes(files)
<1>1. /\ ContentCode["SEND_SOLV"] = "solv bytes"
      /\ ContentCode["SEND_YUM_CONF"] = "yum bytes"
  BY DEF ContentCode, FileCodes
<1>2. f \in {"SEND_SOLV", "SEND_YUM_CONF"}
  BY DEF FileCodes
<1>3. ASSUME NEW g \in FileCodes PROVE ContentCode[g] \in {"solv bytes", "yum bytes"}
  BY DEF ContentCode, FileCodes
<1>4. f \notin LeftCodes(files \ {f}) /\ f # ContentCode[f]
  <2>1. f \notin GetCodes /\ f \notin {"solv bytes", "yum bytes"}
    BY <1>2 DEF GetCodes
  <2> QED
    BY <1>3, <2>1 DEF LeftCodes
<1>5. ContentCode[f] \notin LeftCodes(files \ {f})
  <2>1. ContentCode[f] \notin GetCodes \cup FileCodes
    BY <1>3 DEF GetCodes, FileCodes
  <2>2. \A g \in FileCodes : ContentCode[g] = ContentCode[f] => g = f
    BY <1>1 DEF FileCodes
  <2> QED
    BY <2>1, <2>2 DEF LeftCodes
<1> QED
  BY <1>4, <1>5 DEF LeftCodes

\* A step of a client keeps the order: it writes next what it has to.
LEMMA ClientKeepsOrder ==
  ASSUME TypeInv, SocketInv, LinkInv, OrderInv, NEW c \in Clients,
         ClientStep(c), UNCHANGED serverVars
  PROVE  OrderInv'
<1> USE DEF GoTo
<1>1. /\ NetTypeOK /\ ClientTypeOK /\ "client" \in Sides /\ "server" \in Sides
      /\ Other("client") = "server" /\ Other("server") = "client"
      /\ Linked(c) /\ OnItsWay(c) /\ Streams(c)
      /\ UNCHANGED <<spc, cur, sbuf, root, disk>>
  BY DEF TypeInv, TypeOK, Sides, Other, LinkInv, OrderInv, serverVars
<1>2. /\ CurFile(c) \in FileCodes /\ todo[c] \subseteq FileCodes
      /\ todo[c] # {} => CurFile(c) \in todo[c]
      /\ sent[c] \in Nat /\ Size(c) \in Nat
  BY RunType
<1>3. Apart(c) /\ job' = job
  BY ClientKeepsLinks
<1>4. ASSUME NEW d \in Clients, d # c PROVE Streams(d)'
  <2>1. /\ inbox'["server"][d] = inbox["server"][d]
        /\ sock'["client"][d] = sock["client"][d]
        /\ sock'["server"][d] = sock["server"][d]
        /\ cpc'[d] = cpc[d] /\ todo'[d] = todo[d] /\ sent'[d] = sent[d]
    BY <1>1, <1>3, <1>4 DEF Apart
  <2>2. Stream(d)' = Stream(d) /\ Joined(d)' = Joined(d)
    BY <1>1, <2>1 DEF Stream, Joined
  <2>3. ASSUME NEW x, Continues(d, x) PROVE Continues(d, x)'
    BY <2>1, <2>3 DEF Continues, CurFile
  <2> QED
    BY <2>2, <2>3 DEF Streams, OrderInv
<1>5. ASSUME Streams(c)' PROVE OrderInv'
  BY <1>1, <1>4, <1>5 DEF OrderInv
<1>6. ASSUME inbox'["server"][c] = inbox["server"][c],
             Joined(c)' => /\ Joined(c)
                           /\ \A x : Continues(c, x) => Continues(c, x)'
      PROVE  OrderInv'
  <2>1. Stream(c)' = Stream(c)
    BY <1>1, <1>6 DEF Stream
  <2> QED
    BY <1>1, <1>5, <1>6, <2>1 DEF Streams
<1>7. ASSUME NEW what, NEW st, Finish(c, what, st) PROVE OrderInv'
  <2>1. Ends(c)
    BY <1>7, FinishEnds
  <2>2. ~Joined(c)'
    BY <2>1 DEF Ends, Joined, Live
  <2> QED
    BY <1>6, <2>1, <2>2 DEF Ends
<1>8. CASE Connect(c)
  <2>1. cpc[c] = "connect" /\ UNCHANGED inbox
    BY <1>8 DEF Connect
  <2>2. inbox["server"][c] = <<>> /\ sock["server"][c] = "none"
    BY <1>1, <2>1 DEF Linked
  <2>3. c # cur
    BY <2>2, NetAssumption DEF SocketInv, NoSocketLeak, Live
  <2>4. Stream(c)' = <<>>
    BY <1>1, <2>1, <2>2, <2>3 DEF Stream
  <2> QED
    BY <1>5, <2>4, NoStream
<1>9. CASE ConnectFails(c)
  <2>1. CASE UNCHANGED <<netVars, job, cpc, todo, sent>>
    BY <1>6, <2>1 DEF netVars, Joined, Continues, CurFile
  <2> QED
    BY <1>7, <1>9, <2>1 DEF ConnectFails
<1>10. ASSUME NEW m \in Message, NEW i \in Nat, NEW bytes,
              Piece(bytes, m, i), Write("client", c, bytes),
              \A x \in Byte : Continues(c, x) /\ x.msg = m => i = x.i + 1,
              \A x \in Byte : x.msg = m /\ x.i = i + Len(bytes) - 1
                                => Continues(c, x)'
       PROVE  OrderInv'
  <2>1. bytes \in Seq(Byte) /\ bytes # <<>>
    BY <1>10 DEF Piece
  <2>2. CASE ~Joined(c)
    <3>1. inbox' = inbox /\ sock'["client"][c] = "reset"
      BY <1>1, <1>10, <2>1, <2>2, WriteEffect DEF Joined
    <3> QED
      BY <1>6, <3>1 DEF Joined
  <2>3. CASE Joined(c)
    <3>1. /\ inbox'["server"][c] = inbox["server"][c] \o bytes
          /\ sock' = sock
      <4>1. sock["client"][c] = "open" /\ sock["server"][c] = "open"
        BY <2>3 DEF Joined
      <4>2. /\ inbox' = [inbox EXCEPT !["server"][c] = @ \o bytes]
            /\ sock' = sock
        BY <1>1, <1>10, <4>1 DEF Write
      <4> QED
        BY <1>1, <4>2 DEF NetTypeOK
    <3>2. PICK S, I \in Seq(Byte) : S = Stream(c) /\ I = inbox["server"][c]
      BY StreamParts
    <3>3. Stream(c)' = S \o bytes
      <4>1. CASE c = cur /\ spc = "store"
        <5>1. PICK P \in Seq(Byte) : P = disk[root.code] \o sbuf
          <6>1. PICK D, s \in Seq(Byte) : D = disk[root.code] /\ s = sbuf
            BY <4>1, StreamParts
          <6>2. D \o s \in Seq(Byte)
            OBVIOUS
          <6> QED
            BY <6>1, <6>2
        <5>2. S = P \o I /\ Stream(c)' = P \o (I \o bytes)
          BY <1>1, <3>1, <3>2, <4>1, <5>1 DEF Stream
        <5> QED
          BY <2>1, <5>2, ConcatBytes
      <4>2. CASE ~(c = cur /\ spc = "store")
        BY <1>1, <3>1, <3>2, <4>2 DEF Stream
      <4> QED
        BY <4>1, <4>2
    <3>4. /\ Ordered(bytes) /\ bytes[1].msg = m /\ bytes[1].i = i
          /\ bytes[Len(bytes)].msg = m
          /\ bytes[Len(bytes)].i = i + Len(bytes) - 1
          /\ bytes[Len(bytes)] \in Byte
      <4>1. bytes[Len(bytes)] \in Byte
        BY <2>1
      <4> QED
        BY <1>10, <4>1, PieceOrder
    <3>5. Ordered(S) /\ (S # <<>> => Continues(c, S[Len(S)]))
      BY <1>1, <2>3, <3>2 DEF Streams
    <3>6. S # <<>> => S[Len(S)] \in Byte
      OBVIOUS
    <3>7. S # <<>> => Follows(S[Len(S)], bytes[1])
      BY <1>10, <3>4, <3>5, <3>6 DEF Follows
    <3>8. /\ Ordered(S \o bytes)
          /\ (S \o bytes)[Len(S \o bytes)] = bytes[Len(bytes)]
      BY <2>1, <3>4, <3>5, <3>7, OrderedParts
    <3>9. Continues(c, bytes[Len(bytes)])'
      BY <1>10, <3>4
    <3>10. Streams(c)'
      BY <3>3, <3>8, <3>9 DEF Streams
    <3> QED
      BY <1>5, <3>10
  <2> QED
    BY <2>2, <2>3
<1>11. CASE SendHeader(c)
  <2>1. /\ cpc[c] = "sync" /\ todo[c] # {}
        /\ Write("client", c, Bytes(Header(c)))
        /\ cpc'[c] \in {"reply", "content"} /\ todo' = todo
    BY <1>1, <1>11 DEF SendHeader, ClientTypeOK
  <2>2. PICK m \in Message : m = Header(c)
    BY <1>1, ClientMessages
  <2>3. m.code = CurFile(c) /\ m.len = SmallLen
    BY <2>2 DEF Header
  <2>4. Piece(Bytes(m), m, 1)
    <3>1. 1 \in 1..m.len
      BY <2>3, NetAssumption
    <3> QED
      BY <3>1, PieceOf
  <2>5. \A x \in Byte : Continues(c, x) /\ x.msg = m => 1 = x.i + 1
    <3>1. CurFile(c) \in LeftCodes(todo[c])
      BY <1>2, <2>1, CodesApart
    <3> QED
      BY <2>1, <2>3, <3>1 DEF Continues
  <2>6. \A x \in Byte : x.msg = m => Continues(c, x)'
    <3>1. CurFile(c)' = CurFile(c)
      BY <2>1 DEF CurFile
    <3> QED
      BY <1>2, <2>1, <2>3, <3>1, CodesApart DEF Continues
  <2> QED
    BY <1>10, <2>1, <2>2, <2>4, <2>5, <2>6
<1>12. CASE SendContent(c)
  <2> DEFINE upto == IF sent[c] + FileChunk < Size(c)
                       THEN sent[c] + FileChunk ELSE Size(c)
  <2>1. /\ cpc[c] = "content"
        /\ Write("client", c, SubSeq(Whole(c), sent[c] + 1, upto))
        /\ cpc'[c] \in {"reply", "content"} /\ sent'[c] = upto /\ todo' = todo
    BY <1>1, <1>12 DEF SendContent, ClientTypeOK, Size, Whole
  <2>2. PICK m \in Message : m = Content(c, CurFile(c))
    BY <1>1, <1>2, ClientMessages
  <2>3. /\ m.code = ContentCode[CurFile(c)] /\ m.len = Size(c)
        /\ Whole(c) = Bytes(m)
    BY <2>2 DEF Content, Size, Whole
  <2>4. sent[c] < Size(c)
    BY <1>1, <2>1 DEF OnItsWay
  <2>5. upto \in Nat /\ upto <= Size(c) /\ sent[c] < upto
    BY <1>2, <2>4, ClientAssumption
  <2> HIDE DEF upto
  <2> DEFINE bytes == SubSeq(Bytes(m), sent[c] + 1, upto)
  <2>6. Piece(bytes, m, sent[c] + 1) /\ Len(bytes) = upto - sent[c]
    <3>1. sent[c] + 1 \in 1..m.len /\ upto \in (sent[c] + 1)..m.len
      BY <1>2, <2>3, <2>5
    <3> QED
      BY <1>2, <2>5, <3>1, PieceOf
  <2>7. Write("client", c, bytes)
    BY <2>1, <2>3
  <2> HIDE DEF bytes
  <2>8. \A x \in Byte : Continues(c, x) /\ x.msg = m => sent[c] + 1 = x.i + 1
    BY <2>1, <2>3 DEF Continues
  <2>9. ASSUME NEW x \in Byte, x.msg = m,
               x.i = (sent[c] + 1) + Len(bytes) - 1
        PROVE  Continues(c, x)'
    <3>1. CurFile(c)' = CurFile(c)
      BY <2>1 DEF CurFile
    <3>2. x.i = sent'[c]
      BY <1>2, <2>1, <2>5, <2>6, <2>9
    <3> QED
      BY <1>2, <2>1, <2>3, <2>9, <3>1, <3>2, CodesApart DEF Continues
  <2>10. sent[c] + 1 \in Nat
    BY <1>2
  <2> QED
    BY <1>10, <2>6, <2>7, <2>8, <2>9, <2>10
<1>13. CASE SendRepo(c)
  <2>1. /\ cpc[c] = "sync" /\ job[c].cmd \in GetCodes
        /\ Write("client", c, Bytes(Request(c)))
        /\ cpc'[c] = "check"
    BY <1>1, <1>13 DEF SendRepo, Synced, ClientTypeOK
  <2>2. PICK m \in Message : m = Request(c)
    BY <1>1, <2>1, ClientMessages
  <2>3. m.code \in GetCodes /\ m.len = job[c].req
    BY <2>1, <2>2 DEF Request
  <2>4. Piece(Bytes(m), m, 1)
    <3>1. job[c].req \in Nat \ {0}
      BY <1>1, ClientAssumption DEF ClientTypeOK, Job
    <3>2. 1 \in 1..m.len
      BY <2>3, <3>1
    <3> QED
      BY <3>2, PieceOf
  <2>5. \A x \in Byte : Continues(c, x) /\ x.msg = m => 1 = x.i + 1
    BY <1>2, <2>1, <2>3, CodesApart, ZenonT(30) DEF Continues
  <2>6. \A x \in Byte : x.msg = m => Continues(c, x)'
    BY <2>1 DEF Continues
  <2> QED
    BY <1>10, <2>1, <2>2, <2>4, <2>5, <2>6
<1>14. CASE ReadMore(c) \/ ReadLast(c)
  <2>1. PICK r \in Reads("client", c) : Consume("client", c, r)
    BY <1>14 DEF ReadMore, ReadLast
  <2>2. UNCHANGED sock /\ inbox'["server"][c] = inbox["server"][c]
    BY <1>1, <2>1, ConsumeEffect, ZenonT(30)
  <2>3. /\ UNCHANGED <<todo, sent>> /\ cpc[c] \in Receiving
        /\ cpc'[c] \in {cpc[c], Received[cpc[c]]}
    BY <1>1, <1>14 DEF ReadMore, ReadLast, ClientTypeOK
  <2>4. \/ cpc'[c] = cpc[c]
        \/ cpc[c] = "reply" /\ cpc'[c] = "replied"
        \/ cpc'[c] \in {"checked", "answered"}
    BY <2>3 DEF Received, Receiving
  <2>5. ASSUME NEW x, Continues(c, x) PROVE Continues(c, x)'
    BY <2>3, <2>4, <2>5 DEF Continues, CurFile
  <2> QED
    BY <1>6, <2>2, <2>5 DEF Joined
<1>15. CASE ReadFails(c)
  <2>1. CASE /\ cpc' = [cpc EXCEPT ![c] = "answer"] /\ UNCHANGED netVars
    <3>1. cpc'[c] = "answer"
      BY <1>1, <2>1 DEF ClientTypeOK
    <3> QED
      BY <1>6, <2>1, <3>1 DEF Joined, Continues, netVars
  <2> QED
    BY <1>7, <1>15, <2>1 DEF ReadFails
<1>16. CASE FileAccepted(c)
  <2>1. /\ cpc[c] = "replied" /\ cpc'[c] = "sync"
        /\ todo'[c] = todo[c] \ {CurFile(c)} /\ UNCHANGED netVars
    BY <1>1, <1>16 DEF FileAccepted, Accepted, ClientTypeOK
  <2> QED
    BY <1>6, <2>1 DEF Joined, Continues, netVars
<1>17. CASE Checked(c)
  <2>1. cpc'[c] = "answer" /\ UNCHANGED netVars
    BY <1>1, <1>17 DEF Checked, ClientTypeOK
  <2> QED
    BY <1>6, <2>1 DEF Joined, Continues, netVars
<1>18. CASE Declines(c) \/ FileMissing(c) \/ ChkDep(c) \/ RepoError(c)
            \/ Sigpipe(c) \/ FileRefused(c) \/ ParserCrash(c) \/ Killed(c)
            \/ Answered(c)
  BY <1>7, <1>18 DEF Declines, FileMissing, ChkDep, RepoError, Sigpipe,
     FileRefused, ParserCrash, Killed, Answered
<1> QED
  BY <1>8, <1>9, <1>11, <1>12, <1>13, <1>14, <1>15, <1>16, <1>17, <1>18
     DEF ClientStep

\* Nothing is on its way when the programs start.
LEMMA OrderInit == Init => OrderInv
<1> SUFFICES ASSUME Init PROVE OrderInv
  OBVIOUS
<1>1. \A f \in FileCodes : Ordered(disk[f])
  BY DEF Init, ServerInit, Ordered
<1>2. ASSUME NEW c \in Clients PROVE Streams(c)
  <2>1. Stream(c) = <<>>
    BY DEF Init, NetInit, ServerInit, Stream, Sides
  <2> QED
    BY <2>1 DEF Streams, Ordered
<1> QED
  BY <1>1, <1>2 DEF Init, ServerInit, OrderInv

\* Every step keeps OrderInv.
LEMMA OrderStep ==
  TypeInv /\ SocketInv /\ LinkInv /\ OrderInv /\ [Next]_vars => OrderInv'
<1> SUFFICES ASSUME TypeInv, SocketInv, LinkInv, OrderInv, [Next]_vars
             PROVE  OrderInv'
  OBVIOUS
<1>1. CASE UNCHANGED vars
  BY <1>1, ZenonT(30) DEF vars, netVars, clientVars, serverVars, OrderInv, Streams, Stream,
     Joined, Continues, CurFile
<1> QED
  BY <1>1, ClientKeepsOrder, ServerKeepsOrder DEF Next

\* OrderInv always holds.
LEMMA OrderInvariant == Spec => []OrderInv
BY OrderInit, OrderStep, TypeInvariant, SocketInvariant, LinkInvariant,
   PTL DEF Spec

\* However TCP cuts the writes of a client and whatever breaks off a transfer,
\* what the server has stored of a file are bytes that followed one another in
\* the message they came from.
THEOREM FilesAreInOrder == Spec => []StoredInOrder
<1>1. OrderInv => StoredInOrder
  BY DEF OrderInv, Ordered, Follows, StoredInOrder
<1> QED
  BY <1>1, OrderInvariant, PTL
=============================================================================
