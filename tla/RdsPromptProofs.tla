-------------------------- MODULE RdsPromptProofs --------------------------
(***************************************************************************)
(* Theorems about Rds on a network that delivers each write to one read    *)
(* (Prompt): what the two programs mean by every byte that is under way.   *)
(***************************************************************************)
EXTENDS RdsLinkProofs

-----------------------------------------------------------------------------
(***************************************************************************)
(* The conversation.  Every write is read before the next, and one read    *)
(* takes a header or a bare answer.                                        *)
(***************************************************************************)
PromptNet == Prompt /\ SmallLen < MaxInput

\* The server has answered everything it has read of c, or c is gone.
Idle(c) ==
  \/ cpc[c] = "done"
  \/ cpc[c] \in {"sync", "replied"} /\ inbox["client"][c] = <<>>
  \/ cpc[c] = "reply" /\ Len(inbox["client"][c]) = SmallLen

\* c has announced its file and has no reply to it yet.
Uploading(c) ==
  /\ cpc[c] \in {"content", "reply", "done"}
  /\ todo[c] # {} /\ sent[c] <= Size(c) /\ cbuf[c] = <<>>
  /\ inbox["client"][c] = <<>>
  /\ sock["server"][c] = "open"

\* c has sent its request and has no acknowledgement of it yet.
Asking(c) ==
  /\ cpc[c] \in {"check", "done"}
  /\ todo[c] = {} /\ job[c].cmd \in GetCodes
  /\ inbox["client"][c] = <<>>

\* c has been acknowledged and has no answer yet.
Pending(c) ==
  /\ todo[c] = {}
  /\ \/ cpc[c] = "done"
     \/ cpc[c] = "check" /\ Len(inbox["client"][c]) = SmallLen
     \/ cpc[c] \in {"checked", "answer"} /\ inbox["client"][c] = <<>>

\* What the server has still to read when it reads a message: all of it, or
\* nothing.
Awaiting(c, bytes) ==
  \/ bytes = <<>> /\ Idle(c)
  \/ bytes = Bytes(Header(c)) /\ Uploading(c) /\ sent[c] = 0
  \/ bytes = Bytes(Request(c)) /\ Asking(c)

\* m is what the server has read, and what c has written since waits behind it.
Taken(c, m) ==
  \/ m = NoMsg /\ cpc[c] = "done" /\ inbox["server"][c] = <<>>
  \/ m = Header(c) /\ Uploading(c) /\ inbox["server"][c] = Written(c)
  \/ m = Request(c) /\ Asking(c) /\ inbox["server"][c] = <<>>

\* Where the server is with the client it serves.
Served(c) ==
  /\ spc = "recv" => /\ Awaiting(c, sbuf \o inbox["server"][c])
                     /\ sbuf # <<>> => Asking(c)
  /\ spc = "parse" => \E m \in {NoMsg, Header(c), Request(c)} :
                        sbuf = Bytes(m) /\ Taken(c, m)
  /\ spc = "dispatch" => Taken(c, root)
  /\ spc = "store" =>
       /\ root = Header(c) /\ Uploading(c)
       /\ (disk[root.code] \o sbuf) \o inbox["server"][c] = Written(c)
  /\ spc = "reply" =>
       /\ root = Header(c) /\ Uploading(c)
       /\ verdict = "ANSWER_OK" => /\ disk[root.code] = Whole(c)
                                   /\ sent[c] = Size(c)
                                   /\ inbox["server"][c] = <<>>
  /\ spc = "fclose" =>
       /\ root.by = c
       /\ verdict = "ANSWER_OK" => Awaiting(c, inbox["server"][c])
  /\ spc = "solve" => root = Request(c) /\ Pending(c)
  /\ spc \in {"dispatch", "reply", "fclose", "solve"} => sbuf = <<>>

\* The server and every client it has agree on what is under way.
TalkInv ==
  /\ \A c \in Queued : Awaiting(c, inbox["server"][c])
  /\ \A c \in Clients : c = cur => Served(c)
  /\ spc \in {"accept", "down"} => sbuf = <<>>

\* What a step of a connected client may do to its conversation.
Announces(c) ==
  /\ cpc[c] = "sync" /\ todo[c] # {} /\ cpc'[c] \in {"content", "reply"}
  /\ inbox["server"][c] = <<>> /\ inbox'["server"][c] = Bytes(Header(c))
  /\ inbox'["client"][c] = inbox["client"][c]
  /\ sent'[c] = 0 /\ todo'[c] = todo[c] /\ cbuf'[c] = cbuf[c]
Sends(c) ==
  /\ cpc[c] = "content" /\ cpc'[c] \in {"content", "reply"}
  /\ inbox["server"][c] = <<>> /\ inbox'["client"][c] = inbox["client"][c]
  /\ \E n \in (sent[c] + 1)..Size(c) :
       /\ sent'[c] = n
       /\ inbox'["server"][c] = SubSeq(Whole(c), sent[c] + 1, n)
  /\ todo'[c] = todo[c] /\ cbuf'[c] = cbuf[c]
Asks(c) ==
  /\ cpc[c] = "sync" /\ todo[c] = {} /\ job[c].cmd \in GetCodes
  /\ cpc'[c] = "check"
  /\ inbox["server"][c] = <<>> /\ inbox'["server"][c] = Bytes(Request(c))
  /\ inbox'["client"][c] = inbox["client"][c]
  /\ todo'[c] = todo[c]
Listens(c) ==
  /\ cpc[c] \in Receiving /\ inbox["client"][c] # <<>>
  /\ \/ cpc'[c] = cpc[c] /\ Len(inbox["client"][c]) >= MaxInput
     \/ cpc'[c] = Received[cpc[c]] /\ inbox'["client"][c] = <<>>
  /\ inbox'["server"][c] = inbox["server"][c]
  /\ sent'[c] = sent[c] /\ todo'[c] = todo[c]
GoesOn(c) ==
  /\ \/ cpc[c] = "replied" /\ cpc'[c] = "sync"
     \/ cpc[c] = "checked" /\ cpc'[c] = "answer" /\ todo'[c] = todo[c]
  /\ inbox'["server"][c] = inbox["server"][c]
  /\ inbox'["client"][c] = inbox["client"][c]

\* A run that has ended does nothing.
LEMMA RunningClient ==
  ASSUME NEW c, ClientStep(c)
  PROVE  cpc[c] # "done"
BY DEF ClientStep, Connect, ConnectFails, Declines, FileMissing, SendHeader,
   SendContent, ChkDep, RepoError, SendRepo, ReadMore, ReadLast, ReadFails,
   FileAccepted, FileRefused, Checked, Answered, ParserCrash, Sigpipe, Killed,
   Synced, Receiving, Accepted

\* A connected client does one of these.
LEMMA ConnectedClient ==
  ASSUME TypeInv, LinkInv, PromptNet, NEW c \in Clients, ClientStep(c),
         cpc[c] # "connect", sock["server"][c] \in Live
  PROVE  \/ cpc[c] # "done" /\ Ends(c)
         \/ /\ Announces(c) \/ Sends(c) \/ Asks(c) \/ Listens(c) \/ GoesOn(c)
            /\ sock'["server"][c] = sock["server"][c]
<1> USE DEF GoTo
<1>1. /\ NetTypeOK /\ ClientTypeOK /\ "client" \in Sides /\ "server" \in Sides
      /\ Other("client") = "server"
      /\ Linked(c) /\ OnItsWay(c)
  BY DEF TypeInv, TypeOK, Sides, Other, LinkInv
<1>2. /\ cpc[c] \in ClientPc /\ sent[c] \in Nat /\ Size(c) \in Nat
      /\ Whole(c) \in Seq(Byte) /\ Len(Whole(c)) = Size(c)
      /\ \A s \in Sides : inbox[s][c] \in Seq(Byte)
  BY RunType
<1>3. cpc[c] # "done" => sock["client"][c] = "open" /\ sock["server"][c] = "open"
  BY <1>1 DEF Linked, Live
<1>4. cpc[c] # "done"
  BY RunningClient
<1>5. ASSUME NEW what, NEW st, Finish(c, what, st) PROVE Ends(c)
  BY <1>5, FinishEnds
<1>6. ASSUME NEW bytes \in Seq(Byte), Write("client", c, bytes)
      PROVE  /\ inbox["server"][c] = <<>> /\ inbox'["server"][c] = bytes
             /\ inbox'["client"][c] = inbox["client"][c]
             /\ sock'["server"][c] = sock["server"][c]
  <2>1. CanWrite("client", c)
    BY <1>1, <1>6, WriteEffect
  <2>2. inbox["server"][c] = <<>>
    BY <1>1, <2>1 DEF CanWrite, PromptNet
  <2>3. inbox'["client"][c] = inbox["client"][c]
    BY <1>1, <1>6, WriteEffect
  <2>4. sock'["server"][c] = sock["server"][c]
    BY <1>1, <1>6, WriteEffect
  <2>5. inbox'["server"][c] = inbox["server"][c] \o bytes
    <3>1. sock["client"][c] = "open" /\ sock["server"][c] = "open"
      BY <1>3, <1>4
    <3>2. inbox' = [inbox EXCEPT !["server"][c] = @ \o bytes]
      BY <1>1, <1>6, <3>1 DEF Write
    <3> QED
      BY <1>1, <3>2 DEF NetTypeOK
  <2>6. <<>> \o bytes = bytes
    BY ConcatEmptySeq
  <2> QED
    BY <2>2, <2>3, <2>4, <2>5, <2>6
<1>7. CASE SendHeader(c)
  <2>1. Bytes(Header(c)) \in Seq(Byte)
    BY <1>1, ClientMessages, BytesType
  <2>2. /\ Write("client", c, Bytes(Header(c))) /\ cpc[c] = "sync"
        /\ todo[c] # {} /\ UNCHANGED <<todo, cbuf>>
        /\ sent'[c] = 0 /\ cpc'[c] \in {"content", "reply"}
    BY <1>1, <1>7 DEF SendHeader, ClientTypeOK
  <2> QED
    BY <1>6, <2>1, <2>2 DEF Announces
<1>8. CASE SendContent(c)
  <2> DEFINE upto == IF sent[c] + FileChunk < Size(c)
                       THEN sent[c] + FileChunk ELSE Size(c)
             some == SubSeq(Whole(c), sent[c] + 1, upto)
  <2>1. /\ Write("client", c, some) /\ cpc[c] = "content"
        /\ cpc'[c] \in {"content", "reply"} /\ sent'[c] = upto
        /\ UNCHANGED <<todo, cbuf>>
    BY <1>1, <1>8 DEF SendContent, Size, Whole, ClientTypeOK
  <2>2. sent[c] < Size(c)
    BY <1>1, <2>1 DEF OnItsWay
  <2>3. upto \in (sent[c] + 1)..Size(c)
    BY <1>2, <2>2, ClientAssumption
  <2>4. some \in Seq(Byte)
    BY <1>2, <2>3
  <2> HIDE DEF upto
  <2> QED
    BY <1>6, <2>1, <2>3, <2>4 DEF Sends
<1>9. CASE SendRepo(c)
  <2>1. Bytes(Request(c)) \in Seq(Byte)
    BY <1>1, <1>9, ClientMessages, BytesType DEF SendRepo
  <2>2. /\ Write("client", c, Bytes(Request(c))) /\ cpc[c] = "sync"
        /\ todo[c] = {} /\ job[c].cmd \in GetCodes /\ UNCHANGED todo
        /\ cpc'[c] = "check"
    BY <1>1, <1>9 DEF SendRepo, Synced, ClientTypeOK
  <2> QED
    BY <1>6, <2>1, <2>2 DEF Asks
<1>10. CASE ReadMore(c) \/ ReadLast(c)
  <2>1. PICK r \in Reads("client", c) :
               /\ Consume("client", c, r)
               /\ \/ r.ret = MaxInput /\ cpc' = cpc
                  \/ r.ret < MaxInput /\ cpc' = [cpc EXCEPT ![c] = Received[cpc[c]]]
    BY <1>10 DEF ReadMore, ReadLast
  <2>2. cpc[c] \in Receiving /\ UNCHANGED <<sent, todo>>
    BY <1>10 DEF ReadMore, ReadLast
  <2>3. /\ r.ret \in 1..Len(inbox["client"][c])
        /\ r.ret < MaxInput => r.ret = Len(inbox["client"][c])
        /\ Len(r.data) = r.ret
    BY <1>1, <1>3, <1>4, ReadCases DEF PromptNet
  <2>4. /\ UNCHANGED sock
        /\ r.data \in Seq(Byte) /\ inbox'["client"][c] \in Seq(Byte)
        /\ inbox["client"][c] = r.data \o inbox'["client"][c]
        /\ \A d \in Clients, t \in Sides :
             d # c \/ t # "client" => inbox'[t][d] = inbox[t][d]
    BY <1>1, <2>1, ConsumeEffect, ZenonT(30)
  <2>5. Len(inbox["client"][c]) = Len(r.data) + Len(inbox'["client"][c])
    BY <2>4
  <2>6. r.ret < MaxInput => inbox'["client"][c] = <<>>
    BY <1>1, <1>2, <2>3, <2>4, <2>5
  <2>7. inbox["client"][c] # <<>> /\ (r.ret = MaxInput => Len(inbox["client"][c]) >= MaxInput)
    BY <1>1, <1>2, <2>3
  <2> QED
    BY <1>1, <2>1, <2>2, <2>4, <2>6, <2>7 DEF Listens, ClientTypeOK
<1>11. CASE ReadFails(c)
  <2>1. PICK r \in Reads("client", c) : r.ret = -1
    BY <1>11 DEF ReadFails
  <2>2. FALSE
    BY <1>1, <1>3, <1>4, <2>1, ReadCases
  <2> QED
    BY <2>2
<1>12. CASE FileAccepted(c) \/ Checked(c)
  BY <1>1, <1>12 DEF FileAccepted, Accepted, Checked, GoesOn, ClientTypeOK, netVars
<1>13. CASE Connect(c) \/ ConnectFails(c)
  BY <1>13 DEF Connect, ConnectFails
<1>14. CASE Declines(c) \/ FileMissing(c) \/ ChkDep(c) \/ RepoError(c)
            \/ Sigpipe(c) \/ FileRefused(c) \/ ParserCrash(c) \/ Killed(c)
            \/ Answered(c)
  BY <1>4, <1>5, <1>14 DEF Declines, FileMissing, ChkDep, RepoError, Sigpipe,
     FileRefused, ParserCrash, Killed, Answered
<1> QED
  BY <1>7, <1>8, <1>9, <1>10, <1>11, <1>12, <1>13, <1>14 DEF ClientStep

\* The messages of a run depend only on what it is about and has left to send.
LEMMA SameMessages ==
  ASSUME NEW c \in Clients, job' = job, todo'[c] = todo[c]
  PROVE  /\ CurFile(c)' = CurFile(c) /\ Size(c)' = Size(c)
         /\ Whole(c)' = Whole(c)
         /\ Header(c)' = Header(c) /\ Request(c)' = Request(c)
BY DEF CurFile, Size, Whole, Content, Header, Request

\* A header takes one read, and a message is not empty.
LEMMA MessageLengths ==
  ASSUME TypeInv, NEW c \in Clients
  PROVE  /\ Bytes(Header(c)) \in Seq(Byte)
         /\ Len(Bytes(Header(c))) = SmallLen
         /\ Bytes(Header(c)) # <<>>
         /\ job[c].cmd \in GetCodes =>
              /\ Bytes(Request(c)) \in Seq(Byte)
              /\ Len(Bytes(Request(c))) = job[c].req
              /\ Bytes(Request(c)) # <<>>
<1>1. ClientTypeOK /\ job[c] \in Job
  BY ClientAssumption DEF TypeInv, TypeOK, ClientTypeOK
<1>2. job[c].req \in Nat \ {0} /\ SmallLen \in Nat \ {0}
  BY <1>1, NetAssumption DEF Job
<1>3. Bytes(Header(c)) \in Seq(Byte)
  BY <1>1, ClientMessages, BytesType
<1>4. Len(Bytes(Header(c))) = SmallLen
  BY <1>2 DEF Bytes, Header
<1>5. job[c].cmd \in GetCodes => Bytes(Request(c)) \in Seq(Byte)
  BY <1>1, ClientMessages, BytesType
<1>6. Len(Bytes(Request(c))) = job[c].req
  BY <1>2 DEF Bytes, Request
<1>7. Len(<<>>) = 0
  OBVIOUS
<1> QED
  BY <1>2, <1>3, <1>4, <1>5, <1>6, <1>7

\* A client that uploads adds to what it has written, or ends.
LEMMA UploadGoesOn ==
  ASSUME TypeInv, LinkInv, PromptNet, NEW c \in Clients, ClientStep(c),
         Uploading(c)
  PROVE  /\ Uploading(c)'
         /\ \A a \in Seq(Byte) :
              a \o inbox["server"][c] = Written(c) =>
                a \o inbox'["server"][c] = Written(c)'
         /\ sent[c] = Size(c) => /\ sent'[c] = sent[c]
                                 /\ inbox'["server"][c] = inbox["server"][c]
         /\ todo'[c] = todo[c] /\ job' = job
<1>1. /\ cpc[c] \in {"content", "reply", "done"} /\ todo[c] # {}
      /\ sent[c] <= Size(c) /\ cbuf[c] = <<>> /\ inbox["client"][c] = <<>>
      /\ sock["server"][c] = "open"
  BY DEF Uploading
<1>2. /\ sent[c] \in Nat /\ Size(c) \in Nat
      /\ Whole(c) \in Seq(Byte) /\ Len(Whole(c)) = Size(c)
      /\ inbox["server"][c] \in Seq(Byte)
  BY RunType
<1>3. job' = job
  BY ClientKeepsLinks
<1>4. \/ cpc[c] # "done" /\ Ends(c)
      \/ Sends(c) /\ sock'["server"][c] = "open"
  BY <1>1, ConnectedClient
     DEF Live, Announces, Asks, Listens, GoesOn
<1>5. CASE Ends(c)
  <2>1. /\ cpc'[c] = "done" /\ cbuf'[c] = <<>> /\ todo'[c] = todo[c]
        /\ sent'[c] = sent[c] /\ inbox'["client"][c] = <<>>
        /\ inbox'["server"][c] = inbox["server"][c]
        /\ sock'["server"][c] = "open"
    BY <1>1, <1>5 DEF Ends
  <2>2. Size(c)' = Size(c) /\ Whole(c)' = Whole(c)
    BY <1>3, <2>1, SameMessages
  <2> QED
    BY <1>1, <1>3, <2>1, <2>2 DEF Uploading, Written
<1>6. CASE Sends(c) /\ sock'["server"][c] = "open"
  <2>1. PICK n \in (sent[c] + 1)..Size(c) :
               /\ sent'[c] = n
               /\ inbox'["server"][c] = SubSeq(Whole(c), sent[c] + 1, n)
    BY <1>6 DEF Sends
  <2>2. /\ cpc'[c] \in {"content", "reply"} /\ cbuf'[c] = <<>>
        /\ todo'[c] = todo[c] /\ inbox'["client"][c] = <<>>
        /\ inbox["server"][c] = <<>>
    BY <1>1, <1>6 DEF Sends
  <2>3. Size(c)' = Size(c) /\ Whole(c)' = Whole(c)
    BY <1>3, <2>2, SameMessages
  <2>4. Uploading(c)'
    BY <1>1, <1>2, <1>6, <2>1, <2>2, <2>3 DEF Uploading
  <2>5. SubSeq(Whole(c), 1, sent[c]) \o SubSeq(Whole(c), sent[c] + 1, n)
          = SubSeq(Whole(c), 1, n)
    <3>1. /\ 1 \in 1..(Len(Whole(c)) + 1) /\ sent[c] \in (1 - 1)..Len(Whole(c))
          /\ n \in sent[c]..Len(Whole(c))
      BY <1>1, <1>2, <2>1
    <3> QED
      BY <1>2, <3>1, ConcatAdjacentSubSeq
  <2>6. ASSUME NEW a \in Seq(Byte), a \o inbox["server"][c] = Written(c)
        PROVE  a \o inbox'["server"][c] = Written(c)'
    <3>1. a = SubSeq(Whole(c), 1, sent[c])
      BY <2>2, <2>6, ConcatEmptySeq DEF Written
    <3> QED
      BY <2>1, <2>3, <2>5, <3>1 DEF Written
  <2>7. sent[c] # Size(c)
    BY <1>2, <2>1
  <2> QED
    BY <1>3, <2>2, <2>4, <2>6, <2>7
<1> QED
  BY <1>4, <1>5, <1>6

\* A client that has asked waits, or ends.
LEMMA AskingGoesOn ==
  ASSUME TypeInv, LinkInv, PromptNet, NEW c \in Clients, ClientStep(c),
         sock["server"][c] \in Live, Asking(c)
  PROVE  /\ Asking(c)' /\ inbox'["server"][c] = inbox["server"][c]
         /\ todo'[c] = todo[c] /\ job' = job
<1>1. /\ cpc[c] \in {"check", "done"} /\ todo[c] = {} /\ job[c].cmd \in GetCodes
      /\ inbox["client"][c] = <<>>
  BY DEF Asking
<1>2. Ends(c)
  BY <1>1, ConnectedClient DEF Announces, Sends, Asks, Listens, GoesOn
<1>3. job' = job
  BY ClientKeepsLinks
<1> QED
  BY <1>1, <1>2, <1>3 DEF Ends, Asking

\* A client whose answer is due reads the acknowledgement and waits, or ends.
LEMMA PendingGoesOn ==
  ASSUME TypeInv, LinkInv, PromptNet, NEW c \in Clients, ClientStep(c),
         sock["server"][c] \in Live, Pending(c)
  PROVE  Pending(c)' /\ todo'[c] = todo[c] /\ job' = job
<1>1. SmallLen \in Nat /\ MaxInput \in Nat /\ SmallLen < MaxInput
  BY NetAssumption DEF PromptNet
<1>2. job' = job
  BY ClientKeepsLinks
<1>3. cpc[c] \in {"done", "check", "checked", "answer"} /\ todo[c] = {}
  BY DEF Pending
<1>4. \/ cpc[c] # "done" /\ Ends(c)
      \/ Listens(c)
      \/ cpc[c] = "checked" /\ GoesOn(c)
  BY <1>3, ConnectedClient DEF Announces, Sends, Asks, GoesOn
<1>5. CASE Ends(c)
  BY <1>2, <1>3, <1>5 DEF Ends, Pending
<1>6. CASE Listens(c)
  <2>1. inbox["client"][c] # <<>> /\ cpc[c] \in Receiving
    BY <1>6 DEF Listens
  <2>2. cpc[c] = "check" /\ Len(inbox["client"][c]) = SmallLen
    BY <2>1 DEF Pending, Receiving
  <2>3. /\ ~(Len(inbox["client"][c]) >= MaxInput)
        /\ Received["check"] = "checked"
    BY <1>1, <2>2 DEF Received
  <2>4. /\ cpc'[c] = "checked" /\ inbox'["client"][c] = <<>>
        /\ todo'[c] = todo[c]
    BY <1>6, <2>2, <2>3 DEF Listens
  <2> QED
    BY <1>2, <1>3, <2>4 DEF Pending
<1>7. CASE cpc[c] = "checked" /\ GoesOn(c)
  BY <1>2, <1>3, <1>7 DEF GoesOn, Pending
<1> QED
  BY <1>4, <1>5, <1>6, <1>7

\* A client the server waits for writes a whole message or nothing.
LEMMA AwaitingGoesOn ==
  ASSUME TypeInv, LinkInv, PromptNet, NEW c \in Clients, ClientStep(c),
         cpc[c] # "connect", sock["server"][c] \in Live,
         NEW a \in Seq(Byte), Awaiting(c, a \o inbox["server"][c]),
         a # <<>> => Asking(c)
  PROVE  /\ Awaiting(c, a \o inbox["server"][c])'
         /\ a # <<>> => Asking(c)'
<1>1. /\ inbox["server"][c] \in Seq(Byte) /\ inbox["client"][c] \in Seq(Byte)
      /\ sent[c] \in Nat /\ Size(c) \in Nat
  BY RunType
<1>2. /\ SmallLen \in Nat \ {0} /\ MaxInput \in Nat /\ SmallLen < MaxInput
      /\ \A s \in Seq(Byte) : <<>> \o s = s
  BY NetAssumption, ConcatEmptySeq DEF PromptNet
<1>3. job' = job
  BY ClientKeepsLinks
<1>4. CASE Asking(c) /\ a \o inbox["server"][c] = Bytes(Request(c))
  BY <1>3, <1>4, AskingGoesOn, SameMessages DEF Awaiting
<1>5. CASE Uploading(c) /\ sent[c] = 0 /\ a \o inbox["server"][c] = Bytes(Header(c))
  <2>1. a = <<>>
    BY <1>5 DEF Uploading, Asking
  <2>2. inbox["server"][c] # <<>>
    BY <1>1, <1>2, <1>5, <2>1, MessageLengths
  <2>3. Ends(c)
    BY <1>5, <2>2, ConnectedClient
       DEF Uploading, Announces, Sends, Asks, Listens, GoesOn
  <2>4. Uploading(c)'
    BY <1>5, UploadGoesOn
  <2>5. Header(c)' = Header(c) /\ sent'[c] = 0
        /\ inbox'["server"][c] = inbox["server"][c]
    BY <1>3, <1>5, <2>3, SameMessages DEF Ends
  <2> QED
    BY <1>5, <2>1, <2>4, <2>5 DEF Awaiting
<1>6. CASE Idle(c) /\ a \o inbox["server"][c] = <<>>
  <2>1. a = <<>> /\ inbox["server"][c] = <<>>
    BY <1>1, <1>6, ConcatEqualIffEmpty
  <2>2. ASSUME Awaiting(c, inbox["server"][c])',
               inbox'["server"][c] \in Seq(Byte)
        PROVE  Awaiting(c, a \o inbox["server"][c])'
    BY <1>2, <2>1, <2>2
  <2>3. CASE Ends(c)
    BY <2>1, <2>2, <2>3 DEF Ends, Awaiting, Idle
  <2>4. CASE Announces(c) /\ sock'["server"][c] = sock["server"][c]
    <3>1. /\ cpc'[c] \in {"content", "reply"} /\ sent'[c] = 0
          /\ todo'[c] = todo[c] /\ todo[c] # {} /\ cbuf'[c] = <<>>
          /\ inbox'["client"][c] = <<>>
          /\ inbox'["server"][c] = Bytes(Header(c))
      BY <1>6, <2>4 DEF Announces, Idle, LinkInv, OnItsWay
    <3>2. sock'["server"][c] = "open"
      BY <2>4 DEF Announces, LinkInv, Linked, Live
    <3>3. Size(c)' = Size(c) /\ Header(c)' = Header(c)
      BY <1>3, <3>1, SameMessages
    <3>4. Uploading(c)'
      BY <1>1, <3>1, <3>2, <3>3 DEF Uploading
    <3> QED
      BY <2>1, <2>2, <3>1, <3>3, <3>4, MessageLengths DEF Awaiting
  <2>5. CASE Asks(c)
    <3>1. /\ Request(c)' = Request(c)
          /\ inbox'["server"][c] = Bytes(Request(c))
          /\ job[c].cmd \in GetCodes
      BY <1>3, <2>5, SameMessages DEF Asks
    <3>2. Asking(c)'
      BY <1>3, <1>6, <2>5 DEF Asks, Asking, Idle
    <3> QED
      BY <2>1, <2>2, <3>1, <3>2, MessageLengths DEF Awaiting
  <2>6. CASE Listens(c)
    <3>1. cpc[c] = "reply" /\ Len(inbox["client"][c]) = SmallLen
      BY <1>6, <2>6 DEF Listens, Idle, Receiving
    <3>2. /\ ~(Len(inbox["client"][c]) >= MaxInput)
          /\ Received["reply"] = "replied"
      BY <1>2, <3>1 DEF Received
    <3>3. cpc'[c] = "replied" /\ inbox'["client"][c] = <<>>
      BY <2>6, <3>1, <3>2 DEF Listens
    <3>4. Idle(c)' /\ inbox'["server"][c] = <<>>
      BY <2>1, <2>6, <3>3 DEF Listens, Idle
    <3> QED
      BY <1>1, <2>1, <2>2, <3>4 DEF Awaiting
  <2>7. CASE GoesOn(c)
    <3>1. Idle(c)' /\ inbox'["server"][c] = <<>>
      BY <1>6, <2>1, <2>7 DEF GoesOn, Idle
    <3> QED
      BY <1>1, <2>1, <2>2, <3>1 DEF Awaiting
  <2>8. ~Sends(c)
    BY <1>6 DEF Sends, Idle
  <2> QED
    BY <2>3, <2>4, <2>5, <2>6, <2>7, <2>8, ConnectedClient
<1> QED
  BY <1>4, <1>5, <1>6 DEF Awaiting

\* What is said of a run holds on as long as nothing of it changes.
Untouched(d) ==
  /\ job'[d] = job[d] /\ cpc'[d] = cpc[d] /\ todo'[d] = todo[d]
  /\ sent'[d] = sent[d] /\ cbuf'[d] = cbuf[d]
  /\ inbox'["client"][d] = inbox["client"][d]
  /\ inbox'["server"][d] = inbox["server"][d]
  /\ sock'["client"][d] = sock["client"][d]
  /\ sock'["server"][d] = sock["server"][d]

\* A connection nothing happened on is where it was in its conversation.
LEMMA UntouchedTalk ==
  ASSUME NEW d, Untouched(d)
  PROVE  /\ Idle(d)' = Idle(d) /\ Uploading(d)' = Uploading(d)
         /\ Asking(d)' = Asking(d) /\ Pending(d)' = Pending(d)
         /\ Size(d)' = Size(d) /\ Whole(d)' = Whole(d)
         /\ Written(d)' = Written(d)
         /\ Header(d)' = Header(d) /\ Request(d)' = Request(d)
<1> USE DEF Untouched
<1>1. CurFile(d)' = CurFile(d)
  BY DEF CurFile
<1>2. Size(d)' = Size(d) /\ Whole(d)' = Whole(d)
  BY <1>1 DEF Size, Whole, Content
<1>3. Header(d)' = Header(d) /\ Request(d)' = Request(d)
  BY <1>1 DEF Header, Request
<1> QED
  BY <1>2, <1>3 DEF Idle, Uploading, Asking, Pending, Written

\* A step of a client keeps the conversations of all.
LEMMA ClientKeepsTalk ==
  ASSUME TypeInv, SocketInv, LinkInv, PromptNet, TalkInv,
         NEW c \in Clients, ClientStep(c), UNCHANGED serverVars
  PROVE  TalkInv'
<1>1. /\ Apart(c) /\ job' = job
      /\ "client" \in Sides /\ "server" \in Sides
  BY ClientKeepsLinks DEF Sides
<1>2. \A d \in Clients \ {c} : Untouched(d)
  BY <1>1 DEF Apart, Untouched
<1>3. \/ /\ cpc[c] = "connect" /\ cpc'[c] \in {"sync", "done"}
         /\ backlog' = Append(backlog, c) /\ UNCHANGED inbox
      \/ UNCHANGED backlog
  <2>1. ClientTypeOK
    BY DEF TypeInv, TypeOK
  <2>2. CASE Connect(c)
    BY <2>1, <2>2 DEF Connect, GoTo, ClientTypeOK
  <2>3. CASE ~Connect(c)
    BY <2>3 DEF ClientStep, ConnectFails, Declines, FileMissing,
       SendHeader, SendContent, ChkDep, RepoError, SendRepo, ReadMore, ReadLast,
       ReadFails, FileAccepted, FileRefused, Checked, Answered, ParserCrash,
       Sigpipe, Killed, Finish, Close, Write, Consume, netVars
  <2> QED
    BY <2>2, <2>3
<1>4. \/ Queued' \subseteq Queued
      \/ cpc[c] = "connect" /\ Queued' \subseteq Queued \cup {c}
  <2>1. backlog \in Seq(Clients)
    BY DEF TypeInv, TypeOK, NetTypeOK
  <2> QED
    BY <1>3, <2>1 DEF Queued
<1>5. ASSUME NEW d \in Queued' PROVE Awaiting(d, inbox["server"][d])'
  <2>0. d \in Clients
    <3>1. Queued \subseteq Clients
      BY DEF TypeInv, TypeOK, NetTypeOK, Queued
    <3> QED
      BY <1>4, <1>5, <3>1
  <2>1. CASE d # c
    <3>1. d \in Queued /\ Untouched(d)
      BY <1>2, <1>4, <1>5, <2>0, <2>1
    <3>2. Awaiting(d, inbox["server"][d])
      BY <3>1 DEF TalkInv
    <3> QED
      BY <3>1, <3>2, UntouchedTalk DEF Awaiting, Untouched
  <2>2. CASE d = c /\ cpc[c] # "connect"
    <3>1. c \in Queued /\ sock["server"][c] \in Live
      BY <1>4, <1>5, <2>2 DEF SocketInv, NoSocketLeak
    <3>2. Awaiting(c, inbox["server"][c]) /\ inbox["server"][c] \in Seq(Byte)
      BY <3>1, RunType DEF TalkInv
    <3>3. <<>> \in Seq(Byte) /\ <<>> \o inbox["server"][c] = inbox["server"][c]
      BY <3>2, ConcatEmptySeq
    <3>4. Awaiting(c, <<>> \o inbox["server"][c])'
      BY <2>2, <3>1, <3>2, <3>3, AwaitingGoesOn
    <3>5. <<>> \o inbox'["server"][c] = inbox'["server"][c]
      <4>1. inbox'["server"][c] \in Seq(Byte)
        BY <1>1, ClientStepType DEF TypeInv, TypeOK, NetTypeOK
      <4> QED
        BY <4>1, ConcatEmptySeq
    <3> QED
      BY <2>2, <3>4, <3>5
  <2>3. CASE d = c /\ cpc[c] = "connect"
    <3>1. d \notin Queued
      BY <2>0, <2>3 DEF SocketInv, NoSocketLeak, Live
    <3>2. ~UNCHANGED backlog
      BY <1>5, <3>1 DEF Queued
    <3>3. /\ cpc'[d] \in {"sync", "done"} /\ inbox'["server"][d] = <<>>
          /\ inbox'["client"][d] = <<>>
      BY <1>3, <2>3, <3>2 DEF LinkInv, Linked
    <3> QED
      BY <3>3 DEF Awaiting, Idle
  <2> QED
    BY <2>1, <2>2, <2>3
<1>6. ASSUME NEW d \in Clients, d = cur' PROVE Served(d)'
  <2>1. /\ d = cur /\ Served(d)
        /\ UNCHANGED <<spc, sbuf, root, disk, verdict>>
    BY <1>6 DEF TalkInv, serverVars
  <2>2. CASE d # c
    <3>1. Untouched(d)
      BY <1>2, <2>2
    <3> QED
      BY <2>1, <3>1, UntouchedTalk, ZenonT(30) DEF Served, Taken, Awaiting, Untouched
  <2>3. CASE d = c
    <3>1. /\ sock["server"][c] \in Live /\ cpc[c] # "connect"
      BY <2>1, <2>3, ServedIsLive
    <3>2. /\ inbox["server"][c] \in Seq(Byte) /\ sbuf \in Seq(Byte)
          /\ disk \in [FileCodes -> Seq(Byte)] /\ <<>> \in Seq(Byte)
          /\ ServerTypeOK /\ HasClient
      BY RunType DEF TypeInv, TypeOK, ServerTypeOK
    <3>3. Uploading(c) => Uploading(c)' /\ Header(c)' = Header(c)
                            /\ Whole(c)' = Whole(c) /\ Size(c)' = Size(c)
      BY UploadGoesOn, SameMessages
    <3>4. Asking(c) => /\ Asking(c)' /\ Request(c)' = Request(c)
                       /\ inbox'["server"][c] = inbox["server"][c]
      BY <3>1, AskingGoesOn, SameMessages
    <3>5. inbox'["server"][c] \in Seq(Byte)
      BY <1>1, ClientStepType DEF TypeInv, TypeOK, NetTypeOK
    <3>6. ASSUME Uploading(c), inbox["server"][c] = Written(c)
          PROVE  inbox'["server"][c] = Written(c)'
      <4>1. <<>> \o inbox["server"][c] = Written(c)
        BY <3>2, <3>6, ConcatEmptySeq
      <4>2. <<>> \o inbox'["server"][c] = Written(c)'
        BY <3>2, <3>6, <4>1, UploadGoesOn
      <4> QED
        BY <3>5, <4>2, ConcatEmptySeq
    <3>7. ASSUME NEW m, Taken(c, m) PROVE Taken(c, m)'
      BY <3>3, <3>4, <3>6, <3>7, RunningClient DEF Taken
    <3>8. CASE spc = "recv"
      <4>1. PICK a \in Seq(Byte) : a = sbuf
        BY <3>2
      <4>2. Awaiting(c, a \o inbox["server"][c]) /\ (a # <<>> => Asking(c))
        BY <2>1, <2>3, <3>8, <4>1 DEF Served
      <4>3. /\ Awaiting(c, a \o inbox["server"][c])'
            /\ a # <<>> => Asking(c)'
        BY <3>1, <4>2, AwaitingGoesOn
      <4>4. Awaiting(c, sbuf \o inbox["server"][c])'
        BY <2>1, <4>1, <4>3 DEF Awaiting
      <4> QED
        BY <2>1, <2>3, <3>8, <4>1, <4>3, <4>4 DEF Served
    <3>9. CASE spc = "parse"
      <4>1. PICK m \in {NoMsg, Header(c), Request(c)} :
                   sbuf = Bytes(m) /\ Taken(c, m)
        BY <2>1, <2>3, <3>9 DEF Served
      <4>2. Taken(c, m)'
        BY <3>7, <4>1
      <4>3. m \in {NoMsg, Header(c)', Request(c)'}
        BY <4>2 DEF Taken
      <4>4. sbuf' = Bytes(m)
        BY <2>1, <4>1
      <4> QED
        BY <2>1, <2>3, <3>9, <4>2, <4>3, <4>4 DEF Served
    <3>10. CASE spc = "dispatch"
      <4>1. PICK m : m = root
        OBVIOUS
      <4>2. Taken(c, m) /\ sbuf = <<>>
        BY <2>1, <2>3, <3>10, <4>1 DEF Served
      <4>3. Taken(c, m)' /\ root' = m
        BY <2>1, <3>7, <4>1, <4>2
      <4>4. Taken(c, root)'
        BY <4>3 DEF Taken
      <4> QED
        BY <2>1, <2>3, <3>10, <4>2, <4>4 DEF Served
    <3>11. CASE spc = "store"
      <4>1. /\ root = Header(c) /\ Uploading(c)
            /\ (disk[root.code] \o sbuf) \o inbox["server"][c] = Written(c)
        BY <2>1, <2>3, <3>11 DEF Served
      <4>2. disk[root.code] \o sbuf \in Seq(Byte)
        BY <3>2, <3>11 DEF HasClient
      <4>3. (disk[root.code] \o sbuf) \o inbox'["server"][c] = Written(c)'
        BY <4>1, <4>2, UploadGoesOn
      <4> QED
        BY <2>1, <2>3, <3>3, <3>11, <4>1, <4>3 DEF Served
    <3>12. CASE spc = "reply"
      <4>1. /\ root = Header(c) /\ Uploading(c) /\ sbuf = <<>>
            /\ verdict = "ANSWER_OK" => /\ disk[root.code] = Whole(c)
                                        /\ sent[c] = Size(c)
                                        /\ inbox["server"][c] = <<>>
        BY <2>1, <2>3, <3>12 DEF Served
      <4>2. sent[c] = Size(c) => /\ sent'[c] = sent[c]
                                 /\ inbox'["server"][c] = inbox["server"][c]
        BY <4>1, UploadGoesOn
      <4> QED
        BY <2>1, <2>3, <3>3, <3>12, <4>1, <4>2 DEF Served
    <3>13. CASE spc = "fclose"
      <4>1. /\ root.by = c /\ sbuf = <<>>
            /\ verdict = "ANSWER_OK" => Awaiting(c, inbox["server"][c])
        BY <2>1, <2>3, <3>13 DEF Served
      <4>2. ASSUME Awaiting(c, inbox["server"][c])
            PROVE  Awaiting(c, inbox["server"][c])'
        <5>1. Awaiting(c, <<>> \o inbox["server"][c])
          BY <3>2, <4>2, ConcatEmptySeq
        <5>2. Awaiting(c, <<>> \o inbox["server"][c])'
          BY <3>1, <3>2, <5>1, AwaitingGoesOn
        <5>3. <<>> \o inbox'["server"][c] = inbox'["server"][c]
          BY <3>5, ConcatEmptySeq
        <5> QED
          BY <5>2, <5>3
      <4> QED
        BY <2>1, <2>3, <3>13, <4>1, <4>2 DEF Served
    <3>14. CASE spc = "solve"
      <4>1. root = Request(c) /\ Pending(c) /\ sbuf = <<>>
        BY <2>1, <2>3, <3>14 DEF Served
      <4>2. Pending(c)' /\ Request(c)' = Request(c)
        BY <3>1, <4>1, PendingGoesOn, SameMessages
      <4> QED
        BY <2>1, <2>3, <3>14, <4>1, <4>2 DEF Served
    <3>15. CASE spc \notin {"recv", "parse", "dispatch", "store", "reply",
                            "fclose", "solve"}
      BY <2>1, <2>3, <3>15 DEF Served
    <3> QED
      BY <3>8, <3>9, <3>10, <3>11, <3>12, <3>13, <3>14, <3>15
  <2> QED
    BY <2>2, <2>3
<1>7. spc' \in {"accept", "down"} => sbuf' = <<>>
  BY DEF TalkInv, serverVars
<1> QED
  BY <1>5, <1>6, <1>7 DEF TalkInv

-----------------------------------------------------------------------------
(***************************************************************************)
(* The server's part of the conversation.                                  *)
(***************************************************************************)
\* A step of the server that writes nothing to c leaves where c stands.
LEMMA SilentTalk ==
  ASSUME UNCHANGED clientVars, NEW c,
         inbox'["client"][c] = inbox["client"][c],
         sock'["server"][c] = sock["server"][c]
  PROVE  /\ Idle(c)' = Idle(c) /\ Uploading(c)' = Uploading(c)
         /\ Asking(c)' = Asking(c) /\ Pending(c)' = Pending(c)
         /\ Size(c)' = Size(c) /\ Whole(c)' = Whole(c)
         /\ Written(c)' = Written(c)
         /\ Header(c)' = Header(c) /\ Request(c)' = Request(c)
<1> USE DEF clientVars
<1>1. CurFile(c)' = CurFile(c)
  BY DEF CurFile
<1>2. Size(c)' = Size(c) /\ Whole(c)' = Whole(c)
  BY <1>1 DEF Size, Whole, Content
<1>3. Header(c)' = Header(c) /\ Request(c)' = Request(c)
  BY <1>1 DEF Header, Request
<1> QED
  BY <1>2, <1>3 DEF Idle, Uploading, Asking, Pending, Written

\* What the server does with one client leaves those it has yet to accept.
LEMMA QueuedTalk ==
  ASSUME TypeInv, SocketInv, TalkInv, UNCHANGED clientVars, backlog' = backlog,
         \A d \in Clients, t \in Sides :
           d # cur => inbox'[t][d] = inbox[t][d] /\ sock'[t][d] = sock[t][d]
  PROVE  \A d \in Queued' : Awaiting(d, inbox["server"][d])'
<1> SUFFICES ASSUME NEW d \in Queued' PROVE Awaiting(d, inbox["server"][d])'
  OBVIOUS
<1>1. d \in Queued /\ d \in Clients /\ d # cur
  BY DEF Queued, SocketInv, TypeInv, TypeOK, NetTypeOK
<1>2. Untouched(d)
  BY <1>1 DEF Untouched, clientVars, Sides
<1>3. Awaiting(d, inbox["server"][d])
  BY <1>1 DEF TalkInv
<1> QED
  BY <1>2, <1>3, UntouchedTalk DEF Awaiting, Untouched

\* A message is one JSON document, and parsing it gives the message.
LEMMA ParseMessage ==
  ASSUME NEW m \in Message, m.len # 0, m.code \in JsonCodes
  PROVE  ParseResults(Bytes(m)) = {<<m, m>>}
<1>1. m.len \in Nat \ {0}
  BY DEF Message
<1>2. /\ Bytes(m) \in Seq(Byte) /\ Len(Bytes(m)) = m.len
  BY <1>1, BytesType DEF Bytes
<1>3. Bytes(m)[1].msg = m /\ Bytes(m)[m.len].msg = m
  BY <1>1 DEF Bytes
<1>4. Bytes(m) # <<>> /\ Head(Bytes(m)) = Bytes(m)[1]
  BY <1>1, <1>2
<1>5. IsWhole(Bytes(m)) /\ Parsed(Bytes(m)) = m
  BY <1>2, <1>3, <1>4 DEF IsWhole, Parsed
<1> QED
  BY <1>5 DEF ParseResults

\* What the server has taken tells by its code what it is.
LEMMA TakenCode ==
  ASSUME TypeInv, NEW c \in Clients, NEW m, Taken(c, m)
  PROVE  /\ m.code \in FileCodes =>
              m = Header(c) /\ Uploading(c) /\ inbox["server"][c] = Written(c)
         /\ m.code \in GetCodes =>
              m = Request(c) /\ Asking(c) /\ inbox["server"][c] = <<>>
         /\ m.code \notin FileCodes \cup GetCodes =>
              m = NoMsg /\ cpc[c] = "done" /\ inbox["server"][c] = <<>>
<1>1. Header(c).code \in FileCodes
  BY CurFileType DEF Header
<1>2. Asking(c) => Request(c).code \in GetCodes
  BY DEF Asking, Request
<1>3. NoMsg.code \notin FileCodes \cup GetCodes /\ FileCodes \cap GetCodes = {}
  BY DEF NoMsg, FileCodes, GetCodes
<1> QED
  BY <1>1, <1>2, <1>3 DEF Taken

\* The read of a message that fills the buffer, and the one that does not.
LEMMA RecvTalk ==
  ASSUME TypeInv, SocketInv, LinkInv, PromptNet, UNCHANGED clientVars,
         NEW c \in Clients, c = cur, Served(c), RecvMore \/ RecvLast
  PROVE  Served(c)'
<1>1. /\ NetTypeOK /\ sbuf \in Seq(Byte) /\ "server" \in Sides
      /\ "client" \in Sides /\ spc = "recv" /\ Other("server") = "client"
  BY DEF TypeInv, TypeOK, ServerTypeOK, Sides, RecvMore, RecvLast, Other
<1>2. PICK a \in Seq(Byte) : a = sbuf
  BY <1>1
<1>3. PICK in \in Seq(Byte) : in = inbox["server"][c]
  BY RunType
<1>4. Awaiting(c, a \o in) /\ (a # <<>> => Asking(c))
  BY <1>1, <1>2, <1>3 DEF Served
<1>5. PICK r \in Reads("server", c) :
             /\ Consume("server", c, r) /\ sbuf' = a \o r.data
             /\ \/ RecvMore /\ r.ret = MaxInput
                \/ RecvLast /\ r.ret < MaxInput
  <2>1. CASE RecvMore
    <3>1. PICK r \in Reads("server", c) :
                 /\ r.ret = MaxInput /\ Consume("server", c, r)
                 /\ sbuf' = sbuf \o r.data
      BY <2>1 DEF RecvMore
    <3> QED
      BY <1>2, <2>1, <3>1
  <2>2. CASE RecvLast
    <3>1. PICK r \in Reads("server", c) :
                 /\ r.ret < MaxInput /\ Consume("server", c, r)
                 /\ sbuf' = sbuf \o r.data
      BY <2>2 DEF RecvLast
    <3> QED
      BY <1>2, <2>2, <3>1
  <2> QED
    BY <2>1, <2>2
<1>6. /\ UNCHANGED sock /\ inbox'["client"][c] = inbox["client"][c]
      /\ r.data \in Seq(Byte) /\ inbox'["server"][c] \in Seq(Byte)
      /\ in = r.data \o inbox'["server"][c]
  <2>1. \A d \in Clients, t \in Sides :
          d # c \/ t # "server" => inbox'[t][d] = inbox[t][d]
    BY <1>1, <1>5, ConsumeEffect
  <2>2. /\ UNCHANGED sock
        /\ r.data \in Seq(Byte) /\ inbox'["server"][c] \in Seq(Byte)
        /\ in = r.data \o inbox'["server"][c]
    BY <1>1, <1>3, <1>5, ConsumeEffect
  <2> QED
    BY <1>1, <2>1, <2>2
<1>7. /\ Idle(c)' = Idle(c) /\ Uploading(c)' = Uploading(c)
      /\ Asking(c)' = Asking(c) /\ Written(c)' = Written(c)
      /\ Header(c)' = Header(c) /\ Request(c)' = Request(c)
  BY <1>6, SilentTalk
<1>8. \/ /\ r.ret \in 1..Len(in) /\ r.ret <= MaxInput
         /\ r.ret < MaxInput => r.ret = Len(in)
         /\ Len(r.data) = r.ret
      \/ in = <<>> /\ r.data = <<>> /\ r.ret <= 0 /\ cpc[c] = "done"
  <2>1. \/ /\ r.ret \in 1..Len(in) /\ r.ret <= MaxInput
           /\ Prompt /\ r.ret < MaxInput => r.ret = Len(in)
           /\ Len(r.data) = r.ret
        \/ /\ in = <<>> /\ r.data = <<>>
           /\ \/ r.ret \in {0, -1} /\ sock["server"][c] = "reset"
              \/ r.ret = 0 /\ sock["client"][c] = "closed"
    BY <1>1, <1>3, ReadCases
  <2> QED
    BY <2>1, ServedIsLive DEF PromptNet
<1>9. Len(a) \in Nat /\ Len(in) \in Nat /\ Len(a \o in) = Len(a) + Len(in)
      /\ Len(<<>>) = 0
  OBVIOUS
<1>10. MaxInput \in Nat \ {0} /\ SmallLen \in Nat \ {0} /\ SmallLen < MaxInput
  BY NetAssumption DEF PromptNet
<1>11. CASE RecvMore /\ r.ret = MaxInput
  <2>1. spc' = "recv"
    BY <1>1, <1>11 DEF RecvMore
  <2>2. Len(in) >= MaxInput
    BY <1>8, <1>10, <1>11
  <2>3. a \o in # <<>> /\ a \o in # Bytes(Header(c))
    BY <1>9, <1>10, <2>2, MessageLengths
  <2>4. Asking(c) /\ a \o in = Bytes(Request(c))
    BY <1>4, <2>3 DEF Awaiting
  <2>5. sbuf' \o inbox'["server"][c] = a \o in
    <3>1. PICK rest \in Seq(Byte) : rest = inbox'["server"][c]
      BY <1>6
    <3>2. (a \o r.data) \o rest = a \o (r.data \o rest)
      <4>1. r.data \in Seq(Byte)
        BY <1>6
      <4> QED
        BY <4>1, ConcatBytes, ZenonT(30)
    <3> QED
      BY <1>5, <1>6, <3>1, <3>2
  <2>6. Awaiting(c, sbuf \o inbox["server"][c])'
    BY <1>7, <2>4, <2>5 DEF Awaiting
  <2> QED
    BY <1>7, <2>1, <2>4, <2>6 DEF Served
<1>12. CASE RecvLast /\ r.ret < MaxInput
  <2>1. spc' = "parse"
    BY <1>12 DEF RecvLast
  <2>2. /\ sbuf' = a \o in
        /\ inbox'["server"][c] = <<>>
        /\ in # <<>> \/ (cpc[c] = "done" /\ in = <<>>)
    <3>1. CASE in = <<>> /\ r.data = <<>> /\ cpc[c] = "done"
      BY <1>5, <1>6, <3>1, ConcatEmptySeq
    <3>2. CASE r.ret = Len(in) /\ Len(r.data) = r.ret /\ r.ret \in 1..Len(in)
      <4>1. Len(in) = Len(r.data) + Len(inbox'["server"][c])
        BY <1>6, ConcatProperties
      <4>2. Len(inbox'["server"][c]) = 0
        <5>1. Len(r.data) \in Nat /\ Len(inbox'["server"][c]) \in Nat
          BY <1>6, LenProperties
        <5> QED
          BY <1>9, <3>2, <4>1, <5>1
      <4>3. inbox'["server"][c] = <<>>
        BY <1>6, <4>2
      <4>4. in = r.data
        BY <1>6, <4>3, ConcatEmptySeq
      <4> QED
        BY <1>5, <1>9, <3>2, <4>3, <4>4
    <3> QED
      BY <1>8, <1>12, <3>1, <3>2
  <2>3. \E m \in {NoMsg, Header(c), Request(c)} : a \o in = Bytes(m) /\ Taken(c, m)'
    <3>1. CASE a \o in = <<>> /\ Idle(c)
      <4>1. in = <<>>
        BY <3>1, ConcatEqualIffEmpty
      <4>2. Bytes(NoMsg) = <<>>
        BY DEF Bytes, NoMsg
      <4>3. cpc'[c] = "done"
        BY <2>2, <4>1 DEF clientVars
      <4>4. Taken(c, NoMsg)'
        BY <2>2, <4>3 DEF Taken
      <4> QED
        BY <3>1, <4>2, <4>4
    <3>2. CASE a \o in = Bytes(Header(c)) /\ Uploading(c) /\ sent[c] = 0
      <4>1. Written(c) = <<>>
        BY <3>2, RunType DEF Written
      <4>2. Taken(c, Header(c))'
        BY <1>7, <2>2, <3>2, <4>1 DEF Taken
      <4> QED
        BY <1>7, <3>2, <4>2
    <3>3. CASE a \o in = Bytes(Request(c)) /\ Asking(c)
      <4>1. Taken(c, Request(c))'
        BY <1>7, <2>2, <3>3 DEF Taken
      <4> QED
        BY <1>7, <3>3, <4>1
    <3> QED
      BY <1>4, <3>1, <3>2, <3>3 DEF Awaiting
  <2>4. PICK m \in {NoMsg, Header(c), Request(c)} :
               a \o in = Bytes(m) /\ Taken(c, m)'
    BY <2>3
  <2>5. m \in {NoMsg, Header(c)', Request(c)'} /\ sbuf' = Bytes(m)
    BY <1>7, <2>2, <2>4
  <2> QED
    BY <2>1, <2>4, <2>5 DEF Served
<1> QED
  BY <1>5, <1>11, <1>12

\* Parsing gives the message, or none at the end of the connection.
LEMMA ParseTalk ==
  ASSUME TypeInv, SocketInv, LinkInv, PromptNet, UNCHANGED clientVars,
         NEW c \in Clients, c = cur, Served(c), Parse
  PROVE  Served(c)'
<1>1. /\ spc = "parse" /\ spc' = "dispatch" /\ sbuf' = <<>>
      /\ UNCHANGED netVars
      /\ \E result \in ParseResults(sbuf) : root' = result[1]
  BY DEF Parse
<1>2. PICK m \in {NoMsg, Header(c), Request(c)} :
             sbuf = Bytes(m) /\ Taken(c, m)
  BY <1>1 DEF Served
<1>3. ParseResults(Bytes(m)) = {<<m, m>>}
  <2>1. CASE m = NoMsg
    <3>1. Bytes(NoMsg) = <<>>
      BY DEF Bytes, NoMsg
    <3> QED
      BY <2>1, <3>1 DEF ParseResults, IsWhole
  <2>2. CASE m = Header(c)
    <3>1. m \in Message /\ m.len # 0 /\ m.code \in JsonCodes
      BY <2>2, CurFileType, ClientMessages, NetAssumption
         DEF TypeInv, TypeOK, Header, JsonCodes
    <3> QED
      BY <3>1, ParseMessage
  <2>3. CASE m = Request(c) /\ m # NoMsg /\ m # Header(c)
    <3>1. job[c].cmd \in GetCodes
      BY <1>2, <2>3 DEF Taken, Asking
    <3>2. job[c] \in Job
      BY ClientAssumption DEF TypeInv, TypeOK, ClientTypeOK
    <3>3. m \in Message /\ m.len # 0 /\ m.code \in JsonCodes
      BY <2>3, <3>1, <3>2, ClientMessages
         DEF TypeInv, TypeOK, Request, JsonCodes, Job
    <3> QED
      BY <3>3, ParseMessage
  <2> QED
    BY <2>1, <2>2, <2>3
<1>4. root' = m
  BY <1>1, <1>2, <1>3
<1>5. /\ Uploading(c)' = Uploading(c) /\ Asking(c)' = Asking(c)
      /\ Written(c)' = Written(c)
      /\ Header(c)' = Header(c) /\ Request(c)' = Request(c)
  BY <1>1, SilentTalk DEF netVars
<1>6. Taken(c, root)'
  BY <1>1, <1>2, <1>4, <1>5 DEF Taken, netVars, clientVars
<1> QED
  BY <1>1, <1>6 DEF Served

\* Only a client that is gone makes the server read on; a header makes it
\* open the file, which is empty then.
LEMMA DispatchTalk ==
  ASSUME TypeInv, SocketInv, LinkInv, PromptNet, UNCHANGED clientVars,
         NEW c \in Clients, c = cur, Served(c), Ignore \/ OpenFile
  PROVE  Served(c)'
<1>1. /\ spc = "dispatch" /\ UNCHANGED netVars /\ sbuf' = sbuf
  BY DEF Ignore, OpenFile
<1>2. Taken(c, root) /\ sbuf = <<>>
  BY <1>1 DEF Served
<1>3. PICK m : m = root
  OBVIOUS
<1>4. Taken(c, m)
  BY <1>2, <1>3 DEF Taken
<1>5. /\ Uploading(c)' = Uploading(c) /\ Idle(c)' = Idle(c)
      /\ Written(c)' = Written(c) /\ Header(c)' = Header(c)
  BY <1>1, SilentTalk DEF netVars
<1>6. inbox'["server"][c] = inbox["server"][c] /\ inbox["server"][c] \in Seq(Byte)
  BY <1>1, RunType DEF netVars
<1>7. CASE Ignore
  <2>1. m.code \notin FileCodes \cup GetCodes /\ spc' = "recv"
    BY <1>3, <1>7 DEF Ignore
  <2>2. cpc[c] = "done" /\ inbox["server"][c] = <<>>
    BY <1>4, <2>1, TakenCode
  <2>3. Idle(c)' /\ sbuf' \o inbox'["server"][c] = <<>>
    BY <1>1, <1>2, <1>5, <1>6, <2>2 DEF Idle
  <2>4. Awaiting(c, sbuf \o inbox["server"][c])'
    BY <2>3 DEF Awaiting
  <2> QED
    BY <1>1, <1>2, <2>1, <2>4 DEF Served
<1>8. CASE OpenFile
  <2>1. /\ m.code \in FileCodes /\ spc' = "store" /\ root' = m
        /\ disk' = [disk EXCEPT ![m.code] = <<>>]
    BY <1>3, <1>8 DEF OpenFile, Opened
  <2>2. m = Header(c) /\ Uploading(c) /\ inbox["server"][c] = Written(c)
    BY <1>4, <2>1, TakenCode
  <2>3. disk'[root'.code] = <<>>
    BY <2>1 DEF TypeInv, TypeOK, ServerTypeOK
  <2>4. (<<>> \o <<>>) \o inbox["server"][c] = inbox["server"][c]
    BY <1>6, ConcatEmptySeq
  <2>5. (disk'[root'.code] \o sbuf') \o inbox'["server"][c] = Written(c)'
    BY <1>1, <1>2, <1>5, <1>6, <2>2, <2>3, <2>4
  <2> QED
    BY <1>5, <2>1, <2>2, <2>5 DEF Served
<1> QED
  BY <1>7, <1>8

\* A read of the file takes the next bytes of what the client has written.
LEMMA StoreTalk ==
  ASSUME TypeInv, SocketInv, LinkInv, PromptNet, UNCHANGED clientVars,
         NEW c \in Clients, c = cur, Served(c),
         StoreMore \/ StoreChunk \/ StoreFails
  PROVE  Served(c)'
<1>1. /\ NetTypeOK /\ sbuf \in Seq(Byte) /\ "server" \in Sides
      /\ "client" \in Sides /\ spc = "store" /\ Other("server") = "client"
      /\ root.code \in FileCodes /\ disk \in [FileCodes -> Seq(Byte)]
  BY DEF TypeInv, TypeOK, ServerTypeOK, Sides, HasClient, StoreMore, StoreChunk,
     StoreFails, Other
<1>2. PICK a \in Seq(Byte), b \in Seq(Byte), f \in FileCodes :
             a = disk[root.code] /\ b = sbuf /\ f = root.code
  BY <1>1
<1>3. PICK in \in Seq(Byte) : in = inbox["server"][c]
  BY RunType
<1>4. /\ root = Header(c) /\ Uploading(c) /\ (a \o b) \o in = Written(c)
      /\ f = CurFile(c)
  <2>1. root = Header(c) /\ Uploading(c)
    BY <1>1 DEF Served
  <2>2. (disk[root.code] \o sbuf) \o inbox["server"][c] = Written(c)
    BY <1>1 DEF Served
  <2>3. root.code = CurFile(c)
    BY <2>1 DEF Header
  <2> QED
    BY <1>2, <1>3, <2>1, <2>2, <2>3
<1>5. PICK r \in Reads("server", c) :
             /\ Consume("server", c, r)
             /\ \/ /\ sbuf' = b \o r.data
                   /\ spc' = "store" /\ UNCHANGED <<root, disk>>
                \/ /\ disk' = [disk EXCEPT ![f] = a \o Chunk(r)]
                   /\ spc' = AfterChunk(a \o Chunk(r)) /\ sbuf' = <<>>
                   /\ UNCHANGED root
                \/ /\ verdict' = "ANSWER_ERROR" /\ spc' = "reply"
                   /\ sbuf' = <<>> /\ UNCHANGED root
  <2>1. CASE StoreMore
    BY <1>1, <1>2, <2>1 DEF StoreMore
  <2>2. CASE StoreChunk
    BY <1>1, <1>2, <2>2 DEF StoreChunk
  <2>3. CASE StoreFails
    BY <1>1, <1>2, <2>3 DEF StoreFails
  <2> QED
    BY <2>1, <2>2, <2>3
<1>6. /\ UNCHANGED sock /\ inbox'["client"][c] = inbox["client"][c]
      /\ r.data \in Seq(Byte) /\ inbox'["server"][c] \in Seq(Byte)
      /\ in = r.data \o inbox'["server"][c]
  <2>1. \A d \in Clients, t \in Sides :
          d # c \/ t # "server" => inbox'[t][d] = inbox[t][d]
    BY <1>1, <1>5, ConsumeEffect
  <2>2. /\ UNCHANGED sock
        /\ r.data \in Seq(Byte) /\ inbox'["server"][c] \in Seq(Byte)
        /\ in = r.data \o inbox'["server"][c]
    BY <1>1, <1>3, <1>5, ConsumeEffect
  <2> QED
    BY <1>1, <2>1, <2>2
<1>7. /\ Uploading(c)' = Uploading(c) /\ Written(c)' = Written(c)
      /\ Whole(c)' = Whole(c) /\ Size(c)' = Size(c)
      /\ Header(c)' = Header(c)
  BY <1>6, SilentTalk
<1>8. PICK data \in Seq(Byte), rest \in Seq(Byte) :
             data = r.data /\ rest = inbox'["server"][c]
  BY <1>6
<1>9. ((a \o (b \o data)) \o <<>>) \o rest = Written(c)
      /\ (a \o (b \o data)) \o rest = Written(c)
  <2>1. (a \o b) \o (data \o rest) = Written(c)
    BY <1>4, <1>6, <1>8
  <2>2. /\ a \o b \in Seq(Byte) /\ b \o data \in Seq(Byte)
        /\ a \o (b \o data) \in Seq(Byte)
    BY ConcatProperties
  <2>3. ((a \o b) \o data) \o rest = Written(c)
    <3>1. PICK ab \in Seq(Byte) : ab = a \o b
      BY <2>2
    <3>2. (ab \o data) \o rest = ab \o (data \o rest)
      BY ConcatBytes
    <3> QED
      BY <2>1, <3>1, <3>2
  <2>4. (a \o b) \o data = a \o (b \o data)
    BY ConcatBytes, ZenonT(30)
  <2>5. (a \o (b \o data)) \o <<>> = a \o (b \o data)
    BY <2>2, ConcatEmptySeq
  <2> QED
    BY <2>3, <2>4, <2>5
<1>10. CASE sbuf' = b \o r.data /\ spc' = "store" /\ UNCHANGED <<root, disk>>
  <2>1. (disk'[root'.code] \o sbuf') \o inbox'["server"][c] = Written(c)'
    BY <1>2, <1>7, <1>8, <1>9, <1>10
  <2> QED
    BY <1>4, <1>7, <1>10, <2>1 DEF Served
<1>11. CASE /\ disk' = [disk EXCEPT ![f] = a \o Chunk(r)]
            /\ spc' = AfterChunk(a \o Chunk(r)) /\ sbuf' = <<>>
            /\ UNCHANGED root
  <2> DEFINE stored == a \o (b \o data)
  <2>1. r.ret # -1
    BY <1>1, <1>4, ReadCases, ServedIsLive DEF Uploading
  <2>2. Chunk(r) = b \o data
    BY <1>2, <1>8, <2>1 DEF Chunk
  <2>3. disk'[f] = stored /\ f = root'.code
    BY <1>1, <1>2, <1>11, <2>2
  <2>4. stored \in Seq(Byte)
    <3>1. b \o data \in Seq(Byte)
      BY ConcatProperties
    <3> QED
      BY <3>1, ConcatProperties
  <2>5. Size(c) = root.data
    BY <1>4 DEF Header, Size
  <2>6. CASE Len(stored) = Size(c)
    <3>1. spc' = "reply"
      BY <1>11, <2>2, <2>5, <2>6 DEF AfterChunk
    <3>2. /\ sent[c] \in Nat /\ Size(c) \in Nat /\ sent[c] <= Size(c)
          /\ Whole(c) \in Seq(Byte) /\ Len(Whole(c)) = Size(c)
      BY <1>4, RunType DEF Uploading
    <3>3. Len(Written(c)) = sent[c]
      BY <3>2 DEF Written
    <3>4. Len(stored) + Len(rest) = sent[c]
      BY <1>9, <2>4, <3>3, ConcatProperties, ZenonT(30)
    <3>5. sent[c] = Size(c) /\ rest = <<>>
      <4>1. Len(rest) \in Nat
        BY LenProperties
      <4>2. sent[c] = Size(c) /\ Len(rest) = 0
        BY <2>6, <3>2, <3>4, <4>1
      <4> QED
        BY <4>2
    <3>6. Written(c) = Whole(c)
      BY <3>2, <3>5, SubSeqFull DEF Written
    <3>7. stored = Whole(c)
      BY <1>9, <2>4, <3>5, <3>6, ConcatEmptySeq
    <3>8. /\ disk'[root'.code] = Whole(c)' /\ sent'[c] = Size(c)'
          /\ inbox'["server"][c] = <<>>
      BY <1>7, <1>8, <2>3, <3>5, <3>7 DEF clientVars
    <3> QED
      BY <1>4, <1>7, <1>11, <3>1, <3>8 DEF Served
  <2>7. CASE Len(stored) # Size(c)
    <3>1. spc' = "store"
      BY <1>11, <2>2, <2>5, <2>7 DEF AfterChunk
    <3>2. (disk'[root'.code] \o sbuf') \o inbox'["server"][c] = Written(c)'
      BY <1>7, <1>8, <1>9, <1>11, <2>3
    <3> QED
      BY <1>4, <1>7, <1>11, <3>1, <3>2 DEF Served
  <2> QED
    BY <2>6, <2>7
<1>12. CASE /\ verdict' = "ANSWER_ERROR" /\ spc' = "reply"
            /\ sbuf' = <<>> /\ UNCHANGED root
  BY <1>4, <1>7, <1>12 DEF Served
<1> QED
  BY <1>5, <1>10, <1>11, <1>12

\* A short message of the server to a client that waits is all that client has
\* to read.
LEMMA ShortReply ==
  ASSUME TypeInv, SocketInv, LinkInv, PromptNet, NEW c \in Clients, c = cur,
         root.by \in Clients \cup {NoClient}, NEW code \in AnswerCodes,
         Reply(code), cpc[c] # "done", inbox["client"][c] = <<>>
  PROVE  /\ Len(inbox'["client"][c]) = SmallLen
         /\ inbox'["server"][c] = inbox["server"][c]
<1> DEFINE m == [code |-> code, by |-> root.by, len |-> SmallLen, data |-> 0]
<1>1. /\ NetTypeOK /\ "client" \in Sides /\ "server" \in Sides
      /\ Other("server") = "client"
  BY DEF TypeInv, TypeOK, Sides, Other
<1>2. SmallLen \in Nat
  BY NetAssumption
<1>3. code \in Codes
  BY DEF Codes, JsonCodes
<1>4. m \in Message
  BY <1>2, <1>3 DEF Message
<1>5. Bytes(m) \in Seq(Byte) /\ Len(Bytes(m)) = SmallLen
  BY <1>2, <1>4, BytesType DEF Bytes
<1>6. sock["server"][c] = "open" /\ sock["client"][c] = "open"
  BY ServedIsLive
<1>7. Write("server", c, Bytes(m))
  BY DEF Reply
<1>8. inbox' = [inbox EXCEPT !["client"][c] = @ \o Bytes(m)]
  BY <1>1, <1>6, <1>7 DEF Write
<1>9. inbox'["client"][c] = <<>> \o Bytes(m)
  BY <1>1, <1>8 DEF NetTypeOK
<1>10. inbox'["server"][c] = inbox["server"][c]
  BY <1>1, <1>8 DEF NetTypeOK
<1> HIDE DEF m
<1> QED
  BY <1>5, <1>9, <1>10, ConcatEmptySeq

\* The reply to a stored file finds its client waiting for it, and so does the
\* acknowledgement of a request.
LEMMA ReplyTalk ==
  ASSUME TypeInv, SocketInv, LinkInv, PromptNet, UNCHANGED clientVars,
         NEW c \in Clients, c = cur, Served(c), ReplyToFile \/ Acknowledge
  PROVE  Served(c)'
<1>1. /\ ServerTypeOK /\ root.by \in Clients \cup {NoClient}
      /\ verdict \in AnswerCodes /\ "ANSWER_OK" \in AnswerCodes
  BY DEF TypeInv, TypeOK, ServerTypeOK, Message, AnswerCodes
<1>2. UNCHANGED <<sbuf, root, disk, verdict>>
  BY DEF ReplyToFile, Acknowledge
<1>3. /\ cpc' = cpc /\ todo' = todo /\ job' = job
      /\ Request(c)' = Request(c) /\ Header(c)' = Header(c)
  BY DEF clientVars, Request, Header, CurFile
<1>4. CASE ReplyToFile
  <2>1. /\ spc = "reply" /\ spc' = "fclose" /\ Reply(verdict)
    BY <1>4 DEF ReplyToFile
  <2>2. /\ root = Header(c) /\ Uploading(c) /\ sbuf = <<>>
        /\ verdict = "ANSWER_OK" => /\ sent[c] = Size(c)
                                    /\ inbox["server"][c] = <<>>
    BY <2>1 DEF Served
  <2>3. root'.by = c
    BY <1>2, <2>2 DEF Header
  <2>4. ASSUME verdict = "ANSWER_OK" PROVE Awaiting(c, inbox["server"][c])'
    <3>1. cpc[c] \in {"reply", "done"}
      <4>1. sent[c] = Size(c) /\ Size(c) \in Nat
        BY <2>2, <2>4, RunType
      <4> QED
        BY <2>2, <4>1 DEF Uploading, LinkInv, OnItsWay
    <3>2. CASE cpc[c] = "done"
      <4>1. inbox'["server"][c] = inbox["server"][c]
        <5>1. \E bytes \in Seq(Byte) : Write("server", c, bytes)
          BY <1>4, ServerWrites
        <5> QED
          BY <5>1, WriteEffect DEF TypeInv, TypeOK, Sides
      <4> QED
        BY <1>3, <2>2, <2>4, <3>2, <4>1 DEF Awaiting, Idle
    <3>3. CASE cpc[c] = "reply"
      <4>1. inbox["client"][c] = <<>>
        BY <2>2 DEF Uploading
      <4>2. /\ Len(inbox'["client"][c]) = SmallLen
            /\ inbox'["server"][c] = inbox["server"][c]
        BY <1>1, <2>1, <3>3, <4>1, ShortReply
      <4> QED
        BY <1>3, <2>2, <2>4, <3>3, <4>2 DEF Awaiting, Idle
    <3> QED
      BY <3>1, <3>2, <3>3
  <2> QED
    BY <1>2, <2>1, <2>2, <2>3, <2>4 DEF Served
<1>5. CASE Acknowledge
  <2>1. /\ spc = "dispatch" /\ spc' = "solve" /\ Reply("ANSWER_OK")
        /\ root.code \in GetCodes
    BY <1>5 DEF Acknowledge, AfterAck
  <2>2. Taken(c, root) /\ sbuf = <<>>
    BY <2>1 DEF Served
  <2>3. root = Request(c) /\ Asking(c)
    <3>1. PICK m : m = root
      OBVIOUS
    <3>2. Taken(c, m) /\ m.code \in GetCodes
      BY <2>1, <2>2, <3>1 DEF Taken
    <3> QED
      BY <3>1, <3>2, TakenCode
  <2>4. Pending(c)'
    <3>1. CASE cpc[c] = "done"
      BY <1>3, <2>3, <3>1 DEF Asking, Pending
    <3>2. CASE cpc[c] = "check"
      <4>1. inbox["client"][c] = <<>> /\ cpc[c] # "done"
        BY <2>3, <3>2 DEF Asking
      <4>2. Len(inbox'["client"][c]) = SmallLen
        BY <1>1, <2>1, <4>1, ShortReply
      <4> QED
        BY <1>3, <2>3, <3>2, <4>2 DEF Asking, Pending
    <3> QED
      BY <2>3, <3>1, <3>2 DEF Asking
  <2> QED
    BY <1>2, <1>3, <2>1, <2>2, <2>3, <2>4 DEF Served
<1> QED
  BY <1>4, <1>5

\* A step of the server keeps the conversations of all.
LEMMA ServerKeepsTalk ==
  ASSUME TypeInv, SocketInv, LinkInv, PromptNet, TalkInv,
         ServerStep \/ ServerFault, UNCHANGED clientVars
  PROVE  TalkInv'
<1>1. NetTypeOK /\ ServerTypeOK /\ HasClient
  BY DEF TypeInv, TypeOK
<1>2. ASSUME spc \notin {"accept", "down"}, spc' \notin {"accept", "down"},
             UNCHANGED <<cur, backlog>>,
             \A d \in Clients, t \in Sides :
               d # cur => inbox'[t][d] = inbox[t][d] /\ sock'[t][d] = sock[t][d],
             ASSUME NEW c \in Clients, c = cur, Served(c) PROVE Served(c)'
      PROVE  TalkInv'
  <2>1. \A d \in Queued' : Awaiting(d, inbox["server"][d])'
    BY <1>2, QueuedTalk
  <2>2. ASSUME NEW c \in Clients, c = cur' PROVE Served(c)'
    BY <1>2, <2>2 DEF TalkInv
  <2> QED
    BY <1>2, <2>1, <2>2 DEF TalkInv
<1>3. CASE RecvMore \/ RecvLast \/ StoreMore \/ StoreChunk \/ StoreFails
  <2>1. /\ spc \notin {"accept", "down"} /\ spc' \notin {"accept", "down"}
        /\ UNCHANGED cur
    BY <1>3 DEF RecvMore, RecvLast, StoreMore, StoreChunk, StoreFails, AfterChunk
  <2>2. cur \in Clients
    BY <1>1, <2>1 DEF HasClient
  <2>3. PICK r \in Reads("server", cur) : Consume("server", cur, r)
    BY <1>3 DEF RecvMore, RecvLast, StoreMore, StoreChunk, StoreFails
  <2>4. /\ UNCHANGED <<sock, backlog>>
        /\ \A d \in Clients, t \in Sides : d # cur => inbox'[t][d] = inbox[t][d]
    BY <1>1, <2>2, <2>3, ConsumeEffect DEF Sides
  <2>5. ASSUME NEW c \in Clients, c = cur, Served(c) PROVE Served(c)'
    BY <1>3, <2>5, RecvTalk, StoreTalk
  <2> QED
    BY <1>2, <2>1, <2>4, <2>5
<1>4. CASE RecvFails \/ Parse \/ Ignore \/ OpenFile \/ StoreReadFails \/ CloseFile
  <2>1. /\ spc \notin {"accept", "down"} /\ spc' \notin {"accept", "down"}
        /\ UNCHANGED <<cur, netVars>>
    BY <1>4 DEF RecvFails, Parse, Ignore, OpenFile, StoreReadFails, CloseFile
  <2>2. ASSUME NEW c \in Clients, c = cur, Served(c) PROVE Served(c)'
    <3>1. CASE Parse
      BY <2>2, <3>1, ParseTalk
    <3>2. CASE Ignore \/ OpenFile
      BY <2>2, <3>2, DispatchTalk
    <3>3. CASE RecvFails
      BY <3>3 DEF RecvFails, Served
    <3>4. CASE StoreReadFails
      <4>1. /\ spc = "store" /\ spc' = "reply" /\ verdict' = "ANSWER_ERROR"
            /\ sbuf = <<>> /\ UNCHANGED <<sbuf, root>>
        BY <3>4 DEF StoreReadFails
      <4>2. root = Header(c) /\ Uploading(c)
        BY <2>2, <4>1 DEF Served
      <4>3. Uploading(c)' = Uploading(c) /\ Header(c)' = Header(c)
        BY <2>1, SilentTalk DEF netVars
      <4> QED
        BY <4>1, <4>2, <4>3 DEF Served
    <3>5. CASE CloseFile
      <4>1. /\ spc = "fclose" /\ UNCHANGED <<sbuf, verdict>>
            /\ spc' = IF verdict = "ANSWER_OK" THEN "recv" ELSE "close"
        BY <3>5 DEF CloseFile
      <4>2. /\ sbuf = <<>>
            /\ verdict = "ANSWER_OK" => Awaiting(c, inbox["server"][c])
        BY <2>2, <4>1 DEF Served
      <4>3. /\ Uploading(c)' = Uploading(c) /\ Idle(c)' = Idle(c)
            /\ Asking(c)' = Asking(c)
            /\ Header(c)' = Header(c) /\ Request(c)' = Request(c)
            /\ inbox'["server"][c] = inbox["server"][c]
            /\ inbox["server"][c] \in Seq(Byte)
        BY <2>1, SilentTalk, RunType DEF netVars
      <4>4. sbuf' \o inbox'["server"][c] = inbox["server"][c]
        BY <4>1, <4>2, <4>3, ConcatEmptySeq
      <4>5. verdict = "ANSWER_OK" => Awaiting(c, sbuf \o inbox["server"][c])'
        BY <4>2, <4>3, <4>4 DEF Awaiting, clientVars
      <4>6. CASE verdict = "ANSWER_OK"
        BY <4>1, <4>2, <4>5, <4>6 DEF Served
      <4>7. CASE verdict # "ANSWER_OK"
        BY <4>1, <4>7 DEF Served
      <4> QED
        BY <4>6, <4>7
    <3> QED
      BY <1>4, <3>1, <3>2, <3>3, <3>4, <3>5
  <2> QED
    BY <1>2, <2>1, <2>2 DEF netVars
<1>5. CASE OpenFails \/ ReplyToFile \/ Acknowledge \/ Solve
  <2>1. /\ spc \notin {"accept", "down"} /\ spc' \notin {"accept", "down"}
        /\ UNCHANGED cur
    BY <1>5 DEF OpenFails, ReplyToFile, Acknowledge, Solve, AfterAck, AfterAnswer
  <2>2. cur \in Clients /\ \E bytes \in Seq(Byte) : Write("server", cur, bytes)
    BY <1>5, ServerWrites
  <2>3. /\ UNCHANGED backlog
        /\ \A d \in Clients, t \in Sides :
             d # cur => inbox'[t][d] = inbox[t][d] /\ sock'[t][d] = sock[t][d]
    BY <1>1, <2>2, WriteEffect DEF Sides
  <2>4. ASSUME NEW c \in Clients, c = cur, Served(c) PROVE Served(c)'
    <3>1. CASE ReplyToFile \/ Acknowledge
      BY <2>4, <3>1, ReplyTalk
    <3>2. CASE OpenFails \/ Solve
      BY <3>2 DEF OpenFails, Solve, AfterAnswer, Served
    <3> QED
      BY <1>5, <3>1, <3>2
  <2> QED
    BY <1>2, <2>1, <2>3, <2>4
<1>6. CASE Accept
  <2>1. /\ spc = "accept" /\ backlog # <<>> /\ cur' = Head(backlog)
        /\ backlog' = Tail(backlog) /\ spc' = "recv"
        /\ UNCHANGED <<inbox, sock, sbuf>>
    BY <1>6 DEF Accept
  <2>2. backlog \in Seq(Clients) /\ sbuf = <<>>
    BY <1>1, <2>1 DEF NetTypeOK, TalkInv
  <2>3. Head(backlog) \in Queued /\ Queued' \subseteq Queued
    BY <2>1, <2>2 DEF Queued
  <2>4. ASSUME NEW d \in Queued
        PROVE  Awaiting(d, inbox["server"][d])' /\ inbox["server"][d] \in Seq(Byte)
    <3>1. Awaiting(d, inbox["server"][d]) /\ d \in Clients
      BY <2>2 DEF TalkInv, Queued
    <3>2. Untouched(d)
      BY <2>1 DEF Untouched, clientVars
    <3> QED
      BY <3>1, <3>2, UntouchedTalk, RunType DEF Awaiting, Untouched
  <2>5. ASSUME NEW c \in Clients, c = cur' PROVE Served(c)'
    <3>1. Awaiting(c, inbox["server"][c])' /\ inbox["server"][c] \in Seq(Byte)
      BY <2>1, <2>3, <2>4, <2>5
    <3>2. sbuf' \o inbox'["server"][c] = inbox'["server"][c]
      BY <2>1, <2>2, <3>1, ConcatEmptySeq
    <3>3. Awaiting(c, sbuf \o inbox["server"][c])'
      BY <3>1, <3>2 DEF Awaiting
    <3> QED
      BY <2>1, <2>2, <3>3 DEF Served
  <2> QED
    BY <2>1, <2>3, <2>4, <2>5 DEF TalkInv
<1>7. CASE CloseClient
  <2>1. cur \in Clients /\ Close("server", cur)
    BY <1>1, <1>7 DEF CloseClient, HasClient
  <2>2. /\ UNCHANGED backlog
        /\ \A d \in Clients, t \in Sides :
             d # cur => inbox'[t][d] = inbox[t][d] /\ sock'[t][d] = sock[t][d]
    BY <1>1, <2>1, CloseEffect DEF Sides
  <2>3. \A d \in Queued' : Awaiting(d, inbox["server"][d])'
    BY <2>2, QueuedTalk
  <2>4. cur' \notin Clients /\ sbuf' = <<>>
    BY <1>7, NetAssumption DEF CloseClient
  <2> QED
    BY <2>3, <2>4 DEF TalkInv
<1>8. CASE Segfault \/ ServerSigpipe \/ Signalled \/ PowerLost
  <2>1. backlog' = <<>> /\ cur' = NoClient /\ sbuf' = <<>>
    BY <1>8 DEF Segfault, ServerSigpipe, Signalled, PowerLost, Dies, ServerGone
  <2>2. Queued' = {} /\ cur' \notin Clients
    BY <2>1, NetAssumption DEF Queued
  <2> QED
    BY <2>1, <2>2 DEF TalkInv
<1>9. CASE Restart
  <2>1. /\ spc = "down" /\ UNCHANGED <<inbox, sock, backlog, cur, sbuf>>
    BY <1>9 DEF Restart
  <2>2. cur = NoClient /\ sbuf = <<>>
    BY <2>1 DEF SocketInv, TalkInv
  <2>3. \A d \in Queued' : Awaiting(d, inbox["server"][d])'
    BY <2>1, QueuedTalk
  <2> QED
    BY <2>1, <2>2, <2>3, NetAssumption DEF TalkInv
<1> QED
  BY <1>3, <1>4, <1>5, <1>6, <1>7, <1>8, <1>9 DEF ServerStep, ServerFault

\* At the start nobody is connected.
LEMMA TalkInit == Init => TalkInv
BY NetAssumption DEF Init, NetInit, ServerInit, TalkInv, Queued

\* Every step keeps TalkInv.
LEMMA TalkStep ==
  ASSUME PromptNet
  PROVE  TypeInv /\ SocketInv /\ LinkInv /\ TalkInv /\ [Next]_vars => TalkInv'
<1> SUFFICES ASSUME TypeInv, SocketInv, LinkInv, TalkInv, [Next]_vars
             PROVE  TalkInv'
  OBVIOUS
<1>1. CASE UNCHANGED vars
  <2>1. /\ \A d : Untouched(d)
        /\ UNCHANGED <<spc, cur, sbuf, root, disk, verdict, backlog>>
    BY <1>1 DEF vars, netVars, clientVars, serverVars, Untouched
  <2>2. \A d \in Queued' : Awaiting(d, inbox["server"][d])'
    BY <2>1, UntouchedTalk DEF TalkInv, Queued, Awaiting, Untouched
  <2>3. ASSUME NEW d \in Clients, d = cur' PROVE Served(d)'
    <3>1. /\ Served(d) /\ Untouched(d)
          /\ UNCHANGED <<spc, sbuf, root, disk, verdict>>
      BY <2>1, <2>3 DEF TalkInv
    <3> QED
      BY <3>1, UntouchedTalk, ZenonT(30) DEF Served, Taken, Awaiting, Untouched
  <2> QED
    BY <2>1, <2>2, <2>3 DEF TalkInv
<1> QED
  BY <1>1, ClientKeepsTalk, ServerKeepsTalk DEF Next

\* TalkInv always holds on a prompt network.
LEMMA TalkInvariant == ASSUME PromptNet PROVE Spec => []TalkInv
BY TalkInit, TalkStep, TypeInvariant, SocketInvariant, LinkInvariant, PTL
   DEF Spec

-----------------------------------------------------------------------------
(***************************************************************************)
(* What the protocol promises on such a network.                           *)
(***************************************************************************)
\* The server acts on no message of another client: what it has taken, opened,
\* answered or is solving is of the client it is connected to.
THEOREM ActsForItsClient ==
  ASSUME PromptNet
  PROVE  Spec => []HandlesOwnMessage
<1>1. TypeInv /\ TalkInv => HandlesOwnMessage
  <2> SUFFICES ASSUME TypeInv, TalkInv, root # NoMsg,
                      spc \in {"dispatch", "store", "reply", "fclose", "solve"}
               PROVE  root.by = cur
    BY DEF HandlesOwnMessage
  <2>1. PICK c \in Clients : c = cur
    BY DEF TypeInv, HasClient
  <2>2. Served(c)
    BY <2>1 DEF TalkInv
  <2>3. \/ spc = "dispatch" /\ root \in {Header(c), Request(c)}
        \/ spc \in {"store", "reply"} /\ root = Header(c)
        \/ spc = "fclose" /\ root.by = c
        \/ spc = "solve" /\ root = Request(c)
    BY <2>2 DEF Served, Taken
  <2> QED
    BY <2>1, <2>3 DEF Header, Request
<1> QED
  BY <1>1, TypeInvariant, TalkInvariant, PTL

\* A set of packages is solved only for a client whose changed files the server
\* has all acknowledged.
THEOREM SolvesWhatIsSynced ==
  ASSUME PromptNet
  PROVE  Spec => []SolveAfterSync
<1>1. TypeInv /\ TalkInv => SolveAfterSync
  <2> SUFFICES ASSUME TypeInv, TalkInv, spc = "solve" PROVE todo[cur] = {}
    BY DEF SolveAfterSync
  <2>1. PICK c \in Clients : c = cur
    BY DEF TypeInv, HasClient
  <2>2. Pending(c)
    BY <2>1 DEF TalkInv, Served
  <2> QED
    BY <2>1, <2>2 DEF Pending
<1> QED
  BY <1>1, TypeInvariant, TalkInvariant, PTL

-----------------------------------------------------------------------------
(***************************************************************************)
(* Confirmations.                                                          *)
(***************************************************************************)
\* Where a run waits for the server, and where it does not look any more.
Heeding == Receiving \cup {"checked", "done"}

\* On a prompt network a read that does not fill the buffer takes all there is.
LEMMA ReadAll ==
  ASSUME NetTypeOK, Prompt, NEW s \in Sides, NEW c \in Clients,
         NEW r \in Reads(s, c), Consume(s, c, r), r.ret < MaxInput
  PROVE  inbox'[s][c] = <<>>
<1>1. /\ r.data \in Seq(Byte) /\ inbox'[s][c] \in Seq(Byte)
      /\ inbox[s][c] = r.data \o inbox'[s][c]
  BY ConsumeEffect
<1>2. inbox[s][c] = <<>> \/ Len(r.data) = Len(inbox[s][c])
  BY ReadCases
<1>3. PICK rest \in Seq(Byte), data \in Seq(Byte) :
             rest = inbox'[s][c] /\ data = r.data
  BY <1>1
<1>4. /\ Len(data \o rest) = Len(data) + Len(rest)
      /\ Len(data) \in Nat /\ Len(rest) \in Nat
      /\ data \o rest = <<>> => rest = <<>>
  BY ConcatProperties, LenProperties, ConcatEqualIffEmpty
<1>5. data \o rest = <<>> \/ Len(data) = Len(data \o rest)
  BY <1>1, <1>2, <1>3
<1>6. rest = <<>>
  <2>1. Len(data) = Len(data \o rest) => Len(rest) = 0
    BY <1>4
  <2> QED
    BY <1>4, <1>5, <2>1
<1> QED
  BY <1>3, <1>6

\* What a step of a client does to the bytes it has to read.
LEMMA ClientHears ==
  ASSUME TypeInv, LinkInv, Prompt, NEW c \in Clients, ClientStep(c)
  PROVE  \/ inbox'["client"][c] = <<>>
         \/ /\ inbox'["client"][c] = inbox["client"][c]
            /\ cpc[c] \in Heeding => cpc'[c] \in Heeding
         \/ /\ cpc[c] \in Heeding /\ cpc'[c] = cpc[c]
            /\ inbox'["client"][c] \in Seq(Byte)
<1> USE DEF GoTo
<1>1. /\ NetTypeOK /\ ClientTypeOK /\ "client" \in Sides /\ "server" \in Sides
      /\ Other("client") = "server"
  BY DEF TypeInv, TypeOK, Sides, Other
<1>2. cpc[c] \in ClientPc /\ inbox["client"][c] \in Seq(Byte)
  BY RunType
<1>3. CASE \E what, st : Finish(c, what, st)
  BY <1>3, FinishEnds DEF Ends
<1>4. CASE SendHeader(c) \/ SendContent(c) \/ SendRepo(c)
  <2>1. cpc[c] \in {"sync", "content"} /\ cpc[c] \notin Heeding
    BY <1>4 DEF SendHeader, SendContent, SendRepo, Synced, Heeding, Receiving
  <2>2. PICK bytes : Write("client", c, bytes)
    BY <1>4 DEF SendHeader, SendContent, SendRepo
  <2>3. inbox' = inbox \/ inbox' = [inbox EXCEPT !["server"][c] = @ \o bytes]
    BY <1>1, <2>2 DEF Write
  <2>4. inbox'["client"][c] = inbox["client"][c]
    BY <1>1, <2>3 DEF NetTypeOK
  <2> QED
    BY <2>1, <2>4
<1>5. CASE ReadMore(c)
  <2>1. PICK r \in Reads("client", c) : Consume("client", c, r)
    BY <1>5 DEF ReadMore
  <2>2. inbox'["client"][c] \in Seq(Byte)
    BY <1>1, <2>1, ConsumeEffect
  <2> QED
    BY <1>5, <2>2 DEF ReadMore, Heeding
<1>6. CASE ReadLast(c)
  <2>1. PICK r \in Reads("client", c) : r.ret < MaxInput /\ Consume("client", c, r)
    BY <1>6 DEF ReadLast
  <2> QED
    BY <1>1, <2>1, ReadAll
<1>7. CASE /\ UNCHANGED netVars
           /\ cpc[c] \in Heeding => cpc'[c] \in Heeding
  BY <1>7 DEF netVars
<1>8. CASE Connect(c)
  BY <1>1, <1>8 DEF Connect, LinkInv, Linked
<1>9. CASE ConnectFails(c)
  <2>1. UNCHANGED <<netVars, cpc>> \/ \E what, st : Finish(c, what, st)
    BY <1>9 DEF ConnectFails
  <2> QED
    BY <1>3, <1>7, <2>1
<1>10. CASE ReadFails(c)
  <2>1. \/ \E what, st : Finish(c, what, st)
        \/ UNCHANGED netVars /\ cpc' = [cpc EXCEPT ![c] = "answer"]
    BY <1>10 DEF ReadFails
  <2>2. ASSUME UNCHANGED netVars, cpc' = [cpc EXCEPT ![c] = "answer"]
        PROVE  cpc'[c] \in Heeding
    BY <1>1, <2>2 DEF Heeding, Receiving, ClientTypeOK
  <2> QED
    BY <1>3, <1>7, <2>1, <2>2
<1>11. CASE FileAccepted(c) \/ Checked(c)
  <2>1. /\ UNCHANGED netVars
        /\ \/ cpc[c] = "replied"
           \/ cpc'[c] = "answer"
    BY <1>1, <1>11 DEF FileAccepted, Accepted, Checked, ClientTypeOK
  <2> QED
    BY <1>7, <2>1 DEF Heeding, Receiving
<1>12. CASE Declines(c) \/ FileMissing(c) \/ ChkDep(c) \/ RepoError(c)
            \/ Sigpipe(c) \/ FileRefused(c) \/ ParserCrash(c) \/ Killed(c)
            \/ Answered(c)
  BY <1>3, <1>12 DEF Declines, FileMissing, ChkDep, RepoError, Sigpipe,
     FileRefused, ParserCrash, Killed, Answered
<1> QED
  BY <1>4, <1>5, <1>6, <1>8, <1>9, <1>10, <1>11, <1>12 DEF ClientStep

\* What the server sends a client, and where it finds it.
LEMMA ServerSays ==
  ASSUME TypeInv, SocketInv, LinkInv, PromptNet, TalkInv,
         ServerStep \/ ServerFault, NEW c \in Clients
  PROVE  \/ inbox'["client"][c] = inbox["client"][c]
         \/ /\ c = cur /\ inbox["client"][c] = <<>>
            /\ \E m \in Message :
                 /\ inbox'["client"][c] = Bytes(m)
                 /\ m.code # "ANSWER_ERROR" =>
                      /\ cpc[c] \in Heeding
                      /\ cpc[c] = "reply" => /\ spc = "reply"
                                             /\ verdict = "ANSWER_OK"
<1>1. /\ NetTypeOK /\ ServerTypeOK /\ "client" \in Sides /\ "server" \in Sides
      /\ Other("server") = "client" /\ Other("client") = "server" /\ HasClient
  BY DEF TypeInv, TypeOK, Sides, Other
<1>2. ASSUME NEW m \in Message, Write("server", cur, Bytes(m)), cur \in Clients
      PROVE  \/ inbox'["client"][c] = inbox["client"][c]
             \/ /\ c = cur /\ inbox["client"][c] = <<>>
                /\ inbox'["client"][c] = Bytes(m)
  <2>1. Bytes(m) \in Seq(Byte)
    BY BytesType
  <2>2. inbox["client"][cur] = <<>>
    BY <1>1, <1>2 DEF Write, CanWrite, PromptNet
  <2>3. \/ inbox' = inbox
        \/ inbox' = [inbox EXCEPT !["client"][cur] = @ \o Bytes(m)]
    BY <1>1, <1>2 DEF Write
  <2>4. CASE c # cur
    BY <1>1, <2>3, <2>4 DEF NetTypeOK
  <2>5. CASE c = cur
    <3>1. \/ inbox'["client"][c] = inbox["client"][c]
          \/ inbox'["client"][c] = <<>> \o Bytes(m)
      BY <1>1, <1>2, <2>2, <2>3, <2>5 DEF NetTypeOK
    <3> QED
      BY <2>1, <2>2, <2>5, <3>1, ConcatEmptySeq
  <2> QED
    BY <2>4, <2>5
<1>3. CASE OpenFails \/ ReplyToFile \/ Acknowledge
  <2>1. PICK code \in AnswerCodes :
               /\ Reply(code)
               /\ \/ code = "ANSWER_ERROR"
                  \/ ReplyToFile /\ verdict = "ANSWER_OK"
                  \/ Acknowledge
    BY <1>1, <1>3
       DEF OpenFails, ReplyToFile, Acknowledge, AnswerCodes, ServerTypeOK
  <2> DEFINE m == [code |-> code, by |-> root.by, len |-> SmallLen, data |-> 0]
  <2>2. code \in Codes
    BY DEF Codes, JsonCodes
  <2>3. m \in Message
    BY <1>1, <2>2, NetAssumption DEF Message, ServerTypeOK
  <2>4. Write("server", cur, Bytes(m)) /\ m.code = code
    BY <2>1 DEF Reply
  <2>5. PICK d \in Clients : d = cur
    BY <1>1, <1>3 DEF OpenFails, ReplyToFile, Acknowledge, HasClient
  <2>6. Served(d)
    BY <2>5 DEF TalkInv
  <2>7. code # "ANSWER_ERROR" =>
          /\ cpc[d] \in Heeding
          /\ cpc[d] = "reply" => spc = "reply" /\ verdict = "ANSWER_OK"
    <3>1. CASE ReplyToFile /\ verdict = "ANSWER_OK"
      <4>1. spc = "reply" /\ Uploading(d) /\ sent[d] = Size(d)
        BY <2>6, <3>1 DEF ReplyToFile, Served
      <4>2. Size(d) \in Nat
        BY RunType
      <4>3. cpc[d] \in {"reply", "done"}
        BY <4>1, <4>2 DEF Uploading, LinkInv, OnItsWay
      <4> QED
        BY <3>1, <4>1, <4>3 DEF Heeding, Receiving
    <3>2. CASE Acknowledge
      <4>1. PICK n : n = root
        OBVIOUS
      <4>2. spc = "dispatch" /\ n.code \in GetCodes /\ Taken(d, n)
        BY <2>6, <3>2, <4>1 DEF Acknowledge, Served, Taken
      <4>3. Asking(d)
        BY <4>2, TakenCode
      <4> QED
        BY <4>3 DEF Asking, Heeding, Receiving
    <3> QED
      BY <2>1, <3>1, <3>2
  <2> HIDE DEF m
  <2> QED
    BY <1>2, <2>3, <2>4, <2>5, <2>7
<1>4. CASE Solve
  <2>1. PICK n \in AnswerLens,
             answer \in {<<"ANSWER_NO_DEP", 0>>}
                          \cup {<<"ANSWER_OK", k>> : k \in PkgCounts} :
               Write("server", cur,
                     Bytes([code |-> answer[1], by |-> root.by,
                            len |-> n, data |-> answer[2]]))
    BY <1>4 DEF Solve
  <2>2. n \in Nat
    BY ServerAssumption
  <2>3. answer[1] \in Codes /\ answer[2] \in Nat
    <3>1. CASE answer = <<"ANSWER_NO_DEP", 0>>
      BY <3>1 DEF Codes, JsonCodes, AnswerCodes
    <3>2. CASE \E k \in PkgCounts : answer = <<"ANSWER_OK", k>>
      BY <3>2, ServerAssumption DEF Codes, JsonCodes, AnswerCodes
    <3> QED
      BY <3>1, <3>2
  <2> DEFINE m == [code |-> answer[1], by |-> root.by, len |-> n,
                   data |-> answer[2]]
  <2>4. m \in Message
    BY <1>1, <2>2, <2>3 DEF Message, ServerTypeOK
  <2>5. PICK d \in Clients : d = cur
    BY <1>1, <1>4 DEF Solve, HasClient
  <2>6. Pending(d)
    BY <1>4, <2>5 DEF TalkInv, Served, Solve
  <2>7. cpc[d] \in Heeding /\ cpc[d] # "reply"
    BY <2>6 DEF Pending, Heeding, Receiving
  <2>8. Write("server", cur, Bytes(m))
    BY <2>1
  <2> HIDE DEF m
  <2> QED
    BY <1>2, <2>4, <2>5, <2>7, <2>8
<1>5. CASE Accept \/ RecvFails \/ Parse \/ Ignore \/ OpenFile \/ StoreReadFails
           \/ CloseFile \/ Restart
  BY <1>5 DEF Accept, RecvFails, Parse, Ignore, OpenFile, StoreReadFails,
     CloseFile, Restart, netVars
<1>6. CASE RecvMore \/ RecvLast \/ StoreMore \/ StoreChunk \/ StoreFails
  <2>1. \E bytes : inbox' = [inbox EXCEPT !["server"][cur] = bytes]
    BY <1>6 DEF RecvMore, RecvLast, StoreMore, StoreChunk, StoreFails, Consume
  <2> QED
    BY <1>1, <2>1 DEF NetTypeOK
<1>7. CASE CloseClient
  <2>1. inbox' = [inbox EXCEPT !["server"][cur] = <<>>]
    BY <1>7 DEF CloseClient, Close
  <2> QED
    BY <1>1, <2>1 DEF NetTypeOK
<1>8. CASE Segfault \/ ServerSigpipe \/ Signalled \/ PowerLost
  <2>1. inbox' = [inbox EXCEPT !["server"] = [d \in Clients |-> <<>>]]
    BY <1>8 DEF Segfault, ServerSigpipe, Signalled, PowerLost, Dies, ServerGone
  <2> QED
    BY <1>1, <2>1 DEF NetTypeOK
<1> QED
  BY <1>3, <1>4, <1>5, <1>6, <1>7, <1>8 DEF ServerStep, ServerFault

\* Every step keeps ConfirmedWhenAsked: a confirmation is written only for a
\* client that waits, and one that stops waiting has read what there was.
LEMMA ConfirmStep ==
  ASSUME PromptNet
  PROVE  TypeInv /\ SocketInv /\ LinkInv /\ TalkInv /\ ConfirmedWhenAsked
           /\ [Next]_vars => ConfirmedWhenAsked'
<1> SUFFICES ASSUME TypeInv, SocketInv, LinkInv, TalkInv, ConfirmedWhenAsked,
                    [Next]_vars
             PROVE  ConfirmedWhenAsked'
  OBVIOUS
<1> SUFFICES ASSUME NEW c \in Clients,
                    NEW k \in 1..Len(inbox'["client"][c]),
                    inbox'["client"][c][k].msg.code # "ANSWER_ERROR"
             PROVE  cpc'[c] \in Heeding
  BY DEF ConfirmedWhenAsked, Heeding
<1>1. inbox["client"][c] \in Seq(Byte) /\ Len(<<>>) = 0
  BY RunType
<1>2. inbox'["client"][c] = inbox["client"][c] => cpc[c] \in Heeding
  BY DEF ConfirmedWhenAsked, Heeding
<1>3. inbox'["client"][c] # <<>>
  BY <1>1
<1>4. CASE UNCHANGED vars
  BY <1>2, <1>4 DEF vars, netVars, clientVars
<1>5. ASSUME NEW d \in Clients, ClientStep(d) PROVE cpc'[c] \in Heeding
  <2>1. CASE d = c
    BY <1>2, <1>3, <1>5, <2>1, ClientHears DEF PromptNet
  <2>2. CASE d # c
    <3>1. Apart(d)
      BY <1>5, ClientKeepsLinks
    <3>2. inbox'["client"][c] = inbox["client"][c] /\ cpc'[c] = cpc[c]
      BY <2>2, <3>1 DEF Apart, Sides
    <3> QED
      BY <1>2, <3>2
  <2> QED
    BY <2>1, <2>2
<1>6. CASE (ServerStep \/ ServerFault) /\ UNCHANGED clientVars
  <2>1. cpc' = cpc
    BY <1>6 DEF clientVars
  <2>2. CASE inbox'["client"][c] = inbox["client"][c]
    BY <1>2, <2>1, <2>2
  <2>3. CASE inbox'["client"][c] # inbox["client"][c]
    <3>1. PICK m \in Message :
                 /\ inbox'["client"][c] = Bytes(m)
                 /\ m.code # "ANSWER_ERROR" => cpc[c] \in Heeding
      BY <1>6, <2>3, ServerSays
    <3>2. m.len \in Nat
      BY DEF Message
    <3>3. inbox'["client"][c][k].msg = m
      <4>1. Len(Bytes(m)) = m.len
        BY <3>2 DEF Bytes
      <4>2. k \in 1..m.len
        BY <3>1, <4>1
      <4> QED
        BY <3>1, <4>2 DEF Bytes
    <3> QED
      BY <2>1, <3>1, <3>3
  <2> QED
    BY <2>2, <2>3
<1> QED
  BY <1>4, <1>5, <1>6 DEF Next

\* A confirmation finds its client waiting for one, or gone: only an error may
\* come while the client is still writing.
THEOREM ConfirmsWhenAsked ==
  ASSUME PromptNet
  PROVE  Spec => []ConfirmedWhenAsked
<1>1. Init => ConfirmedWhenAsked
  <2>1. Init => \A c \in Clients : inbox["client"][c] = <<>>
    BY DEF Init, NetInit, Sides
  <2> QED
    BY <2>1 DEF ConfirmedWhenAsked
<1> QED
  BY <1>1, ConfirmStep, TypeInvariant, SocketInvariant, LinkInvariant,
     TalkInvariant, PTL DEF Spec

-----------------------------------------------------------------------------
(***************************************************************************)
(* Backups.  A run copies a file to its backup when it reads ANSWER_OK, so *)
(* from the moment the server writes that answer the file is stored.       *)
(***************************************************************************)
Stored(c, f) ==
  \/ disk[f] = Bytes(Content(c, f))
  \/ \E d \in Clients \ {c} :
       f \in job[d].files /\ sock["server"][d] # "none"

HasOk(bytes) == \E k \in 1..Len(bytes) : bytes[k].msg.code = "ANSWER_OK"

\* c has the confirmation of its file, read or unread.
OkHeard(c) ==
  /\ cpc[c] \in {"reply", "replied"}
  /\ HasOk(cbuf[c]) \/ HasOk(inbox["client"][c])

\* Inductive form of BackedUpIsStored.
StoredInv ==
  \A c \in Clients :
    /\ \A f \in backup[c] : Stored(c, f)
    /\ OkHeard(c) => Stored(c, CurFile(c))

\* A connection once made is never unmade.
LEMMA ConnectedOnce ==
  ASSUME TypeInv, SocketInv, LinkInv, [Next]_vars, NEW d \in Clients,
         sock["server"][d] # "none"
  PROVE  sock'["server"][d] # "none"
<1>1. NetTypeOK /\ HasClient /\ "client" \in Sides /\ "server" \in Sides
      /\ Other("client") = "server" /\ Other("server") = "client"
  BY DEF TypeInv, TypeOK, Sides, Other
<1>2. CASE UNCHANGED vars
  BY <1>2 DEF vars, netVars
<1>3. ASSUME NEW c \in Clients, ClientStep(c) PROVE sock'["server"][d] # "none"
  <2>1. CASE d # c
    <3>1. Apart(c)
      BY <1>3, ClientKeepsLinks
    <3> QED
      BY <1>1, <2>1, <3>1 DEF Apart
  <2>2. CASE d = c /\ cpc[c] = "connect"
    BY <2>2 DEF LinkInv, Linked
  <2>3. CASE d = c /\ cpc[c] # "connect"
    <3>1. ASSUME NEW what, NEW st, Finish(c, what, st) PROVE Ends(c)
      BY <3>1, FinishEnds
    <3>2. ASSUME NEW bytes, Write("client", c, bytes)
          PROVE  sock'["server"][c] = sock["server"][c]
      BY <1>1, <3>2 DEF Write, NetTypeOK
    <3>3. Ends(c) \/ sock'["server"][c] = sock["server"][c]
      BY <1>3, <2>3, <3>1, <3>2 DEF ClientStep, Connect, ConnectFails,
         Declines, FileMissing, SendHeader, SendContent, ChkDep, RepoError,
         SendRepo, ReadMore, ReadLast, ReadFails, FileAccepted, FileRefused,
         Checked, Answered, ParserCrash, Sigpipe, Killed, Consume, netVars
    <3> QED
      BY <2>3, <3>3 DEF Ends
  <2> QED
    BY <2>1, <2>2, <2>3
<1>4. CASE ServerStep \/ ServerFault
  <2>1. ASSUME cur \in Clients, NEW bytes \in Seq(Byte),
               Write("server", cur, bytes)
        PROVE  sock'["server"][d] # "none"
    <3>1. \/ sock' = sock
          \/ sock' = [sock EXCEPT !["server"][cur] = "reset"]
      BY <2>1 DEF Write
    <3> QED
      BY <1>1, <3>1 DEF NetTypeOK
  <2>2. CASE OpenFails \/ ReplyToFile \/ Acknowledge \/ Solve
    BY <2>1, <2>2, ServerWrites
  <2>3. CASE CloseClient
    <3>1. cur \in Clients /\ Close("server", cur)
      BY <1>1, <2>3 DEF CloseClient, HasClient
    <3>2. /\ d # cur => sock'["server"][d] = sock["server"][d]
          /\ sock'["server"][cur] = IF sock["server"][cur] \in Live
                                      THEN "closed" ELSE sock["server"][cur]
      BY <1>1, <3>1, CloseEffect
    <3> QED
      BY <3>2
  <2>4. CASE Segfault \/ ServerSigpipe \/ Signalled \/ PowerLost
    <3>1. ServerGone
      BY <2>4 DEF Segfault, ServerSigpipe, Signalled, PowerLost, Dies
    <3> QED
      BY <1>1, <3>1 DEF ServerGone, NetTypeOK
  <2>5. CASE UNCHANGED sock
    BY <2>5
  <2> QED
    BY <1>4, <2>2, <2>3, <2>4, <2>5 DEF ServerStep, ServerFault, Accept,
       RecvMore, RecvLast, RecvFails, Parse, Ignore, OpenFile, StoreMore,
       StoreChunk, StoreFails, StoreReadFails, CloseFile, Restart, Consume,
       netVars
<1> QED
  BY <1>2, <1>3, <1>4 DEF Next

\* A file changes only in the hands of the client whose upload is served.
LEMMA StoresForUploader ==
  ASSUME TypeInv, SocketInv, LinkInv, TalkInv, "power" \notin Faults,
         ServerStep \/ ServerFault, NEW f \in FileCodes, disk'[f] # disk[f]
  PROVE  /\ \A c \in Clients : inbox'["client"][c] = inbox["client"][c]
         /\ \E d \in Clients : d = cur /\ Uploading(d) /\ f = CurFile(d)
<1>1. /\ NetTypeOK /\ ServerTypeOK /\ HasClient
      /\ "client" \in Sides /\ "server" \in Sides
  BY DEF TypeInv, TypeOK, Sides
<1>2. ASSUME NEW d \in Clients, d = cur, Served(d),
             spc \in {"store", "reply"}, root.code = f
      PROVE  Uploading(d) /\ f = CurFile(d)
  <2>1. root = Header(d) /\ Uploading(d)
    BY <1>2 DEF Served
  <2> QED
    BY <1>2, <2>1 DEF Header
<1>3. CASE OpenFile
  <2>1. /\ spc = "dispatch" /\ root.code \in FileCodes /\ UNCHANGED netVars
        /\ disk' = [disk EXCEPT ![root.code] = Opened(root.code)]
    BY <1>3 DEF OpenFile
  <2>2. root.code = f
    BY <1>1, <2>1 DEF ServerTypeOK
  <2>3. PICK d \in Clients : d = cur
    BY <1>1, <2>1 DEF HasClient
  <2>4. PICK m : m = root
    OBVIOUS
  <2>5. Taken(d, m) /\ m.code = f
    BY <2>1, <2>2, <2>3, <2>4 DEF TalkInv, Served, Taken
  <2>6. m = Header(d) /\ Uploading(d)
    BY <2>5, TakenCode
  <2>7. f = CurFile(d)
    BY <2>5, <2>6 DEF Header
  <2> QED
    BY <2>1, <2>3, <2>6, <2>7 DEF netVars
<1>4. CASE StoreChunk \/ StoreFails \/ StoreReadFails
  <2>1. /\ spc = "store"
        /\ \/ \E new : disk' = [disk EXCEPT ![root.code] = new]
           \/ disk' = disk
        /\ \/ \E bytes : inbox' = [inbox EXCEPT !["server"][cur] = bytes]
           \/ inbox' = inbox
    BY <1>4 DEF StoreChunk, StoreFails, StoreReadFails, Consume, netVars
  <2>2. root.code = f
    BY <1>1, <2>1 DEF ServerTypeOK
  <2>3. PICK d \in Clients : d = cur
    BY <1>1, <2>1 DEF HasClient
  <2>4. Uploading(d) /\ f = CurFile(d)
    BY <1>2, <2>1, <2>2, <2>3 DEF TalkInv
  <2>5. \A c \in Clients : inbox'["client"][c] = inbox["client"][c]
    BY <1>1, <2>1 DEF NetTypeOK
  <2> QED
    BY <2>3, <2>4, <2>5
<1>5. ~(Signalled \/ Segfault)
  BY DEF Signalled, Segfault, Dies
<1>6. ~ServerSigpipe
  <2> SUFFICES ASSUME ServerSigpipe PROVE FALSE
    OBVIOUS
  <2>1. /\ spc \in {"reply", "solve", "dispatch"}
        /\ sock["server"][cur] = "reset" /\ Dies(FALSE)
    BY DEF ServerSigpipe
  <2>2. CASE spc = "reply"
    <3>1. PICK d \in Clients : d = cur
      BY <1>1, <2>2 DEF HasClient
    <3>2. Uploading(d)
      BY <2>2, <3>1 DEF TalkInv, Served
    <3> QED
      BY <2>1, <3>1, <3>2 DEF Uploading
  <2>3. CASE spc \in {"solve", "dispatch"}
    BY <2>1, <2>3 DEF Dies
  <2> QED
    BY <2>1, <2>2, <2>3
<1> QED
  BY <1>3, <1>4, <1>5, <1>6 DEF ServerStep, ServerFault, Accept, RecvMore,
     RecvLast, RecvFails, Parse, Ignore, OpenFails, StoreMore, ReplyToFile,
     CloseFile, Acknowledge, Solve, CloseClient, PowerLost, Restart

\* A file that is stored stays so until another client is connected that has
\* its own to send, whatever the server does.
LEMMA StaysStored ==
  ASSUME TypeInv, SocketInv, LinkInv, TalkInv, "power" \notin Faults,
         [Next]_vars, job' = job, NEW c \in Clients, NEW f \in FileCodes,
         Stored(c, f)
  PROVE  \/ Stored(c, f)'
         \/ Uploading(c) /\ f = CurFile(c)
<1>1. CASE \E d \in Clients \ {c} : f \in job[d].files /\ sock["server"][d] # "none"
  <2>1. PICK d \in Clients \ {c} : f \in job[d].files /\ sock["server"][d] # "none"
    BY <1>1
  <2>2. sock'["server"][d] # "none"
    BY <2>1, ConnectedOnce
  <2> QED
    BY <2>1, <2>2 DEF Stored
<1>2. CASE disk[f] = Bytes(Content(c, f)) /\ disk'[f] = disk[f]
  BY <1>2 DEF Stored, Content
<1>3. CASE disk'[f] # disk[f]
  <2>1. ServerStep \/ ServerFault
    BY <1>3 DEF Next, vars, serverVars
  <2>2. PICK d \in Clients : Uploading(d) /\ f = CurFile(d)
    BY <1>3, <2>1, StoresForUploader
  <2>3. CASE d # c
    <3>1. f \in job[d].files
      BY <2>2, RunType DEF Uploading, LinkInv, OnItsWay
    <3>2. sock["server"][d] # "none"
      BY <2>2 DEF Uploading
    <3> QED
      BY <1>1, <2>3, <3>1, <3>2
  <2> QED
    BY <2>2, <2>3
<1> QED
  BY <1>1, <1>2, <1>3 DEF Stored

\* A confirmation in one of two parts is one in the whole, and none is in what
\* is empty.
LEMMA OkInParts ==
  /\ ~HasOk(<<>>)
  /\ \A a, b \in Seq(Byte) : HasOk(a \o b) <=> HasOk(a) \/ HasOk(b)
<1>1. ~HasOk(<<>>)
  BY DEF HasOk
<1>2. ASSUME NEW a \in Seq(Byte), NEW b \in Seq(Byte)
      PROVE  HasOk(a \o b) <=> HasOk(a) \/ HasOk(b)
  <2>1. /\ Len(a) \in Nat /\ Len(b) \in Nat
        /\ Len(a \o b) = Len(a) + Len(b)
        /\ \A k \in 1..Len(a) : (a \o b)[k] = a[k]
        /\ \A k \in 1..Len(b) : (a \o b)[Len(a) + k] = b[k]
    OBVIOUS
  <2>2. HasOk(a) => HasOk(a \o b)
    <3>1. 1..Len(a) \subseteq 1..Len(a \o b)
      BY <2>1
    <3> QED
      BY <2>1, <3>1 DEF HasOk
  <2>3. HasOk(b) => HasOk(a \o b)
    <3>1. \A k \in 1..Len(b) : Len(a) + k \in 1..Len(a \o b)
      BY <2>1
    <3> QED
      BY <2>1, <3>1 DEF HasOk
  <2>4. ASSUME NEW k \in 1..Len(a \o b), (a \o b)[k].msg.code = "ANSWER_OK"
        PROVE  HasOk(a) \/ HasOk(b)
    <3>1. CASE k <= Len(a)
      <4>1. k \in 1..Len(a)
        BY <2>1, <3>1
      <4> QED
        BY <2>1, <2>4, <4>1 DEF HasOk
    <3>2. CASE k > Len(a)
      <4>1. PICK i \in 1..Len(b) : k = Len(a) + i
        <5>1. k - Len(a) \in 1..Len(b) /\ k = Len(a) + (k - Len(a))
          BY <2>1, <3>2
        <5> QED
          BY <5>1
      <4> QED
        BY <2>1, <2>4, <4>1 DEF HasOk
    <3> QED
      BY <2>1, <3>1, <3>2
  <2> QED
    BY <2>2, <2>3, <2>4 DEF HasOk
<1> QED
  BY <1>1, <1>2

\* A run hears of no confirmation it was not sent, and backs up only a file it
\* has heard the confirmation of.
LEMMA ClientBacksUp ==
  ASSUME TypeInv, LinkInv, ConfirmedWhenAsked, NEW c \in Clients, ClientStep(c)
  PROVE  /\ OkHeard(c)' => OkHeard(c) /\ CurFile(c)' = CurFile(c)
         /\ \/ backup'[c] = backup[c]
            \/ OkHeard(c) /\ backup'[c] = backup[c] \cup {CurFile(c)}
<1> USE DEF GoTo
<1>1. /\ NetTypeOK /\ ClientTypeOK /\ "client" \in Sides /\ "server" \in Sides
      /\ Other("client") = "server" /\ Linked(c) /\ OnItsWay(c)
  BY DEF TypeInv, TypeOK, Sides, Other, LinkInv
<1>2. /\ cbuf[c] \in Seq(Byte) /\ inbox["client"][c] \in Seq(Byte)
      /\ cpc[c] \in ClientPc
  BY RunType
<1>3. ~HasOk(<<>>)
  BY OkInParts
<1>4. cpc[c] \in {"sync", "content"} => ~HasOk(inbox["client"][c])
  BY DEF ConfirmedWhenAsked, HasOk, Receiving
<1>5. todo' = todo => CurFile(c)' = CurFile(c)
  BY DEF CurFile
<1>6. ASSUME NEW what, NEW st, Finish(c, what, st)
      PROVE  ~OkHeard(c)' /\ backup'[c] = backup[c]
  BY <1>6, FinishEnds DEF Ends, OkHeard
<1>7. CASE SendHeader(c) \/ SendContent(c) \/ SendRepo(c)
  <2>1. /\ cpc[c] \in {"sync", "content"}
        /\ cbuf' = cbuf /\ backup' = backup
    BY <1>7 DEF SendHeader, SendContent, SendRepo, Synced
  <2>2. PICK bytes : Write("client", c, bytes)
    BY <1>7 DEF SendHeader, SendContent, SendRepo
  <2>3. inbox' = inbox \/ inbox' = [inbox EXCEPT !["server"][c] = @ \o bytes]
    BY <1>1, <2>2 DEF Write
  <2>4. inbox'["client"][c] = inbox["client"][c]
    BY <1>1, <2>3 DEF NetTypeOK
  <2>5. cbuf'[c] = <<>>
    BY <1>1, <2>1 DEF OnItsWay
  <2> QED
    BY <1>3, <1>4, <2>1, <2>4, <2>5 DEF OkHeard
<1>8. CASE ReadMore(c) \/ ReadLast(c)
  <2>1. PICK r \in Reads("client", c) :
               /\ Consume("client", c, r)
               /\ cbuf' = [cbuf EXCEPT ![c] = @ \o r.data]
    BY <1>8 DEF ReadMore, ReadLast
  <2>2. /\ r.data \in Seq(Byte) /\ inbox'["client"][c] \in Seq(Byte)
        /\ inbox["client"][c] = r.data \o inbox'["client"][c]
    BY <1>1, <2>1, ConsumeEffect
  <2>3. PICK data \in Seq(Byte), rest \in Seq(Byte) :
               data = r.data /\ rest = inbox'["client"][c]
    BY <2>2
  <2>4. HasOk(cbuf[c] \o data) => HasOk(cbuf[c]) \/ HasOk(data)
    BY <1>2, OkInParts
  <2>5. HasOk(data) \/ HasOk(rest) => HasOk(inbox["client"][c])
    BY <2>2, <2>3, OkInParts
  <2>6. cbuf'[c] = cbuf[c] \o data
    BY <1>1, <2>1, <2>3 DEF ClientTypeOK
  <2>7. /\ backup' = backup /\ todo' = todo
        /\ cpc[c] \in Receiving
        /\ cpc' \in {cpc, [cpc EXCEPT ![c] = Received[cpc[c]]]}
    BY <1>1, <1>8 DEF ReadMore, ReadLast, ClientTypeOK
  <2>8. cpc'[c] \in {"reply", "replied"} => cpc[c] = "reply"
    BY <1>1, <2>7 DEF Received, Receiving, ClientTypeOK
  <2> QED
    BY <1>5, <2>3, <2>4, <2>5, <2>6, <2>7, <2>8 DEF OkHeard
<1>9. CASE FileAccepted(c)
  <2>1. /\ cpc[c] = "replied" /\ CodeIn(c) = "ANSWER_OK"
        /\ cpc' = [cpc EXCEPT ![c] = "sync"]
        /\ \/ backup' = [backup EXCEPT ![c] = @ \cup {CurFile(c)}]
           \/ UNCHANGED backup
    BY <1>9 DEF FileAccepted, Accepted
  <2>2. HasOk(cbuf[c])
    <3>1. IsWhole(cbuf[c]) /\ Parsed(cbuf[c]).code = "ANSWER_OK"
      BY <2>1 DEF CodeIn
    <3>2. cbuf[c] # <<>>
      BY <3>1 DEF IsWhole
    <3>3. Len(cbuf[c]) \in 1..Len(cbuf[c])
      BY <1>2, <3>2
    <3> QED
      BY <3>1, <3>3 DEF Parsed, HasOk
  <2>3. OkHeard(c)
    BY <2>1, <2>2 DEF OkHeard
  <2>4. ~OkHeard(c)'
    BY <1>1, <2>1 DEF OkHeard, ClientTypeOK
  <2>5. backup'[c] \in {backup[c], backup[c] \cup {CurFile(c)}}
    BY <1>1, <2>1 DEF ClientTypeOK
  <2> QED
    BY <2>3, <2>4, <2>5
<1>10. CASE Connect(c)
  <2>1. /\ cpc'[c] \in {"sync", "done"} /\ backup' = backup
    BY <1>1, <1>10 DEF Connect, ClientTypeOK
  <2> QED
    BY <2>1 DEF OkHeard
<1>11. CASE UNCHANGED <<netVars, cpc, todo, cbuf, backup>>
  BY <1>5, <1>11 DEF OkHeard, netVars
<1>12. CASE UNCHANGED backup /\ cpc' = [cpc EXCEPT ![c] = "answer"]
  BY <1>1, <1>12 DEF OkHeard, ClientTypeOK
<1>13. CASE Declines(c) \/ FileMissing(c) \/ ChkDep(c) \/ RepoError(c)
            \/ Sigpipe(c) \/ FileRefused(c) \/ ParserCrash(c) \/ Killed(c)
            \/ Answered(c)
  BY <1>6, <1>13 DEF Declines, FileMissing, ChkDep, RepoError, Sigpipe,
     FileRefused, ParserCrash, Killed, Answered
<1>14. CASE ConnectFails(c) \/ ReadFails(c) \/ Checked(c)
  BY <1>6, <1>11, <1>12, <1>14 DEF ConnectFails, ReadFails, Checked
<1> QED
  BY <1>7, <1>8, <1>9, <1>10, <1>13, <1>14 DEF ClientStep

\* Every step keeps StoredInv.
LEMMA StoredStep ==
  ASSUME PromptNet, "power" \notin Faults
  PROVE  TypeInv /\ SocketInv /\ LinkInv /\ TalkInv /\ ConfirmedWhenAsked
           /\ StoredInv /\ [Next]_vars => StoredInv'
<1> SUFFICES ASSUME TypeInv, SocketInv, LinkInv, TalkInv, ConfirmedWhenAsked,
                    StoredInv, [Next]_vars
             PROVE  StoredInv'
  OBVIOUS
<1>1. job' = job
  <2>1. ASSUME NEW d \in Clients, ClientStep(d) PROVE job' = job
    BY <2>1, ClientKeepsLinks
  <2> QED
    BY <2>1 DEF Next, vars, clientVars
<1> SUFFICES ASSUME NEW c \in Clients
             PROVE  /\ \A f \in backup'[c] : Stored(c, f)'
                    /\ OkHeard(c)' => Stored(c, CurFile(c))'
  BY DEF StoredInv
<1>2. /\ backup[c] \subseteq FileCodes /\ CurFile(c) \in FileCodes
      /\ todo[c] # {} => CurFile(c) \in todo[c]
      /\ cbuf[c] \in Seq(Byte) /\ inbox["client"][c] \in Seq(Byte)
  BY RunType DEF TypeInv, TypeOK, ClientTypeOK
<1>3. /\ \A f \in backup[c] : Stored(c, f)
      /\ OkHeard(c) => Stored(c, CurFile(c))
      /\ ~HasOk(<<>>)
  BY OkInParts DEF StoredInv
<1>4. Uploading(c) => CurFile(c) \notin backup[c] /\ ~OkHeard(c)
  BY <1>2, <1>3 DEF Uploading, LinkInv, OnItsWay, OkHeard
<1>5. /\ \A f \in backup[c] : Stored(c, f)'
      /\ OkHeard(c) => \A f : f = CurFile(c) => Stored(c, f)'
  BY <1>1, <1>2, <1>3, <1>4, StaysStored
<1>6. ASSUME backup'[c] = backup[c], OkHeard(c)' => OkHeard(c),
             CurFile(c)' = CurFile(c)
      PROVE  /\ \A f \in backup'[c] : Stored(c, f)'
             /\ OkHeard(c)' => Stored(c, CurFile(c))'
  <2>1. ASSUME NEW f, f = CurFile(c)', Stored(c, f)'
        PROVE  Stored(c, CurFile(c))'
    BY <2>1 DEF Stored, Content
  <2> QED
    BY <1>5, <1>6, <2>1
<1>7. CASE UNCHANGED vars
  BY <1>6, <1>7 DEF vars, netVars, clientVars, OkHeard, CurFile
<1>8. ASSUME NEW d \in Clients, ClientStep(d)
      PROVE  /\ \A f \in backup'[c] : Stored(c, f)'
             /\ OkHeard(c)' => Stored(c, CurFile(c))'
  <2>1. CASE d # c
    <3>1. Apart(d)
      BY <1>8, ClientKeepsLinks
    <3>2. /\ backup'[c] = backup[c] /\ cpc'[c] = cpc[c] /\ cbuf'[c] = cbuf[c]
          /\ todo'[c] = todo[c] /\ inbox'["client"][c] = inbox["client"][c]
      BY <2>1, <3>1 DEF Apart, Sides
    <3> QED
      BY <1>6, <3>2 DEF OkHeard, CurFile
  <2>2. CASE d = c
    <3>1. /\ OkHeard(c)' => OkHeard(c) /\ CurFile(c)' = CurFile(c)
          /\ \/ backup'[c] = backup[c]
             \/ OkHeard(c) /\ backup'[c] = backup[c] \cup {CurFile(c)}
      BY <1>8, <2>2, ClientBacksUp
    <3>2. \A f \in backup'[c] : Stored(c, f)'
      BY <1>5, <3>1
    <3>3. ASSUME OkHeard(c)' PROVE Stored(c, CurFile(c))'
      <4>1. PICK f : f = CurFile(c)
        OBVIOUS
      <4>2. Stored(c, f)' /\ f = CurFile(c)'
        BY <1>5, <3>1, <3>3, <4>1
      <4> QED
        BY <4>2 DEF Stored, Content
    <3> QED
      BY <3>2, <3>3
  <2> QED
    BY <2>1, <2>2
<1>9. CASE (ServerStep \/ ServerFault) /\ UNCHANGED clientVars
  <2>1. /\ backup'[c] = backup[c] /\ cpc'[c] = cpc[c] /\ cbuf'[c] = cbuf[c]
        /\ CurFile(c)' = CurFile(c)
    BY <1>9 DEF clientVars, CurFile
  <2>2. CASE inbox'["client"][c] = inbox["client"][c]
    BY <1>6, <2>1, <2>2 DEF OkHeard
  <2>3. CASE inbox'["client"][c] # inbox["client"][c]
    <3>1. PICK m \in Message :
                 /\ c = cur /\ inbox["client"][c] = <<>>
                 /\ inbox'["client"][c] = Bytes(m)
                 /\ m.code # "ANSWER_ERROR" =>
                      /\ cpc[c] \in Heeding
                      /\ cpc[c] = "reply" => /\ spc = "reply"
                                             /\ verdict = "ANSWER_OK"
      BY <1>9, <2>3, ServerSays
    <3>2. CASE spc = "reply" /\ verdict = "ANSWER_OK"
      <4>1. root = Header(c) /\ Uploading(c) /\ disk[root.code] = Whole(c)
        BY <3>1, <3>2 DEF TalkInv, Served
      <4>2. root.code = CurFile(c)
        BY <4>1 DEF Header
      <4>3. disk' = disk
        <5>1. \A f \in FileCodes : disk'[f] = disk[f]
          BY <1>9, <2>3, StoresForUploader
        <5>2. disk \in [FileCodes -> Seq(Byte)] /\ disk' \in [FileCodes -> Seq(Byte)]
          BY TypeStep DEF TypeInv, TypeOK, ServerTypeOK
        <5> QED
          BY <5>1, <5>2
      <4>4. \A f : f = CurFile(c) => Stored(c, f)'
        BY <1>1, <4>1, <4>2, <4>3 DEF Stored, Whole, Content
      <4>5. ASSUME NEW f, f = CurFile(c)', Stored(c, f)'
            PROVE  Stored(c, CurFile(c))'
        BY <4>5 DEF Stored, Content
      <4> QED
        BY <1>5, <2>1, <4>4, <4>5
    <3>3. CASE ~(spc = "reply" /\ verdict = "ANSWER_OK")
      <4>1. ASSUME HasOk(Bytes(m)) PROVE m.code = "ANSWER_OK"
        <5>1. m.len \in Nat
          BY DEF Message
        <5>2. Len(Bytes(m)) = m.len
          BY <5>1 DEF Bytes
        <5> QED
          BY <4>1, <5>1, <5>2 DEF HasOk, Bytes
      <4>2. ASSUME OkHeard(c)' PROVE OkHeard(c)
        BY <2>1, <3>1, <3>3, <4>1, <4>2 DEF OkHeard, Heeding, Receiving
      <4> QED
        BY <1>6, <2>1, <4>2
    <3> QED
      BY <3>2, <3>3
  <2> QED
    BY <2>2, <2>3
<1> QED
  BY <1>7, <1>8, <1>9 DEF Next

\* What a run has backed up the server has, unless another client is connected
\* that has its own to send: whatever fails, short of the server's power, which
\* takes with it what stdio has not yet written.
THEOREM BackupsAreStored ==
  ASSUME PromptNet, "power" \notin Faults
  PROVE  Spec => []BackedUpIsStored
<1>1. Init => StoredInv
  BY DEF Init, ClientInit, StoredInv, OkHeard
<1>2. StoredInv => BackedUpIsStored
  BY DEF StoredInv, Stored, BackedUpIsStored
<1> QED
  BY <1>1, <1>2, StoredStep, ConfirmsWhenAsked, TypeInvariant,
     SocketInvariant, LinkInvariant, TalkInvariant, PTL DEF Spec

-----------------------------------------------------------------------------
(***************************************************************************)
(* Waiting.  sock_recv reads on after a read that filled its buffer, so    *)
(* what fills it exactly leaves the server waiting for more.               *)
(***************************************************************************)
\* n bytes fill the buffer of the read a number of times, and leave nothing.
Fills(n) == \E q \in Nat : n = q * MaxInput

\* Neither a request nor the last piece of a file does so, and no file is empty.
NothingFills ==
  \A j \in Jobs :
    /\ ~Fills(j.req)
    /\ \A f \in FileCodes :
         /\ j.size[f] > 0
         /\ \A k \in Nat :
              (/\ k * FileChunk < j.size[f]
               /\ j.size[f] <= k * FileChunk + FileChunk)
                => ~Fills(j.size[f] - k * FileChunk)

\* What the server has kept of a message are full reads; what is under way of
\* the last piece of a file is not.
WaitInv ==
  /\ \A c \in Clients :
       cpc[c] = "content" => \E k \in Nat : sent[c] = k * FileChunk
  /\ \A c \in Clients : c = cur =>
       /\ spc = "recv" => Fills(Len(sbuf))
       /\ spc \in {"parse", "dispatch", "store"} /\ cpc[c] = "reply" =>
            ~Fills(Len(inbox["server"][c]))

\* Nothing fills the buffer no time, and one read more or less of MaxInput
\* makes no difference.
LEMMA FillsOnce ==
  /\ Fills(0)
  /\ \A n \in Nat : Fills(n) <=> Fills(n + MaxInput)
<1>1. MaxInput \in Nat \ {0}
  BY NetAssumption
<1>2. Fills(0)
  <2>1. 0 = 0 * MaxInput
    BY <1>1
  <2> QED
    BY <2>1 DEF Fills
<1>3. ASSUME NEW n \in Nat, Fills(n) PROVE Fills(n + MaxInput)
  <2>1. PICK q \in Nat : n = q * MaxInput
    BY <1>3 DEF Fills
  <2>2. q + 1 \in Nat /\ n + MaxInput = (q + 1) * MaxInput
    BY <1>1, <2>1
  <2> QED
    BY <2>2 DEF Fills
<1>4. ASSUME NEW n \in Nat, Fills(n + MaxInput) PROVE Fills(n)
  <2>1. PICK q \in Nat : n + MaxInput = q * MaxInput
    BY <1>4 DEF Fills
  <2>2. q # 0
    BY <1>1, <2>1
  <2>3. q - 1 \in Nat /\ n = (q - 1) * MaxInput
    BY <1>1, <2>1, <2>2
  <2> QED
    BY <2>3 DEF Fills
<1> QED
  BY <1>2, <1>3, <1>4

\* How a run comes to send a file, or to wait for the reply to it.
LEMMA ComesToReply ==
  ASSUME TypeInv, NEW c \in Clients, ClientStep(c)
  PROVE  \/ cpc'[c] \notin {"content", "reply"}
         \/ SendHeader(c) /\ sent'[c] = 0
            /\ (cpc'[c] = "reply" => Size(c) = 0)
         \/ SendContent(c)
         \/ /\ cpc[c] = "reply" /\ cpc'[c] = "reply"
            /\ inbox'["server"][c] = inbox["server"][c]
<1> USE DEF GoTo
<1>1. /\ NetTypeOK /\ ClientTypeOK /\ "client" \in Sides /\ "server" \in Sides
  BY DEF TypeInv, TypeOK, Sides
<1>2. ASSUME NEW what, NEW st, Finish(c, what, st) PROVE cpc'[c] = "done"
  BY <1>2, FinishEnds DEF Ends
<1>3. CASE SendHeader(c)
  BY <1>1, <1>3 DEF SendHeader, ClientTypeOK, Size
<1>4. CASE ReadMore(c)
  <2>1. cpc[c] \in Receiving /\ cpc' = cpc
    BY <1>4 DEF ReadMore
  <2>2. PICK r \in Reads("client", c) : Consume("client", c, r)
    BY <1>4 DEF ReadMore
  <2>3. inbox'["server"][c] = inbox["server"][c]
    BY <1>1, <2>2 DEF Consume, NetTypeOK
  <2> QED
    BY <2>1, <2>3 DEF Receiving
<1>5. CASE ReadLast(c)
  <2>1. cpc[c] \in Receiving /\ cpc' = [cpc EXCEPT ![c] = Received[cpc[c]]]
    BY <1>5 DEF ReadLast
  <2>2. cpc'[c] \in {"replied", "checked", "answered"}
    BY <1>1, <2>1 DEF Receiving, Received, ClientTypeOK
  <2> QED
    BY <2>2
<1>6. CASE \E pc \in {"sync", "done", "check", "answer"} :
              cpc' = [cpc EXCEPT ![c] = pc]
  BY <1>1, <1>6 DEF ClientTypeOK
<1>7. CASE UNCHANGED cpc /\ cpc[c] = "connect"
  BY <1>7
<1>8. CASE Connect(c) \/ SendRepo(c) \/ FileAccepted(c) \/ Checked(c)
  BY <1>6, <1>8 DEF Connect, SendRepo, FileAccepted, Checked
<1>9. CASE ConnectFails(c) \/ ReadFails(c)
  BY <1>2, <1>6, <1>7, <1>9 DEF ConnectFails, ReadFails
<1>10. CASE Declines(c) \/ FileMissing(c) \/ ChkDep(c) \/ RepoError(c)
            \/ Sigpipe(c) \/ FileRefused(c) \/ ParserCrash(c) \/ Killed(c)
            \/ Answered(c)
  BY <1>2, <1>10 DEF Declines, FileMissing, ChkDep, RepoError, Sigpipe,
     FileRefused, ParserCrash, Killed, Answered
<1> QED
  BY <1>3, <1>4, <1>5, <1>8, <1>9, <1>10 DEF ClientStep

\* The last piece of a file leaves the buffer unfilled.
LEMMA LastPiece ==
  ASSUME TypeInv, LinkInv, PromptNet, NothingFills, NEW c \in Clients,
         SendContent(c), sock["server"][c] \in Live,
         NEW k \in Nat, sent[c] = k * FileChunk
  PROVE  /\ cpc'[c] = "content" => sent'[c] = (k + 1) * FileChunk
         /\ cpc'[c] = "reply" => ~Fills(Len(inbox'["server"][c]))
<1> DEFINE upto == IF sent[c] + FileChunk < Size(c)
                     THEN sent[c] + FileChunk ELSE Size(c)
           some == SubSeq(Whole(c), sent[c] + 1, upto)
<1>1. /\ NetTypeOK /\ ClientTypeOK /\ "client" \in Sides /\ "server" \in Sides
      /\ Other("client") = "server" /\ cpc[c] = "content"
  BY DEF TypeInv, TypeOK, Sides, Other, SendContent
<1>2. /\ sent[c] \in Nat /\ Size(c) \in Nat /\ sent[c] < Size(c)
      /\ Whole(c) \in Seq(Byte) /\ Len(Whole(c)) = Size(c)
      /\ FileChunk \in Nat \ {0} /\ CurFile(c) \in FileCodes
  BY <1>1, RunType, ClientAssumption DEF LinkInv, OnItsWay
<1>3. /\ Write("client", c, some) /\ sent'[c] = upto
      /\ cpc'[c] = IF upto = Size(c) THEN "reply" ELSE "content"
  BY <1>1 DEF SendContent, GoTo, ClientTypeOK, Size, Whole
<1>4. upto \in Nat /\ sent[c] < upto /\ upto <= Size(c)
  BY <1>2
<1>5. some \in Seq(Byte) /\ Len(some) = upto - sent[c]
  BY <1>2, <1>4
<1>6. inbox["server"][c] = <<>> /\ inbox'["server"][c] = <<>> \o some
  <2>1. CanWrite("client", c)
    BY <1>3 DEF Write
  <2>2. inbox["server"][c] = <<>>
    BY <1>1, <2>1 DEF CanWrite, PromptNet
  <2>3. sock["client"][c] = "open" /\ sock["server"][c] = "open"
    BY <1>1 DEF LinkInv, Linked, Live
  <2>4. inbox' = [inbox EXCEPT !["server"][c] = @ \o some]
    BY <1>1, <1>3, <2>3 DEF Write
  <2> QED
    BY <1>1, <2>2, <2>4 DEF NetTypeOK
<1>7. inbox'["server"][c] = some
  BY <1>5, <1>6, ConcatEmptySeq
<1>8. CASE upto = Size(c)
  <2>1. Size(c) <= k * FileChunk + FileChunk /\ k * FileChunk < Size(c)
    BY <1>2, <1>8
  <2>2. job[c] \in Jobs
    BY <1>1 DEF ClientTypeOK
  <2>3. ~Fills(Size(c) - k * FileChunk)
    BY <1>2, <2>1, <2>2 DEF NothingFills, Size
  <2> QED
    BY <1>3, <1>5, <1>7, <1>8, <2>3
<1>9. CASE upto # Size(c)
  <2>1. upto = k * FileChunk + FileChunk
    BY <1>9
  <2>2. upto = (k + 1) * FileChunk
    BY <1>2, <2>1
  <2> HIDE DEF upto
  <2> QED
    BY <1>3, <1>9, <2>2
<1> QED
  BY <1>8, <1>9

\* Every step keeps WaitInv.
LEMMA WaitStep ==
  ASSUME PromptNet, NothingFills
  PROVE  TypeInv /\ SocketInv /\ LinkInv /\ TalkInv /\ WaitInv /\ [Next]_vars
           => WaitInv'
<1> SUFFICES ASSUME TypeInv, SocketInv, LinkInv, TalkInv, WaitInv, [Next]_vars
             PROVE  WaitInv'
  OBVIOUS
<1>1. CASE UNCHANGED vars
  BY <1>1 DEF vars, netVars, clientVars, serverVars, WaitInv
<1>2. ASSUME NEW d \in Clients, ClientStep(d), UNCHANGED serverVars
      PROVE  WaitInv'
  <2>1. Apart(d)
    BY <1>2, ClientKeepsLinks
  <2>2. ASSUME NEW c \in Clients, cpc'[c] = "content"
        PROVE  \E k \in Nat : sent'[c] = k * FileChunk
    <3>1. CASE c # d
      BY <2>1, <2>2, <3>1 DEF Apart, WaitInv
    <3>2. CASE c = d /\ SendContent(d)
      <4>1. PICK k \in Nat : sent[c] = k * FileChunk
        BY <3>2 DEF WaitInv, SendContent
      <4>2. FileChunk \in Nat /\ sent[c] \in Nat /\ Size(c) \in Nat
        BY ClientAssumption, RunType
      <4>3. sent'[c] = IF sent[c] + FileChunk < Size(c)
                         THEN sent[c] + FileChunk ELSE Size(c)
        BY <3>2 DEF SendContent, TypeInv, TypeOK, ClientTypeOK, Size
      <4>4. sent'[c] # Size(c)
        BY <2>2, <3>2
           DEF SendContent, TypeInv, TypeOK, ClientTypeOK, Size, GoTo
      <4>5. sent'[c] = (k + 1) * FileChunk
        BY <4>1, <4>2, <4>3, <4>4
      <4> QED
        BY <4>5
    <3>3. CASE c = d /\ ~SendContent(d)
      <4>1. sent'[c] = 0
        BY <1>2, <2>2, <3>3, ComesToReply
      <4>2. 0 = 0 * FileChunk
        BY ClientAssumption
      <4> QED
        BY <4>1, <4>2
    <3> QED
      BY <3>1, <3>2, <3>3
  <2>3. ASSUME NEW c \in Clients, c = cur',
               spc' \in {"parse", "dispatch", "store"}, cpc'[c] = "reply"
        PROVE  ~Fills(Len(inbox'["server"][c]))
    <3>1. /\ c = cur /\ spc \in {"parse", "dispatch", "store"}
          /\ sock["server"][c] \in Live
      BY <1>2, <2>3, ServedIsLive DEF serverVars
    <3>2. cpc[c] = "reply" => ~Fills(Len(inbox["server"][c]))
      BY <3>1 DEF WaitInv
    <3>3. CASE c # d
      <4>1. cpc'[c] = cpc[c] /\ inbox'["server"][c] = inbox["server"][c]
        BY <2>1, <3>3 DEF Apart, Sides
      <4> QED
        BY <2>3, <3>2, <4>1
    <3>4. CASE c = d /\ SendContent(c)
      <4>1. \E k \in Nat : sent[c] = k * FileChunk
        BY <3>4 DEF WaitInv, SendContent
      <4> QED
        BY <2>3, <3>1, <3>4, <4>1, LastPiece
    <3>5. CASE c = d /\ SendHeader(c)
      <4>1. cpc[c] = "sync"
        BY <3>5 DEF SendHeader
      <4>2. Served(c)
        BY <3>1 DEF TalkInv
      <4>3. \E m : Taken(c, m) \/ Uploading(c)
        BY <3>1, <4>2 DEF Served
      <4> QED
        BY <4>1, <4>3 DEF Taken, Uploading, Asking
    <3>6. CASE c = d /\ ~SendContent(c) /\ ~SendHeader(c)
      BY <1>2, <2>3, <3>2, <3>6, ComesToReply
    <3> QED
      BY <3>3, <3>4, <3>5, <3>6
  <2>4. \A c \in Clients : c = cur' => (spc' = "recv" => Fills(Len(sbuf')))
    BY <1>2 DEF WaitInv, serverVars
  <2> QED
    BY <2>2, <2>3, <2>4 DEF WaitInv
<1>3. CASE (ServerStep \/ ServerFault) /\ UNCHANGED clientVars
  <2>1. /\ NetTypeOK /\ ServerTypeOK /\ HasClient /\ "server" \in Sides
        /\ UNCHANGED <<cpc, sent>>
        /\ MaxInput \in Nat \ {0} /\ Fills(0) /\ Len(<<>>) = 0
    BY <1>3, FillsOnce, NetAssumption DEF TypeInv, TypeOK, Sides, clientVars
  <2>2. TypeInv' /\ TalkInv'
    BY TypeStep, TalkStep
  <2>3. ASSUME NEW c \in Clients, c = cur', spc' = "recv"
        PROVE  Fills(Len(sbuf'))
    <3>1. CASE RecvMore
      <4>1. /\ c = cur /\ spc = "recv"
        BY <2>3, <3>1 DEF RecvMore
      <4>2. PICK r \in Reads("server", c) : r.ret = MaxInput /\ sbuf' = sbuf \o r.data
        BY <3>1, <4>1 DEF RecvMore
      <4>3. Len(r.data) = MaxInput /\ r.data \in Seq(Byte)
        BY <2>1, <4>2, ReadCases, ReadsType
      <4>4. sbuf \in Seq(Byte) /\ Len(sbuf) \in Nat /\ Fills(Len(sbuf))
        BY <2>1, <4>1 DEF ServerTypeOK, WaitInv
      <4>5. Len(sbuf') = Len(sbuf) + MaxInput
        <5>1. Len(sbuf \o r.data) = Len(sbuf) + Len(r.data)
          BY <4>3, <4>4, ConcatProperties
        <5> QED
          BY <4>2, <4>3, <5>1
      <4> QED
        BY <4>4, <4>5, FillsOnce
    <3>2. CASE Accept \/ Ignore \/ CloseFile
      <4>1. sbuf' = sbuf /\ spc \in {"accept", "dispatch", "fclose"}
        BY <3>2 DEF Accept, Ignore, CloseFile
      <4>2. CASE spc = "accept"
        BY <2>1, <4>1, <4>2 DEF TalkInv
      <4>3. CASE spc \in {"dispatch", "fclose"}
        <5>1. PICK e \in Clients : e = cur
          BY <2>1, <4>3 DEF HasClient
        <5>2. sbuf = <<>>
          BY <4>3, <5>1 DEF TalkInv, Served
        <5> QED
          BY <2>1, <4>1, <5>2
      <4> QED
        BY <4>1, <4>2, <4>3
    <3> QED
      BY <1>3, <2>3, <3>1, <3>2 DEF ServerStep, ServerFault, RecvLast,
         RecvFails, Parse, OpenFile, OpenFails, StoreMore, StoreChunk,
         AfterChunk, StoreFails, StoreReadFails, ReplyToFile, Acknowledge,
         AfterAck, Solve, AfterAnswer, CloseClient, Segfault, ServerSigpipe,
         Signalled, PowerLost, Restart, Dies
  <2>4. ASSUME NEW c \in Clients, c = cur',
               spc' \in {"parse", "dispatch", "store"}, cpc[c] = "reply"
        PROVE  ~Fills(Len(inbox'["server"][c]))
    <3>1. CASE RecvLast
      <4>1. c = cur /\ spc = "recv" /\ spc' = "parse"
        BY <2>4, <3>1 DEF RecvLast
      <4>2. PICK m : Taken(c, m)'
        BY <2>2, <2>4, <4>1 DEF TalkInv, Served
      <4>3. Awaiting(c, sbuf \o inbox["server"][c])
        BY <4>1 DEF TalkInv, Served
      <4>4. CASE sbuf \o inbox["server"][c] = <<>>
        <5>1. sbuf \in Seq(Byte) /\ inbox["server"][c] \in Seq(Byte)
          BY <2>1, RunType DEF ServerTypeOK
        <5>2. inbox["server"][c] = <<>>
          BY <4>4, <5>1, ConcatEqualIffEmpty
        <5>3. PICK r \in Reads("server", c) : r.ret < MaxInput
          BY <3>1, <4>1 DEF RecvLast
        <5>4. \/ sock["server"][c] = "reset"
              \/ sock[Other("server")][c] = "closed"
          <6>1. r.ret \notin 1..Len(inbox["server"][c])
            BY <5>2
          <6> QED
            BY <2>1, <6>1, ReadCases
        <5> QED
          BY <2>4, <4>1, <5>4, ServedIsLive DEF Other
      <4>5. CASE Uploading(c) /\ sent[c] = 0
        <5>1. Size(c) = 0
          BY <2>4, <4>5 DEF LinkInv, OnItsWay
        <5>2. job[c] \in Jobs /\ CurFile(c) \in FileCodes
          BY CurFileType DEF TypeInv, TypeOK, ClientTypeOK
        <5>3. Size(c) \in Nat /\ Size(c) > 0
          BY <5>2, RunType DEF NothingFills, Size
        <5> QED
          BY <5>1, <5>3
      <4>6. CASE Asking(c)
        BY <2>4, <4>6 DEF Asking
      <4> QED
        BY <4>3, <4>4, <4>5, <4>6 DEF Awaiting
    <3>2. CASE Parse \/ OpenFile
      <4>1. c = cur /\ UNCHANGED inbox /\ spc \in {"parse", "dispatch"}
        BY <2>4, <3>2 DEF Parse, OpenFile, netVars
      <4> QED
        BY <2>4, <4>1 DEF WaitInv
    <3>3. CASE StoreMore
      <4>1. c = cur /\ spc = "store"
        BY <2>4, <3>3 DEF StoreMore
      <4>2. PICK r \in Reads("server", c) :
                   r.ret = MaxInput /\ Consume("server", c, r)
        BY <3>3, <4>1 DEF StoreMore
      <4>3. Len(r.data) = MaxInput
        BY <2>1, <4>2, ReadCases
      <4>4. /\ r.data \in Seq(Byte) /\ inbox'["server"][c] \in Seq(Byte)
            /\ inbox["server"][c] = r.data \o inbox'["server"][c]
        BY <2>1, <4>2, ConsumeEffect
      <4>5. PICK rest \in Seq(Byte), data \in Seq(Byte) :
                   rest = inbox'["server"][c] /\ data = r.data
        BY <4>4
      <4>6. Len(inbox["server"][c]) = Len(rest) + MaxInput /\ Len(rest) \in Nat
        <5>1. Len(data \o rest) = Len(data) + Len(rest) /\ Len(rest) \in Nat
          BY ConcatProperties, LenProperties
        <5>2. Len(data) = MaxInput /\ inbox["server"][c] = data \o rest
          BY <4>3, <4>4, <4>5
        <5> QED
          BY <2>1, <5>1, <5>2
      <4>7. ~Fills(Len(inbox["server"][c]))
        BY <2>4, <4>1 DEF WaitInv
      <4> QED
        BY <4>5, <4>6, <4>7, FillsOnce
    <3>4. CASE StoreChunk
      <4>1. c = cur /\ spc = "store" /\ spc' = "store" /\ sbuf' = <<>>
            /\ root' = root /\ root.code \in FileCodes
        BY <2>1, <2>4, <3>4 DEF StoreChunk, AfterChunk, HasClient
      <4>2. PICK r \in Reads("server", c) :
                   /\ r.ret < MaxInput /\ Consume("server", c, r)
                   /\ disk' = [disk EXCEPT ![root.code] =
                                 disk[root.code] \o Chunk(r)]
                   /\ spc' = AfterChunk(disk[root.code] \o Chunk(r))
        BY <3>4, <4>1 DEF StoreChunk
      <4>3. inbox'["server"][c] = <<>>
        BY <2>1, <4>2, ReadAll DEF PromptNet
      <4>4. Len(disk'[root.code]) # root.data
        BY <2>1, <4>1, <4>2 DEF AfterChunk, ServerTypeOK
      <4>5. root = Header(c) /\ Uploading(c)
        BY <4>1 DEF TalkInv, Served
      <4>6. /\ Written(c)' = (disk'[root'.code] \o sbuf') \o inbox'["server"][c]
            /\ Uploading(c)'
        BY <2>2, <2>4, <4>1 DEF TalkInv, Served
      <4>7. disk'[root.code] \in Seq(Byte)
        BY <2>2, <4>1 DEF TypeInv, TypeOK, ServerTypeOK
      <4>8. Written(c)' = disk'[root.code]
        BY <4>1, <4>3, <4>6, <4>7, ConcatEmptySeq
      <4>9. Written(c)' = Written(c) /\ root.data = Size(c)
        <5>1. Written(c)' = Written(c)
          BY <1>3 DEF clientVars, Written, Whole, Content, CurFile
        <5> QED
          BY <4>5, <5>1 DEF Header, Size
      <4>10. Len(Written(c)) = Size(c)
        <5>1. sent[c] = Size(c)
          BY <2>4 DEF LinkInv, OnItsWay
        <5>2. /\ Size(c) \in Nat /\ Whole(c) \in Seq(Byte)
              /\ Len(Whole(c)) = Size(c)
          BY RunType
        <5> QED
          BY <5>1, <5>2 DEF Written
      <4> QED
        BY <4>4, <4>8, <4>9, <4>10
    <3> QED
      BY <1>3, <2>4, <3>1, <3>2, <3>3, <3>4 DEF ServerStep, ServerFault, Accept,
         RecvMore, RecvFails, Ignore, OpenFails, StoreFails, StoreReadFails,
         ReplyToFile, CloseFile, Acknowledge, AfterAck, Solve, AfterAnswer,
         CloseClient, Segfault, ServerSigpipe, Signalled, PowerLost, Restart,
         Dies
  <2> QED
    BY <2>1, <2>3, <2>4 DEF WaitInv
<1> QED
  BY <1>1, <1>2, <1>3 DEF Next

\* The server and the client it serves never both wait for the other to write,
\* when no file is empty and neither a request nor the last piece of a file
\* fills the buffer of the read.
THEOREM NeverBothWait ==
  ASSUME PromptNet, NothingFills
  PROVE  Spec => []NoMutualWait
<1>1. Init => WaitInv
  BY NetAssumption DEF Init, ClientInit, ServerInit, WaitInv
<1>2. TypeInv /\ TalkInv /\ WaitInv => NoMutualWait
  <2> SUFFICES ASSUME TypeInv, TalkInv, WaitInv, spc \in {"recv", "store"},
                      cpc[cur] \in Receiving, inbox["server"][cur] = <<>>,
                      inbox["client"][cur] = <<>>
               PROVE  FALSE
    BY DEF NoMutualWait
  <2>1. PICK c \in Clients : c = cur
    BY DEF TypeInv, HasClient
  <2>2. Served(c) /\ sbuf \in Seq(Byte) /\ Len(<<>>) = 0 /\ Fills(0)
    BY <2>1, FillsOnce DEF TalkInv, TypeInv, TypeOK, ServerTypeOK
  <2>3. CASE spc = "recv"
    <3>1. Awaiting(c, sbuf) /\ (sbuf # <<>> => Asking(c))
      BY <2>1, <2>2, <2>3, ConcatEmptySeq DEF Served
    <3>2. ~Idle(c)
      BY <2>1, <2>2, NetAssumption DEF Idle, Receiving
    <3>3. ~(sbuf = Bytes(Header(c)) /\ Uploading(c))
      BY <3>1, MessageLengths DEF Uploading, Asking
    <3>4. sbuf = Bytes(Request(c)) /\ Asking(c)
      BY <3>1, <3>2, <3>3 DEF Awaiting
    <3>5. Len(sbuf) = job[c].req
      BY <3>4, MessageLengths DEF Asking
    <3>6. Fills(Len(sbuf)) /\ job[c] \in Jobs
      BY <2>1, <2>3 DEF WaitInv, TypeInv, TypeOK, ClientTypeOK
    <3> QED
      BY <3>5, <3>6 DEF NothingFills
  <2>4. CASE spc = "store"
    <3>1. Uploading(c) /\ cpc[c] \in Receiving
      BY <2>1, <2>2, <2>4 DEF Served
    <3>2. cpc[c] = "reply"
      BY <3>1 DEF Uploading, Receiving
    <3> QED
      BY <2>1, <2>2, <2>4, <3>2 DEF WaitInv
  <2> QED
    BY <2>3, <2>4
<1> QED
  BY <1>1, <1>2, WaitStep, TypeInvariant, SocketInvariant, LinkInvariant,
     TalkInvariant, PTL DEF Spec
=============================================================================
