------------------------------- MODULE RdsNet -------------------------------
(***************************************************************************)
(* The network under rds-client and rds-server: messages as bytes, one TCP *)
(* connection per run of the client, and the two primitives both programs  *)
(* use on it, ssds_read and secure_write (network_util.c,                  *)
(* network_security.c with USE_SSL = 0).                                   *)
(*                                                                         *)
(* A "byte" is a unit of the transfer: it knows the message it belongs to  *)
(* and its place in it, so that a property can tell whose bytes a buffer   *)
(* or a file holds.  Lengths are scaled down: MaxInput stands for          *)
(* MAX_INPUT_LEN (2000).                                                   *)
(***************************************************************************)
EXTENDS Integers, Sequences, FiniteSets

CONSTANTS Clients,   \* the runs of rds-client, each one connection
          NoClient,  \* no client
          MaxInput,  \* the most bytes one read returns (MAX_INPUT_LEN)
          SmallLen,  \* the length of a file header and of a bare answer
          Backlog,   \* connections the kernel queues for listen(2)
          Prompt,    \* TRUE: each write is read, in full, before the next
          Faults     \* what may go wrong in this instance

FaultKinds == {"connect",   \* the network refuses connections
               "file",      \* the client cannot open a file it has to send
               "copy",      \* the client cannot write its backup of a file
               "decline",   \* the user answers NO
               "repo",      \* the client cannot read its own repositories
               "kill",      \* a client is killed
               "disk",      \* the server cannot create or write a file
               "signal",    \* the server gets SIGTERM: its handler runs
               "power",     \* the server dies without flushing its files
               "restart"}   \* a dead server is started again

ASSUME NetAssumption ==
  /\ NoClient \notin Clients
  /\ MaxInput \in Nat \ {0}
  /\ SmallLen \in Nat \ {0}
  /\ Backlog \in Nat \ {0}
  /\ Prompt \in BOOLEAN
  /\ Faults \subseteq FaultKinds

-----------------------------------------------------------------------------
(***************************************************************************)
(* Messages.  "data" is what the receiver takes from the JSON data object: *)
(* the announced size in a header, the number of packages in an answer.    *)
(* "by" is the client whose conversation the message belongs to.           *)
(***************************************************************************)
FileCodes   == {"SEND_SOLV", "SEND_YUM_CONF"}
GetCodes    == {"GET_INSTALL", "GET_UPDATE", "GET_UPDATE_ALL", "GET_ERASE"}
AnswerCodes == {"ANSWER_OK", "ANSWER_ERROR", "ANSWER_NO_DEP"}
JsonCodes   == FileCodes \cup GetCodes \cup AnswerCodes

\* The raw bytes of a file follow its header outside any JSON message.
ContentCode == [f \in FileCodes |->
                  IF f = "SEND_SOLV" THEN "solv bytes" ELSE "yum bytes"]
Codes == JsonCodes \cup {"solv bytes", "yum bytes", "none"}

Message == [code : Codes, by : Clients \cup {NoClient}, len : Nat, data : Nat]
NoMsg   == [code |-> "none", by |-> NoClient, len |-> 0, data |-> 0]

Byte     == [msg : Message, i : Nat]
Bytes(m) == [k \in 1..m.len |-> [msg |-> m, i |-> k]]
\* What a file gets when memory that was never received is written to it.
Junk     == [msg |-> NoMsg, i |-> 0]

\* json_parser_load_from_data takes a buffer that holds one JSON document, or
\* one after another, the last of which becomes the root.  A part of a
\* message, or the bytes of a file, are not JSON.
IsWhole(buf) ==
  /\ buf # <<>>
  /\ LET first == Head(buf).msg
         last  == buf[Len(buf)].msg
     IN /\ {first.code, last.code} \subseteq JsonCodes
        /\ buf \in {Bytes(last), Bytes(first) \o Bytes(last)}
Parsed(buf) == buf[Len(buf)].msg

-----------------------------------------------------------------------------
VARIABLES inbox,      \* inbox[s][c]: bytes side s of c's connection can read
          sock,       \* sock[s][c]: the descriptor side s holds
          backlog,    \* connections the server has not accepted yet
          listening   \* the server process is alive

netVars == <<inbox, sock, backlog, listening>>

\* The clients whose connections wait to be accepted.
Queued == {backlog[k] : k \in DOMAIN backlog}

Sides     == {"client", "server"}
Other(s)  == IF s = "client" THEN "server" ELSE "client"
SockState == {"none", "open", "reset", "closed"}
Live      == {"open", "reset"}

NetTypeOK ==
  /\ inbox \in [Sides -> [Clients -> Seq(Byte)]]
  /\ sock \in [Sides -> [Clients -> SockState]]
  /\ backlog \in Seq(Clients)
  /\ listening \in BOOLEAN

NetInit ==
  /\ inbox = [s \in Sides |-> [c \in Clients |-> <<>>]]
  /\ sock = [s \in Sides |-> [c \in Clients |-> "none"]]
  /\ backlog = <<>>
  /\ listening = TRUE

\* The results one ssds_read of side s may have: a chunk of what has arrived
\* (TCP keeps no message boundaries), 0 when the peer has closed, -1 when the
\* connection was reset.  There is none while the read blocks.
ChunkLens(n) ==
  LET most == IF n < MaxInput THEN n ELSE MaxInput
  IN IF Prompt THEN {most} \ {0} ELSE 1..most

Reads(s, c) ==
  LET in == inbox[s][c]
  IN {[ret |-> n, data |-> SubSeq(in, 1, n)] : n \in ChunkLens(Len(in))}
     \cup {r \in {[ret |-> 0, data |-> <<>>]} :
             /\ in = <<>>
             /\ sock[s][c] = "reset" \/ sock[Other(s)][c] = "closed"}
     \cup {r \in {[ret |-> -1, data |-> <<>>]} :
             in = <<>> /\ sock[s][c] = "reset"}

Consume(s, c, r) ==
  /\ inbox' = [inbox EXCEPT ![s][c] = SubSeq(@, Len(r.data) + 1, Len(@))]
  /\ UNCHANGED <<sock, backlog, listening>>

\* secure_write ignores the result of the write: to a peer that has closed the
\* data is lost, the connection is reset and nothing is reported.  A second
\* write may raise SIGPIPE, which the programs model as an action of their own.
CanWrite(s, c) == Prompt => inbox[Other(s)][c] = <<>>

Write(s, c, bytes) ==
  /\ CanWrite(s, c)
  /\ IF sock[s][c] = "open" /\ sock[Other(s)][c] = "open"
       THEN /\ inbox' = [inbox EXCEPT ![Other(s)][c] = @ \o bytes]
            /\ UNCHANGED sock
       ELSE /\ sock' = [sock EXCEPT ![s][c] = "reset"]
            /\ UNCHANGED inbox
  /\ UNCHANGED <<backlog, listening>>

\* close(2): TCP resets the peer when data is left unread.
Close(s, c) ==
  /\ sock' = IF sock[s][c] \in Live
               THEN [sock EXCEPT
                       ![s][c] = "closed",
                       ![Other(s)][c] = IF @ = "open" /\ inbox[s][c] # <<>>
                                          THEN "reset" ELSE @]
               ELSE sock
  /\ inbox' = [inbox EXCEPT ![s][c] = <<>>]
  /\ UNCHANGED <<backlog, listening>>

\* The kernel closes what a dead server held, and resets whom it had queued.
ServerGone ==
  /\ sock' = [sock EXCEPT
                !["client"] = [c \in Clients |->
                   IF /\ sock["client"][c] = "open"
                      /\ sock["server"][c] \in Live
                      /\ inbox["server"][c] # <<>> \/ c \in Queued
                     THEN "reset" ELSE sock["client"][c]],
                !["server"] = [c \in Clients |->
                   IF sock["server"][c] \in Live
                     THEN "closed" ELSE sock["server"][c]]]
  /\ inbox' = [inbox EXCEPT !["server"] = [c \in Clients |-> <<>>]]
  /\ backlog' = <<>>
  /\ listening' = FALSE
=============================================================================
