-------------------------------- MODULE Rds --------------------------------
(***************************************************************************)
(* Remote dependency solving: the runs of rds-client and the rds-server,   *)
(* composed over the network they share.                                   *)
(***************************************************************************)
EXTENDS RdsClient, RdsServer

vars == <<netVars, clientVars, serverVars>>

Init == NetInit /\ ClientInit /\ ServerInit

Next ==
  \/ \E c \in Clients : ClientStep(c) /\ UNCHANGED serverVars
  \/ (ServerStep \/ ServerFault) /\ UNCHANGED clientVars

Spec == Init /\ [][Next]_vars

\* A process that can go on does: neither program waits for anything but its
\* reads, and the kernel delivers what was written.  The faults are not fair.
Fairness ==
  /\ \A c \in Clients : WF_vars(ClientStep(c) /\ UNCHANGED serverVars)
  /\ WF_vars(ServerStep /\ UNCHANGED clientVars)

FairSpec == Spec /\ Fairness

-----------------------------------------------------------------------------
TypeOK == NetTypeOK /\ ClientTypeOK /\ ServerTypeOK

\* The server holds exactly the connections it serves or has yet to accept:
\* ssds_close is reached on every path out of a conversation.
NoSocketLeak ==
  {c \in Clients : sock["server"][c] \in Live} =
     Queued \cup ({cur} \ {NoClient})

\* Inductive form of NoSocketLeak: the queue holds no connection twice, the one
\* being served is not queued, and a run still connecting has none.
SocketInv ==
  /\ NoSocketLeak
  /\ cur \notin Queued
  /\ \A j, k \in DOMAIN backlog : backlog[j] = backlog[k] => j = k
  /\ spc \in {"accept", "down"} => cur = NoClient
  /\ spc = "down" <=> ~listening
  /\ ~listening => backlog = <<>>
  /\ \A c \in Clients : cpc[c] = "connect" => sock["server"][c] = "none"

\* The stored @System.solv and yum.conf are shared by all clients, yet a file
\* never holds bytes of two of them, however a transfer was cut short.
OneOwnerPerFile ==
  \A f \in FileCodes :
    \A i, j \in 1..Len(disk[f]) :
      Junk \notin {disk[f][i], disk[f][j]} =>
        disk[f][i].msg.by = disk[f][j].msg.by

\* Inductive form of OneOwnerPerFile: what the server can read of a connection,
\* and has read, was written by its client.
OwnBytes(bytes, c) == \A k \in 1..Len(bytes) : bytes[k].msg.by = c
OwnOrJunk(bytes, c) ==
  \A k \in 1..Len(bytes) : bytes[k].msg.by = c \/ bytes[k] = Junk

OwnerInv ==
  /\ \A c \in Clients : OwnBytes(inbox["server"][c], c)
  /\ OwnBytes(sbuf, cur)
  /\ spc \in {"accept", "down"} => sbuf = <<>>
  /\ spc = "store" => OwnOrJunk(disk[root.code], cur)
  /\ \A f \in FileCodes :
       \E c \in Clients \cup {NoClient} : OwnOrJunk(disk[f], c)

\* What is stored is a contiguous part of what the client sent, in its order:
\* two neighbours of one message were neighbours in it.
StoredInOrder ==
  \A f \in FileCodes : \A k \in 1..(Len(disk[f]) - 1) :
    LET one == disk[f][k]
        two == disk[f][k + 1]
    IN Junk \notin {one, two} /\ one.msg = two.msg => two.i = one.i + 1

-----------------------------------------------------------------------------
(***************************************************************************)
(* What the protocol promises when every write is read before the next     *)
(* (Prompt).  None of these survives a network that coalesces writes.      *)
(***************************************************************************)
\* The server acts for the client it is connected to, never on the message of
\* an earlier one.
HandlesOwnMessage ==
  spc \in {"dispatch", "store", "reply", "fclose", "solve"} /\ root # NoMsg
    => root.by = cur

\* A confirmation of the server finds the client waiting for one; only an error
\* may come while the client is still writing.
ConfirmedWhenAsked ==
  \A c \in Clients : \A k \in 1..Len(inbox["client"][c]) :
    inbox["client"][c][k].msg.code # "ANSWER_ERROR" =>
      cpc[c] \in Receiving \cup {"checked", "done"}

\* A file the client has copied to its backup, and so will not send again, is
\* on the server, unless another client uploaded its own over it.
BackedUpIsStored ==
  \A c \in Clients : \A f \in backup[c] :
    \/ disk[f] = Bytes(Content(c, f))
    \/ \E d \in Clients \ {c} :
         f \in job[d].files /\ sock["server"][d] # "none"

\* The server solves only for a client all of whose changed files it has.
SolveAfterSync == spc = "solve" /\ cpc[cur] # "done" => todo[cur] = {}

\* The two programs never both wait in a read for the other to write.
NoMutualWait ==
  ~ /\ spc \in {"recv", "store"}
    /\ cpc[cur] \in Receiving
    /\ inbox["server"][cur] = <<>>
    /\ inbox["client"][cur] = <<>>
    /\ sock["server"][cur] = "open" /\ sock["client"][cur] = "open"

-----------------------------------------------------------------------------
\* Every run ends, and with the answer it asked for.
AllServed ==
  \A c \in Clients :
    <>(did[c] # "none" /\ status[c] \in {"OK", "ANSWER_OK", "ANSWER_NO_DEP"})

\* The server always comes back to accept the next client.
ServerComesBack == []<>(spc = "accept")

-----------------------------------------------------------------------------
(***************************************************************************)
(* What the comments, the messages and the documents of the program say,   *)
(* and the code does not do.                                               *)
(***************************************************************************)
\* server.c:107, "False data recieved ... Client rejected.": a text the parser
\* rejects is never acted upon.
FalseDataRejected ==
  [][spc = "parse" /\ spc' = "dispatch" /\ sbuf # <<>> /\ ~IsWhole(sbuf)
       => root' = NoMsg]_vars

\* README.md:6, "the result is sent back to client device": a run that has sent
\* its request comes to its end, whatever the runs before it asked for.
AskedIsAnswered ==
  \A c \in Clients : cpc[c] \in {"check", "answer"} ~> cpc[c] = "done"
=============================================================================
