------------------------------ MODULE Perftest ------------------------------
(***************************************************************************)
(* A whole run of the performance tester: one dyad_ucx_perftest_server     *)
(* (server.cpp) and NumClients dyad_ucx_perftest_client processes          *)
(* (client.cpp) on an MPI communicator, talking over the control channel   *)
(* (OOBComm) and moving data over UCX (TagBackend).                        *)
(*                                                                         *)
(* Every process is single-threaded.  A step is the code between two       *)
(* points where it blocks or where another process can see what it did.    *)
(***************************************************************************)
EXTENDS OOBComm, TagBackend

CONSTANTS
    NumConnections,  \* num_connections of the server's command line
    NumIters,        \* --num_iters of the clients' command line
    ClientSize,      \* data_size of the clients' command line
    Faults           \* which processes may fail: a UCX call, an allocation, a
                     \* signal

ASSUME PerftestAssumption ==
    /\ NumConnections \in Nat \ {0}  \* Server::Server throws on 0
    /\ NumIters \in Nat
    /\ ClientSize \in Nat
    /\ Faults \subseteq {"server", "client"}

Connections == 0 .. NumConnections - 1

VARIABLES
    spc,      \* where the server is
    active,   \* m_connections_active
    cpc,      \* where each client is
    iter,     \* completed iterations of each client, the i of Client::run
    arrived   \* clients that entered MPI_Barrier

vars == <<spc, active, cpc, iter, arrived, oobVars, tagVars>>

ServerPC == {"start", "run", "establish", "send", "comm_wait", "close",
             "reply", "shutdown", "done", "threw", "failed"}
ClientPC == {"start", "start_recv", "barrier", "loop", "probe", "comm_wait",
             "reply", "shutdown", "finalize", "done", "threw", "failed"}
Final == {"done", "threw", "failed"}
Dead  == {"threw", "failed"}

TypeOK ==
    /\ OOBTypeOK
    /\ TagTypeOK
    /\ spc \in ServerPC
    /\ active \in [Connections -> BOOLEAN]
    /\ cpc \in [Clients -> ClientPC]
    /\ iter \in [Clients -> Nat]
    /\ arrived \subseteq Clients

Init ==
    /\ OOBInit
    /\ TagInit
    /\ spc = "start"
    /\ active = [k \in Connections |-> FALSE]
    /\ cpc = [c \in Clients |-> "start"]
    /\ iter = [c \in Clients |-> 0]
    /\ arrived = {}

clientVars == <<cpc, iter, arrived>>

-----------------------------------------------------------------------------
(* The server.                                                             *)

(* Mutants: any_of for all_of, and not all_of for none_of. *)
AnyActive(act)    == \E k \in Connections : act[k]
SomeUnactive(act) == \E k \in Connections : ~ act[k]

AllActive(act)   == \A k \in Connections : act[k]
AllUnactive(act) == \A k \in Connections : ~ act[k]

(* check_active_connections and the loop condition of Server::run. *)
NextTurn(act) == IF AllUnactive(act) THEN "shutdown" ELSE "run"

(* Mutant: the rank is not checked against the number of connections. *)
ValidStartAnyRank(m) == m.msg_type = 0

(* Server::start accepts a type-0 message from a rank below NumConnections;
   anything else is an exception (a wrong type, or vector::at). *)
ValidStart(m) == m.msg_type = 0 /\ m.rank \in Connections

(* One turn of the loop of Server::start. *)
ServerStart(c) ==
    /\ spc = "start"
    /\ request[c] # NULL
    /\ ValidStart(request[c])
    /\ ServerAnswer(c, "ok")
    /\ active' = [active EXCEPT ![request[c].rank] = TRUE]
    /\ spc' = IF AllActive(active') THEN "run" ELSE "start"
    /\ UNCHANGED <<clientVars, tagVars>>

(* Server::single_run serves only ranks whose connection is active. *)
ValidRun(m) ==
    /\ m.rank \in Connections
    /\ active[m.rank]
    /\ m.msg_type \in {1, 2}

(* An exception leaves main through its catch clauses and ends the process. *)
ServerThrow(c) ==
    /\ spc \in {"start", "run"}
    /\ request[c] # NULL
    /\ spc = "start" => ~ ValidStart(request[c])
    /\ spc = "run" => ~ ValidRun(request[c])
    /\ ServerAbandon(c)
    /\ spc' = "threw"
    /\ UNCHANGED <<active, clientVars, tagVars>>

(* single_run up to set_tag: a request for one transfer. *)
ServerRequest(c) ==
    /\ spc = "run"
    /\ request[c] # NULL
    /\ ValidRun(request[c])
    /\ request[c].msg_type = 1
    /\ ServerRecv(c)
    /\ set_remote_addr(base64_decode(request[c].addr))
    /\ set_tag(request[c].tag)
    /\ spc' = "establish"
    /\ UNCHANGED <<active, clientVars, m_remote_ep, sendReq, net, recvReq, served>>

(* Mutant: one client's message closes every connection. *)
ServerDisconnectAll(c) ==
    /\ spc = "run"
    /\ request[c] # NULL
    /\ ValidRun(request[c])
    /\ request[c].msg_type = 2
    /\ ServerAnswer(c, "disconnect_ok")
    /\ active' = [k \in Connections |-> FALSE]
    /\ spc' = NextTurn(active')
    /\ UNCHANGED <<clientVars, tagVars>>

(* single_run on the message with which a client leaves. *)
ServerDisconnect(c) ==
    /\ spc = "run"
    /\ request[c] # NULL
    /\ ValidRun(request[c])
    /\ request[c].msg_type = 2
    /\ ServerAnswer(c, "disconnect_ok")
    /\ active' = [active EXCEPT ![request[c].rank] = FALSE]
    /\ spc' = NextTurn(active')
    /\ UNCHANGED <<clientVars, tagVars>>

ServerEstablish ==
    /\ spc = "establish"
    /\ establish_connection
    /\ spc' = "send"
    /\ UNCHANGED <<active, clientVars, oobVars>>

(* TagBackend::send throws when there is no endpoint. *)
ServerPost ==
    /\ spc = "send"
    /\ IF m_remote_ep # NULL
       THEN /\ send
            /\ spc' = "comm_wait"
            /\ UNCHANGED oobVars
       ELSE /\ ServerClose
            /\ spc' = "threw"
            /\ UNCHANGED tagVars
    /\ UNCHANGED <<active, clientVars>>

ServerCommWait ==
    /\ spc = "comm_wait"
    /\ send_wait
    /\ spc' = "close"
    /\ UNCHANGED <<active, clientVars, oobVars>>

ServerClosePeer ==
    /\ spc = "close"
    /\ close_connection
    /\ spc' = "reply"
    /\ UNCHANGED <<active, clientVars, oobVars>>

ServerReply ==
    /\ spc = "reply"
    /\ ServerSend("iter_ok")
    /\ spc' = NextTurn(active)
    /\ UNCHANGED <<active, clientVars, tagVars>>

ServerShutdown ==
    /\ spc = "shutdown"
    /\ ServerClose
    /\ spc' = "done"
    /\ UNCHANGED <<active, clientVars, tagVars>>

(* An exception that is not the protocol's own, or a signal, ends the server. *)
ServerDies ==
    /\ ServerClose
    /\ spc' = "failed"
    /\ sendReq' = "none"
    /\ UNCHANGED <<active, clientVars, m_remote_addr, m_tag, m_remote_ep, net,
                   recvReq, served>>

(* A UCX call, an allocation or an interrupted zstr_recv fails. *)
ServerFail ==
    /\ "server" \in Faults
    /\ spc \notin Final
    /\ ServerDies

(* The client that is being served has died, and UCX reports it: from
   ucp_ep_create, as the status of the send, or from ucp_ep_close_nbx. *)
ServerPeerLost ==
    /\ spc \in {"establish", "comm_wait", "close"}
    /\ cpc[repPeer] \in Dead
    /\ ServerDies

ServerStep ==
    \/ \E c \in Clients :
          ServerStart(c) \/ ServerThrow(c) \/ ServerRequest(c) \/ ServerDisconnect(c)
    \/ ServerEstablish \/ ServerPost \/ ServerCommWait \/ ServerClosePeer
    \/ ServerReply \/ ServerShutdown

serverVars == <<spc, active>>

-----------------------------------------------------------------------------
(* A client, of rank c.                                                    *)

Goto(c, pc) == cpc' = [cpc EXCEPT ![c] = pc]

ClientStart(c) ==
    /\ cpc[c] = "start"
    /\ ClientSend(c, StartMsg(c))
    /\ Goto(c, "start_recv")
    /\ UNCHANGED <<iter, arrived, serverVars, tagVars>>

(* json::at throws when the awaited key is not in the reply. *)
ClientBadReply(c, key) ==
    /\ reply[c] \notin {NULL, key}
    /\ ClientClose(c)
    /\ Goto(c, "threw")
    /\ UNCHANGED <<iter, arrived, serverVars, tagVars>>

(* The reply to the registration; the client then enters the barrier. *)
ClientStarted(c) ==
    /\ cpc[c] = "start_recv"
    /\ IF reply[c] = "ok"
       THEN /\ ClientRecv(c, "ok")
            /\ Goto(c, "barrier")
            /\ arrived' = arrived \cup {c}
            /\ UNCHANGED <<iter, serverVars, tagVars>>
       ELSE ClientBadReply(c, "ok")

(* Mutant: no barrier. *)
ClientBarrierSkipped(c) ==
    /\ cpc[c] = "barrier"
    /\ Goto(c, "loop")
    /\ UNCHANGED <<iter, arrived, serverVars, oobVars, tagVars>>

(* MPI_Barrier on MPI_COMM_WORLD. *)
ClientBarrier(c) ==
    /\ cpc[c] = "barrier"
    /\ arrived = Clients
    /\ Goto(c, "loop")
    /\ UNCHANGED <<iter, arrived, serverVars, oobVars, tagVars>>

(* single_run up to the probe loop: ask for one transfer. *)
ClientRequest(c) ==
    /\ cpc[c] = "loop"
    /\ iter[c] < NumIters
    /\ ClientSend(c, RunMsg(c, get_tag(c), get_address(c)))
    /\ Goto(c, "probe")
    /\ UNCHANGED <<iter, arrived, serverVars, tagVars>>

ClientProbe(c) ==
    /\ cpc[c] = "probe"
    /\ recv(c)
    /\ Goto(c, "comm_wait")
    /\ UNCHANGED <<iter, arrived, serverVars, oobVars>>

(* Mutant: the size is not checked. *)
ClientCommWaitAnySize(c) ==
    /\ cpc[c] = "comm_wait"
    /\ recv_wait(c)
    /\ Goto(c, "reply")
    /\ UNCHANGED <<iter, arrived, serverVars, oobVars>>

(* The data is there; its size must be the client's own data_size. *)
ClientCommWait(c) ==
    /\ cpc[c] = "comm_wait"
    /\ recv_wait(c)
    /\ IF recvReq[c].len = ClientSize
       THEN /\ Goto(c, "reply")
            /\ UNCHANGED oobVars
       ELSE /\ Goto(c, "threw")
            /\ ClientClose(c)
    /\ UNCHANGED <<iter, arrived, serverVars>>

(* Mutant: the loop of Client::run does not count. *)
ClientReplyUncounted(c) ==
    /\ cpc[c] = "reply"
    /\ IF reply[c] = "iter_ok"
       THEN /\ ClientRecv(c, "iter_ok")
            /\ Goto(c, "loop")
            /\ UNCHANGED <<iter, arrived, serverVars, tagVars>>
       ELSE ClientBadReply(c, "iter_ok")

(* Mutant: the reply is assumed and left in the socket. *)
ClientReplyUnread(c) ==
    /\ cpc[c] = "reply"
    /\ iter' = [iter EXCEPT ![c] = @ + 1]
    /\ Goto(c, "loop")
    /\ UNCHANGED <<arrived, serverVars, oobVars, tagVars>>

ClientReply(c) ==
    /\ cpc[c] = "reply"
    /\ IF reply[c] = "iter_ok"
       THEN /\ ClientRecv(c, "iter_ok")
            /\ iter' = [iter EXCEPT ![c] = @ + 1]
            /\ Goto(c, "loop")
            /\ UNCHANGED <<arrived, serverVars, tagVars>>
       ELSE ClientBadReply(c, "iter_ok")

(* After the loop: tell the server, and do not wait for the reply. *)
ClientDisconnect(c) ==
    /\ cpc[c] = "loop"
    /\ iter[c] >= NumIters
    /\ ClientSend(c, DisconnectMsg(c))
    /\ Goto(c, "shutdown")
    /\ UNCHANGED <<iter, arrived, serverVars, tagVars>>

ClientShutdown(c) ==
    /\ cpc[c] = "shutdown"
    /\ ClientClose(c)
    /\ Goto(c, "finalize")
    /\ UNCHANGED <<iter, arrived, serverVars, tagVars>>

(* MPI_Finalize, like the barrier, waits for every client. *)
ClientFinalize(c) ==
    /\ cpc[c] = "finalize"
    /\ \A d \in Clients : cpc[d] \in {"finalize", "done"}
    /\ Goto(c, "done")
    /\ UNCHANGED <<iter, arrived, serverVars, oobVars, tagVars>>

ClientFail(c) ==
    /\ "client" \in Faults
    /\ cpc[c] \notin Final
    /\ \/ ClientClose(c)
       \/ cpc[c] = "finalize" /\ UNCHANGED oobVars
    /\ Goto(c, "failed")
    /\ UNCHANGED <<iter, arrived, serverVars, tagVars>>

ClientStep(c) ==
    \/ ClientStart(c) \/ ClientStarted(c) \/ ClientBarrier(c)
    \/ ClientRequest(c) \/ ClientProbe(c) \/ ClientCommWait(c) \/ ClientReply(c)
    \/ ClientDisconnect(c) \/ ClientShutdown(c) \/ ClientFinalize(c)

-----------------------------------------------------------------------------
AllDone == spc = "done" /\ \A c \in Clients : cpc[c] = "done"

(* Every process has exited normally: the only way a run may stop. *)
Terminated == AllDone /\ UNCHANGED vars

Next ==
    \/ ServerStep
    \/ ServerFail \/ ServerPeerLost
    \/ \E c \in Clients : ClientStep(c) \/ ClientFail(c)
    \/ Terminated

(* A process that can take a step takes it: the operating system schedules
   every process, ZMQ and UCX deliver what they hold.  Failures are not
   scheduled. *)
Fairness ==
    /\ WF_vars(ServerStep)
    /\ \A c \in Clients : WF_vars(ClientStep(c))

Spec == Init /\ [][Next]_vars
FairSpec == Spec /\ Fairness

-----------------------------------------------------------------------------
(* The service the processes implement together.  A client has joined from
   the server's reply to its registration until the reply to its disconnect
   message; a transfer is under way from its request to its reply.  If the
   server dies before close_connection, while it has the client's address, the
   transfer stays under way for ever; if it dies between close_connection and
   the reply, when the data is sent and nothing is left of the client in its
   backend, the transfer has finished, as far as the server goes.          *)

Serving == {"establish", "send", "comm_wait", "close", "reply"}

Served == IF spc = "reply" THEN repPeer ELSE m_remote_addr

TS == INSTANCE TransferService WITH
    Client  <- Clients,
    Quota   <- NumIters,
    Nobody  <- NULL,
    status  <- [c \in Clients |->
                   IF active[c] THEN "joined"
                   ELSE IF arrived = Clients THEN "left" ELSE "new"],
    serving <- Served,
    acked   <- [c \in Clients |-> IF Served = c THEN iter[c] ELSE served[c]],
    taken   <- iter,
    closed  <- spc = "done"

-----------------------------------------------------------------------------
(* Properties.                                                             *)

WellConfigured == NumConnections = NumClients /\ ServerSize = ClientSize

(* With matching command lines no exception of the protocol itself is ever
   raised: the server never sees a message of the wrong type, from an unknown
   rank or from a closed connection, the clients never see a wrong reply or
   size.  It is the barrier in Client::start that keeps the first transfer
   request away from a server still in Server::start.  *)
ProtocolNeverThrows ==
    WellConfigured => /\ spc # "threw"
                      /\ \A c \in Clients : cpc[c] # "threw"

(* A server started for another number of clients, or with another data size,
   never serves an iteration to its end and never reports that it is done. *)
MisconfiguredMovesNothing ==
    ~ WellConfigured =>
        /\ \A c \in Clients : iter[c] = 0
        /\ (NumConnections # NumClients \/ NumIters > 0) => spc # "done"

(* The messages posted to client c, and those it has not consumed yet. *)
Posted(c)      == {m \in net : m.dst = c}
Outstanding(c) == Posted(c) \cup ({recvReq[c]} \ {NULL})

(* Iteration and transfer stay in step: whatever is under way to a client is
   the one message the server posted for the iteration the client is in,
   carries the client's tag, and no acknowledgement overtakes it. *)
OneTransferPerIteration ==
    \A c \in Clients :
        /\ served[c] \in {iter[c], iter[c] + 1}
        /\ \A m \in Outstanding(c) :
              m.tag = get_tag(c) /\ m.seq = served[c] /\ m.seq = iter[c] + 1
        /\ \A m, n \in Outstanding(c) : m = n
        /\ reply[c] = "iter_ok" => served[c] = iter[c] + 1

(* The server's backend carries nothing over from one request to the next:
   what it connects to and the tag it sends with are those of the request it
   holds, and it waits for the next request without an endpoint, an address
   or a request of the previous one. *)
NoStalePeer ==
    /\ spc \in {"establish", "send", "comm_wait", "close"} =>
          m_remote_addr = repPeer /\ m_tag = repPeer
    /\ spc \in {"send", "comm_wait", "close"} => m_remote_ep = repPeer
    /\ spc \in {"start", "run", "reply", "shutdown", "done"} =>
          m_remote_ep = NULL /\ m_remote_addr = NULL
    /\ spc # "comm_wait" => sendReq = "none"

(* A large message lies with the sender until the receiver has fetched it:
   until then the server waits for that client's receipt, with the buffer and
   the endpoint it sends from, has not acknowledged the transfer and has turned
   to nobody else.  Only its own death takes the server away from there.  *)
LargeSendsAreHeld ==
    \A c \in Clients : (\E m \in Outstanding(c) : m.proto = "rndv") =>
        /\ repPeer = c
        /\ reply[c] = NULL
        /\ (spc = "comm_wait" /\ sendReq = "rndv") \/ spc = "failed"

(* No send of either program vanishes, although OOBComm::send would not tell:
   whenever a client goes on from a send, its message is the one on the way,
   and whenever the server goes on from an acknowledgement, it is with the
   client, unless that client has closed its socket.  *)
EverySendIsTaken ==
    [][/\ \A c \in Clients :
             /\ cpc[c] \in {"start", "loop"}
             /\ cpc'[c] \in {"start_recv", "probe", "shutdown"}
             => request[c] = NULL /\ request'[c] # NULL
       /\ spc = "reply" /\ spc' \in {"run", "shutdown"} =>
             reply'[repPeer] = "iter_ok" \/ reqSock[repPeer] = "closed"]_vars

(* When the server is done every client had all its transfers, and they were
   exactly num_iters each. *)
DoneMeansAllServed ==
    spc = "done" =>
        \A c \in Clients : iter[c] = NumIters /\ served[c] = NumIters

(* A client in its probe loop, which has no timeout, is owed a message: its
   request is queued, or the server is on its way to the send, or the message
   is posted.  Only a failure or a discarding close can strand it. *)
ProbeHasSource ==
    (WellConfigured /\ Faults = {} /\ ~ ForceDiscards) =>
        \A c \in Clients : cpc[c] = "probe" =>
            \/ request[c] # NULL
            \/ Answering(c) /\ spc \in {"establish", "send"}
            \/ \E m \in net : m.dst = get_address(c) /\ m.tag = get_tag(c)

(* A connection is closed only by the disconnect message of its own client,
   after the last iteration of that client. *)
ClosedByItsClient ==
    [][\A k \in Connections : active[k] /\ ~ active'[k] =>
          k \in Clients /\ iter[k] = NumIters /\ request[k] = DisconnectMsg(k)]_vars

(* The processes implement TransferService: transfers are served one at a
   time, none before everybody has registered, every client gets and takes
   exactly num_iters of them, and the server ends after the last has left. *)
ImplementsService == TS!Spec

(* Every run of matching command lines ends with every process exited. *)
RunCompletes == <>AllDone

(* A client that died, and one that spins in its probe, which has no timeout,
   for data that was posted and discarded. *)
Gone(c)    == cpc[c] \in Dead
Starved(c) == /\ cpc[c] = "probe"
              /\ served[c] = iter[c] + 1
              /\ Outstanding(c) = {}

(* The server has exited, waits for a message that cannot come any more, or is
   stuck or dead with the transfer of a client that died. *)
ServerSettled ==
    \/ spc = "done"
    \/ spc = "start" /\ \E c \in Clients : ~ active[c] /\ Gone(c)
    \/ /\ spc = "run"
       /\ \E c \in Clients :
             /\ active[c]
             /\ request[c] = NULL
             /\ Gone(c) \/ Starved(c) \/ cpc[c] \in {"barrier", "finalize", "done"}
    \/ spc \in {"comm_wait", "failed"} /\ Gone(repPeer)

(* The server has died, and its answer to client c was lost with it: there is
   no timeout on zstr_recv either. *)
Unanswered(c) ==
    LingerDrops /\ cpc[c] = "reply" /\ reply[c] = NULL /\ spc = "failed"

(* A client has exited or died, or it waits: for data that was discarded, for
   a server that is stuck or dead, for an answer that was lost with the server,
   or in MPI for a client that will not come. *)
ClientSettled(c) ==
    \/ cpc[c] = "done" \/ Gone(c)
    \/ Starved(c) \/ Unanswered(c)
    \/ cpc[c] = "probe" /\ request[c] # NULL /\ spc \in {"comm_wait", "failed"}
    \/ cpc[c] = "barrier" /\ \E d \in Clients : d \notin arrived /\ Gone(d)
    \/ cpc[c] = "finalize" /\ \E d \in Clients : cpc[d] \notin {"finalize", "done"}

(* When clients die and closes lose messages, everybody settles, and only what
   was lost holds anybody up: the server goes on serving after the death of a
   client it was not connected to, and no client waits for a reply but of a
   server that died. *)
EverybodySettles == <>[](ServerSettled /\ \A c \in Clients : ClientSettled(c))

(* What each process waits for before its next step.  The other positions of
   the server and of a client wait for nothing. *)
ServerCanStep ==
    \/ spc \in {"start", "run"} /\ \E c \in Clients : request[c] # NULL
    \/ spc \in {"establish", "send", "close", "reply", "shutdown"}
    \/ spc = "comm_wait" /\ sendReq \in {"eager", "completed"}

ClientCanStep(c) ==
    \/ cpc[c] \in {"start", "loop", "shutdown"}
    \/ cpc[c] \in {"start_recv", "reply"} /\ reply[c] # NULL
    \/ cpc[c] = "barrier" /\ arrived = Clients
    \/ cpc[c] = "probe" /\ \E m \in net : m.dst = get_address(c) /\ m.tag = get_tag(c)
    \/ /\ cpc[c] = "comm_wait"
       /\ recvReq[c] # NULL
       /\ recvReq[c].proto = "rndv" => sendReq = "rndv"
    \/ cpc[c] = "finalize" /\ \A d \in Clients : cpc[d] \in {"finalize", "done"}

(* No process can take a step of its own any more. *)
Stuck == ~ ServerCanStep /\ \A c \in Clients : ~ ClientCanStep(c)

(* These conditions are all that a process waits for: whenever one holds, each
   call on the way to the next position of that process can be made. *)
NothingElseBlocks ==
    /\ ServerCanStep <=> ENABLED ServerStep
    /\ \A c \in Clients : ClientCanStep(c) <=> ENABLED ClientStep(c)

(* If nothing fails and nothing is lost, no state is a deadlock: the processes
   wait for each other in the barrier, in MPI_Finalize, in receives, probes and
   completions, but never in a circle.  *)
NoDeadlock ==
    (WellConfigured /\ Faults = {} /\ ~ ForceDiscards /\ ~ LingerDrops) =>
        (Stuck => AllDone)

(* If clients die and closes lose messages, a state in which nobody can go on
   is one that EverybodySettles accounts for. *)
StuckMeansSettled ==
    (WellConfigured /\ "server" \notin Faults) =>
        (Stuck => ServerSettled /\ \A c \in Clients : ClientSettled(c))

(* How far client c is: its position, and how far its last request is, which
   waits (0), is in the server's hands, or is done with. *)
Position == [start |-> 0, start_recv |-> 10, barrier |-> 20, loop |-> 30,
             probe |-> 40, comm_wait |-> 50, reply |-> 60, shutdown |-> 70,
             finalize |-> 80, done |-> 90, threw |-> 90, failed |-> 90]

Handling == [establish |-> 1, send |-> 2, comm_wait |-> 3, close |-> 4, reply |-> 5]

RequestDone(c) ==
    IF request[c] # NULL THEN 0
    ELSE IF Answering(c) /\ spc \in Serving THEN Handling[spc]
    ELSE 6

Progress(c) == 100 * iter[c] + Position[cpc[c]] + RequestDone(c)

MostProgress == 100 * NumIters + 96

(* Every step takes some client further, or ends the server; none takes a
   client back, and there is an end to it: whatever fails and however the
   programs are configured, no behaviour goes round in a circle. *)
EveryStepCounts ==
    [][/\ \A c \in Clients : Progress(c) <= Progress(c)' /\ Progress(c)' <= MostProgress
       /\ spc \in Final => UNCHANGED spc
       /\ \/ \E c \in Clients : Progress(c) < Progress(c)'
          \/ spc \notin Final /\ spc' \in Final]_vars

-----------------------------------------------------------------------------
(* The inductive invariant.  PeerInv, ClientInv, TransferInv and MemberInv   *)
(* hold whatever fails and however the programs are configured; ControlInv  *)
(* is what matching command lines add.                                      *)

Iterating == {"probe", "comm_wait", "reply"}
Left      == {"shutdown", "finalize", "done"}

(* Where the server is tells what its socket accepts next. *)
ServerSocketMatchesPC ==
    /\ spc \in {"start", "run", "shutdown"} => repSock = "recv"
    /\ spc \in Serving => repSock = "send" /\ repPeer \in Clients
    /\ spc \in Final => repSock = "closed"

(* A client sends nothing but its own rank, tag and address. *)
OwnRequest(c) ==
    request[c] \in {NULL, StartMsg(c), RunMsg(c, get_tag(c), get_address(c)),
                    DisconnectMsg(c)}

PeerInv ==
    /\ ServerSocketMatchesPC
    /\ \A c \in Clients : OwnRequest(c)
    /\ NoStalePeer

(* Where a client is tells what its socket accepts next. *)
ClientSocketMatchesPC(c) ==
    /\ cpc[c] \in {"start", "barrier", "loop"} => reqSock[c] = "send"
    /\ cpc[c] \in Iterating \cup {"start_recv", "shutdown"} => reqSock[c] = "recv"
    /\ cpc[c] \in Final \cup {"finalize"} => reqSock[c] = "closed" /\ reply[c] = NULL

(* Whoever is behind the barrier left everybody in it. *)
BehindBarrier(c) ==
    /\ cpc[c] \in {"loop"} \cup Iterating \cup Left => arrived = Clients
    /\ cpc[c] = "barrier" => c \in arrived

IterMatchesPC(c) ==
    /\ cpc[c] \in {"start", "start_recv", "barrier"} => iter[c] = 0
    /\ cpc[c] \in Iterating => iter[c] < NumIters
    /\ cpc[c] \in Left => iter[c] = NumIters
    /\ iter[c] <= NumIters

ClientInv ==
    \A c \in Clients :
        ClientSocketMatchesPC(c) /\ BehindBarrier(c) /\ IterMatchesPC(c)

(* No transfer of client c has been posted in the iteration it is in. *)
Unserved(c) == served[c] = iter[c] /\ Outstanding(c) = {}

(* The transfer that client c has asked for is not posted yet. *)
Awaiting(c) ==
    cpc[c] \in Iterating \cup Dead /\ Unserved(c) /\ iter[c] < NumIters

(* Where the two sides are tells whether the transfer has been posted and
   whether it has been taken; a client that died stays where it was. *)
TransferMatchesPC(c) ==
    /\ cpc[c] \notin Iterating \cup Dead => Unserved(c)
    /\ (request[c] # NULL /\ request[c].msg_type = 1) => Awaiting(c)
    /\ (repPeer = c /\ spc \in {"establish", "send"}) => Awaiting(c)
    /\ (repPeer = c /\ spc \in {"comm_wait", "close", "reply"}) =>
          cpc[c] \in Iterating \cup Dead /\ served[c] = iter[c] + 1
    /\ cpc[c] = "probe" => recvReq[c] = NULL
    /\ recvReq[c] \notin Posted(c)
    /\ cpc[c] \in {"comm_wait", "reply"} => served[c] = iter[c] + 1
    /\ cpc[c] = "reply" => Outstanding(c) = {}
    /\ reply[c] = "iter_ok" => m_remote_addr # c

TransferInv ==
    /\ OneTransferPerIteration
    /\ \A c \in Clients : TransferMatchesPC(c)

(* Client c has left: it said so after its last iteration, nothing of it is
   under way, and everybody had come. *)
HasLeft(c) ==
    /\ cpc[c] \in Left \cup Dead
    /\ served[c] = NumIters /\ iter[c] = NumIters
    /\ request[c] # NULL => request[c] = DisconnectMsg(c)
    /\ repPeer = c => spc \notin Serving
    /\ arrived = Clients

(* Who is a member: the server leaves its start phase only if every connection
   is a client's, a client enters the barrier only if it has a connection. *)
MemberInv ==
    /\ \A k \in Connections : active[k] => k \in Clients
    /\ spc \notin {"start"} \cup Dead => Connections \subseteq Clients
    /\ arrived \subseteq Connections
    /\ spc \in {"shutdown", "done"} => AllUnactive(active)
    /\ spc \notin {"start"} \cup Dead =>
          \A k \in Connections : ~ active[k] => HasLeft(k)
    /\ \A c \in Clients :
          /\ reply[c] = "ok" => c \in Connections
          /\ (request[c] # NULL /\ request[c].msg_type # 0) => arrived = Clients
          /\ (request[c] # NULL /\ request[c].msg_type = 2) => HasLeft(c)
          /\ (repPeer = c /\ spc \in Serving) => arrived = Clients
          /\ served[c] > 0 => NumConnections = NumClients
          /\ cpc[c] = "reply" \/ iter[c] > 0 => ServerSize = ClientSize

(* The server's view of a client agrees with where the client is. *)
ActiveMatchesPC(c) ==
    /\ cpc[c] = "start" => ~ active[c] /\ spc \in {"start", "failed"}
    /\ cpc[c] \in {"barrier", "loop"} \cup Iterating => active[c]
    /\ (c \in arrived /\ (spc = "start" \/ arrived # Clients)) => active[c]

(* A queued message is the one its sender's position calls for. *)
RequestMatchesPC(c) ==
    request[c] # NULL =>
        \/ /\ request[c] = StartMsg(c)
           /\ cpc[c] \in {"start_recv", "failed"}
           /\ ~ active[c]
           /\ spc \in {"start", "failed"}
        \/ /\ request[c] = RunMsg(c, get_tag(c), get_address(c))
           /\ cpc[c] \in Iterating \cup {"failed"}
           /\ active[c]
           /\ arrived = Clients
        \/ /\ request[c] = DisconnectMsg(c)
           /\ cpc[c] \in Left \cup {"failed"}
           /\ active[c]
           /\ arrived = Clients

(* So is a reply, queued or still to be sent. *)
ReplyMatchesPC(c) ==
    /\ reply[c] = "ok" => cpc[c] = "start_recv" /\ active[c]
    /\ reply[c] = "iter_ok" => cpc[c] \in Iterating
    /\ reply[c] = "disconnect_ok" => cpc[c] = "shutdown"
    /\ (repPeer = c /\ spc \in Serving) => cpc[c] \in Iterating \cup {"failed"}

ControlInv ==
    /\ ProtocolNeverThrows
    /\ spc = "start" => \E k \in Connections : ~ active[k]
    /\ \A c \in Clients :
          ActiveMatchesPC(c) /\ RequestMatchesPC(c) /\ ReplyMatchesPC(c)

(* What is inductive without looking at the data. *)
CoreInv ==
    /\ OneConversation
    /\ PeerInv
    /\ ClientInv
    /\ WellConfigured => ControlInv

(* Every step preserves these invariants: together they rule out that an
   iteration meets the peer or the data of another one, that the server leaves
   a client behind, and that the protocol raises an exception. *)
IInv ==
    /\ CoreInv
    /\ TransferInv
    /\ MemberInv
=============================================================================
