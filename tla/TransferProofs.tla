--------------------------- MODULE TransferProofs ---------------------------
(***************************************************************************)
(* More proofs about the whole system: which transfer is under way to a    *)
(* client, who takes part, and that the processes implement                *)
(* TransferService.  They rest on what PerftestProofs proves.              *)
(***************************************************************************)
EXTENDS PerftestProofs

-----------------------------------------------------------------------------
(* Transfers and iterations.                                               *)

(* What TransferInv says of one client. *)
TransferOf(c) ==
    /\ served[c] \in {iter[c], iter[c] + 1}
    /\ \A m \in Outstanding(c) :
          m.tag = get_tag(c) /\ m.seq = served[c] /\ m.seq = iter[c] + 1
    /\ \A m, n \in Outstanding(c) : m = n
    /\ reply[c] = "iter_ok" => served[c] = iter[c] + 1
    /\ TransferMatchesPC(c)

LEMMA TransferByClient == TransferInv <=> \A c \in Clients : TransferOf(c)
  BY DEF TransferInv, TransferOf, OneTransferPerIteration

LEMMA TransferInitial == Init => TransferInv
<1> SUFFICES ASSUME Init, NEW c \in Clients PROVE TransferOf(c)
  BY TransferByClient
<1>1. Outstanding(c) = {} /\ Posted(c) = {}
  BY DEF Init, TagInit, Outstanding, Posted
<1> QED
  BY <1>1, NullIsNothing
     DEF Init, OOBInit, TagInit, TransferOf, TransferMatchesPC, Unserved,
         Iterating, Dead, Reply

(* A step that neither posts nor takes keeps TransferOf of a client whose own
   variables it leaves alone. *)
LEMMA TransferUntouched ==
    ASSUME NEW c \in Clients, TransferOf(c),
           Posted(c)' \subseteq Posted(c),
           UNCHANGED <<served[c], iter[c], cpc[c], recvReq[c]>>,
           request'[c] \in {request[c], NULL},
           reply'[c] \in {reply[c], NULL, "ok", "disconnect_ok"},
           m_remote_addr' \in {m_remote_addr, NULL},
           NULL # "iter_ok",
           spc' = spc \/ repPeer' # c \/ spc' \notin Serving
             \/ <<spc, spc'>> \in {<<"establish", "send">>, <<"comm_wait", "close">>,
                                   <<"close", "reply">>},
           repPeer' = repPeer \/ repPeer' # c \/ spc' \notin Serving,
           c # NULL
    PROVE  TransferOf(c)'
<1>1. Outstanding(c)' \subseteq Outstanding(c)
  BY DEF Outstanding
<1> QED
  BY <1>1 DEF TransferOf, TransferMatchesPC, Awaiting, Unserved, Serving, get_tag

LEMMA TransferServerStep ==
    ASSUME TypeOK, OneConversation, PeerInv, TransferInv,
           ServerStep \/ ServerFail \/ ServerPeerLost
    PROVE  TransferInv'
<1> SUFFICES ASSUME NEW d \in Clients PROVE TransferOf(d)'
  BY DEF TransferInv, TransferOf, OneTransferPerIteration
<1>1. TransferOf(d)
  BY TransferByClient
<1>2. UNCHANGED <<iter, cpc>> /\ NULL # "iter_ok" /\ d # NULL
  BY ServerTypeStep, NullIsNothing DEF clientVars, Reply
<1> USE DEF TypeOK, OOBTypeOK, NextTurn, Serving
<1>3. ASSUME NEW c \in Clients, ServerStart(c) \/ ServerDisconnect(c)
      PROVE  TransferOf(d)'
  <2>1. /\ UNCHANGED tagVars /\ spc' \in {"start", "run", "shutdown"}
        /\ request'[d] \in {request[d], NULL}
        /\ reply'[d] \in {reply[d], "ok", "disconnect_ok"}
    BY <1>3 DEF ServerStart, ServerDisconnect, ServerAnswer, Delivered
  <2> QED
    BY <1>1, <1>2, <2>1, TransferUntouched DEF tagVars, Posted
<1>4. ASSUME NEW c \in Clients, ServerThrow(c)
      PROVE  TransferOf(d)'
  BY <1>1, <1>2, <1>4, RepliesLeft, TransferUntouched
     DEF ServerThrow, ServerAbandon, tagVars, Posted
<1>5. ASSUME NEW c \in Clients, ServerRequest(c)
      PROVE  TransferOf(d)'
  <2>1. /\ UNCHANGED <<m_remote_ep, sendReq, net, recvReq, served, reply>>
        /\ spc' = "establish" /\ repPeer' = c /\ request[c] # NULL
        /\ request' = [request EXCEPT ![c] = NULL]
        /\ spc = "run" /\ request[c].msg_type = 1
    BY <1>5 DEF ServerRequest, ServerRecv
  <2>2. UNCHANGED <<Outstanding(d), Posted(d)>>
    BY <2>1 DEF Outstanding, Posted
  <2>3. CASE c = d
    <3>1. reply[c] = NULL
      BY <2>1 DEF OneConversation
    <3> QED
      BY <1>1, <1>2, <2>1, <2>2, <2>3, <3>1
         DEF TransferOf, TransferMatchesPC, Awaiting, Unserved
  <2>4. CASE c # d
    <3>1. m_remote_addr' # d
      <4>1. request[c].tag = c /\ base64_decode(request[c].addr) = c
        BY <1>5, RequestNamesSender DEF ServerRequest, PeerInv
      <4> QED
        BY <1>5, <2>4, <4>1, NullIsNothing DEF ServerRequest, set_remote_addr
    <3> QED
      BY <1>1, <1>2, <2>1, <2>2, <2>4, <3>1
         DEF TransferOf, TransferMatchesPC, Awaiting, Unserved
  <2> QED
    BY <2>3, <2>4
<1>6. CASE ServerEstablish
  BY <1>1, <1>2, <1>6, TransferUntouched
     DEF ServerEstablish, establish_connection, oobVars, Posted
<1>7. CASE ServerPost
  <2>1. /\ m_remote_ep = repPeer /\ m_tag = repPeer /\ repPeer \in Clients
        /\ repSock = "send" /\ spc = "send"
    BY <1>7 DEF ServerPost, PeerInv, NoStalePeer, ServerSocketMatchesPC
  <2>2. /\ send /\ spc' = "comm_wait"
        /\ UNCHANGED <<reqSock, request, reply, repSock, repPeer>>
    BY <1>7, <2>1, NullIsNothing DEF ServerPost, oobVars
  <2>3. PICK p \in Protocols :
          net' = net \cup {[dst |-> m_remote_ep, tag |-> m_tag, len |-> ServerSize,
                            seq |-> served[m_remote_ep] + 1, proto |-> p]}
    BY <2>2 DEF send
  <2>4. /\ served' = [served EXCEPT ![repPeer] = @ + 1]
        /\ UNCHANGED <<recvReq, m_remote_addr>>
    BY <2>1, <2>2 DEF send
  <2>5. served \in [Clients -> Nat] /\ iter \in [Clients -> Nat]
    BY DEF TagTypeOK
  <2>6. CASE d = repPeer
    <3> DEFINE new == [dst |-> d, tag |-> d, len |-> ServerSize,
                       seq |-> served[d] + 1, proto |-> p]
    <3>1. Awaiting(d) /\ request[d] = NULL /\ reply[d] = NULL
      BY <1>1, <2>1, <2>6
         DEF TransferOf, TransferMatchesPC, OneConversation, Answering
    <3>2. /\ Posted(d)' = {new} /\ Outstanding(d)' = {new}
          /\ recvReq[d] = NULL /\ new # NULL
      <4>1. Posted(d) = {} /\ recvReq[d] = NULL
        BY <3>1 DEF Outstanding, Awaiting, Unserved
      <4>2. new # NULL
        BY TagAssumption, <2>5 DEF UcxMessage
      <4> QED
        BY <2>1, <2>3, <2>4, <2>6, <4>1, <4>2 DEF Posted, Outstanding
    <3>3. served'[d] = iter[d] + 1 /\ new.seq = iter[d] + 1 /\ new.tag = d
      BY <2>4, <2>5, <2>6, <3>1 DEF Awaiting, Unserved
    <3> HIDE DEF new
    <3>4. cpc[d] \notin {"comm_wait", "reply"}
      BY <1>1, <2>5, <3>1
         DEF TransferOf, TransferMatchesPC, Awaiting, Unserved
    <3> QED
      BY <1>1, <1>2, <2>2, <2>4, <3>1, <3>2, <3>3, <3>4
         DEF TransferOf, TransferMatchesPC, Awaiting, Unserved, get_tag
  <2>7. CASE d # repPeer
    <3>1. UNCHANGED <<Posted(d), served[d]>>
      BY <2>1, <2>3, <2>4, <2>5, <2>7 DEF Posted
    <3> QED
      BY <1>1, <1>2, <2>2, <2>4, <2>7, <3>1, TransferUntouched
  <2> QED
    BY <2>6, <2>7
<1>8. CASE ServerCommWait
  BY <1>1, <1>2, <1>8, TransferUntouched
     DEF ServerCommWait, send_wait, oobVars, Posted
<1>9. CASE ServerClosePeer
  <2>1. Posted(d)' \subseteq Posted(d)
    BY <1>9 DEF ServerClosePeer, close_connection, Posted
  <2> QED
    BY <1>1, <1>2, <1>9, <2>1, TransferUntouched
       DEF ServerClosePeer, close_connection, oobVars
<1>10. CASE ServerReply
  <2>1. /\ UNCHANGED tagVars /\ UNCHANGED request
        /\ spc = "reply" /\ spc' \in {"run", "shutdown"}
    BY <1>10 DEF ServerReply, ServerSend
  <2>2. reply'[d] = reply[d] \/ (d = repPeer /\ reply'[d] = "iter_ok")
    BY <1>10 DEF ServerReply, ServerSend, Delivered
  <2>3. m_remote_addr = NULL
    BY <1>10 DEF ServerReply, PeerInv, NoStalePeer
  <2>4. UNCHANGED <<Outstanding(d), Posted(d)>>
    BY <2>1 DEF Outstanding, Posted, tagVars
  <2> QED
    BY <1>1, <1>2, <2>1, <2>2, <2>3, <2>4
       DEF tagVars, TransferOf, TransferMatchesPC, Awaiting, Unserved
<1>11. CASE ServerShutdown
  BY <1>1, <1>2, <1>11, RepliesLeft, TransferUntouched
     DEF ServerShutdown, ServerClose, tagVars, Posted
<1>12. CASE ServerFail \/ ServerPeerLost
  BY <1>1, <1>2, <1>12, RepliesLeft, TransferUntouched
     DEF ServerFail, ServerPeerLost, ServerDies, ServerClose, Posted
<1> QED
  BY <1>3, <1>4, <1>5, <1>6, <1>7, <1>8, <1>9, <1>10, <1>11, <1>12 DEF ServerStep

LEMMA TransferClientStep ==
    ASSUME TypeOK, OneConversation, PeerInv, ClientInv, TransferInv,
           NEW c \in Clients, ClientStep(c) \/ ClientFail(c)
    PROVE  TransferInv'
<1> SUFFICES ASSUME NEW d \in Clients PROVE TransferOf(d)'
  BY DEF TransferInv, TransferOf, OneTransferPerIteration
<1>1. TransferOf(d) /\ TransferOf(c)
  BY TransferByClient
<1>2. UNCHANGED serverVars /\ NULL # "iter_ok" /\ d # NULL
  BY ClientTypeStep, NullIsNothing DEF Reply
<1>3. UNCHANGED <<repSock, repPeer>>
  BY DEF ClientStep, ClientStart, ClientStarted, ClientBadReply, ClientBarrier,
         ClientRequest, ClientProbe, ClientCommWait, ClientReply, ClientDisconnect,
         ClientShutdown, ClientFinalize, ClientFail, ClientSend, ClientRecv,
         ClientClose, oobVars
<1>4. served \in [Clients -> Nat] /\ iter \in [Clients -> Nat]
      /\ net \subseteq UcxMessage /\ recvReq \in [Clients -> UcxMessage \cup {NULL}]
      /\ NULL \notin UcxMessage
  BY TagAssumption DEF TypeOK, TagTypeOK
<1> USE DEF TypeOK, OOBTypeOK, Goto, serverVars
<1>5. ASSUME c # d PROVE TransferOf(d)'
  <2>1. UNCHANGED <<cpc[d], iter[d], served[d], recvReq[d], request[d], reply[d]>>
    BY <1>4, <1>5
       DEF ClientStep, ClientStart, ClientStarted, ClientBadReply, ClientBarrier,
           ClientRequest, ClientProbe, ClientCommWait, ClientReply, ClientDisconnect,
           ClientShutdown, ClientFinalize, ClientFail, ClientSend, ClientRecv,
           ClientClose, oobVars, tagVars, recv, recv_wait
  <2>2. UNCHANGED m_remote_addr /\ Posted(d)' \subseteq Posted(d)
    BY <1>4, <1>5, <2>1
       DEF ClientStep, ClientStart, ClientStarted, ClientBadReply, ClientBarrier,
           ClientRequest, ClientProbe, ClientCommWait, ClientReply, ClientDisconnect,
           ClientShutdown, ClientFinalize, ClientFail, tagVars, recv, recv_wait,
           Posted
  <2> QED
    BY <1>1, <1>2, <1>3, <2>1, <2>2, TransferUntouched
<1>6. ASSUME c = d PROVE TransferOf(c)'
  <2> USE DEF TransferOf, TransferMatchesPC, Awaiting, Unserved, Iterating, Dead
  <2>1. ASSUME UNCHANGED tagVars
        PROVE  UNCHANGED <<Posted(c), Outstanding(c), served[c], recvReq[c],
                           m_remote_addr>>
    BY <2>1 DEF tagVars, Posted, Outstanding
  <2>2. CASE ClientStart(c) \/ ClientDisconnect(c)
    BY <1>1, <1>2, <1>3, <2>1, <2>2, MessageKinds
       DEF ClientStart, ClientDisconnect, ClientSend
  <2>3. CASE ClientStarted(c)
    BY <1>1, <1>2, <1>3, <2>1, <2>3
       DEF ClientStarted, ClientBadReply, ClientRecv, ClientClose
  <2>4. CASE ClientBarrier(c) \/ ClientFinalize(c)
    BY <1>1, <1>2, <1>3, <2>1, <2>4 DEF ClientBarrier, ClientFinalize, oobVars
  <2>5. CASE ClientRequest(c)
    <3>1. recvReq[c] = NULL /\ Unserved(c) /\ iter[c] < NumIters
      BY <1>1, <2>5 DEF ClientRequest, Outstanding
    <3>2. reply' = reply /\ cpc'[c] = "probe" /\ UNCHANGED iter
      BY <2>5 DEF ClientRequest, ClientSend
    <3> QED
      BY <1>1, <1>2, <1>3, <2>1, <2>5, <3>1, <3>2 DEF ClientRequest
  <2>6. CASE ClientProbe(c)
    <3>1. PICK m \in net : /\ m.dst = c /\ m.tag = c
                           /\ net' = net \ {m}
                           /\ recvReq' = [recvReq EXCEPT ![c] = m]
      BY <2>6 DEF ClientProbe, recv, get_tag, get_address
    <3>2. recvReq[c] = NULL /\ cpc[c] = "probe" /\ cpc'[c] = "comm_wait"
      BY <1>1, <2>6 DEF ClientProbe
    <3>3. m \in Outstanding(c) /\ UNCHANGED <<served, iter, m_remote_addr>>
      BY <2>6, <3>1 DEF ClientProbe, recv, Outstanding, Posted
    <3>4. Outstanding(c)' \subseteq Outstanding(c) /\ recvReq'[c] \notin Posted(c)'
      BY <1>4, <3>1, <3>3 DEF Outstanding, Posted
    <3>5. served[c] = iter[c] + 1 /\ ~ Unserved(c)
      BY <1>1, <3>3
    <3> QED
      BY <1>1, <1>2, <1>3, <2>6, <3>2, <3>3, <3>4, <3>5
         DEF ClientProbe, oobVars, get_tag
  <2>7. CASE ClientCommWait(c)
    <3>1. /\ recvReq[c] # NULL /\ UNCHANGED <<net, served, iter, m_remote_addr>>
          /\ recvReq' = [recvReq EXCEPT ![c] = NULL]
          /\ cpc[c] = "comm_wait" /\ cpc'[c] \in {"reply", "threw"}
          /\ request'[c] \in {request[c], NULL} /\ reply'[c] \in {reply[c], NULL}
      BY <2>7 DEF ClientCommWait, recv_wait, ClientClose, oobVars
    <3>2. recvReq[c] \in Outstanding(c)
      BY <3>1 DEF Outstanding
    <3>3. served[c] = iter[c] + 1 /\ ~ Unserved(c)
      BY <1>1, <3>2
    <3>4. Posted(c) = {}
      BY <1>1, <3>2 DEF Outstanding
    <3>5. Posted(c)' = {} /\ Outstanding(c)' = {}
      BY <1>4, <3>1, <3>4 DEF Outstanding, Posted
    <3> QED
      BY <1>1, <1>2, <1>3, <1>4, <3>1, <3>3, <3>5
  <2>8. CASE ClientReply(c)
    <3>1. CASE reply[c] = "iter_ok"
      <4>1. /\ iter' = [iter EXCEPT ![c] = @ + 1] /\ UNCHANGED request
            /\ cpc[c] = "reply" /\ cpc'[c] = "loop" /\ reply'[c] = NULL
            /\ UNCHANGED tagVars
        BY <2>8, <3>1, <1>2 DEF ClientReply, ClientRecv
      <4>2. request[c] = NULL /\ ~ (repPeer = c /\ spc \in Serving)
        BY <3>1, <1>2 DEF OneConversation, Answering, PeerInv, ServerSocketMatchesPC
      <4> QED
        BY <1>1, <1>2, <1>3, <1>4, <2>1, <3>1, <4>1, <4>2 DEF Serving
    <3>2. CASE reply[c] # "iter_ok"
      BY <1>1, <1>2, <1>3, <2>1, <2>8, <3>2 DEF ClientReply, ClientBadReply, ClientClose
    <3> QED
      BY <3>1, <3>2
  <2>9. CASE ClientShutdown(c) \/ ClientFail(c)
    BY <1>1, <1>2, <1>3, <2>1, <2>9 DEF ClientShutdown, ClientFail, ClientClose, oobVars
  <2> QED
    BY <2>2, <2>3, <2>4, <2>5, <2>6, <2>7, <2>8, <2>9 DEF ClientStep
<1> QED
  BY <1>5, <1>6

LEMMA TransferStep ==
    ASSUME TypeOK, OneConversation, PeerInv, ClientInv, TransferInv, [Next]_vars
    PROVE  TransferInv'
<1>1. CASE Terminated \/ UNCHANGED vars
  BY <1>1 DEF Terminated, vars, oobVars, tagVars, TransferInv,
              OneTransferPerIteration, TransferMatchesPC, Awaiting, Unserved,
              Outstanding, Posted
<1> QED
  BY <1>1, TransferServerStep, TransferClientStep DEF Next

-----------------------------------------------------------------------------
(* Members.                                                                *)

LEMMA MemberInitial == Init => MemberInv
  BY NullIsNothing DEF Init, OOBInit, TagInit, MemberInv, Serving, Dead, Reply

(* The numbers agree when the ranks do. *)
LEMMA SameRanks ==
    ASSUME Clients \subseteq Connections, Connections \subseteq Clients
    PROVE  NumConnections = NumClients
<1>1. NumClients - 1 \in Clients /\ NumConnections - 1 \in Connections
  BY BaseAssumption, PerftestAssumption DEF Clients, Connections
<1>2. NumClients - 1 \in Connections /\ NumConnections - 1 \in Clients
  BY <1>1
<1> QED
  BY <1>2, BaseAssumption, PerftestAssumption DEF Clients, Connections

LEMMA MemberServerStep ==
    ASSUME TypeOK, OneConversation, PeerInv, MemberInv,
           ServerStep \/ ServerFail \/ ServerPeerLost
    PROVE  MemberInv'
<1>1. UNCHANGED clientVars
  BY ServerTypeStep
<1>2. NULL \notin {"ok", "iter_ok", "disconnect_ok"}
  BY NullIsNothing DEF Reply
<1> USE NullIsNothing, MessageKinds
<1> USE DEF MemberInv, HasLeft, Serving, Left, Dead, TypeOK, OOBTypeOK, NextTurn,
            clientVars, tagVars
<1>3. ASSUME NEW c \in Clients, ServerStart(c)
      PROVE  MemberInv'
  <2>1. request[c] = StartMsg(c) /\ request[c].rank = c /\ c \in Connections
    BY <1>3 DEF ServerStart, ValidStart, PeerInv, OwnRequest
  <2>2. active' = [active EXCEPT ![c] = TRUE] /\ spc' \in {"start", "run"}
        /\ (spc' = "run" => \A k \in Connections : active'[k])
    BY <1>3, <2>1 DEF ServerStart, AllActive
  <2> QED
    BY <1>1, <1>3, <2>1, <2>2 DEF ServerStart, ServerAnswer, Delivered
<1>4. ASSUME NEW c \in Clients, ServerThrow(c)
      PROVE  MemberInv'
  <2>1. /\ spc' = "threw" /\ UNCHANGED <<active, tagVars>>
        /\ request' = [request EXCEPT ![c] = NULL]
        /\ \A d \in Clients : reply'[d] \in {reply[d], NULL}
    BY <1>4, RepliesLeft DEF ServerThrow, ServerAbandon
  <2> QED
    BY <1>1, <1>2, <2>1
<1>5. ASSUME NEW c \in Clients, ServerRequest(c)
      PROVE  MemberInv'
  <2>1. request[c] = RunMsg(c, get_tag(c), get_address(c)) /\ request[c].rank = c
    BY <1>5 DEF ServerRequest, PeerInv, OwnRequest
  <2>2. active[c] /\ c \in Connections /\ arrived = Clients
    BY <1>5, <2>1 DEF ServerRequest, ValidRun
  <2> QED
    BY <1>1, <1>5, <2>1, <2>2 DEF ServerRequest, ServerRecv
<1>6. ASSUME NEW c \in Clients, ServerDisconnect(c)
      PROVE  MemberInv'
  <2>1. request[c] = DisconnectMsg(c) /\ request[c].rank = c
    BY <1>6 DEF ServerDisconnect, PeerInv, OwnRequest
  <2>2. active' = [active EXCEPT ![c] = FALSE] /\ HasLeft(c)
    BY <1>6, <2>1 DEF ServerDisconnect
  <2> QED
    BY <1>1, <1>2, <1>6, <2>1, <2>2
       DEF ServerDisconnect, ServerAnswer, Delivered, AllUnactive
<1>7. CASE ServerEstablish \/ ServerCommWait \/ ServerClosePeer
  BY <1>1, <1>7 DEF ServerEstablish, ServerCommWait, ServerClosePeer, oobVars,
                    establish_connection, send_wait, close_connection
<1>8. CASE ServerPost
  <2>1. /\ m_remote_ep = repPeer /\ repPeer \in Clients /\ spc = "send"
        /\ m_remote_ep # NULL
    BY <1>8 DEF ServerPost, PeerInv, NoStalePeer, ServerSocketMatchesPC
  <2>2. /\ served' = [served EXCEPT ![repPeer] = @ + 1] /\ spc' = "comm_wait"
        /\ UNCHANGED <<active, request, reply, repPeer>>
    BY <1>8, <2>1 DEF ServerPost, send, oobVars
  <2>3. NumConnections = NumClients
    BY <2>1, SameRanks
  <2>4. ~ HasLeft(repPeer)
    BY <2>1
  <2> QED
    BY <1>1, <2>1, <2>2, <2>3, <2>4 DEF TagTypeOK
<1>9. CASE ServerReply
  BY <1>1, <1>2, <1>9
     DEF ServerReply, ServerSend, Delivered, AllUnactive, PeerInv,
         ServerSocketMatchesPC
<1>10. CASE ServerShutdown
  <2>1. /\ spc = "shutdown" /\ spc' = "done" /\ UNCHANGED <<active, request, repPeer, tagVars>>
        /\ \A d \in Clients : reply'[d] \in {reply[d], NULL}
    BY <1>10, RepliesLeft DEF ServerShutdown, ServerClose
  <2> QED
    BY <1>1, <1>2, <2>1
<1>11. CASE ServerFail \/ ServerPeerLost
  <2>1. /\ spc' = "failed" /\ UNCHANGED <<active, request, repPeer, served>>
        /\ \A d \in Clients : reply'[d] \in {reply[d], NULL}
    BY <1>11, RepliesLeft DEF ServerFail, ServerPeerLost, ServerDies, ServerClose
  <2> QED
    BY <1>1, <1>2, <2>1
<1> QED
  BY <1>3, <1>4, <1>5, <1>6, <1>7, <1>8, <1>9, <1>10, <1>11 DEF ServerStep

LEMMA MemberClientStep ==
    ASSUME TypeOK, OneConversation, PeerInv, ClientInv, TransferInv, MemberInv,
           NEW c \in Clients, ClientStep(c) \/ ClientFail(c)
    PROVE  MemberInv'
<1>1. UNCHANGED serverVars
  BY ClientTypeStep
<1>2. NULL \notin {"ok", "iter_ok", "disconnect_ok"}
  BY NullIsNothing DEF Reply
<1> USE NullIsNothing, MessageKinds
<1> USE DEF MemberInv, HasLeft, Left, Dead, TypeOK, OOBTypeOK, serverVars, Goto
<1>3. CASE ClientStart(c)
  BY <1>1, <1>3 DEF ClientStart, ClientSend, tagVars
<1>4. CASE ClientStarted(c)
  <2>1. UNCHANGED <<served, iter, repPeer>> /\ cpc[c] = "start_recv"
        /\ cpc' \in {[cpc EXCEPT ![c] = "barrier"], [cpc EXCEPT ![c] = "threw"]}
        /\ \A d \in Clients : /\ request'[d] \in {request[d], NULL}
                              /\ reply'[d] \in {reply[d], NULL}
    BY <1>4 DEF ClientStarted, ClientBadReply, ClientRecv, ClientClose, tagVars
  <2>2. arrived' = arrived \/ (arrived' = arrived \cup {c} /\ c \in Connections)
    <3>1. CASE reply[c] = "ok"
      BY <1>4, <3>1 DEF ClientStarted
    <3>2. CASE reply[c] # "ok"
      BY <1>4, <3>2 DEF ClientStarted, ClientBadReply
    <3> QED
      BY <3>1, <3>2
  <2>3. arrived' \subseteq Connections
    BY <2>2
  <2>4. arrived = Clients => arrived' = Clients
    <3> HIDE DEF HasLeft, MemberInv
    <3> QED
      BY <2>2
  <2> QED
    BY <1>1, <1>2, <2>1, <2>3, <2>4
<1>5. CASE ClientBarrier(c) \/ ClientFinalize(c)
  BY <1>1, <1>5 DEF ClientBarrier, ClientFinalize, oobVars, tagVars
<1>6. CASE ClientRequest(c)
  <2>1. arrived = Clients
    BY <1>6 DEF ClientRequest, ClientInv, BehindBarrier
  <2> QED
    BY <1>1, <1>6, <2>1 DEF ClientRequest, ClientSend, tagVars
<1>7. CASE ClientProbe(c)
  BY <1>1, <1>7 DEF ClientProbe, recv, oobVars
<1>8. CASE ClientCommWait(c)
  <2>1. recvReq[c].len = ServerSize
    BY <1>8 DEF ClientCommWait, recv_wait, TagTypeOK, UcxMessage
  <2>2. /\ UNCHANGED <<served, iter, repPeer, arrived>> /\ cpc[c] = "comm_wait"
        /\ \/ cpc' = [cpc EXCEPT ![c] = "reply"] /\ ServerSize = ClientSize
           \/ cpc' = [cpc EXCEPT ![c] = "threw"]
        /\ \A d \in Clients : /\ request'[d] \in {request[d], NULL}
                              /\ reply'[d] \in {reply[d], NULL}
    BY <1>8, <2>1 DEF ClientCommWait, ClientClose, recv_wait, oobVars
  <2> QED
    BY <1>1, <1>2, <2>2
<1>9. CASE ClientReply(c)
  <2>1. /\ UNCHANGED <<served, repPeer, arrived>> /\ cpc[c] = "reply"
        /\ cpc' \in {[cpc EXCEPT ![c] = "loop"], [cpc EXCEPT ![c] = "threw"]}
        /\ iter' \in {iter, [iter EXCEPT ![c] = @ + 1]}
        /\ \A d \in Clients : /\ request'[d] \in {request[d], NULL}
                              /\ reply'[d] \in {reply[d], NULL}
    BY <1>9 DEF ClientReply, ClientBadReply, ClientRecv, ClientClose, tagVars
  <2> QED
    BY <1>1, <1>2, <2>1
<1>10. CASE ClientDisconnect(c)
  <2>1. /\ reqSock[c] = "send" /\ arrived = Clients /\ iter[c] = NumIters
    <3>1. iter[c] \in Nat /\ iter[c] <= NumIters /\ iter[c] >= NumIters
      BY <1>10 DEF ClientDisconnect, ClientInv, IterMatchesPC
    <3>2. iter[c] = NumIters
      <4> HIDE DEF MemberInv, HasLeft, TypeOK, OOBTypeOK
      <4> QED
        BY <3>1, PerftestAssumption
    <3> QED
      BY <1>10, <3>2 DEF ClientDisconnect, ClientInv, ClientSocketMatchesPC, BehindBarrier
  <2>2. served[c] = NumIters
    BY <1>10, <2>1
       DEF ClientDisconnect, TransferInv, TransferMatchesPC, Unserved, Iterating
  <2>3. repPeer = c => spc \notin Serving
    BY <2>1 DEF OneConversation, Answering, PeerInv, ServerSocketMatchesPC
  <2> QED
    BY <1>1, <1>10, <2>1, <2>2, <2>3 DEF ClientDisconnect, ClientSend, tagVars
<1>11. CASE ClientShutdown(c) \/ ClientFail(c)
  BY <1>1, <1>2, <1>11 DEF ClientShutdown, ClientFail, ClientClose, oobVars, tagVars
<1> QED
  BY <1>3, <1>4, <1>5, <1>6, <1>7, <1>8, <1>9, <1>10, <1>11 DEF ClientStep

LEMMA MemberStep ==
    ASSUME TypeOK, OneConversation, PeerInv, ClientInv, TransferInv, MemberInv,
           [Next]_vars
    PROVE  MemberInv'
<1>1. CASE Terminated \/ UNCHANGED vars
  BY <1>1 DEF Terminated, vars, oobVars, tagVars, MemberInv, HasLeft
<1> QED
  BY <1>1, MemberServerStep, MemberClientStep DEF Next

(* The inductive invariant, for any constants. *)
THEOREM Invariance == Spec => []IInv
<1>1. Init => TransferInv /\ MemberInv
  BY TransferInitial, MemberInitial
<1>2. TypeOK /\ CoreInv /\ TransferInv /\ MemberInv /\ [Next]_vars
         => (TransferInv /\ MemberInv)'
  BY TransferStep, MemberStep DEF CoreInv
<1>3. CoreInv /\ TransferInv /\ MemberInv => IInv
  BY DEF IInv
<1> QED
  BY <1>1, <1>2, <1>3, CoreInvariance, TypeCorrect, PTL DEF Spec

(* Whatever fails, is lost or is misconfigured, what is under way to a client
   is the one transfer of its current iteration, and the acknowledgement does
   not overtake it. *)
THEOREM OneTransfer == Spec => []OneTransferPerIteration
<1>1. IInv => OneTransferPerIteration
  BY DEF IInv, TransferInv
<1> QED
  BY <1>1, Invariance, PTL

-----------------------------------------------------------------------------
(* What follows for the end of a run.                                      *)

LEMMA RankZero == 0 \in Clients /\ 0 \in Connections
  BY BaseAssumption, PerftestAssumption DEF Clients, Connections

(* A server that has left its loop served exactly the clients there are. *)
LEMMA EndedServer ==
    ASSUME MemberInv, spc \in {"shutdown", "done"}
    PROVE  NumConnections = NumClients /\ \A c \in Clients : HasLeft(c)
<1>1. Connections \subseteq Clients /\ \A k \in Connections : HasLeft(k)
  BY DEF MemberInv, AllUnactive, Dead
<1>2. Clients \subseteq Connections
  BY <1>1, RankZero DEF MemberInv, HasLeft
<1> QED
  BY <1>1, <1>2, SameRanks

(* A server that reports its end has served every client to the last
   iteration, however it is configured and whatever fails. *)
THEOREM EndMeansServed == Spec => []DoneMeansAllServed
<1>1. IInv => DoneMeansAllServed
  BY EndedServer DEF IInv, DoneMeansAllServed, HasLeft
<1> QED
  BY <1>1, Invariance, PTL

(* With other numbers of connections than clients, or other sizes on the two
   sides, no iteration is ever completed and no end is reported. *)
THEOREM MisconfigurationIsInert == Spec => []MisconfiguredMovesNothing
<1>1. ASSUME TypeOK, IInv, ~ WellConfigured, NEW c \in Clients
      PROVE  iter[c] = 0
  <2> SUFFICES ASSUME iter[c] # 0 PROVE FALSE
    OBVIOUS
  <2>1. iter[c] \in Nat /\ served[c] \in Nat
    BY <1>1 DEF TypeOK, TagTypeOK
  <2>2. iter[c] > 0 /\ served[c] > 0
    <3>1. served[c] \in {iter[c], iter[c] + 1}
      BY <1>1 DEF IInv, TransferInv, OneTransferPerIteration
    <3> QED
      BY <2>1, <3>1
  <2> QED
    BY <1>1, <2>2 DEF IInv, MemberInv, WellConfigured
<1>2. ASSUME TypeOK, IInv, ~ WellConfigured, spc = "done"
      PROVE  NumConnections = NumClients /\ NumIters = 0
  <2>1. NumConnections = NumClients /\ HasLeft(0)
    BY <1>2, EndedServer, RankZero DEF IInv
  <2> QED
    BY <1>1, <1>2, <2>1, RankZero DEF HasLeft
<1>3. TypeOK /\ IInv => MisconfiguredMovesNothing
  BY <1>1, <1>2 DEF MisconfiguredMovesNothing
<1> QED
  BY <1>3, Invariance, TypeCorrect, PTL

(* Only a client's own farewell, after its last iteration, closes its
   connection. *)
LEMMA ClosingStep ==
    ASSUME TypeOK, IInv, [Next]_vars, NEW k \in Connections,
           active[k], ~ active'[k]
    PROVE  k \in Clients /\ iter[k] = NumIters /\ request[k] = DisconnectMsg(k)
<1>1. PICK c \in Clients : ServerDisconnect(c)
  <2>1. ASSUME NEW c \in Clients, ServerStart(c) PROVE FALSE
    BY <2>1 DEF ServerStart, TypeOK
  <2>2. ASSUME UNCHANGED active PROVE FALSE
    BY <2>2
  <2>3. ASSUME NEW c \in Clients, ClientStep(c) \/ ClientFail(c) PROVE FALSE
    BY <2>2, <2>3, ClientTypeStep DEF serverVars
  <2> QED
    BY <2>1, <2>2, <2>3
       DEF Next, ServerStep, ServerThrow, ServerRequest, ServerEstablish, ServerPost,
           ServerCommWait, ServerClosePeer, ServerReply, ServerShutdown, ServerFail,
           ServerPeerLost, ServerDies, Terminated, vars
<1>2. request[c] = DisconnectMsg(c) /\ request[c].rank = c /\ request[c] # NULL
  BY <1>1, MessageKinds DEF ServerDisconnect, IInv, CoreInv, PeerInv, OwnRequest
<1>3. k = c
  BY <1>1, <1>2 DEF ServerDisconnect, TypeOK
<1>4. HasLeft(c)
  BY <1>2, MessageKinds DEF IInv, MemberInv
<1> QED
  BY <1>2, <1>3, <1>4 DEF HasLeft

THEOREM ConnectionsAreTheirClients == Spec => ClosedByItsClient
<1> DEFINE Closing == \A k \in Connections : active[k] /\ ~ active'[k] =>
              k \in Clients /\ iter[k] = NumIters /\ request[k] = DisconnectMsg(k)
<1>1. TypeOK /\ IInv /\ [Next]_vars => [Closing]_vars
  BY ClosingStep
<1> QED
  BY <1>1, Invariance, TypeCorrect, PTL DEF Spec, ClosedByItsClient
=============================================================================
