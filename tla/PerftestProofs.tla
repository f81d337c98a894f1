--------------------------- MODULE PerftestProofs ---------------------------
(***************************************************************************)
(* Proofs about the whole system, for any number of clients, connections   *)
(* and iterations, any data sizes, and with or without failures and losses *)
(* (NumConnections, NumIters, Faults, LingerDrops, ForceDiscards, ...).    *)
(* The invariant IInv and its parts are defined in Perftest.               *)
(***************************************************************************)
EXTENDS Perftest, OOBCommProofs

-----------------------------------------------------------------------------
(* What the processes do to the control channel.                           *)

LEMMA MessagesAreMessages ==
    ASSUME NEW c \in Clients
    PROVE  /\ StartMsg(c) \in Message
           /\ RunMsg(c, get_tag(c), get_address(c)) \in Message
           /\ DisconnectMsg(c) \in Message
  BY DEF Message, get_tag, get_address

(* Every step of the system uses the channel as OOBNext allows, so what is
   proved of the channel holds in the system. *)
LEMMA ChannelStep ==
    ASSUME [Next]_vars
    PROVE  [OOBNext]_oobVars
<1>1. ASSUME NEW c \in Clients, ServerStart(c) PROVE OOBNext
  BY <1>1 DEF ServerStart, OOBNext, Reply
<1>2. ASSUME NEW c \in Clients, ServerThrow(c) PROVE OOBNext
  BY <1>2 DEF ServerThrow, OOBNext
<1>3. ASSUME NEW c \in Clients, ServerRequest(c) PROVE OOBNext
  BY <1>3 DEF ServerRequest, OOBNext
<1>4. ASSUME NEW c \in Clients, ServerDisconnect(c) PROVE OOBNext
  BY <1>4 DEF ServerDisconnect, OOBNext, Reply
<1>5. CASE ServerEstablish \/ ServerCommWait \/ ServerClosePeer
  BY <1>5 DEF ServerEstablish, ServerCommWait, ServerClosePeer
<1>6. CASE ServerPost
  BY <1>6 DEF ServerPost, OOBNext
<1>7. CASE ServerReply
  BY <1>7 DEF ServerReply, OOBNext, Reply
<1>8. CASE ServerShutdown \/ ServerFail \/ ServerPeerLost
  BY <1>8 DEF ServerShutdown, ServerFail, ServerPeerLost, ServerDies, OOBNext
<1>9. ASSUME NEW c \in Clients, ClientStep(c) PROVE [OOBNext]_oobVars
  <2>1. CASE ClientStart(c) \/ ClientRequest(c) \/ ClientDisconnect(c)
    BY <2>1, MessagesAreMessages
       DEF ClientStart, ClientRequest, ClientDisconnect, OOBNext
  <2>2. CASE ClientStarted(c) \/ ClientReply(c)
    BY <2>2 DEF ClientStarted, ClientReply, ClientBadReply, OOBNext, Reply
  <2>3. CASE ClientBarrier(c) \/ ClientProbe(c) \/ ClientFinalize(c)
    BY <2>3 DEF ClientBarrier, ClientProbe, ClientFinalize
  <2>4. CASE ClientCommWait(c) \/ ClientShutdown(c)
    BY <2>4 DEF ClientCommWait, ClientShutdown, OOBNext
  <2> QED
    BY <1>9, <2>1, <2>2, <2>3, <2>4 DEF ClientStep
<1>10. ASSUME NEW c \in Clients, ClientFail(c) PROVE [OOBNext]_oobVars
  BY <1>10 DEF ClientFail, OOBNext
<1>11. CASE Terminated \/ UNCHANGED vars
  BY <1>11 DEF Terminated, vars, oobVars
<1> QED
  BY <1>1, <1>2, <1>3, <1>4, <1>5, <1>6, <1>7, <1>8, <1>9, <1>10, <1>11
     DEF Next, ServerStep

-----------------------------------------------------------------------------
(* Types.                                                                  *)

(* What a request asks for is a tag and an address of the right type. *)
LEMMA RequestTypes ==
    ASSUME NEW m \in Message, m.msg_type = 1
    PROVE  m.tag \in Clients /\ base64_decode(m.addr) \in Clients
  BY DEF Message, StartMsg, RunMsg, DisconnectMsg, base64_encode, base64_decode

LEMMA ServerTypeStep ==
    ASSUME TypeOK, ServerStep \/ ServerFail \/ ServerPeerLost
    PROVE  TagTypeOK' /\ spc' \in ServerPC /\ active' \in [Connections -> BOOLEAN]
           /\ UNCHANGED clientVars
<1> USE DEF TypeOK, TagTypeOK, tagVars, ServerPC
<1>1. ASSUME NEW c \in Clients, ServerStart(c) \/ ServerThrow(c) \/ ServerDisconnect(c)
      PROVE  TagTypeOK' /\ spc' \in ServerPC /\ active' \in [Connections -> BOOLEAN]
             /\ UNCHANGED clientVars
  BY <1>1 DEF ServerStart, ServerThrow, ServerDisconnect, NextTurn
<1>2. ASSUME NEW c \in Clients, ServerRequest(c)
      PROVE  TagTypeOK' /\ spc' \in ServerPC /\ active' \in [Connections -> BOOLEAN]
             /\ UNCHANGED clientVars
  <2>1. request[c] \in Message /\ request[c].msg_type = 1
    BY <1>2 DEF OOBTypeOK, ServerRequest
  <2>2. request[c].tag \in Clients /\ base64_decode(request[c].addr) \in Clients
    BY <2>1, RequestTypes
  <2> QED
    BY <1>2, <2>2 DEF ServerRequest, set_tag, set_remote_addr
<1>3. CASE ServerEstablish
  BY <1>3 DEF ServerEstablish, establish_connection
<1>4. CASE ServerPost
  <2>1. CASE m_remote_ep = NULL
    BY <1>4, <2>1 DEF ServerPost
  <2>2. CASE m_remote_ep # NULL
    <3>1. m_remote_ep \in Clients /\ served[m_remote_ep] + 1 \in Nat \ {0}
      BY <2>2
    <3>2. PICK p \in Protocols : sendReq' = p /\
            net' = net \cup {[dst |-> m_remote_ep, tag |-> m_tag, len |-> ServerSize,
                              seq |-> served[m_remote_ep] + 1, proto |-> p]}
      BY <1>4, <2>2 DEF ServerPost, send
    <3>3. net' \subseteq UcxMessage /\ sendReq' \in {"eager", "rndv"}
      BY <3>1, <3>2, TagAssumption DEF UcxMessage
    <3>4. served' \in [Clients -> Nat]
      BY <1>4, <2>2, <3>1 DEF ServerPost, send
    <3> QED
      BY <1>4, <2>2, <3>3, <3>4 DEF ServerPost, send
  <2> QED
    BY <2>1, <2>2
<1>5. CASE ServerCommWait
  BY <1>5 DEF ServerCommWait, send_wait
<1>6. CASE ServerClosePeer
  BY <1>6 DEF ServerClosePeer, close_connection
<1>7. CASE ServerReply \/ ServerShutdown
  BY <1>7 DEF ServerReply, ServerShutdown, NextTurn
<1>8. CASE ServerFail \/ ServerPeerLost
  BY <1>8 DEF ServerFail, ServerPeerLost, ServerDies
<1> QED
  BY <1>1, <1>2, <1>3, <1>4, <1>5, <1>6, <1>7, <1>8 DEF ServerStep

LEMMA ClientTypeStep ==
    ASSUME TypeOK, NEW c \in Clients, ClientStep(c) \/ ClientFail(c)
    PROVE  /\ TagTypeOK' /\ cpc' \in [Clients -> ClientPC]
           /\ iter' \in [Clients -> Nat] /\ arrived' \subseteq Clients
           /\ UNCHANGED serverVars
<1> USE DEF TypeOK, TagTypeOK, tagVars, ClientPC, Goto
<1>1. CASE ClientStart(c) \/ ClientRequest(c) \/ ClientDisconnect(c) \/ ClientShutdown(c)
  BY <1>1 DEF ClientStart, ClientRequest, ClientDisconnect, ClientShutdown
<1>2. CASE ClientStarted(c) \/ ClientReply(c)
  BY <1>2 DEF ClientStarted, ClientReply, ClientBadReply
<1>3. CASE ClientBarrier(c) \/ ClientFinalize(c) \/ ClientFail(c)
  BY <1>3 DEF ClientBarrier, ClientFinalize, ClientFail
<1>4. CASE ClientProbe(c)
  BY <1>4 DEF ClientProbe, recv
<1>5. CASE ClientCommWait(c)
  BY <1>5 DEF ClientCommWait, recv_wait
<1> QED
  BY <1>1, <1>2, <1>3, <1>4, <1>5 DEF ClientStep

LEMMA TypeStep ==
    ASSUME TypeOK, [Next]_vars
    PROVE  TypeOK'
<1>1. OOBTypeOK'
  BY ChannelStep, OOBTypeStep DEF TypeOK
<1>2. CASE ServerStep \/ ServerFail \/ ServerPeerLost
  BY <1>1, <1>2, ServerTypeStep DEF TypeOK, clientVars
<1>3. ASSUME NEW c \in Clients, ClientStep(c) \/ ClientFail(c)
      PROVE  TypeOK'
  BY <1>1, <1>3, ClientTypeStep DEF TypeOK, serverVars
<1>4. CASE Terminated \/ UNCHANGED vars
  BY <1>1, <1>4 DEF Terminated, vars, TypeOK, TagTypeOK, tagVars
<1> QED
  BY <1>2, <1>3, <1>4 DEF Next

LEMMA TypeInitial == Init => TypeOK
<1> SUFFICES ASSUME Init PROVE TypeOK
  OBVIOUS
<1>1. OOBTypeOK
  BY OOBInitial DEF Init
<1>2. 0 \in Clients
  BY BaseAssumption DEF Clients
<1> QED
  BY <1>1, <1>2 DEF Init, TypeOK, TagInit, TagTypeOK, ServerPC, ClientPC

(* Every variable keeps its type. *)
THEOREM TypeCorrect == Spec => []TypeOK
  BY TypeInitial, TypeStep, PTL DEF Spec

(* The two programs together use the channel so that each client has one
   conversation, in one place. *)
THEOREM OneConversationInSystem == Spec => []OneConversation
<1>1. Init => OneConversation
  BY OOBInitial DEF Init
<1>2. TypeOK /\ OneConversation /\ [Next]_vars => OneConversation'
  BY ChannelStep, OneConversationStep DEF TypeOK
<1> QED
  BY <1>1, <1>2, TypeCorrect, PTL DEF Spec

(* Whatever the two programs do, each client and the server have one
   conversation after the other: the channel's implementation of Conversation
   is one in the whole system. *)
THEOREM SystemConverses == Spec => Converses
<1>1. Init => CV!Init /\ PeerKnown
  BY ConversesInitially DEF Init
<1>2. PeerKnown /\ [Next]_vars => PeerKnown'
  BY ChannelStep, PeerKnownStep
<1>3. TypeOK /\ OneConversation /\ PeerKnown /\ [Next]_vars => [CV!Next]_CV!vars
  BY ChannelStep, ConversesStep DEF TypeOK
<1> QED
  BY <1>1, <1>2, <1>3, TypeCorrect, OneConversationInSystem, PTL
     DEF Spec, Converses, CV!Spec

-----------------------------------------------------------------------------
(* The server's peer.                                                      *)

LEMMA PeerInitial == Init => PeerInv
  BY DEF Init, OOBInit, TagInit, PeerInv, ServerSocketMatchesPC, OwnRequest,
         NoStalePeer, Serving, Final

(* A request names its sender's tag and address. *)
LEMMA RequestNamesSender ==
    ASSUME NEW c \in Clients, OwnRequest(c), request[c] # NULL,
           request[c].msg_type = 1
    PROVE  request[c].tag = c /\ base64_decode(request[c].addr) = c
  BY DEF OwnRequest, StartMsg, RunMsg, DisconnectMsg, get_tag, get_address,
         base64_encode, base64_decode

LEMMA PeerServerStep ==
    ASSUME TypeOK, PeerInv, ServerStep \/ ServerFail \/ ServerPeerLost
    PROVE  PeerInv'
<1> USE NullIsNothing
    DEF PeerInv, ServerSocketMatchesPC, OwnRequest, NoStalePeer, Serving, Final,
        tagVars
<1> USE DEF TypeOK, OOBTypeOK, TagTypeOK, NextTurn
<1>1. ASSUME NEW c \in Clients, ServerStart(c) \/ ServerDisconnect(c)
      PROVE  PeerInv'
  BY <1>1 DEF ServerStart, ServerDisconnect, ServerAnswer
<1>2. ASSUME NEW c \in Clients, ServerThrow(c)
      PROVE  PeerInv'
  BY <1>2 DEF ServerThrow, ServerAbandon
<1>3. ASSUME NEW c \in Clients, ServerRequest(c)
      PROVE  PeerInv'
  <2>1. request[c].tag = c /\ base64_decode(request[c].addr) = c
    BY <1>3, RequestNamesSender DEF ServerRequest
  <2> QED
    BY <1>3, <2>1 DEF ServerRequest, ServerRecv, set_remote_addr, set_tag
<1>4. CASE ServerEstablish
  BY <1>4 DEF ServerEstablish, establish_connection, oobVars
<1>5. CASE ServerPost
  BY <1>5 DEF ServerPost, send, ServerClose, oobVars
<1>6. CASE ServerCommWait
  BY <1>6 DEF ServerCommWait, send_wait, oobVars
<1>7. CASE ServerClosePeer
  BY <1>7 DEF ServerClosePeer, close_connection, oobVars
<1>8. CASE ServerReply
  BY <1>8 DEF ServerReply, ServerSend
<1>9. CASE ServerShutdown
  BY <1>9 DEF ServerShutdown, ServerClose
<1>10. CASE ServerFail \/ ServerPeerLost
  BY <1>10 DEF ServerFail, ServerPeerLost, ServerDies, ServerClose
<1> QED
  BY <1>1, <1>2, <1>3, <1>4, <1>5, <1>6, <1>7, <1>8, <1>9, <1>10 DEF ServerStep

LEMMA PeerClientStep ==
    ASSUME TypeOK, PeerInv, NEW c \in Clients, ClientStep(c) \/ ClientFail(c)
    PROVE  PeerInv'
<1> USE NullIsNothing
    DEF PeerInv, ServerSocketMatchesPC, OwnRequest, NoStalePeer, Serving, Final,
        tagVars, serverVars
<1> USE DEF TypeOK, OOBTypeOK, TagTypeOK
<1>1. CASE ClientStart(c) \/ ClientRequest(c) \/ ClientDisconnect(c)
  BY <1>1 DEF ClientStart, ClientRequest, ClientDisconnect, ClientSend
<1>2. CASE ClientStarted(c) \/ ClientReply(c)
  BY <1>2 DEF ClientStarted, ClientReply, ClientBadReply, ClientRecv, ClientClose
<1>3. CASE ClientBarrier(c) \/ ClientFinalize(c)
  BY <1>3 DEF ClientBarrier, ClientFinalize, oobVars
<1>4. CASE ClientShutdown(c) \/ ClientFail(c)
  BY <1>4 DEF ClientShutdown, ClientFail, ClientClose, oobVars
<1>5. CASE ClientProbe(c)
  BY <1>5 DEF ClientProbe, recv, oobVars
<1>6. CASE ClientCommWait(c)
  <2>1. UNCHANGED <<m_remote_addr, m_tag, m_remote_ep>>
        /\ (sendReq = "none" => sendReq' = "none")
    BY <1>6 DEF ClientCommWait, recv_wait
  <2>2. UNCHANGED <<spc, repSock, repPeer>>
    BY <1>6 DEF ClientCommWait, ClientClose, oobVars
  <2>3. \A d \in Clients : request'[d] \in {request[d], NULL}
    BY <1>6 DEF ClientCommWait, ClientClose, oobVars
  <2> QED
    BY <2>1, <2>2, <2>3
<1> QED
  BY <1>1, <1>2, <1>3, <1>4, <1>5, <1>6 DEF ClientStep

LEMMA PeerStep ==
    ASSUME TypeOK, PeerInv, [Next]_vars
    PROVE  PeerInv'
<1>1. CASE Terminated \/ UNCHANGED vars
  BY <1>1 DEF Terminated, vars, oobVars, tagVars, PeerInv,
              ServerSocketMatchesPC, OwnRequest, NoStalePeer
<1> QED
  BY <1>1, PeerServerStep, PeerClientStep DEF Next

(* The server's backend never connects to, or tags for, the client of an
   earlier request, whatever fails and however the programs are configured. *)
THEOREM FreshPeer == Spec => []NoStalePeer
<1>1. PeerInv => NoStalePeer
  BY DEF PeerInv
<1> QED
  BY <1>1, PeerInitial, PeerStep, TypeCorrect, PTL DEF Spec

-----------------------------------------------------------------------------
(* Where a client is, against its socket, the barrier and its iterations.   *)

LEMMA ClientInitial == Init => ClientInv
  BY PerftestAssumption DEF Init, OOBInit, ClientInv, ClientSocketMatchesPC, BehindBarrier,
         IterMatchesPC, Iterating, Left, Final

LEMMA ClientServerStep ==
    ASSUME TypeOK, ClientInv, ServerStep \/ ServerFail \/ ServerPeerLost
    PROVE  ClientInv'
<1>1. UNCHANGED clientVars
  BY ServerTypeStep
<1>2. UNCHANGED reqSock
      /\ \A c \in Clients : reqSock[c] = "closed" => reply'[c] \in {reply[c], NULL}
  <2> USE DEF TypeOK, OOBTypeOK, Delivered
  <2>1. ASSUME NEW c \in Clients, ServerStart(c) \/ ServerDisconnect(c)
        PROVE  <1>2!:
    BY <2>1 DEF ServerStart, ServerDisconnect, ServerAnswer
  <2>2. ASSUME NEW c \in Clients, ServerThrow(c) \/ ServerRequest(c)
        PROVE  <1>2!:
    BY <2>2, RepliesLeft DEF ServerThrow, ServerRequest, ServerAbandon, ServerRecv
  <2>3. CASE ServerEstablish \/ ServerCommWait \/ ServerClosePeer
    BY <2>3 DEF ServerEstablish, ServerCommWait, ServerClosePeer, oobVars
  <2>4. CASE ServerPost \/ ServerShutdown
    BY <2>4, RepliesLeft DEF ServerPost, ServerShutdown, ServerClose, oobVars
  <2>5. CASE ServerReply
    BY <2>5 DEF ServerReply, ServerSend
  <2>6. CASE ServerFail \/ ServerPeerLost
    BY <2>6, RepliesLeft DEF ServerFail, ServerPeerLost, ServerDies, ServerClose
  <2> QED
    BY <2>1, <2>2, <2>3, <2>4, <2>5, <2>6 DEF ServerStep
<1> QED
  BY <1>1, <1>2 DEF ClientInv, ClientSocketMatchesPC, BehindBarrier, IterMatchesPC,
                    clientVars

LEMMA ClientClientStep ==
    ASSUME TypeOK, ClientInv, NEW c \in Clients, ClientStep(c) \/ ClientFail(c)
    PROVE  ClientInv'
<1> USE NullIsNothing, PerftestAssumption
<1> USE DEF ClientInv, ClientSocketMatchesPC, BehindBarrier, IterMatchesPC,
            Iterating, Left, Final, TypeOK, OOBTypeOK, Goto
<1>1. CASE ClientStart(c) \/ ClientRequest(c) \/ ClientDisconnect(c)
  BY <1>1 DEF ClientStart, ClientRequest, ClientDisconnect, ClientSend
<1>2. CASE ClientStarted(c)
  BY <1>2 DEF ClientStarted, ClientBadReply, ClientRecv, ClientClose
<1>3. CASE ClientReply(c)
  BY <1>3 DEF ClientReply, ClientBadReply, ClientRecv, ClientClose
<1>4. CASE ClientBarrier(c) \/ ClientFinalize(c)
  BY <1>4 DEF ClientBarrier, ClientFinalize, oobVars
<1>5. CASE ClientProbe(c) \/ ClientCommWait(c)
  BY <1>5 DEF ClientProbe, ClientCommWait, ClientClose, oobVars
<1>6. CASE ClientShutdown(c) \/ ClientFail(c)
  BY <1>6 DEF ClientShutdown, ClientFail, ClientClose, oobVars
<1> QED
  BY <1>1, <1>2, <1>3, <1>4, <1>5, <1>6 DEF ClientStep

LEMMA ClientInvStep ==
    ASSUME TypeOK, ClientInv, [Next]_vars
    PROVE  ClientInv'
<1>1. CASE Terminated \/ UNCHANGED vars
  BY <1>1 DEF Terminated, vars, oobVars, ClientInv, ClientSocketMatchesPC,
              BehindBarrier, IterMatchesPC
<1> QED
  BY <1>1, ClientServerStep, ClientClientStep DEF Next

-----------------------------------------------------------------------------
(* No exception of the protocol, for matching command lines.               *)

LEMMA MatchingConnections == WellConfigured => Connections = Clients
  BY DEF WellConfigured, Connections, Clients

(* What a receiver can tell of the three messages. *)
LEMMA MessageKinds ==
    ASSUME NEW c \in Clients
    PROVE  /\ StartMsg(c).msg_type = 0 /\ StartMsg(c).rank = c
           /\ RunMsg(c, get_tag(c), get_address(c)).msg_type = 1
           /\ RunMsg(c, get_tag(c), get_address(c)).rank = c
           /\ DisconnectMsg(c).msg_type = 2 /\ DisconnectMsg(c).rank = c
           /\ NULL \notin {StartMsg(c), RunMsg(c, get_tag(c), get_address(c)),
                           DisconnectMsg(c)}
<1>1. NULL \notin {StartMsg(c), RunMsg(c, get_tag(c), get_address(c)),
                   DisconnectMsg(c)}
  BY NullIsNothing, MessagesAreMessages
<1> QED
  BY <1>1 DEF StartMsg, RunMsg, DisconnectMsg

LEMMA ControlInitial == Init /\ WellConfigured => ControlInv
<1> SUFFICES ASSUME Init, WellConfigured PROVE ControlInv
  OBVIOUS
<1>1. 0 \in Connections /\ Connections = Clients
  BY MatchingConnections, BaseAssumption DEF Clients
<1>2. active[0] = FALSE
  BY <1>1 DEF Init
<1> QED
  BY <1>1, <1>2, NullIsNothing
     DEF Init, OOBInit, ControlInv, ProtocolNeverThrows, ActiveMatchesPC, RequestMatchesPC, ReplyMatchesPC,
         Serving, Iterating, Final, Reply

LEMMA ControlServerStep ==
    ASSUME TypeOK, OneConversation, PeerInv, ClientInv, WellConfigured,
           ControlInv,
           ServerStep \/ ServerFail \/ ServerPeerLost
    PROVE  ControlInv'
<1> USE NullIsNothing, MatchingConnections
<1> USE DEF ControlInv, ProtocolNeverThrows, ClientInv, ClientSocketMatchesPC,
            BehindBarrier, Left, ActiveMatchesPC, RequestMatchesPC, ReplyMatchesPC, Serving, Iterating,
            Final, TypeOK, OOBTypeOK, clientVars
<1>1. ASSUME NEW c \in Clients, ServerStart(c)
      PROVE  ControlInv'
  <2>1. request[c] = StartMsg(c) /\ request[c].rank = c
    BY <1>1, MessageKinds DEF ServerStart, ValidStart
  <2>2. active' = [active EXCEPT ![c] = TRUE] /\ ~ active[c]
    BY <1>1, <2>1 DEF ServerStart
  <2> QED
    BY <1>1, <2>1, <2>2, MessageKinds
       DEF ServerStart, ServerAnswer, Delivered, AllActive, OneConversation
<1>2. ASSUME NEW c \in Clients, ServerThrow(c)
      PROVE  ControlInv'
  <2>1. CASE spc = "start"
    <3>1. request[c] = StartMsg(c)
      BY <1>2, <2>1 DEF ServerThrow
    <3> QED
      BY <1>2, <2>1, <3>1, MessageKinds DEF ServerThrow, ValidStart
  <2>2. CASE spc = "run"
    <3>1. active[c] /\ request[c].rank = c /\ request[c].msg_type \in {1, 2}
      BY <1>2, <2>2, MessageKinds DEF ServerThrow
    <3> QED
      BY <1>2, <2>2, <3>1 DEF ServerThrow, ValidRun
  <2> QED
    BY <1>2, <2>1, <2>2 DEF ServerThrow
<1>3. ASSUME NEW c \in Clients, ServerRequest(c)
      PROVE  ControlInv'
  <2>1. request[c] = RunMsg(c, get_tag(c), get_address(c))
    BY <1>3, MessageKinds DEF ServerRequest
  <2> QED
    BY <1>3, <2>1, MessageKinds DEF ServerRequest, ServerRecv
<1>4. ASSUME NEW c \in Clients, ServerDisconnect(c)
      PROVE  ControlInv'
  <2>1. request[c] = DisconnectMsg(c) /\ request[c].rank = c
    BY <1>4, MessageKinds DEF ServerDisconnect
  <2>2. active' = [active EXCEPT ![c] = FALSE]
    BY <1>4, <2>1 DEF ServerDisconnect
  <2> QED
    BY <1>4, <2>1, <2>2, MessageKinds
       DEF ServerDisconnect, ServerAnswer, Delivered, NextTurn, OneConversation
<1>5. CASE ServerEstablish
  BY <1>5 DEF ServerEstablish, oobVars
<1>6. CASE ServerPost
  <2>1. m_remote_ep # NULL
    BY <1>6 DEF ServerPost, PeerInv, NoStalePeer, ServerSocketMatchesPC
  <2> QED
    BY <1>6, <2>1 DEF ServerPost, oobVars
<1>7. CASE ServerCommWait \/ ServerClosePeer
  BY <1>7 DEF ServerCommWait, ServerClosePeer, oobVars
<1>8. CASE ServerReply
  <2>1. repSock = "send" /\ repPeer \in Clients
    BY <1>8 DEF ServerReply, PeerInv, ServerSocketMatchesPC
  <2>2. reply' = Delivered(repPeer, "iter_ok") /\ UNCHANGED request
    BY <1>8, <2>1 DEF ServerReply, ServerSend
  <2>3. cpc[repPeer] \in Iterating \cup {"failed"}
    BY <1>8, <2>1 DEF ServerReply
  <2> QED
    BY <1>8, <2>1, <2>2, <2>3 DEF ServerReply, ServerSend, Delivered, NextTurn
<1>9. CASE ServerShutdown
  <2>1. /\ spc = "shutdown" /\ spc' = "done" /\ UNCHANGED <<active, clientVars, request, repPeer>>
        /\ \A c \in Clients : reply'[c] \in {reply[c], NULL}
    BY <1>9, RepliesLeft DEF ServerShutdown, ServerClose
  <2> QED
    BY <2>1 DEF Reply
<1>10. CASE ServerFail \/ ServerPeerLost
  <2>1. /\ spc' = "failed" /\ UNCHANGED <<active, clientVars, request, repPeer>>
        /\ \A c \in Clients : reply'[c] \in {reply[c], NULL}
    BY <1>10, RepliesLeft DEF ServerFail, ServerPeerLost, ServerDies, ServerClose
  <2> QED
    BY <2>1 DEF Reply
<1> QED
  BY <1>1, <1>2, <1>3, <1>4, <1>5, <1>6, <1>7, <1>8, <1>9, <1>10 DEF ServerStep

LEMMA ControlClientStep ==
    ASSUME TypeOK, OneConversation, PeerInv, ClientInv, WellConfigured,
           ControlInv,
           NEW c \in Clients, ClientStep(c) \/ ClientFail(c)
    PROVE  ControlInv'
<1> USE NullIsNothing, MatchingConnections, MessageKinds
<1> USE DEF ControlInv, ProtocolNeverThrows, ClientInv, ClientSocketMatchesPC,
            BehindBarrier, Left, ActiveMatchesPC, RequestMatchesPC, ReplyMatchesPC, Serving, Iterating,
            Final, TypeOK, OOBTypeOK, OneConversation, Goto, serverVars
<1>1. CASE ClientStart(c)
  BY <1>1 DEF ClientStart, ClientSend
<1>2. CASE ClientStarted(c)
  <2>1. reply[c] \in {NULL, "ok"}
    BY <1>2 DEF ClientStarted, Reply
  <2>2. ClientRecv(c, "ok") /\ Goto(c, "barrier") /\ arrived' = arrived \cup {c}
        /\ UNCHANGED serverVars
    BY <1>2, <2>1 DEF ClientStarted, ClientBadReply
  <2>3. request[c] = NULL /\ active[c]
    BY <2>2 DEF ClientRecv, Reply
  <2> QED
    BY <2>2, <2>3 DEF ClientRecv, Reply
<1>3. CASE ClientBarrier(c) \/ ClientFinalize(c)
  BY <1>3 DEF ClientBarrier, ClientFinalize, oobVars
<1>4. CASE ClientRequest(c)
  BY <1>4 DEF ClientRequest, ClientSend
<1>5. CASE ClientProbe(c)
  BY <1>5 DEF ClientProbe, oobVars
<1>6. CASE ClientCommWait(c)
  <2>1. recvReq[c].len = ClientSize
    BY <1>6 DEF ClientCommWait, recv_wait, TagTypeOK, UcxMessage, WellConfigured
  <2> QED
    BY <1>6, <2>1 DEF ClientCommWait, oobVars
<1>7. CASE ClientReply(c)
  <2>1. reply[c] \in {NULL, "iter_ok"}
    BY <1>7 DEF ClientReply, Reply
  <2>2. ClientRecv(c, "iter_ok") /\ Goto(c, "loop") /\ cpc[c] = "reply"
        /\ UNCHANGED <<arrived, serverVars>>
    BY <1>7, <2>1 DEF ClientReply, ClientBadReply
  <2>3. request[c] = NULL /\ ~ (repPeer = c /\ spc \in Serving)
    BY <2>2 DEF ClientRecv, Reply, PeerInv, ServerSocketMatchesPC, Answering
  <2> QED
    BY <2>2, <2>3 DEF ClientRecv, Reply
<1>8. CASE ClientDisconnect(c)
  BY <1>8 DEF ClientDisconnect, ClientSend
<1>9. CASE ClientShutdown(c) \/ ClientFail(c)
  BY <1>9 DEF ClientShutdown, ClientFail, ClientClose, Reply, oobVars
<1> QED
  BY <1>1, <1>2, <1>3, <1>4, <1>5, <1>6, <1>7, <1>8, <1>9 DEF ClientStep

LEMMA ControlStep ==
    ASSUME TypeOK, OneConversation, PeerInv, ClientInv, WellConfigured,
           ControlInv,
           [Next]_vars
    PROVE  ControlInv'
<1>1. CASE Terminated \/ UNCHANGED vars
  BY <1>1 DEF Terminated, vars, oobVars, tagVars, ControlInv, ProtocolNeverThrows,
              ActiveMatchesPC,
              RequestMatchesPC, ReplyMatchesPC
<1> QED
  BY <1>1, ControlServerStep, ControlClientStep DEF Next

LEMMA CoreStep ==
    ASSUME TypeOK, CoreInv, [Next]_vars
    PROVE  CoreInv'
<1>1. OneConversation' /\ PeerInv' /\ ClientInv'
  BY ChannelStep, OneConversationStep, PeerStep, ClientInvStep DEF CoreInv, TypeOK
<1>2. ASSUME WellConfigured PROVE ControlInv'
  BY <1>2, ControlStep DEF CoreInv
<1>3. WellConfigured' <=> WellConfigured
  BY DEF WellConfigured
<1> QED
  BY <1>1, <1>2, <1>3 DEF CoreInv

(* The part of the inductive invariant that does not look at the data. *)
THEOREM CoreInvariance == Spec => []CoreInv
<1>1. Init => CoreInv
  BY OOBInitial, PeerInitial, ClientInitial, ControlInitial DEF Init, CoreInv
<1> QED
  BY <1>1, CoreStep, TypeCorrect, PTL DEF Spec

(* Matching command lines never meet an exception of the protocol: no message
   of the wrong type, rank or size, no closed connection, no missing endpoint,
   no unexpected reply. *)
THEOREM NoProtocolException == Spec => []ProtocolNeverThrows
<1>1. CoreInv => ProtocolNeverThrows
  BY DEF CoreInv, ControlInv, ProtocolNeverThrows
<1> QED
  BY <1>1, CoreInvariance, PTL

-----------------------------------------------------------------------------
(* Sends in turn.                                                          *)

(* A client that goes on from a send found its socket ready for it. *)
LEMMA ClientSendsInTurn ==
    ASSUME TypeOK, CoreInv, [Next]_vars, NEW c \in Clients,
           cpc[c] \in {"start", "loop"}, cpc'[c] \in {"start_recv", "probe", "shutdown"}
    PROVE  request[c] = NULL /\ request'[c] # NULL
<1>1. reqSock[c] = "send" /\ request[c] = NULL
  BY DEF CoreInv, ClientInv, ClientSocketMatchesPC, OneConversation
<1>2. ASSUME NEW m \in Message, ClientSend(c, m)
      PROVE  request'[c] # NULL
  BY <1>1, <1>2, NullIsNothing DEF ClientSend, TypeOK, OOBTypeOK
<1>3. PICK d \in Clients : ClientStep(d) \/ ClientFail(d)
  <2>1. cpc' # cpc
    OBVIOUS
  <2>2. ~ (ServerStep \/ ServerFail \/ ServerPeerLost)
    BY <2>1, ServerTypeStep DEF clientVars
  <2> QED
    BY <2>1, <2>2 DEF Next, Terminated, vars
<1>4. d = c
  BY <1>3 DEF ClientStep, ClientStart, ClientStarted, ClientBadReply, ClientBarrier,
              ClientRequest, ClientProbe, ClientCommWait, ClientReply, ClientDisconnect,
              ClientShutdown, ClientFinalize, ClientFail, Goto, TypeOK
<1>5. \E m \in Message : ClientSend(c, m)
  BY <1>3, <1>4, MessagesAreMessages
     DEF ClientStep, ClientStart, ClientStarted, ClientBadReply, ClientBarrier,
         ClientRequest, ClientProbe, ClientCommWait, ClientReply, ClientDisconnect,
         ClientShutdown, ClientFinalize, ClientFail, Goto, TypeOK
<1> QED
  BY <1>1, <1>2, <1>5

(* A server that goes on from an acknowledgement sent it to whom it served. *)
LEMMA ServerSendsInTurn ==
    ASSUME TypeOK, CoreInv, [Next]_vars, spc = "reply", spc' \in {"run", "shutdown"}
    PROVE  reply'[repPeer] = "iter_ok" \/ reqSock[repPeer] = "closed"
<1>1. repSock = "send" /\ repPeer \in Clients
  BY DEF CoreInv, PeerInv, ServerSocketMatchesPC, Serving
<1>2. ServerReply
  BY ClientTypeStep
     DEF Next, ServerStep, ServerStart, ServerThrow, ServerRequest, ServerDisconnect,
         ServerEstablish, ServerPost, ServerCommWait, ServerClosePeer, ServerShutdown,
         ServerFail, ServerPeerLost, ServerDies, Terminated, vars, serverVars
<1>3. reply' = Delivered(repPeer, "iter_ok")
  BY <1>1, <1>2 DEF ServerReply, ServerSend
<1> QED
  BY <1>1, <1>3 DEF Delivered, TypeOK, OOBTypeOK

(* OOBComm::send may ignore what ZMQ says of its sends: neither program ever
   sends out of its turn, however it is configured and whatever fails. *)
THEOREM NoSendVanishes == Spec => EverySendIsTaken
<1> DEFINE Taken ==
      /\ \A c \in Clients :
             /\ cpc[c] \in {"start", "loop"}
             /\ cpc'[c] \in {"start_recv", "probe", "shutdown"}
             => request[c] = NULL /\ request'[c] # NULL
      /\ spc = "reply" /\ spc' \in {"run", "shutdown"} =>
             reply'[repPeer] = "iter_ok" \/ reqSock[repPeer] = "closed"
<1>1. TypeOK /\ CoreInv /\ [Next]_vars => [Taken]_vars
  BY ClientSendsInTurn, ServerSendsInTurn
<1> QED
  BY <1>1, CoreInvariance, TypeCorrect, PTL DEF Spec, EverySendIsTaken
=============================================================================
