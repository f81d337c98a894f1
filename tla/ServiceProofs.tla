--------------------------- MODULE ServiceProofs ---------------------------
(***************************************************************************)
(* The processes implement TransferService, for command lines that match;  *)
(* and the message that a client waits for is on its way.                  *)
(***************************************************************************)
EXTENDS TransferProofs

-----------------------------------------------------------------------------
(* The mapping of Perftest, client by client.                              *)

StatusOf(c) == IF active[c] THEN "joined"
               ELSE IF arrived = Clients THEN "left" ELSE "new"
AckedOf(c)  == IF Served = c THEN iter[c] ELSE served[c]

(* Nothing of client c changes for the service. *)
Same(c) == UNCHANGED <<StatusOf(c), AckedOf(c)>>

LEMMA MapStutter ==
    ASSUME UNCHANGED <<Served, iter, spc = "done">>, \A c \in Clients : Same(c)
    PROVE  UNCHANGED TS!vars
  BY DEF TS!vars, Same, StatusOf, AckedOf

LEMMA MapJoin ==
    ASSUME NEW c \in Clients, UNCHANGED <<Served, iter, spc = "done">>,
           \A d \in Clients : UNCHANGED AckedOf(d),
           StatusOf(c) = "new", StatusOf(c)' = "joined",
           \A d \in Clients : d # c => UNCHANGED StatusOf(d)
    PROVE  TS!Join(c)
  BY DEF TS!Join, StatusOf, AckedOf

LEMMA MapBegin ==
    ASSUME NEW c \in Clients, UNCHANGED <<iter, spc = "done">>,
           \A d \in Clients : Same(d), arrived = Clients, active[c],
           Served = NULL, Served' = c, AckedOf(c) = iter[c], iter[c] < NumIters
    PROVE  TS!Begin(c)
  BY DEF TS!Begin, Same, StatusOf, AckedOf

LEMMA MapFinish ==
    ASSUME NEW c \in Clients, UNCHANGED <<iter, spc = "done">>,
           \A d \in Clients : UNCHANGED StatusOf(d),
           \A d \in Clients : d # c => UNCHANGED AckedOf(d),
           AckedOf(c)' = AckedOf(c) + 1, Served = c, Served' = NULL
    PROVE  TS!Finish(c)
  BY DEF TS!Finish, StatusOf, AckedOf

LEMMA MapTake ==
    ASSUME NEW c \in Clients, UNCHANGED <<Served, spc = "done">>,
           \A d \in Clients : Same(d),
           iter[c] < AckedOf(c), iter' = [iter EXCEPT ![c] = @ + 1]
    PROVE  TS!Take(c)
  BY DEF TS!Take, Same, StatusOf, AckedOf

LEMMA MapLeave ==
    ASSUME NEW c \in Clients, UNCHANGED <<Served, iter, spc = "done", arrived>>,
           \A d \in Clients : UNCHANGED AckedOf(d),
           Served = NULL, arrived = Clients, active[c], ~ active'[c],
           iter[c] = NumIters,
           \A d \in Clients : d # c => UNCHANGED StatusOf(d)
    PROVE  TS!Leave(c)
  BY DEF TS!Leave, StatusOf, AckedOf

LEMMA MapClose ==
    ASSUME UNCHANGED <<Served, iter>>, \A d \in Clients : Same(d),
           arrived = Clients, \A d \in Clients : ~ active[d],
           spc # "done", spc' = "done"
    PROVE  TS!Close
  BY DEF TS!Close, Same, StatusOf, AckedOf

-----------------------------------------------------------------------------
(* Every step is a step of the service or does not change it.              *)

LEMMA ServiceServerStep ==
    ASSUME TypeOK, IInv, WellConfigured, ServerStep \/ ServerFail \/ ServerPeerLost
    PROVE  TS!Next \/ UNCHANGED TS!vars
<1>1. UNCHANGED <<iter, arrived, cpc>>
  BY ServerTypeStep DEF clientVars
<1>2. /\ OneConversation /\ PeerInv /\ ControlInv /\ TransferInv /\ MemberInv
      /\ Connections = Clients /\ TagTypeOK /\ active \in [Clients -> BOOLEAN]
      /\ \A c \in Clients : TransferMatchesPC(c)
  BY MatchingConnections DEF IInv, CoreInv, TypeOK, TransferInv
<1> USE NullIsNothing
<1>3. ASSUME NEW c \in Clients, ServerStart(c)
      PROVE  TS!Join(c)
  <2>0. request[c] = StartMsg(c) /\ request[c].rank = c
    BY <1>2, <1>3, MessageKinds DEF ServerStart, ValidStart, PeerInv, OwnRequest
  <2>1. /\ request[c] = StartMsg(c)
        /\ spc = "start" /\ spc' \in {"start", "run"}
        /\ active' = [active EXCEPT ![c] = TRUE] /\ UNCHANGED tagVars
    BY <1>3, <2>0 DEF ServerStart
  <2>2. ~ active[c] /\ c \notin arrived
    BY <1>2, <2>1, MessageKinds
       DEF ControlInv, RequestMatchesPC, ActiveMatchesPC
  <2>3. UNCHANGED <<Served, spc = "done">>
    BY <2>1 DEF Served, tagVars
  <2>4. \A d \in Clients : UNCHANGED AckedOf(d)
    BY <1>1, <2>1, <2>3 DEF AckedOf, tagVars
  <2>5. StatusOf(c) = "new" /\ StatusOf(c)' = "joined"
    BY <1>2, <2>1, <2>2 DEF StatusOf
  <2>6. \A d \in Clients : d # c => UNCHANGED StatusOf(d)
    BY <1>1, <1>2, <2>1 DEF StatusOf
  <2> QED
    BY <1>1, <2>3, <2>4, <2>5, <2>6, MapJoin
<1>4. ASSUME NEW c \in Clients, ServerThrow(c)
      PROVE  UNCHANGED TS!vars
  BY <1>1, <1>4, MapStutter DEF ServerThrow, Served, Same, StatusOf, AckedOf, tagVars
<1>5. ASSUME NEW c \in Clients, ServerRequest(c)
      PROVE  TS!Begin(c)
  <2>1. /\ spc = "run" /\ spc' = "establish" /\ UNCHANGED <<active, served>>
        /\ request[c] # NULL /\ request[c].msg_type = 1
    BY <1>5 DEF ServerRequest
  <2>2. m_remote_addr' = c
    BY <1>2, <1>5, <2>1, RequestNamesSender
       DEF ServerRequest, set_remote_addr, PeerInv
  <2>3. m_remote_addr = NULL
    BY <1>2, <2>1 DEF PeerInv, NoStalePeer
  <2>4. active[c] /\ arrived = Clients
    BY <1>2, <2>1, MessageKinds DEF ControlInv, RequestMatchesPC
  <2>5. served[c] = iter[c] /\ iter[c] < NumIters
    BY <1>2, <2>1 DEF TransferMatchesPC, Awaiting, Unserved
  <2>6. Served = NULL /\ Served' = c /\ UNCHANGED (spc = "done")
    BY <2>1, <2>2, <2>3 DEF Served
  <2>7. AckedOf(c) = iter[c] /\ \A d \in Clients : Same(d)
    BY <1>1, <2>1, <2>5, <2>6 DEF Same, StatusOf, AckedOf
  <2> QED
    BY <1>1, <2>4, <2>5, <2>6, <2>7, MapBegin
<1>6. ASSUME NEW c \in Clients, ServerDisconnect(c)
      PROVE  TS!Leave(c)
  <2>1. /\ request[c] = DisconnectMsg(c) /\ request[c].rank = c
        /\ spc = "run" /\ spc' \in {"run", "shutdown"} /\ UNCHANGED tagVars
    BY <1>2, <1>6, MessageKinds DEF ServerDisconnect, PeerInv, OwnRequest, NextTurn
  <2>2. active[c] /\ active' = [active EXCEPT ![c] = FALSE]
    BY <1>2, <1>6, <2>1, MessageKinds DEF ServerDisconnect, ValidRun
  <2>3. arrived = Clients /\ iter[c] = NumIters
    BY <1>2, <2>1, MessageKinds DEF MemberInv, HasLeft
  <2>4. Served = NULL /\ UNCHANGED <<Served, spc = "done">>
    BY <1>2, <2>1 DEF Served, tagVars, PeerInv, NoStalePeer
  <2>5. \A d \in Clients : UNCHANGED AckedOf(d)
    BY <1>1, <2>1, <2>4 DEF AckedOf, tagVars
  <2>6. ~ active'[c] /\ \A d \in Clients : d # c => UNCHANGED StatusOf(d)
    BY <1>1, <1>2, <2>2 DEF StatusOf
  <2> QED
    BY <1>1, <2>2, <2>3, <2>4, <2>5, <2>6, MapLeave
<1>7. CASE ServerEstablish \/ ServerCommWait
  BY <1>1, <1>7, MapStutter
     DEF ServerEstablish, establish_connection, ServerCommWait, send_wait, Served, Same,
         StatusOf, AckedOf
<1>8. CASE ServerPost
  <2>1. /\ spc = "send" /\ m_remote_ep = repPeer /\ m_remote_addr = repPeer
        /\ repPeer \in Clients
    BY <1>2, <1>8 DEF ServerPost, PeerInv, NoStalePeer, ServerSocketMatchesPC, Serving
  <2>2. /\ UNCHANGED <<active, m_remote_addr>> /\ spc' = "comm_wait"
        /\ served' = [served EXCEPT ![repPeer] = @ + 1]
    BY <1>8, <2>1 DEF ServerPost, send
  <2>3. UNCHANGED <<Served, spc = "done">> /\ Served = repPeer
    BY <2>1, <2>2 DEF Served
  <2>4. \A d \in Clients : Same(d)
    BY <1>1, <1>2, <2>2, <2>3 DEF Same, StatusOf, AckedOf, TagTypeOK
  <2> QED
    BY <1>1, <2>3, <2>4, MapStutter
<1>9. CASE ServerClosePeer
  <2>1. /\ spc = "close" /\ spc' = "reply" /\ m_remote_addr = repPeer
        /\ UNCHANGED <<active, served, repPeer>>
    BY <1>2, <1>9
       DEF ServerClosePeer, close_connection, oobVars, PeerInv, NoStalePeer
  <2> QED
    BY <1>1, <2>1, MapStutter DEF Served, Same, StatusOf, AckedOf
<1>10. ASSUME spc = "reply", spc' \notin {"reply", "done"},
              UNCHANGED <<m_remote_addr, served, active>>
       PROVE  TS!Next
  <2>1. m_remote_addr = NULL
    BY <1>2, <1>10 DEF PeerInv, NoStalePeer
  <2>2. PICK c \in Clients : c = repPeer
    BY <1>2, <1>10 DEF PeerInv, ServerSocketMatchesPC, Serving
  <2>3. Served = c /\ Served' = NULL
    BY <1>10, <2>1, <2>2 DEF Served
  <2>4. served[c] = iter[c] + 1
    BY <1>2, <1>10, <2>2 DEF TransferMatchesPC
  <2>5. AckedOf(c)' = AckedOf(c) + 1
    BY <1>1, <1>10, <2>3, <2>4 DEF AckedOf
  <2>6. /\ \A d \in Clients : UNCHANGED StatusOf(d)
        /\ \A d \in Clients : d # c => UNCHANGED AckedOf(d)
    BY <1>1, <1>10, <2>3 DEF StatusOf, AckedOf
  <2>7. UNCHANGED <<iter, spc = "done">>
    BY <1>1, <1>10
  <2>8. TS!Finish(c)
    BY <2>3, <2>5, <2>6, <2>7, MapFinish
  <2> QED
    BY <2>8 DEF TS!Next
<1>11. CASE ServerReply
  <2>1. /\ spc = "reply" /\ spc' \in {"run", "shutdown"}
        /\ UNCHANGED <<m_remote_addr, served, active>>
    BY <1>11 DEF ServerReply, NextTurn, tagVars
  <2> QED
    BY <1>10, <2>1
<1>12. CASE ServerShutdown
  <2>1. /\ spc = "shutdown" /\ spc' = "done" /\ UNCHANGED tagVars
        /\ UNCHANGED active
    BY <1>12 DEF ServerShutdown
  <2>2. arrived = Clients /\ \A d \in Clients : ~ active[d]
    BY <1>2, <2>1, EndedServer, RankZero DEF HasLeft, MemberInv, AllUnactive
  <2>3. UNCHANGED Served /\ \A d \in Clients : Same(d)
    BY <1>1, <2>1 DEF Served, tagVars, Same, StatusOf, AckedOf
  <2> QED
    BY <1>1, <2>1, <2>2, <2>3, MapClose DEF TS!Next
<1>13. CASE ServerFail \/ ServerPeerLost
  <2>1. /\ spc' = "failed" /\ spc # "done"
        /\ UNCHANGED <<m_remote_addr, served, active>>
    BY <1>13 DEF ServerFail, ServerPeerLost, ServerDies, Final
  <2>2. CASE spc = "reply"
    BY <1>10, <2>1, <2>2
  <2>3. CASE spc # "reply"
    BY <1>1, <2>1, <2>3, MapStutter DEF Served, Same, StatusOf, AckedOf
  <2> QED
    BY <2>2, <2>3
<1> QED
  BY <1>3, <1>4, <1>5, <1>6, <1>7, <1>8, <1>9, <1>11, <1>12, <1>13
     DEF ServerStep, TS!Next

LEMMA ServiceClientStep ==
    ASSUME TypeOK, IInv, WellConfigured, NEW c \in Clients,
           ClientStep(c) \/ ClientFail(c)
    PROVE  TS!Next \/ UNCHANGED TS!vars
<1>1. UNCHANGED <<spc, active>>
  BY ClientTypeStep DEF serverVars
<1>2. UNCHANGED <<m_remote_addr, served, repPeer>>
  BY DEF ClientStep, ClientStart, ClientStarted, ClientBadReply, ClientBarrier,
         ClientRequest, ClientProbe, ClientCommWait, ClientReply, ClientDisconnect,
         ClientShutdown, ClientFinalize, ClientFail, ClientSend, ClientRecv,
         ClientClose, oobVars, tagVars, recv, recv_wait
<1>3. /\ OneConversation /\ PeerInv /\ ControlInv /\ TypeOK
      /\ TransferInv /\ TransferMatchesPC(c)
  BY DEF IInv, CoreInv, TransferInv
<1>4. UNCHANGED <<Served, spc = "done">>
  BY <1>1, <1>2 DEF Served
<1>5. ASSUME UNCHANGED iter, \A d \in Clients : UNCHANGED StatusOf(d)
      PROVE  UNCHANGED TS!vars
  BY <1>2, <1>4, <1>5, MapStutter DEF Same, AckedOf
<1>6. ASSUME UNCHANGED <<iter, arrived>>
      PROVE  UNCHANGED TS!vars
  BY <1>1, <1>5, <1>6 DEF StatusOf
<1>7. CASE ClientStarted(c)
  <2>1. CASE reply[c] = "ok"
    <3>1. UNCHANGED iter /\ arrived' = arrived \cup {c} /\ active[c]
      BY <1>3, <1>7, <2>1 DEF ClientStarted, ControlInv, ReplyMatchesPC
    <3>2. ASSUME NEW d \in Clients PROVE UNCHANGED StatusOf(d)
      <4>1. CASE arrived = Clients
        BY <1>1, <3>1, <4>1 DEF StatusOf
      <4>2. CASE arrived # Clients /\ d \in arrived'
        BY <1>1, <1>3, <3>1, <4>2 DEF StatusOf, ControlInv, ActiveMatchesPC
      <4>3. CASE d \notin arrived'
        BY <1>1, <3>1, <4>3 DEF StatusOf
      <4> QED
        BY <4>1, <4>2, <4>3
    <3> QED
      BY <1>5, <3>1, <3>2
  <2>2. CASE reply[c] # "ok"
    BY <1>6, <1>7, <2>2 DEF ClientStarted, ClientBadReply
  <2> QED
    BY <2>1, <2>2
<1>8. CASE ClientReply(c)
  <2>1. CASE reply[c] = "iter_ok"
    <3>1. iter' = [iter EXCEPT ![c] = @ + 1] /\ UNCHANGED arrived
      BY <1>8, <2>1 DEF ClientReply
    <3>2. Served # c
      BY <1>3, <2>1, NullIsNothing
         DEF Served, TransferMatchesPC, OneConversation, Answering, PeerInv,
             ServerSocketMatchesPC, Serving, Reply
    <3>3. iter[c] < AckedOf(c)
      BY <1>3, <2>1, <3>2
         DEF AckedOf, TransferInv, OneTransferPerIteration, TypeOK
    <3>4. \A d \in Clients : Same(d)
      BY <1>1, <1>2, <1>3, <1>4, <3>1, <3>2 DEF Same, StatusOf, AckedOf, TypeOK
    <3>5. TS!Take(c)
      BY <1>4, <3>1, <3>3, <3>4, MapTake
    <3> QED
      BY <3>5 DEF TS!Next
  <2>2. CASE reply[c] # "iter_ok"
    BY <1>6, <1>8, <2>2 DEF ClientReply, ClientBadReply
  <2> QED
    BY <2>1, <2>2
<1> QED
  BY <1>6, <1>7, <1>8
     DEF ClientStep, ClientStart, ClientBarrier, ClientRequest, ClientProbe,
         ClientCommWait, ClientDisconnect, ClientShutdown, ClientFinalize, ClientFail

LEMMA ServiceInitial == Init /\ WellConfigured => TS!Init
  BY NullIsNothing, RankZero, MatchingConnections
     DEF Init, TagInit, TS!Init, Served

(* The processes implement TransferService, for any number of clients and
   iterations, if the command lines match, and whatever fails or is lost. *)
THEOREM SystemIsService ==
    ASSUME WellConfigured
    PROVE  Spec => ImplementsService
<1>1. Init => TS!Init
  BY ServiceInitial
<1>2. TypeOK /\ IInv /\ [Next]_vars => [TS!Next]_(TS!vars)
  <2> SUFFICES ASSUME TypeOK, IInv, [Next]_vars PROVE TS!Next \/ UNCHANGED TS!vars
    OBVIOUS
  <2>1. CASE Terminated \/ UNCHANGED vars
    BY <2>1, MapStutter
       DEF Terminated, vars, oobVars, tagVars, Served, Same, StatusOf, AckedOf
  <2> QED
    BY <2>1, ServiceServerStep, ServiceClientStep DEF Next
<1> QED
  BY <1>1, <1>2, Invariance, TypeCorrect, PTL DEF Spec, ImplementsService, TS!Spec

-----------------------------------------------------------------------------
(* The probe loop.                                                         *)

(* What was posted for a client in its probe loop is still there. *)
StillPosted ==
    \A c \in Clients :
        (cpc[c] = "probe" /\ served[c] = iter[c] + 1) => Posted(c) # {}

LEMMA StillPostedStep ==
    ASSUME TypeOK, IInv, ~ ForceDiscards, StillPosted, [Next]_vars
    PROVE  StillPosted'
<1> SUFFICES ASSUME NEW d \in Clients, cpc'[d] = "probe", served'[d] = iter'[d] + 1
             PROVE  Posted(d)' # {}
  BY DEF StillPosted
<1> USE DEF StillPosted, TypeOK, TagTypeOK
<1>1. ASSUME UNCHANGED <<net, served, cpc, iter>>
      PROVE  Posted(d)' # {}
  BY <1>1 DEF Posted
<1>2. CASE ServerStep \/ ServerFail \/ ServerPeerLost
  <2>1. CASE ServerPost
    <3>1. m_remote_ep # NULL => send
      BY <2>1 DEF ServerPost
    <3>2. m_remote_ep = NULL => UNCHANGED <<net, served>>
      BY <2>1 DEF ServerPost, tagVars
    <3>3. UNCHANGED <<cpc, iter>>
      BY <2>1 DEF ServerPost, clientVars
    <3>4. ASSUME m_remote_ep # NULL, m_remote_ep = d PROVE Posted(d)' # {}
      <4>1. PICK p \in Protocols :
              net' = net \cup {[dst |-> m_remote_ep, tag |-> m_tag, len |-> ServerSize,
                                seq |-> served[m_remote_ep] + 1, proto |-> p]}
        BY <3>1, <3>4 DEF send
      <4> DEFINE new == [dst |-> m_remote_ep, tag |-> m_tag, len |-> ServerSize,
                         seq |-> served[m_remote_ep] + 1, proto |-> p]
      <4>2. new.dst = d
        BY <3>4
      <4>3. new \in net'
        BY <4>1
      <4> HIDE DEF new
      <4> QED
        BY <4>2, <4>3 DEF Posted
    <3>5. ASSUME m_remote_ep # NULL, m_remote_ep # d PROVE Posted(d)' # {}
      <4>1. served'[d] = served[d] /\ net \subseteq net'
        BY <3>1, <3>5 DEF send
      <4>2. Posted(d) # {}
        BY <3>3, <4>1
      <4> QED
        BY <4>1, <4>2 DEF Posted
    <3> QED
      BY <1>1, <3>2, <3>3, <3>4, <3>5
  <2>2. ASSUME ~ ServerPost PROVE UNCHANGED <<net, served, cpc, iter>>
    BY <1>2, <2>2
       DEF ServerStep, ServerStart, ServerThrow, ServerRequest, ServerDisconnect,
           ServerEstablish, establish_connection, ServerCommWait, send_wait,
           ServerClosePeer, close_connection, ServerReply, ServerShutdown, ServerFail,
           ServerPeerLost, ServerDies, clientVars, tagVars
  <2> QED
    BY <1>1, <2>1, <2>2
<1>3. ASSUME NEW c \in Clients, ClientStep(c) \/ ClientFail(c)
      PROVE  Posted(d)' # {}
  <2>1. UNCHANGED served
    BY <1>3 DEF ClientStep, ClientStart, ClientStarted, ClientBadReply, ClientBarrier,
                ClientRequest, ClientProbe, ClientCommWait, ClientReply,
                ClientDisconnect, ClientShutdown, ClientFinalize, ClientFail, tagVars,
                recv, recv_wait
  <2>2. CASE c = d
    <3>1. ClientRequest(d)
      BY <1>3, <2>2
         DEF ClientStep, ClientStart, ClientStarted, ClientBadReply, ClientBarrier,
             ClientProbe, ClientCommWait, ClientReply, ClientDisconnect, ClientShutdown,
             ClientFinalize, ClientFail, Goto
    <3>2. cpc[d] = "loop" /\ UNCHANGED iter
      BY <3>1 DEF ClientRequest
    <3>3. served[d] = iter[d]
      BY <3>2 DEF IInv, TransferInv, TransferMatchesPC, Unserved, Iterating, Dead
    <3> QED
      BY <2>1, <3>2, <3>3
  <2>3. CASE c # d
    <3>1. UNCHANGED <<cpc[d], iter[d]>>
      BY <1>3, <2>3
         DEF ClientStep, ClientStart, ClientStarted, ClientBadReply, ClientBarrier,
             ClientRequest, ClientProbe, ClientCommWait, ClientReply, ClientDisconnect,
             ClientShutdown, ClientFinalize, ClientFail, Goto
    <3>2. Posted(d) \subseteq Posted(d)'
      BY <1>3, <2>3
         DEF ClientStep, ClientStart, ClientStarted, ClientBadReply, ClientBarrier,
             ClientRequest, ClientProbe, ClientCommWait, ClientReply, ClientDisconnect,
             ClientShutdown, ClientFinalize, ClientFail, tagVars, recv, recv_wait,
             get_address, Posted
    <3> QED
      BY <2>1, <3>1, <3>2
  <2> QED
    BY <2>2, <2>3
<1>4. CASE Terminated \/ UNCHANGED vars
  BY <1>1, <1>4 DEF Terminated, vars, tagVars
<1> QED
  BY <1>2, <1>3, <1>4 DEF Next

(* Nobody has failed. *)
NoFailure == spc # "failed" /\ \A c \in Clients : cpc[c] # "failed"

LEMMA NoFailureStep ==
    ASSUME TypeOK, IInv, WellConfigured, Faults = {}, NoFailure, [Next]_vars
    PROVE  NoFailure'
<1>1. ~ ServerFail /\ \A c \in Clients : ~ ClientFail(c)
  BY DEF ServerFail, ClientFail
<1>2. ~ ServerPeerLost
  BY DEF ServerPeerLost, Dead, NoFailure, IInv, CoreInv, PeerInv, ControlInv,
         ProtocolNeverThrows, ServerSocketMatchesPC, Serving
<1>3. CASE ServerStep
  <2>1. UNCHANGED cpc
    BY <1>3, ServerTypeStep DEF clientVars
  <2>2. spc' # "failed"
    BY <1>3 DEF ServerStep, ServerStart, ServerThrow, ServerRequest, ServerDisconnect,
                ServerEstablish, ServerPost, ServerCommWait, ServerClosePeer,
                ServerReply, ServerShutdown, NextTurn
  <2> QED
    BY <2>1, <2>2 DEF NoFailure
<1>4. ASSUME NEW c \in Clients, ClientStep(c)
      PROVE  NoFailure'
  <2>1. UNCHANGED spc
    BY <1>4, ClientTypeStep DEF serverVars
  <2>2. PICK pc \in ClientPC \ {"failed"} : Goto(c, pc)
    BY <1>4 DEF ClientStep, ClientStart, ClientStarted, ClientBadReply, ClientBarrier,
                ClientRequest, ClientProbe, ClientCommWait, ClientReply,
                ClientDisconnect, ClientShutdown, ClientFinalize, ClientPC
  <2> QED
    BY <2>1, <2>2 DEF NoFailure, Goto, TypeOK
<1>5. CASE Terminated \/ UNCHANGED vars
  BY <1>5 DEF Terminated, vars, NoFailure
<1> QED
  BY <1>1, <1>2, <1>3, <1>4, <1>5 DEF Next

(* A client in its probe loop is owed a message, if nothing fails and no close
   discards what was sent. *)
THEOREM ProbeIsOwed == Spec => []ProbeHasSource
<1> DEFINE Calm == WellConfigured /\ Faults = {} /\ ~ ForceDiscards
<1>1. Init => StillPosted /\ NoFailure
  BY DEF Init, StillPosted, NoFailure
<1>2. TypeOK /\ IInv /\ (Calm => StillPosted /\ NoFailure) /\ [Next]_vars
         => (Calm => StillPosted /\ NoFailure)'
  BY StillPostedStep, NoFailureStep DEF WellConfigured
<1>3. TypeOK /\ IInv /\ (Calm => StillPosted /\ NoFailure) => ProbeHasSource
  <2> SUFFICES ASSUME TypeOK, IInv, Calm, StillPosted, NoFailure,
                      NEW c \in Clients, cpc[c] = "probe"
               PROVE  \/ request[c] # NULL
                      \/ Answering(c) /\ spc \in {"establish", "send"}
                      \/ \E m \in net : m.dst = get_address(c) /\ m.tag = get_tag(c)
    BY DEF ProbeHasSource
  <2>1. repSock # "closed"
    <3>1. spc \notin Final
      BY EndedServer
         DEF Final, NoFailure, IInv, CoreInv, ControlInv, ProtocolNeverThrows, HasLeft,
             Left, Dead
    <3> QED
      BY <3>1 DEF IInv, CoreInv, PeerInv, ServerSocketMatchesPC, Serving, Final, TypeOK,
                  ServerPC
  <2>2. request[c] # NULL \/ reply[c] # NULL \/ Answering(c)
    BY <2>1 DEF IInv, CoreInv, OneConversation, ClientInv, ClientSocketMatchesPC, Iterating
  <2>3. ASSUME served[c] = iter[c] + 1
        PROVE  \E m \in net : m.dst = get_address(c) /\ m.tag = get_tag(c)
    <3>1. PICK m \in Posted(c) : TRUE
      BY <2>3 DEF StillPosted
    <3> QED
      BY <3>1 DEF IInv, TransferInv, OneTransferPerIteration, Outstanding, Posted,
                  get_address, get_tag
  <2>4. CASE reply[c] # NULL
    <3>1. reply[c] = "iter_ok"
      BY <2>4 DEF TypeOK, OOBTypeOK, Reply, IInv, CoreInv, ControlInv, ReplyMatchesPC
    <3> QED
      BY <2>3, <3>1 DEF IInv, TransferInv, OneTransferPerIteration
  <2>5. CASE Answering(c)
    <3>1. spc \in Serving /\ repPeer = c
      BY <2>5 DEF Answering, IInv, CoreInv, PeerInv, ServerSocketMatchesPC, Serving, Final,
                  TypeOK, ServerPC
    <3>2. spc \in {"establish", "send"} \/ served[c] = iter[c] + 1
      BY <3>1 DEF Serving, IInv, TransferInv, TransferMatchesPC
    <3> QED
      BY <2>3, <2>5, <3>2
  <2> QED
    BY <2>2, <2>4, <2>5
<1> QED
  BY <1>1, <1>2, <1>3, Invariance, TypeCorrect, PTL DEF Spec
=============================================================================
