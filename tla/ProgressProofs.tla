--------------------------- MODULE ProgressProofs ---------------------------
(***************************************************************************)
(* Why a run ends: every step counts towards an end that is in sight, and  *)
(* where no process can take another step, everybody has exited or waits   *)
(* for something that was lost.                                            *)
(***************************************************************************)
EXTENDS ServiceProofs

-----------------------------------------------------------------------------
(* Every step counts.                                                      *)

LEMMA Positions ==
    /\ Position["start"] = 0 /\ Position["start_recv"] = 10
    /\ Position["barrier"] = 20 /\ Position["loop"] = 30
    /\ Position["probe"] = 40 /\ Position["comm_wait"] = 50
    /\ Position["reply"] = 60 /\ Position["shutdown"] = 70
    /\ Position["finalize"] = 80
    /\ Position["done"] = 90 /\ Position["threw"] = 90 /\ Position["failed"] = 90
  BY DEF Position

LEMMA Handlings ==
    /\ Handling["establish"] = 1 /\ Handling["send"] = 2
    /\ Handling["comm_wait"] = 3 /\ Handling["close"] = 4
    /\ Handling["reply"] = 5
  BY DEF Handling

LEMMA RequestDoneType == \A d \in Clients : RequestDone(d) \in 0 .. 6
  BY Handlings DEF RequestDone, Serving

LEMMA RequestDoneTypeNext == (\A d \in Clients : RequestDone(d) \in 0 .. 6)'
  BY RequestDoneType, PTL

(* There is an end to it: the last position of the last iteration. *)
LEMMA ProgressIsBounded ==
    TypeOK /\ ClientInv =>
        \A c \in Clients : Progress(c) \in Nat /\ Progress(c) <= MostProgress
<1> SUFFICES ASSUME TypeOK, ClientInv, NEW c \in Clients
             PROVE  Progress(c) \in Nat /\ Progress(c) <= MostProgress
  OBVIOUS
<1>1. iter[c] \in Nat /\ iter[c] <= NumIters /\ cpc[c] \in ClientPC
  BY DEF TypeOK, ClientInv, IterMatchesPC
<1>2. Position[cpc[c]] \in 0 .. 90
  BY <1>1, Positions DEF ClientPC
<1> QED
  BY <1>1, <1>2, RequestDoneType, PerftestAssumption DEF Progress, MostProgress

(* A step of the server moves requests, and no client. *)
LEMMA ServerStepCounts ==
    ASSUME TypeOK, CoreInv, ServerStep \/ ServerFail \/ ServerPeerLost
    PROVE  /\ \A d \in Clients : RequestDone(d) <= RequestDone(d)'
           /\ spc \notin Final
           /\ \/ \E d \in Clients : RequestDone(d) < RequestDone(d)'
              \/ spc' \in Final
<1> USE NullIsNothing, Handlings DEF RequestDone, Answering, Final, Serving
<1>1. OneConversation /\ PeerInv /\ OOBTypeOK
  BY DEF CoreInv, TypeOK
<1>2. ASSUME NEW c \in Clients, ServerStart(c) \/ ServerDisconnect(c)
      PROVE  /\ \A d \in Clients : d # c => RequestDone(d) = RequestDone(d)'
             /\ RequestDone(c) = 0 /\ RequestDone(c)' = 6
             /\ spc \notin Final
  BY <1>1, <1>2 DEF ServerStart, ServerDisconnect, ServerAnswer, OOBTypeOK, NextTurn
<1>3. ASSUME NEW c \in Clients, ServerThrow(c)
      PROVE  /\ \A d \in Clients : d # c => RequestDone(d) = RequestDone(d)'
             /\ RequestDone(c) = 0 /\ RequestDone(c)' = 6
             /\ spc \notin Final
  BY <1>1, <1>3 DEF ServerThrow, ServerAbandon, OOBTypeOK
<1>4. ASSUME NEW c \in Clients, ServerRequest(c)
      PROVE  /\ \A d \in Clients : d # c => RequestDone(d) = RequestDone(d)'
             /\ RequestDone(c) = 0 /\ RequestDone(c)' = 1
             /\ spc \notin Final
  BY <1>1, <1>4 DEF ServerRequest, ServerRecv, OOBTypeOK
<1>5. ASSUME ServerEstablish \/ ServerPost \/ ServerCommWait \/ ServerClosePeer
               \/ ServerReply
      PROVE  /\ \E p \in Clients :
                   /\ \A d \in Clients : d # p => RequestDone(d) = RequestDone(d)'
                   /\ RequestDone(p) < RequestDone(p)'
             /\ spc \notin Final
  <2>1. /\ spc \in Serving /\ repPeer \in Clients /\ repSock = "send"
        /\ UNCHANGED <<request, repPeer>>
    BY <1>1, <1>5
       DEF ServerEstablish, ServerPost, ServerCommWait, ServerClosePeer, ServerReply,
           ServerClose, ServerSend, oobVars, PeerInv, ServerSocketMatchesPC
  <2>2. PICK p \in Clients : p = repPeer
    BY <2>1
  <2>3. request[p] = NULL
    BY <1>1, <2>1, <2>2 DEF OneConversation
  <2>4. \A d \in Clients : d # p => RequestDone(d) = RequestDone(d)'
    BY <2>1, <2>2
  <2>5. \/ repSock' # "send"
        \/ repSock' = "send" /\ spc' \in Serving /\ Handling[spc] < Handling[spc']
    BY <2>1, <1>5
       DEF ServerEstablish, ServerPost, ServerCommWait, ServerClosePeer, ServerReply,
           ServerClose, ServerSend, oobVars
  <2>6. RequestDone(p) = Handling[spc] /\ Handling[spc] \in 1 .. 5
    BY <2>1, <2>2, <2>3
  <2>7. RequestDone(p)' = IF repSock' = "send" /\ spc' \in Serving
                          THEN Handling[spc'] ELSE 6
    BY <2>1, <2>2, <2>3
  <2>8. RequestDone(p) < RequestDone(p)'
    BY <2>5, <2>6, <2>7
  <2> QED
    BY <2>1, <2>4, <2>8
<1>6. ASSUME ServerShutdown \/ ServerFail \/ ServerPeerLost
      PROVE  /\ \A d \in Clients : RequestDone(d) <= RequestDone(d)'
             /\ spc \notin Final /\ spc' \in Final
  <2>1. UNCHANGED request /\ repSock' = "closed"
    BY <1>6 DEF ServerShutdown, ServerFail, ServerPeerLost, ServerDies, ServerClose
  <2>2. spc \notin Final /\ spc' \in Final
    BY <1>6 DEF ServerShutdown, ServerFail, ServerPeerLost, ServerDies
  <2> QED
    BY <2>1, <2>2, RequestDoneType
<1> HIDE DEF RequestDone
<1>7. ASSUME NEW c \in Clients,
             \A d \in Clients : d # c => RequestDone(d) = RequestDone(d)',
             RequestDone(c) < RequestDone(c)'
      PROVE  /\ \A d \in Clients : RequestDone(d) <= RequestDone(d)'
             /\ \E d \in Clients : RequestDone(d) < RequestDone(d)'
  <2>1. ASSUME NEW d \in Clients PROVE RequestDone(d) <= RequestDone(d)'
    <3>1. RequestDone(d) \in 0 .. 6 /\ RequestDone(d)' \in 0 .. 6
      BY RequestDoneType, RequestDoneTypeNext
    <3> QED
      BY <1>7, <3>1
  <2> QED
    BY <1>7, <2>1
<1> QED
  <2>1. ASSUME NEW c \in Clients,
               ServerStart(c) \/ ServerThrow(c) \/ ServerRequest(c) \/ ServerDisconnect(c)
        PROVE  /\ \A d \in Clients : d # c => RequestDone(d) = RequestDone(d)'
               /\ RequestDone(c) < RequestDone(c)' /\ spc \notin Final
    BY <1>2, <1>3, <1>4, <2>1
  <2>2. CASE ServerShutdown \/ ServerFail \/ ServerPeerLost
    BY <1>6, <2>2
  <2>3. CASE ServerEstablish \/ ServerPost \/ ServerCommWait \/ ServerClosePeer
               \/ ServerReply
    <3>1. PICK p \in Clients :
             /\ \A d \in Clients : d # p => RequestDone(d) = RequestDone(d)'
             /\ RequestDone(p) < RequestDone(p)'
      BY <1>5, <2>3
    <3> QED
      BY <1>5, <1>7, <2>3, <3>1
  <2> QED
    BY <1>7, <2>1, <2>2, <2>3 DEF ServerStep

(* A step of a client moves that client, and its own request only. *)
LEMMA ClientStepCounts ==
    ASSUME TypeOK, CoreInv, NEW c \in Clients, ClientStep(c) \/ ClientFail(c)
    PROVE  /\ Progress(c) < Progress(c)'
           /\ \A d \in Clients : d # c => Progress(d) = Progress(d)'
           /\ UNCHANGED spc
<1>1. UNCHANGED <<spc, repSock, repPeer>>
  BY DEF ClientStep, ClientStart, ClientStarted, ClientBadReply, ClientBarrier,
         ClientRequest, ClientProbe, ClientCommWait, ClientReply, ClientDisconnect,
         ClientShutdown, ClientFinalize, ClientFail, ClientSend, ClientRecv,
         ClientClose, oobVars, serverVars
<1>2. ASSUME NEW d \in Clients, d # c PROVE Progress(d) = Progress(d)'
  <2>1. UNCHANGED <<cpc[d], iter[d], request[d]>>
    BY <1>2 DEF TypeOK, OOBTypeOK, Goto, ClientStep, ClientStart, ClientStarted,
         ClientBadReply, ClientBarrier, ClientRequest, ClientProbe, ClientCommWait,
         ClientReply, ClientDisconnect, ClientShutdown, ClientFinalize, ClientFail,
         ClientSend, ClientRecv, ClientClose, oobVars
  <2> QED
    BY <1>1, <2>1 DEF Progress, RequestDone, Answering
<1> SUFFICES Progress(c) < Progress(c)'
  BY <1>1, <1>2
<1>3. /\ iter[c] \in Nat /\ cpc[c] \in ClientPC
      /\ RequestDone(c) \in 0 .. 6 /\ RequestDone(c)' \in 0 .. 6
  BY RequestDoneType, RequestDoneTypeNext DEF TypeOK
<1>4. ASSUME UNCHANGED iter, Position[cpc[c]] + 6 < Position[cpc'[c]],
             Position[cpc[c]] \in Nat, Position[cpc'[c]] \in Nat
      PROVE  Progress(c) < Progress(c)'
  BY <1>3, <1>4 DEF Progress
<1> USE Positions
<1>5. CASE ClientStart(c) \/ ClientBarrier(c) \/ ClientRequest(c) \/ ClientProbe(c)
             \/ ClientDisconnect(c) \/ ClientShutdown(c) \/ ClientFinalize(c)
  <2>1. UNCHANGED iter
    BY <1>5 DEF ClientStart, ClientBarrier, ClientRequest, ClientProbe,
                ClientDisconnect, ClientShutdown, ClientFinalize
  <2>2. \/ cpc[c] = "start" /\ cpc'[c] = "start_recv"
        \/ cpc[c] = "barrier" /\ cpc'[c] = "loop"
        \/ cpc[c] = "loop" /\ cpc'[c] \in {"probe", "shutdown"}
        \/ cpc[c] = "probe" /\ cpc'[c] = "comm_wait"
        \/ cpc[c] = "shutdown" /\ cpc'[c] = "finalize"
        \/ cpc[c] = "finalize" /\ cpc'[c] = "done"
    BY <1>5 DEF TypeOK, Goto, ClientStart, ClientBarrier, ClientRequest, ClientProbe,
                ClientDisconnect, ClientShutdown, ClientFinalize
  <2> QED
    BY <1>4, <2>1, <2>2
<1>6. CASE ClientStarted(c) \/ ClientCommWait(c) \/ ClientFail(c)
  <2>1. UNCHANGED iter
    BY <1>6 DEF ClientStarted, ClientBadReply, ClientCommWait, ClientFail
  <2>2. \/ cpc[c] = "start_recv" /\ cpc'[c] \in {"barrier", "threw"}
        \/ cpc[c] = "comm_wait" /\ cpc'[c] \in {"reply", "threw"}
        \/ cpc[c] \notin Final /\ cpc'[c] = "failed"
    BY <1>6 DEF TypeOK, Goto, ClientStarted, ClientBadReply, ClientCommWait, ClientFail
  <2> QED
    BY <1>3, <1>4, <2>1, <2>2 DEF ClientPC, Final
<1>7. CASE ClientReply(c)
  <2>1. CASE reply[c] = "iter_ok"
    <3>1. cpc[c] = "reply" /\ cpc'[c] = "loop" /\ iter'[c] = iter[c] + 1
      BY <1>7, <2>1 DEF TypeOK, Goto, ClientReply
    <3> QED
      BY <1>3, <3>1 DEF Progress
  <2>2. CASE reply[c] # "iter_ok"
    <3>1. cpc[c] = "reply" /\ cpc'[c] = "threw" /\ UNCHANGED iter
      BY <1>7, <2>2 DEF TypeOK, Goto, ClientReply, ClientBadReply
    <3> QED
      BY <1>4, <3>1
  <2> QED
    BY <2>1, <2>2
<1> QED
  BY <1>5, <1>6, <1>7 DEF ClientStep

(* No behaviour goes round in a circle, or on for ever, for any number of
   clients and iterations, whatever fails and however the programs are
   configured. *)
THEOREM StepsCount == Spec => EveryStepCounts
<1> DEFINE Counts ==
      /\ \A c \in Clients : Progress(c) <= Progress(c)' /\ Progress(c)' <= MostProgress
      /\ spc \in Final => UNCHANGED spc
      /\ \/ \E c \in Clients : Progress(c) < Progress(c)'
         \/ spc \notin Final /\ spc' \in Final
<1>1. ASSUME TypeOK, CoreInv, [Next]_vars PROVE [Counts]_vars
  <2> SUFFICES ASSUME ~ UNCHANGED vars PROVE Counts
    OBVIOUS
  <2>1. /\ \A c \in Clients : Progress(c) \in Nat
        /\ \A c \in Clients : Progress(c)' \in Nat /\ Progress(c)' <= MostProgress
    <3>1. TypeOK' /\ ClientInv' /\ ClientInv
      BY <1>1, TypeStep, CoreStep DEF CoreInv
    <3>2. (TypeOK /\ ClientInv =>
             \A c \in Clients : Progress(c) \in Nat /\ Progress(c) <= MostProgress)'
      BY ProgressIsBounded, PTL
    <3> QED
      BY <1>1, <3>1, <3>2, ProgressIsBounded
  <2>2. CASE ServerStep \/ ServerFail \/ ServerPeerLost
    <3>1. UNCHANGED <<cpc, iter>>
      BY <1>1, <2>2, ServerTypeStep DEF clientVars
    <3>2. ASSUME NEW c \in Clients
          PROVE  /\ RequestDone(c) <= RequestDone(c)' => Progress(c) <= Progress(c)'
                 /\ RequestDone(c) < RequestDone(c)' => Progress(c) < Progress(c)'
      <4>1. iter[c] \in Nat /\ Position[cpc[c]] \in Nat
        BY <1>1, Positions DEF TypeOK, ClientPC
      <4> QED
        BY <3>1, <4>1, RequestDoneType, RequestDoneTypeNext DEF Progress
    <3> QED
      BY <1>1, <2>1, <2>2, <3>2, ServerStepCounts
  <2>3. ASSUME NEW c \in Clients, ClientStep(c) \/ ClientFail(c) PROVE Counts
    <3>1. /\ Progress(c) < Progress(c)'
          /\ \A d \in Clients : d # c => Progress(d) = Progress(d)'
          /\ UNCHANGED spc
      BY <1>1, <2>3, ClientStepCounts
    <3>2. \A d \in Clients : Progress(d) <= Progress(d)'
      BY <2>1, <3>1
    <3> QED
      BY <2>1, <3>1, <3>2
  <2>4. ~ Terminated
    BY DEF Terminated
  <2> QED
    BY <1>1, <2>2, <2>3, <2>4 DEF Next
<1> QED
  BY <1>1, CoreInvariance, TypeCorrect, PTL DEF Spec, EveryStepCounts

-----------------------------------------------------------------------------
(* What holds while somebody waits.                                        *)

WaitInv ==
    /\ spc = "run" => ~ AllUnactive(active)
    /\ \A c \in Clients :
          /\ cpc[c] = "comm_wait" => recvReq[c] # NULL
          /\ cpc[c] \in {"start", "start_recv"} => c \notin arrived

(* A large message is fetched from a server that waits for it, unless its
   client has died; and a server waits for such a client only. *)
RendezvousInv ==
    /\ spc = "comm_wait" => sendReq # "none"
    /\ \A c \in Clients : \A m \in Outstanding(c) :
          m.proto = "rndv" =>
             \/ Gone(c)
             \/ spc = "comm_wait" /\ repPeer = c /\ sendReq = "rndv"
    /\ (spc = "comm_wait" /\ sendReq = "rndv") =>
          \/ Gone(repPeer)
          \/ \E m \in Outstanding(repPeer) : m.proto = "rndv"

(* The reply to client c may have been lost with the server: it is one that
   the client does not read, or the acknowledgement of a posted transfer. *)
AnswerLost(c) ==
    LingerDrops /\ (cpc[c] = "shutdown" \/ (cpc[c] \in Iterating /\ served[c] = iter[c] + 1))

(* A server that died of its client's death leaves requests where they are,
   and nobody's transfer but that client's; replies may be lost with it. *)
OrphansInv ==
    spc = "failed" =>
        /\ repPeer \in Clients /\ Gone(repPeer)
        /\ arrived = Clients
        /\ \A c \in Clients : reqSock[c] = "recv" =>
              request[c] # NULL \/ reply[c] # NULL \/ AnswerLost(c)

(* The farewell of a client that has left stays until the server reads it. *)
FarewellKept ==
    \A c \in Clients : active[c] /\ cpc[c] \in Left => request[c] = DisconnectMsg(c)

(* What a step of client c leaves alone. *)
LEMMA OnlyItself ==
    ASSUME TypeOK, NEW c \in Clients, ClientStep(c) \/ ClientFail(c)
    PROVE  /\ UNCHANGED <<spc, active, repSock, repPeer, served>>
           /\ \A d \in Clients : d # c =>
                 UNCHANGED <<cpc[d], iter[d], request[d], reply[d], reqSock[d], recvReq[d]>>
           /\ cpc[c] \notin Final
           /\ arrived \subseteq arrived'
  BY DEF TypeOK, OOBTypeOK, TagTypeOK, Goto, ClientStep, ClientStart, ClientStarted,
         ClientBadReply, ClientBarrier, ClientRequest, ClientProbe, ClientCommWait,
         ClientReply, ClientDisconnect, ClientShutdown, ClientFinalize, ClientFail,
         ClientSend, ClientRecv, ClientClose, oobVars, tagVars, recv, recv_wait,
         serverVars, Final

LEMMA WaitStep ==
    ASSUME TypeOK, WaitInv, [Next]_vars
    PROVE  WaitInv'
<1>1. CASE Terminated \/ UNCHANGED vars
  BY <1>1 DEF Terminated, vars, tagVars, WaitInv, AllUnactive
<1>2. CASE ServerStep \/ ServerFail \/ ServerPeerLost
  <2>1. UNCHANGED clientVars
    BY <1>2, ServerTypeStep
  <2>2. UNCHANGED recvReq
    BY <1>2 DEF ServerStep, ServerStart, ServerThrow, ServerRequest, ServerDisconnect,
                ServerEstablish, ServerPost, ServerCommWait, ServerClosePeer,
                ServerReply, ServerShutdown, ServerFail, ServerPeerLost, ServerDies,
                tagVars, establish_connection, send, send_wait, close_connection
  <2>3. spc' = "run" => ~ AllUnactive(active')
    <3>1. AllActive(active') => ~ AllUnactive(active')
      BY RankZero DEF AllActive, AllUnactive
    <3> QED
      BY <1>2, <3>1
         DEF WaitInv, NextTurn, ServerStep, ServerStart, ServerThrow, ServerRequest,
             ServerDisconnect, ServerEstablish, ServerPost, ServerCommWait,
             ServerClosePeer, ServerReply, ServerShutdown, ServerFail, ServerPeerLost,
             ServerDies
  <2> QED
    BY <2>1, <2>2, <2>3 DEF WaitInv, clientVars
<1>3. ASSUME NEW c \in Clients, ClientStep(c) \/ ClientFail(c)
      PROVE  WaitInv'
  <2>1. UNCHANGED <<spc, active>>
    BY <1>3, OnlyItself
  <2>2. \A d \in Clients : d # c =>
           UNCHANGED <<cpc[d], recvReq[d]>> /\ (d \in arrived' => d \in arrived)
    <3>1. arrived' \in {arrived, arrived \cup {c}}
      BY <1>3 DEF ClientStep, ClientStart, ClientStarted, ClientBadReply, ClientBarrier,
                  ClientRequest, ClientProbe, ClientCommWait, ClientReply,
                  ClientDisconnect, ClientShutdown, ClientFinalize, ClientFail
    <3> QED
      BY <1>3, <3>1, OnlyItself
  <2>3. CASE ClientProbe(c)
    <3>1. recvReq'[c] # NULL /\ cpc'[c] = "comm_wait"
      BY <2>3, TagAssumption DEF ClientProbe, recv, Goto, TypeOK, TagTypeOK
    <3> QED
      BY <2>1, <2>2, <3>1 DEF WaitInv
  <2>4. CASE ~ ClientProbe(c)
    <3>1. cpc'[c] # "comm_wait"
          /\ (cpc'[c] \in {"start", "start_recv"} =>
                 cpc[c] \in {"start", "start_recv"} /\ UNCHANGED arrived)
      BY <1>3, <2>4
         DEF TypeOK, Goto, ClientStep, ClientStart, ClientStarted, ClientBadReply,
             ClientBarrier, ClientRequest, ClientCommWait, ClientReply,
             ClientDisconnect, ClientShutdown, ClientFinalize, ClientFail
    <3> QED
      BY <2>1, <2>2, <3>1 DEF WaitInv
  <2> QED
    BY <2>3, <2>4
<1> QED
  BY <1>1, <1>2, <1>3 DEF Next

LEMMA OrphansStep ==
    ASSUME TypeOK, IInv, WellConfigured, "server" \notin Faults, WaitInv, OrphansInv,
           [Next]_vars
    PROVE  OrphansInv'
<1>1. CASE Terminated \/ UNCHANGED vars
  BY <1>1 DEF Terminated, vars, oobVars, tagVars, OrphansInv, AnswerLost, Gone
<1>2. CASE ServerPeerLost
  <2>1. /\ spc \in Serving /\ repPeer \in Clients /\ repSock = "send" /\ Gone(repPeer)
        /\ UNCHANGED <<reqSock, request, repPeer, cpc, iter, arrived, served>>
        /\ RepliesMayDrop
    BY <1>2
       DEF ServerPeerLost, ServerDies, ServerClose, clientVars, Gone, Serving, IInv,
           CoreInv, PeerInv, ServerSocketMatchesPC
  <2>2. arrived = Clients
    BY <2>1 DEF IInv, MemberInv
  <2>3. ASSUME NEW c \in Clients, reqSock[c] = "recv"
        PROVE  request[c] # NULL \/ reply'[c] # NULL \/ AnswerLost(c)
    <3>1. ~ Gone(c)
      BY <2>3 DEF IInv, CoreInv, ClientInv, ClientSocketMatchesPC, Gone, Dead, Final
    <3>2. request[c] # NULL \/ reply[c] # NULL
      BY <2>1, <2>3, <3>1 DEF IInv, CoreInv, OneConversation, Answering
    <3>3. CASE reply'[c] = NULL /\ reply[c] # NULL
      <4>1. LingerDrops
        BY <2>1, <3>3, RepliesLeft DEF TypeOK
      <4>2. reply[c] \in Reply
        BY <3>3 DEF TypeOK, OOBTypeOK
      <4>3. reply[c] # "ok"
        BY <2>2 DEF IInv, CoreInv, ControlInv, ReplyMatchesPC, WaitInv
      <4>4. CASE reply[c] = "iter_ok"
        <5>1. cpc[c] \in Iterating /\ served[c] = iter[c] + 1
          BY <4>4 DEF IInv, CoreInv, ControlInv, ReplyMatchesPC, TransferInv,
                      OneTransferPerIteration
        <5> QED
          BY <4>1, <5>1 DEF AnswerLost
      <4>5. CASE reply[c] = "disconnect_ok"
        BY <4>1, <4>5 DEF IInv, CoreInv, ControlInv, ReplyMatchesPC, AnswerLost
      <4> QED
        BY <4>2, <4>3, <4>4, <4>5 DEF Reply
    <3> QED
      BY <3>2, <3>3
  <2> QED
    BY <2>1, <2>2, <2>3 DEF OrphansInv, AnswerLost, Gone
<1>3. CASE ServerStep \/ ServerFail
  BY <1>3
     DEF OrphansInv, NextTurn, ServerStep, ServerStart, ServerThrow, ServerRequest,
         ServerDisconnect, ServerEstablish, ServerPost, ServerCommWait,
         ServerClosePeer, ServerReply, ServerShutdown, ServerFail
<1>4. ASSUME NEW c \in Clients, ClientStep(c) \/ ClientFail(c), spc' = "failed"
      PROVE  OrphansInv'
  <2>1. spc = "failed" /\ UNCHANGED repPeer /\ arrived' = Clients
    BY <1>4, OnlyItself, ClientTypeStep DEF OrphansInv
  <2>2. Gone(repPeer)'
    BY <1>4, <2>1, OnlyItself DEF OrphansInv, Gone, Dead, Final
  <2>3. reqSock'[c] = "recv" => request'[c] # NULL \/ reply'[c] # NULL \/ AnswerLost(c)'
    BY <1>4, <2>1, MessagesAreMessages, NullIsNothing
       DEF OrphansInv, AnswerLost, Iterating, TypeOK, OOBTypeOK, TagTypeOK, ClientStep, ClientStart, ClientStarted,
           ClientBadReply, ClientBarrier, ClientRequest, ClientProbe, ClientCommWait,
           ClientReply, ClientDisconnect, ClientShutdown, ClientFinalize, ClientFail,
           ClientSend, ClientRecv, ClientClose, Goto, recv, recv_wait, oobVars, tagVars
  <2>4. \A d \in Clients : reqSock'[d] = "recv" =>
              request'[d] # NULL \/ reply'[d] # NULL \/ AnswerLost(d)'
    BY <1>4, <2>1, <2>3, OnlyItself DEF OrphansInv, AnswerLost
  <2> QED
    BY <2>1, <2>2, <2>4 DEF OrphansInv
<1> QED
  BY <1>1, <1>2, <1>3, <1>4 DEF Next, OrphansInv

LEMMA RendezvousServerStep ==
    ASSUME TypeOK, IInv, "server" \notin Faults, RendezvousInv,
           ServerStep \/ ServerFail \/ ServerPeerLost
    PROVE  RendezvousInv'
<1>1. UNCHANGED cpc
  BY ServerTypeStep DEF clientVars
<1>2. PeerInv /\ TransferInv /\ ~ ServerFail
  BY DEF IInv, CoreInv, ServerFail
<1>3. CASE ServerPost
  <2>1. PICK p \in Clients : p = repPeer
    BY <1>2, <1>3 DEF ServerPost, PeerInv, ServerSocketMatchesPC, Serving
  <2>2. m_remote_ep = p /\ m_tag = p /\ p # NULL
    BY <1>2, <1>3, <2>1, NullIsNothing DEF ServerPost, PeerInv, NoStalePeer
  <2>3. /\ spc = "send" /\ spc' = "comm_wait" /\ send /\ UNCHANGED <<repPeer, recvReq>>
    BY <1>3, <2>2 DEF ServerPost, oobVars, send
  <2>4. PICK proto \in Protocols :
          /\ net' = net \cup {[dst |-> p, tag |-> p, len |-> ServerSize,
                               seq |-> served[p] + 1, proto |-> proto]}
          /\ sendReq' = proto
    BY <2>2, <2>3 DEF send
  <2> DEFINE new == [dst |-> p, tag |-> p, len |-> ServerSize,
                     seq |-> served[p] + 1, proto |-> proto]
  <2>5. Outstanding(p) = {}
    BY <1>2, <2>1, <2>3
       DEF TransferInv, TransferMatchesPC, Awaiting, Unserved
  <2>6. Outstanding(p)' = {new}
    BY <2>3, <2>4, <2>5 DEF Outstanding, Posted
  <2>7. ASSUME NEW d \in Clients, d # p PROVE Outstanding(d)' = Outstanding(d)
    BY <2>3, <2>4, <2>7 DEF Outstanding, Posted
  <2>8. new.proto = sendReq' /\ sendReq' \in {"eager", "rndv"}
    BY <2>4, TagAssumption
  <2> HIDE DEF new
  <2>9. ASSUME NEW d \in Clients, NEW m \in Outstanding(d)', m.proto = "rndv"
        PROVE  Gone(d)' \/ (d = p /\ sendReq' = "rndv")
    <3>1. CASE d = p
      BY <2>6, <2>8, <2>9, <3>1
    <3>2. CASE d # p
      BY <1>1, <2>3, <2>7, <2>9, <3>2 DEF RendezvousInv, Gone
    <3> QED
      BY <3>1, <3>2
  <2>10. sendReq' = "rndv" => \E m \in Outstanding(repPeer)' : m.proto = "rndv"
    BY <2>1, <2>3, <2>6, <2>8
  <2> QED
    BY <2>1, <2>3, <2>8, <2>9, <2>10 DEF RendezvousInv
<1>4. CASE ~ ServerPost
  <2>1. UNCHANGED recvReq /\ net' \subseteq net /\ spc' # "comm_wait"
    BY <1>4
       DEF ServerStep, ServerStart, ServerThrow, ServerRequest, ServerDisconnect,
           ServerEstablish, ServerCommWait, ServerClosePeer, ServerReply,
           ServerShutdown, ServerFail, ServerPeerLost, ServerDies, NextTurn, tagVars,
           establish_connection, send_wait, close_connection
  <2>2. ASSUME NEW d \in Clients, NEW m \in Outstanding(d)', m.proto = "rndv"
        PROVE  Gone(d)
    <3>1. m \in Outstanding(d)
      BY <2>1, <2>2 DEF Outstanding, Posted
    <3>2. spc = "comm_wait" =>
             sendReq \in {"eager", "completed"} \/ Gone(repPeer)
      BY <1>2, <1>4
         DEF ServerStep, ServerStart, ServerThrow, ServerRequest, ServerDisconnect,
             ServerEstablish, ServerCommWait, send_wait, ServerClosePeer, ServerReply,
             ServerShutdown, ServerPeerLost, Gone
    <3> QED
      BY <2>2, <3>1, <3>2 DEF RendezvousInv
  <2> QED
    BY <1>1, <2>1, <2>2 DEF RendezvousInv, Gone
<1> QED
  BY <1>3, <1>4

LEMMA RendezvousClientStep ==
    ASSUME TypeOK, IInv, RendezvousInv,
           NEW c \in Clients, ClientStep(c) \/ ClientFail(c)
    PROVE  RendezvousInv'
<1>1. /\ UNCHANGED <<spc, repPeer>> /\ ~ Gone(c)
      /\ \A d \in Clients : Gone(d) => Gone(d)'
      /\ \A d \in Clients : d # c => UNCHANGED recvReq[d]
  BY OnlyItself DEF Gone, Dead, Final
<1>2. /\ spc = "comm_wait" => repPeer \in Clients
      /\ TransferMatchesPC(c)
      /\ \A m, n \in Outstanding(c) : m = n
      /\ recvReq \in [Clients -> UcxMessage \cup {NULL}]
  BY DEF IInv, CoreInv, PeerInv, ServerSocketMatchesPC, Serving, TransferInv,
         OneTransferPerIteration, TypeOK, TagTypeOK
<1>3. ASSUME UNCHANGED sendReq, \A d \in Clients : UNCHANGED Outstanding(d)
      PROVE  RendezvousInv'
  <2>1. ASSUME NEW d \in Clients, NEW m \in Outstanding(d)', m.proto = "rndv"
        PROVE  Gone(d)' \/ (spc' = "comm_wait" /\ repPeer' = d /\ sendReq' = "rndv")
    BY <1>1, <1>3, <2>1 DEF RendezvousInv
  <2>2. ASSUME spc' = "comm_wait", sendReq' = "rndv"
        PROVE  Gone(repPeer)' \/ \E m \in Outstanding(repPeer)' : m.proto = "rndv"
    <3>1. PICK p \in Clients : p = repPeer
      BY <1>1, <1>2, <2>2
    <3>2. Gone(p) \/ \E m \in Outstanding(p) : m.proto = "rndv"
      BY <1>1, <1>3, <2>2, <3>1 DEF RendezvousInv
    <3>3. Gone(p)' \/ \E m \in Outstanding(p)' : m.proto = "rndv"
      BY <1>1, <1>3, <3>2
    <3>4. repPeer' = p
      BY <1>1, <3>1
    <3> QED
      BY <3>3, <3>4
  <2> QED
    BY <1>1, <1>3, <2>1, <2>2 DEF RendezvousInv
<1>4. CASE ClientProbe(c)
  <2>1. PICK m \in net : /\ m.dst = c
                         /\ net' = net \ {m}
                         /\ recvReq' = [recvReq EXCEPT ![c] = m]
    BY <1>4 DEF ClientProbe, recv, get_address
  <2>2. recvReq[c] = NULL /\ UNCHANGED sendReq /\ m # NULL
    BY <1>2, <1>4, TagAssumption
       DEF ClientProbe, recv, TransferMatchesPC, TypeOK, TagTypeOK
  <2>3. m \in Outstanding(c) /\ Outstanding(c) = {m}
    BY <1>2, <2>1 DEF Outstanding, Posted
  <2>4. Outstanding(c)' = {m}
    BY <1>2, <2>1, <2>2, <2>3 DEF Outstanding, Posted
  <2>5. ASSUME NEW d \in Clients, d # c PROVE Outstanding(d)' = Outstanding(d)
    BY <1>1, <2>1, <2>5 DEF Outstanding, Posted
  <2> QED
    BY <1>3, <2>2, <2>3, <2>4, <2>5
<1>5. CASE ClientCommWait(c)
  <2>1. /\ recvReq[c] # NULL /\ UNCHANGED net
        /\ recvReq' = [recvReq EXCEPT ![c] = NULL]
        /\ sendReq' = IF recvReq[c].proto = "rndv" THEN "completed" ELSE sendReq
    BY <1>5 DEF ClientCommWait, recv_wait
  <2>2. recvReq[c] \in Outstanding(c)
    BY <2>1 DEF Outstanding
  <2>3. Outstanding(c)' = {}
    <3>1. Posted(c) = {}
      BY <1>2, <2>2 DEF TransferMatchesPC, Outstanding
    <3> QED
      BY <1>2, <2>1, <3>1 DEF Outstanding, Posted
  <2>4. ASSUME NEW d \in Clients, d # c PROVE Outstanding(d)' = Outstanding(d)
    BY <1>1, <2>1, <2>4 DEF Outstanding, Posted
  <2>5. recvReq[c].proto = "rndv" => repPeer = c
    BY <1>1, <2>2 DEF RendezvousInv
  <2>6. ASSUME NEW d \in Clients, NEW m \in Outstanding(d)', m.proto = "rndv"
        PROVE  Gone(d)' \/ (spc' = "comm_wait" /\ repPeer' = d /\ sendReq' = "rndv")
    <3>1. d # c /\ m \in Outstanding(d)
      BY <2>3, <2>4, <2>6
    <3>2. Gone(d) \/ (spc = "comm_wait" /\ repPeer = d /\ sendReq = "rndv")
      BY <2>6, <3>1 DEF RendezvousInv
    <3> QED
      BY <1>1, <2>1, <2>5, <3>1, <3>2
  <2>7. ASSUME spc' = "comm_wait", sendReq' = "rndv"
        PROVE  Gone(repPeer)' \/ \E m \in Outstanding(repPeer)' : m.proto = "rndv"
    <3>1. PICK p \in Clients : p = repPeer
      BY <1>1, <1>2, <2>7
    <3>2. recvReq[c].proto # "rndv" /\ sendReq = "rndv"
      BY <2>1, <2>7
    <3>3. Gone(p) \/ \E m \in Outstanding(p) : m.proto = "rndv"
      BY <1>1, <2>7, <3>1, <3>2 DEF RendezvousInv
    <3>4. p = c => Gone(p)
      BY <1>2, <2>2, <3>2, <3>3
    <3>5. Gone(p)' \/ \E m \in Outstanding(p)' : m.proto = "rndv"
      BY <1>1, <2>4, <3>3, <3>4
    <3>6. repPeer' = p
      BY <1>1, <3>1
    <3> QED
      BY <3>5, <3>6
  <2>8. spc' = "comm_wait" => sendReq' # "none"
    BY <1>1, <2>1 DEF RendezvousInv
  <2> QED
    BY <2>6, <2>7, <2>8 DEF RendezvousInv
<1>6. CASE ~ ClientProbe(c) /\ ~ ClientCommWait(c)
  <2>1. UNCHANGED tagVars
    BY <1>6 DEF ClientStep, ClientStart, ClientStarted, ClientBadReply, ClientBarrier,
                ClientRequest, ClientReply, ClientDisconnect, ClientShutdown,
                ClientFinalize, ClientFail
  <2> QED
    BY <1>3, <2>1 DEF tagVars, Outstanding, Posted
<1> QED
  BY <1>4, <1>5, <1>6

LEMMA RendezvousStep ==
    ASSUME TypeOK, IInv, "server" \notin Faults, RendezvousInv, [Next]_vars
    PROVE  RendezvousInv'
<1>1. CASE Terminated \/ UNCHANGED vars
  BY <1>1 DEF Terminated, vars, oobVars, tagVars, RendezvousInv, Outstanding, Posted, Gone
<1> QED
  BY <1>1, RendezvousServerStep, RendezvousClientStep DEF Next

LEMMA FarewellStep ==
    ASSUME TypeOK, IInv, IInv', WellConfigured, ~ LingerDrops, FarewellKept, [Next]_vars
    PROVE  FarewellKept'
<1>1. CASE Terminated \/ UNCHANGED vars
  BY <1>1 DEF Terminated, vars, oobVars, FarewellKept
<1>2. /\ ControlInv /\ PeerInv /\ ClientInv /\ spc' # "threw" /\ Connections = Clients
      /\ active \in [Clients -> BOOLEAN] /\ request \in [Clients -> Message \cup {NULL}]
  BY MatchingConnections
     DEF IInv, CoreInv, ControlInv, ProtocolNeverThrows, TypeOK, OOBTypeOK
<1>3. CASE ServerStep \/ ServerFail \/ ServerPeerLost
  <2>1. UNCHANGED cpc
    BY <1>3, ServerTypeStep DEF clientVars
  <2>2. ASSUME NEW c \in Clients, ServerStart(c) PROVE FarewellKept'
    <3>1. /\ request[c] = StartMsg(c) /\ request[c].rank = c
      BY <1>2, <2>2, MessageKinds DEF ServerStart, ValidStart, PeerInv, OwnRequest
    <3>2. cpc[c] \notin Left
      BY <1>2, <3>1, MessageKinds, NullIsNothing, MessagesAreMessages
         DEF ControlInv, RequestMatchesPC, Left, Iterating
    <3>3. \A d \in Clients : d # c => UNCHANGED <<active[d], request[d]>>
      BY <1>2, <2>2, <3>1 DEF ServerStart, ServerAnswer
    <3> QED
      BY <2>1, <3>2, <3>3 DEF FarewellKept
  <2>3. ASSUME NEW c \in Clients, ServerRequest(c) PROVE FarewellKept'
    <3>1. request[c] # NULL /\ request[c].msg_type = 1
          /\ UNCHANGED active /\ request' = [request EXCEPT ![c] = NULL]
      BY <2>3 DEF ServerRequest, ServerRecv
    <3>2. cpc[c] \notin Left
      BY <1>2, <3>1, MessageKinds DEF ControlInv, RequestMatchesPC, Left, Iterating
    <3> QED
      BY <1>2, <2>1, <3>1, <3>2 DEF FarewellKept
  <2>4. ASSUME NEW c \in Clients, ServerDisconnect(c) PROVE FarewellKept'
    <3>1. request[c].rank = c
      BY <1>2, <2>4, MessageKinds DEF ServerDisconnect, PeerInv, OwnRequest
    <3>2. /\ active' = [active EXCEPT ![c] = FALSE]
          /\ request' = [request EXCEPT ![c] = NULL]
      BY <2>4, <3>1 DEF ServerDisconnect, ServerAnswer
    <3> QED
      BY <1>2, <2>1, <3>2 DEF FarewellKept
  <2>5. ASSUME NEW c \in Clients PROVE ~ ServerThrow(c)
    BY <1>2 DEF ServerThrow
  <2>6. CASE \A c \in Clients : ~ ServerStart(c) /\ ~ ServerRequest(c) /\ ~ ServerDisconnect(c)
    <3>1. UNCHANGED <<active, request>>
      BY <1>3, <2>5, <2>6
         DEF ServerStep, ServerEstablish, ServerPost, ServerCommWait, ServerClosePeer,
             ServerReply, ServerShutdown, ServerFail, ServerPeerLost, ServerDies,
             ServerClose, ServerSend, oobVars
    <3> QED
      BY <2>1, <3>1 DEF FarewellKept
  <2> QED
    BY <2>2, <2>3, <2>4, <2>6
<1>4. ASSUME NEW c \in Clients, ClientStep(c) \/ ClientFail(c)
      PROVE  FarewellKept'
  <2>1. /\ UNCHANGED active
        /\ \A d \in Clients : d # c => UNCHANGED <<cpc[d], request[d]>>
    BY <1>4, OnlyItself
  <2>2. CASE ClientDisconnect(c)
    <3>1. reqSock[c] = "send"
      BY <1>2, <2>2 DEF ClientDisconnect, ClientInv, ClientSocketMatchesPC
    <3>2. request'[c] = DisconnectMsg(c)
      BY <1>2, <2>2, <3>1 DEF ClientDisconnect, ClientSend
    <3> QED
      BY <2>1, <3>2 DEF FarewellKept
  <2>3. CASE ClientShutdown(c) \/ ClientFinalize(c)
    <3>1. cpc[c] \in Left /\ UNCHANGED request
      BY <2>3 DEF ClientShutdown, ClientFinalize, ClientClose, oobVars, Left
    <3> QED
      BY <2>1, <3>1 DEF FarewellKept
  <2>4. CASE ~ ClientDisconnect(c) /\ ~ ClientShutdown(c) /\ ~ ClientFinalize(c)
    <3>1. cpc'[c] \notin Left
      BY <1>4, <2>4
         DEF TypeOK, Goto, ClientStep, ClientStart, ClientStarted, ClientBadReply,
             ClientBarrier, ClientRequest, ClientProbe, ClientCommWait, ClientReply,
             ClientFail, Left
    <3> QED
      BY <2>1, <3>1 DEF FarewellKept
  <2> QED
    BY <2>2, <2>3, <2>4
<1> QED
  BY <1>1, <1>3, <1>4 DEF Next

-----------------------------------------------------------------------------
(* Nobody can go on.                                                       *)

(* A client that has asked for something has its reply, or its request waits
   for a server that is stuck with, or died of, the death of another one, or
   the reply was lost with that server. *)
LEMMA StuckClients ==
    ASSUME TypeOK, IInv, WellConfigured, WaitInv, RendezvousInv, OrphansInv, Stuck
    PROVE  /\ spc = "comm_wait" => Gone(repPeer)
           /\ \A c \in Clients : ClientSettled(c)
<1>1. /\ OneConversation /\ PeerInv /\ ClientInv /\ ControlInv /\ TransferInv /\ MemberInv
      /\ ProtocolNeverThrows
  BY DEF IInv, CoreInv, ControlInv
<1>2. /\ spc \in {"start", "run", "comm_wait", "done", "failed"}
      /\ spc \in {"start", "run"} => \A c \in Clients : request[c] = NULL
      /\ spc = "comm_wait" => sendReq = "rndv"
  BY <1>1 DEF Stuck, ServerCanStep, ProtocolNeverThrows, RendezvousInv, TypeOK,
              TagTypeOK, ServerPC
<1>3. ASSUME NEW c \in Clients
      PROVE  /\ cpc[c] \in {"start_recv", "barrier", "probe", "reply", "finalize", "done"}
                  \/ Gone(c)
             /\ cpc[c] \in {"start_recv", "reply"} => reply[c] = NULL
             /\ cpc[c] = "barrier" => arrived # Clients
             /\ cpc[c] = "probe" =>
                   \A m \in net : ~ (m.dst = get_address(c) /\ m.tag = get_tag(c))
             /\ cpc[c] = "finalize" =>
                   \E d \in Clients : cpc[d] \notin {"finalize", "done"}
  <2>1. ~ ClientCanStep(c)
    BY DEF Stuck
  <2>2. cpc[c] # "comm_wait"
    <3> SUFFICES ASSUME cpc[c] = "comm_wait" PROVE FALSE
      OBVIOUS
    <3>1. recvReq[c] \in Outstanding(c) /\ recvReq[c] # NULL /\ ~ Gone(c)
      BY DEF WaitInv, Outstanding, Gone, Dead
    <3>2. recvReq[c].proto = "rndv" => sendReq = "rndv"
      BY <3>1 DEF RendezvousInv
    <3> QED
      BY <2>1, <3>1, <3>2 DEF ClientCanStep
  <2>3. cpc[c] \in ClientPC
    BY DEF TypeOK
  <2> QED
    BY <2>1, <2>2, <2>3 DEF ClientCanStep, ClientPC, Gone, Dead
<1>4. ASSUME NEW c \in Clients, cpc[c] = "probe", served[c] = iter[c] + 1
      PROVE  Starved(c)
  <2>1. recvReq[c] = NULL
    BY <1>1, <1>4 DEF TransferInv, TransferMatchesPC
  <2>2. Posted(c) = {}
    BY <1>1, <1>3, <1>4
       DEF TransferInv, OneTransferPerIteration, Outstanding, Posted, get_address, get_tag
  <2> QED
    BY <1>4, <2>1, <2>2 DEF Starved, Outstanding
<1>5. ASSUME spc = "comm_wait" PROVE Gone(repPeer)
  <2>1. PICK p \in Clients : p = repPeer
    BY <1>1, <1>5 DEF PeerInv, ServerSocketMatchesPC, Serving
  <2> SUFFICES ASSUME ~ Gone(p) PROVE FALSE
    BY <2>1
  <2>2. Outstanding(p) # {}
    BY <1>2, <1>5, <2>1 DEF RendezvousInv
  <2>3. cpc[p] \in Iterating /\ served[p] = iter[p] + 1
    BY <1>1, <1>5, <2>1 DEF TransferInv, TransferMatchesPC, Gone
  <2>4. cpc[p] \in {"probe", "reply"}
    BY <1>3, <2>3 DEF Iterating
  <2> QED
    BY <1>1, <1>4, <2>2, <2>3, <2>4 DEF Starved, TransferInv, TransferMatchesPC
<1>6. ASSUME NEW c \in Clients, cpc[c] \in {"start_recv", "probe", "reply"}
      PROVE  \/ reply[c] # NULL
             \/ request[c] # NULL /\ spc \in {"comm_wait", "failed"}
             \/ AnswerLost(c) /\ spc = "failed"
  <2>1. reqSock[c] = "recv"
    BY <1>1, <1>6 DEF ClientInv, ClientSocketMatchesPC, Iterating
  <2>2. spc # "done"
    BY <1>1, <1>6, EndedServer DEF HasLeft, Left, Dead
  <2>3. CASE spc = "failed"
    BY <2>1, <2>3 DEF OrphansInv
  <2>4. CASE spc # "failed"
    <3>1. repSock # "closed"
      BY <1>1, <1>2, <2>2, <2>4 DEF PeerInv, ServerSocketMatchesPC, Serving
    <3>2. ~ Answering(c)
      <4> SUFFICES ASSUME Answering(c) PROVE FALSE
        OBVIOUS
      <4>1. spc = "comm_wait" /\ repPeer = c
        BY <1>1, <1>2, <2>2, <2>4 DEF Answering, PeerInv, ServerSocketMatchesPC
      <4> QED
        BY <1>5, <1>6, <4>1 DEF Gone, Dead
    <3>3. request[c] # NULL \/ reply[c] # NULL
      BY <1>1, <2>1, <3>1, <3>2 DEF OneConversation
    <3> QED
      BY <1>2, <2>2, <3>3
  <2> QED
    BY <2>3, <2>4
<1>7. ASSUME NEW c \in Clients
      PROVE  cpc[c] # "start_recv" /\ (cpc[c] = "reply" => Unanswered(c))
  <2> SUFFICES ASSUME cpc[c] \in {"start_recv", "reply"}, ~ Unanswered(c) PROVE FALSE
    BY DEF Unanswered
  <2>1. request[c] # NULL /\ spc \in {"comm_wait", "failed"}
    <3>1. ~ (AnswerLost(c) /\ spc = "failed")
      BY <1>3 DEF AnswerLost, Unanswered, Iterating
    <3> QED
      BY <1>3, <1>6, <3>1
  <2>2. CASE cpc[c] = "start_recv"
    <3>1. spc = "failed"
      BY <1>1, <2>1, <2>2 DEF ControlInv, RequestMatchesPC, Iterating, Left
    <3> QED
      BY <2>2, <3>1 DEF OrphansInv, WaitInv
  <2>3. CASE cpc[c] = "reply"
    <3>1. request[c].msg_type = 1
      BY <1>1, <2>1, <2>3, MessageKinds DEF ControlInv, RequestMatchesPC, Left
    <3>2. served[c] = iter[c] /\ served[c] = iter[c] + 1
      BY <1>1, <2>1, <2>3, <3>1 DEF TransferInv, TransferMatchesPC, Awaiting, Unserved
    <3> QED
      BY <3>2 DEF TypeOK
  <2> QED
    BY <2>2, <2>3
<1>8. ASSUME NEW c \in Clients, cpc[c] = "probe"
      PROVE  Starved(c) \/ (request[c] # NULL /\ spc \in {"comm_wait", "failed"})
  <2>1. CASE reply[c] # NULL
    <3>1. reply[c] = "iter_ok"
      BY <1>1, <1>8, <2>1 DEF ControlInv, ReplyMatchesPC, TypeOK, OOBTypeOK, Reply
    <3> QED
      BY <1>1, <1>4, <1>8, <3>1 DEF TransferInv, OneTransferPerIteration
  <2>2. CASE AnswerLost(c)
    BY <1>4, <1>8, <2>2 DEF AnswerLost
  <2> QED
    BY <1>6, <1>8, <2>1, <2>2
<1>9. ASSUME NEW c \in Clients, cpc[c] = "barrier"
      PROVE  \E d \in Clients : d \notin arrived /\ Gone(d)
  <2>1. PICK d \in Clients : d \notin arrived
    BY <1>3, <1>9 DEF TypeOK
  <2>2. arrived # Clients
    BY <2>1
  <2>3. Gone(d)
    BY <1>1, <1>3, <1>7, <2>1, <2>2 DEF ClientInv, BehindBarrier, Iterating, Left
  <2> QED
    BY <2>1, <2>3
<1> QED
  BY <1>3, <1>5, <1>7, <1>8, <1>9 DEF ClientSettled

LEMMA StuckServer ==
    ASSUME TypeOK, IInv, WellConfigured, WaitInv, RendezvousInv, OrphansInv, Stuck
    PROVE  ServerSettled
<1>1. /\ PeerInv /\ ClientInv /\ ControlInv /\ ProtocolNeverThrows /\ Connections = Clients
  BY MatchingConnections DEF IInv, CoreInv, ControlInv
<1>2. /\ spc \in {"start", "run", "comm_wait", "done", "failed"}
      /\ spc \in {"start", "run"} => \A c \in Clients : request[c] = NULL
  BY <1>1 DEF Stuck, ServerCanStep, ProtocolNeverThrows, TypeOK, ServerPC
<1>3. \A c \in Clients :
         \/ Gone(c) \/ Starved(c)
         \/ cpc[c] = "probe" /\ request[c] # NULL
         \/ cpc[c] \in {"barrier", "finalize", "done"}
         \/ spc = "failed"
  BY StuckClients DEF ClientSettled, Unanswered
<1>4. CASE spc = "start"
  <2>1. PICK k \in Clients : ~ active[k]
    BY <1>1, <1>4 DEF ControlInv
  <2>2. cpc[k] \notin {"barrier", "probe"}
    BY <1>1, <2>1 DEF ControlInv, ActiveMatchesPC, Iterating
  <2>3. cpc[k] \notin {"finalize", "done"}
    BY <1>1, <1>4, <2>1 DEF ControlInv, ActiveMatchesPC, ClientInv, BehindBarrier, Left
  <2> QED
    BY <1>3, <1>4, <2>1, <2>2, <2>3 DEF ServerSettled, Starved
<1>5. CASE spc = "run"
  <2>1. PICK k \in Clients : active[k]
    BY <1>1, <1>5 DEF WaitInv, AllUnactive
  <2> QED
    BY <1>2, <1>3, <1>5, <2>1 DEF ServerSettled
<1>6. CASE spc \in {"comm_wait", "failed"}
  BY <1>6, StuckClients DEF OrphansInv, ServerSettled
<1> QED
  BY <1>2, <1>4, <1>5, <1>6 DEF ServerSettled

LEMMA Unstuck ==
    ASSUME TypeOK, IInv, WellConfigured, WaitInv, RendezvousInv, OrphansInv,
           StillPosted, NoFailure, FarewellKept, Stuck
    PROVE  AllDone
<1>1. \A c \in Clients : ~ Gone(c)
  BY DEF NoFailure, Gone, Dead, IInv, CoreInv, ControlInv, ProtocolNeverThrows
<1>2. \A c \in Clients : ~ Starved(c)
  BY DEF Starved, StillPosted, Outstanding
<1>3. spc = "done"
  <2>1. ASSUME spc = "run", NEW c \in Clients, active[c], request[c] = NULL,
               cpc[c] \in {"barrier", "finalize", "done"}
        PROVE  FALSE
    <3>1. CASE cpc[c] = "barrier"
      BY <1>1, <2>1, <3>1, StuckClients DEF ClientSettled, Starved, Unanswered
    <3>2. CASE cpc[c] \in {"finalize", "done"}
      BY <2>1, <3>2, MessagesAreMessages, NullIsNothing DEF FarewellKept, Left
    <3> QED
      BY <2>1, <3>1, <3>2
  <2>2. spc # "start" /\ spc # "comm_wait" /\ spc # "failed"
    BY <1>1, StuckServer, StuckClients
       DEF ServerSettled, NoFailure, IInv, CoreInv, PeerInv, ServerSocketMatchesPC, Serving
  <2> QED
    BY <1>1, <1>2, <2>1, <2>2, StuckServer DEF ServerSettled
<1>4. \A c \in Clients : cpc[c] \in {"finalize", "done"}
  BY <1>1, <1>2, <1>3, StuckClients DEF ClientSettled, Unanswered
<1>5. \A c \in Clients : cpc[c] # "finalize"
  BY <1>4 DEF Stuck, ClientCanStep
<1> QED
  BY <1>3, <1>4, <1>5 DEF AllDone

(* The half of NothingElseBlocks that says nothing of what can be done: while
   what a process waits for is not there, it takes no step. *)
LEMMA ServerWaits == ServerStep => ServerCanStep
  BY DEF ServerStep, ServerStart, ServerThrow, ServerRequest, ServerDisconnect,
         ServerEstablish, ServerPost, ServerCommWait, send_wait, ServerClosePeer,
         ServerReply, ServerShutdown, ServerCanStep

LEMMA ClientWaits == ASSUME NEW c \in Clients PROVE ClientStep(c) => ClientCanStep(c)
  BY DEF ClientStep, ClientStart, ClientStarted, ClientBadReply, ClientRecv,
         ClientBarrier, ClientRequest, ClientProbe, recv, ClientCommWait, recv_wait,
         ClientReply, ClientDisconnect, ClientShutdown, ClientFinalize, ClientCanStep

(* A stuck system stays as it is, but for further failures. *)
THEOREM StuckIsFinal ==
    Spec => [][Stuck => ServerFail \/ ServerPeerLost \/ \E c \in Clients : ClientFail(c)]_vars
<1>1. [Next]_vars =>
        [Stuck => ServerFail \/ ServerPeerLost \/ \E c \in Clients : ClientFail(c)]_vars
  BY ServerWaits, ClientWaits DEF Next, Stuck, Terminated
<1> QED
  BY <1>1, PTL DEF Spec

LEMMA WaitInitial == Init => WaitInv /\ RendezvousInv /\ OrphansInv /\ FarewellKept
  BY DEF Init, TagInit, WaitInv, RendezvousInv, OrphansInv, FarewellKept, Outstanding,
         Posted, Left

(* When clients die, and with them perhaps the server, and closes lose messages,
   requests and replies, nobody waits but for what was lost, for any number of
   clients and iterations. *)
THEOREM StuckIsSettled == Spec => []StuckMeansSettled
<1> DEFINE Waits == ("server" \notin Faults /\ WellConfigured)
                       => RendezvousInv /\ OrphansInv
<1>1. Init => WaitInv /\ Waits
  BY WaitInitial
<1>2. TypeOK /\ IInv /\ WaitInv /\ Waits /\ [Next]_vars => (WaitInv /\ Waits)'
  BY WaitStep, RendezvousStep, OrphansStep DEF WellConfigured
<1>3. TypeOK /\ IInv /\ WaitInv /\ Waits => StuckMeansSettled
  BY StuckClients, StuckServer DEF StuckMeansSettled
<1> QED
  BY <1>1, <1>2, <1>3, Invariance, TypeCorrect, PTL DEF Spec

(* Where nothing fails and nothing is lost, the processes never wait for each
   other in a circle, for any number of clients and iterations. *)
THEOREM DeadlockFree == Spec => []NoDeadlock
<1> DEFINE Calm  == WellConfigured /\ Faults = {} /\ ~ ForceDiscards /\ ~ LingerDrops
           Waits == /\ RendezvousInv /\ OrphansInv /\ StillPosted /\ NoFailure
                    /\ FarewellKept
<1>1. Init => WaitInv /\ (Calm => Waits)
  BY WaitInitial DEF Init, StillPosted, NoFailure
<1>2. TypeOK /\ IInv /\ IInv' /\ WaitInv /\ (Calm => Waits) /\ [Next]_vars
         => (WaitInv /\ (Calm => Waits))'
  BY WaitStep, RendezvousStep, OrphansStep, StillPostedStep, NoFailureStep, FarewellStep
     DEF WellConfigured
<1>3. TypeOK /\ IInv /\ WaitInv /\ (Calm => Waits) => NoDeadlock
  BY Unstuck DEF NoDeadlock
<1> QED
  BY <1>1, <1>2, <1>3, Invariance, TypeCorrect, PTL DEF Spec

-----------------------------------------------------------------------------
(* Large messages.                                                         *)

(* A large message is under way to client c. *)
Large(c) == \E m \in Outstanding(c) : m.proto = "rndv"

Held(c) == /\ repPeer = c
           /\ reply[c] = NULL
           /\ (spc = "comm_wait" /\ sendReq = "rndv") \/ spc = "failed"

LEMMA LargeServerStep ==
    ASSUME TypeOK, IInv, LargeSendsAreHeld, ServerStep \/ ServerFail \/ ServerPeerLost
    PROVE  LargeSendsAreHeld'
<1>1. \A d \in Clients : Large(d) => Held(d)
  BY DEF LargeSendsAreHeld, Large, Held
<1>2. PeerInv /\ TransferInv /\ OneConversation
  BY DEF IInv, CoreInv
<1>3. CASE ServerPost
  <2>1. PICK p \in Clients : p = repPeer
    BY <1>2, <1>3 DEF ServerPost, PeerInv, ServerSocketMatchesPC, Serving
  <2>2. m_remote_ep = p /\ m_remote_ep # NULL /\ spc = "send" /\ repSock = "send"
    BY <1>2, <1>3, <2>1, NullIsNothing
       DEF ServerPost, PeerInv, NoStalePeer, ServerSocketMatchesPC, Serving
  <2>3. /\ spc' = "comm_wait" /\ send /\ UNCHANGED <<repPeer, reply, recvReq>>
    BY <1>3, <2>2 DEF ServerPost, oobVars, send
  <2>4. PICK proto \in Protocols :
          /\ net' = net \cup {[dst |-> p, tag |-> m_tag, len |-> ServerSize,
                               seq |-> served[p] + 1, proto |-> proto]}
          /\ sendReq' = proto
    BY <2>2, <2>3 DEF send
  <2>5. Outstanding(p) = {} /\ reply[p] = NULL
    BY <1>2, <2>1, <2>2
       DEF TransferInv, TransferMatchesPC, Awaiting, Unserved, OneConversation, Answering
  <2>6. Large(p)' => sendReq' = "rndv"
    BY <2>3, <2>4, <2>5 DEF Large, Outstanding, Posted
  <2>7. ASSUME NEW d \in Clients, d # p PROVE ~ Large(d)'
    <3>1. Outstanding(d)' = Outstanding(d)
      BY <2>3, <2>4, <2>7 DEF Outstanding, Posted
    <3> QED
      BY <1>1, <2>2, <3>1 DEF Large, Held
  <2>8. repPeer' = p /\ reply'[p] = NULL
    BY <2>1, <2>3, <2>5
  <2> QED
    BY <2>3, <2>6, <2>7, <2>8 DEF LargeSendsAreHeld, Large
<1>4. CASE ServerFail \/ ServerPeerLost
  <2>1. /\ spc' = "failed" /\ UNCHANGED <<repPeer, net, recvReq>>
        /\ \A d \in Clients : reply'[d] \in {reply[d], NULL}
    BY <1>4, RepliesLeft DEF ServerFail, ServerPeerLost, ServerDies, ServerClose, TypeOK
  <2>2. \A d \in Clients : Large(d)' => Large(d)
    BY <2>1 DEF Large, Outstanding, Posted
  <2> QED
    BY <1>1, <2>1, <2>2 DEF LargeSendsAreHeld, Large, Held
<1>5. CASE ~ ServerPost /\ ~ ServerFail /\ ~ ServerPeerLost
  <2>1. UNCHANGED recvReq /\ net' \subseteq net
    BY <1>5
       DEF ServerStep, ServerStart, ServerThrow, ServerRequest, ServerDisconnect,
           ServerEstablish, ServerCommWait, ServerClosePeer, ServerReply,
           ServerShutdown, tagVars, establish_connection, send_wait, close_connection
  <2>2. spc # "failed" /\ (spc = "comm_wait" => sendReq # "rndv")
    BY <1>5
       DEF ServerStep, ServerStart, ServerThrow, ServerRequest, ServerDisconnect,
           ServerEstablish, ServerCommWait, send_wait, ServerClosePeer, ServerReply,
           ServerShutdown
  <2>3. \A d \in Clients : Outstanding(d)' \subseteq Outstanding(d)
    BY <2>1 DEF Outstanding, Posted
  <2>4. \A d \in Clients : ~ Large(d)'
    BY <1>1, <2>2, <2>3 DEF Large, Held
  <2> QED
    BY <2>4 DEF LargeSendsAreHeld, Large
<1> QED
  BY <1>3, <1>4, <1>5

LEMMA LargeClientStep ==
    ASSUME TypeOK, IInv, LargeSendsAreHeld,
           NEW c \in Clients, ClientStep(c) \/ ClientFail(c)
    PROVE  LargeSendsAreHeld'
<1>1. \A d \in Clients : Large(d) => Held(d)
  BY DEF LargeSendsAreHeld, Large, Held
<1>2. /\ UNCHANGED <<spc, repPeer>>
      /\ \A d \in Clients : d # c => UNCHANGED <<reply[d], recvReq[d]>>
  BY OnlyItself
<1>3. reply'[c] \in {reply[c], NULL}
  BY DEF TypeOK, OOBTypeOK, ClientStep, ClientStart, ClientStarted, ClientBadReply,
         ClientBarrier, ClientRequest, ClientProbe, ClientCommWait, ClientReply,
         ClientDisconnect, ClientShutdown, ClientFinalize, ClientFail, ClientSend,
         ClientRecv, ClientClose, oobVars
<1>4. ASSUME UNCHANGED sendReq, \A d \in Clients : Outstanding(d)' \subseteq Outstanding(d)
      PROVE  LargeSendsAreHeld'
  <2>1. \A d \in Clients : Large(d)' => Large(d)
    BY <1>4 DEF Large
  <2>2. \A d \in Clients : Large(d) => Held(d)'
    BY <1>1, <1>2, <1>3, <1>4 DEF Held
  <2> QED
    BY <2>1, <2>2 DEF LargeSendsAreHeld, Large, Held
<1>5. CASE ClientProbe(c)
  <2>1. PICK m \in net : /\ m.dst = c
                         /\ net' = net \ {m}
                         /\ recvReq' = [recvReq EXCEPT ![c] = m]
    BY <1>5 DEF ClientProbe, recv, get_address
  <2>2. UNCHANGED sendReq /\ recvReq \in [Clients -> UcxMessage \cup {NULL}]
    BY <1>5 DEF ClientProbe, recv, TypeOK, TagTypeOK
  <2>3. \A d \in Clients : Outstanding(d)' \subseteq Outstanding(d)
    BY <1>2, <2>1, <2>2 DEF Outstanding, Posted
  <2> QED
    BY <1>4, <2>2, <2>3
<1>6. CASE ClientCommWait(c)
  <2>1. /\ recvReq[c] # NULL /\ UNCHANGED net
        /\ recvReq' = [recvReq EXCEPT ![c] = NULL]
        /\ sendReq' = IF recvReq[c].proto = "rndv" THEN "completed" ELSE sendReq
        /\ recvReq \in [Clients -> UcxMessage \cup {NULL}]
    BY <1>6 DEF ClientCommWait, recv_wait, TypeOK, TagTypeOK
  <2>2. \A d \in Clients : Outstanding(d)' \subseteq Outstanding(d)
    BY <1>2, <2>1 DEF Outstanding, Posted
  <2>3. CASE recvReq[c].proto # "rndv"
    BY <1>4, <2>1, <2>2, <2>3
  <2>4. CASE recvReq[c].proto = "rndv"
    <3>1. recvReq[c] \in Outstanding(c) /\ Large(c)
      BY <2>1, <2>4 DEF Outstanding, Large
    <3>2. \A d \in Clients : d # c => ~ Large(d)'
      BY <1>1, <2>2, <3>1 DEF Large, Held
    <3>3. ~ Large(c)'
      <4>1. Posted(c) = {}
        BY <3>1
           DEF IInv, TransferInv, TransferMatchesPC, OneTransferPerIteration, Outstanding
      <4>2. Outstanding(c)' = {}
        BY <2>1, <4>1 DEF Outstanding, Posted
      <4> QED
        BY <4>2 DEF Large
    <3> QED
      BY <3>2, <3>3 DEF LargeSendsAreHeld, Large
  <2> QED
    BY <2>3, <2>4
<1>7. CASE ~ ClientProbe(c) /\ ~ ClientCommWait(c)
  <2>1. UNCHANGED tagVars
    BY <1>7 DEF ClientStep, ClientStart, ClientStarted, ClientBadReply, ClientBarrier,
                ClientRequest, ClientReply, ClientDisconnect, ClientShutdown,
                ClientFinalize, ClientFail
  <2>2. UNCHANGED sendReq /\ \A d \in Clients : UNCHANGED Outstanding(d)
    BY <2>1 DEF tagVars, Outstanding, Posted
  <2> QED
    BY <1>4, <2>2
<1> QED
  BY <1>5, <1>6, <1>7

(* The server never lets go of a large message that has not been fetched: it
   neither frees the request, nor closes the endpoint, nor acknowledges, nor
   serves another client; whatever fails, is lost or is misconfigured. *)
THEOREM LargeMessagesAreKept == Spec => []LargeSendsAreHeld
<1>1. Init => LargeSendsAreHeld
  BY DEF Init, TagInit, LargeSendsAreHeld, Outstanding, Posted
<1>2. TypeOK /\ IInv /\ LargeSendsAreHeld /\ [Next]_vars => LargeSendsAreHeld'
  <2>1. ASSUME LargeSendsAreHeld, Terminated \/ UNCHANGED vars
        PROVE  LargeSendsAreHeld'
    BY <2>1 DEF Terminated, vars, oobVars, tagVars, LargeSendsAreHeld, Outstanding, Posted
  <2> QED
    BY <2>1, LargeServerStep, LargeClientStep DEF Next
<1> QED
  BY <1>1, <1>2, Invariance, TypeCorrect, PTL DEF Spec
=============================================================================
