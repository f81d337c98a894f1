--------------------------- MODULE OOBCommProofs ---------------------------
(***************************************************************************)
(* Proofs about the control channel, for any number of clients and any use *)
(* of it: the type invariant, OneConversation, and that the sockets        *)
(* implement Conversation.  The step lemmas are used again for the whole   *)
(* system in PerftestProofs.                                               *)
(***************************************************************************)
EXTENDS OOBComm, TLAPS

USE DEF SockState

(* The empty slot is neither a message nor a reply, and no peer. *)
LEMMA NullIsNothing ==
    NULL \notin Message /\ NULL \notin Reply /\ NULL \notin Clients
  BY BaseAssumption DEF Clients

(* When the server's socket ends, a reply stays as it is or is lost; it is lost
   only where lingering drops what is queued. *)
LEMMA RepliesLeft ==
    ASSUME OOBTypeOK, RepliesMayDrop
    PROVE  /\ reply' \in [Clients -> Reply \cup {NULL}]
           /\ \A c \in Clients : reply'[c] = reply[c]
                                \/ (LingerDrops /\ reply[c] # NULL /\ reply'[c] = NULL)
  BY DEF OOBTypeOK, RepliesMayDrop

(* Whatever a side of the channel does keeps the types of its state. *)
LEMMA OOBTypeStep ==
    ASSUME OOBTypeOK, [OOBNext]_oobVars
    PROVE  OOBTypeOK'
<1>1. CASE UNCHANGED oobVars
  BY <1>1 DEF OOBTypeOK, oobVars
<1>2. ASSUME NEW c \in Clients, NEW m \in Message, ClientSend(c, m)
      PROVE  OOBTypeOK'
  BY <1>2 DEF OOBTypeOK, ClientSend
<1>3. ASSUME NEW c \in Clients, NEW r \in Reply, ClientRecv(c, r)
      PROVE  OOBTypeOK'
  BY <1>3 DEF OOBTypeOK, ClientRecv
<1>4. ASSUME NEW c \in Clients, ClientClose(c)
      PROVE  OOBTypeOK'
  BY <1>4 DEF OOBTypeOK, ClientClose
<1>5. ASSUME NEW c \in Clients, ServerRecv(c)
      PROVE  OOBTypeOK'
  BY <1>5 DEF OOBTypeOK, ServerRecv
<1>6. ASSUME NEW c \in Clients, ServerAbandon(c)
      PROVE  OOBTypeOK'
  BY <1>6, RepliesLeft DEF OOBTypeOK, ServerAbandon
<1>7. ASSUME NEW c \in Clients, NEW r \in Reply, ServerAnswer(c, r)
      PROVE  OOBTypeOK'
  BY <1>7 DEF OOBTypeOK, ServerAnswer, Delivered
<1>8. ASSUME NEW r \in Reply, ServerSend(r)
      PROVE  OOBTypeOK'
  BY <1>8 DEF OOBTypeOK, ServerSend, Delivered
<1>9. CASE ServerClose
  BY <1>9, RepliesLeft DEF OOBTypeOK, ServerClose
<1> QED
  BY <1>1, <1>2, <1>3, <1>4, <1>5, <1>6, <1>7, <1>8, <1>9 DEF OOBNext

(* No call of either side brings a second copy of a conversation about or
   makes one vanish between two open sockets. *)
LEMMA OneConversationStep ==
    ASSUME OOBTypeOK, OneConversation, [OOBNext]_oobVars
    PROVE  OneConversation'
<1> USE NullIsNothing DEF OOBTypeOK, OneConversation, Answering
<1>1. CASE UNCHANGED oobVars
  BY <1>1 DEF oobVars
<1>2. ASSUME NEW c \in Clients, NEW m \in Message, ClientSend(c, m)
      PROVE  OneConversation'
  BY <1>2 DEF ClientSend
<1>3. ASSUME NEW c \in Clients, NEW r \in Reply, ClientRecv(c, r)
      PROVE  OneConversation'
  BY <1>3 DEF ClientRecv
<1>4. ASSUME NEW c \in Clients, ClientClose(c)
      PROVE  OneConversation'
  BY <1>4 DEF ClientClose
<1>5. ASSUME NEW c \in Clients, ServerRecv(c)
      PROVE  OneConversation'
  BY <1>5 DEF ServerRecv
<1>6. ASSUME NEW c \in Clients, ServerAbandon(c)
      PROVE  OneConversation'
  BY <1>6, RepliesLeft DEF ServerAbandon
<1>7. ASSUME NEW c \in Clients, NEW r \in Reply, ServerAnswer(c, r)
      PROVE  OneConversation'
  BY <1>7 DEF ServerAnswer, Delivered
<1>8. ASSUME NEW r \in Reply, ServerSend(r)
      PROVE  OneConversation'
  BY <1>8 DEF ServerSend, Delivered
<1>9. CASE ServerClose
  BY <1>9, RepliesLeft DEF ServerClose
<1> QED
  BY <1>1, <1>2, <1>3, <1>4, <1>5, <1>6, <1>7, <1>8, <1>9 DEF OOBNext

LEMMA OOBInitial ==
    OOBInit => OOBTypeOK /\ OneConversation
  BY NullIsNothing DEF OOBInit, OOBTypeOK, OneConversation, Answering

(* The control channel of oob_comm.cpp keeps at most one conversation per
   client, in one place, however its two sides use it. *)
THEOREM OneConversationAlways == OOBSpec => [](OOBTypeOK /\ OneConversation)
<1>1. OOBInit => OOBTypeOK /\ OneConversation
  BY OOBInitial
<1>2. OOBTypeOK /\ OneConversation /\ [OOBNext]_oobVars
         => (OOBTypeOK /\ OneConversation)'
  BY OOBTypeStep, OneConversationStep
<1> QED
  BY <1>1, <1>2, PTL DEF OOBSpec

-----------------------------------------------------------------------------
(* The sockets implement Conversation.                                     *)

(* The server answers somebody. *)
PeerKnown == repSock = "send" => repPeer \in Clients

LEMMA PeerKnownStep ==
    ASSUME PeerKnown, [OOBNext]_oobVars
    PROVE  PeerKnown'
  BY DEF PeerKnown, OOBNext, oobVars, ClientSend, ClientRecv, ClientClose, ServerRecv,
         ServerAbandon, ServerAnswer, ServerSend, ServerClose

(* Client c's conversation does not change. *)
Quiet(c) == UNCHANGED <<StageOf(c), WordOf(c)>>

LEMMA MapQuiet ==
    ASSUME \A d \in Clients : Quiet(d) /\ UNCHANGED (reqSock[d] # "closed"),
           UNCHANGED (repSock # "closed")
    PROVE  UNCHANGED CV!vars
  BY DEF CV!vars, Quiet

(* The mapping of a step that moves the conversation of one client. *)
LEMMA MapTurn ==
    ASSUME NEW c \in Clients, NEW s, NEW w, StageOf(c)' = s, WordOf(c)' = w,
           \A d \in Clients : d # c => Quiet(d)
    PROVE  CV!Turn(c, s, w)
  BY DEF CV!Turn, Quiet

LEMMA MapUnchanged ==
    ASSUME \A d \in Clients : UNCHANGED (reqSock[d] # "closed")
    PROVE  UNCHANGED {d \in Clients : reqSock[d] # "closed"}
  OBVIOUS

LEMMA HandsFreeHere ==
    ASSUME OneConversation, repSock = "recv"
    PROVE  CV!HandsFree
  BY DEF CV!HandsFree, OneConversation, StageOf, Answering

(* What each call does to the conversation of its client. *)
LEMMA ClientSendConverses ==
    ASSUME OOBTypeOK, OneConversation, NEW c \in Clients, NEW m \in Message,
           ClientSend(c, m)
    PROVE  CV!Ask(c, m) \/ UNCHANGED CV!vars
<1>1. CASE reqSock[c] # "send"
  BY <1>1, MapQuiet DEF ClientSend, Quiet, StageOf, WordOf, Answering
<1>2. CASE reqSock[c] = "send"
  <2>1. StageOf(c) = "idle" /\ StageOf(c)' = "asked" /\ WordOf(c)' = m
    BY <1>2, NullIsNothing DEF ClientSend, OOBTypeOK, StageOf, WordOf
  <2>2. \A d \in Clients : d # c => Quiet(d)
    BY <1>2 DEF ClientSend, OOBTypeOK, Quiet, StageOf, WordOf, Answering
  <2>3. CV!Turn(c, "asked", m)
    BY <2>1, <2>2, MapTurn
  <2>4. UNCHANGED {d \in Clients : reqSock[d] # "closed"} /\ UNCHANGED repSock
    BY <1>2, MapUnchanged DEF ClientSend, OOBTypeOK
  <2> QED
    BY <1>2, <2>1, <2>3, <2>4 DEF CV!Ask
<1> QED
  BY <1>1, <1>2

LEMMA ClientRecvConverses ==
    ASSUME OOBTypeOK, OneConversation, NEW c \in Clients, NEW r \in Reply,
           ClientRecv(c, r)
    PROVE  CV!Receive(c)
<1>1. request[c] = NULL /\ ~ Answering(c)
  BY DEF ClientRecv, OneConversation
<1>2. StageOf(c) = "answered" /\ StageOf(c)' = "idle" /\ WordOf(c)' = NULL
  BY <1>1 DEF ClientRecv, OOBTypeOK, StageOf, WordOf
<1>3. \A d \in Clients : d # c => Quiet(d)
  BY DEF ClientRecv, OOBTypeOK, Quiet, StageOf, WordOf, Answering
<1>4. CV!Turn(c, "idle", NULL)
  BY <1>2, <1>3, MapTurn
<1>5. UNCHANGED {d \in Clients : reqSock[d] # "closed"} /\ UNCHANGED repSock
  BY MapUnchanged DEF ClientRecv, OOBTypeOK
<1>6. reqSock[c] # "closed"
  BY DEF ClientRecv
<1> QED
  BY <1>2, <1>4, <1>5, <1>6 DEF CV!Receive

LEMMA ClientCloseConverses ==
    ASSUME OOBTypeOK, OneConversation, NEW c \in Clients, ClientClose(c)
    PROVE  CV!Leave(c)
<1> USE DEF OOBTypeOK
<1>1. \A d \in Clients : d # c => Quiet(d)
  BY DEF ClientClose, Quiet, StageOf, WordOf, Answering
<1>2. reqSock[c] # "closed" /\ reqSock'[c] = "closed" /\ UNCHANGED repSock
  BY DEF ClientClose
<1>3. {d \in Clients : reqSock[d] # "closed"}'
         = {d \in Clients : reqSock[d] # "closed"} \ {c}
  BY DEF ClientClose
<1>4. CASE StageOf(c) \in {"idle", "answered"}
  <2>1. request[c] = NULL /\ ~ Answering(c)
    BY <1>4 DEF OneConversation, StageOf
  <2>2. StageOf(c)' = "over" /\ WordOf(c)' = NULL
    BY <2>1 DEF ClientClose, StageOf, WordOf, Answering
  <2>3. CV!Turn(c, "over", NULL)
    BY <1>1, <2>2, MapTurn
  <2> QED
    BY <1>2, <1>3, <1>4, <2>3 DEF CV!Leave
<1>5. CASE StageOf(c) \notin {"idle", "answered"}
  <2>1. reqSock[c] # "send" /\ reply[c] = NULL
    BY <1>5 DEF OneConversation, StageOf
  <2>2. CASE UNCHANGED request
    <3>1. Quiet(c)
      BY <1>2, <2>1, <2>2 DEF ClientClose, Quiet, StageOf, WordOf, Answering
    <3>2. UNCHANGED <<[d \in Clients |-> StageOf(d)], [d \in Clients |-> WordOf(d)]>>
      BY <1>1, <3>1 DEF Quiet
    <3> QED
      BY <1>2, <1>3, <1>5, <3>2 DEF CV!Leave
  <2>3. CASE LingerDrops /\ request[c] # NULL /\ request' = [request EXCEPT ![c] = NULL]
    <3>1. StageOf(c) = "asked" /\ ~ Answering(c)
      BY <2>1, <2>3 DEF OneConversation, StageOf
    <3>2. StageOf(c)' = "over" /\ WordOf(c)' = NULL
      BY <1>2, <2>3, <3>1 DEF ClientClose, StageOf, WordOf, Answering
    <3>3. CV!Turn(c, "over", NULL)
      BY <1>1, <3>2, MapTurn
    <3> QED
      BY <1>2, <1>3, <1>5, <2>3, <3>1, <3>3 DEF CV!Leave
  <2> QED
    BY <2>2, <2>3 DEF ClientClose
<1> QED
  BY <1>4, <1>5

LEMMA ServerRecvConverses ==
    ASSUME OOBTypeOK, OneConversation, NEW c \in Clients, ServerRecv(c)
    PROVE  CV!Hold(c)
<1>1. reqSock[c] # "send" /\ reply[c] = NULL
  BY DEF ServerRecv, OneConversation
<1>2. StageOf(c) = "asked" /\ StageOf(c)' = "held" /\ WordOf(c)' = NULL
  BY <1>1 DEF ServerRecv, OOBTypeOK, StageOf, WordOf, Answering
<1>3. \A d \in Clients : d # c => Quiet(d)
  BY DEF ServerRecv, OOBTypeOK, Quiet, StageOf, WordOf, Answering
<1>4. CV!Turn(c, "held", NULL)
  BY <1>2, <1>3, MapTurn
<1>5. CV!HandsFree
  BY HandsFreeHere DEF ServerRecv
<1>6. UNCHANGED reqSock /\ repSock # "closed" /\ repSock' # "closed"
  BY DEF ServerRecv
<1> QED
  BY <1>2, <1>4, <1>5, <1>6 DEF CV!Hold

LEMMA ServerAnswerConverses ==
    ASSUME OOBTypeOK, OneConversation, NEW c \in Clients, NEW r \in Reply,
           ServerAnswer(c, r)
    PROVE  CV!Reply(c, r)
<1>1. reqSock[c] # "send" /\ reply[c] = NULL
  BY DEF ServerAnswer, OneConversation
<1>2. StageOf(c) = "asked" /\ ~ Answering(c)'
  BY <1>1 DEF ServerAnswer, StageOf, Answering
<1>3. \A d \in Clients : d # c => Quiet(d)
  BY DEF ServerAnswer, Delivered, OOBTypeOK, Quiet, StageOf, WordOf, Answering
<1>4. CV!HandsFree
  BY HandsFreeHere DEF ServerAnswer
<1>5. UNCHANGED <<reqSock, repSock>>
  BY DEF ServerAnswer
<1>6. CASE reqSock[c] = "closed"
  <2>1. StageOf(c)' = "over" /\ WordOf(c)' = NULL
    BY <1>1, <1>2, <1>6 DEF ServerAnswer, Delivered, OOBTypeOK, StageOf, WordOf
  <2>2. CV!Turn(c, "over", NULL)
    BY <1>3, <2>1, MapTurn
  <2> QED
    BY <1>2, <1>4, <1>5, <1>6, <2>2 DEF CV!Reply
<1>7. CASE reqSock[c] # "closed"
  <2>1. StageOf(c)' = "answered" /\ WordOf(c)' = r
    BY <1>1, <1>2, <1>7, NullIsNothing
       DEF ServerAnswer, Delivered, OOBTypeOK, StageOf, WordOf
  <2>2. CV!Turn(c, "answered", r)
    BY <1>3, <2>1, MapTurn
  <2> QED
    BY <1>2, <1>4, <1>5, <1>7, <2>2 DEF CV!Reply
<1> QED
  BY <1>6, <1>7

LEMMA ServerSendConverses ==
    ASSUME OOBTypeOK, OneConversation, PeerKnown, NEW r \in Reply, ServerSend(r)
    PROVE  CV!Next \/ UNCHANGED CV!vars
<1>1. CASE repSock # "send"
  BY <1>1, MapQuiet DEF ServerSend, Quiet, StageOf, WordOf, Answering
<1>2. CASE repSock = "send"
  <2>1. PICK c \in Clients : c = repPeer
    BY <1>2 DEF PeerKnown
  <2>2. /\ reply' = Delivered(c, r) /\ UNCHANGED <<reqSock, request, repPeer>>
        /\ repSock' = "recv"
    BY <1>2, <2>1 DEF ServerSend
  <2>3. request[c] = NULL /\ reply[c] = NULL /\ reqSock[c] # "send"
    BY <1>2, <2>1 DEF OneConversation, Answering
  <2>4. StageOf(c) = "held"
    BY <1>2, <2>1, <2>3 DEF StageOf, Answering
  <2>5. \A d \in Clients : d # c => Quiet(d)
    BY <1>2, <2>1, <2>2 DEF Delivered, OOBTypeOK, Quiet, StageOf, WordOf, Answering
  <2>6. CASE reqSock[c] = "closed"
    <3>1. StageOf(c)' = "over" /\ WordOf(c)' = NULL
      BY <2>2, <2>3, <2>6 DEF Delivered, StageOf, WordOf, Answering
    <3>2. CV!Turn(c, "over", NULL)
      BY <2>5, <3>1, MapTurn
    <3> QED
      BY <1>2, <2>2, <2>4, <2>6, <3>2 DEF CV!Reply, CV!Next
  <2>7. CASE reqSock[c] # "closed"
    <3>1. StageOf(c)' = "answered" /\ WordOf(c)' = r
      BY <2>2, <2>3, <2>7, NullIsNothing DEF Delivered, OOBTypeOK, StageOf, WordOf, Answering
    <3>2. CV!Turn(c, "answered", r)
      BY <2>5, <3>1, MapTurn
    <3> QED
      BY <1>2, <2>2, <2>4, <2>7, <3>2 DEF CV!Reply, CV!Next
  <2> QED
    BY <2>6, <2>7
<1> QED
  BY <1>1, <1>2

(* Which conversations end with the server's socket: the one in its hands, and
   those whose reply is lost. *)
LEMMA MapCut ==
    ASSUME NEW gone \in SUBSET Clients,
           \A d \in gone : StageOf(d)' = "over" /\ WordOf(d)' = NULL,
           \A d \in Clients : d \notin gone => Quiet(d)
    PROVE  CV!Cut(gone)
  BY DEF CV!Cut, Quiet

LEMMA ServerCloseConverses ==
    ASSUME OOBTypeOK, OneConversation, ServerClose
    PROVE  CV!Close
<1> DEFINE Held == {d \in Clients : StageOf(d) = "held"}
           Open == {d \in Clients : LingerDrops /\ StageOf(d) = "answered"}
<1>1. PICK lost \in SUBSET {d \in Clients : LingerDrops /\ reply[d] # NULL} :
         reply' = [d \in Clients |-> IF d \in lost THEN NULL ELSE reply[d]]
  BY DEF ServerClose, RepliesMayDrop
<1>2. \A d \in lost : StageOf(d) = "answered"
  BY <1>1 DEF OneConversation, StageOf
<1>3. lost \in SUBSET Open
  BY <1>1, <1>2
<1>4. \A d \in Held \cup lost : StageOf(d)' = "over" /\ WordOf(d)' = NULL
  <2>1. \A d \in Held \cup lost : reqSock[d] # "send" /\ request[d] = NULL
    BY <1>2 DEF StageOf
  <2>2. \A d \in Held \cup lost : reply'[d] = NULL
    BY <1>1 DEF OneConversation, StageOf
  <2> QED
    BY <2>1, <2>2 DEF ServerClose, StageOf, WordOf, Answering
<1>5. \A d \in Clients : d \notin Held \cup lost => Quiet(d)
  <2> SUFFICES ASSUME NEW d \in Clients, d \notin Held \cup lost
               PROVE  Quiet(d)
    OBVIOUS
  <2>1. reply'[d] = reply[d] /\ UNCHANGED <<reqSock, request>>
    BY <1>1 DEF ServerClose
  <2>2. StageOf(d) # "held"
    OBVIOUS
  <2> QED
    BY <2>1, <2>2 DEF ServerClose, Quiet, StageOf, WordOf, Answering
<1>6. CV!Cut(Held \cup lost)
  <2>1. Held \cup lost \in SUBSET Clients
    BY <1>3
  <2> QED
    BY <1>4, <1>5, <2>1, MapCut
<1>7. UNCHANGED reqSock /\ repSock # "closed" /\ repSock' = "closed"
  BY DEF ServerClose
<1>8. {d \in Clients : [e \in Clients |-> StageOf(e)][d] = "held"} = Held
  OBVIOUS
<1>9. lost \in SUBSET {d \in Clients :
                        LingerDrops /\ [e \in Clients |-> StageOf(e)][d] = "answered"}
  BY <1>3
<1> HIDE DEF Held
<1> QED
  BY <1>6, <1>7, <1>8, <1>9 DEF CV!Close

LEMMA ServerAbandonConverses ==
    ASSUME OOBTypeOK, OneConversation, NEW c \in Clients, ServerAbandon(c)
    PROVE  CV!Close
<1> DEFINE Open == {d \in Clients : LingerDrops /\ StageOf(d) = "answered"}
<1>1. PICK lost \in SUBSET {d \in Clients : LingerDrops /\ reply[d] # NULL} :
         reply' = [d \in Clients |-> IF d \in lost THEN NULL ELSE reply[d]]
  BY DEF ServerAbandon, RepliesMayDrop
<1>2. \A d \in lost : StageOf(d) = "answered"
  BY <1>1 DEF OneConversation, StageOf
<1>3. lost \in SUBSET Open
  BY <1>1, <1>2
<1>4. StageOf(c) = "asked" /\ reply[c] = NULL
  BY DEF ServerAbandon, OneConversation, StageOf
<1>5. \A d \in {c} \cup lost : StageOf(d)' = "over" /\ WordOf(d)' = NULL
  <2>1. \A d \in {c} \cup lost : reqSock[d] # "send"
    BY <1>2, <1>4 DEF StageOf
  <2>2. \A d \in {c} \cup lost : request'[d] = NULL
    BY <1>2 DEF ServerAbandon, OOBTypeOK, StageOf
  <2>3. \A d \in {c} \cup lost : reply'[d] = NULL
    BY <1>1, <1>4
  <2> QED
    BY <2>1, <2>2, <2>3 DEF ServerAbandon, StageOf, WordOf, Answering
<1>6. \A d \in Clients : d \notin {c} \cup lost => Quiet(d)
  <2> SUFFICES ASSUME NEW d \in Clients, d \notin {c} \cup lost
               PROVE  Quiet(d)
    OBVIOUS
  <2>1. reply'[d] = reply[d] /\ request'[d] = request[d] /\ UNCHANGED reqSock
    BY <1>1 DEF ServerAbandon, OOBTypeOK
  <2> QED
    BY <2>1 DEF ServerAbandon, Quiet, StageOf, WordOf, Answering
<1>7. CV!Cut({c} \cup lost)
  <2>1. {c} \cup lost \in SUBSET Clients
    BY <1>3
  <2> QED
    BY <1>5, <1>6, <2>1, MapCut
<1>8. UNCHANGED reqSock /\ repSock # "closed" /\ repSock' = "closed"
  BY DEF ServerAbandon
<1>9. CV!HandsFree
  BY HandsFreeHere DEF ServerAbandon
<1>10. lost \in SUBSET {d \in Clients :
                         LingerDrops /\ [e \in Clients |-> StageOf(e)][d] = "answered"}
  BY <1>3
<1> QED
  BY <1>4, <1>7, <1>8, <1>9, <1>10 DEF CV!Close

(* Every call is a move of a conversation, or does not show. *)
LEMMA ConversesStep ==
    ASSUME OOBTypeOK, OneConversation, PeerKnown, [OOBNext]_oobVars
    PROVE  [CV!Next]_CV!vars
<1>1. CASE UNCHANGED oobVars
  BY <1>1, MapQuiet DEF oobVars, Quiet, StageOf, WordOf, Answering
<1>2. ASSUME NEW c \in Clients, NEW m \in Message, ClientSend(c, m)
      PROVE  [CV!Next]_CV!vars
  BY <1>2, ClientSendConverses DEF CV!Next
<1>3. ASSUME NEW c \in Clients, NEW r \in Reply, ClientRecv(c, r)
      PROVE  [CV!Next]_CV!vars
  BY <1>3, ClientRecvConverses DEF CV!Next
<1>4. ASSUME NEW c \in Clients, ClientClose(c)
      PROVE  [CV!Next]_CV!vars
  BY <1>4, ClientCloseConverses DEF CV!Next
<1>5. ASSUME NEW c \in Clients, ServerRecv(c)
      PROVE  [CV!Next]_CV!vars
  BY <1>5, ServerRecvConverses DEF CV!Next
<1>6. ASSUME NEW c \in Clients, NEW r \in Reply, ServerAnswer(c, r)
      PROVE  [CV!Next]_CV!vars
  BY <1>6, ServerAnswerConverses DEF CV!Next
<1>7. ASSUME NEW r \in Reply, ServerSend(r)
      PROVE  [CV!Next]_CV!vars
  BY <1>7, ServerSendConverses
<1>8. CASE ServerClose \/ \E c \in Clients : ServerAbandon(c)
  BY <1>8, ServerCloseConverses, ServerAbandonConverses DEF CV!Next
<1> QED
  BY <1>1, <1>2, <1>3, <1>4, <1>5, <1>6, <1>7, <1>8 DEF OOBNext

LEMMA ConversesInitially ==
    OOBInit => CV!Init /\ PeerKnown
  BY DEF OOBInit, CV!Init, PeerKnown, StageOf, WordOf

(* The sockets give the programs the conversations they rely on: one answer to
   each question, to the client that asked, and no question before it, however
   the two sides use the calls of oob_comm.cpp. *)
THEOREM ChannelConverses == OOBSpec => Converses
<1>1. OOBInit => CV!Init /\ PeerKnown
  BY ConversesInitially
<1>2. PeerKnown /\ [OOBNext]_oobVars => PeerKnown'
  BY PeerKnownStep
<1>3. (OOBTypeOK /\ OneConversation) /\ PeerKnown /\ [OOBNext]_oobVars => [CV!Next]_CV!vars
  BY ConversesStep
<1> QED
  BY <1>1, <1>2, <1>3, OneConversationAlways, PTL DEF OOBSpec, Converses, CV!Spec
=============================================================================
