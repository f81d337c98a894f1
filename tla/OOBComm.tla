------------------------------ MODULE OOBComm ------------------------------
(***************************************************************************)
(* OOBComm (oob_comm.cpp): the control channel between the client          *)
(* processes and the server.  The server owns a ZMQ_REP socket, each       *)
(* client a ZMQ_REQ socket.  A REQ socket alternates send and receive; a   *)
(* REP socket alternates receive and send, and its send goes to the peer   *)
(* of its last receive.  ZMQ rejects a call made out of turn, and          *)
(* OOBComm::send ignores that result: such a send does nothing.            *)
(*                                                                         *)
(* A client has at most one unanswered request, so one slot per client     *)
(* holds all that is under way in each direction.                          *)
(***************************************************************************)
EXTENDS PerftestBase

CONSTANT
    LingerDrops   \* a socket that is destroyed, or whose process ends, may take
                  \* with it what it has not sent yet

ASSUME OOBAssumption == LingerDrops \in BOOLEAN

VARIABLES
    reqSock,  \* state of each client's socket: the call ZMQ accepts next
    request,  \* request[c]: sent by client c, not yet received by the server
    reply,    \* reply[c]: sent by the server, not yet received by client c
    repSock,  \* state of the server's socket
    repPeer   \* the client whose request the server received last

oobVars == <<reqSock, request, reply, repSock, repPeer>>

SockState == {"send", "recv", "closed"}

OOBTypeOK ==
    /\ reqSock \in [Clients -> SockState]
    /\ request \in [Clients -> Message \cup {NULL}]
    /\ reply \in [Clients -> Reply \cup {NULL}]
    /\ repSock \in SockState
    /\ repPeer \in Clients \cup {NULL}

OOBInit ==
    /\ reqSock = [c \in Clients |-> "send"]
    /\ request = [c \in Clients |-> NULL]
    /\ reply = [c \in Clients |-> NULL]
    /\ repSock = "recv"
    /\ repPeer = NULL

-----------------------------------------------------------------------------
(* The client's side.                                                      *)

(* Mutant: sockets without the turns of REQ and REP. *)
ClientSendAnyTurn(c, m) ==
    /\ reqSock[c] # "closed"
    /\ request' = [request EXCEPT ![c] = m]
    /\ reqSock' = [reqSock EXCEPT ![c] = "recv"]
    /\ UNCHANGED <<reply, repSock, repPeer>>

ClientSend(c, m) ==
    /\ IF reqSock[c] = "send"
       THEN /\ request' = [request EXCEPT ![c] = m]
            /\ reqSock' = [reqSock EXCEPT ![c] = "recv"]
       ELSE UNCHANGED <<request, reqSock>>
    /\ UNCHANGED <<reply, repSock, repPeer>>

(* recv blocks until the reply r is there. *)
ClientRecv(c, r) ==
    /\ reqSock[c] = "recv"
    /\ reply[c] # NULL
    /\ r = reply[c]
    /\ reply' = [reply EXCEPT ![c] = NULL]
    /\ reqSock' = [reqSock EXCEPT ![c] = "send"]
    /\ UNCHANGED <<request, repSock, repPeer>>

(* zsock_destroy, or the end of the process.  CZMQ's default linger is 0: a
   request not on the wire yet may be discarded.  *)
ClientClose(c) ==
    /\ reqSock[c] # "closed"
    /\ reqSock' = [reqSock EXCEPT ![c] = "closed"]
    /\ reply' = [reply EXCEPT ![c] = NULL]
    /\ \/ UNCHANGED request
       \/ /\ LingerDrops
          /\ request[c] # NULL
          /\ request' = [request EXCEPT ![c] = NULL]
    /\ UNCHANGED <<repSock, repPeer>>

-----------------------------------------------------------------------------
(* The server's side.                                                      *)

ServerRecv(c) ==
    /\ repSock = "recv"
    /\ request[c] # NULL
    /\ request' = [request EXCEPT ![c] = NULL]
    /\ repSock' = "send"
    /\ repPeer' = c
    /\ UNCHANGED <<reqSock, reply>>

(* A reply to a peer that has gone is dropped by ZMQ. *)
Delivered(c, r) ==
    IF reqSock[c] = "closed" THEN reply ELSE [reply EXCEPT ![c] = r]

(* Mutant: the REP socket does not turn to the next receive. *)
ServerSendAgain(r) ==
    /\ IF repSock = "send"
       THEN reply' = Delivered(repPeer, r)
       ELSE UNCHANGED reply
    /\ UNCHANGED <<reqSock, request, repSock, repPeer>>

ServerSend(r) ==
    /\ IF repSock = "send"
       THEN /\ reply' = Delivered(repPeer, r)
            /\ repSock' = "recv"
       ELSE UNCHANGED <<reply, repSock>>
    /\ UNCHANGED <<reqSock, request, repPeer>>

(* recv and the send that answers it, with no blocking call in between. *)
ServerAnswer(c, r) ==
    /\ repSock = "recv"
    /\ request[c] # NULL
    /\ request' = [request EXCEPT ![c] = NULL]
    /\ reply' = Delivered(c, r)
    /\ repPeer' = c
    /\ UNCHANGED <<reqSock, repSock>>

(* zstr_send only queues.  What ZMQ has not sent when the socket ends, with
   linger 0 or with its process, may be lost: any of the replies under way. *)
RepliesMayDrop ==
    \E lost \in SUBSET {c \in Clients : LingerDrops /\ reply[c] # NULL} :
        reply' = [c \in Clients |-> IF c \in lost THEN NULL ELSE reply[c]]

(* recv, and the process ends without an answer. *)
ServerAbandon(c) ==
    /\ repSock = "recv"
    /\ request[c] # NULL
    /\ request' = [request EXCEPT ![c] = NULL]
    /\ RepliesMayDrop
    /\ repPeer' = c
    /\ repSock' = "closed"
    /\ UNCHANGED reqSock

ServerClose ==
    /\ repSock # "closed"
    /\ repSock' = "closed"
    /\ RepliesMayDrop
    /\ UNCHANGED <<reqSock, request, repPeer>>

-----------------------------------------------------------------------------
(* The channel under any use its two sides may make of it.                 *)

OOBNext ==
    \/ \E c \in Clients :
          \/ \E m \in Message : ClientSend(c, m)
          \/ \E r \in Reply : ClientRecv(c, r)
          \/ ClientClose(c)
          \/ ServerRecv(c)
          \/ ServerAbandon(c)
          \/ \E r \in Reply : ServerAnswer(c, r)
    \/ \E r \in Reply : ServerSend(r)
    \/ ServerClose

OOBSpec == OOBInit /\ [][OOBNext]_oobVars

(* The server holds the request of client c and has not answered it. *)
Answering(c) == repSock = "send" /\ repPeer = c

(* A conversation of client c is in at most one place (its request slot, the
   server's hands, its reply slot), never while the client's socket is free
   for the next send, and it is lost only by a socket that was closed:
   oob_comm.cpp relies on REQ/REP for this and keeps no state of its own.   *)
OneConversation ==
    \A c \in Clients :
        /\ ~ (request[c] # NULL /\ Answering(c))
        /\ ~ (request[c] # NULL /\ reply[c] # NULL)
        /\ ~ (Answering(c) /\ reply[c] # NULL)
        /\ reqSock[c] = "send" =>
              request[c] = NULL /\ reply[c] = NULL /\ ~ Answering(c)
        /\ (reqSock[c] = "recv" /\ repSock # "closed") =>
              request[c] # NULL \/ reply[c] # NULL \/ Answering(c)

(* What the two sides see of it.  A conversation is where its message is, and
   over when a socket was closed on it. *)
StageOf(c) ==
    IF reqSock[c] = "send" THEN "idle"
    ELSE IF request[c] # NULL THEN "asked"
    ELSE IF Answering(c) THEN "held"
    ELSE IF reply[c] # NULL THEN "answered"
    ELSE "over"

WordOf(c) == IF request[c] # NULL THEN request[c] ELSE reply[c]

CV == INSTANCE Conversation WITH
    Client   <- Clients,
    Question <- Message,
    Answer   <- Reply,
    Silence  <- NULL,
    MayLose  <- LingerDrops,
    stage    <- [c \in Clients |-> StageOf(c)],
    word     <- [c \in Clients |-> WordOf(c)],
    here     <- {c \in Clients : reqSock[c] # "closed"},
    up       <- repSock # "closed"

(* The sockets give the two programs the conversations they rely on: a client
   is answered once for each request, with what the server sent to it and not
   to another, and has no second request on the way before that.  A client that
   closes leaves its request to the server, and a server that closes leaves its
   replies to the clients, unless they are lost with the socket; nothing else
   is lost.  *)
Converses == CV!Spec
=============================================================================
