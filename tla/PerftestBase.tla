---------------------------- MODULE PerftestBase ----------------------------
(***************************************************************************)
(* What the parts of the performance tester share: the ranks of the client *)
(* processes and the JSON messages of the control channel.                 *)
(***************************************************************************)
EXTENDS Naturals

CONSTANTS
    NumClients,   \* size of MPI_COMM_WORLD: one client process per rank
    NULL          \* nullptr, an empty slot, no peer

Clients == 0 .. NumClients - 1

(* The text an address is sent as.  The codec itself is not part of this
   model; here the text is a tagged value that only base64_decode turns back
   into an address. *)
base64_encode(addr) == [b64 |-> addr]
base64_decode(text) == text.b64

(* The three messages of a client: register, request one transfer, leave. *)
StartMsg(c)      == [rank |-> c, msg_type |-> 0]
RunMsg(c, tag, addr) ==
    [rank |-> c, msg_type |-> 1, tag |-> tag, addr |-> base64_encode(addr)]
DisconnectMsg(c) == [rank |-> c, msg_type |-> 2]

Message == {StartMsg(c) : c \in Clients}
             \cup {RunMsg(c, t, a) : c, t, a \in Clients}
             \cup {DisconnectMsg(c) : c \in Clients}

(* A reply is a JSON object with one key, always true; the key is kept. *)
Reply == {"ok", "iter_ok", "disconnect_ok"}

ASSUME BaseAssumption ==
    /\ NumClients \in Nat \ {0}
    /\ NULL \notin Message
    /\ NULL \notin Reply
    /\ NULL \notin Nat
=============================================================================
