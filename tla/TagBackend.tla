----------------------------- MODULE TagBackend -----------------------------
(***************************************************************************)
(* TagBackend (tag_backend.cpp) on top of AbstractBackend, as the two      *)
(* programs use it during a run: the server's backend (mode SEND) creates  *)
(* an endpoint per request and sends one tagged message on it, a client's  *)
(* backend (mode RECV) probes its worker for its own tag.  UCX itself is   *)
(* external: it completes a small send as soon as the buffer is copied     *)
(* ("eager") and a large one only when the receiver has fetched the data   *)
(* ("rndv").  How one backend is set up and torn down is the subject of    *)
(* module BackendLifecycle.                                                *)
(***************************************************************************)
EXTENDS PerftestBase

CONSTANTS
    Protocols,      \* the protocols UCX may choose for the size of the data
    ForceDiscards,  \* a forced endpoint close may discard a message in flight
    ServerSize      \* data_size of the server's command line

(* seq is history: the message is the seq-th one posted to dst. *)
UcxMessage == [dst : Clients, tag : Clients, len : {ServerSize},
               seq : Nat \ {0}, proto : Protocols]

ASSUME TagAssumption ==
    /\ Protocols \in (SUBSET {"eager", "rndv"}) \ {{}}
    /\ ForceDiscards \in BOOLEAN
    /\ ServerSize \in Nat
    /\ NULL \notin UcxMessage

VARIABLES
    m_remote_addr,  \* the server's m_remote_addr: the client last asked for
    m_tag,          \* the server's m_tag
    m_remote_ep,    \* the server's m_remote_ep: the worker it is connected to
    sendReq,        \* the server's send request
    net,            \* messages posted and not yet matched by a probe
    recvReq,        \* recvReq[c]: the message client c is receiving
    served          \* history: number of sends posted to each client

tagVars == <<m_remote_addr, m_tag, m_remote_ep, sendReq, net, recvReq, served>>

TagTypeOK ==
    /\ m_remote_addr \in Clients \cup {NULL}
    /\ m_tag \in Clients
    /\ m_remote_ep \in Clients \cup {NULL}
    /\ sendReq \in {"none", "eager", "rndv", "completed"}
    /\ net \subseteq UcxMessage
    /\ recvReq \in [Clients -> UcxMessage \cup {NULL}]
    /\ served \in [Clients -> Nat]

(* The server's backend is built with rank 0, a client's with its own rank;
   the tag of a backend is its rank until set_tag. *)
TagInit ==
    /\ m_remote_addr = NULL
    /\ m_tag = 0
    /\ m_remote_ep = NULL
    /\ sendReq = "none"
    /\ net = {}
    /\ recvReq = [c \in Clients |-> NULL]
    /\ served = [c \in Clients |-> 0]

get_tag(c) == c

(* The worker address of a client, as AbstractBackend::init queried it. *)
get_address(c) == c

-----------------------------------------------------------------------------
(* The sender.                                                             *)

set_remote_addr(addr) ==
    m_remote_addr' = IF addr # NULL THEN addr ELSE m_remote_addr

(* Mutants: the tag of the request is dropped; tags counted from 1. *)
set_tag_ignored(tag) == UNCHANGED m_tag
set_tag_from_one(tag) == m_tag' = tag + 1

set_tag(tag) == m_tag' = tag

establish_connection ==
    /\ m_remote_ep' = m_remote_addr
    /\ UNCHANGED <<m_remote_addr, m_tag, sendReq, net, recvReq, served>>

(* send on the current endpoint; without one it throws (see Perftest). *)
send ==
    /\ \E p \in Protocols :
          /\ net' = net \cup {[dst |-> m_remote_ep, tag |-> m_tag,
                               len |-> ServerSize,
                               seq |-> served[m_remote_ep] + 1, proto |-> p]}
          /\ sendReq' = p
    /\ served' = [served EXCEPT ![m_remote_ep] = @ + 1]
    /\ UNCHANGED <<m_remote_addr, m_tag, m_remote_ep, recvReq>>

(* Mutant: the request is freed without a look at its status. *)
send_wait_unfinished ==
    /\ sendReq' = "none"
    /\ UNCHANGED <<m_remote_addr, m_tag, m_remote_ep, net, recvReq, served>>

(* comm_wait: progress the worker until the request is complete, free it. *)
send_wait ==
    /\ sendReq \in {"eager", "completed"}
    /\ sendReq' = "none"
    /\ UNCHANGED <<m_remote_addr, m_tag, m_remote_ep, net, recvReq, served>>

(* Mutant: the address is forgotten, the endpoint is kept. *)
close_connection_keeps_ep ==
    /\ m_remote_addr' = NULL
    /\ UNCHANGED <<m_remote_ep, m_tag, sendReq, net, recvReq, served>>

(* close_connection with UCP_EP_CLOSE_FLAG_FORCE, which does not flush: an
   eager message of this endpoint may be discarded although its send
   completed. *)
close_connection ==
    /\ m_remote_ep' = NULL
    /\ m_remote_addr' = NULL
    /\ \/ UNCHANGED net
       \/ /\ ForceDiscards
          /\ \E m \in net : m.dst = m_remote_ep
          /\ net' = {m \in net : m.dst # m_remote_ep}
    /\ UNCHANGED <<m_tag, sendReq, recvReq, served>>

-----------------------------------------------------------------------------
(* The receiver, client c.                                                 *)

(* Mutant: a probe that does not take the message off the list. *)
recv_without_removal(c) ==
    /\ \E m \in net :
          /\ m.dst = get_address(c)
          /\ m.tag = get_tag(c)
          /\ recvReq' = [recvReq EXCEPT ![c] = m]
    /\ UNCHANGED <<m_remote_addr, m_tag, m_remote_ep, sendReq, net, served>>

(* recv: probe until a message with the own tag is there, take it off UCX's
   list and post the receive for it. *)
recv(c) ==
    /\ \E m \in net :
          /\ m.dst = get_address(c)
          /\ m.tag = get_tag(c)
          /\ net' = net \ {m}
          /\ recvReq' = [recvReq EXCEPT ![c] = m]
    /\ UNCHANGED <<m_remote_addr, m_tag, m_remote_ep, sendReq, served>>

(* Mutant: the sender never learns that its rendezvous is over. *)
recv_wait_unreported(c) ==
    /\ recvReq[c] # NULL
    /\ recvReq[c].proto = "rndv" => sendReq = "rndv"
    /\ recvReq' = [recvReq EXCEPT ![c] = NULL]
    /\ UNCHANGED <<m_remote_addr, m_tag, m_remote_ep, sendReq, net, served>>

(* comm_wait on the receive: the data of a rendezvous message is fetched from
   the sender, whose send completes with it. *)
recv_wait(c) ==
    /\ recvReq[c] # NULL
    /\ recvReq[c].proto = "rndv" => sendReq = "rndv"
    /\ sendReq' = IF recvReq[c].proto = "rndv" THEN "completed" ELSE sendReq
    /\ recvReq' = [recvReq EXCEPT ![c] = NULL]
    /\ UNCHANGED <<m_remote_addr, m_tag, m_remote_ep, net, served>>
=============================================================================
