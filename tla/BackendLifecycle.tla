-------------------------- MODULE BackendLifecycle --------------------------
(***************************************************************************)
(* The backend of one process, from its constructor to its destructor:     *)
(* AbstractBackend (abstract_backend.cpp) and TagBackend (tag_backend.cpp) *)
(* as the two main programs, Server (server.cpp) and Client (client.cpp)   *)
(* drive them.  The subject is who holds what: UCX objects, requests and   *)
(* heap blocks, in every build (OPT_1, OPT_2) and both modes, when any UCX *)
(* call may fail.  The peer process is module Perftest's subject; here it  *)
(* may ask for a transfer or send one at any time.                         *)
(***************************************************************************)
EXTENDS Naturals

CONSTANTS
    NULL,          \* nullptr
    MaxTransfers   \* bound: transfers one process makes

(* Things a process acquires and must give back.  "map" is the memory of
   ucp_mem_map, "remote_addr" the block single_run decodes an address into,
   "net_buf" the block of get_net_buf, "warm_buf" the one byte of warmup. *)
Resource == {"ctx", "worker", "local_addr", "map", "ep", "remote_addr",
             "net_buf", "warm_buf", "send_req", "recv_req"}
OfTransfer == {"ep", "remote_addr", "net_buf", "warm_buf", "send_req", "recv_req"}
OfBackend  == Resource \ OfTransfer

ASSUME LifecycleAssumption ==
    /\ NULL \notin Resource \cup {"error"}
    /\ MaxTransfers \in Nat

VARIABLES
    pc,         \* where the process is
    options,    \* the CMake options the build was configured with
    m_mode,     \* "SEND" (the server) or "RECV" (a client)
    transfers,  \* transfers begun
    enc_bufs,   \* blocks with a client's encoded address: nothing frees them
    live,       \* the resources held
    misuse,     \* history: used or released without being held, or acquired
                \* again while held
    m_initialized, m_local_addr, m_remote_addr, m_remote_ep, m_net_buf,
    data_buf,   \* m_data_buf of the server, data_buf of a client
    send_ptr,   \* what send returned: NULL, "send_req" or "error"
    recv_ptr    \* what recv returned

pointers == <<m_local_addr, m_remote_addr, m_remote_ep, m_net_buf,
              data_buf, send_ptr, recv_ptr>>
setup == <<options, m_mode, m_initialized>>
counters == <<transfers, enc_bufs>>
vars == <<pc, counters, live, misuse, pointers, setup>>

OPT_1 == "OPT1" \in options
OPT_2 == "OPT2" \in options

Running == {"init", "init_worker", "init_addr", "init_map", "init_warmup",
            "warm_establish", "warm_send", "warm_recv", "warm_recv_wait",
            "warm_send_wait", "warm_close", "warm_return", "run", "loop",
            "establish", "transfer", "comm_wait", "close", "return",
            "shutdown", "delete"}
PC == Running \cup {"done", "threw"}

TypeOK ==
    /\ pc \in PC
    /\ options \subseteq {"OPT1", "OPT2"}
    /\ m_mode \in {"SEND", "RECV"}
    /\ transfers \in 0 .. MaxTransfers
    /\ enc_bufs \in 0 .. MaxTransfers
    /\ live \subseteq Resource
    /\ misuse \subseteq Resource \cup {NULL}
    /\ m_initialized \in BOOLEAN
    /\ m_local_addr \in {NULL, "local_addr"}
    /\ m_remote_addr \in {NULL, "local_addr", "remote_addr"}
    /\ m_remote_ep \in {NULL, "ep"}
    /\ m_net_buf \in {NULL, "map"}
    /\ data_buf \in {NULL, "map", "net_buf"}
    /\ send_ptr \in {NULL, "send_req", "error"}
    /\ recv_ptr \in {NULL, "recv_req", "error"}

Init ==
    /\ pc = "init"
    /\ options \in SUBSET {"OPT1", "OPT2"}
    /\ m_mode \in {"SEND", "RECV"}
    /\ transfers = 0
    /\ enc_bufs = 0
    /\ live = {}
    /\ misuse = {}
    /\ m_initialized = FALSE
    /\ m_local_addr = NULL
    /\ m_remote_addr = NULL
    /\ m_remote_ep = NULL
    /\ m_net_buf = NULL
    /\ data_buf = NULL
    /\ send_ptr = NULL
    /\ recv_ptr = NULL

(* A step that needs the resources in uses, gives those in releases back and
   acquires those in gets. *)
Calls(uses, releases, gets) ==
    /\ live' = (live \ releases) \cup gets
    /\ misuse' = misuse \cup ((uses \cup releases) \ live) \cup (gets \cap live)

Step(from, to) == pc = from /\ pc' = to

-----------------------------------------------------------------------------
(* AbstractBackend::init.                                                  *)

InitContext ==
    /\ Step("init", "init_worker")
    /\ Calls({}, {}, {"ctx"})
    /\ UNCHANGED <<counters, pointers, setup>>

InitWorker ==
    /\ Step("init_worker", "init_addr")
    /\ Calls({"ctx"}, {}, {"worker"})
    /\ UNCHANGED <<counters, pointers, setup>>

InitAddress ==
    /\ Step("init_addr", "init_map")
    /\ Calls({"worker"}, {}, {"local_addr"})
    /\ m_local_addr' = "local_addr"
    /\ UNCHANGED <<counters, m_remote_addr, m_remote_ep, m_net_buf, data_buf,
                   send_ptr, recv_ptr, setup>>

AfterInit == IF OPT_2 THEN "init_warmup" ELSE "run"

(* Mutant: init marks the backend as initialized. *)
InitMapMarked ==
    /\ Step("init_map", AfterInit)
    /\ IF OPT_1
       THEN Calls({"ctx"}, {}, {"map"}) /\ m_net_buf' = "map"
       ELSE UNCHANGED <<live, misuse, m_net_buf>>
    /\ m_initialized' = TRUE
    /\ UNCHANGED <<counters, m_local_addr, m_remote_addr, m_remote_ep, data_buf,
                   send_ptr, recv_ptr, options, m_mode>>

InitMap ==
    /\ Step("init_map", AfterInit)
    /\ IF OPT_1
       THEN Calls({"ctx"}, {}, {"map"}) /\ m_net_buf' = "map"
       ELSE UNCHANGED <<live, misuse, m_net_buf>>
    /\ UNCHANGED <<counters, m_local_addr, m_remote_addr, m_remote_ep, data_buf,
                   send_ptr, recv_ptr, setup>>

-----------------------------------------------------------------------------
(* The operations of the backend, as a warmup or a transfer calls them.    *)

(* The block get_net_buf allocates, if it does, and the pointer it returns. *)
NetBufGets == IF OPT_1 THEN {} ELSE {"net_buf"}
NetBuf     == IF OPT_1 THEN m_net_buf ELSE "net_buf"

(* Mutant: return_net_buf frees the persistent buffer, too. *)
NetBufReleasesAlways == {data_buf} \ {NULL}

(* The block return_net_buf frees; the caller's pointer stays as it is. *)
NetBufReleases == IF OPT_1 \/ data_buf = NULL THEN {} ELSE {data_buf}

(* establish_connection creates an endpoint for the sender, and for anyone's
   warmup. *)
establish_connection(warmup) ==
    IF warmup \/ m_mode = "SEND"
    THEN /\ Calls({"worker", m_remote_addr}, {}, {"ep"})
         /\ m_remote_ep' = "ep"
    ELSE UNCHANGED <<live, misuse, m_remote_ep>>

(* An operation completes at once (no request), has a request, or fails. *)
Posted(ptr, req, uses) ==
    \/ Calls(uses, {}, {}) /\ ptr' = NULL
    \/ Calls(uses, {}, {req}) /\ ptr' = req
    \/ Calls(uses, {}, {}) /\ ptr' = "error"

(* Mutant: the receive is given the request of the send. *)
recv_as_send(buf) == Posted(recv_ptr, "send_req", {"worker", buf})

send == Posted(send_ptr, "send_req", {m_remote_ep, data_buf})
recv(buf) == Posted(recv_ptr, "recv_req", {"worker", buf})

(* Mutant: the request is not freed. *)
comm_wait_keeps_request(ptr) ==
    /\ ptr # "error"
    /\ UNCHANGED <<live, misuse>>
    /\ ptr' = NULL

(* comm_wait, when the operation succeeded: ucx_request_wait frees the request
   if there is one.  (The caller's stat_ptr stays as it is; it is cleared here
   because nobody reads it again.) *)
comm_wait(ptr) ==
    /\ ptr # "error"
    /\ IF ptr = NULL
       THEN UNCHANGED <<live, misuse>>
       ELSE Calls({"worker"}, {ptr}, {})
    /\ ptr' = NULL

(* Mutant: only the warmup's address is freed. *)
FreesWarmupAddr(warmup) == m_remote_addr # NULL /\ warmup /\ m_mode # "RECV"

(* The remote address is freed with the endpoint, but not after the warmup of
   a receiver. *)
FreesRemoteAddr(warmup) ==
    /\ m_remote_addr # NULL
    /\ ~ warmup \/ m_mode # "RECV"

close_connection(warmup) ==
    IF warmup \/ m_mode = "SEND"
    THEN /\ Calls({}, ({m_remote_ep} \ {NULL}) \cup
                        (IF FreesRemoteAddr(warmup) THEN {m_remote_addr} ELSE {}), {})
         /\ m_remote_ep' = NULL
         /\ m_remote_addr' = IF FreesRemoteAddr(warmup) THEN NULL ELSE m_remote_addr
    ELSE UNCHANGED <<live, misuse, m_remote_ep, m_remote_addr>>

-----------------------------------------------------------------------------
(* warmup: a message of one byte to oneself.                               *)

WarmupBegin ==
    /\ Step("init_warmup", "warm_establish")
    /\ Calls({}, {}, NetBufGets \cup {"warm_buf"})
    /\ data_buf' = NetBuf
    /\ m_remote_addr' = IF m_local_addr # NULL THEN m_local_addr ELSE m_remote_addr
    /\ UNCHANGED <<counters, m_local_addr, m_remote_ep, m_net_buf, send_ptr,
                   recv_ptr, setup>>

WarmupEstablish ==
    /\ Step("warm_establish", "warm_send")
    /\ establish_connection(TRUE)
    /\ UNCHANGED <<counters, m_local_addr, m_remote_addr, m_net_buf, data_buf,
                   send_ptr, recv_ptr, setup>>

WarmupSend ==
    /\ Step("warm_send", "warm_recv")
    /\ send
    /\ UNCHANGED <<counters, m_local_addr, m_remote_addr, m_remote_ep, m_net_buf,
                   data_buf, recv_ptr, setup>>

(* The probe finds the message only if it was sent. *)
WarmupRecv ==
    /\ Step("warm_recv", "warm_recv_wait")
    /\ send_ptr # "error"
    /\ recv("warm_buf")
    /\ UNCHANGED <<counters, m_local_addr, m_remote_addr, m_remote_ep, m_net_buf,
                   data_buf, send_ptr, setup>>

WarmupRecvWait ==
    /\ Step("warm_recv_wait", "warm_send_wait")
    /\ comm_wait(recv_ptr)
    /\ UNCHANGED <<counters, m_local_addr, m_remote_addr, m_remote_ep, m_net_buf,
                   data_buf, send_ptr, setup>>

WarmupSendWait ==
    /\ Step("warm_send_wait", "warm_close")
    /\ comm_wait(send_ptr)
    /\ UNCHANGED <<counters, m_local_addr, m_remote_addr, m_remote_ep, m_net_buf,
                   data_buf, recv_ptr, setup>>

WarmupClose ==
    /\ Step("warm_close", "warm_return")
    /\ close_connection(TRUE)
    /\ UNCHANGED <<counters, m_local_addr, m_net_buf, data_buf, send_ptr,
                   recv_ptr, setup>>

WarmupReturn ==
    /\ Step("warm_return", "run")
    /\ Calls({}, NetBufReleases \cup {"warm_buf"}, {})
    /\ data_buf' = NULL
    /\ UNCHANGED <<counters, m_local_addr, m_remote_addr, m_remote_ep, m_net_buf,
                   send_ptr, recv_ptr, setup>>

-----------------------------------------------------------------------------
(* The server: Server::run, whose buffer serves every transfer.            *)

ServerGenData ==
    /\ m_mode = "SEND"
    /\ Step("run", "loop")
    /\ Calls({}, {}, NetBufGets)
    /\ data_buf' = NetBuf
    /\ UNCHANGED <<counters, m_local_addr, m_remote_addr, m_remote_ep, m_net_buf,
                   send_ptr, recv_ptr, setup>>

(* A request arrives: its address is decoded into a new block, which the
   backend keeps. *)
ServerRequest ==
    /\ m_mode = "SEND"
    /\ Step("loop", "establish")
    /\ transfers < MaxTransfers
    /\ transfers' = transfers + 1
    /\ Calls({}, {}, {"remote_addr"})
    /\ m_remote_addr' = "remote_addr"
    /\ UNCHANGED <<enc_bufs, m_local_addr, m_remote_ep, m_net_buf, data_buf, send_ptr,
                   recv_ptr, setup>>

ServerSend ==
    /\ m_mode = "SEND"
    /\ Step("transfer", "comm_wait")
    /\ m_remote_ep # NULL
    /\ send
    /\ UNCHANGED <<counters, m_local_addr, m_remote_addr, m_remote_ep, m_net_buf,
                   data_buf, recv_ptr, setup>>

ServerCommWait ==
    /\ m_mode = "SEND"
    /\ Step("comm_wait", "close")
    /\ comm_wait(send_ptr)
    /\ UNCHANGED <<counters, m_local_addr, m_remote_addr, m_remote_ep, m_net_buf,
                   data_buf, recv_ptr, setup>>

(* The last client has left. *)
ServerReturn ==
    /\ m_mode = "SEND"
    /\ Step("loop", "shutdown")
    /\ Calls({}, NetBufReleases, {})
    /\ UNCHANGED <<counters, pointers, setup>>

-----------------------------------------------------------------------------
(* A client: Client::single_run, with a buffer per transfer.               *)

(* Mutant: the loop over the iterations does not advance. *)
ClientGetBufUncounted ==
    /\ m_mode = "RECV"
    /\ Step("run", "establish")
    /\ Calls({m_local_addr}, {}, NetBufGets)
    /\ data_buf' = NetBuf
    /\ UNCHANGED <<counters, m_local_addr, m_remote_addr, m_remote_ep, m_net_buf,
                   send_ptr, recv_ptr, setup>>

(* The client encodes its address into a new block, whose pointer is lost
   when single_run returns. *)
ClientGetBuf ==
    /\ m_mode = "RECV"
    /\ Step("run", "establish")
    /\ transfers < MaxTransfers
    /\ transfers' = transfers + 1
    /\ enc_bufs' = enc_bufs + 1
    /\ Calls({m_local_addr}, {}, NetBufGets)
    /\ data_buf' = NetBuf
    /\ UNCHANGED <<m_local_addr, m_remote_addr, m_remote_ep, m_net_buf, send_ptr,
                   recv_ptr, setup>>

ClientRecv ==
    /\ m_mode = "RECV"
    /\ Step("transfer", "comm_wait")
    /\ data_buf # NULL
    /\ recv(data_buf)
    /\ UNCHANGED <<counters, m_local_addr, m_remote_addr, m_remote_ep, m_net_buf,
                   data_buf, send_ptr, setup>>

ClientCommWait ==
    /\ m_mode = "RECV"
    /\ Step("comm_wait", "close")
    /\ comm_wait(recv_ptr)
    /\ UNCHANGED <<counters, m_local_addr, m_remote_addr, m_remote_ep, m_net_buf,
                   data_buf, send_ptr, setup>>

ClientReturn ==
    /\ m_mode = "RECV"
    /\ Step("return", "run")
    /\ Calls({}, NetBufReleases, {})
    /\ data_buf' = NULL
    /\ UNCHANGED <<counters, m_local_addr, m_remote_addr, m_remote_ep, m_net_buf,
                   send_ptr, recv_ptr, setup>>

ClientLeave ==
    /\ m_mode = "RECV"
    /\ Step("run", "shutdown")
    /\ UNCHANGED <<counters, live, misuse, pointers, setup>>

-----------------------------------------------------------------------------
(* Both.                                                                   *)

Establish ==
    /\ Step("establish", "transfer")
    /\ establish_connection(FALSE)
    /\ UNCHANGED <<counters, m_local_addr, m_remote_addr, m_net_buf, data_buf,
                   send_ptr, recv_ptr, setup>>

Close ==
    /\ Step("close", IF m_mode = "SEND" THEN "loop" ELSE "return")
    /\ close_connection(FALSE)
    /\ UNCHANGED <<counters, m_local_addr, m_net_buf, data_buf, send_ptr,
                   recv_ptr, setup>>

(* What AbstractBackend::shutdown gives back: what close_connection closes and
   frees, which is nothing in a receiver, then the buffer, the address, the
   worker and the context. *)
ShutdownReleases ==
    ({m_net_buf, m_local_addr} \ {NULL}) \cup {"worker", "ctx"}
       \cup (IF m_remote_ep # NULL /\ m_mode = "SEND"
             THEN {m_remote_ep, m_remote_addr} \ {NULL}
             ELSE {})

(* It is called twice, by main and by the destructor of Server or Client. *)
shutdown ==
    /\ \/ Step("shutdown", "delete")
       \/ Step("delete", "done")
    /\ IF m_initialized
       THEN /\ Calls({}, ShutdownReleases, {})
            /\ m_local_addr' = NULL
            /\ m_remote_ep' = NULL
            /\ m_net_buf' = NULL
            /\ m_remote_addr' = IF m_remote_ep # NULL /\ m_mode = "SEND"
                                THEN NULL ELSE m_remote_addr
            /\ m_initialized' = FALSE
       ELSE UNCHANGED <<live, misuse, m_local_addr, m_remote_ep, m_net_buf,
                        m_remote_addr, m_initialized>>
    /\ UNCHANGED <<counters, data_buf, send_ptr, recv_ptr, options, m_mode>>

(* Where a UCX call, the control channel, the decoding of an address or the
   check of the size received may throw.  The exception ends the process
   without shutdown. *)
MayThrow ==
    \/ pc \in {"init", "init_worker", "init_addr", "init_map", "warm_establish",
              "warm_close", "run", "loop", "close"}
    \/ pc = "establish" /\ m_mode = "SEND"

Throw ==
    /\ MayThrow
    /\ pc' = "threw"
    /\ UNCHANGED <<counters, live, misuse, pointers, setup>>

(* The operation comm_wait waits for. *)
Waited ==
    IF pc = "warm_recv_wait" \/ (pc = "comm_wait" /\ m_mode = "RECV")
    THEN recv_ptr ELSE send_ptr

(* The operation failed: ucx_request_wait frees its request, if it has one,
   and comm_wait throws. *)
CommFails ==
    /\ pc \in {"warm_recv_wait", "warm_send_wait", "comm_wait"}
    /\ Waited # NULL
    /\ pc' = "threw"
    /\ Calls({"worker"}, {Waited} \ {"error"}, {})
    /\ UNCHANGED <<counters, pointers, setup>>

(* The warmup's send failed, which nobody looks at before the receive: the
   probe loop spins for ever. *)
WarmupSpins ==
    /\ pc = "warm_recv"
    /\ send_ptr = "error"
    /\ UNCHANGED vars

Ended ==
    /\ pc \in {"done", "threw"}
    /\ UNCHANGED vars

Next ==
    \/ InitContext \/ InitWorker \/ InitAddress \/ InitMap
    \/ WarmupBegin \/ WarmupEstablish \/ WarmupSend \/ WarmupRecv
    \/ WarmupRecvWait \/ WarmupSendWait \/ WarmupClose \/ WarmupReturn
    \/ ServerGenData \/ ServerRequest \/ ServerSend \/ ServerCommWait \/ ServerReturn
    \/ ClientGetBuf \/ ClientRecv \/ ClientCommWait \/ ClientReturn \/ ClientLeave
    \/ Establish \/ Close \/ shutdown \/ Throw \/ CommFails \/ WarmupSpins \/ Ended

Spec == Init /\ [][Next]_vars

-----------------------------------------------------------------------------
(* Properties.                                                             *)

(* In every build and mode nothing is used after it was released, released
   twice, released without having been acquired, or acquired a second time
   while held, although the backend keeps raw pointers and warmup makes two
   of them name the same address. *)
NoMisuse == misuse = {}

(* Between two transfers, and when the process ends normally, nothing that
   belongs to a transfer or a warmup is held any more, but for the one buffer
   the server keeps for its whole loop.  The exception is a client's encoded
   address: each transfer leaves exactly one such block behind. *)
TransferLeavesNothing ==
    /\ enc_bufs = IF m_mode = "RECV" THEN transfers ELSE 0
    /\ pc \in {"run", "shutdown", "done"} => live \cap OfTransfer = {}
    /\ pc = "loop" => live \cap OfTransfer \subseteq {"net_buf"}

(* While UCX may still be working on an operation, what it works with is
   held: the buffers, the endpoint, the worker and its context. *)
PostedKeepsMemory ==
    /\ "send_req" \in live =>
          {data_buf, m_remote_ep, "worker", "ctx"} \subseteq live
    /\ "recv_req" \in live =>
          /\ {"worker", "ctx"} \subseteq live
          /\ pc = "comm_wait" => data_buf \in live
          /\ pc = "warm_recv_wait" => "warm_buf" \in live

(* What is held is a function of where the process is, the build and the mode:
   the invariant that the others rest on. *)
Warming     == {"warm_establish", "warm_send", "warm_recv", "warm_recv_wait",
                "warm_send_wait", "warm_close", "warm_return"}
Connected   == {"transfer", "comm_wait", "close"}
NotMapped   == {"init", "init_worker", "init_addr", "init_map"}
BeforeClose == {"init_map", "init_warmup"} \cup (Warming \ {"warm_return"})

HoldsAddress ==
    /\ pc \notin {"init", "init_worker", "init_addr"}
    /\ ~ (OPT_2 /\ m_mode = "SEND") \/ pc \in BeforeClose
HoldsBuffer ==
    \/ pc \in Warming
    \/ m_mode = "SEND" /\ pc \in {"loop", "establish"} \cup Connected
    \/ m_mode = "RECV" /\ pc \in {"establish", "return"} \cup Connected
HoldsEndpoint ==
    \/ pc \in Warming \ {"warm_establish", "warm_return"}
    \/ m_mode = "SEND" /\ pc \in Connected
HoldsPeerAddress == m_mode = "SEND" /\ pc \in {"establish"} \cup Connected

HeldInv ==
    /\ "ctx" \in live <=> pc # "init"
    /\ "worker" \in live <=> pc \notin {"init", "init_worker"}
    /\ "local_addr" \in live <=> HoldsAddress
    /\ "map" \in live <=> OPT_1 /\ pc \notin NotMapped
    /\ "ep" \in live <=> HoldsEndpoint
    /\ "remote_addr" \in live <=> HoldsPeerAddress
    /\ "net_buf" \in live <=> ~ OPT_1 /\ HoldsBuffer
    /\ "warm_buf" \in live <=> pc \in Warming
    /\ "send_req" \in live <=> send_ptr = "send_req"
    /\ "recv_req" \in live <=> recv_ptr = "recv_req"

(* The pointers name what is held, as long as anything follows them. *)
PointersInv ==
    /\ m_local_addr = IF pc \in {"init", "init_worker", "init_addr"}
                      THEN NULL ELSE "local_addr"
    /\ m_net_buf = IF OPT_1 /\ pc \notin NotMapped THEN "map" ELSE NULL
    /\ m_remote_ep = IF HoldsEndpoint THEN "ep" ELSE NULL
    /\ HoldsPeerAddress => m_remote_addr = "remote_addr"
    /\ pc \in Warming \ {"warm_return"} => m_remote_addr = "local_addr"
    /\ HoldsBuffer => data_buf = NetBuf
    /\ pc \in Warming \cup {"init_warmup"} => OPT_2
    /\ send_ptr # NULL =>
          \/ pc \in {"warm_recv", "warm_recv_wait", "warm_send_wait"}
          \/ pc = "comm_wait" /\ m_mode = "SEND"
    /\ recv_ptr # NULL =>
          \/ pc = "warm_recv_wait"
          \/ pc = "comm_wait" /\ m_mode = "RECV"

OwnershipInv ==
    /\ ~ m_initialized
    /\ misuse = {}
    /\ PostedKeepsMemory
    /\ enc_bufs = IF m_mode = "RECV" THEN transfers ELSE 0
    /\ pc # "threw" => HeldInv /\ PointersInv

(* abstract_backend.cpp:217-240: shutdown unmaps the persistent buffer and
   releases the address, the worker and the context if they are not already
   released. *)
ShutdownReleasesAll == pc = "done" => live \cap OfBackend = {}

(* abstract_backend.cpp:225: shutdown takes a local address that is not
   nullptr to be one that is not already released. *)
LocalAddressIsHeld == m_local_addr # NULL => m_local_addr \in live

(* CMakeLists.txt:25: OPT2 enables optimization 1, the mapped buffer, too. *)
Opt2EnablesOpt1 ==
    ("OPT2" \in options /\ data_buf # NULL) => data_buf = "map"
=============================================================================
