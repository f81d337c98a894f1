------------------------------ MODULE Programs ------------------------------
(***************************************************************************)
(* One of the two programs from its command line to its end: main          *)
(* (dyad_ucx_perftest_server.cpp, dyad_ucx_perftest_client.cpp) around the *)
(* backend of BackendLifecycle.  m_mode tells which of the two it is.      *)
(* Added here are the arguments, the sizes of the blocks, the constructors *)
(* of Server, Client and OOBComm, and the message that the warmup of an    *)
(* OPT_2 build sends to the process itself.                                *)
(***************************************************************************)
EXTENDS BackendLifecycle

CONSTANTS
    Sizes,            \* numbers of bytes: what data_size may be given as, and
                      \* what the uninitialized variable may hold
    MAX_BUFFER_SIZE,  \* length of the mapped buffer
    MaxConnections    \* bound: num_connections on a server's command line

ASSUME ProgramsAssumption ==
    /\ Sizes \subseteq Nat
    /\ MAX_BUFFER_SIZE \in Nat \ {0}
    /\ MaxConnections \in Nat

VARIABLES
    main,             \* where main is
    positionals,      \* how many positional arguments there are
    data_size,        \* main's variable, and m_data_size of all it creates
    num_connections,  \* main's variable (server)
    peer_size,        \* data_size of the server that a client talks to
    connected,        \* a client's zsock_connect succeeded
    own               \* the warmup's message to this process itself, in UCX

arguments   == <<positionals, data_size, num_connections, peer_size>>
programVars == <<main, arguments, connected, own, vars>>

ProgramTypeOK ==
    /\ main \in {"parse", "backend", "construct", "try", "usage", "threw"}
    /\ positionals \in 0 .. 5
    /\ data_size \in Sizes /\ peer_size \in Sizes
    /\ num_connections \in 0 .. MaxConnections
    /\ connected \in BOOLEAN
    /\ own \in {"none", "posted", "taken"}

ProgramInit ==
    /\ Init
    /\ main = "parse"
    /\ positionals \in 0 .. 5
    /\ data_size \in Sizes
    /\ num_connections = 0
    /\ peer_size \in Sizes
    /\ connected = FALSE
    /\ own = "none"

-----------------------------------------------------------------------------
(* The command line: mode, tcp_address, data_size and, for the server,      *)
(* num_connections; only the first is required.                            *)

Accepted == IF m_mode = "SEND" THEN 4 ELSE 3

(* CLI11_PARSE returns from main: no mode or an unknown one, a surplus
   argument, an unknown flag, not a number, a call for help. *)
ParseRejects ==
    /\ main = "parse"
    /\ main' = "usage"
    /\ UNCHANGED <<arguments, connected, own, vars>>

(* Mutant: a server counts on one connection unless it is told otherwise. *)
ParseAcceptsDefaultOne ==
    /\ main = "parse"
    /\ positionals \in 1 .. Accepted
    /\ data_size' \in IF positionals >= 3 THEN Sizes ELSE {data_size}
    /\ num_connections' \in IF positionals >= 4 THEN 0 .. MaxConnections ELSE {1}
    /\ main' \in {"backend", "threw"}
    /\ UNCHANGED <<positionals, peer_size, connected, own, vars>>

(* The mode "none" passes the parser, and main throws. *)
ParseAccepts ==
    /\ main = "parse"
    /\ positionals \in 1 .. Accepted
    /\ data_size' \in IF positionals >= 3 THEN Sizes ELSE {data_size}
    /\ num_connections' \in IF positionals >= 4 THEN 0 .. MaxConnections
                            ELSE {num_connections}
    /\ main' \in {"backend", "threw"}
    /\ UNCHANGED <<positionals, peer_size, connected, own, vars>>

-----------------------------------------------------------------------------
(* backend->init (), outside the try block.                                *)

(* A step of init; the last one leads to the constructor. *)
Initializing(step) ==
    /\ main = "backend"
    /\ step
    /\ main' = IF pc' = "run" THEN "construct" ELSE "backend"
    /\ UNCHANGED <<arguments, connected>>

InitStep ==
    /\ Initializing(\/ InitContext \/ InitWorker \/ InitAddress \/ InitMap
                    \/ WarmupBegin \/ WarmupEstablish \/ WarmupClose \/ WarmupReturn
                    \/ pc # "run" /\ Throw
                    \/ CommFails)
    /\ UNCHANGED own

(* The warmup's message reaches this process if it was sent, and to its own
   address. *)
WarmupPosts ==
    /\ Initializing(WarmupSend)
    /\ own' = IF send_ptr' # "error" /\ m_remote_addr = m_local_addr
              THEN "posted" ELSE own

(* Mutants: the send is waited for before the receive is posted; the probe
   does not take the message off UCX's list. *)
WarmupTakesAfterSend ==
    /\ own = "posted" /\ send_ptr # "send_req"
    /\ Initializing(WarmupRecv)
    /\ own' = "taken"
WarmupTakesACopy ==
    /\ own = "posted"
    /\ Initializing(WarmupRecv)
    /\ UNCHANGED own

WarmupTakes ==
    /\ own = "posted"
    /\ Initializing(WarmupRecv)
    /\ own' = "taken"

WarmupFetches ==
    /\ Initializing(WarmupRecvWait)
    /\ own' = IF own = "taken" THEN "none" ELSE own

(* UCX may complete a send only when the receiver has fetched the data. *)
WarmupSent ==
    /\ send_ptr = "send_req" => own # "posted"
    /\ Initializing(WarmupSendWait)
    /\ UNCHANGED own

(* A turn of the probe loop that finds nothing. *)
WarmupProbes ==
    /\ main = "backend"
    /\ pc = "warm_recv"
    /\ UNCHANGED programVars

-----------------------------------------------------------------------------
(* new Server and new Client, outside the try block, too.                  *)

(* OOBComm's constructor has bound the socket. *)
ServerConstruct ==
    /\ main = "construct"
    /\ m_mode = "SEND"
    /\ num_connections # 0
    /\ main' = "try"
    /\ UNCHANGED <<arguments, connected, own, vars>>

(* No connections are expected, or the port is not the one asked for. *)
ServerRefuses ==
    /\ main = "construct"
    /\ m_mode = "SEND"
    /\ Throw
    /\ UNCHANGED <<main, arguments, connected, own>>

(* A client does not look at the result of zsock_connect. *)
ClientConstruct ==
    /\ main = "construct"
    /\ m_mode = "RECV"
    /\ connected' \in BOOLEAN
    /\ main' = "try"
    /\ UNCHANGED <<arguments, own, vars>>

-----------------------------------------------------------------------------
(* The try block, and the destructors after it.                            *)

(* Without a connection a REQ socket blocks in its first send. *)
Unreachable == m_mode = "RECV" /\ ~ connected

TryStep ==
    /\ main = "try"
    /\ ~ Unreachable
    /\ \/ ServerGenData \/ ServerRequest \/ ServerSend \/ ServerCommWait \/ ServerReturn
       \/ ClientGetBuf \/ ClientRecv \/ ClientCommWait \/ ClientReturn \/ ClientLeave
       \/ Establish
       \/ (m_mode = "RECV" => data_size = peer_size) /\ Close
       \/ shutdown \/ Throw \/ CommFails
    /\ UNCHANGED <<main, arguments, connected, own>>

Exited == main \in {"usage", "threw"} \/ pc \in {"done", "threw"}

(* The end of the program, and a client that blocks for ever. *)
Rest ==
    /\ Exited \/ (main = "try" /\ Unreachable)
    /\ UNCHANGED programVars

(* The steps that lead to another place of the program. *)
GoOn ==
    \/ ParseRejects \/ ParseAccepts
    \/ InitStep \/ WarmupPosts \/ WarmupTakes \/ WarmupFetches \/ WarmupSent
    \/ ServerConstruct \/ ServerRefuses \/ ClientConstruct
    \/ TryStep

ProgramNext == GoOn \/ WarmupProbes \/ Rest

ProgramSpec == ProgramInit /\ [][ProgramNext]_programVars

(* The process is scheduled, and its peers answer (Perftest says when they
   do). *)
ProgramFairSpec == ProgramSpec /\ WF_programVars(ProgramNext)

-----------------------------------------------------------------------------
(* The blocks, and the bytes of them that are read or written.             *)

Capacity(block) ==
    CASE block = "map"      -> MAX_BUFFER_SIZE
      [] block = "net_buf"  -> data_size
      [] block = "warm_buf" -> 1

(* Mutant: the warmup sends as much as a transfer. *)
WholeLength == data_size

WarmupLength == 1

(* What the operations under way touch: the warmup sends from the transfer
   buffer and receives into a block of its own, gen_data fills the server's
   buffer and send reads it, a client receives whatever length arrives. *)
Accesses ==
    CASE pc = "warm_recv" ->
           {[block |-> data_buf, bytes |-> WarmupLength]}
      [] pc \in {"warm_recv_wait", "warm_send_wait"} ->
           {[block |-> data_buf, bytes |-> WarmupLength],
            [block |-> "warm_buf", bytes |-> WarmupLength]}
      [] pc \in {"loop", "comm_wait"} /\ m_mode = "SEND" ->
           {[block |-> data_buf, bytes |-> data_size]}
      [] pc = "comm_wait" /\ m_mode = "RECV" ->
           {[block |-> data_buf, bytes |-> peer_size]}
      [] OTHER -> {}

-----------------------------------------------------------------------------
(* Properties.                                                             *)

(* Nothing in the code compares a size with the length of a block: a block is
   allocated by get_net_buf or mapped by init, and filled or read elsewhere.
   What follows from that: the warmup's one byte comes from a transfer buffer
   of data_size bytes, which may be none; ... *)
EmptyForWarmup(a) == pc \in Warming /\ a.block = "net_buf" /\ data_size = 0

(* ... a transfer may be larger than the mapped buffer, whose length is fixed; *)
TooLargeForMap(a) ==
    /\ pc \notin Warming
    /\ a.block = "map"
    /\ MAX_BUFFER_SIZE < (IF m_mode = "SEND" THEN data_size ELSE peer_size)

(* ... and a client receives what the server sends into a block of its own
   size, and compares the two only afterwards. *)
LargerThanOwn(a) ==
    pc = "comm_wait" /\ m_mode = "RECV" /\ a.block = "net_buf" /\ data_size < peer_size

(* In every build and either mode these are all the accesses that reach beyond
   their block: with equal sizes of 1 to MAX_BUFFER_SIZE bytes there is none. *)
AccessesFit ==
    \A a \in Accesses :
        a.bytes > Capacity(a.block)
          <=> EmptyForWarmup(a) \/ TooLargeForMap(a) \/ LargerThanOwn(a)

(* data_size has no default, and num_connections, which comes after it on the
   command line, has the default 0.  A server that was not given a size does not
   serve, because it then expects nobody and its constructor refuses; nor does
   one that was given 0 connections, whose empty table would be all active and
   all inactive at once. *)
UnsizedServerNeverServes ==
    (m_mode = "SEND" /\ main = "try") => positionals >= 3 /\ num_connections # 0

(* The warmup's message carries the tag of the transfers: if it were still
   there after init, a client would take it for its first data. *)
NoLeftover == main \in {"construct", "try"} => own = "none"

(* The program ends, for whatever reason, unless its warmup could not send
   (its probe loop spins) or its server could not be reached (the send
   blocks); a transfer whose send fails ends it, too.  In particular the
   warmup does not wait for itself, although one thread is both its sender and
   its receiver. *)
ProgramSettles ==
    <>(Exited \/ (main = "try" /\ Unreachable) \/ (pc = "warm_recv" /\ send_ptr = "error"))

InInit == NotMapped \cup {"init_warmup"} \cup Warming

(* What the program needs for its next step: in the warmup the message to
   itself, or that it has taken it; in a transfer what it transfers with; for
   anything in the try block its server. *)
CanGoOn ==
    \/ main = "parse"
    \/ main = "construct" /\ pc = "run"
    \/ /\ main = "backend"
       /\ pc \in InInit
       /\ pc = "warm_recv" => own = "posted" /\ send_ptr # "error"
       /\ (pc = "warm_send_wait" /\ send_ptr = "send_req") => own # "posted"
    \/ /\ main = "try"
       /\ ~ Unreachable
       /\ pc \notin {"done", "threw"}
       /\ pc = "transfer" => (IF m_mode = "SEND" THEN m_remote_ep ELSE data_buf) # NULL

(* That is all it needs. *)
GoingOnTakesNoMore == CanGoOn => ENABLED GoOn

(* The program never waits for itself, and never for anything but a server
   that it could not reach or a warmup message that it could not send. *)
NeverWaitsForItself ==
    \/ CanGoOn
    \/ Exited
    \/ main = "try" /\ Unreachable
    \/ pc = "warm_recv" /\ send_ptr = "error"

(* How far the program is: the transfers it has begun, its place in main and
   its place in the backend; the loops come back to their heads, which are
   beyond all that a transfer goes through. *)
Phase == [parse |-> 0, backend |-> 1, construct |-> 2, try |-> 3, usage |-> 9, threw |-> 9]

Place == [init |-> 0, init_worker |-> 1, init_addr |-> 2, init_map |-> 3,
          init_warmup |-> 4, warm_establish |-> 5, warm_send |-> 6, warm_recv |-> 7,
          warm_recv_wait |-> 8, warm_send_wait |-> 9, warm_close |-> 10,
          warm_return |-> 11, establish |-> 20, transfer |-> 30, comm_wait |-> 40,
          close |-> 50, return |-> 60, run |-> 70, loop |-> 75, shutdown |-> 80,
          delete |-> 85, done |-> 90, threw |-> 90]

HowFar == 100 * transfers + Phase[main] + Place[pc]

(* Whatever fails, in every build and either mode, no step takes the program
   back: it goes round only with another transfer, and otherwise through init,
   warmup, a transfer and shutdown once each. *)
EveryStepLeadsOn ==
    [][HowFar < HowFar' /\ HowFar' <= 100 * MaxTransfers + 99]_programVars

-----------------------------------------------------------------------------
(* Where main is, against where the backend is.                            *)

MainInv ==
    /\ main \in {"parse", "usage", "threw"} => pc = "init"
    /\ main = "backend" => pc \in InInit \cup {"threw"}
    /\ main = "construct" => pc \in {"run", "threw"}
    /\ main = "try" => pc \notin InInit

(* The warmup's message is there only while it is on its way, and a server in
   its try block was given every argument. *)
ProgramInv ==
    /\ MainInv
    /\ own = "posted" => pc \in {"warm_recv", "threw"}
    /\ own = "taken" => pc \in {"warm_recv_wait", "threw"}
    /\ pc = "warm_recv_wait" => own = "taken"
    /\ own # "none" => main = "backend"
    /\ num_connections # 0 => positionals >= 4
    /\ (m_mode = "SEND" /\ main = "try") => num_connections # 0
=============================================================================
