--------------------------- MODULE ProgramsProofs ---------------------------
(***************************************************************************)
(* Proofs about a whole program, for any sizes of data and buffer, any     *)
(* number of connections and of transfers, in every build and either mode. *)
(* What is proved of the backend holds in the programs, because every step *)
(* of main is a step of BackendLifecycle or leaves the backend alone.      *)
(***************************************************************************)
EXTENDS Programs, BackendLifecycleProofs

LEMMA ProgramStep ==
    ASSUME [ProgramNext]_programVars
    PROVE  [Next]_vars
<1>1. CASE ParseRejects \/ ParseAccepts
  BY <1>1 DEF ParseRejects, ParseAccepts
<1>2. CASE InitStep
  BY <1>2 DEF InitStep, Initializing, Next
<1>3. CASE WarmupPosts \/ WarmupTakes \/ WarmupFetches \/ WarmupSent
  BY <1>3 DEF WarmupPosts, WarmupTakes, WarmupFetches, WarmupSent, Initializing, Next
<1>4. CASE ServerConstruct \/ ClientConstruct
  BY <1>4 DEF ServerConstruct, ClientConstruct
<1>5. CASE ServerRefuses
  BY <1>5 DEF ServerRefuses, Next
<1>6. CASE TryStep
  BY <1>6 DEF TryStep, Next
<1>7. CASE WarmupProbes \/ Rest \/ UNCHANGED programVars
  BY <1>7 DEF WarmupProbes, Rest, programVars
<1> QED
  BY <1>1, <1>2, <1>3, <1>4, <1>5, <1>6, <1>7 DEF ProgramNext, GoOn

(* main drives its backend as BackendLifecycle allows: it neither uses it
   before init nor after an exception. *)
THEOREM ProgramDrivesBackend == ProgramSpec => Spec
<1>1. ProgramInit => Init
  BY DEF ProgramInit
<1> QED
  BY <1>1, ProgramStep, PTL DEF ProgramSpec, Spec

(* In a whole program, too, what is held is what the position says. *)
THEOREM ProgramOwnership == ProgramSpec => [](TypeOK /\ OwnershipInv)
  BY ProgramDrivesBackend, Ownership, PTL

(* Nor do the two programs use or release anything wrongly, take from under UCX
   what it works with, or pile anything up from one transfer to the next. *)
THEOREM ProgramMemory ==
    ProgramSpec => [](NoMisuse /\ PostedKeepsMemory /\ TransferLeavesNothing)
  BY ProgramDrivesBackend, MemoryDiscipline, NothingLeft, PTL

-----------------------------------------------------------------------------
LEMMA ProgramTypeStep ==
    ASSUME ProgramTypeOK, [ProgramNext]_programVars
    PROVE  ProgramTypeOK'
<1> USE DEF ProgramTypeOK, arguments
<1>1. CASE ParseRejects
  BY <1>1 DEF ParseRejects
<1>2. CASE ParseAccepts
  <2>1. num_connections' \in 0 .. MaxConnections
    BY <1>2 DEF ParseAccepts
  <2>2. data_size' \in Sizes
    BY <1>2 DEF ParseAccepts
  <2> QED
    BY <1>2, <2>1, <2>2 DEF ParseAccepts
<1>3. CASE InitStep
  BY <1>3 DEF InitStep, Initializing
<1>4. CASE WarmupPosts \/ WarmupTakes \/ WarmupFetches \/ WarmupSent
  BY <1>4 DEF WarmupPosts, WarmupTakes, WarmupFetches, WarmupSent, Initializing
<1>5. CASE ServerConstruct \/ ClientConstruct
  BY <1>5 DEF ServerConstruct, ClientConstruct
<1>6. CASE ServerRefuses
  BY <1>6 DEF ServerRefuses
<1>7. CASE TryStep
  BY <1>7 DEF TryStep
<1>8. CASE WarmupProbes \/ Rest \/ UNCHANGED programVars
  BY <1>8 DEF WarmupProbes, Rest, programVars
<1> QED
  BY <1>1, <1>2, <1>3, <1>4, <1>5, <1>6, <1>7, <1>8 DEF ProgramNext, GoOn

(* A step of init stays in init, ends it or throws. *)
LEMMA InitStays ==
    ASSUME TypeOK, pc \in InInit \cup {"threw"},
           \/ InitContext \/ InitWorker \/ InitAddress \/ InitMap
           \/ WarmupBegin \/ WarmupEstablish \/ WarmupClose \/ WarmupReturn
           \/ WarmupSend \/ WarmupRecv \/ WarmupRecvWait \/ WarmupSendWait
           \/ Throw \/ CommFails
    PROVE  pc' \in InInit \cup {"run", "threw"} /\ m_mode' = m_mode
  BY DEF InitContext, InitWorker, InitAddress, InitMap, AfterInit, WarmupBegin,
         WarmupEstablish, WarmupClose, WarmupReturn, WarmupSend, WarmupRecv,
         WarmupRecvWait, WarmupSendWait, Throw, CommFails, InInit, NotMapped, Warming,
         Step, setup

(* No step of the try block leads back into init. *)
LEMMA TryStays ==
    ASSUME TryStep, pc \notin InInit
    PROVE  pc' \notin InInit /\ m_mode' = m_mode
  BY DEF TryStep, ServerGenData, ServerRequest, ServerSend, ServerCommWait,
         ServerReturn, ClientGetBuf, ClientRecv, ClientCommWait, ClientReturn,
         ClientLeave, Establish, Close, shutdown, Throw, CommFails, InInit,
         NotMapped, Warming, Step, setup

LEMMA ProgramInvStep ==
    ASSUME TypeOK, ProgramTypeOK, ProgramInv, [ProgramNext]_programVars
    PROVE  ProgramInv'
<1> USE ProgramsAssumption DEF ProgramTypeOK, ProgramInv, MainInv, arguments
<1>1. CASE ParseRejects
  BY <1>1 DEF ParseRejects, vars, setup
<1>2. CASE ParseAccepts
  <2>1. num_connections' # 0 => positionals' >= 4
    BY <1>2 DEF ParseAccepts
  <2>2. main' \in {"backend", "threw"} /\ UNCHANGED <<own, pc, m_mode>>
    BY <1>2 DEF ParseAccepts, vars, setup
  <2>3. pc = "init" /\ own = "none"
    BY <1>2 DEF ParseAccepts
  <2> QED
    BY <2>1, <2>2, <2>3 DEF InInit, NotMapped
<1>3. CASE InitStep \/ WarmupPosts \/ WarmupTakes \/ WarmupFetches \/ WarmupSent
  <2>1. /\ main = "backend"
        /\ main' = IF pc' = "run" THEN "construct" ELSE "backend"
        /\ UNCHANGED <<positionals, num_connections>>
    BY <1>3 DEF InitStep, WarmupPosts, WarmupTakes, WarmupFetches, WarmupSent,
                Initializing
  <2>2. pc' \in InInit \cup {"run", "threw"} /\ m_mode' = m_mode
    BY <1>3, <2>1, InitStays
       DEF InitStep, WarmupPosts, WarmupTakes, WarmupFetches, WarmupSent, Initializing
  <2>3. MainInv'
    BY <2>1, <2>2 DEF InInit, NotMapped, Warming
  <2>4. /\ own' = "posted" => pc' \in {"warm_recv", "threw"}
        /\ own' = "taken" => pc' \in {"warm_recv_wait", "threw"}
        /\ pc' = "warm_recv_wait" => own' = "taken"
        /\ pc' = "run" => own' = "none"
    <3>1. CASE InitStep
      BY <3>1 DEF InitStep, Initializing, InitContext, InitWorker, InitAddress,
                  InitMap, AfterInit, WarmupBegin, WarmupEstablish, WarmupClose,
                  WarmupReturn, Throw, CommFails, MayThrow, Step
    <3>2. CASE WarmupPosts \/ WarmupTakes \/ WarmupFetches \/ WarmupSent
      BY <3>2 DEF WarmupPosts, WarmupTakes, WarmupFetches, WarmupSent, Initializing,
                  WarmupSend, WarmupRecv, WarmupRecvWait, WarmupSendWait, Step
    <3> QED
      BY <1>3, <3>1, <3>2
  <2> QED
    BY <2>1, <2>2, <2>3, <2>4
<1>4. CASE ServerConstruct \/ ClientConstruct
  BY <1>4 DEF ServerConstruct, ClientConstruct, vars, setup, InInit, NotMapped, Warming
<1>5. CASE ServerRefuses
  BY <1>5 DEF ServerRefuses, Throw, setup
<1>6. CASE TryStep
  <2>1. main = "try" /\ own = "none" /\ UNCHANGED <<main, arguments, own>>
    BY <1>6 DEF TryStep
  <2>2. pc' \notin InInit /\ m_mode' = m_mode
    BY <1>6, <2>1, TryStays
  <2>3. pc' # "warm_recv_wait"
    BY <2>2 DEF InInit, Warming
  <2> QED
    BY <2>1, <2>2, <2>3 DEF InInit
<1>7. CASE WarmupProbes \/ Rest \/ UNCHANGED programVars
  <2>1. UNCHANGED programVars
    BY <1>7 DEF WarmupProbes, Rest
  <2>2. UNCHANGED <<main, own, positionals, num_connections, pc, m_mode>>
    BY <2>1 DEF programVars, vars, setup
  <2> QED
    BY <2>2 DEF InInit
<1> QED
  BY <1>1, <1>2, <1>3, <1>4, <1>5, <1>6, <1>7 DEF ProgramNext, GoOn

LEMMA ProgramInitial == ProgramInit => ProgramTypeOK /\ ProgramInv
<1> SUFFICES ASSUME ProgramInit PROVE ProgramTypeOK /\ ProgramInv
  OBVIOUS
<1>1. pc = "init" /\ main = "parse" /\ own = "none" /\ num_connections = 0
  BY DEF ProgramInit, Init
<1>2. num_connections \in 0 .. MaxConnections
  BY <1>1, ProgramsAssumption
<1>3. ProgramTypeOK
  BY <1>1, <1>2 DEF ProgramInit, ProgramTypeOK
<1> QED
  BY <1>1, <1>3 DEF ProgramInv, MainInv

(* Types, and where main is against where its backend is. *)
THEOREM ProgramInvariance == ProgramSpec => [](ProgramTypeOK /\ ProgramInv)
<1>1. /\ TypeOK /\ ProgramTypeOK /\ ProgramInv /\ [ProgramNext]_programVars
      => ProgramTypeOK' /\ ProgramInv'
  BY ProgramTypeStep, ProgramInvStep
<1> QED
  BY <1>1, ProgramInitial, ProgramOwnership, PTL DEF ProgramSpec

(* A server that was not given its data size, or a number of connections,
   does not serve. *)
THEOREM UnsizedServer == ProgramSpec => []UnsizedServerNeverServes
<1>1. ProgramTypeOK /\ ProgramInv => UnsizedServerNeverServes
  BY DEF ProgramTypeOK, ProgramInv, UnsizedServerNeverServes
<1> QED
  BY <1>1, ProgramInvariance, PTL

(* The warmup leaves no message behind. *)
THEOREM WarmupLeavesNoMessage == ProgramSpec => []NoLeftover
<1>1. ProgramTypeOK /\ ProgramInv => NoLeftover
  BY DEF ProgramTypeOK, ProgramInv, NoLeftover
<1> QED
  BY <1>1, ProgramInvariance, PTL

(* The accesses that reach beyond their block are the three that are named,
   whatever the sizes are and in every build. *)
THEOREM BuffersHoldTransfers == ProgramSpec => []AccessesFit
<1>1. TypeOK /\ OwnershipInv /\ ProgramTypeOK => AccessesFit
  <2> SUFFICES ASSUME TypeOK, OwnershipInv, ProgramTypeOK, NEW a \in Accesses
               PROVE  a.bytes > Capacity(a.block)
                        <=> EmptyForWarmup(a) \/ TooLargeForMap(a) \/ LargerThanOwn(a)
    BY DEF AccessesFit
  <2>1. data_size \in Nat /\ MAX_BUFFER_SIZE \in Nat \ {0} /\ peer_size \in Nat
    BY ProgramsAssumption DEF ProgramTypeOK
  <2>2. ASSUME a.block = data_buf, HoldsBuffer, pc # "threw"
        PROVE  a.block \in {"map", "net_buf"}
    <3>1. data_buf = NetBuf
      BY <2>2 DEF OwnershipInv, PointersInv
    <3> QED
      BY <2>2, <3>1
         DEF OwnershipInv, PointersInv, NetBuf, HoldsBuffer, NotMapped, Warming,
             Connected
  <2>3. CASE a = [block |-> "warm_buf", bytes |-> 1]
    BY <2>3 DEF Capacity, EmptyForWarmup, TooLargeForMap, LargerThanOwn
  <2>4. CASE pc \in {"warm_recv", "warm_recv_wait", "warm_send_wait"}
             /\ a = [block |-> data_buf, bytes |-> 1]
    <3>1. a.block \in {"map", "net_buf"}
      BY <2>2, <2>4 DEF HoldsBuffer, Warming
    <3> QED
      BY <2>1, <2>4, <3>1
         DEF Capacity, EmptyForWarmup, TooLargeForMap, LargerThanOwn, Warming
  <2>5. CASE pc \in {"loop", "comm_wait"} /\ m_mode = "SEND"
             /\ a = [block |-> data_buf, bytes |-> data_size]
    <3>1. a.block \in {"map", "net_buf"}
      BY <2>2, <2>5 DEF HoldsBuffer, Connected
    <3> QED
      BY <2>1, <2>5, <3>1
         DEF Capacity, EmptyForWarmup, TooLargeForMap, LargerThanOwn, Warming
  <2>6. CASE pc = "comm_wait" /\ m_mode = "RECV"
             /\ a = [block |-> data_buf, bytes |-> peer_size]
    <3>1. a.block \in {"map", "net_buf"}
      BY <2>2, <2>6 DEF HoldsBuffer, Connected
    <3> QED
      BY <2>1, <2>6, <3>1
         DEF Capacity, EmptyForWarmup, TooLargeForMap, LargerThanOwn, Warming
  <2> QED
    BY <2>3, <2>4, <2>5, <2>6 DEF Accesses, WarmupLength
<1> QED
  BY <1>1, ProgramInvariance, ProgramOwnership, PTL

-----------------------------------------------------------------------------
(* The probe of the warmup is owed its message, unless the send failed: it was
   sent to the process's own address. *)
WarmupIsOwed ==
    (main = "backend" /\ pc = "warm_recv") => own = "posted" \/ send_ptr = "error"

LEMMA WarmupIsOwedStep ==
    ASSUME TypeOK, OwnershipInv, ProgramInv, WarmupIsOwed, [ProgramNext]_programVars
    PROVE  WarmupIsOwed'
<1> SUFFICES ASSUME main' = "backend", pc' = "warm_recv"
             PROVE  own' = "posted" \/ send_ptr' = "error"
  BY DEF WarmupIsOwed
<1>1. CASE WarmupPosts
  <2>1. pc = "warm_send" /\ pc # "threw"
    BY <1>1 DEF WarmupPosts, Initializing, WarmupSend, Step
  <2>2. m_remote_addr = m_local_addr
    BY <2>1 DEF OwnershipInv, PointersInv, Warming
  <2> QED
    BY <1>1, <2>2 DEF WarmupPosts
<1>2. CASE InitStep \/ WarmupTakes \/ WarmupFetches \/ WarmupSent
  <2>1. pc' # "warm_recv"
    BY <1>2 DEF InitStep, WarmupTakes, WarmupFetches, WarmupSent, Initializing,
         InitContext, InitWorker, InitAddress, InitMap, AfterInit, WarmupBegin,
         WarmupEstablish, WarmupClose, WarmupReturn, WarmupRecv, WarmupRecvWait,
         WarmupSendWait, Throw, CommFails, Step
  <2> QED
    BY <2>1
<1>3. CASE ParseAccepts
  BY <1>3 DEF ParseAccepts, vars, ProgramInv, MainInv
<1>4. CASE ParseRejects \/ ServerConstruct \/ ServerRefuses \/ ClientConstruct \/ TryStep
  BY <1>4 DEF ParseRejects, ServerConstruct, ServerRefuses, ClientConstruct, TryStep
<1>5. CASE WarmupProbes \/ Rest \/ UNCHANGED programVars
  <2>1. UNCHANGED <<main, pc, own, send_ptr>>
    BY <1>5 DEF WarmupProbes, Rest, programVars, vars, pointers
  <2> QED
    BY <2>1 DEF WarmupIsOwed
<1> QED
  BY <1>1, <1>2, <1>3, <1>4, <1>5 DEF ProgramNext, GoOn

(* The program never blocks on itself, in every build and either mode: not in
   its warmup, where one thread is sender and receiver, and not for want of an
   endpoint or a buffer. *)
THEOREM ProgramGoesOn == ProgramSpec => []NeverWaitsForItself
<1>1. ProgramInit => WarmupIsOwed
  BY DEF ProgramInit, Init, WarmupIsOwed
<1>2. /\ TypeOK /\ OwnershipInv /\ ProgramInv /\ WarmupIsOwed /\ [ProgramNext]_programVars
      => WarmupIsOwed'
  BY WarmupIsOwedStep
<1>3. TypeOK /\ OwnershipInv /\ ProgramTypeOK /\ ProgramInv /\ WarmupIsOwed
         => NeverWaitsForItself
  <2> SUFFICES ASSUME TypeOK, OwnershipInv, ProgramTypeOK, ProgramInv, WarmupIsOwed
               PROVE  NeverWaitsForItself
    OBVIOUS
  <2>1. CASE main \in {"parse", "usage", "threw"}
    BY <2>1 DEF NeverWaitsForItself, CanGoOn, Exited
  <2>2. CASE main = "construct"
    BY <2>2 DEF NeverWaitsForItself, CanGoOn, Exited, ProgramInv, MainInv
  <2>3. CASE main = "backend"
    <3>1. pc \in InInit \cup {"threw"}
      BY <2>3 DEF ProgramInv, MainInv
    <3>2. pc = "warm_send_wait" => own # "posted"
      BY DEF ProgramInv
    <3> QED
      BY <2>3, <3>1, <3>2 DEF NeverWaitsForItself, CanGoOn, Exited, WarmupIsOwed
  <2>4. CASE main = "try"
    <3>1. pc = "transfer" => (IF m_mode = "SEND" THEN m_remote_ep ELSE data_buf) # NULL
      <4> SUFFICES ASSUME pc = "transfer"
                   PROVE  (IF m_mode = "SEND" THEN m_remote_ep ELSE data_buf) # NULL
        OBVIOUS
      <4>1. CASE m_mode = "SEND"
        BY <4>1, LifecycleAssumption
           DEF OwnershipInv, PointersInv, HoldsEndpoint, Connected, Resource
      <4>2. CASE m_mode # "SEND"
        <5>1. m_mode = "RECV" /\ HoldsBuffer
          BY <4>2 DEF TypeOK, HoldsBuffer, Connected
        <5>2. data_buf \in {"map", "net_buf"}
          BY <5>1 DEF OwnershipInv, PointersInv, NetBuf, NotMapped
        <5> QED
          BY <4>2, <5>2, LifecycleAssumption DEF Resource
      <4> QED
        BY <4>1, <4>2
    <3> QED
      BY <2>4, <3>1 DEF NeverWaitsForItself, CanGoOn, Exited
  <2> QED
    BY <2>1, <2>2, <2>3, <2>4 DEF ProgramTypeOK
<1> QED
  BY <1>1, <1>2, <1>3, ProgramInvariance, ProgramOwnership, PTL DEF ProgramSpec

-----------------------------------------------------------------------------
(* Every step leads on.                                                    *)

LEMMA Phases ==
    /\ Phase["parse"] = 0 /\ Phase["backend"] = 1 /\ Phase["construct"] = 2
    /\ Phase["try"] = 3 /\ Phase["usage"] = 9 /\ Phase["threw"] = 9
  BY DEF Phase

LEMMA Places ==
    /\ Place["init"] = 0 /\ Place["init_worker"] = 1 /\ Place["init_addr"] = 2
    /\ Place["init_map"] = 3 /\ Place["init_warmup"] = 4
    /\ Place["warm_establish"] = 5 /\ Place["warm_send"] = 6
    /\ Place["warm_recv"] = 7 /\ Place["warm_recv_wait"] = 8
    /\ Place["warm_send_wait"] = 9 /\ Place["warm_close"] = 10
    /\ Place["warm_return"] = 11
    /\ Place["establish"] = 20 /\ Place["transfer"] = 30
    /\ Place["comm_wait"] = 40 /\ Place["close"] = 50 /\ Place["return"] = 60
    /\ Place["run"] = 70 /\ Place["loop"] = 75
    /\ Place["shutdown"] = 80 /\ Place["delete"] = 85
    /\ Place["done"] = 90 /\ Place["threw"] = 90
  BY DEF Place

LEMMA PlaceType == \A p \in PC : Place[p] \in 0 .. 90
  BY Places DEF PC, Running

(* The backend's own steps lead to a later place, or begin a transfer. *)
BackendGoesOn ==
    \/ InitContext \/ InitWorker \/ InitAddress \/ InitMap
    \/ WarmupBegin \/ WarmupEstablish \/ WarmupSend \/ WarmupRecv
    \/ WarmupRecvWait \/ WarmupSendWait \/ WarmupClose \/ WarmupReturn
    \/ ServerGenData \/ ServerRequest \/ ServerSend \/ ServerCommWait \/ ServerReturn
    \/ ClientGetBuf \/ ClientRecv \/ ClientCommWait \/ ClientReturn \/ ClientLeave
    \/ Establish \/ Close \/ shutdown \/ Throw \/ CommFails

LEMMA BackendLeadsOn ==
    ASSUME TypeOK, BackendGoesOn
    PROVE  100 * transfers + Place[pc] < 100 * transfers' + Place[pc']
<1>1. transfers \in Nat /\ m_mode \in {"SEND", "RECV"}
  BY LifecycleAssumption DEF TypeOK
<1> USE <1>1, Places DEF Step, counters
<1>2. CASE InitContext \/ InitWorker \/ InitAddress \/ InitMap
  BY <1>2 DEF InitContext, InitWorker, InitAddress, InitMap, AfterInit
<1>3. CASE WarmupBegin \/ WarmupEstablish \/ WarmupSend \/ WarmupRecv
  BY <1>3 DEF WarmupBegin, WarmupEstablish, WarmupSend, WarmupRecv,
              establish_connection, send, recv, Posted
<1>4. CASE WarmupRecvWait \/ WarmupSendWait \/ WarmupClose \/ WarmupReturn
  <2>1. UNCHANGED transfers
    BY <1>4 DEF WarmupRecvWait, WarmupSendWait, WarmupClose, WarmupReturn
  <2>2. \/ Step("warm_recv_wait", "warm_send_wait") \/ Step("warm_send_wait", "warm_close")
        \/ Step("warm_close", "warm_return") \/ Step("warm_return", "run")
    BY <1>4, Zenon DEF WarmupRecvWait, WarmupSendWait, WarmupClose, WarmupReturn
  <2> QED
    BY <2>1, <2>2
<1>5. CASE ServerRequest \/ ClientGetBuf
  BY <1>5 DEF ServerRequest, ClientGetBuf
<1>6. CASE ServerGenData \/ ServerSend \/ ServerCommWait \/ ServerReturn
             \/ ClientRecv \/ ClientCommWait \/ ClientReturn \/ ClientLeave
  BY <1>6 DEF ServerGenData, ServerSend, ServerCommWait, ServerReturn,
              ClientRecv, ClientCommWait, ClientReturn, ClientLeave
<1>7. CASE Establish \/ Close
  <2>1. UNCHANGED transfers
    BY <1>7 DEF Establish, Close
  <2>2. \/ Step("establish", "transfer") \/ Step("close", "loop")
        \/ Step("close", "return")
    BY <1>7 DEF Establish, Close
  <2> QED
    BY <2>1, <2>2
<1>8. CASE shutdown
  <2>1. UNCHANGED transfers
    BY <1>8 DEF shutdown
  <2>2. (pc = "shutdown" /\ pc' = "delete") \/ (pc = "delete" /\ pc' = "done")
    BY <1>8 DEF shutdown
  <2> QED
    BY <2>1, <2>2
<1>9. CASE Throw
  BY <1>9 DEF Throw, MayThrow
<1>10. CASE CommFails
  BY <1>10 DEF CommFails
<1> QED
  BY <1>2, <1>3, <1>4, <1>5, <1>6, <1>7, <1>8, <1>9, <1>10 DEF BackendGoesOn

(* Every step of a program, a failing one included, takes it further, and there
   is a last place: in every build and either mode, with any number of
   transfers, whatever fails. *)
THEOREM ProgramLeadsOn == ProgramSpec => EveryStepLeadsOn
<1> DEFINE Leads == HowFar < HowFar' /\ HowFar' <= 100 * MaxTransfers + 99
<1>1. ASSUME TypeOK, TypeOK', ProgramTypeOK, ProgramTypeOK',
             [ProgramNext]_programVars
      PROVE  [Leads]_programVars
  <2> SUFFICES ASSUME ~ UNCHANGED programVars PROVE Leads
    OBVIOUS
  <2> USE Phases
  <2>1. /\ transfers \in Nat /\ Place[pc] \in Nat /\ Phase[main] \in Nat
        /\ transfers' \in 0 .. MaxTransfers /\ Place[pc'] \in 0 .. 90
        /\ Phase[main'] \in 0 .. 9
    BY <1>1, PlaceType, LifecycleAssumption DEF TypeOK, ProgramTypeOK
  <2>2. GoOn
    BY <1>1 DEF ProgramNext, WarmupProbes, Rest
  <2>3. transfers' \in Nat /\ Place[pc'] \in Nat /\ Phase[main'] \in Nat
    BY <2>1
  <2>4. HowFar < HowFar'
    <3>1. CASE ParseRejects \/ ParseAccepts \/ ServerConstruct \/ ClientConstruct
      <4>1. UNCHANGED <<transfers, pc>>
        BY <3>1 DEF ParseRejects, ParseAccepts, ServerConstruct, ClientConstruct, vars,
                    counters
      <4>2. Phase[main] < Phase[main']
        BY <3>1 DEF ParseRejects, ParseAccepts, ServerConstruct, ClientConstruct
      <4> QED
        BY <2>1, <2>3, <4>1, <4>2 DEF HowFar
    <3>2. CASE InitStep \/ WarmupPosts \/ WarmupTakes \/ WarmupFetches \/ WarmupSent
                 \/ ServerRefuses \/ TryStep
      <4>1. BackendGoesOn
        BY <3>2 DEF InitStep, WarmupPosts, WarmupTakes, WarmupFetches, WarmupSent,
                    ServerRefuses, TryStep, Initializing, BackendGoesOn
      <4>2. Phase[main] <= Phase[main']
        BY <3>2 DEF InitStep, WarmupPosts, WarmupTakes, WarmupFetches, WarmupSent,
                    ServerRefuses, TryStep, Initializing
      <4>3. 100 * transfers + Place[pc] < 100 * transfers' + Place[pc']
        BY <1>1, <4>1, BackendLeadsOn
      <4> QED
        BY <2>1, <2>3, <4>2, <4>3 DEF HowFar
    <3> QED
      BY <2>2, <3>1, <3>2 DEF GoOn
  <2>5. HowFar' <= 100 * MaxTransfers + 99
    <3>1. Phase[main'] + Place[pc'] <= 99
      BY <2>1
    <3> QED
      BY <2>1, <3>1, LifecycleAssumption DEF HowFar
  <2> QED
    BY <2>4, <2>5
<1> QED
  BY <1>1, ProgramInvariance, ProgramOwnership, PTL DEF ProgramSpec, EveryStepLeadsOn
=============================================================================
