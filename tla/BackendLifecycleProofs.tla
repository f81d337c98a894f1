----------------------- MODULE BackendLifecycleProofs -----------------------
(***************************************************************************)
(* Proofs about one process's backend, for any number of transfers: what   *)
(* is held is always what OwnershipInv says, hence nothing is used or      *)
(* released wrongly and a transfer leaves nothing behind.                  *)
(*                                                                         *)
(* OwnershipInv is a conjunction; one lemma per conjunct shows that every  *)
(* step preserves it.                                                      *)
(***************************************************************************)
EXTENDS BackendLifecycle, TLAPS

(* The layout of the state, which every leaf needs. *)
USE LifecycleAssumption
    DEF Resource, Running, PC, OPT_1, OPT_2, Warming, Connected, NotMapped,
        BeforeClose, HoldsAddress, HoldsBuffer, HoldsEndpoint, HoldsPeerAddress,
        setup, pointers, counters, Step, Calls, NetBuf, NetBufGets, NetBufReleases

LEMMA LifecycleInitial == Init => TypeOK /\ OwnershipInv
<1> SUFFICES ASSUME Init PROVE TypeOK /\ OwnershipInv
  OBVIOUS
<1>1. TypeOK
  <2>1. transfers \in 0 .. MaxTransfers
    BY DEF Init
  <2> QED
    BY <2>1 DEF Init, TypeOK
<1>2. OwnershipInv
  BY DEF Init, OwnershipInv, PointersInv, PostedKeepsMemory, HeldInv
<1> QED
  BY <1>1, <1>2

(* Every step keeps the types. *)
LEMMA LifecycleTypeStep ==
    ASSUME TypeOK, OwnershipInv, Next
    PROVE  TypeOK'
<1> USE DEF TypeOK, OwnershipInv, HeldInv, PointersInv
<1>1. CASE InitContext \/ InitWorker \/ InitAddress
  BY <1>1 DEF InitContext, InitWorker, InitAddress
<1>2. CASE InitMap
  BY <1>2 DEF InitMap, AfterInit
<1>3. CASE WarmupBegin
  BY <1>3 DEF WarmupBegin
<1>4. CASE WarmupEstablish
  BY <1>4 DEF WarmupEstablish, establish_connection
<1>5. CASE WarmupSend
  BY <1>5 DEF WarmupSend, send, Posted
<1>6. CASE WarmupRecv
  BY <1>6 DEF WarmupRecv, recv, Posted
<1>7. CASE WarmupRecvWait
  BY <1>7 DEF WarmupRecvWait, comm_wait
<1>8. CASE WarmupSendWait
  BY <1>8 DEF WarmupSendWait, comm_wait
<1>9. CASE WarmupClose
  <2>1. live' \subseteq live /\ misuse' \subseteq Resource \cup {NULL}
    BY <1>9 DEF WarmupClose, close_connection, FreesRemoteAddr
  <2>2. m_remote_ep' = NULL /\ m_remote_addr' \in {NULL, m_remote_addr}
    BY <1>9 DEF WarmupClose, close_connection
  <2> QED
    BY <1>9, <2>1, <2>2 DEF WarmupClose
<1>10. CASE WarmupReturn
  BY <1>10 DEF WarmupReturn
<1>11. CASE ServerGenData \/ ClientGetBuf
  <2>1. transfers' \in 0 .. MaxTransfers
    BY <1>11 DEF ServerGenData, ClientGetBuf
  <2>2. live' \subseteq Resource /\ misuse' \subseteq Resource \cup {NULL}
    BY <1>11 DEF ServerGenData, ClientGetBuf
  <2>3. data_buf' \in {NULL, "map", "net_buf"}
    BY <1>11 DEF ServerGenData, ClientGetBuf
  <2> QED
    BY <1>11, <2>1, <2>2, <2>3 DEF ServerGenData, ClientGetBuf
<1>12. CASE ServerRequest
  BY <1>12 DEF ServerRequest
<1>13. CASE ServerSend
  BY <1>13 DEF ServerSend, send, Posted
<1>14. CASE ClientRecv
  BY <1>14 DEF ClientRecv, recv, Posted
<1>15. CASE ServerCommWait
  BY <1>15 DEF ServerCommWait, comm_wait
<1>16. CASE ClientCommWait
  BY <1>16 DEF ClientCommWait, comm_wait
<1>17. CASE ServerReturn \/ ClientReturn
  BY <1>17 DEF ServerReturn, ClientReturn
<1>18. CASE ClientLeave \/ Throw
  BY <1>18 DEF ClientLeave, Throw, MayThrow
<1>19. CASE Establish
  BY <1>19 DEF Establish, establish_connection
<1>20. CASE Close
  BY <1>20 DEF Close, close_connection, FreesRemoteAddr
<1>21. CASE shutdown
  BY <1>21 DEF shutdown
<1>22. CASE CommFails
  BY <1>22 DEF CommFails, Waited
<1>23. CASE WarmupSpins \/ Ended
  <2>1. UNCHANGED vars
    BY <1>23 DEF WarmupSpins, Ended
  <2> QED
    BY <2>1 DEF vars
<1> QED
  BY <1>1, <1>2, <1>3, <1>4, <1>5, <1>6, <1>7, <1>8, <1>9, <1>10, <1>11, <1>12, <1>13, <1>14, <1>15, <1>16, <1>17, <1>18, <1>19, <1>20, <1>21, <1>22, <1>23 DEF Next

(* No step uses, releases or acquires anything wrongly. *)
LEMMA MisuseStep ==
    ASSUME TypeOK, OwnershipInv, Next
    PROVE  misuse' = {}
<1> USE DEF TypeOK, OwnershipInv, HeldInv, PointersInv, PostedKeepsMemory
<1>1. CASE InitContext \/ InitWorker \/ InitAddress
  BY <1>1 DEF InitContext, InitWorker, InitAddress
<1>2. CASE InitMap
  BY <1>2 DEF InitMap, AfterInit
<1>3. CASE WarmupBegin
  BY <1>3 DEF WarmupBegin
<1>4. CASE WarmupEstablish
  BY <1>4 DEF WarmupEstablish, establish_connection
<1>5. CASE WarmupSend
  BY <1>5 DEF WarmupSend, send, Posted
<1>6. CASE WarmupRecv
  BY <1>6 DEF WarmupRecv, recv, Posted
<1>7. CASE WarmupRecvWait
  BY <1>7 DEF WarmupRecvWait, comm_wait
<1>8. CASE WarmupSendWait
  BY <1>8 DEF WarmupSendWait, comm_wait
<1>9. CASE WarmupClose
  BY <1>9 DEF WarmupClose, close_connection, FreesRemoteAddr
<1>10. CASE WarmupReturn
  BY <1>10 DEF WarmupReturn
<1>11. CASE ServerGenData \/ ClientGetBuf
  BY <1>11 DEF ServerGenData, ClientGetBuf
<1>12. CASE ServerRequest
  BY <1>12 DEF ServerRequest
<1>13. CASE ServerSend
  BY <1>13 DEF ServerSend, send, Posted
<1>14. CASE ClientRecv
  BY <1>14 DEF ClientRecv, recv, Posted
<1>15. CASE ServerCommWait
  BY <1>15 DEF ServerCommWait, comm_wait
<1>16. CASE ClientCommWait
  BY <1>16 DEF ClientCommWait, comm_wait
<1>17. CASE ServerReturn \/ ClientReturn
  BY <1>17 DEF ServerReturn, ClientReturn
<1>18. CASE ClientLeave \/ Throw
  BY <1>18 DEF ClientLeave, Throw, MayThrow
<1>19. CASE Establish
  BY <1>19 DEF Establish, establish_connection
<1>20. CASE Close
  BY <1>20 DEF Close, close_connection, FreesRemoteAddr
<1>21. CASE shutdown
  BY <1>21 DEF shutdown
<1>22. CASE CommFails
  BY <1>22 DEF CommFails, Waited
<1>23. CASE WarmupSpins \/ Ended
  BY <1>23 DEF WarmupSpins, Ended, vars
<1> QED
  BY <1>1, <1>2, <1>3, <1>4, <1>5, <1>6, <1>7, <1>8, <1>9, <1>10, <1>11, <1>12, <1>13, <1>14, <1>15, <1>16, <1>17, <1>18, <1>19, <1>20, <1>21, <1>22, <1>23 DEF Next

(* Every step acquires and releases what the new position calls for. *)
LEMMA HeldStep ==
    ASSUME TypeOK, OwnershipInv, Next
    PROVE  (pc # "threw" => HeldInv)'
<1> USE DEF TypeOK, OwnershipInv, HeldInv, PointersInv
<1>1. CASE InitContext \/ InitWorker \/ InitAddress
  BY <1>1 DEF InitContext, InitWorker, InitAddress
<1>2. CASE InitMap
  BY <1>2 DEF InitMap, AfterInit
<1>3. CASE WarmupBegin
  BY <1>3 DEF WarmupBegin
<1>4. CASE WarmupEstablish
  BY <1>4 DEF WarmupEstablish, establish_connection
<1>5. CASE WarmupSend
  BY <1>5 DEF WarmupSend, send, Posted
<1>6. CASE WarmupRecv
  BY <1>6 DEF WarmupRecv, recv, Posted
<1>7. CASE WarmupRecvWait
  BY <1>7 DEF WarmupRecvWait, comm_wait
<1>8. CASE WarmupSendWait
  BY <1>8 DEF WarmupSendWait, comm_wait
<1>9. CASE WarmupClose
  BY <1>9 DEF WarmupClose, close_connection, FreesRemoteAddr
<1>10. CASE WarmupReturn
  BY <1>10 DEF WarmupReturn
<1>11. CASE ServerGenData \/ ClientGetBuf
  BY <1>11 DEF ServerGenData, ClientGetBuf
<1>12. CASE ServerRequest
  BY <1>12 DEF ServerRequest
<1>13. CASE ServerSend
  BY <1>13 DEF ServerSend, send, Posted
<1>14. CASE ClientRecv
  BY <1>14 DEF ClientRecv, recv, Posted
<1>15. CASE ServerCommWait
  BY <1>15 DEF ServerCommWait, comm_wait
<1>16. CASE ClientCommWait
  BY <1>16 DEF ClientCommWait, comm_wait
<1>17. CASE ServerReturn \/ ClientReturn
  BY <1>17 DEF ServerReturn, ClientReturn
<1>18. CASE ClientLeave \/ Throw
  BY <1>18 DEF ClientLeave, Throw, MayThrow
<1>19. CASE Establish
  BY <1>19 DEF Establish, establish_connection
<1>20. CASE Close
  BY <1>20 DEF Close, close_connection, FreesRemoteAddr
<1>21. CASE shutdown
  BY <1>21 DEF shutdown
<1>22. CASE CommFails
  BY <1>22 DEF CommFails, Waited
<1>23. CASE WarmupSpins \/ Ended
  BY <1>23 DEF WarmupSpins, Ended, vars
<1> QED
  BY <1>1, <1>2, <1>3, <1>4, <1>5, <1>6, <1>7, <1>8, <1>9, <1>10, <1>11, <1>12, <1>13, <1>14, <1>15, <1>16, <1>17, <1>18, <1>19, <1>20, <1>21, <1>22, <1>23 DEF Next

(* Every step leaves the pointers naming what is held. *)
LEMMA PointersStep ==
    ASSUME TypeOK, OwnershipInv, Next
    PROVE  (pc # "threw" => PointersInv)'
<1> USE DEF TypeOK, OwnershipInv, HeldInv, PointersInv
<1>1. CASE InitContext \/ InitWorker \/ InitAddress
  BY <1>1 DEF InitContext, InitWorker, InitAddress
<1>2. CASE InitMap
  BY <1>2 DEF InitMap, AfterInit
<1>3. CASE WarmupBegin
  BY <1>3 DEF WarmupBegin
<1>4. CASE WarmupEstablish
  BY <1>4 DEF WarmupEstablish, establish_connection
<1>5. CASE WarmupSend
  BY <1>5 DEF WarmupSend, send, Posted
<1>6. CASE WarmupRecv
  BY <1>6 DEF WarmupRecv, recv, Posted
<1>7. CASE WarmupRecvWait
  BY <1>7 DEF WarmupRecvWait, comm_wait
<1>8. CASE WarmupSendWait
  BY <1>8 DEF WarmupSendWait, comm_wait
<1>9. CASE WarmupClose
  BY <1>9 DEF WarmupClose, close_connection, FreesRemoteAddr
<1>10. CASE WarmupReturn
  BY <1>10 DEF WarmupReturn
<1>11. CASE ServerGenData \/ ClientGetBuf
  BY <1>11 DEF ServerGenData, ClientGetBuf
<1>12. CASE ServerRequest
  BY <1>12 DEF ServerRequest
<1>13. CASE ServerSend
  BY <1>13 DEF ServerSend, send, Posted
<1>14. CASE ClientRecv
  BY <1>14 DEF ClientRecv, recv, Posted
<1>15. CASE ServerCommWait
  BY <1>15 DEF ServerCommWait, comm_wait
<1>16. CASE ClientCommWait
  BY <1>16 DEF ClientCommWait, comm_wait
<1>17. CASE ServerReturn \/ ClientReturn
  BY <1>17 DEF ServerReturn, ClientReturn
<1>18. CASE ClientLeave \/ Throw
  BY <1>18 DEF ClientLeave, Throw, MayThrow
<1>19. CASE Establish
  BY <1>19 DEF Establish, establish_connection
<1>20. CASE Close
  BY <1>20 DEF Close, close_connection, FreesRemoteAddr
<1>21. CASE shutdown
  BY <1>21 DEF shutdown
<1>22. CASE CommFails
  BY <1>22 DEF CommFails, Waited
<1>23. CASE WarmupSpins \/ Ended
  BY <1>23 DEF WarmupSpins, Ended, vars
<1> QED
  BY <1>1, <1>2, <1>3, <1>4, <1>5, <1>6, <1>7, <1>8, <1>9, <1>10, <1>11, <1>12, <1>13, <1>14, <1>15, <1>16, <1>17, <1>18, <1>19, <1>20, <1>21, <1>22, <1>23 DEF Next

(* No step takes away what an operation under way works with. *)
LEMMA PostedStep ==
    ASSUME TypeOK, OwnershipInv, Next
    PROVE  PostedKeepsMemory'
<1> USE DEF TypeOK, OwnershipInv, HeldInv, PointersInv, PostedKeepsMemory
<1>1. CASE InitContext \/ InitWorker \/ InitAddress
  BY <1>1 DEF InitContext, InitWorker, InitAddress
<1>2. CASE InitMap
  BY <1>2 DEF InitMap, AfterInit
<1>3. CASE WarmupBegin
  BY <1>3 DEF WarmupBegin
<1>4. CASE WarmupEstablish
  BY <1>4 DEF WarmupEstablish, establish_connection
<1>5. CASE WarmupSend
  BY <1>5 DEF WarmupSend, send, Posted
<1>6. CASE WarmupRecv
  BY <1>6 DEF WarmupRecv, recv, Posted
<1>7. CASE WarmupRecvWait
  BY <1>7 DEF WarmupRecvWait, comm_wait
<1>8. CASE WarmupSendWait
  BY <1>8 DEF WarmupSendWait, comm_wait
<1>9. CASE WarmupClose
  BY <1>9 DEF WarmupClose, close_connection, FreesRemoteAddr
<1>10. CASE WarmupReturn
  BY <1>10 DEF WarmupReturn
<1>11. CASE ServerGenData \/ ClientGetBuf
  BY <1>11 DEF ServerGenData, ClientGetBuf
<1>12. CASE ServerRequest
  BY <1>12 DEF ServerRequest
<1>13. CASE ServerSend
  BY <1>13 DEF ServerSend, send, Posted
<1>14. CASE ClientRecv
  BY <1>14 DEF ClientRecv, recv, Posted
<1>15. CASE ServerCommWait
  BY <1>15 DEF ServerCommWait, comm_wait
<1>16. CASE ClientCommWait
  BY <1>16 DEF ClientCommWait, comm_wait
<1>17. CASE ServerReturn \/ ClientReturn
  BY <1>17 DEF ServerReturn, ClientReturn
<1>18. CASE ClientLeave \/ Throw
  BY <1>18 DEF ClientLeave, Throw, MayThrow
<1>19. CASE Establish
  BY <1>19 DEF Establish, establish_connection
<1>20. CASE Close
  BY <1>20 DEF Close, close_connection, FreesRemoteAddr
<1>21. CASE shutdown
  BY <1>21 DEF shutdown
<1>22. CASE CommFails
  BY <1>22 DEF CommFails, Waited
<1>23. CASE WarmupSpins \/ Ended
  BY <1>23 DEF WarmupSpins, Ended, vars
<1> QED
  BY <1>1, <1>2, <1>3, <1>4, <1>5, <1>6, <1>7, <1>8, <1>9, <1>10, <1>11, <1>12, <1>13, <1>14, <1>15, <1>16, <1>17, <1>18, <1>19, <1>20, <1>21, <1>22, <1>23 DEF Next

(* Nothing ever marks the backend as initialized. *)
LEMMA NeverInitialized ==
    ASSUME OwnershipInv, Next
    PROVE  ~ m_initialized'
<1>1. CASE shutdown
  BY <1>1 DEF shutdown, OwnershipInv
<1>2. CASE ~ shutdown
  <2>1. UNCHANGED setup
    BY <1>2 DEF Next, InitContext, InitWorker, InitAddress, InitMap, WarmupBegin,
         WarmupEstablish, WarmupSend, WarmupRecv, WarmupRecvWait, WarmupSendWait,
         WarmupClose, WarmupReturn, ServerGenData, ServerRequest, ServerSend,
         ServerCommWait, ServerReturn, ClientGetBuf, ClientRecv, ClientCommWait,
         ClientReturn, ClientLeave, Establish, Close, Throw, CommFails,
         WarmupSpins, Ended, vars
  <2> QED
    BY <2>1 DEF OwnershipInv
<1> QED
  BY <1>1, <1>2

(* Each transfer of a client leaves one encoded address behind, a transfer of
   the server none. *)
LEMMA EncodedStep ==
    ASSUME TypeOK, OwnershipInv, Next
    PROVE  (enc_bufs = IF m_mode = "RECV" THEN transfers ELSE 0)'
<1>1. CASE ServerRequest \/ ClientGetBuf
  BY <1>1 DEF ServerRequest, ClientGetBuf, TypeOK, OwnershipInv
<1>2. CASE ~ (ServerRequest \/ ClientGetBuf)
  <2>1. UNCHANGED <<counters, m_mode>>
    BY <1>2 DEF Next, InitContext, InitWorker, InitAddress, InitMap, WarmupBegin,
         WarmupEstablish, WarmupSend, WarmupRecv, WarmupRecvWait, WarmupSendWait,
         WarmupClose, WarmupReturn, ServerGenData, ServerSend, ServerCommWait,
         ServerReturn, ClientRecv, ClientCommWait, ClientReturn, ClientLeave,
         Establish, Close, shutdown, Throw, CommFails, WarmupSpins, Ended, vars
  <2> QED
    BY <2>1 DEF OwnershipInv
<1> QED
  BY <1>1, <1>2

LEMMA OwnershipStep ==
    ASSUME TypeOK, OwnershipInv, [Next]_vars
    PROVE  TypeOK' /\ OwnershipInv'
<1>1. CASE Next
  <2>1. TypeOK'
    BY <1>1, LifecycleTypeStep
  <2>2. OwnershipInv'
    BY <1>1, MisuseStep, HeldStep, PointersStep, PostedStep, NeverInitialized, EncodedStep
       DEF OwnershipInv
  <2> QED
    BY <2>1, <2>2
<1>2. CASE UNCHANGED vars
  <2>1. TypeOK'
    BY <1>2 DEF vars, TypeOK
  <2>2. OwnershipInv'
    BY <1>2 DEF vars, OwnershipInv, PointersInv, PostedKeepsMemory, HeldInv
  <2> QED
    BY <2>1, <2>2
<1> QED
  BY <1>1, <1>2

(* What a process holds is, in every build and mode and after any number of
   transfers, what its position says. *)
THEOREM Ownership == Spec => [](TypeOK /\ OwnershipInv)
  BY LifecycleInitial, OwnershipStep, PTL DEF Spec

(* Nothing is used or released wrongly, and what UCX works with is held. *)
THEOREM MemoryDiscipline == Spec => [](NoMisuse /\ PostedKeepsMemory)
<1>1. OwnershipInv => NoMisuse /\ PostedKeepsMemory
  BY DEF OwnershipInv, NoMisuse
<1> QED
  BY <1>1, Ownership, PTL

(* Transfers do not pile anything up. *)
THEOREM NothingLeft == Spec => []TransferLeavesNothing
<1>1. OwnershipInv /\ TypeOK => TransferLeavesNothing
  <2> SUFFICES ASSUME OwnershipInv, TypeOK PROVE TransferLeavesNothing
    OBVIOUS
  <2>1. CASE pc \in {"run", "shutdown", "done"}
    BY <2>1 DEF OwnershipInv, HeldInv, PointersInv, TransferLeavesNothing, OfTransfer
  <2>2. CASE pc = "loop"
    BY <2>2 DEF OwnershipInv, HeldInv, PointersInv, TransferLeavesNothing, OfTransfer
  <2> QED
    BY <2>1, <2>2 DEF OwnershipInv, TransferLeavesNothing
<1> QED
  BY <1>1, Ownership, PTL
=============================================================================
