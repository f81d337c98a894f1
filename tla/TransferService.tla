-------------------------- MODULE TransferService --------------------------
(***************************************************************************)
(* What the performance tester promises, without processes, messages or    *)
(* sockets.  Every client joins before the first transfer starts; the      *)
(* server works on one transfer at a time and acknowledges it when it has  *)
(* finished; a client takes each acknowledged transfer before it asks for  *)
(* the next, leaves after Quota of them, and the service closes when the   *)
(* last client has left.  Perftest is shown to implement this.             *)
(***************************************************************************)
EXTENDS Naturals

CONSTANTS
    Client,  \* the clients
    Quota,   \* transfers per client
    Nobody   \* not a client

VARIABLES
    status,   \* status[c]: "new", "joined" or "left"
    serving,  \* the client whose transfer is under way, or Nobody
    acked,    \* acked[c]: transfers the server has finished
    taken,    \* taken[c]: transfers the client has finished
    closed    \* the service has ended

vars == <<status, serving, acked, taken, closed>>

TypeOK ==
    /\ status \in [Client -> {"new", "joined", "left"}]
    /\ serving \in Client \cup {Nobody}
    /\ acked \in [Client -> 0 .. Quota]
    /\ taken \in [Client -> 0 .. Quota]
    /\ closed \in BOOLEAN

Init ==
    /\ status = [c \in Client |-> "new"]
    /\ serving = Nobody
    /\ acked = [c \in Client |-> 0]
    /\ taken = [c \in Client |-> 0]
    /\ closed = FALSE

Join(c) ==
    /\ status[c] = "new"
    /\ status' = [status EXCEPT ![c] = "joined"]
    /\ UNCHANGED <<serving, acked, taken, closed>>

(* A transfer starts when nobody is served, everybody has joined, and the
   client has taken all it was given. *)
Begin(c) ==
    /\ serving = Nobody
    /\ \A d \in Client : status[d] # "new"
    /\ status[c] = "joined"
    /\ acked[c] = taken[c]
    /\ acked[c] < Quota
    /\ serving' = c
    /\ UNCHANGED <<status, acked, taken, closed>>

Finish(c) ==
    /\ serving = c
    /\ serving' = Nobody
    /\ acked' = [acked EXCEPT ![c] = @ + 1]
    /\ UNCHANGED <<status, taken, closed>>

Take(c) ==
    /\ taken[c] < acked[c]
    /\ taken' = [taken EXCEPT ![c] = @ + 1]
    /\ UNCHANGED <<status, serving, acked, closed>>

Leave(c) ==
    /\ serving = Nobody
    /\ \A d \in Client : status[d] # "new"
    /\ status[c] = "joined"
    /\ taken[c] = Quota
    /\ status' = [status EXCEPT ![c] = "left"]
    /\ UNCHANGED <<serving, acked, taken, closed>>

Close ==
    /\ \A c \in Client : status[c] = "left"
    /\ ~ closed
    /\ closed' = TRUE
    /\ UNCHANGED <<status, serving, acked, taken>>

Next ==
    \/ \E c \in Client : Join(c) \/ Begin(c) \/ Finish(c) \/ Take(c) \/ Leave(c)
    \/ Close

Spec == Init /\ [][Next]_vars
=============================================================================
