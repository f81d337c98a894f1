---------------------------- MODULE Conversation ----------------------------
(***************************************************************************)
(* What the two programs expect of their control channel, without sockets  *)
(* and queues.  Every client holds one conversation with the server: it    *)
(* asks, waits until it has received the one answer to its question, and   *)
(* only then asks again.  The server has one question in hand at a time,   *)
(* and what it answers goes to the client that asked.  Either side may     *)
(* leave; a question outlives the client that asked it, an answer the      *)
(* server that gave it, unless they were still on their way.  OOBComm is   *)
(* shown to implement this.                                                *)
(***************************************************************************)
CONSTANTS
    Client,    \* the clients
    Question,  \* what they may ask
    Answer,    \* what they may be told
    Silence,   \* neither a question nor an answer
    MayLose    \* who leaves may take along what he has said and nobody has
               \* heard: a client its question, the server its answers

VARIABLES
    stage,  \* stage[c]: where the conversation of client c is
    word,   \* word[c]: the question or the answer that is under way
    here,   \* the clients that have not left
    up      \* the server has not left

vars == <<stage, word, here, up>>

Stage == {"idle", "asked", "held", "answered", "over"}

TypeOK ==
    /\ stage \in [Client -> Stage]
    /\ word \in [Client -> Question \cup Answer \cup {Silence}]
    /\ here \subseteq Client
    /\ up \in BOOLEAN

Init ==
    /\ stage = [c \in Client |-> "idle"]
    /\ word = [c \in Client |-> Silence]
    /\ here = Client
    /\ up = TRUE

Turn(c, s, w) ==
    /\ stage' = [stage EXCEPT ![c] = s]
    /\ word' = [word EXCEPT ![c] = w]

HandsFree == up /\ \A c \in Client : stage[c] # "held"

Ask(c, q) ==
    /\ c \in here
    /\ stage[c] = "idle"
    /\ Turn(c, "asked", q)
    /\ UNCHANGED <<here, up>>

Hold(c) ==
    /\ HandsFree
    /\ stage[c] = "asked"
    /\ Turn(c, "held", Silence)
    /\ UNCHANGED <<here, up>>

(* The answer to a question in hand, or at once; nobody hears it if the
   client has left. *)
Reply(c, a) ==
    /\ stage[c] = "held" \/ (HandsFree /\ stage[c] = "asked")
    /\ IF c \in here THEN Turn(c, "answered", a) ELSE Turn(c, "over", Silence)
    /\ UNCHANGED <<here, up>>

Receive(c) ==
    /\ c \in here
    /\ stage[c] = "answered"
    /\ Turn(c, "idle", Silence)
    /\ UNCHANGED <<here, up>>

(* A client leaves.  Its question stays with the server. *)
Leave(c) ==
    /\ c \in here
    /\ here' = here \ {c}
    /\ IF stage[c] \in {"idle", "answered"} THEN Turn(c, "over", Silence)
       ELSE \/ UNCHANGED <<stage, word>>
            \/ MayLose /\ stage[c] = "asked" /\ Turn(c, "over", Silence)
    /\ UNCHANGED up

Cut(gone) ==
    /\ stage' = [c \in Client |-> IF c \in gone THEN "over" ELSE stage[c]]
    /\ word' = [c \in Client |-> IF c \in gone THEN Silence ELSE word[c]]

(* The server leaves, and with it the question in hand, or the one it has
   just looked at; answers nobody has received may be lost. *)
Close ==
    /\ up
    /\ up' = FALSE
    /\ \E lost \in SUBSET {c \in Client : MayLose /\ stage[c] = "answered"} :
          \/ Cut({c \in Client : stage[c] = "held"} \cup lost)
          \/ HandsFree /\ \E c \in Client : stage[c] = "asked" /\ Cut({c} \cup lost)
    /\ UNCHANGED here

Next ==
    \/ \E c \in Client :
          \/ \E q \in Question : Ask(c, q)
          \/ \E a \in Answer : Reply(c, a)
          \/ Hold(c) \/ Receive(c) \/ Leave(c)
    \/ Close

Spec == Init /\ [][Next]_vars
=============================================================================
