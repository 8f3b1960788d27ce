-------------------------- MODULE ReceiptLifecycle --------------------------
(***************************************************************************)
(* What the repository promises of a message, whoever handles it: it is    *)
(* stored once, it becomes delivered and then read, or read at once (a     *)
(* read receipt implies delivery), it never goes back, and a receipt       *)
(* appears only after the recipient asked for it: reading only after a     *)
(* request to mark it read.                                                *)
(***************************************************************************)
CONSTANTS Msg, User, To

Kinds == {"delivered", "read"}

VARIABLES
    stage,   \* of each message: none, sent, delivered or read
    asked    \* the requests that reached it: pairs of a user and a kind

Init == /\ stage = [m \in Msg |-> "none"]
        /\ asked = [m \in Msg |-> {}]

Store(m) == /\ stage[m] = "none"
            /\ stage' = [stage EXCEPT ![m] = "sent"]
            /\ UNCHANGED asked

Ask(m, k) == /\ stage[m] # "none"
             /\ asked' = [asked EXCEPT ![m] = @ \cup {<<To[m], k>>}]
             /\ UNCHANGED stage

Deliver(m) == /\ stage[m] = "sent"
              /\ <<To[m], "delivered">> \in asked[m]
              /\ stage' = [stage EXCEPT ![m] = "delivered"]
              /\ UNCHANGED asked

Read(m) == /\ stage[m] \in {"sent", "delivered"}
           /\ <<To[m], "read">> \in asked[m]
           /\ stage' = [stage EXCEPT ![m] = "read"]
           /\ UNCHANGED asked

Next == \E m \in Msg : \/ Store(m) \/ Deliver(m) \/ Read(m)
                       \/ \E k \in Kinds : Ask(m, k)

Spec == Init /\ [][Next]_<<stage, asked>>
=============================================================================
