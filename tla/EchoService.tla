---------------------------- MODULE EchoService ----------------------------
(***************************************************************************)
(* What the programs promise once they are connected (server.cpp:46): the  *)
(* server answers every line of a client with its echo.  Seen from the     *)
(* clients there are no threads, channels or processes: the replies are    *)
(* those to the client's own lines, each one once and in their order.      *)
(***************************************************************************)
EXTENDS Naturals, Sequences

CONSTANT Clients

VARIABLES
    sent,           \* [Clients -> Nat]: how many lines the client has sent
    echoed          \* [Clients -> Seq(Nat)]: the lines whose echo it has received

Init ==
    /\ sent = [c \in Clients |-> 0]
    /\ echoed = [c \in Clients |-> <<>>]

Say(c) ==
    /\ sent' = [sent EXCEPT ![c] = @ + 1]
    /\ UNCHANGED echoed

Reply(c) ==
    /\ Len(echoed[c]) < sent[c]
    /\ echoed' = [echoed EXCEPT ![c] = Append(@, Len(@) + 1)]
    /\ UNCHANGED sent

Next == \E c \in Clients : Say(c) \/ Reply(c)

Spec == Init /\ [][Next]_<<sent, echoed>>
=============================================================================
