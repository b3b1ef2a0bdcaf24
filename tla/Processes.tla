----------------------------- MODULE Processes -----------------------------
(***************************************************************************)
(* The processes of the system (one server and its clients), the bound on  *)
(* what libwebrtc produces, and the external failures a run lets happen.   *)
(***************************************************************************)
EXTENDS Naturals

CONSTANTS
    Clients,        \* the client processes
    Server,         \* the server process
    Null,           \* the null scoped_refptr, the empty connection_hdl
    MaxIce,         \* bound: candidates gathered per peer connection
    Faults          \* the external failures that may happen

Nodes == Clients \cup {Server}

(***************************************************************************)
(* pc, dc: CreatePeerConnection or CreateDataChannel returns null.  sdp,   *)
(* ice: a description or a candidate does not parse.  csd: CreateOffer or  *)
(* CreateAnswer fails.  refused: nobody listens on the port.  kill: a      *)
(* process is killed.  expire: a message on a channel with a               *)
(* retransmission limit is given up.                                       *)
(***************************************************************************)
FaultKinds == {"pc", "dc", "sdp", "ice", "csd", "refused", "kill", "expire"}

ASSUME ConstantsAssumption ==
    /\ Server \notin Clients
    /\ Null \notin Nodes
    /\ MaxIce \in Nat \ {0}
    /\ Faults \subseteq FaultKinds
=============================================================================
