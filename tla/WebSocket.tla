----------------------------- MODULE WebSocket -----------------------------
(***************************************************************************)
(* The signaling transport: one WebSocket connection per client, as the    *)
(* endpoints of websocketpp (a git submodule, not part of this repository) *)
(* behave for the calls that server.cpp and client.cpp make.               *)
(*                                                                         *)
(* A connection is named by the client that opened it: each client process *)
(* calls connect() once (client.cpp:80), so a connection_hdl is a member   *)
(* of Clients.  Each end has its own state; each direction is a FIFO       *)
(* stream.  A close frame is the last thing an end may put on its stream.  *)
(***************************************************************************)
EXTENDS Processes, Sequences

VARIABLES
    wsC,            \* [Clients -> EndState]: the client's end of its connection
    wsS,            \* [Clients -> EndState]: the server's end of that connection
    toS,            \* [Clients -> Seq(Frame)]: frames in flight to the server
    toC             \* [Clients -> Seq(Frame)]: frames in flight to the client

wsVars == <<wsC, wsS, toS, toC>>

EndState == {"none", "connecting", "accepted", "open", "closing", "closed"}

(***************************************************************************)
(* A frame is a signaling message about the peer connection `pc`, or the   *)
(* WebSocket close frame.  A session (a pair of peer connections, one in   *)
(* each process) is named by the client whose offer started it.            *)
(***************************************************************************)
Frame == [type : {"offer", "answer", "ice", "close"}, pc : Clients]

FrameOf(type, c) == [type |-> type, pc |-> c]

WsTypeOK ==
    /\ wsC \in [Clients -> EndState]
    /\ wsS \in [Clients -> EndState]
    /\ toS \in [Clients -> Seq(Frame)]
    /\ toC \in [Clients -> Seq(Frame)]

WsInit ==
    /\ wsC = [c \in Clients |-> "none"]
    /\ wsS = [c \in Clients |-> "none"]
    /\ toS = [c \in Clients |-> <<>>]
    /\ toC = [c \in Clients |-> <<>>]

(***************************************************************************)
(* connect(): the TCP connection and the HTTP upgrade are requested.       *)
(***************************************************************************)
WsConnect(c) ==
    /\ wsC[c] = "none"
    /\ wsC' = [wsC EXCEPT ![c] = "connecting"]
    /\ UNCHANGED <<wsS, toS, toC>>

(***************************************************************************)
(* The listening endpoint accepts the connection and writes the upgrade    *)
(* response.  From here on either end may run its open handler first.      *)
(***************************************************************************)
WsAccept(c) ==
    /\ wsC[c] = "connecting"
    /\ wsS[c] = "none"
    /\ wsS' = [wsS EXCEPT ![c] = "accepted"]
    /\ UNCHANGED <<wsC, toS, toC>>

(***************************************************************************)
(* The two ends leave their handshake; the open handler runs in this step. *)
(* The client only needs the upgrade response, which is ahead of all the   *)
(* frames: the server may have closed the connection again by then.        *)
(***************************************************************************)
WsServerOpens(c) ==
    /\ wsS[c] = "accepted"
    /\ wsS' = [wsS EXCEPT ![c] = "open"]
    /\ UNCHANGED <<wsC, toS, toC>>

WsClientOpens(c) ==
    /\ wsC[c] = "connecting"
    /\ wsS[c] # "none"
    /\ wsC' = [wsC EXCEPT ![c] = "open"]
    /\ UNCHANGED <<wsS, toS, toC>>

(***************************************************************************)
(* The end is gone: the close handshake ended (acknowledged, or after the  *)
(* close-handshake timer), or the TCP connection dropped.  What the stream *)
(* still held for this end is lost.  The close handler runs in this step.  *)
(***************************************************************************)
WsServerCloses(c) ==
    /\ wsS' = [wsS EXCEPT ![c] = "closed"]
    /\ toS' = [toS EXCEPT ![c] = <<>>]
    /\ UNCHANGED <<wsC, toC>>

WsClientCloses(c) ==
    /\ wsC' = [wsC EXCEPT ![c] = "closed"]
    /\ toC' = [toC EXCEPT ![c] = <<>>]
    /\ UNCHANGED <<wsS, toS>>
=============================================================================
