-------------------------- MODULE SignalingProofs --------------------------
(***************************************************************************)
(* What holds of Signaling for every number of clients, every bound on the *)
(* candidates and every choice of faults.                                  *)
(***************************************************************************)
EXTENDS Signaling, TLAPS

(***************************************************************************)
(* The processes, and Null, are different from one another.                *)
(***************************************************************************)
LEMMA NodeFacts ==
    /\ Server \in Nodes /\ Server \notin Clients /\ Server # Null /\ Null \notin Clients
    /\ \A c \in Clients : c \in Nodes /\ c # Server /\ c # Null
    /\ \A n \in Nodes : n \in Clients \/ n = Server
  BY ConstantsAssumption DEF Nodes

(* The definitions that the typing arguments expand. *)
USE DEF Nodes, Status, SigState, EndState

(***************************************************************************)
(* What the callbacks send is a frame, and taking the first frame of a     *)
(* stream leaves a stream.                                                 *)
(***************************************************************************)
LEMMA FrameTyping ==
    \A t \in {"offer", "answer", "ice", "close"}, s \in Clients : FrameOf(t, s) \in Frame
  BY DEF Frame, FrameOf

LEMMA StreamEmpty == <<>> \in Seq(Frame)
  OBVIOUS

LEMMA StreamTyping ==
    ASSUME NEW q \in Seq(Frame), q # <<>>
    PROVE  Tail(q) \in Seq(Frame) /\ Head(q) \in Frame
  OBVIOUS

(***************************************************************************)
(* A send appends its frame to one stream or ends the process.             *)
(***************************************************************************)
LEMMA ClientSendTyping ==
    ASSUME TypeOK, NEW c \in Clients, NEW m \in Frame, ws_client_send(c, m)
    PROVE  stat' \in [Nodes -> Status] /\ toS' \in [Clients -> Seq(Frame)]
<1>1. /\ toS \in [Clients -> Seq(Frame)] /\ stat \in [Nodes -> Status]
      /\ UNCHANGED toS \/ toS' = [toS EXCEPT ![c] = Append(@, m)]
      /\ UNCHANGED stat \/ stat' = [stat EXCEPT ![c] = "abort"]
  BY DEF TypeOK, WsTypeOK, RtcTypeOK, ws_client_send, Dies
<1>2. Append(toS[c], m) \in Seq(Frame)
  BY <1>1
<1>3. toS' \in [Clients -> Seq(Frame)]
  BY Zenon, <1>1, <1>2
<1>4. stat' \in [Nodes -> Status]
  BY <1>1
<1> QED BY <1>3, <1>4

LEMMA ServerSendTyping ==
    ASSUME TypeOK, NEW hdl \in Clients \cup {Null}, NEW m \in Frame, ws_server_send(hdl, m)
    PROVE  stat' \in [Nodes -> Status] /\ toC' \in [Clients -> Seq(Frame)]
<1>1. /\ toC \in [Clients -> Seq(Frame)] /\ stat \in [Nodes -> Status]
      /\ UNCHANGED toC \/ (hdl \in Clients /\ toC' = [toC EXCEPT ![hdl] = Append(@, m)])
      /\ UNCHANGED stat \/ stat' = [stat EXCEPT ![Server] = "abort"]
  BY DEF TypeOK, WsTypeOK, RtcTypeOK, ws_server_send, Dies
<1>2. hdl \in Clients => Append(toC[hdl], m) \in Seq(Frame)
  BY <1>1
<1>3. toC' \in [Clients -> Seq(Frame)]
  BY Zenon, <1>1, <1>2
<1>4. stat' \in [Nodes -> Status]
  BY <1>1
<1> QED BY <1>3, <1>4

(***************************************************************************)
(* The operations of WebRTCManager keep its variables typed.               *)
(***************************************************************************)
LEMMA ManagerTyping ==
    ASSUME RtcTypeOK, NEW n \in Nodes
    PROVE  /\ n \in Clients /\ create_offer_sdp(n) => RtcTypeOK'
           /\ \A s \in Clients :
                 /\ create_answer_sdp_exits(n, s) => RtcTypeOK'
                 /\ create_answer_sdp(n, s) /\ stat' \in [Nodes -> Status] => RtcTypeOK'
                 /\ push_reply_sdp(n, s) => RtcTypeOK'
                 /\ push_ice(n, s) => RtcTypeOK'
           /\ on_success_csd(n) /\ stat' \in [Nodes -> Status] => RtcTypeOK'
           /\ on_failure_csd(n) => RtcTypeOK'
           /\ on_ice_candidate(n) /\ stat' \in [Nodes -> Status] => RtcTypeOK'
           /\ OnDataChannel(n) => RtcTypeOK'
           /\ \A new \in {"open", "closed"} :
                 on_state_change(n, new) /\ stat' \in [Nodes -> Status] => RtcTypeOK'
<1> USE DEF RtcTypeOK
<1>1. n \in Clients /\ create_offer_sdp(n) => RtcTypeOK'
  BY DEF create_offer_sdp, DiesAt, Dies
<1>2. ASSUME NEW s \in Clients
      PROVE  /\ create_answer_sdp_exits(n, s) => RtcTypeOK'
             /\ create_answer_sdp(n, s) /\ stat' \in [Nodes -> Status] => RtcTypeOK'
  <2>1. create_answer_sdp_exits(n, s) => RtcTypeOK'
    <3> SUFFICES ASSUME create_answer_sdp_exits(n, s)
                 PROVE  RtcTypeOK'
      OBVIOUS
    <3>1. stat' \in [Nodes -> Status] /\ peer_connection' \in [Nodes -> Clients \cup {Null}]
      BY DEF create_answer_sdp_exits, Replaces, Dies
    <3>2. /\ dcState' \in [Nodes -> {"none", "connecting", "open", "closed"}]
          /\ UNCHANGED data_channel
      BY DEF create_answer_sdp_exits, Replaces
    <3>3. UNCHANGED <<sig, remote, added, gathered>> /\ csd' = csd \ {n}
      BY DEF create_answer_sdp_exits
    <3> QED BY <3>1, <3>2, <3>3
  <2>2. create_answer_sdp(n, s) /\ stat' \in [Nodes -> Status] => RtcTypeOK'
    <3> SUFFICES ASSUME create_answer_sdp(n, s), stat' \in [Nodes -> Status]
                 PROVE  RtcTypeOK'
      OBVIOUS
    <3> USE DEF create_answer_sdp, Replaces
    <3>1. added' \in [Nodes -> SUBSET Clients]
      OBVIOUS
    <3>2. gathered' \in [Nodes -> 0..MaxIce]
      BY ConstantsAssumption
    <3>3. dcState' \in [Nodes -> {"none", "connecting", "open", "closed"}]
      OBVIOUS
    <3>4. /\ peer_connection' \in [Nodes -> Clients \cup {Null}]
          /\ remote' \in [Nodes -> Clients \cup {Null}]
          /\ data_channel' \in [Nodes -> Clients \cup {Null}]
      OBVIOUS
    <3>5. sig' \in [Nodes -> SigState] /\ csd' \subseteq Nodes
      OBVIOUS
    <3> QED BY <3>1, <3>2, <3>3, <3>4, <3>5
  <2> QED BY <2>1, <2>2
<1>3. ASSUME NEW s \in Clients
      PROVE  push_reply_sdp(n, s) => RtcTypeOK'
  BY DEF push_reply_sdp, DiesAt, Dies, Dereferences
<1>4. ASSUME NEW s \in Clients
      PROVE  push_ice(n, s) => RtcTypeOK'
  BY DEF push_ice, DiesAt, Dies, Dereferences
<1>5. on_success_csd(n) /\ stat' \in [Nodes -> Status] => RtcTypeOK'
  BY DEF on_success_csd
<1>6. on_failure_csd(n) => RtcTypeOK'
  BY DEF on_failure_csd
<1>7. on_ice_candidate(n) /\ stat' \in [Nodes -> Status] => RtcTypeOK'
  BY ConstantsAssumption DEF on_ice_candidate
<1>8. OnDataChannel(n) => RtcTypeOK'
  BY DEF OnDataChannel
<1>9. ASSUME NEW new \in {"open", "closed"}
      PROVE  on_state_change(n, new) /\ stat' \in [Nodes -> Status] => RtcTypeOK'
  BY DEF on_state_change
<1> QED BY Zenon, <1>1, <1>2, <1>3, <1>4, <1>5, <1>6, <1>7, <1>8, <1>9

-----------------------------------------------------------------------------
(***************************************************************************)
(* Why the session that a callback names is never Null: a process that     *)
(* awaits a description, or has applied one, holds a peer connection.      *)
(***************************************************************************)
PcHeld ==
    \A n \in Nodes :
        Up(n) /\ (n \in csd \/ sig[n] # "none") => peer_connection[n] # Null

TypeInv == TypeOK /\ PcHeld

(***************************************************************************)
(* What the steps need of TypeOK most of the time.                         *)
(***************************************************************************)
LEMMA Domains ==
    ASSUME TypeInv
    PROVE  /\ DOMAIN wsC = Clients /\ DOMAIN wsS = Clients
           /\ DOMAIN toS = Clients /\ DOMAIN toC = Clients /\ DOMAIN main = Clients
           /\ DOMAIN stat = Nodes /\ DOMAIN peer_connection = Nodes /\ DOMAIN sig = Nodes
           /\ DOMAIN data_channel = Nodes /\ DOMAIN dcState = Nodes /\ DOMAIN ws_hdl_ = Nodes
           /\ stat \in [Nodes -> Status] /\ \A c \in Clients : toS[c] \in Seq(Frame)
  BY DEF TypeInv, TypeOK, WsTypeOK, RtcTypeOK

LEMMA TypeInvInit == Init => TypeInv
  BY ConstantsAssumption
     DEF Init, WsInit, RtcInit, TypeInv, TypeOK, WsTypeOK, RtcTypeOK, PcHeld

(***************************************************************************)
(* Each step of a client's main thread keeps TypeInv.                      *)
(***************************************************************************)
LEMMA TypeInvClientMain ==
    ASSUME TypeInv, NEW c \in Clients, ClientConnect(c) \/ ClientMain(c)
    PROVE  TypeInv'
<1> USE ConstantsAssumption DEF TypeInv, TypeOK, WsTypeOK, PcHeld, Up
<1>1. CASE ClientConnect(c)
  BY <1>1 DEF ClientConnect, WsConnect, rtcVars, RtcTypeOK
<1>2. CASE ClientConnectFails(c)
  BY <1>2 DEF ClientConnectFails, WsClientCloses, rtcVars, RtcTypeOK
<1>3. CASE ClientOpenHandler(c)
  <2>1. RtcTypeOK'
    BY <1>3, ManagerTyping DEF ClientOpenHandler
  <2>2. PcHeld'
    BY <1>3 DEF ClientOpenHandler, create_offer_sdp, DiesAt, Dies, RtcTypeOK
  <2> QED BY <1>3, <2>1, <2>2 DEF ClientOpenHandler, WsClientOpens
<1>4. CASE ClientMessageHandler(c)
  <2> DEFINE m == Head(toC[c])
  <2>1. m \in Frame /\ Tail(toC[c]) \in Seq(Frame)
    BY <1>4, StreamTyping DEF ClientMessageHandler
  <2>2. m.pc \in Clients
    BY <2>1 DEF Frame
  <2> HIDE DEF m
  <2>3. push_reply_sdp(c, m.pc) \/ push_ice(c, m.pc)
    BY <1>4 DEF ClientMessageHandler, m
  <2>4. RtcTypeOK'
    BY <2>2, <2>3, ManagerTyping
  <2>5. PcHeld'
    BY <2>3 DEF push_reply_sdp, push_ice, DiesAt, Dies, Dereferences, RtcTypeOK
  <2> QED BY <1>4, <2>1, <2>4, <2>5 DEF ClientMessageHandler
<1>5. CASE ClientReadsClose(c)
  BY <1>5, StreamTyping DEF ClientReadsClose, rtcVars, RtcTypeOK
<1>6. CASE ClientCloseHandler(c)
  BY <1>6 DEF ClientCloseHandler, WsClientCloses, rtcVars, RtcTypeOK
<1> QED BY <1>1, <1>2, <1>3, <1>4, <1>5, <1>6 DEF ClientMain

(***************************************************************************)
(* Each step of a client's signaling thread keeps TypeInv.                 *)
(***************************************************************************)
LEMMA TypeInvClientSignaling ==
    ASSUME TypeInv, NEW c \in Clients, ClientSignaling(c)
    PROVE  TypeInv'
<1> USE ConstantsAssumption DEF TypeInv, TypeOK, WsTypeOK, PcHeld, Up
<1>2. CASE ClientOnSdp(c)
  <2>1. stat' \in [Nodes -> Status] /\ toS' \in [Clients -> Seq(Frame)]
    BY Zenon, <1>2, FrameTyping, ClientSendTyping DEF ClientOnSdp
  <2>2. RtcTypeOK'
    BY <1>2, <2>1, ManagerTyping DEF ClientOnSdp
  <2>3. PcHeld'
    BY <1>2 DEF ClientOnSdp, on_success_csd, ws_client_send, Dies, RtcTypeOK
  <2> QED BY <1>2, <2>1, <2>2, <2>3 DEF ClientOnSdp
<1>3. CASE ClientCsdFails(c)
  <2>1. RtcTypeOK'
    BY <1>3, ManagerTyping DEF ClientCsdFails
  <2> QED BY <1>3, <2>1 DEF ClientCsdFails, on_failure_csd, wsVars
<1>4. CASE ClientOnIce(c)
  <2>1. stat' \in [Nodes -> Status] /\ toS' \in [Clients -> Seq(Frame)]
    BY Zenon, <1>4, FrameTyping, ClientSendTyping DEF ClientOnIce
  <2>2. RtcTypeOK'
    BY Zenon, <1>4, <2>1, ManagerTyping DEF ClientOnIce
  <2>3. PcHeld'
    BY <1>4 DEF ClientOnIce, on_ice_candidate, ws_client_send, Dies, RtcTypeOK
  <2> QED BY <1>4, <2>1, <2>2, <2>3 DEF ClientOnIce
<1>5. ASSUME NEW new \in {"open", "closed"}, on_state_change(c, new),
             UNCHANGED <<stat, wsVars, ws_hdl_, main>>
      PROVE  TypeInv'
  <2>1. stat' \in [Nodes -> Status]
    BY <1>5 DEF RtcTypeOK
  <2>2. RtcTypeOK'
    BY <1>5, <2>1, ManagerTyping
  <2> QED BY <1>5, <2>2 DEF on_state_change, wsVars
<1> QED BY <1>2, <1>3, <1>4, <1>5 DEF ClientSignaling, ClientOnOpen, ClientOnClosed

(***************************************************************************)
(* Each step of the server's main thread keeps TypeInv.                    *)
(***************************************************************************)
LEMMA TypeInvServerMain ==
    ASSUME TypeInv, NEW c \in Clients, ServerMain(c)
    PROVE  TypeInv'
<1> USE ConstantsAssumption DEF TypeInv, TypeOK, WsTypeOK, PcHeld, Up
<1>1. CASE ServerAccept(c)
  BY <1>1 DEF ServerAccept, WsAccept, rtcVars, RtcTypeOK
<1>2. CASE ServerOpenHandler(c)
  BY <1>2 DEF ServerOpenHandler, WsServerOpens, rtcVars, RtcTypeOK
<1>3. CASE ServerMessageHandler(c)
  <2> DEFINE m == Head(toS[c])
  <2>1. m \in Frame /\ Tail(toS[c]) \in Seq(Frame)
    BY Zenon, <1>3, StreamTyping DEF ServerMessageHandler
  <2>2. m.pc \in Clients
    BY <2>1 DEF Frame
  <2> HIDE DEF m
  <2>3. CASE create_answer_sdp_exits(Server, m.pc) /\ LastAnswer(c)
    <3>1. RtcTypeOK'
      BY <2>2, <2>3, ManagerTyping
    <3>2. PcHeld'
      <4>1. ~Up(Server)' /\ \A n \in Nodes : n # Server => stat'[n] = stat[n]
        BY <2>3 DEF create_answer_sdp_exits, Dies, RtcTypeOK
      <4>2. \A n \in Nodes : n # Server => peer_connection'[n] = peer_connection[n]
        BY <2>3 DEF create_answer_sdp_exits, Replaces, RtcTypeOK
      <4>3. csd' = csd \ {Server} /\ UNCHANGED sig
        BY <2>3 DEF create_answer_sdp_exits
      <4> QED BY <4>1, <4>2, <4>3
    <3>3. toC' \in [Clients -> Seq(Frame)]
      <4> DEFINE a == FrameOf("answer", peer_connection[Server])
      <4>1. UNCHANGED toC \/ (Server \in csd /\ toC' = [toC EXCEPT ![c] = Append(@, a)])
        BY <2>3 DEF LastAnswer
      <4>2. Server \in csd => a \in Frame
        BY <1>3, FrameTyping DEF ServerMessageHandler, RtcTypeOK
      <4> HIDE DEF a
      <4>3. Server \in csd => Append(toC[c], a) \in Seq(Frame)
        BY <4>2
      <4> QED BY Zenon, <4>1, <4>3
    <3> QED BY Zenon, <1>3, <2>1, <3>1, <3>2, <3>3 DEF ServerMessageHandler
  <2>4. CASE create_answer_sdp(Server, m.pc) /\ StaleAnswer(c)
    <3>1. stat' \in [Nodes -> Status] /\ toC' \in [Clients -> Seq(Frame)]
      <4>1. CASE UNCHANGED <<stat, toC>>
        BY <4>1 DEF RtcTypeOK
      <4>2. CASE Dies(Server, "uaf") /\ UNCHANGED toC
        BY <4>2 DEF Dies, RtcTypeOK
      <4>3. CASE Server \in csd /\ ws_server_send(c, FrameOf("answer", peer_connection[Server]))
        <5>1. peer_connection[Server] \in Clients
          BY <1>3, <4>3 DEF ServerMessageHandler, RtcTypeOK
        <5> QED BY Zenon, <4>3, <5>1, FrameTyping, ServerSendTyping
      <4> QED BY <2>4, <4>1, <4>2, <4>3 DEF StaleAnswer
    <3>2. RtcTypeOK'
      BY Zenon, <2>2, <2>4, <3>1, ManagerTyping
    <3>3. PcHeld'
      <4>1. /\ peer_connection' = [peer_connection EXCEPT ![Server] = m.pc]
            /\ sig' = [sig EXCEPT ![Server] = "remote"]
            /\ csd' = csd \cup {Server}
        BY <2>4 DEF create_answer_sdp, Replaces
      <4>2. \A n \in Nodes : n # Server => stat'[n] = stat[n]
        BY <2>4 DEF StaleAnswer, ws_server_send, Dies, RtcTypeOK
      <4> QED BY <2>2, <4>1, <4>2 DEF RtcTypeOK
    <3> QED BY Zenon, <1>3, <2>1, <3>1, <3>2, <3>3 DEF ServerMessageHandler
  <2>5. CASE push_ice(Server, m.pc) /\ UNCHANGED toC
    <3>1. RtcTypeOK'
      BY Zenon, <2>2, <2>5, ManagerTyping
    <3>2. UNCHANGED <<peer_connection, sig, csd>>
      BY <2>5 DEF push_ice, DiesAt
    <3>3. \A n \in Nodes : Up(n)' => Up(n)
      BY <2>5 DEF push_ice, DiesAt, Dies, Dereferences, RtcTypeOK
    <3>4. PcHeld'
      BY <3>2, <3>3
    <3> QED BY Zenon, <1>3, <2>1, <2>5, <3>1, <3>4 DEF ServerMessageHandler
  <2> QED BY Zenon, <1>3, <2>3, <2>4, <2>5 DEF ServerMessageHandler, m
<1>4. CASE ServerCloseHandler(c)
  <2>1. RtcTypeOK' /\ PcHeld'
    BY <1>4 DEF ServerCloseHandler, rtcVars, RtcTypeOK
  <2>2. wsS' \in [Clients -> EndState] /\ toS' \in [Clients -> Seq(Frame)]
    <3>1. wsS' = [wsS EXCEPT ![c] = "closed"] /\ toS' = [toS EXCEPT ![c] = <<>>]
      BY <1>4 DEF ServerCloseHandler, WsServerCloses
    <3>2. wsS' \in [Clients -> EndState]
      BY <3>1
    <3>3. toS' \in [Clients -> Seq(Frame)]
      BY <3>1, StreamEmpty
    <3> QED BY <3>2, <3>3
  <2>3. ws_hdl_' \in [Nodes -> Clients \cup {Null}]
    BY <1>4 DEF ServerCloseHandler
  <2> QED BY <1>4, <2>1, <2>2, <2>3 DEF ServerCloseHandler, WsServerCloses
<1> QED BY <1>1, <1>2, <1>3, <1>4 DEF ServerMain

(***************************************************************************)
(* Each step of the server's signaling thread keeps TypeInv.               *)
(***************************************************************************)
LEMMA TypeInvServerSignaling ==
    ASSUME TypeInv, ServerSignaling
    PROVE  TypeInv'
<1> USE ConstantsAssumption DEF TypeInv, TypeOK, WsTypeOK, PcHeld, Up
<1> DEFINE pc == peer_connection[Server]
<1>1. ASSUME NEW t \in {"answer", "ice"}, pc # Null,
             ws_server_send(ws_hdl_[Server], FrameOf(t, pc))
      PROVE  stat' \in [Nodes -> Status] /\ toC' \in [Clients -> Seq(Frame)]
  <2>1. FrameOf(t, pc) \in Frame
    BY <1>1, FrameTyping DEF RtcTypeOK
  <2> QED BY Zenon, <1>1, <2>1, ServerSendTyping
<1>2. CASE ServerOnSdp
  <2>1. pc # Null
    BY <1>2 DEF ServerOnSdp, on_success_csd
  <2>2. stat' \in [Nodes -> Status] /\ toC' \in [Clients -> Seq(Frame)]
    BY <1>1, <1>2, <2>1 DEF ServerOnSdp
  <2>3. RtcTypeOK'
    BY Zenon, <1>2, <2>2, ManagerTyping DEF ServerOnSdp
  <2>4. PcHeld'
    BY <1>2 DEF ServerOnSdp, on_success_csd, ws_server_send, Dies, RtcTypeOK
  <2> QED BY <1>2, <2>2, <2>3, <2>4 DEF ServerOnSdp
<1>3. CASE ServerCsdFails
  <2>1. RtcTypeOK'
    BY <1>3, ManagerTyping DEF ServerCsdFails
  <2> QED BY <1>3, <2>1 DEF ServerCsdFails, on_failure_csd, wsVars
<1>4. CASE ServerOnIce
  <2>1. pc # Null
    BY <1>4 DEF ServerOnIce, on_ice_candidate
  <2>2. stat' \in [Nodes -> Status] /\ toC' \in [Clients -> Seq(Frame)]
    BY <1>1, <1>4, <2>1 DEF ServerOnIce
  <2>3. RtcTypeOK'
    BY Zenon, <1>4, <2>2, ManagerTyping DEF ServerOnIce
  <2>4. PcHeld'
    BY <1>4 DEF ServerOnIce, on_ice_candidate, ws_server_send, Dies, RtcTypeOK
  <2> QED BY <1>4, <2>2, <2>3, <2>4 DEF ServerOnIce
<1>5. CASE ServerOnDataChannel
  <2>1. RtcTypeOK'
    BY <1>5, ManagerTyping DEF ServerOnDataChannel
  <2> QED BY <1>5, <2>1 DEF ServerOnDataChannel, OnDataChannel, wsVars
<1>6. CASE ServerOnOpen
  <2>1. stat' \in [Nodes -> Status]
    BY <1>6 DEF ServerOnOpen, on_success, Dies, RtcTypeOK
  <2>2. RtcTypeOK'
    BY <1>6, <2>1, ManagerTyping DEF ServerOnOpen
  <2>3. PcHeld'
    <3>1. UNCHANGED <<peer_connection, sig, csd>>
      BY <1>6 DEF ServerOnOpen, on_state_change
    <3>2. \A n \in Nodes : Up(n)' => Up(n)
      BY <1>6 DEF ServerOnOpen, on_success, Dies, RtcTypeOK
    <3> QED BY <3>1, <3>2
  <2>4. wsS' \in [Clients -> EndState]
    <3> DEFINE hdl == ws_hdl_[Server]
    <3>1. \/ hdl \in Clients /\ wsS' = [wsS EXCEPT ![hdl] = "closing"]
          \/ wsS' = wsS
      BY <1>6 DEF ServerOnOpen, on_success
    <3> HIDE DEF hdl
    <3> QED BY Zenon, <3>1
  <2>5. toC' \in [Clients -> Seq(Frame)]
    <3> DEFINE hdl == ws_hdl_[Server]
               m == FrameOf("close", hdl)
    <3>1. \/ hdl \in Clients /\ toC' = [toC EXCEPT ![hdl] = Append(@, m)]
          \/ toC' = toC
      BY <1>6 DEF ServerOnOpen, on_success
    <3>2. hdl \in Clients => m \in Frame
      BY FrameTyping
    <3> HIDE DEF hdl, m
    <3>3. hdl \in Clients => Append(toC[hdl], m) \in Seq(Frame)
      BY <3>2
    <3> QED BY Zenon, <3>1, <3>3
  <2> QED BY <1>6, <2>2, <2>3, <2>4, <2>5 DEF ServerOnOpen
<1>7. CASE ServerOnClosed
  <2>1. stat' \in [Nodes -> Status]
    BY <1>7 DEF ServerOnClosed, RtcTypeOK
  <2>2. RtcTypeOK'
    BY Zenon, <1>7, <2>1, ManagerTyping DEF ServerOnClosed
  <2> QED BY <1>7, <2>2 DEF ServerOnClosed, on_state_change, wsVars
<1> QED BY <1>2, <1>3, <1>4, <1>5, <1>6, <1>7 DEF ServerSignaling

LEMMA TypeInvStep == TypeInv /\ [Next]_vars => TypeInv'
<1> SUFFICES ASSUME TypeInv, [Next]_vars
             PROVE  TypeInv'
  OBVIOUS
<1>1. ASSUME NEW n \in Nodes, Kill(n)
      PROVE  TypeInv'
  BY <1>1 DEF Kill, DiesAt, Dies, TypeInv, TypeOK, WsTypeOK, RtcTypeOK, PcHeld, Up, wsVars
<1>2. CASE UNCHANGED vars
  BY <1>2 DEF vars, wsVars, rtcVars, TypeInv, TypeOK, WsTypeOK, RtcTypeOK, PcHeld, Up
<1> QED BY <1>1, <1>2, TypeInvClientMain, TypeInvClientSignaling, TypeInvServerMain,
           TypeInvServerSignaling DEF Next

LEMMA TypeInvariance == Spec => []TypeInv
  BY TypeInvInit, TypeInvStep, PTL DEF Spec

(***************************************************************************)
(* The variables of the managers, the streams and the handles always have  *)
(* their types: whatever interleaves and fails, what a process sends is a  *)
(* message that names a session, never a null peer connection.             *)
(***************************************************************************)
THEOREM TypeCorrectness == Spec => []TypeOK
<1>1. TypeInv => TypeOK
  BY DEF TypeInv
<1> QED BY <1>1, TypeInvariance, PTL

-----------------------------------------------------------------------------
HIDE DEF Nodes, Status, SigState, EndState

(***************************************************************************)
(* A connection that the server has not closed holds no close frame.       *)
(***************************************************************************)
NoClose(q) == \A i \in 1..Len(q) : q[i].type # "close"

CloseInv ==
    \A c \in Clients : wsS[c] \notin {"closing", "closed"} => NoClose(toC[c])

(***************************************************************************)
(* What appending a frame and taking the first frame do to a stream        *)
(* without a close frame.                                                  *)
(***************************************************************************)
LEMMA CloseFacts ==
    ASSUME NEW q \in Seq(Frame)
    PROVE  /\ NoClose(<<>>)
           /\ \A m \in Frame : NoClose(q) /\ m.type # "close" => NoClose(Append(q, m))
           /\ q # <<>> /\ NoClose(q) => NoClose(Tail(q)) /\ Head(q).type # "close"
  BY DEF NoClose

(***************************************************************************)
(* A message that is not a close frame, put on some connection or lost.    *)
(***************************************************************************)
LEMMA SendKeepsClose ==
    ASSUME TypeInv, CloseInv, UNCHANGED wsS,
           NEW hdl \in Clients, NEW m \in Frame, m.type # "close",
           toC' = [toC EXCEPT ![hdl] = Append(@, m)]
    PROVE  CloseInv'
<1>1. toC[hdl] \in Seq(Frame) /\ DOMAIN toC = Clients
  BY DEF TypeInv, TypeOK, WsTypeOK
<1>2. NoClose(toC[hdl]) => NoClose(Append(toC[hdl], m))
  BY <1>1, CloseFacts
<1>3. \A c \in Clients : NoClose(toC[c]) => NoClose(toC'[c])
  BY Zenon, <1>1, <1>2
<1> QED BY Zenon, <1>3 DEF CloseInv

LEMMA CloseInvInit == Init => CloseInv
<1>1. NoClose(<<>>)
  BY DEF NoClose
<1> QED BY Zenon, <1>1 DEF Init, WsInit, CloseInv

LEMMA CloseInvStep == TypeInv /\ CloseInv /\ [Next]_vars => CloseInv'
<1> SUFFICES ASSUME TypeInv, CloseInv, [Next]_vars
             PROVE  CloseInv'
  OBVIOUS
<1> USE NodeFacts
<1> DEFINE pc == peer_connection[Server]
           Sends(t) == /\ UNCHANGED wsS
                       /\ ws_server_send(ws_hdl_[Server], FrameOf(t, pc))
<1>1. ASSUME UNCHANGED <<wsS, toC>>
      PROVE  CloseInv'
  BY <1>1 DEF CloseInv
<1>2. ASSUME NEW c \in Clients, WsClientCloses(c)
      PROVE  CloseInv'
  BY <1>2, CloseFacts DEF WsClientCloses, CloseInv, TypeInv, TypeOK, WsTypeOK
<1>3. ASSUME NEW c \in Clients, UNCHANGED wsS, toC[c] # <<>>,
             toC' = [toC EXCEPT ![c] = Tail(@)]
      PROVE  CloseInv'
  BY <1>3, CloseFacts DEF CloseInv, TypeInv, TypeOK, WsTypeOK
<1>4. ASSUME NEW c \in Clients, ServerAccept(c) \/ ServerOpenHandler(c) \/ ServerCloseHandler(c)
      PROVE  CloseInv'
  <2>1. UNCHANGED toC /\ (wsS'[c] = "closed" \/ wsS[c] \in {"none", "accepted"})
    BY <1>4 DEF ServerAccept, WsAccept, ServerOpenHandler, WsServerOpens, ServerCloseHandler,
                WsServerCloses, TypeInv, TypeOK, WsTypeOK
  <2>2. \A d \in Clients : d # c => wsS'[d] = wsS[d]
    BY <1>4 DEF ServerAccept, WsAccept, ServerOpenHandler, WsServerOpens, ServerCloseHandler,
                WsServerCloses, TypeInv, TypeOK, WsTypeOK
  <2> QED BY <2>1, <2>2 DEF CloseInv
<1>5. ASSUME NEW t \in {"answer", "ice"}, pc # Null, Sends(t)
      PROVE  CloseInv'
  <2>1. FrameOf(t, pc) \in Frame /\ FrameOf(t, pc).type # "close"
    BY <1>5, FrameTyping DEF FrameOf, TypeInv, TypeOK, RtcTypeOK
  <2>2. CASE UNCHANGED toC
    BY <1>1, <1>5, <2>2
  <2>3. CASE ws_hdl_[Server] # Null /\ toC' = [toC EXCEPT ![ws_hdl_[Server]] = Append(@, FrameOf(t, pc))]
    <3>1. ws_hdl_[Server] \in Clients
      BY <2>3 DEF TypeInv, TypeOK
    <3> QED BY Zenon, <1>5, <2>1, <2>3, <3>1, SendKeepsClose
  <2> QED BY Zenon, <1>5, <2>2, <2>3 DEF ws_server_send
<1>6. ASSUME NEW c \in Clients, ServerMessageHandler(c)
      PROVE  CloseInv'
  <2>1. \/ UNCHANGED toC
        \/ Server \in csd /\ toC' = [toC EXCEPT ![c] = Append(@, FrameOf("answer", pc))]
    BY <1>6 DEF ServerMessageHandler, StaleAnswer, LastAnswer, ws_server_send
  <2>2. Server \in csd => pc \in Clients
    BY Zenon, <1>6 DEF ServerMessageHandler, TypeInv, TypeOK, RtcTypeOK, PcHeld
  <2>3. \A s \in Clients : FrameOf("answer", s) \in Frame /\ FrameOf("answer", s).type # "close"
    BY FrameTyping DEF FrameOf
  <2>4. UNCHANGED wsS
    BY <1>6 DEF ServerMessageHandler
  <2> QED BY Zenon, <1>1, <2>1, <2>2, <2>3, <2>4, SendKeepsClose
<1>7. CASE ServerOnOpen
  <2> DEFINE hdl == ws_hdl_[Server]
  <2>1. CASE hdl # Null /\ wsS[hdl] = "open"
    <3>1. /\ wsS' = [wsS EXCEPT ![hdl] = "closing"]
          /\ \E m : toC' = [toC EXCEPT ![hdl] = m]
      BY <1>7, <2>1 DEF ServerOnOpen, on_success
    <3>2. hdl \in Clients /\ DOMAIN wsS = Clients /\ DOMAIN toC = Clients
      BY <2>1 DEF TypeInv, TypeOK, WsTypeOK
    <3> HIDE DEF hdl
    <3> QED BY <3>1, <3>2 DEF CloseInv
  <2> QED BY <1>1, <1>7, <2>1 DEF ServerOnOpen, on_success
<1>8. ASSUME NEW c \in Clients, ClientConnect(c) \/ ClientMain(c)
      PROVE  CloseInv'
  BY <1>1, <1>2, <1>3, <1>8
  DEF ClientConnect, WsConnect, ClientMain, ClientConnectFails, ClientOpenHandler, WsClientOpens,
      ClientMessageHandler, ClientReadsClose, ClientCloseHandler
<1>9. ASSUME NEW c \in Clients, ClientSignaling(c)
      PROVE  CloseInv'
  BY Zenon, <1>1, <1>9
  DEF ClientSignaling, ClientOnSdp, ClientCsdFails, ClientOnIce, ClientOnOpen, ClientOnClosed, wsVars
<1>10. ASSUME NEW c \in Clients, ServerMain(c)
       PROVE  CloseInv'
  BY <1>4, <1>6, <1>10 DEF ServerMain
<1>11. CASE ServerSignaling
  <2>1. CASE ServerOnSdp
    <3>1. pc # Null /\ Sends("answer")
      BY <2>1 DEF ServerOnSdp, on_success_csd, TypeInv, PcHeld
    <3> QED BY <1>5, <3>1
  <2>2. CASE ServerOnIce
    <3>1. pc # Null /\ Sends("ice")
      BY <2>2 DEF ServerOnIce, on_ice_candidate, TypeInv, PcHeld
    <3> QED BY <1>5, <3>1
  <2>3. CASE ServerCsdFails \/ ServerOnDataChannel \/ ServerOnClosed
    BY <1>1, <2>3 DEF ServerCsdFails, ServerOnDataChannel, ServerOnClosed, wsVars
  <2> QED BY <1>7, <1>11, <2>1, <2>2, <2>3 DEF ServerSignaling
<1>12. ASSUME NEW n \in Nodes, Kill(n)
       PROVE  CloseInv'
  BY <1>1, <1>12 DEF Kill, wsVars
<1>13. CASE UNCHANGED vars
  BY <1>1, <1>13 DEF vars, wsVars
<1> QED BY <1>8, <1>9, <1>10, <1>11, <1>12, <1>13 DEF Next

-----------------------------------------------------------------------------
(***************************************************************************)
(* NoNullDeref rests on three facts.  A client whose connection is open    *)
(* has made its peer connection, and one whose connection is not open yet  *)
(* has made nothing.  And while the server has none, every stream the      *)
(* server may still read starts with an offer, and a client that has       *)
(* applied its offer, hence may send candidates, has it in its stream.     *)
(***************************************************************************)
ClientHolds ==
    \A c \in Clients : Up(c) /\ wsC[c] = "open" => peer_connection[c] # Null

Fresh ==
    \A c \in Clients :
        wsC[c] \in {"none", "connecting"}
        => peer_connection[c] = Null /\ data_channel[c] = Null /\ dcState[c] = "none"

OfferFirst ==
    Up(Server) /\ peer_connection[Server] = Null =>
        \A c \in Clients : wsS[c] # "closed" =>
            /\ toS[c] # <<>> => Head(toS[c]).type = "offer"
            /\ Up(c) /\ sig[c] # "none" => toS[c] # <<>>

Handshake == ClientHolds /\ OfferFirst

NullInv == Handshake /\ Fresh

(* No process comes to use a null pointer but one it has just been given. *)
NoNewNull ==
    \A n \in Nodes :
        stat'[n] = "nullderef" => stat[n] = "nullderef" \/ GivenNull(n)'

(***************************************************************************)
(* Appending to a stream leaves its first frame, if it has one, in place.  *)
(***************************************************************************)
LEMMA AppendFacts ==
    ASSUME NEW q \in Seq(Frame), NEW m \in Frame
    PROVE  /\ Append(q, m) # <<>>
           /\ Head(Append(q, m)) = IF q = <<>> THEN m ELSE Head(q)
<1>1. Append(q, m) # <<>> /\ Head(Append(q, m)) = Append(q, m)[1]
  OBVIOUS
<1>2. q = <<>> => Append(q, m)[1] = m
  OBVIOUS
<1>3. q # <<>> => Append(q, m)[1] = q[1] /\ Head(q) = q[1]
  OBVIOUS
<1> QED BY <1>1, <1>2, <1>3

(***************************************************************************)
(* A process that has ended stays as it ended, and a data channel that has *)
(* been open has been open.                                                *)
(***************************************************************************)
DeadRest ==
    \A n \in Nodes :
        ~Up(n) => /\ stat'[n] = stat[n]
                  /\ peer_connection'[n] = peer_connection[n]
                  /\ data_channel'[n] = data_channel[n]

ConnectedLasts == \A c \in Clients : Connected(c) => Connected(c)'

LEMMA Lasting ==
    ASSUME TypeInv, NullInv, [Next]_vars
    PROVE  DeadRest /\ ConnectedLasts /\ Fresh'
<1> DEFINE Early(c) == wsC[c] \in {"none", "connecting"}
           Keeps(n) == \A m \in Nodes \ {n} :
                          /\ stat'[m] = stat[m]
                          /\ peer_connection'[m] = peer_connection[m]
                          /\ data_channel'[m] = data_channel[m]
                          /\ dcState'[m] = dcState[m]
                          /\ m \in Clients => wsC'[m] = wsC[m]
           Quiet(n) == /\ UNCHANGED <<peer_connection, data_channel, dcState>>
                       /\ \A m \in Nodes \ {n} : stat'[m] = stat[m]
                       /\ \A c \in Clients : ~Early(c) => wsC'[c] \notin {"none", "connecting"}
<1>1. ASSUME NEW n \in Nodes, Up(n), Keeps(n),
             n \in Clients => /\ Connected(n) => Connected(n)'
                             /\ wsC'[n] \notin {"none", "connecting"}
      PROVE  DeadRest /\ ConnectedLasts /\ Fresh'
  BY <1>1, NodeFacts DEF DeadRest, ConnectedLasts, Connected, NullInv, Fresh
<1>2. ASSUME NEW n \in Nodes, Up(n), Quiet(n)
      PROVE  DeadRest /\ ConnectedLasts /\ Fresh'
  BY Zenon, <1>2 DEF DeadRest, ConnectedLasts, Connected, NullInv, Fresh
<1>3. CASE UNCHANGED vars
  BY Zenon, <1>3 DEF vars, wsVars, rtcVars, DeadRest, ConnectedLasts, Connected, NullInv, Fresh
<1>4. ASSUME NEW n \in Nodes, Kill(n)
      PROVE  DeadRest /\ ConnectedLasts /\ Fresh'
  BY <1>2, <1>4, Domains DEF Kill, DiesAt, Dies, wsVars
<1>5. ASSUME NEW c \in Clients, ClientConnect(c) \/ ClientMain(c)
      PROVE  DeadRest /\ ConnectedLasts /\ Fresh'
  <2>1. CASE ClientOpenHandler(c)
    <3>1. Up(c) /\ Keeps(c)
      BY <2>1, Domains DEF ClientOpenHandler, WsClientOpens, create_offer_sdp, DiesAt, Dies
    <3>2. ~Connected(c) /\ wsC'[c] = "open"
      BY <2>1, Domains DEF ClientOpenHandler, WsClientOpens, Connected, NullInv, Fresh
    <3> QED BY Zenon, <1>1, <3>1, <3>2, NodeFacts
  <2>2. CASE ClientMessageHandler(c)
    <3>1. Up(c) /\ UNCHANGED wsC /\ \E s : push_reply_sdp(c, s) \/ push_ice(c, s)
      BY <2>2 DEF ClientMessageHandler
    <3>2. Quiet(c)
      BY <3>1, Domains DEF push_reply_sdp, push_ice, DiesAt, Dies, Dereferences
    <3> QED BY Zenon, <1>2, <3>1, <3>2, NodeFacts
  <2>3. CASE ClientConnect(c) \/ ClientConnectFails(c) \/ ClientReadsClose(c) \/ ClientCloseHandler(c)
    BY <1>2, <2>3, NodeFacts, Domains
    DEF ClientConnect, WsConnect, ClientConnectFails, ClientReadsClose, ClientCloseHandler,
        WsClientCloses, rtcVars
  <2> QED BY Zenon, <1>5, <2>1, <2>2, <2>3 DEF ClientMain
<1>6. ASSUME NEW c \in Clients, ClientSignaling(c)
      PROVE  DeadRest /\ ConnectedLasts /\ Fresh'
  <2>1. CASE ClientOnSdp(c) \/ ClientCsdFails(c) \/ ClientOnIce(c)
    <3>1. Up(c) /\ Quiet(c)
      BY <2>1, Domains DEF ClientOnSdp, ClientCsdFails, ClientOnIce, ws_client_send, Dies,
                           on_success_csd, on_failure_csd, on_ice_candidate, wsVars
    <3> QED BY Zenon, <1>2, <3>1, NodeFacts
  <2>2. CASE ClientOnOpen(c) \/ ClientOnClosed(c)
    <3>1. Up(c) /\ Keeps(c) /\ Connected(c)'
      BY <2>2, Domains, NodeFacts DEF ClientOnOpen, ClientOnClosed, on_state_change, Connected, wsVars
    <3>2. dcState[c] # "none" /\ UNCHANGED wsC
      BY <2>2 DEF ClientOnOpen, ClientOnClosed, wsVars
    <3>3. wsC'[c] \notin {"none", "connecting"}
      BY <3>2 DEF NullInv, Fresh
    <3> QED BY Zenon, <1>1, <3>1, <3>3, NodeFacts
  <2> QED BY Zenon, <1>6, <2>1, <2>2 DEF ClientSignaling
<1>7. ASSUME NEW c \in Clients, ServerMain(c)
      PROVE  DeadRest /\ ConnectedLasts /\ Fresh'
  <2>1. CASE ServerMessageHandler(c)
    <3>1. /\ Up(Server) /\ UNCHANGED wsC
          /\ \E s : \/ create_answer_sdp_exits(Server, s)
                    \/ create_answer_sdp(Server, s) /\ StaleAnswer(c)
                    \/ push_ice(Server, s)
      BY <2>1 DEF ServerMessageHandler
    <3>2. ASSUME NEW s, create_answer_sdp_exits(Server, s)
          PROVE  Keeps(Server)
      BY <3>1, <3>2, Domains DEF create_answer_sdp_exits, Replaces, Dies
    <3>3. ASSUME NEW s, create_answer_sdp(Server, s), StaleAnswer(c)
          PROVE  Keeps(Server)
      BY <3>1, <3>3, Domains DEF create_answer_sdp, Replaces, StaleAnswer, ws_server_send, Dies
    <3>4. ASSUME NEW s, push_ice(Server, s)
          PROVE  Keeps(Server)
      BY <3>1, <3>4, Domains DEF push_ice, DiesAt, Dies, Dereferences
    <3> QED BY Zenon, <1>1, <3>1, <3>2, <3>3, <3>4, NodeFacts
  <2>2. CASE ServerAccept(c) \/ ServerOpenHandler(c) \/ ServerCloseHandler(c)
    BY <1>2, <2>2, NodeFacts
    DEF ServerAccept, WsAccept, ServerOpenHandler, WsServerOpens, ServerCloseHandler,
        WsServerCloses, rtcVars
  <2> QED BY Zenon, <1>7, <2>1, <2>2 DEF ServerMain
<1>8. CASE ServerSignaling
  <2>1. CASE ServerOnSdp \/ ServerCsdFails \/ ServerOnIce
    <3>1. Up(Server) /\ Quiet(Server)
      BY <2>1, Domains DEF ServerOnSdp, ServerCsdFails, ServerOnIce, ws_server_send, Dies,
                           on_success_csd, on_failure_csd, on_ice_candidate, wsVars
    <3> QED BY Zenon, <1>2, <3>1, NodeFacts
  <2>2. CASE ServerOnDataChannel \/ ServerOnOpen \/ ServerOnClosed
    <3>1. Up(Server) /\ Keeps(Server)
      BY <2>2, Domains DEF ServerOnDataChannel, OnDataChannel, ServerOnOpen, ServerOnClosed,
                           on_state_change, on_success, Dies, wsVars
    <3> QED BY Zenon, <1>1, <3>1, NodeFacts
  <2> QED BY Zenon, <1>8, <2>1, <2>2 DEF ServerSignaling
<1> QED BY Zenon, <1>3, <1>4, <1>5, <1>6, <1>7, <1>8 DEF Next

LEMMA NullInvInit == Init => NullInv
  BY NodeFacts
     DEF Init, WsInit, RtcInit, NullInv, Handshake, ClientHolds, Fresh, OfferFirst, Up

LEMMA NullInvClientMain ==
    ASSUME TypeInv, NullInv, NEW c \in Clients, ClientConnect(c) \/ ClientMain(c)
    PROVE  Handshake' /\ NoNewNull
<1> USE NodeFacts, Domains DEF NullInv, Handshake, NoNewNull, ClientHolds, OfferFirst, Up
<1>1. CASE ClientConnect(c)
  BY Zenon, <1>1 DEF ClientConnect, WsConnect, rtcVars
<1>2. CASE ClientConnectFails(c)
  BY Zenon, <1>2 DEF ClientConnectFails, WsClientCloses, rtcVars
<1>3. CASE ClientOpenHandler(c)
  <2>1. /\ UNCHANGED <<wsS, toS, sig>> /\ wsC' = [wsC EXCEPT ![c] = "open"]
        /\ \/ /\ "pc" \in Faults /\ stat' = [stat EXCEPT ![c] = "nullderef"]
              /\ UNCHANGED <<peer_connection, data_channel, dcState>>
           \/ /\ "dc" \in Faults /\ stat' = [stat EXCEPT ![c] = "nullderef"]
              /\ peer_connection' = [peer_connection EXCEPT ![c] = c]
              /\ UNCHANGED <<data_channel, dcState>>
           \/ /\ UNCHANGED stat
              /\ peer_connection' = [peer_connection EXCEPT ![c] = c]
              /\ data_channel' = [data_channel EXCEPT ![c] = c]
              /\ dcState' = [dcState EXCEPT ![c] = "connecting"]
    BY <1>3 DEF ClientOpenHandler, WsClientOpens, create_offer_sdp, DiesAt, Dies
  <2>2. wsC[c] = "connecting"
    BY <1>3 DEF ClientOpenHandler, WsClientOpens
  <2>3. NoNewNull
    BY Zenon, <2>1, <2>2 DEF GivenNull, Fresh
  <2>4. ClientHolds'
    BY <2>1
  <2>5. OfferFirst'
    BY <2>1
  <2> QED BY Zenon, <2>3, <2>4, <2>5
<1>4. CASE ClientMessageHandler(c)
  <2>1. peer_connection[c] # Null
    BY Zenon, <1>4 DEF ClientMessageHandler
  <2>2. PICK s : push_reply_sdp(c, s) \/ push_ice(c, s)
    BY <1>4 DEF ClientMessageHandler
  <2>3. UNCHANGED <<wsC, wsS, toS, peer_connection>>
    BY Zenon, <1>4, <2>2 DEF ClientMessageHandler, push_reply_sdp, push_ice, DiesAt
  <2>4. \/ UNCHANGED sig
        \/ sig' = [sig EXCEPT ![c] = IF @ = "local" THEN "stable" ELSE @]
    BY Zenon, <2>2 DEF push_reply_sdp, push_ice, DiesAt
  <2>5. \A n \in Nodes : sig'[n] = "none" <=> sig[n] = "none"
    BY Zenon, <2>4
  <2>6. \/ stat' = [stat EXCEPT ![c] = "exit"]
        \/ stat' = [stat EXCEPT ![c] = @]
    BY <2>1, <2>2 DEF push_reply_sdp, push_ice, DiesAt, Dies, Dereferences
  <2>7. \A n \in Nodes : stat'[n] = stat[n] \/ stat'[n] = "exit"
    BY <2>6
  <2>8. NoNewNull
    BY <2>7
  <2>9. ClientHolds'
    BY <2>3, <2>7
  <2>10. OfferFirst'
    BY Zenon, <2>3, <2>5, <2>7
  <2> QED BY <2>8, <2>9, <2>10
<1>5. CASE ClientReadsClose(c)
  BY Zenon, <1>5 DEF ClientReadsClose, rtcVars
<1>6. CASE ClientCloseHandler(c)
  BY <1>6 DEF ClientCloseHandler, WsClientCloses, rtcVars
<1> QED BY Zenon, <1>1, <1>2, <1>3, <1>4, <1>5, <1>6 DEF ClientMain

LEMMA NullInvClientSignaling ==
    ASSUME TypeInv, NullInv, NEW c \in Clients, ClientSignaling(c)
    PROVE  Handshake' /\ NoNewNull
<1> USE NodeFacts, Domains DEF NullInv, Handshake, NoNewNull, ClientHolds, OfferFirst, Up
<1>1. ASSUME NEW m \in Frame, ws_client_send(c, m), Up(c),
             m.type = "offer" \/ sig[c] # "none",
             UNCHANGED <<wsC, wsS, peer_connection>>,
             \A n \in Nodes \ {c} : sig'[n] = sig[n]
      PROVE  Handshake' /\ NoNewNull
  <2>1. CASE stat' = [stat EXCEPT ![c] = "abort"] /\ UNCHANGED toS
    BY Zenon, <1>1, <2>1
  <2>2. CASE UNCHANGED stat /\ toS' = [toS EXCEPT ![c] = Append(@, m)]
    <3>1. /\ \A d \in Clients \ {c} : toS'[d] = toS[d]
          /\ toS'[c] # <<>>
          /\ Head(toS'[c]) = IF toS[c] = <<>> THEN m ELSE Head(toS[c])
      BY <2>2, AppendFacts
    <3>2. ASSUME Up(Server), peer_connection[Server] = Null, wsS[c] # "closed"
          PROVE  Head(toS'[c]).type = "offer"
      BY Zenon, <1>1, <3>1, <3>2
    <3>3. OfferFirst'
      BY Zenon, <1>1, <2>2, <3>1, <3>2
    <3> QED BY <1>1, <2>2, <3>3
  <2> QED BY Zenon, <1>1, <2>1, <2>2 DEF ws_client_send, Dies
<1>2. CASE ClientOnSdp(c)
  <2>1. FrameOf("offer", c) \in Frame /\ FrameOf("offer", c).type = "offer"
    BY Zenon, FrameTyping DEF FrameOf
  <2> QED BY Zenon, <1>1, <1>2, <2>1 DEF ClientOnSdp, on_success_csd
<1>3. CASE ClientCsdFails(c)
  BY Zenon, <1>3 DEF ClientCsdFails, on_failure_csd, wsVars
<1>4. CASE ClientOnIce(c)
  <2>1. FrameOf("ice", c) \in Frame
    BY Zenon, FrameTyping
  <2> QED BY Zenon, <1>1, <1>4, <2>1 DEF ClientOnIce, on_ice_candidate
<1>5. CASE ClientOnOpen(c) \/ ClientOnClosed(c)
  <2>1. UNCHANGED <<stat, wsC, wsS, toS, sig, peer_connection>>
    BY <1>5 DEF ClientOnOpen, ClientOnClosed, on_state_change, wsVars
  <2> QED BY <2>1
<1> QED BY Zenon, <1>2, <1>3, <1>4, <1>5 DEF ClientSignaling

LEMMA NullInvServer ==
    ASSUME TypeInv, NullInv, ServerSignaling \/ \E c \in Clients : ServerMain(c)
    PROVE  Handshake' /\ NoNewNull
<1> USE NodeFacts, Domains DEF NullInv, Handshake, NoNewNull, ClientHolds, OfferFirst, Up
<1>1. ASSUME NEW c \in Clients, ServerMain(c)
      PROVE  Handshake' /\ NoNewNull
  <2>1. CASE ServerAccept(c)
    BY Zenon, <2>1 DEF ServerAccept, WsAccept, rtcVars
  <2>2. CASE ServerOpenHandler(c)
    BY <2>2 DEF ServerOpenHandler, WsServerOpens, rtcVars
  <2>3. CASE ServerMessageHandler(c)
    <3>1. ASSUME NEW s \in Clients, create_answer_sdp_exits(Server, s)
          PROVE  Handshake' /\ NoNewNull
      <4>1. /\ UNCHANGED wsC
            /\ \A n \in Clients : peer_connection'[n] = peer_connection[n] /\ stat'[n] = stat[n]
        BY <2>3, <3>1 DEF ServerMessageHandler, create_answer_sdp_exits, Replaces, Dies
      <4>2. ~Up(Server)' /\ (stat'[Server] = "nullderef" => GivenNull(Server)')
        BY <3>1 DEF create_answer_sdp_exits, Replaces, Dies, GivenNull
      <4> QED BY Zenon, <4>1, <4>2
    <3>2. ASSUME NEW s \in Clients, create_answer_sdp(Server, s), StaleAnswer(c)
          PROVE  Handshake' /\ NoNewNull
      <4>1. UNCHANGED wsC /\ peer_connection' = [peer_connection EXCEPT ![Server] = s]
        BY <2>3, <3>2 DEF ServerMessageHandler, create_answer_sdp, Replaces
      <4>2. \A n \in Nodes : stat'[n] = stat[n] \/ (n = Server /\ stat'[n] \in {"uaf", "abort"})
        BY Zenon, <3>2 DEF StaleAnswer, ws_server_send, Dies
      <4> QED BY <4>1, <4>2
    <3>3. ASSUME NEW s \in Clients, Head(toS[c]).type = "ice", push_ice(Server, s)
          PROVE  Handshake' /\ NoNewNull
      <4>1. peer_connection[Server] # Null
        BY Zenon, <2>3, <3>3 DEF ServerMessageHandler
      <4> QED BY Zenon, <2>3, <3>3, <4>1 DEF ServerMessageHandler, push_ice, DiesAt, Dies, Dereferences
    <3>4. Head(toS[c]).pc \in Clients
      BY Zenon, <2>3, StreamTyping DEF ServerMessageHandler, Frame
    <3> QED BY Zenon, <2>3, <3>1, <3>2, <3>3, <3>4 DEF ServerMessageHandler
  <2>4. CASE ServerCloseHandler(c)
    BY <2>4 DEF ServerCloseHandler, WsServerCloses, rtcVars
  <2> QED BY Zenon, <1>1, <2>1, <2>2, <2>3, <2>4 DEF ServerMain
<1>2. CASE ServerSignaling
  <2>1. CASE ServerOnSdp
    BY Zenon, <2>1 DEF ServerOnSdp, on_success_csd, ws_server_send, Dies, PcHeld
  <2>2. CASE ServerCsdFails
    BY Zenon, <2>2 DEF ServerCsdFails, on_failure_csd, wsVars
  <2>3. CASE ServerOnIce
    BY Zenon, <2>3 DEF ServerOnIce, on_ice_candidate, ws_server_send, Dies, PcHeld
  <2>4. CASE ServerOnDataChannel
    BY <2>4 DEF ServerOnDataChannel, OnDataChannel, wsVars
  <2>5. CASE ServerOnOpen
    <3>1. /\ UNCHANGED <<wsC, toS, peer_connection, sig>>
          /\ UNCHANGED <<stat>> \/ stat' = [stat EXCEPT ![Server] = "abort"]
      BY Zenon, <2>5 DEF ServerOnOpen, on_state_change, on_success, Dies
    <3>2. \A c \in Clients : wsS[c] = "closed" => wsS'[c] = "closed"
      BY <2>5 DEF ServerOnOpen, on_success
    <3>3. \A c \in Clients : wsS'[c] # "closed" => wsS[c] # "closed"
      BY <3>2
    <3> QED BY <3>1, <3>3
  <2>6. CASE ServerOnClosed
    BY <2>6 DEF ServerOnClosed, on_state_change, wsVars
  <2> QED BY Zenon, <1>2, <2>1, <2>2, <2>3, <2>4, <2>5, <2>6 DEF ServerSignaling
<1> QED BY <1>1, <1>2

LEMMA NullInvStep == TypeInv /\ NullInv /\ [Next]_vars => NullInv' /\ NoNewNull
<1> SUFFICES ASSUME TypeInv, NullInv, [Next]_vars
             PROVE  Handshake' /\ NoNewNull
  BY Lasting DEF NullInv
<1>1. ASSUME NEW n \in Nodes, Kill(n)
      PROVE  Handshake' /\ NoNewNull
  <2>1. UNCHANGED <<wsC, wsS, toS, sig, peer_connection>>
    BY <1>1 DEF Kill, DiesAt, wsVars
  <2>2. \A p \in Nodes : stat'[p] = stat[p] \/ stat'[p] = "killed"
    BY <1>1, Domains DEF Kill, DiesAt, Dies
  <2> QED BY <2>1, <2>2, NodeFacts DEF NullInv, Handshake, NoNewNull, ClientHolds, OfferFirst, Up
<1>2. CASE UNCHANGED vars
  BY <1>2 DEF vars, wsVars, rtcVars, NullInv, Handshake, NoNewNull, ClientHolds, OfferFirst, Up
<1> QED BY <1>1, <1>2, NullInvClientMain, NullInvClientSignaling, NullInvServer DEF Next

LEMMA NullInvariance == Spec => []NullInv
  BY TypeInvariance, NullInvInit, NullInvStep, PTL DEF Spec

(***************************************************************************)
(* For any number of clients and whatever fails, the peer connection that  *)
(* push_reply_sdp and push_ice use unchecked is there whenever a message   *)
(* reaches them.  Every null pointer that is used is one that              *)
(* CreatePeerConnection or CreateDataChannel has just returned: to         *)
(* create_offer_sdp, or to the server in place of a peer connection whose  *)
(* OnSuccess comes late.                                                   *)
(***************************************************************************)
THEOREM NullSafety == Spec => []NoNullDeref
<1> DEFINE Given == \A n \in Nodes : stat[n] = "nullderef" => GivenNull(n)
<1>1. NullInv /\ Given => NoNullDeref
  BY Zenon DEF NullInv, Handshake, ClientHolds, OfferFirst, NoNullDeref
<1>2. Init => Given
  BY DEF Init, RtcInit
<1>3. TypeInv /\ NullInv /\ Given /\ [Next]_vars => Given'
  <2> SUFFICES ASSUME TypeInv, NullInv, Given, [Next]_vars, NEW n \in Nodes, stat'[n] = "nullderef"
               PROVE  GivenNull(n)'
    OBVIOUS
  <2>1. CASE stat[n] # "nullderef"
    BY <2>1, NullInvStep DEF NoNewNull
  <2>2. CASE stat[n] = "nullderef"
    <3>1. UNCHANGED <<peer_connection[n], data_channel[n]>> /\ GivenNull(n)
      BY <2>2, Lasting DEF DeadRest, Up
    <3> QED BY <3>1 DEF GivenNull
  <2> QED BY <2>1, <2>2
<1> HIDE DEF Given
<1> QED BY <1>1, <1>2, <1>3, TypeInvariance, NullInvariance, PTL DEF Spec


-----------------------------------------------------------------------------
(***************************************************************************)
(* AbortNeedsCause.  In a calm state every process runs and no data        *)
(* channel has been open.  Nobody has closed a WebSocket then, and the     *)
(* handle that a process sends on is open as soon as it has a peer         *)
(* connection, hence something to send.                                    *)
(***************************************************************************)
Calm ==
    /\ \A n \in Nodes : Up(n)
    /\ \A c \in Clients : ~Connected(c)

SendsGetOut ==
    /\ dcState[Server] = "none" /\ data_channel[Server] = Null
    /\ peer_connection[Server] # Null => ws_hdl_[Server] # Null
    /\ \A c \in Clients :
          /\ wsS[c] \in {"none", "accepted", "open"}
          /\ ws_hdl_[Server] = c => wsS[c] = "open"
          /\ wsC[c] # "closing"
          /\ peer_connection[c] # Null => ws_hdl_[c] = c /\ wsC[c] = "open"

CalmInv == Calm => SendsGetOut

(* No process is ended by an exception in this step. *)
NoThrow == \A n \in Nodes : stat'[n] # "abort"

LEMMA CalmClientMain ==
    ASSUME TypeInv, NullInv, CloseInv, Calm, SendsGetOut,
           NEW c \in Clients, ClientConnect(c) \/ ClientMain(c)
    PROVE  NoThrow /\ (Calm' => SendsGetOut')
<1> USE NodeFacts, Domains
<1>1. \A n \in Nodes : Up(n)
  BY DEF Calm
<1>2. CASE ClientConnect(c)
  BY <1>1, <1>2 DEF ClientConnect, WsConnect, rtcVars, Up, NoThrow, SendsGetOut
<1>3. CASE ClientConnectFails(c)
  <2>1. peer_connection[c] = Null
    BY <1>3 DEF ClientConnectFails, NullInv, Fresh
  <2> QED BY <1>1, <1>3, <2>1
          DEF ClientConnectFails, WsClientCloses, rtcVars, Up, NoThrow, SendsGetOut
<1>4. CASE ClientOpenHandler(c)
  <2>1. /\ wsC' = [wsC EXCEPT ![c] = "open"] /\ ws_hdl_' = [ws_hdl_ EXCEPT ![c] = c]
        /\ UNCHANGED wsS
    BY <1>4 DEF ClientOpenHandler, WsClientOpens
  <2>2. CASE stat' = [stat EXCEPT ![c] = "nullderef"]
    BY <1>1, <2>2 DEF Calm, Up, NoThrow
  <2>3. CASE /\ peer_connection' = [peer_connection EXCEPT ![c] = c]
             /\ data_channel' = [data_channel EXCEPT ![c] = c]
             /\ dcState' = [dcState EXCEPT ![c] = "connecting"]
             /\ UNCHANGED stat
    <3>1. NoThrow
      BY <1>1, <2>3 DEF Up, NoThrow
    <3>2. /\ dcState'[Server] = dcState[Server] /\ data_channel'[Server] = data_channel[Server]
          /\ peer_connection'[Server] = peer_connection[Server] /\ ws_hdl_'[Server] = ws_hdl_[Server]
          /\ \A d \in Clients : d # c => /\ wsC'[d] = wsC[d] /\ ws_hdl_'[d] = ws_hdl_[d]
                                         /\ peer_connection'[d] = peer_connection[d]
          /\ wsC'[c] = "open" /\ ws_hdl_'[c] = c
      BY <2>1, <2>3
    <3>3. SendsGetOut'
      BY <2>1, <3>2 DEF SendsGetOut
    <3> QED BY <3>1, <3>3
  <2> QED BY Zenon, <1>4, <2>2, <2>3 DEF ClientOpenHandler, create_offer_sdp, DiesAt, Dies
<1>5. CASE ClientMessageHandler(c)
  <2>1. /\ UNCHANGED <<wsC, wsS>> /\ ws_hdl_' = [ws_hdl_ EXCEPT ![c] = c]
        /\ \E s : push_reply_sdp(c, s) \/ push_ice(c, s)
    BY <1>5 DEF ClientMessageHandler
  <2>2. UNCHANGED <<peer_connection, data_channel, dcState>>
    BY <2>1 DEF push_reply_sdp, push_ice, DiesAt
  <2>3. \A n \in Nodes : stat'[n] = stat[n] \/ stat'[n] \in {"exit", "nullderef"}
    BY <2>1 DEF push_reply_sdp, push_ice, DiesAt, Dies, Dereferences
  <2>4. NoThrow
    BY <1>1, <2>3 DEF Up, NoThrow
  <2>5. ws_hdl_'[Server] = ws_hdl_[Server] /\ ws_hdl_'[c] = c
    BY <2>1
  <2>6. \A d \in Clients : d # c => ws_hdl_'[d] = ws_hdl_[d]
    BY <2>1
  <2> QED BY Zenon, <2>1, <2>2, <2>4, <2>5, <2>6 DEF SendsGetOut
<1>6. ~ClientReadsClose(c)
  <2>1. NoClose(toC[c]) /\ toC[c] \in Seq(Frame)
    BY DEF CloseInv, SendsGetOut, TypeInv, TypeOK, WsTypeOK
  <2> QED BY <2>1, CloseFacts DEF ClientReadsClose
<1>7. ~ClientCloseHandler(c)
  BY <1>1 DEF ClientCloseHandler, SendsGetOut
<1> QED BY Zenon, <1>2, <1>3, <1>4, <1>5, <1>6, <1>7 DEF ClientMain

LEMMA CalmClientSignaling ==
    ASSUME TypeInv, NullInv, Calm, SendsGetOut, NEW c \in Clients, ClientSignaling(c)
    PROVE  NoThrow /\ (Calm' => SendsGetOut')
<1> USE NodeFacts, Domains
<1>1. \A n \in Nodes : Up(n)
  BY DEF Calm
<1>2. CASE ClientOnSdp(c) \/ ClientOnIce(c)
  <2>1. peer_connection[c] # Null
    BY <1>1, <1>2 DEF ClientOnSdp, ClientOnIce, on_success_csd, on_ice_candidate, TypeInv, PcHeld
  <2>2. ws_hdl_[c] = c /\ wsC[c] = "open"
    BY <2>1 DEF SendsGetOut
  <2>3. UNCHANGED <<stat, wsC, wsS, ws_hdl_, peer_connection, data_channel, dcState>>
    BY <1>2, <2>2 DEF ClientOnSdp, ClientOnIce, ws_client_send, on_success_csd, on_ice_candidate
  <2> QED BY <1>1, <2>3 DEF Up, NoThrow, SendsGetOut
<1>3. CASE ClientCsdFails(c)
  BY <1>1, <1>3 DEF ClientCsdFails, on_failure_csd, wsVars, Up, NoThrow, SendsGetOut
<1>4. CASE ClientOnOpen(c) \/ ClientOnClosed(c)
  <2>1. Connected(c)' /\ UNCHANGED stat
    BY <1>4 DEF ClientOnOpen, ClientOnClosed, on_state_change, Connected
  <2> QED BY <1>1, <2>1 DEF Calm, Up, NoThrow
<1> QED BY Zenon, <1>2, <1>3, <1>4 DEF ClientSignaling

LEMMA CalmServerMain ==
    ASSUME TypeInv, Calm, SendsGetOut, NEW c \in Clients, ServerMain(c)
    PROVE  NoThrow /\ (Calm' => SendsGetOut')
<1> USE NodeFacts, Domains
<1>1. \A n \in Nodes : Up(n)
  BY DEF Calm
<1>2. CASE ServerAccept(c)
  BY <1>1, <1>2 DEF ServerAccept, WsAccept, rtcVars, Up, NoThrow, SendsGetOut
<1>3. CASE ServerOpenHandler(c)
  BY <1>1, <1>3 DEF ServerOpenHandler, WsServerOpens, rtcVars, Up, NoThrow, SendsGetOut
<1>4. CASE ServerMessageHandler(c)
  <2>1. UNCHANGED <<wsC, wsS>> /\ ws_hdl_' = [ws_hdl_ EXCEPT ![Server] = c] /\ wsS[c] = "open"
    BY <1>4 DEF ServerMessageHandler
  <2>2. \/ \E s : create_answer_sdp_exits(Server, s)
        \/ (\E s : create_answer_sdp(Server, s)) /\ StaleAnswer(c)
        \/ \E s : push_ice(Server, s)
    BY <1>4 DEF ServerMessageHandler
  <2>3. \A n \in Nodes : stat'[n] = stat[n] \/ stat'[n] \in {"exit", "nullderef", "uaf"}
    BY <2>1, <2>2 DEF create_answer_sdp_exits, StaleAnswer, ws_server_send, push_ice, DiesAt, Dies,
                      Dereferences
  <2>4. NoThrow
    BY <1>1, <2>3 DEF Up, NoThrow
  <2>5. ASSUME NEW p, Replaces(Server, p)
        PROVE  /\ UNCHANGED data_channel /\ dcState'[Server] = "none"
               /\ \A d \in Clients : peer_connection'[d] = peer_connection[d]
    BY <2>5 DEF Replaces, SendsGetOut
  <2>6. /\ UNCHANGED data_channel /\ dcState'[Server] = "none"
        /\ \A d \in Clients : peer_connection'[d] = peer_connection[d]
    <3>1. CASE \E s : push_ice(Server, s)
      BY <3>1 DEF push_ice, DiesAt, SendsGetOut
    <3> QED BY Zenon, <2>2, <2>5, <3>1 DEF create_answer_sdp_exits, create_answer_sdp
  <2>7. ws_hdl_'[Server] = c /\ \A d \in Clients : ws_hdl_'[d] = ws_hdl_[d]
    BY <2>1
  <2> QED BY <2>1, <2>4, <2>6, <2>7 DEF SendsGetOut
<1>5. ~ServerCloseHandler(c)
  BY <1>1 DEF ServerCloseHandler, SendsGetOut
<1> QED BY Zenon, <1>2, <1>3, <1>4, <1>5 DEF ServerMain

LEMMA CalmServerSignaling ==
    ASSUME TypeInv, Calm, SendsGetOut, ServerSignaling
    PROVE  NoThrow /\ (Calm' => SendsGetOut')
<1> USE NodeFacts, Domains
<1>1. \A n \in Nodes : Up(n)
  BY DEF Calm
<1>2. CASE ServerOnSdp \/ ServerOnIce
  <2>1. peer_connection[Server] # Null
    BY <1>1, <1>2 DEF ServerOnSdp, ServerOnIce, on_success_csd, on_ice_candidate, TypeInv, PcHeld
  <2>2. ws_hdl_[Server] # Null /\ wsS[ws_hdl_[Server]] = "open"
    <3>1. ws_hdl_[Server] # Null /\ ws_hdl_[Server] \in Clients
      BY <2>1 DEF SendsGetOut, TypeInv, TypeOK
    <3> QED BY Zenon, <3>1 DEF SendsGetOut
  <2>3. UNCHANGED <<stat, wsC, wsS, ws_hdl_, peer_connection, data_channel, dcState>>
    BY <1>2, <2>2 DEF ServerOnSdp, ServerOnIce, ws_server_send, on_success_csd, on_ice_candidate
  <2> QED BY <1>1, <2>3 DEF Up, NoThrow, SendsGetOut
<1>3. CASE ServerCsdFails
  BY <1>1, <1>3 DEF ServerCsdFails, on_failure_csd, wsVars, Up, NoThrow, SendsGetOut
<1>4. ~ServerOnDataChannel
  <2>1. ASSUME ServerOnDataChannel
        PROVE  peer_connection[Server] \in Clients
    BY <2>1 DEF ServerOnDataChannel, TypeInv, TypeOK, RtcTypeOK, PcHeld
  <2> QED BY <2>1 DEF ServerOnDataChannel, Calm, Connected
<1>5. ~ServerOnOpen /\ ~ServerOnClosed
  BY DEF ServerOnOpen, ServerOnClosed, SendsGetOut
<1> QED BY Zenon, <1>2, <1>3, <1>4, <1>5 DEF ServerSignaling

LEMMA CalmStep ==
    ASSUME TypeInv, NullInv, CloseInv, CalmInv, [Next]_vars
    PROVE  CalmInv' /\ (Calm => NoThrow)
<1>1. Calm' => Calm
  BY Lasting DEF Calm, DeadRest, ConnectedLasts, Up
<1>2. CASE Calm
  <2>1. SendsGetOut
    BY <1>2 DEF CalmInv
  <2>2. ASSUME NEW n \in Nodes, Kill(n)
        PROVE  NoThrow /\ (Calm' => SendsGetOut')
    <3>1. ~Calm' /\ \A m \in Nodes : stat'[m] = stat[m] \/ stat'[m] = "killed"
      BY <2>2, Domains DEF Kill, DiesAt, Dies, Calm, Up
    <3> QED BY <1>2, <3>1 DEF Calm, Up, NoThrow
  <2>3. ASSUME UNCHANGED vars
        PROVE  NoThrow /\ (Calm' => SendsGetOut')
    <3>1. UNCHANGED <<stat, wsC, wsS, ws_hdl_, peer_connection, data_channel, dcState>>
      BY <2>3 DEF vars, wsVars, rtcVars
    <3> QED BY <1>2, <2>1, <3>1 DEF Calm, Up, NoThrow, SendsGetOut
  <2>4. NoThrow /\ (Calm' => SendsGetOut')
    BY Zenon, <1>2, <2>1, <2>2, <2>3, CalmClientMain, CalmClientSignaling, CalmServerMain,
       CalmServerSignaling DEF Next
  <2> QED BY <2>4 DEF CalmInv
<1>3. CASE ~Calm
  BY <1>1, <1>3 DEF CalmInv
<1> QED BY <1>2, <1>3

(***************************************************************************)
(* For any number of clients and whatever fails, the sends of the          *)
(* callbacks (server.cpp:31,63, client.cpp:34,58) and the close of         *)
(* on_success (server.cpp:69) throw only once some data channel has been   *)
(* open or some other process has ended, although every handler of every   *)
(* client moves the handle that the server uses.                           *)
(***************************************************************************)
THEOREM SendsSafeUntilTrouble == Spec => []AbortNeedsCause
<1>1. Init => CalmInv /\ AbortNeedsCause
  <2>1. Init => CalmInv
    BY NodeFacts DEF Init, WsInit, RtcInit, CalmInv, SendsGetOut
  <2>2. Init => AbortNeedsCause
    BY DEF Init, RtcInit, AbortNeedsCause
  <2> QED BY <2>1, <2>2
<1>2. TypeInv /\ NullInv /\ CloseInv /\ CalmInv /\ [Next]_vars => CalmInv'
  BY CalmStep
<1>3. /\ TypeInv /\ NullInv /\ CloseInv /\ CalmInv /\ AbortNeedsCause /\ [Next]_vars
      => AbortNeedsCause'
  <2> SUFFICES ASSUME TypeInv, NullInv, CloseInv, CalmInv, AbortNeedsCause, [Next]_vars,
                      NEW n \in Nodes, stat'[n] = "abort",
                      \A c \in Clients : ~Connected(c)'
               PROVE  \E m \in Nodes \ {n} : ~Up(m)'
    BY DEF AbortNeedsCause
  <2>1. \A c \in Clients : ~Connected(c)
    BY Lasting DEF ConnectedLasts
  <2>2. ~Calm
    BY CalmStep DEF NoThrow
  <2>3. PICK m \in Nodes : ~Up(m)
    BY <2>1, <2>2 DEF Calm
  <2>4. \E p \in Nodes \ {n} : ~Up(p)
    <3>1. CASE m = n
      BY <2>1, <2>3, <3>1, Lasting DEF DeadRest, AbortNeedsCause
    <3> QED BY <2>3, <3>1
  <2> QED BY <2>4, Lasting DEF DeadRest, Up
<1> QED BY <1>1, <1>2, <1>3, TypeInvariance, NullInvariance, CloseInvInit, CloseInvStep, PTL DEF Spec
=============================================================================
