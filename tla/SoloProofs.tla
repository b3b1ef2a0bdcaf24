----------------------------- MODULE SoloProofs -----------------------------
(***************************************************************************)
(* The intended use of the programs: one client, and nothing outside them  *)
(* fails.  There the handshake is proved to keep its promises, for every   *)
(* number of candidates and every interleaving of the four threads.        *)
(***************************************************************************)
EXTENDS SignalingProofs

(***************************************************************************)
(* The intended use, with c the client.                                    *)
(***************************************************************************)
Solo(c) == Clients = {c} /\ Faults = {}

(***************************************************************************)
(* The strengthening.  Everything that tells a process that the WebSocket  *)
(* is no longer needed (it is being closed, a process found it closed and  *)
(* died, the server has a data channel) implies Connected.                 *)
(***************************************************************************)
ClosingInv(c) ==
    /\ \A n \in Nodes : stat[n] # "up" => stat[n] = "abort" /\ Connected(c)
    /\ wsC[c] \notin {"none", "connecting", "open"} => Connected(c)
    /\ wsS[c] \in {"closing", "closed"} => Connected(c)
    /\ main[c] = "loop" => Connected(c)
    /\ data_channel[Server] # Null \/ dcState[Server] # "none" => Connected(c)

(***************************************************************************)
(* A process that uses its handle has one, of the connection it means.     *)
(***************************************************************************)
HandleInv(c) ==
    /\ wsC[c] \in {"none", "connecting"} => /\ dcState[c] = "none"
                                            /\ sig[c] = "none"
                                            /\ c \notin csd
    /\ wsC[c] \notin {"none", "connecting"} => ws_hdl_[c] = c
    /\ peer_connection[Server] # Null => /\ ws_hdl_[Server] = c
                                         /\ wsS[c] \in {"open", "closing", "closed"}

(***************************************************************************)
(* There is one offer, and the server takes it when it has no peer         *)
(* connection yet: no peer connection is ever replaced.                    *)
(***************************************************************************)
OfferInv(c) ==
    /\ \A i \in 1..Len(toS[c]) :
          toS[c][i].type = "offer" => i = 1 /\ peer_connection[Server] = Null
    /\ c \in csd => sig[c] = "none"
    /\ sig[c] = "none" => toS[c] = <<>> /\ peer_connection[Server] = Null

(***************************************************************************)
(* The answer is the first thing the server sends, and the client has it   *)
(* in front of it until it has applied it.                                 *)
(***************************************************************************)
AnswerInv(c) ==
    /\ sig[c] # "remote" /\ sig[Server] # "local"
    /\ Server \in csd => sig[Server] = "remote"
    /\ sig[Server] # "stable" => toC[c] = <<>>
    /\ sig[Server] = "stable" /\ wsC[c] = "open" =>
          sig[c] = "stable" \/ (toC[c] # <<>> /\ Head(toC[c]).type = "answer")
    /\ Connected(c) => sig[Server] = "stable" /\ sig[c] = "stable"

SoloInv(c) == ClosingInv(c) /\ HandleInv(c) /\ OfferInv(c) /\ AnswerInv(c)

(* What the definitions below are for, wherever a step is examined. *)
Known == TypeInv /\ CloseInv /\ NullInv

LEMMA KnownInvariance == Spec => []Known
<1>1. Init => CloseInv /\ NullInv
  BY CloseInvInit, NullInvInit
<1>2. TypeInv /\ CloseInv /\ NullInv /\ [Next]_vars => CloseInv' /\ NullInv'
  BY CloseInvStep, NullInvStep
<1> QED BY <1>1, <1>2, TypeInvariance, PTL DEF Known, Spec

(***************************************************************************)
(* The two processes are different.                                        *)
(***************************************************************************)
LEMMA SoloFacts ==
    ASSUME NEW CONSTANT c, Solo(c)
    PROVE  /\ c \in Clients /\ c \in Nodes /\ Server \in Nodes
           /\ c # Server /\ c # Null /\ Server # Null
           /\ \A n \in Nodes : n = c \/ n = Server
           /\ \A d \in Clients : d = c
           /\ Faults = {}
  BY ConstantsAssumption DEF Solo, Nodes

(***************************************************************************)
(* What the steps below use of the invariants already proved.              *)
(***************************************************************************)
LEMMA KnownFacts ==
    ASSUME NEW CONSTANT c, Solo(c), Known
    PROVE  /\ DOMAIN wsC = Clients /\ DOMAIN wsS = Clients
           /\ DOMAIN toS = Clients /\ DOMAIN toC = Clients /\ DOMAIN main = Clients
           /\ DOMAIN stat = Nodes /\ DOMAIN peer_connection = Nodes /\ DOMAIN sig = Nodes
           /\ DOMAIN data_channel = Nodes /\ DOMAIN dcState = Nodes /\ DOMAIN ws_hdl_ = Nodes
           /\ stat = [n \in Nodes |-> stat[n]]
           /\ toS[c] \in Seq(Frame) /\ toC[c] \in Seq(Frame)
           /\ peer_connection[Server] \in {c, Null} /\ ws_hdl_[Server] \in {c, Null}
           /\ sig[c] \in {"none", "local", "remote", "stable"}
           /\ Up(Server) /\ (Server \in csd \/ sig[Server] # "none")
                 => peer_connection[Server] # Null
  BY SoloFacts, Domains
     DEF Known, TypeInv, TypeOK, WsTypeOK, RtcTypeOK, PcHeld, SigState

LEMMA SoloInit ==
    ASSUME NEW CONSTANT c, Solo(c), Init
    PROVE  SoloInv(c)
<1> USE SoloFacts DEF Init, WsInit, RtcInit, Connected
<1>1. ClosingInv(c)
  BY DEF ClosingInv
<1>2. HandleInv(c)
  BY DEF HandleInv
<1>3. OfferInv(c)
  BY DEF OfferInv
<1>4. AnswerInv(c)
  BY DEF AnswerInv
<1> QED BY <1>1, <1>2, <1>3, <1>4 DEF SoloInv

(***************************************************************************)
(* The client's main thread.                                               *)
(***************************************************************************)
LEMMA SoloClientMain ==
    ASSUME NEW CONSTANT c, Solo(c), Known, Known', SoloInv(c), ClientConnect(c) \/ ClientMain(c)
    PROVE  SoloInv(c)'
<1> USE SoloFacts, KnownFacts DEF SoloInv, Connected, Up
<1>1. CASE ClientConnect(c)
  BY <1>1 DEF ClientConnect, WsConnect, rtcVars, ClosingInv, HandleInv, OfferInv, AnswerInv
<1>2. CASE ClientConnectFails(c)
  <2>1. FALSE
    BY <1>2 DEF ClientConnectFails, ClosingInv, HandleInv
  <2> QED BY <2>1
<1>3. CASE ClientOpenHandler(c)
  <2> USE <1>3 DEF ClientOpenHandler, WsClientOpens, create_offer_sdp
  <2>1. ClosingInv(c)'
    BY DEF ClosingInv, HandleInv
  <2>2. HandleInv(c)'
    BY DEF HandleInv
  <2>3. OfferInv(c)'
    BY DEF HandleInv, OfferInv
  <2>4. AnswerInv(c)'
    <3>1. sig[Server] = "none"
      BY DEF ClosingInv, HandleInv, OfferInv, PcHeld
    <3> QED BY <3>1 DEF HandleInv, AnswerInv
  <2> QED BY <2>1, <2>2, <2>3, <2>4
<1>4. CASE ClientMessageHandler(c)
  <2> DEFINE m == Head(toC[c])
  <2>1. /\ UNCHANGED <<wsC, wsS, toS, main, csd, peer_connection, data_channel, dcState>>
        /\ ws_hdl_' = [ws_hdl_ EXCEPT ![c] = c]
        /\ wsC[c] = "open" /\ toC[c] # <<>> /\ toC'[c] = Tail(toC[c])
    BY <1>4 DEF ClientMessageHandler, push_reply_sdp, push_ice
  <2>2. UNCHANGED stat
    <3>1. peer_connection[c] # Null
      BY <1>4 DEF ClientMessageHandler, Known, NullInv, Handshake, ClientHolds
    <3>2. stat' = [stat EXCEPT ![c] = @]
      BY <1>4, <3>1 DEF ClientMessageHandler, push_reply_sdp, push_ice, Dereferences
    <3> QED BY <3>2
  <2>3. \A n \in Nodes \ {c} : sig'[n] = sig[n]
    BY <1>4 DEF ClientMessageHandler, push_reply_sdp, push_ice
  <2>4. \/ m.type = "ice" /\ sig'[c] = sig[c]
        \/ m.type = "answer" /\ sig'[c] = IF sig[c] = "local" THEN "stable" ELSE sig[c]
    BY <1>4 DEF ClientMessageHandler, push_reply_sdp, push_ice
  <2> HIDE DEF m
  <2>5. sig[Server] = "stable" /\ sig[c] \in {"local", "stable"}
    BY <2>1 DEF AnswerInv, OfferInv, ClosingInv, PcHeld, SigState
  <2>6. sig'[c] = "stable" \/ sig'[c] = sig[c]
    BY <2>4
  <2>7. ClosingInv(c)'
    BY <2>1, <2>2 DEF ClosingInv
  <2>8. HandleInv(c)'
    BY <2>1 DEF HandleInv
  <2>9. OfferInv(c)'
    BY <2>1, <2>5, <2>6 DEF OfferInv
  <2>10. AnswerInv(c)'
    BY <2>1, <2>3, <2>4, <2>5 DEF AnswerInv, m
  <2> QED BY <2>7, <2>8, <2>9, <2>10
<1>5. CASE ClientReadsClose(c)
  <2>1. /\ UNCHANGED <<wsS, toS, rtcVars, ws_hdl_, main>>
        /\ wsC[c] = "open" /\ wsC'[c] = "closing"
        /\ toC[c] # <<>> /\ Head(toC[c]).type = "close"
    BY <1>5 DEF ClientReadsClose
  <2>2. Connected(c)
    BY <2>1 DEF Known, CloseInv, NoClose, ClosingInv
  <2>3. ClosingInv(c)'
    BY <2>1, <2>2 DEF rtcVars, ClosingInv
  <2>4. HandleInv(c)' /\ OfferInv(c)'
    BY <2>1 DEF rtcVars, HandleInv, OfferInv
  <2>5. AnswerInv(c)'
    BY <2>1, <2>2 DEF rtcVars, AnswerInv
  <2> QED BY <2>3, <2>4, <2>5
<1>6. CASE ClientCloseHandler(c)
  <2>1. Connected(c)
    BY <1>6 DEF ClientCloseHandler, ClosingInv
  <2> USE <1>6 DEF ClientCloseHandler, WsClientCloses, rtcVars
  <2>2. ClosingInv(c)'
    BY <2>1 DEF ClosingInv
  <2>3. HandleInv(c)'
    BY DEF HandleInv
  <2>4. OfferInv(c)'
    BY DEF OfferInv
  <2>5. AnswerInv(c)'
    BY <2>1 DEF AnswerInv
  <2> QED BY <2>2, <2>3, <2>4, <2>5
<1> QED BY <1>1, <1>2, <1>3, <1>4, <1>5, <1>6 DEF ClientMain

(***************************************************************************)
(* The client's signaling thread.                                          *)
(***************************************************************************)
LEMMA SoloClientSignaling ==
    ASSUME NEW CONSTANT c, Solo(c), Known, Known', SoloInv(c), ClientSignaling(c)
    PROVE  SoloInv(c)'
<1> USE SoloFacts, KnownFacts DEF SoloInv, Connected, Up
<1>1. ASSUME NEW m, ws_client_send(c, m), c \in csd \/ sig[c] # "none"
      PROVE  \/ wsC[c] = "open" /\ UNCHANGED stat /\ toS'[c] = Append(toS[c], m)
             \/ Connected(c) /\ stat' = [stat EXCEPT ![c] = "abort"] /\ UNCHANGED toS
  BY <1>1 DEF ws_client_send, Dies, HandleInv, ClosingInv
<1>2. CASE ClientOnSdp(c)
  <2> DEFINE m == FrameOf("offer", c)
  <2>1. /\ UNCHANGED <<wsC, wsS, toC, ws_hdl_, main, peer_connection, data_channel, dcState>>
        /\ c \in csd /\ csd' = csd \ {c} /\ sig[c] = "none" /\ toS[c] = <<>>
        /\ sig' = [sig EXCEPT ![c] = "local"]
        /\ peer_connection[Server] = Null
    BY Zenon, <1>2 DEF ClientOnSdp, on_success_csd, OfferInv
  <2>2. ~Connected(c)
    BY <2>1 DEF AnswerInv
  <2>3. UNCHANGED stat /\ toS'[c] = Append(<<>>, m) /\ wsC[c] = "open"
    BY <1>1, <1>2, <2>1, <2>2 DEF ClientOnSdp
  <2>4. ClosingInv(c)' /\ HandleInv(c)'
    BY <2>1, <2>3 DEF ClosingInv, HandleInv
  <2>5. OfferInv(c)'
    <3>1. Len(toS'[c]) = 1
      BY <2>3
    <3> QED BY <2>1, <3>1 DEF OfferInv
  <2>6. AnswerInv(c)'
    <3>1. sig[Server] = "none"
      BY <2>1, <2>2 DEF ClosingInv, PcHeld
    <3> QED BY <2>1, <2>2, <3>1 DEF AnswerInv
  <2> QED BY <2>4, <2>5, <2>6
<1>3. CASE ClientCsdFails(c)
  BY <1>3 DEF ClientCsdFails, on_failure_csd
<1>4. CASE ClientOnIce(c)
  <2> DEFINE m == FrameOf("ice", c)
  <2>1. /\ UNCHANGED <<wsC, wsS, toC, ws_hdl_, main, peer_connection, sig, csd>>
        /\ UNCHANGED <<data_channel, dcState>>
        /\ sig[c] # "none" /\ m.type = "ice"
    BY <1>4 DEF ClientOnIce, on_ice_candidate, FrameOf
  <2>2. \/ UNCHANGED stat /\ toS'[c] = Append(toS[c], m)
        \/ Connected(c) /\ stat' = [stat EXCEPT ![c] = "abort"] /\ UNCHANGED toS
    BY <1>1, <1>4, <2>1 DEF ClientOnIce
  <2> HIDE DEF m
  <2>3. ClosingInv(c)'
    <3>1. \A n \in Nodes : stat'[n] # "up" => stat'[n] = "abort" /\ Connected(c)
      BY <2>2 DEF ClosingInv
    <3> QED BY <2>1, <3>1 DEF ClosingInv
  <2>4. HandleInv(c)' /\ AnswerInv(c)'
    BY <2>1 DEF HandleInv, AnswerInv
  <2>5. OfferInv(c)'
    <3>1. ASSUME toS'[c] = Append(toS[c], m), NEW i \in 1..Len(toS'[c])
          PROVE  toS'[c][i].type = "ice" \/ (i \in 1..Len(toS[c]) /\ toS'[c][i] = toS[c][i])
      BY <2>1, <3>1
    <3>2. ASSUME NEW i \in 1..Len(toS'[c]), toS'[c][i].type = "offer"
          PROVE  i = 1 /\ peer_connection[Server] = Null
      <4>1. CASE toS' = toS
        BY <3>2, <4>1 DEF OfferInv
      <4>2. CASE toS'[c] = Append(toS[c], m)
        <5>1. i \in 1..Len(toS[c]) /\ toS'[c][i] = toS[c][i]
          BY <3>1, <3>2, <4>2
        <5> QED BY <3>2, <5>1 DEF OfferInv
      <4> QED BY <2>2, <4>1, <4>2
    <3> QED BY <2>1, <3>2 DEF OfferInv
  <2> QED BY <2>3, <2>4, <2>5
<1>5. CASE ClientOnOpen(c)
  <2>1. /\ UNCHANGED <<stat, wsVars, ws_hdl_, main, peer_connection, sig, csd, data_channel>>
        /\ sig[Server] = "stable" /\ sig[c] = "stable"
        /\ dcState' = [dcState EXCEPT ![c] = "open"]
    BY <1>5 DEF ClientOnOpen, Reachable, on_state_change
  <2>2. ClosingInv(c)'
    BY <2>1 DEF wsVars, ClosingInv
  <2>3. HandleInv(c)' /\ OfferInv(c)'
    BY <2>1 DEF wsVars, HandleInv, OfferInv
  <2>4. AnswerInv(c)'
    BY <2>1 DEF wsVars, AnswerInv
  <2> QED BY <2>2, <2>3, <2>4
<1>6. CASE ClientOnClosed(c)
  <2>1. /\ UNCHANGED <<stat, wsVars, ws_hdl_, main, peer_connection, sig, csd, data_channel>>
        /\ Connected(c) /\ dcState' = [dcState EXCEPT ![c] = "closed"]
    BY <1>6 DEF ClientOnClosed, on_state_change
  <2>2. ClosingInv(c)'
    BY <2>1 DEF wsVars, ClosingInv
  <2>3. HandleInv(c)' /\ OfferInv(c)'
    BY <2>1 DEF wsVars, HandleInv, OfferInv
  <2>4. AnswerInv(c)'
    BY <2>1 DEF wsVars, AnswerInv
  <2> QED BY <2>2, <2>3, <2>4
<1> QED BY <1>2, <1>3, <1>4, <1>5, <1>6 DEF ClientSignaling

(***************************************************************************)
(* The server's main thread.                                               *)
(***************************************************************************)
LEMMA SoloServerMain ==
    ASSUME NEW CONSTANT c, Solo(c), Known, Known', SoloInv(c), ServerMain(c)
    PROVE  SoloInv(c)'
<1> USE SoloFacts, KnownFacts DEF SoloInv, Connected, Up
<1>1. CASE ServerAccept(c)
  BY <1>1 DEF ServerAccept, WsAccept, rtcVars, ClosingInv, HandleInv, OfferInv, AnswerInv
<1>2. CASE ServerOpenHandler(c)
  BY <1>2 DEF ServerOpenHandler, WsServerOpens, rtcVars, ClosingInv, HandleInv, OfferInv, AnswerInv
<1>3. CASE ServerMessageHandler(c)
  <2> DEFINE m == Head(toS[c])
             q == toS[c]
  <2>1. /\ UNCHANGED <<wsC, wsS, main, data_channel>>
        /\ ws_hdl_' = [ws_hdl_ EXCEPT ![Server] = c]
        /\ Up(Server) /\ wsS[c] = "open" /\ q # <<>> /\ toS'[c] = Tail(q)
    BY <1>3 DEF ServerMessageHandler, create_answer_sdp_exits, create_answer_sdp, Replaces, push_ice
  <2>2. /\ sig[c] # "none" /\ q[1] = m
        /\ \A i \in 1..Len(Tail(q)) : Tail(q)[i].type # "offer"
    <3>1. sig[c] # "none" /\ q[1] = m
      BY <2>1 DEF OfferInv
    <3>2. ASSUME NEW i \in 1..Len(Tail(q))
          PROVE  Tail(q)[i] = q[i + 1] /\ i + 1 \in 1..Len(q) /\ i + 1 # 1
      BY <2>1
    <3>3. \A j \in 1..Len(q) : j # 1 => q[j].type # "offer"
      BY DEF OfferInv
    <3> QED BY <3>1, <3>2, <3>3
  <2>3. CASE m.type = "ice"
    <3>1. push_ice(Server, m.pc) /\ UNCHANGED toC
      BY <1>3, <2>3 DEF ServerMessageHandler
    <3>2. peer_connection[Server] # Null
      BY <2>1, <2>3 DEF Known, NullInv, Handshake, OfferFirst
    <3>3. UNCHANGED <<toC, peer_connection, sig, csd, dcState, stat>>
      BY <3>1, <3>2 DEF push_ice, Dereferences
    <3>4. ClosingInv(c)' /\ AnswerInv(c)'
      BY <2>1, <3>3 DEF ClosingInv, AnswerInv
    <3>5. HandleInv(c)'
      BY <2>1, <3>3 DEF HandleInv
    <3>6. OfferInv(c)'
      BY <2>1, <2>2, <3>3 DEF OfferInv
    <3> QED BY <3>4, <3>5, <3>6
  <2>4. CASE m.type = "offer"
    <3>1. peer_connection[Server] = Null /\ Server \notin csd /\ sig[Server] = "none"
      BY <2>1, <2>2, <2>4 DEF OfferInv, PcHeld
    <3>2. ~Connected(c)
      BY <3>1 DEF AnswerInv
    <3>3. data_channel[Server] = Null /\ dcState[Server] = "none"
      BY <3>2 DEF ClosingInv
    <3>4. /\ UNCHANGED <<stat, toC>>
          /\ create_answer_sdp(Server, m.pc)
      BY <1>3, <2>4, <3>1 DEF ServerMessageHandler, create_answer_sdp_exits, StaleAnswer
    <3>5. /\ dcState' = [dcState EXCEPT ![Server] = "none"]
          /\ peer_connection'[c] = peer_connection[c]
          /\ sig' = [sig EXCEPT ![Server] = "remote"]
          /\ csd' = csd \cup {Server}
      BY <3>3, <3>4 DEF create_answer_sdp, Replaces
    <3>6. ClosingInv(c)'
      BY <2>1, <3>3, <3>4, <3>5 DEF ClosingInv
    <3>7. HandleInv(c)'
      BY <2>1, <3>5 DEF HandleInv
    <3>8. OfferInv(c)'
      BY <2>1, <2>2, <3>5 DEF OfferInv
    <3>9. AnswerInv(c)'
      BY <2>1, <3>1, <3>2, <3>4, <3>5 DEF AnswerInv
    <3> QED BY <3>6, <3>7, <3>8, <3>9
  <2> QED BY <1>3, <2>3, <2>4 DEF ServerMessageHandler
<1>4. CASE ServerCloseHandler(c)
  <2>1. Connected(c)
    BY <1>4 DEF ServerCloseHandler, ClosingInv
  <2> USE <1>4 DEF ServerCloseHandler, WsServerCloses, rtcVars
  <2>2. ClosingInv(c)'
    BY <2>1 DEF ClosingInv
  <2>3. HandleInv(c)'
    BY DEF HandleInv
  <2>4. OfferInv(c)'
    BY DEF OfferInv
  <2>5. AnswerInv(c)'
    BY DEF AnswerInv
  <2> QED BY <2>2, <2>3, <2>4, <2>5
<1> QED BY <1>1, <1>2, <1>3, <1>4 DEF ServerMain

(***************************************************************************)
(* The server's signaling thread.                                          *)
(***************************************************************************)
LEMMA SoloServerSignaling ==
    ASSUME NEW CONSTANT c, Solo(c), Known, Known', SoloInv(c), ServerSignaling
    PROVE  SoloInv(c)'
<1> USE SoloFacts, KnownFacts DEF SoloInv, Connected, Up
<1>1. ASSUME Up(Server), Server \in csd \/ sig[Server] # "none"
      PROVE  /\ peer_connection[Server] = c /\ ws_hdl_[Server] = c
             /\ wsS[c] # "open" => Connected(c)
  BY <1>1 DEF PcHeld, HandleInv, ClosingInv
<1>2. CASE ServerOnSdp
  <2> DEFINE m == FrameOf("answer", c)
  <2>1. /\ UNCHANGED <<wsC, wsS, toS, ws_hdl_, main, peer_connection, data_channel, dcState>>
        /\ Up(Server) /\ Server \in csd /\ csd' = csd \ {Server}
        /\ sig[Server] = "remote" /\ sig' = [sig EXCEPT ![Server] = "stable"]
        /\ m.type = "answer"
    BY Zenon, <1>2 DEF ServerOnSdp, on_success_csd, AnswerInv, FrameOf
  <2>2. ~Connected(c) /\ toC[c] = <<>>
    BY <2>1 DEF AnswerInv
  <2>3. UNCHANGED stat /\ toC'[c] = Append(<<>>, m)
    BY <1>1, <1>2, <2>1, <2>2 DEF ServerOnSdp, ws_server_send
  <2> HIDE DEF m
  <2>4. toC'[c] # <<>> /\ Head(toC'[c]).type = "answer"
    BY <2>1, <2>3
  <2>5. ClosingInv(c)'
    BY <2>1, <2>3 DEF ClosingInv
  <2>6. HandleInv(c)' /\ OfferInv(c)'
    BY <2>1 DEF HandleInv, OfferInv
  <2>7. AnswerInv(c)'
    BY <2>1, <2>2, <2>4 DEF AnswerInv
  <2> QED BY <2>5, <2>6, <2>7
<1>3. CASE ServerCsdFails
  BY <1>3 DEF ServerCsdFails, on_failure_csd
<1>4. CASE ServerOnIce
  <2> DEFINE m == FrameOf("ice", c)
  <2>1. /\ UNCHANGED <<wsC, wsS, toS, ws_hdl_, main, peer_connection, sig, csd>>
        /\ UNCHANGED <<data_channel, dcState>>
        /\ Up(Server) /\ sig[Server] \in {"local", "stable"}
    BY <1>4 DEF ServerOnIce, on_ice_candidate
  <2>2. m \in Frame
    BY FrameTyping
  <2>3. \/ UNCHANGED stat /\ toC'[c] = Append(toC[c], m)
        \/ Connected(c) /\ stat' = [stat EXCEPT ![Server] = "abort"] /\ UNCHANGED toC
    BY <1>1, <1>4, <2>1 DEF ServerOnIce, ws_server_send, Dies
  <2> HIDE DEF m
  <2>4. toC[c] # <<>> => toC'[c] # <<>> /\ Head(toC'[c]) = Head(toC[c])
    <3>1. CASE toC'[c] = Append(toC[c], m)
      BY <2>2, <3>1, AppendFacts
    <3> QED BY <2>3, <3>1
  <2>5. ClosingInv(c)'
    <3>1. \A n \in Nodes : stat'[n] # "up" => stat'[n] = "abort" /\ Connected(c)
      BY <2>3 DEF ClosingInv
    <3> QED BY <2>1, <3>1 DEF ClosingInv
  <2>6. HandleInv(c)' /\ OfferInv(c)'
    BY <2>1 DEF HandleInv, OfferInv
  <2>7. AnswerInv(c)'
    <3>1. sig[Server] = "stable"
      BY <2>1 DEF AnswerInv
    <3> QED BY <2>1, <2>4, <3>1 DEF AnswerInv
  <2> QED BY <2>5, <2>6, <2>7
<1>5. CASE ServerOnDataChannel
  <2>1. /\ UNCHANGED <<stat, wsVars, ws_hdl_, main, peer_connection, sig, csd>>
        /\ Connected(c)
        /\ dcState' = [dcState EXCEPT ![Server] = "connecting"]
    BY <1>1, <1>5 DEF ServerOnDataChannel, OnDataChannel
  <2>2. ClosingInv(c)'
    BY <2>1 DEF wsVars, ClosingInv
  <2>3. HandleInv(c)' /\ OfferInv(c)' /\ AnswerInv(c)'
    BY <2>1 DEF wsVars, HandleInv, OfferInv, AnswerInv
  <2> QED BY <2>2, <2>3
<1>6. CASE ServerOnOpen
  <2>1. /\ UNCHANGED <<wsC, toS, ws_hdl_, main, peer_connection, sig, csd, data_channel>>
        /\ Connected(c)
        /\ dcState' = [dcState EXCEPT ![Server] = "open"]
    BY <1>6 DEF ServerOnOpen, on_state_change, ClosingInv
  <2>2. Up(Server) /\ sig[Server] = "stable" /\ sig[c] = "stable"
    BY <1>6, <2>1 DEF ServerOnOpen, AnswerInv
  <2>3. /\ UNCHANGED stat \/ stat' = [stat EXCEPT ![Server] = "abort"]
        /\ UNCHANGED wsS \/ wsS'[c] = "closing"
    BY <1>1, <1>6, <2>2 DEF ServerOnOpen, on_success, Dies
  <2>4. ClosingInv(c)'
    <3>1. \A n \in Nodes : stat'[n] # "up" => stat'[n] = "abort"
      BY <2>3 DEF ClosingInv
    <3> QED BY <2>1, <3>1 DEF ClosingInv
  <2>5. HandleInv(c)'
    BY <2>1, <2>3 DEF HandleInv
  <2>6. OfferInv(c)' /\ AnswerInv(c)'
    BY <2>1, <2>2 DEF OfferInv, AnswerInv
  <2> QED BY <2>4, <2>5, <2>6
<1>7. CASE ServerOnClosed
  <2>1. /\ UNCHANGED <<stat, wsVars, ws_hdl_, main, peer_connection, sig, csd, data_channel>>
        /\ Connected(c) /\ dcState' = [dcState EXCEPT ![Server] = "closed"]
    BY <1>7 DEF ServerOnClosed, on_state_change, ClosingInv
  <2> QED BY <2>1 DEF wsVars, ClosingInv, HandleInv, OfferInv, AnswerInv
<1> QED BY <1>2, <1>3, <1>4, <1>5, <1>6, <1>7 DEF ServerSignaling

LEMMA SoloStep ==
    ASSUME NEW CONSTANT c, Solo(c)
    PROVE  Known /\ Known' /\ SoloInv(c) /\ [Next]_vars => SoloInv(c)'
<1> SUFFICES ASSUME Known, Known', SoloInv(c), [Next]_vars
             PROVE  SoloInv(c)'
  OBVIOUS
<1>1. CASE UNCHANGED vars
  BY <1>1 DEF vars, wsVars, rtcVars, SoloInv, ClosingInv, HandleInv, OfferInv, AnswerInv, Connected
<1>2. \A n \in Nodes : ~Kill(n)
  BY SoloFacts DEF Kill
<1>3. CASE Next
  BY <1>2, <1>3, SoloFacts, SoloClientMain, SoloClientSignaling, SoloServerMain,
     SoloServerSignaling DEF Next
<1> QED BY <1>1, <1>3

LEMMA SoloInvariance ==
    ASSUME NEW CONSTANT c, Solo(c)
    PROVE  Spec => []SoloInv(c)
<1>1. Init => SoloInv(c)
  BY SoloInit
<1> QED BY <1>1, SoloStep, KnownInvariance, PTL DEF Spec

(***************************************************************************)
(* With one client and no outside failure, the client's main thread leaves *)
(* the WebSocketClientManager constructor only after its data channel has  *)
(* opened, as client.cpp:61 promises.                                      *)
(***************************************************************************)
THEOREM BlockedUntilConnected ==
    ASSUME NEW CONSTANT c, Solo(c)
    PROVE  Spec => []HeldUntilConnected
<1>1. SoloInv(c) => HeldUntilConnected
  BY SoloFacts DEF SoloInv, ClosingInv, HeldUntilConnected
<1> QED BY <1>1, SoloInvariance, PTL

(***************************************************************************)
(* With one client and no outside failure, no send throws, hence no        *)
(* process dies, before the data channel has opened.                       *)
(***************************************************************************)
THEOREM SendsSafeUntilConnected ==
    ASSUME NEW CONSTANT c, Solo(c)
    PROVE  Spec => []NoAbortBeforeConnected
<1>1. SoloInv(c) => NoAbortBeforeConnected
  BY SoloFacts DEF SoloInv, ClosingInv, NoAbortBeforeConnected
<1> QED BY <1>1, SoloInvariance, PTL

(***************************************************************************)
(* With one client and no outside failure, push_ice never meets a peer     *)
(* connection that still lacks its remote description, at the client.      *)
(***************************************************************************)
THEOREM CandidatesFollowAnswer ==
    ASSUME NEW CONSTANT c, Solo(c)
    PROVE  Spec => []NoEarlyCandidate
<1>1. SoloInv(c) => NoEarlyCandidate
  BY SoloFacts DEF SoloInv, AnswerInv, NoEarlyCandidate
<1> QED BY <1>1, SoloInvariance, PTL
=============================================================================
