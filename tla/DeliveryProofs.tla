--------------------------- MODULE DeliveryProofs ---------------------------
(***************************************************************************)
(* What is delivered, and how often: an answer at most once, and a line    *)
(* while the data channel is up.  Both follow from where the token of a    *)
(* session can be.                                                         *)
(***************************************************************************)
EXTENDS TokenProofs, SessionProofs, ShutdownProofs, FiniteSetTheorems

(***************************************************************************)
(* The token is in one place, so the sets that OneAnswerPerOffer counts    *)
(* have one element between them.                                          *)
(***************************************************************************)
LEMMA AtMostOneCard ==
    ASSUME NEW S, \A x, y \in S : x = y
    PROVE  Cardinality(S) = IF S = {} THEN 0 ELSE 1
<1>1. S = {} => Cardinality(S) = 0
  BY FS_EmptySet
<1>2. ASSUME NEW x \in S
      PROVE  Cardinality(S) = 1
  <2>1. S = {x}
    BY <1>2
  <2> QED BY <2>1, FS_Singleton
<1> QED BY <1>1, <1>2

LEMMA TokenCount == TokenInv => OneAnswerPerOffer
<1> SUFFICES ASSUME TokenInv, NEW s \in Clients
             PROVE  LET queued == UNION {{<<c, i>> : i \in AnswersIn(toC[c], s)} : c \in Clients}
                        applied == {c \in Clients : remote[c] = s}
                        making == IF Server \in csd /\ peer_connection[Server] = s THEN 1 ELSE 0
                    IN  Cardinality(queued) + Cardinality(applied) + making <= 1
  BY DEF OneAnswerPerOffer
<1> DEFINE queued == UNION {{<<c, i>> : i \in AnswersIn(toC[c], s)} : c \in Clients}
           applied == {c \in Clients : remote[c] = s}
           a == FrameOf("answer", s)
<1>1. AnswerToken(s)
  BY DEF TokenInv
<1>2. \A x \in queued : \E c \in Clients : \E i \in 1..Len(toC[c]) : x = <<c, i>> /\ toC[c][i] = a
  <2> SUFFICES ASSUME NEW c \in Clients, NEW i \in AnswersIn(toC[c], s)
               PROVE  i \in 1..Len(toC[c]) /\ toC[c][i] = a
    OBVIOUS
  <2> QED BY DEF AnswersIn
<1> HIDE DEF a
<1>3. \A x, y \in queued : x = y
  <2> SUFFICES ASSUME NEW x \in queued, NEW y \in queued
               PROVE  x = y
    OBVIOUS
  <2>1. PICK c \in Clients : \E i \in 1..Len(toC[c]) : x = <<c, i>> /\ toC[c][i] = a
    BY <1>2
  <2>2. PICK d \in Clients : \E j \in 1..Len(toC[d]) : y = <<d, j>> /\ toC[d][j] = a
    BY <1>2
  <2> HIDE DEF queued
  <2>3. Has(toC[c], a) /\ Has(toC[d], a)
    BY Zenon, <2>1, <2>2 DEF Has
  <2>4. c = d
    BY Zenon, <1>1, <2>3 DEF AnswerToken, a
  <2>5. AtMostOne(toC[c], a)
    BY Zenon, <1>1 DEF AnswerToken, a
  <2> QED BY Zenon, <2>1, <2>2, <2>4, <2>5 DEF AtMostOne
<1>4. \A x, y \in applied : x = y
  BY Zenon, <1>1 DEF AnswerToken
<1>5. queued # {} => \E c \in Clients : Has(toC[c], a)
  BY Zenon, <1>2 DEF Has
<1>6. applied # {} => \E c \in Clients : remote[c] = s
  OBVIOUS
<1> HIDE DEF queued, applied
<1>7. ~(queued # {} /\ applied # {})
  BY Zenon, <1>1, <1>5, <1>6 DEF AnswerToken, a
<1>8. Answering(s) => queued = {} /\ applied = {}
  BY Zenon, <1>1, <1>5, <1>6 DEF AnswerToken, a
<1>9. /\ Cardinality(queued) = IF queued = {} THEN 0 ELSE 1
      /\ Cardinality(applied) = IF applied = {} THEN 0 ELSE 1
  BY <1>3, <1>4, AtMostOneCard
<1>10. Cardinality(queued) + Cardinality(applied)
         + (IF Server \in csd /\ peer_connection[Server] = s THEN 1 ELSE 0) <= 1
  BY <1>7, <1>8, <1>9 DEF Answering
<1> QED BY <1>10 DEF queued, applied

(***************************************************************************)
(* However many clients connect, whatever fails and in whatever order the  *)
(* handlers of the two programs run: an offer is answered at most once,    *)
(* and the answer is applied by at most one client (create_answer_sdp,     *)
(* webrtc_manager.h:308, may replace the peer connection while the answer  *)
(* to an earlier offer is being made).                                     *)
(***************************************************************************)
THEOREM AnsweredOnce == Spec => []OneAnswerPerOffer
<1>1. Init => TypeInv /\ TokenInv
  BY TypeInvInit, TokenInvInit
<1>2. (TypeInv /\ TokenInv) /\ [Next]_vars => (TypeInv /\ TokenInv)'
  BY TypeInvStep, TokenInvStep
<1> QED BY <1>1, <1>2, TokenCount, PTL DEF Spec

-----------------------------------------------------------------------------
(***************************************************************************)
(* The tokens of TokenProofs: the ending steps make none.                  *)
(***************************************************************************)
LEMMA TokenInvEnding ==
    ASSUME TypeInv, TokenInv, Ending
    PROVE  TokenInv'
<1>1. NoNewFrames
  <2>1. \A c \in Clients : Quiet(toS[c], toS'[c]) /\ Quiet(toC[c], toC'[c])
    BY EndingEffects DEF Quiet
  <2> QED BY <2>1, QuietFrames
<1>2. NoNewRequests
  <2>1. \A s \in Clients : Unasked(s)' => Unasked(s)
    BY EndingEffects DEF Unasked
  <2>2. \A s \in Clients : peer_connection'[Server] = s => peer_connection[Server] = s
    BY EndingEffects, NodeFacts
  <2> QED BY <2>1, <2>2, EndingEffects DEF NoNewRequests
<1> QED BY <1>1, <1>2, TokensKept

LEMMA SessionTokenInvStep == TypeInv /\ TokenInv /\ [SessionNext]_allVars => TokenInv'
  BY SessionMoves, TokenInvStep, TokenInvEnding

(***************************************************************************)
(* NothingLost follows from EchoInv as long as the server has not cut the  *)
(* channel.  What is missing is that a session whose channel was cut never *)
(* comes back: its one offer has been used, so the server never holds a    *)
(* peer connection for it again, and the channel it still refers to is     *)
(* closed.                                                                 *)
(***************************************************************************)
Spent(s) ==
    /\ ~Unasked(s) /\ s \notin csd
    /\ \A c \in Clients : ~Has(toS[c], FrameOf("offer", s))

CutInv ==
    \A s \in Clients :
        /\ data_channel[Server] = s \/ s \in cut => Spent(s)
        /\ s \in cut /\ data_channel[Server] = s => dcState[Server] = "closed"
        /\ s \in cut /\ peer_connection[Server] = s => data_channel[Server] = s

(***************************************************************************)
(* An offer is requested when the connection opens, and is on the stream   *)
(* only once it has been requested.                                        *)
(***************************************************************************)
LEMMA OfferMoves ==
    ASSUME TypeInv, [Next]_vars \/ Ending, NEW s \in Clients
    PROVE  /\ Unasked(s)' => Unasked(s)
           /\ s \in csd' => s \in csd \/ Unasked(s)
           /\ \A d \in Clients : Has(toS'[d], FrameOf("offer", s))
                                 => Has(toS[d], FrameOf("offer", s)) \/ s \in csd
<1> DEFINE o == FrameOf("offer", s)
           Goal == /\ Unasked(s)' => Unasked(s)
                   /\ s \in csd' => s \in csd \/ Unasked(s)
                   /\ \A d \in Clients : Has(toS'[d], o) => Has(toS[d], o) \/ s \in csd
<1> SUFFICES Goal
  OBVIOUS
<1> USE NodeFacts, Domains
<1>1. ASSUME UNCHANGED <<wsC, toS>>, csd' \subseteq csd \cup {Server}
      PROVE  Goal
  BY <1>1 DEF Unasked
<1>2. CASE Ending
  <2>1. csd' \subseteq csd /\ UNCHANGED toS /\ (Unasked(s)' => Unasked(s))
    BY EndingEffects, <1>2 DEF Unasked
  <2> QED BY <2>1
<1>3. ASSUME NEW c \in Clients, ClientConnect(c) \/ ClientMain(c)
      PROVE  Goal
  <2>1. CASE ClientOpenHandler(c)
    <3>1. /\ wsC[c] = "connecting" /\ wsC' = [wsC EXCEPT ![c] = "open"] /\ UNCHANGED toS
          /\ csd' \subseteq csd \cup {c}
      BY <2>1 DEF ClientOpenHandler, WsClientOpens, create_offer_sdp, DiesAt
    <3> QED BY <3>1 DEF Unasked
  <2>2. CASE ClientMessageHandler(c)
    <3>1. UNCHANGED <<wsC, toS, csd>>
      BY <2>2 DEF ClientMessageHandler, push_reply_sdp, push_ice, DiesAt
    <3> QED BY <1>1, <3>1
  <2>3. CASE ClientConnect(c)
    BY <2>3 DEF ClientConnect, WsConnect, rtcVars, Unasked
  <2>4. CASE ClientConnectFails(c) \/ ClientReadsClose(c) \/ ClientCloseHandler(c)
    <3>1. UNCHANGED <<toS, csd>> /\ \E w \in {"closing", "closed"} : wsC' = [wsC EXCEPT ![c] = w]
      BY <2>4 DEF ClientConnectFails, ClientReadsClose, ClientCloseHandler, WsClientCloses, rtcVars
    <3> QED BY <3>1 DEF Unasked
  <2> QED BY <1>3, <2>1, <2>2, <2>3, <2>4 DEF ClientMain
<1>4. ASSUME NEW c \in Clients, ClientSignaling(c)
      PROVE  Goal
  <2>1. CASE ClientCsdFails(c) \/ ClientOnOpen(c) \/ ClientOnClosed(c)
    <3>1. UNCHANGED <<wsC, toS>> /\ csd' \subseteq csd
      BY <2>1 DEF ClientCsdFails, ClientOnOpen, ClientOnClosed, on_failure_csd, on_state_change, wsVars
    <3> QED BY <1>1, <3>1
  <2>2. ASSUME NEW k \in {"offer", "ice"}, ws_client_send(c, FrameOf(k, c)), UNCHANGED wsC,
               csd' \subseteq csd, k = "offer" => c \in csd
        PROVE  Goal
    <3> DEFINE m == FrameOf(k, c)
    <3>1. m \in Frame /\ (m = o => s = c /\ k = "offer")
      BY FrameTyping, FrameFacts
    <3>2. UNCHANGED toS \/ toS' = [toS EXCEPT ![c] = Append(@, m)]
      BY <2>2 DEF ws_client_send
    <3> HIDE DEF m, o
    <3>3. Has(Append(toS[c], m), o) => Has(toS[c], o) \/ m = o
      BY Zenon, <3>1, HasFacts
    <3> QED BY <2>2, <3>1, <3>2, <3>3 DEF Unasked
  <2>3. CASE ClientOnSdp(c)
    BY <2>2, <2>3 DEF ClientOnSdp, on_success_csd
  <2>4. CASE ClientOnIce(c)
    BY <2>2, <2>4 DEF ClientOnIce, on_ice_candidate
  <2> QED BY <1>4, <2>1, <2>3, <2>4 DEF ClientSignaling
<1>5. ASSUME NEW c \in Clients, ServerMain(c)
      PROVE  Goal
  <2>1. UNCHANGED wsC /\ csd' \subseteq csd \cup {Server}
    BY <1>5 DEF ServerMain, ServerAccept, ServerOpenHandler, ServerMessageHandler, ServerCloseHandler,
                WsAccept, WsServerOpens, WsServerCloses, rtcVars, create_answer_sdp_exits,
                create_answer_sdp, push_ice, DiesAt
  <2>2. \A d \in Clients : Quiet(toS[d], toS'[d])
    <3>1. \/ UNCHANGED toS
          \/ toS' = [toS EXCEPT ![c] = <<>>]
          \/ toS[c] # <<>> /\ toS' = [toS EXCEPT ![c] = Tail(@)]
      BY Zenon, <1>5 DEF ServerMain, ServerAccept, ServerOpenHandler, ServerMessageHandler,
                         ServerCloseHandler, WsAccept, WsServerOpens, WsServerCloses
    <3> QED BY <3>1 DEF Quiet
  <2>3. \A d \in Clients : Has(toS'[d], o) => Has(toS[d], o)
    BY Zenon, <2>2, QuietStream
  <2> QED BY <2>1, <2>3 DEF Unasked
<1>6. CASE ServerSignaling
  <2>1. UNCHANGED <<wsC, toS>> /\ csd' \subseteq csd
    BY <1>6 DEF ServerSignaling, ServerOnSdp, ServerCsdFails, ServerOnIce, ServerOnDataChannel,
                ServerOnOpen, ServerOnClosed, on_success_csd, on_failure_csd, on_ice_candidate,
                OnDataChannel, on_state_change, wsVars
  <2> QED BY <1>1, <2>1
<1>7. ASSUME NEW n \in Nodes, Kill(n)
      PROVE  Goal
  BY <1>1, <1>7 DEF Kill, DiesAt, wsVars
<1>8. CASE UNCHANGED vars
  BY <1>1, <1>8 DEF vars, wsVars, rtcVars
<1> HIDE DEF Goal
<1> QED BY <1>2, <1>3, <1>4, <1>5, <1>6, <1>7, <1>8 DEF Next

LEMMA SpentStays ==
    ASSUME TypeInv, [Next]_vars \/ Ending, NEW s \in Clients, Spent(s)
    PROVE  Spent(s)'
  BY OfferMoves DEF Spent

(***************************************************************************)
(* A step that leaves the server's end of the session alone, as every step *)
(* of a client does.                                                       *)
(***************************************************************************)
EndKept ==
    /\ data_channel'[Server] = data_channel[Server]
    /\ dcState'[Server] = dcState[Server]
    /\ peer_connection'[Server] = peer_connection[Server]

LEMMA CutKept ==
    ASSUME TypeInv, CutInv, [Next]_vars \/ Ending, UNCHANGED cut, EndKept
    PROVE  CutInv'
  BY SpentStays DEF CutInv, EndKept

LEMMA ClientKeepsEnd ==
    ASSUME TypeInv, NEW c \in Clients,
           ClientConnect(c) \/ ClientMain(c) \/ ClientSignaling(c)
    PROVE  EndKept
<1> USE NodeFacts, Domains DEF EndKept
<1>1. ASSUME UNCHANGED <<data_channel, dcState, peer_connection>>
      PROVE  EndKept
  BY <1>1
<1>2. ASSUME create_offer_sdp(c)
      PROVE  EndKept
  BY <1>2 DEF create_offer_sdp, DiesAt
<1>3. ASSUME NEW new, on_state_change(c, new)
      PROVE  EndKept
  BY <1>3 DEF on_state_change
<1> HIDE DEF EndKept
<1>4. CASE ClientConnect(c) \/ ClientMain(c)
  BY <1>1, <1>2, <1>4 DEF ClientConnect, ClientMain, ClientConnectFails, ClientOpenHandler,
     ClientMessageHandler, ClientReadsClose, ClientCloseHandler, push_reply_sdp, push_ice, DiesAt, rtcVars
<1>5. CASE ClientSignaling(c)
  BY <1>1, <1>3, <1>5 DEF ClientSignaling, ClientOnSdp, ClientCsdFails, ClientOnIce, ClientOnOpen,
     ClientOnClosed, on_success_csd, on_failure_csd, on_ice_candidate
<1> QED BY <1>4, <1>5

(***************************************************************************)
(* The steps of the server's own threads: a new peer connection, a new     *)
(* data channel, and the states of the channel.                            *)
(***************************************************************************)
LEMMA CutServer ==
    ASSUME TypeInv, TokenInv, CutInv, UNCHANGED cut,
           ServerSignaling \/ \E c \in Clients : ServerMain(c)
    PROVE  CutInv'
<1> USE NodeFacts, Domains
<1>1. \A s \in Clients : Spent(s) => Spent(s)'
  BY SpentStays DEF Next
<1>2. ASSUME EndKept PROVE CutInv'
  BY <1>1, <1>2 DEF CutInv, EndKept
<1>3. ASSUME NEW c \in Clients, ServerMessageHandler(c)
      PROVE  CutInv'
  <2> DEFINE m == Head(toS[c])
  <2>1. m \in Frame /\ toS[c] # <<>> /\ toS[c] \in Seq(Frame)
    BY <1>3, StreamTyping DEF ServerMessageHandler
  <2>2. CASE push_ice(Server, m.pc)
    BY <1>2, <2>2 DEF push_ice, DiesAt, EndKept
  <2>3. CASE m.type = "offer"
    <3>1. m = FrameOf("offer", m.pc) /\ m.pc \in Clients
      BY <2>1, <2>3, FrameFacts DEF Frame
    <3>2. Has(toS[c], m)
      BY Zenon, <2>1, HasFacts
    <3> HIDE DEF m
    <3>3. ~Spent(m.pc)
      BY <3>1, <3>2 DEF Spent
    <3>4. /\ UNCHANGED data_channel
          /\ peer_connection'[Server] = Null \/ peer_connection'[Server] = m.pc
          /\ dcState'[Server] = dcState[Server] \/ dcState'[Server] = "closed"
      BY <1>3, <2>3 DEF ServerMessageHandler, create_answer_sdp_exits, create_answer_sdp, Replaces, m
    <3> QED BY <1>1, <3>1, <3>3, <3>4 DEF CutInv
  <2> QED BY Zenon, <1>3, <2>2, <2>3 DEF ServerMessageHandler
<1>4. CASE ServerOnDataChannel
  <2> DEFINE p == peer_connection[Server]
  <2>1. /\ UNCHANGED <<peer_connection, csd>> /\ data_channel[Server] # p
        /\ data_channel'[Server] = p /\ dcState'[Server] = "connecting"
    BY <1>4 DEF ServerOnDataChannel, OnDataChannel
  <2>2. p \in Clients => Spent(p)
    BY Zenon DEF TokenInv, OfferToken, Answered, Spent
  <2> HIDE DEF p
  <2>3. p \in Clients => p \notin cut
    BY <2>1 DEF CutInv, p
  <2> QED BY <1>1, <2>1, <2>2, <2>3 DEF CutInv, p
<1>5. CASE ServerOnOpen
  <2>1. /\ UNCHANGED <<peer_connection, data_channel>> /\ dcState[Server] = "connecting"
    BY <1>5 DEF ServerOnOpen, on_state_change
  <2> QED BY <1>1, <2>1 DEF CutInv
<1>6. CASE ServerOnClosed
  <2>1. /\ UNCHANGED <<peer_connection, data_channel>> /\ dcState'[Server] = "closed"
    BY <1>6 DEF ServerOnClosed, on_state_change
  <2> QED BY <1>1, <2>1 DEF CutInv
<1>7. CASE ServerOnSdp \/ ServerCsdFails \/ ServerOnIce
  <2>1. EndKept
    BY <1>7 DEF ServerOnSdp, ServerCsdFails, ServerOnIce, on_success_csd, on_failure_csd,
                on_ice_candidate, EndKept
  <2> QED BY <1>2, <2>1
<1>8. ASSUME NEW c \in Clients, ServerAccept(c) \/ ServerOpenHandler(c) \/ ServerCloseHandler(c)
      PROVE  CutInv'
  <2>1. EndKept
    BY <1>8 DEF ServerAccept, ServerOpenHandler, ServerCloseHandler, rtcVars, EndKept
  <2> QED BY <1>2, <2>1
<1> QED BY <1>3, <1>4, <1>5, <1>6, <1>7, <1>8 DEF ServerMain, ServerSignaling

(***************************************************************************)
(* The ending steps: the server cuts the channel it holds, and closes it.  *)
(***************************************************************************)
LEMMA CutEnding ==
    ASSUME TypeInv, CutInv, Ending
    PROVE  CutInv'
<1> USE NodeFacts, Domains
<1>1. \A s \in Clients : Spent(s) => Spent(s)'
  BY SpentStays
<1>2. ASSUME EndKept, UNCHANGED cut PROVE CutInv'
  BY <1>1, <1>2 DEF CutInv, EndKept
<1>3. ASSUME NEW c \in Clients, ClientRefused(c) \/ DanglingCallback(c) \/ ReleaseConnection(c)
      PROVE  CutInv'
  BY <1>2, <1>3
  DEF ClientRefused, DanglingCallback, ReleaseConnection, DiesAt, rtcVars, sessionVars, EndKept
<1>4. ASSUME NEW c \in Clients, ClientTypes(c) \/ ClientExit(c)
      PROVE  CutInv'
  <2>1. Sends(c, up[c]) /\ UNCHANGED cut
    BY <1>4 DEF ClientTypes, ClientExit, client_send
  <2>2. EndKept
    BY <2>1 DEF Sends, EndKept
  <2> QED BY <1>2, <2>1, <2>2
<1>5. ASSUME NEW n \in Nodes, quit(n), UNCHANGED cut
      PROVE  CutInv'
  <2>1. CASE n # Server
    BY <1>2, <1>5, <2>1 DEF quit, EndKept
  <2>2. CASE n = Server
    BY <1>1, <1>5, <2>2 DEF quit, CutInv
  <2> QED BY <2>1, <2>2
<1>6. ASSUME NEW n \in Nodes, Quit(n) \/ Returns(n)
      PROVE  CutInv'
  BY <1>2, <1>5, <1>6 DEF Quit, Returns, DiesAt, sessionVars, EndKept
<1>7. ASSUME NEW c \in Clients, ServerOnMessage(c)
      PROVE  CutInv'
  <2>1. data_channel[Server] = c /\ dcState[Server] = "open"
    BY <1>7 DEF ServerOnMessage
  <2>2. CASE stop_listening /\ UNCHANGED cut
    BY <1>2, <2>2 DEF stop_listening, EndKept
  <2>3. ASSUME NEW m, server_send(c, m)
        PROVE  CutInv'
    <3>1. UNCHANGED <<data_channel, peer_connection>>
      BY <2>3 DEF server_send, Sends
    <3>2. \/ UNCHANGED cut /\ dcState'[Server] = dcState[Server]
          \/ cut' = cut \cup {c} /\ dcState'[Server] = "closed"
      BY <2>1, <2>3 DEF server_send, Sends
    <3> QED BY <1>1, <2>1, <3>1, <3>2 DEF CutInv
  <2> QED BY Zenon, <1>7, <2>2, <2>3 DEF ServerOnMessage
<1> QED BY Zenon, <1>3, <1>4, <1>6, <1>7 DEF Ending

LEMMA CutInvStep == TypeInv /\ TokenInv /\ CutInv /\ [SessionNext]_allVars => CutInv'
<1> SUFFICES ASSUME TypeInv, TokenInv, CutInv, [SessionNext]_allVars PROVE CutInv'
  OBVIOUS
<1>1. CASE [Next]_vars /\ UNCHANGED cut
  <2>1. ASSUME NEW n \in Nodes, Kill(n)
        PROVE  EndKept
    BY <2>1 DEF Kill, DiesAt, EndKept
  <2>2. UNCHANGED vars => EndKept
    BY DEF vars, rtcVars, EndKept
  <2> QED BY <1>1, <2>1, <2>2, CutKept, ClientKeepsEnd, CutServer DEF Next
<1> QED BY <1>1, SessionMoves, CutEnding

(***************************************************************************)
(* However many clients come and go, whatever fails and however small the  *)
(* buffers are: as long as both programs hold an open end of a channel and *)
(* the client has not said "exit", every line that send() put on it is on  *)
(* its way to the server, on its way back, or printed (client.cpp:166,     *)
(* server.cpp:34).                                                         *)
(***************************************************************************)
THEOREM NoLineLost == SessionSpec => []NothingLost
<1>1. SessionInit => TokenInv /\ CutInv
  <2> SUFFICES ASSUME SessionInit PROVE TokenInv /\ CutInv
    OBVIOUS
  <2>1. data_channel[Server] = Null /\ cut = {}
    BY NodeFacts DEF SessionInit, Init, RtcInit
  <2> QED BY <2>1, TokenInvInit, NodeFacts DEF SessionInit, CutInv
<1>2. EchoInv /\ CutInv => NothingLost
  <2> SUFFICES ASSUME EchoInv, CutInv, NEW c \in Clients, Joined(c), prog[c] = "work"
               PROVE  sent[c] = Len(up[c]) + Len(down[c]) + Len(echoed[c])
    BY DEF NothingLost
  <2>1. c \notin cut
    BY DEF CutInv, Joined
  <2>2. sent[c] = Len(echoed[c]) + Len(down[c]) + Len(up[c])
    BY <2>1 DEF EchoInv, NoneMissing
  <2> QED BY <2>2 DEF EchoInv
<1> QED BY <1>1, <1>2, SessionTypeInvariance, SessionTokenInvStep, CutInvStep, EchoInvInit, EchoStep, PTL
        DEF SessionSpec
=============================================================================
