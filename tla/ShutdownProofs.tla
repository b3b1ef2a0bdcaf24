--------------------------- MODULE ShutdownProofs ---------------------------
(***************************************************************************)
(* What holds of Session up to the end of the processes: the types, and    *)
(* that send() and quit() use no null pointer once a client is connected.  *)
(*                                                                         *)
(* A step of Session is a step of Signaling, or of those below.  The       *)
(* invariants of Signaling that the later arguments use are therefore kept *)
(* by the lemmas about Signaling and by what the ending steps do.          *)
(***************************************************************************)
EXTENDS SignalingProofs, Session

Ending ==
    \/ \E c \in Clients : \/ ClientRefused(c) \/ ClientTypes(c) \/ ClientExit(c)
                          \/ DanglingCallback(c) \/ ReleaseConnection(c) \/ ServerOnMessage(c)
    \/ \E n \in Nodes : Quit(n) \/ Returns(n)

LEMMA SessionMoves == [SessionNext]_allVars => ([Next]_vars /\ UNCHANGED cut) \/ Ending
<1> SUFFICES ASSUME [SessionNext]_allVars PROVE ([Next]_vars /\ UNCHANGED cut) \/ Ending
  OBVIOUS
<1> USE NodeFacts
<1>1. CASE UNCHANGED allVars
  BY Zenon, <1>1 DEF allVars, sessionVars
<1>2. ASSUME NEW c \in Clients, ClientInput(c) \/ ClientLeaves(c) \/ ClientCallback(c)
      PROVE  ([Next]_vars /\ UNCHANGED cut) \/ Ending
  BY Zenon, <1>2 DEF Ending, Next, ClientInput, ClientEof, ClientLeaves, ClientCallback, ClientOnMessage,
                    sessionVars
<1>3. ASSUME NEW c \in Clients,
             \/ ClientConnect(c) /\ UNCHANGED sessionVars
             \/ ClientHandshake(c) \/ ClientRefused(c) \/ ServerHandshake(c)
      PROVE  ([Next]_vars /\ UNCHANGED cut) \/ Ending
  BY Zenon, <1>3 DEF Ending, Next, ClientHandshake, ServerHandshake, sessionVars
<1>4. ASSUME ServerCallback \/ ServerLeaves
      PROVE  ([Next]_vars /\ UNCHANGED cut) \/ Ending
  BY Zenon, <1>4 DEF Ending, Next, ServerCallback, ServerLeaves, ServerReturnsFromRun,
                    sessionVars
<1>5. ASSUME NEW n \in Nodes, Kill(n), UNCHANGED sessionVars
      PROVE  ([Next]_vars /\ UNCHANGED cut) \/ Ending
  BY Zenon, <1>5 DEF Next, sessionVars
<1> QED BY Zenon, <1>1, <1>2, <1>3, <1>4, <1>5 DEF SessionNext

(***************************************************************************)
(* What the ending steps change of the variables of Signaling: a client    *)
(* whose connection is refused, or else only the manager of one process.   *)
(***************************************************************************)
LEMMA EndingKinds ==
    ASSUME Ending
    PROVE  \/ \E c \in Clients : ClientRefused(c)
           \/ /\ UNCHANGED <<wsVars, ws_hdl_, main>>
              /\ \E n \in Nodes :
                    \/ \E q : Sends(n, q)
                    \/ \E how \in {"done", "uaf", "abort"} : DiesAt(n, how)
                    \/ quit(n) /\ prog[n] = "exit"
                    \/ UNCHANGED rtcVars
<1> USE NodeFacts
<1>1. ASSUME NEW c \in Clients, ClientTypes(c) \/ ClientExit(c)
      PROVE  UNCHANGED <<wsVars, ws_hdl_, main>> /\ \E q : Sends(c, q)
  BY Zenon, <1>1 DEF ClientTypes, ClientExit, client_send
<1>2. ASSUME NEW c \in Clients, DanglingCallback(c) \/ ReleaseConnection(c)
      PROVE  UNCHANGED <<wsVars, ws_hdl_, main>> /\ \E how \in {"done", "uaf", "abort"} : DiesAt(c, how)
  BY <1>2 DEF DanglingCallback, ReleaseConnection
<1>3. ASSUME NEW n \in Nodes, Quit(n) \/ Returns(n)
      PROVE  /\ UNCHANGED <<wsVars, ws_hdl_, main>>
             /\ \/ \E how \in {"done", "uaf", "abort"} : DiesAt(n, how)
                \/ quit(n) /\ prog[n] = "exit"
  BY <1>3 DEF Quit, Returns
<1>4. ASSUME NEW c \in Clients, ServerOnMessage(c)
      PROVE  /\ UNCHANGED <<wsVars, ws_hdl_, main>>
             /\ \/ \E q : Sends(Server, q)
                \/ DiesAt(Server, "abort")
                \/ UNCHANGED rtcVars
  BY Zenon, <1>4 DEF ServerOnMessage, stop_listening, server_send, DiesAt, rtcVars
<1> QED BY Zenon, <1>1, <1>2, <1>3, <1>4 DEF Ending

LEMMA EndingEffects ==
    ASSUME TypeInv, Ending
    PROVE  /\ UNCHANGED <<wsS, toS, remote, ws_hdl_>> /\ csd' \subseteq csd
           /\ \A c \in Clients :
                 /\ wsC'[c] = wsC[c] \/ (wsC[c] = "connecting" /\ wsC'[c] = "closed")
                 /\ toC'[c] = toC[c] \/ toC'[c] = <<>>
           /\ \A n \in Nodes :
                 /\ Up(n)' => Up(n)
                 /\ sig'[n] = sig[n] \/ sig'[n] = "none"
                 /\ dcState'[n] = dcState[n] \/ dcState[n] = "open" \/ prog[n] = "exit"
                 /\ \/ /\ peer_connection'[n] = peer_connection[n]
                       /\ data_channel'[n] = data_channel[n]
                    \/ prog[n] = "exit" /\ peer_connection'[n] = Null /\ data_channel'[n] = Null
<1> USE Domains DEF Up
<1>1. ASSUME NEW c \in Clients, ClientRefused(c)
      PROVE  /\ UNCHANGED <<rtcVars, wsS, toS, ws_hdl_>> /\ wsC[c] = "connecting"
             /\ wsC' = [wsC EXCEPT ![c] = "closed"] /\ toC' = [toC EXCEPT ![c] = <<>>]
  BY Zenon, <1>1 DEF ClientRefused, WsClientCloses
<1>2. ASSUME NEW n \in Nodes, NEW q, Sends(n, q)
      PROVE  /\ UNCHANGED <<remote, csd, sig, peer_connection, data_channel>>
             /\ \A p \in Nodes : Up(p)' => Up(p)
             /\ \A p \in Nodes : dcState'[p] = dcState[p] \/ dcState[p] = "open"
  <2>1. \A p \in Nodes : dcState'[p] = dcState[p] \/ dcState[p] = "open"
    BY <1>2 DEF Sends
  <2> QED BY Zenon, <1>2, <2>1 DEF Sends
<1>3. ASSUME NEW n \in Nodes, NEW how \in {"done", "uaf", "abort"}, DiesAt(n, how)
      PROVE  /\ UNCHANGED <<remote, csd, sig, peer_connection, data_channel>>
             /\ \A p \in Nodes : Up(p)' => Up(p)
             /\ \A p \in Nodes : dcState'[p] = dcState[p] \/ dcState[p] = "open"
  BY <1>3 DEF DiesAt, Dies
<1>4. ASSUME NEW n \in Nodes, quit(n)
      PROVE  /\ UNCHANGED remote /\ csd' \subseteq csd
             /\ \A p \in Nodes : Up(p)' => Up(p)
             /\ \A p \in Nodes : dcState'[p] = dcState[p] \/ p = n
             /\ \A p \in Nodes : \/ /\ sig'[p] = sig[p] /\ peer_connection'[p] = peer_connection[p]
                                    /\ data_channel'[p] = data_channel[p]
                                 \/ /\ p = n /\ sig'[p] = "none" /\ peer_connection'[p] = Null
                                    /\ data_channel'[p] = Null
  BY Zenon, <1>4 DEF quit, Dereferences
<1>5. CASE \E c \in Clients : ClientRefused(c)
  BY Zenon, <1>1, <1>5 DEF rtcVars
<1>6. CASE UNCHANGED <<wsVars, ws_hdl_, main>> /\ UNCHANGED rtcVars
  BY Zenon, <1>6 DEF rtcVars, wsVars
<1>7. ASSUME UNCHANGED <<wsVars, ws_hdl_, main>>, NEW n \in Nodes,
             (\E q : Sends(n, q)) \/ (\E how \in {"done", "uaf", "abort"} : DiesAt(n, how))
      PROVE  /\ UNCHANGED <<remote, csd, sig, peer_connection, data_channel, wsVars, ws_hdl_>>
             /\ \A p \in Nodes : Up(p)' => Up(p)
             /\ \A p \in Nodes : dcState'[p] = dcState[p] \/ dcState[p] = "open"
  BY Zenon, <1>2, <1>3, <1>7
<1>8. ASSUME UNCHANGED <<wsVars, ws_hdl_, main>>, NEW n \in Nodes, quit(n), prog[n] = "exit"
      PROVE  /\ UNCHANGED <<remote, wsVars, ws_hdl_>> /\ csd' \subseteq csd
             /\ \A p \in Nodes :
                   /\ Up(p)' => Up(p)
                   /\ sig'[p] = sig[p] \/ sig'[p] = "none"
                   /\ dcState'[p] = dcState[p] \/ prog[p] = "exit"
                   /\ \/ /\ peer_connection'[p] = peer_connection[p]
                         /\ data_channel'[p] = data_channel[p]
                      \/ prog[p] = "exit" /\ peer_connection'[p] = Null /\ data_channel'[p] = Null
  BY <1>4, <1>8
<1> QED BY Zenon, <1>5, <1>6, <1>7, <1>8, EndingKinds DEF wsVars

-----------------------------------------------------------------------------
(***************************************************************************)
(* Each ending step keeps TypeInv.                                         *)
(***************************************************************************)
LEMMA TypeInvEnding ==
    ASSUME TypeInv, Ending
    PROVE  TypeInv'
<1> USE NodeFacts
<1>1. \A n \in Nodes : Up(n)' /\ (n \in csd' \/ sig'[n] # "none") => peer_connection'[n] # Null
  <2> SUFFICES ASSUME NEW n \in Nodes, Up(n)', n \in csd' \/ sig'[n] # "none"
               PROVE  peer_connection'[n] # Null
    OBVIOUS
  <2>1. peer_connection[n] # Null
    BY Zenon, EndingEffects DEF TypeInv, PcHeld
  <2>2. ASSUME peer_connection'[n] = Null
        PROVE  FALSE
    <3>1. PICK p \in Nodes : quit(p)
      <4>1. UNCHANGED rtcVars => UNCHANGED peer_connection
        BY DEF rtcVars
      <4> QED BY Zenon, <2>1, <2>2, <4>1, EndingKinds DEF ClientRefused, Sends, DiesAt
    <3>2. p = n
      BY Zenon, <2>1, <2>2, <3>1, Domains DEF quit
    <3>3. csd' = csd \ {n} /\ sig'[n] = "none"
      BY Zenon, <3>1, <3>2, Domains DEF quit
    <3> QED BY <3>3
  <2> QED BY <2>2
<1>2. CASE \E c \in Clients : ClientRefused(c)
  <2>1. TypeOK'
    BY <1>2 DEF ClientRefused, WsClientCloses, rtcVars, TypeInv, TypeOK, WsTypeOK, RtcTypeOK, EndState
  <2> QED BY <1>1, <2>1 DEF TypeInv, PcHeld, Up
<1>3. ASSUME UNCHANGED <<wsVars, ws_hdl_, main>>, RtcTypeOK'
      PROVE  TypeInv'
  BY <1>1, <1>3 DEF TypeInv, TypeOK, WsTypeOK, wsVars, PcHeld, Up
<1>4. RtcTypeOK
  BY DEF TypeInv, TypeOK
<1>5. ASSUME UNCHANGED rtcVars
      PROVE  RtcTypeOK'
  BY <1>4, <1>5 DEF RtcTypeOK, rtcVars
<1>6. ASSUME NEW n \in Nodes, NEW q, Sends(n, q)
      PROVE  RtcTypeOK'
  <2>1. stat' \in [Nodes -> Status]
    BY <1>4, <1>6 DEF Sends, RtcTypeOK, Status
  <2>2. dcState' \in [Nodes -> {"none", "connecting", "open", "closed"}]
    BY <1>4, <1>6 DEF Sends, RtcTypeOK
  <2> QED BY Zenon, <1>4, <1>6, <2>1, <2>2 DEF Sends, RtcTypeOK
<1>7. ASSUME NEW n \in Nodes, NEW how \in {"done", "uaf", "abort"}, DiesAt(n, how)
      PROVE  RtcTypeOK'
  BY <1>4, <1>7 DEF DiesAt, Dies, RtcTypeOK, Status
<1>8. ASSUME NEW n \in Nodes, quit(n)
      PROVE  RtcTypeOK'
  <2>1. stat' \in [Nodes -> Status]
    BY <1>4, <1>8 DEF quit, Dereferences, RtcTypeOK, Status
  <2>2. /\ peer_connection' \in [Nodes -> Clients \cup {Null}]
        /\ data_channel' \in [Nodes -> Clients \cup {Null}]
        /\ sig' \in [Nodes -> SigState] /\ csd' \subseteq Nodes
        /\ dcState' \in [Nodes -> {"none", "connecting", "open", "closed"}]
    BY <1>4, <1>8 DEF quit, RtcTypeOK, SigState
  <2> QED BY Zenon, <1>4, <1>8, <2>1, <2>2 DEF quit, RtcTypeOK
<1> QED BY Zenon, <1>2, <1>3, <1>5, <1>6, <1>7, <1>8, EndingKinds

LEMMA SessionTypeInvStep == TypeInv /\ [SessionNext]_allVars => TypeInv'
  BY SessionMoves, TypeInvStep, TypeInvEnding

LEMMA SessionTypeInvariance == SessionSpec => []TypeInv
<1>1. SessionInit => TypeInv
  BY TypeInvInit DEF SessionInit
<1> QED BY <1>1, SessionTypeInvStep, PTL DEF SessionSpec

(***************************************************************************)
(* The variables of Session.  The server appends to `down` what it took    *)
(* from `up` and is not "exit".                                            *)
(***************************************************************************)
StreamsTyped ==
    /\ sent \in [Clients -> 0..MaxMsgs]
    /\ up \in [Clients -> Seq(0..MaxMsgs)]
    /\ down \in [Clients -> Seq(1..MaxMsgs)]
    /\ echoed \in [Clients -> Seq(1..MaxMsgs)]
    /\ cut \subseteq Clients

ProgressTyped == endpoint \in {"listening", "stopped"} /\ prog \in [Nodes -> Progress]

LEMMA ProgressStep ==
    ASSUME ProgressTyped, [SessionNext]_allVars
    PROVE  ProgressTyped'
<1> USE NodeFacts
<1>1. ASSUME UNCHANGED <<endpoint, prog>>
      PROVE  ProgressTyped'
  BY <1>1 DEF ProgressTyped
<1>2. ASSUME NEW n \in Nodes, NEW p \in Progress, prog' = [prog EXCEPT ![n] = p], UNCHANGED endpoint
      PROVE  ProgressTyped'
  BY <1>2 DEF ProgressTyped
<1>3. {"exit", "quit", "dtor"} \subseteq Progress
  BY DEF Progress
<1>4. ASSUME UNCHANGED sessionVars
      PROVE  ProgressTyped'
  BY <1>1, <1>4 DEF sessionVars
<1>5. ASSUME NEW c \in Clients, ClientInput(c)
      PROVE  ProgressTyped'
  BY <1>1, <1>2, <1>3, <1>5 DEF ClientInput, ClientTypes, ClientExit, ClientEof
<1>6. ASSUME NEW n \in Nodes, Quit(n) \/ Returns(n)
      PROVE  ProgressTyped'
  BY <1>2, <1>3, <1>4, <1>6 DEF Quit, Returns
<1>7. ASSUME NEW c \in Clients, ServerOnMessage(c)
      PROVE  ProgressTyped'
  <2>1. UNCHANGED prog /\ (UNCHANGED endpoint \/ endpoint' = "stopped")
    BY <1>7 DEF ServerOnMessage, stop_listening
  <2> QED BY <2>1 DEF ProgressTyped
<1>8. ASSUME NEW c \in Clients, ClientCallback(c)
      PROVE  ProgressTyped'
  BY <1>1, <1>4, <1>8 DEF ClientCallback, ClientOnMessage, DanglingCallback
<1>9. CASE ServerLeaves
  BY <1>2, <1>3, <1>6, <1>9 DEF ServerLeaves, ServerReturnsFromRun
<1>10. CASE UNCHANGED allVars
  BY <1>4, <1>10 DEF allVars
<1> QED BY <1>4, <1>5, <1>6, <1>7, <1>8, <1>9, <1>10
        DEF SessionNext, ClientHandshake, ClientRefused, ClientLeaves, ReleaseConnection,
            ServerHandshake, ServerCallback

LEMMA SeqFacts ==
    ASSUME NEW S, NEW q \in Seq(S)
    PROVE  /\ q # <<>> => Tail(q) \in Seq(S) /\ Head(q) \in S
           /\ \A x \in S : Append(q, x) \in Seq(S)
  OBVIOUS

LEMMA StreamsStep ==
    ASSUME StreamsTyped, [SessionNext]_allVars
    PROVE  StreamsTyped'
<1> USE SessionAssumption
<1>1. ASSUME UNCHANGED <<sent, up, down, echoed, cut>>
      PROVE  StreamsTyped'
  BY <1>1 DEF StreamsTyped
<1>2. ASSUME UNCHANGED sessionVars
      PROVE  StreamsTyped'
  BY <1>1, <1>2 DEF sessionVars
<1>3. ASSUME NEW c \in Clients, ClientTypes(c) \/ ClientExit(c)
      PROVE  StreamsTyped'
  <2>1. UNCHANGED <<down, echoed, cut>>
    BY <1>3 DEF ClientTypes, ClientExit
  <2>2. sent' \in [Clients -> 0..MaxMsgs]
    <3>1. \/ UNCHANGED sent
          \/ sent[c] < MaxMsgs /\ sent' = [sent EXCEPT ![c] = IF Accepts(c, up[c]) THEN @ + 1 ELSE @]
      BY <1>3 DEF ClientTypes, ClientExit
    <3>2. sent[c] \in 0..MaxMsgs /\ (sent[c] < MaxMsgs => sent[c] + 1 \in 0..MaxMsgs)
      BY DEF StreamsTyped
    <3> QED BY Zenon, <3>1, <3>2 DEF StreamsTyped
  <2>3. PICK m \in 0..MaxMsgs : client_send(c, m)
    <3>1. ClientTypes(c) => sent[c] + 1 \in 0..MaxMsgs
      BY DEF ClientTypes, StreamsTyped
    <3>2. Exit \in 0..MaxMsgs
      BY DEF Exit
    <3> QED BY Zenon, <1>3, <3>1, <3>2 DEF ClientTypes, ClientExit
  <2>4. up' \in [Clients -> Seq(0..MaxMsgs)]
    <3>1. up[c] \in Seq(0..MaxMsgs)
      BY DEF StreamsTyped
    <3>2. Append(up[c], m) \in Seq(0..MaxMsgs)
      BY <3>1
    <3> QED BY Zenon, <2>3, <3>1, <3>2 DEF client_send, StreamsTyped
  <2> QED BY <2>1, <2>2, <2>4 DEF StreamsTyped
<1>4. ASSUME NEW c \in Clients, ClientOnMessage(c)
      PROVE  StreamsTyped'
  <2>1. /\ down[c] # <<>> /\ UNCHANGED <<sent, up, cut>>
        /\ echoed' = [echoed EXCEPT ![c] = Append(@, Head(down[c]))]
        /\ down' = [down EXCEPT ![c] = Tail(@)]
    BY Zenon, <1>4 DEF ClientOnMessage
  <2>2. down[c] \in Seq(1..MaxMsgs) /\ echoed[c] \in Seq(1..MaxMsgs)
    BY DEF StreamsTyped
  <2>3. Tail(down[c]) \in Seq(1..MaxMsgs) /\ Append(echoed[c], Head(down[c])) \in Seq(1..MaxMsgs)
    BY Zenon, <2>1, <2>2, SeqFacts
  <2> QED BY Zenon, <2>1, <2>3 DEF StreamsTyped
<1>5. ASSUME NEW c \in Clients, ServerOnMessage(c)
      PROVE  StreamsTyped'
  <2>1. /\ up[c] # <<>> /\ up' = [up EXCEPT ![c] = Tail(@)] /\ UNCHANGED <<sent, echoed>>
        /\ cut' = cut \/ cut' = cut \cup {c}
        /\ \/ UNCHANGED down
           \/ Head(up[c]) # Exit
              /\ down' = [down EXCEPT ![c] = IF Accepts(Server, @) THEN Append(@, Head(up[c])) ELSE @]
    BY Zenon, <1>5 DEF ServerOnMessage, server_send
  <2>2. up[c] \in Seq(0..MaxMsgs) /\ down[c] \in Seq(1..MaxMsgs)
    BY DEF StreamsTyped
  <2>3. Tail(up[c]) \in Seq(0..MaxMsgs) /\ Head(up[c]) \in 0..MaxMsgs
    BY Zenon, <2>1, <2>2, SeqFacts
  <2>4. Head(up[c]) # Exit => Append(down[c], Head(up[c])) \in Seq(1..MaxMsgs)
    <3>1. Head(up[c]) # Exit => Head(up[c]) \in 1..MaxMsgs
      BY <2>3 DEF Exit
    <3> QED BY Zenon, <2>2, <3>1, SeqFacts
  <2>5. down' \in [Clients -> Seq(1..MaxMsgs)]
    BY Zenon, <2>1, <2>2, <2>4 DEF StreamsTyped
  <2> QED BY <2>1, <2>3, <2>5 DEF StreamsTyped
<1>6. ASSUME NEW c \in Clients, ClientInput(c)
      PROVE  StreamsTyped'
  BY <1>1, <1>3, <1>6 DEF ClientInput, ClientEof
<1>7. ASSUME NEW n \in Nodes, Quit(n) \/ Returns(n)
      PROVE  StreamsTyped'
  BY <1>1, <1>2, <1>7 DEF Quit, Returns
<1>8. ASSUME NEW c \in Clients, ClientCallback(c)
      PROVE  StreamsTyped'
  BY <1>2, <1>4, <1>8 DEF ClientCallback, DanglingCallback
<1>9. CASE ServerLeaves
  BY <1>1, <1>7, <1>9, NodeFacts DEF ServerLeaves, ServerReturnsFromRun
<1>10. CASE UNCHANGED allVars
  BY <1>2, <1>10 DEF allVars
<1> QED BY <1>2, <1>5, <1>6, <1>7, <1>8, <1>9, <1>10, NodeFacts
        DEF SessionNext, ClientHandshake, ClientRefused, ClientLeaves, ReleaseConnection,
            ServerHandshake, ServerCallback

(***************************************************************************)
(* From the first connection to the end of the processes the variables     *)
(* have their types; in particular the server echoes lines only, never the *)
(* "exit" that it takes for itself (server.cpp:41).                        *)
(***************************************************************************)
THEOREM SessionTypeCorrectness == SessionSpec => []SessionTypeOK
<1>1. SessionInit => StreamsTyped /\ ProgressTyped
  BY SessionAssumption DEF SessionInit, StreamsTyped, ProgressTyped, Progress
<1>2. TypeInv /\ StreamsTyped /\ ProgressTyped => SessionTypeOK
  BY DEF TypeInv, StreamsTyped, ProgressTyped, SessionTypeOK
<1>3. (StreamsTyped /\ ProgressTyped) /\ [SessionNext]_allVars => (StreamsTyped /\ ProgressTyped)'
  BY StreamsStep, ProgressStep
<1> QED BY <1>1, <1>2, <1>3, SessionTypeInvariance, PTL DEF SessionSpec

-----------------------------------------------------------------------------
(***************************************************************************)
(* A step of one process leaves the managers of the others alone.          *)
(***************************************************************************)
Kept(p) ==
    /\ stat'[p] = stat[p] /\ sig'[p] = sig[p] /\ (p \in csd' <=> p \in csd)
    /\ peer_connection'[p] = peer_connection[p] /\ data_channel'[p] = data_channel[p]

LEMMA ClientKeeps ==
    ASSUME TypeInv, NEW c \in Clients, NEW p \in Nodes, p # c,
           ClientConnect(c) \/ ClientMain(c) \/ ClientSignaling(c)
    PROVE  Kept(p)
<1> USE NodeFacts, Domains DEF Kept
<1>1. CASE ClientConnect(c) \/ ClientConnectFails(c) \/ ClientReadsClose(c) \/ ClientCloseHandler(c)
  BY Zenon, <1>1 DEF ClientConnect, ClientConnectFails, ClientReadsClose, ClientCloseHandler, rtcVars
<1>2. CASE ClientOpenHandler(c)
  BY <1>2 DEF ClientOpenHandler, create_offer_sdp, DiesAt, Dies
<1>3. CASE ClientMessageHandler(c)
  <2>1. PICK s : push_reply_sdp(c, s) \/ push_ice(c, s)
    BY Zenon, <1>3 DEF ClientMessageHandler
  <2> QED BY <2>1 DEF push_reply_sdp, push_ice, DiesAt, Dies, Dereferences
<1>4. CASE ClientOnSdp(c) \/ ClientOnIce(c)
  BY <1>4 DEF ClientOnSdp, ClientOnIce, on_success_csd, on_ice_candidate, ws_client_send, Dies
<1>5. CASE ClientCsdFails(c) \/ ClientOnOpen(c) \/ ClientOnClosed(c)
  BY <1>5 DEF ClientCsdFails, ClientOnOpen, ClientOnClosed, on_failure_csd, on_state_change
<1> QED BY Zenon, <1>1, <1>2, <1>3, <1>4, <1>5 DEF ClientMain, ClientSignaling

LEMMA ServerKeeps ==
    ASSUME TypeInv, NEW p \in Clients, ServerSignaling \/ \E c \in Clients : ServerMain(c)
    PROVE  Kept(p) /\ wsC'[p] = wsC[p] /\ main'[p] = main[p] /\ ws_hdl_'[p] = ws_hdl_[p]
<1> USE NodeFacts, Domains DEF Kept
<1>1. CASE ServerSignaling
  <2>1. UNCHANGED <<wsC, main, ws_hdl_>>
    BY <1>1 DEF ServerSignaling, ServerOnSdp, ServerCsdFails, ServerOnIce, ServerOnDataChannel,
                ServerOnOpen, ServerOnClosed, wsVars
  <2>2. CASE ServerOnSdp \/ ServerOnIce
    BY <2>1, <2>2 DEF ServerOnSdp, ServerOnIce, on_success_csd, on_ice_candidate, ws_server_send, Dies
  <2>3. CASE ServerCsdFails \/ ServerOnDataChannel \/ ServerOnClosed
    BY <2>1, <2>3 DEF ServerCsdFails, ServerOnDataChannel, ServerOnClosed, on_failure_csd,
                      OnDataChannel, on_state_change
  <2>4. CASE ServerOnOpen
    BY <2>1, <2>4 DEF ServerOnOpen, on_state_change, on_success, Dies
  <2> QED BY <1>1, <2>2, <2>3, <2>4 DEF ServerSignaling
<1>2. ASSUME NEW c \in Clients, ServerMain(c)
      PROVE  Kept(p) /\ wsC'[p] = wsC[p] /\ main'[p] = main[p] /\ ws_hdl_'[p] = ws_hdl_[p]
  <2>1. UNCHANGED <<wsC, main>> /\ ws_hdl_'[p] = ws_hdl_[p]
    BY <1>2 DEF ServerMain, ServerAccept, ServerOpenHandler, ServerMessageHandler, ServerCloseHandler,
                WsAccept, WsServerOpens, WsServerCloses
  <2>2. CASE ServerAccept(c) \/ ServerOpenHandler(c) \/ ServerCloseHandler(c)
    BY <2>1, <2>2 DEF ServerAccept, ServerOpenHandler, ServerCloseHandler, rtcVars
  <2>3. CASE ServerMessageHandler(c)
    <3>1. PICK s : \/ create_answer_sdp_exits(Server, s) \/ push_ice(Server, s)
                   \/ create_answer_sdp(Server, s) /\ StaleAnswer(c)
      BY Zenon, <2>3 DEF ServerMessageHandler
    <3>2. CASE create_answer_sdp_exits(Server, s) \/ push_ice(Server, s)
      BY <2>1, <3>2 DEF create_answer_sdp_exits, Replaces, push_ice, DiesAt, Dies, Dereferences
    <3>3. CASE create_answer_sdp(Server, s) /\ StaleAnswer(c)
      BY <2>1, <3>3 DEF create_answer_sdp, Replaces, StaleAnswer, ws_server_send, Dies
    <3> QED BY <3>1, <3>2, <3>3
  <2> QED BY <1>2, <2>2, <2>3 DEF ServerMain
<1> QED BY <1>1, <1>2

(***************************************************************************)
(* Until the server has accepted a client's connection, the client has     *)
(* begun nothing.                                                          *)
(***************************************************************************)
SilentInv ==
    \A c \in Clients : wsS[c] = "none" => toS[c] = <<>> /\ sig[c] = "none" /\ c \notin csd

(* What a client sends goes on its own stream, and only after its offer was requested. *)
LEMMA SilentStep ==
    ASSUME TypeInv, SilentInv, [Next]_vars \/ Ending
    PROVE  SilentInv'
<1> USE NodeFacts, Domains DEF SilentInv
<1>1. CASE Ending
  BY <1>1, EndingEffects
<1>2. ASSUME NEW c \in Clients, UNCHANGED wsS, \A d \in Clients \ {c} : Kept(d) /\ toS'[d] = toS[d],
             wsS[c] = "none" => toS'[c] = <<>> /\ sig'[c] = "none" /\ c \notin csd'
      PROVE  SilentInv'
  BY <1>2 DEF Kept
<1> HIDE DEF SilentInv
<1>3. ASSUME NEW c \in Clients, ClientConnect(c) \/ ClientMain(c)
      PROVE  SilentInv'
  <2>1. UNCHANGED <<wsS, toS>>
    BY <1>3 DEF ClientConnect, WsConnect, ClientMain, ClientConnectFails, ClientOpenHandler,
                ClientMessageHandler, ClientReadsClose, ClientCloseHandler, WsClientCloses, WsClientOpens
  <2>2. ASSUME wsS[c] = "none"
        PROVE  sig'[c] = "none" /\ c \notin csd'
    <3>1. sig[c] = "none" /\ c \notin csd
      BY <2>2 DEF SilentInv
    <3>2. CASE ClientMessageHandler(c)
      BY <3>1, <3>2 DEF ClientMessageHandler, push_reply_sdp, push_ice, DiesAt
    <3>3. ~ClientOpenHandler(c)
      BY <2>2 DEF ClientOpenHandler, WsClientOpens
    <3> QED BY <1>3, <3>1, <3>2, <3>3
            DEF ClientMain, ClientConnect, ClientConnectFails, ClientReadsClose, ClientCloseHandler, rtcVars
  <2> QED BY <1>2, <1>3, <2>1, <2>2, ClientKeeps DEF SilentInv
<1>4. ASSUME NEW c \in Clients, ClientSignaling(c)
      PROVE  SilentInv'
  <2>1. UNCHANGED wsS /\ \A d \in Clients \ {c} : toS'[d] = toS[d]
    BY <1>4 DEF ClientSignaling, ClientOnSdp, ClientCsdFails, ClientOnIce, ClientOnOpen,
                ClientOnClosed, ws_client_send, wsVars
  <2>2. ASSUME wsS[c] = "none"
        PROVE  toS'[c] = <<>> /\ sig'[c] = "none" /\ c \notin csd'
    <3>1. toS[c] = <<>> /\ sig[c] = "none" /\ c \notin csd
      BY <2>2 DEF SilentInv
    <3>2. ~ClientOnSdp(c) /\ ~ClientOnIce(c) /\ ~ClientCsdFails(c)
      BY <3>1 DEF ClientOnSdp, ClientOnIce, ClientCsdFails, on_success_csd, on_ice_candidate,
                  on_failure_csd
    <3> QED BY <1>4, <3>1, <3>2
            DEF ClientSignaling, ClientOnOpen, ClientOnClosed, on_state_change, wsVars
  <2> QED BY <1>2, <1>4, <2>1, <2>2, ClientKeeps
<1>5. ASSUME ServerSignaling \/ \E c \in Clients : ServerMain(c)
      PROVE  SilentInv'
  <2>1. \A d \in Clients : Kept(d)
    BY <1>5, ServerKeeps
  <2>2. \A d \in Clients : wsS'[d] = "none" => wsS[d] = "none" /\ (toS'[d] = toS[d] \/ toS'[d] = <<>>)
    <3>1. CASE ServerSignaling
      <4>1. UNCHANGED toS
        BY <3>1 DEF ServerSignaling, ServerOnSdp, ServerCsdFails, ServerOnIce, ServerOnDataChannel,
                    ServerOnOpen, ServerOnClosed, wsVars
      <4>2. UNCHANGED wsS \/ \E h : wsS' = [wsS EXCEPT ![h] = "closing"]
        BY Zenon, <3>1 DEF ServerSignaling, ServerOnSdp, ServerCsdFails, ServerOnIce,
                    ServerOnDataChannel, ServerOnOpen, ServerOnClosed, on_success, wsVars
      <4> QED BY <4>1, <4>2
    <3>2. ASSUME NEW c \in Clients, ServerMain(c)
          PROVE  \A d \in Clients : wsS'[d] = "none"
                                    => wsS[d] = "none" /\ (toS'[d] = toS[d] \/ toS'[d] = <<>>)
      <4>1. \/ UNCHANGED toS /\ \E w \in {"accepted", "open"} : wsS' = [wsS EXCEPT ![c] = w]
            \/ UNCHANGED wsS /\ wsS[c] = "open" /\ toS' = [toS EXCEPT ![c] = Tail(@)]
            \/ wsS' = [wsS EXCEPT ![c] = "closed"] /\ toS' = [toS EXCEPT ![c] = <<>>]
        BY <3>2 DEF ServerMain, ServerAccept, ServerOpenHandler, ServerMessageHandler,
                    ServerCloseHandler, WsAccept, WsServerOpens, WsServerCloses
      <4> QED BY <4>1
    <3> QED BY <1>5, <3>1, <3>2
  <2> QED BY <2>1, <2>2 DEF SilentInv, Kept
<1>6. ASSUME UNCHANGED <<wsS, toS, sig, csd>>
      PROVE  SilentInv'
  BY <1>6 DEF SilentInv
<1>7. ASSUME NEW n \in Nodes, Kill(n)
      PROVE  SilentInv'
  BY <1>6, <1>7 DEF Kill, DiesAt, wsVars
<1>8. CASE UNCHANGED vars
  BY <1>6, <1>8 DEF vars, wsVars, rtcVars
<1> QED BY <1>1, <1>3, <1>4, <1>5, <1>7, <1>8 DEF Next

(***************************************************************************)
(* Where main() of a client is, and what its manager holds by then: from   *)
(* create_offer_sdp until quit() both pointers, unless libwebrtc gave it a *)
(* null one, which it dies of there.  A client whose connection never      *)
(* opened holds neither, and its ws_hdl_ is still empty.                   *)
(***************************************************************************)
Holds(c) ==
    /\ main[c] = "loop" => wsC[c] = "closed"
    /\ prog[c] # "work" => main[c] = "loop"
    /\ wsC[c] \in {"open", "closing"} => ws_hdl_[c] # Null
    /\ Up(c) /\ prog[c] = "work" /\ ws_hdl_[c] # Null => data_channel[c] # Null
    /\ Up(c) /\ prog[c] = "work" /\ data_channel[c] # Null => peer_connection[c] # Null
    /\ Up(c) /\ prog[c] = "exit" => peer_connection[c] # Null
    /\ stat[c] = "nullderef" => ws_hdl_[c] = Null \/ (prog[c] = "work" /\ GivenNull(c))

LoopInv == \A c \in Clients : Holds(c)

HoldsKept(d) ==
    /\ wsC'[d] = wsC[d] /\ main'[d] = main[d] /\ ws_hdl_'[d] = ws_hdl_[d] /\ prog'[d] = prog[d]
    /\ stat'[d] = stat[d] /\ peer_connection'[d] = peer_connection[d]
    /\ data_channel'[d] = data_channel[d]

LEMMA HoldsStays ==
    ASSUME NEW d, Holds(d), HoldsKept(d)
    PROVE  Holds(d)'
  BY DEF Holds, HoldsKept, GivenNull, Up

(* The handshake of a client; NoNewNull says which null pointers it may use. *)
LEMMA HandshakeHolds ==
    ASSUME TypeInv, NullInv, LoopInv, NEW c \in Clients, UNCHANGED prog,
           ClientConnect(c) \/ ClientMain(c) \/ ClientSignaling(c)
    PROVE  LoopInv'
<1> USE NodeFacts, Domains
<1>1. Holds(c) /\ NoNewNull
  BY NullInvStep DEF LoopInv, Next
<1>2. ASSUME NEW d \in Clients, d # c
      PROVE  Holds(d)'
  <2>1. wsC'[d] = wsC[d] /\ main'[d] = main[d] /\ ws_hdl_'[d] = ws_hdl_[d]
    <3>1. CASE ClientSignaling(c)
      BY <3>1 DEF ClientSignaling, ClientOnSdp, ClientCsdFails, ClientOnIce, ClientOnOpen,
                  ClientOnClosed, wsVars
    <3>2. CASE ClientConnect(c) \/ ClientMain(c)
      BY <1>2, <3>2 DEF ClientConnect, WsConnect, ClientMain, ClientConnectFails, ClientOpenHandler,
         ClientMessageHandler, ClientReadsClose, ClientCloseHandler, WsClientCloses, WsClientOpens
    <3> QED BY <3>1, <3>2
  <2>2. Kept(d)
    BY <1>2, ClientKeeps
  <2> QED BY <2>1, <2>2, HoldsStays DEF LoopInv, Kept, HoldsKept
<1> USE DEF Holds, Up
<1>3. ASSUME ClientConnect(c) \/ ClientConnectFails(c)
      PROVE  Holds(c)'
  BY <1>1, <1>3 DEF ClientConnect, WsConnect, ClientConnectFails, WsClientCloses, rtcVars
<1>4. ASSUME ClientReadsClose(c) \/ ClientCloseHandler(c)
      PROVE  Holds(c)'
  BY <1>1, <1>4 DEF ClientReadsClose, ClientCloseHandler, WsClientCloses, rtcVars
<1>5. ASSUME ClientOpenHandler(c)
      PROVE  Holds(c)'
  <2>1. /\ stat[c] = "up" /\ wsC[c] = "connecting"
        /\ wsC'[c] = "open" /\ ws_hdl_'[c] = c /\ main'[c] = main[c]
        /\ \/ /\ "pc" \in Faults /\ stat'[c] = "nullderef"
              /\ peer_connection'[c] = peer_connection[c]
           \/ /\ "dc" \in Faults /\ stat'[c] = "nullderef"
              /\ data_channel'[c] = data_channel[c]
           \/ stat'[c] = "up" /\ peer_connection'[c] = c /\ data_channel'[c] = c
    BY <1>5 DEF ClientOpenHandler, WsClientOpens, create_offer_sdp, DiesAt, Dies
  <2>2. prog[c] = "work" /\ peer_connection[c] = Null /\ data_channel[c] = Null
    BY <1>1, <2>1 DEF NullInv, Fresh
  <2> QED BY <1>1, <2>1, <2>2 DEF GivenNull
<1>6. ASSUME Up(c), wsC'[c] = wsC[c], main'[c] = main[c],
             UNCHANGED <<peer_connection, data_channel>>,
             ws_hdl_'[c] = ws_hdl_[c] \/ (wsC[c] = "open" /\ ws_hdl_'[c] = c),
             stat'[c] # "nullderef" \/ wsC[c] = "open"
      PROVE  Holds(c)'
  <2>1. stat'[c] = "nullderef" => prog[c] = "work" /\ GivenNull(c)'
    BY <1>1, <1>6 DEF NoNewNull
  <2>2. GivenNull(c)' <=> GivenNull(c)
    BY <1>6 DEF GivenNull
  <2> QED BY <1>1, <1>6, <2>1, <2>2
<1> HIDE DEF Holds
<1>7. ASSUME ClientMessageHandler(c)
      PROVE  Holds(c)'
  BY <1>6, <1>7 DEF ClientMessageHandler, push_reply_sdp, push_ice, DiesAt
<1>8. ASSUME ClientSignaling(c)
      PROVE  Holds(c)'
  BY <1>6, <1>8 DEF ClientSignaling, ClientOnSdp, ClientCsdFails, ClientOnIce, ClientOnOpen,
                    ClientOnClosed, on_success_csd, on_failure_csd, on_ice_candidate,
                    on_state_change, ws_client_send, Dies, Up, wsVars
<1> QED BY <1>2, <1>3, <1>4, <1>5, <1>7, <1>8 DEF ClientMain, LoopInv

(* The steps that Session adds. *)
LEMMA LoopHolds ==
    ASSUME TypeInv, ProgressTyped, LoopInv, NEW c \in Clients,
           \/ ClientRefused(c) \/ ClientInput(c) \/ ClientLeaves(c)
           \/ ClientOnMessage(c) \/ DanglingCallback(c)
    PROVE  LoopInv'
<1> USE NodeFacts, Domains
<1> DOMAIN prog = Nodes
  BY DEF ProgressTyped
<1>1. Holds(c)
  BY DEF LoopInv
<1>2. CASE ClientOnMessage(c)
  <2>1. UNCHANGED <<vars, prog>>
    BY <1>2 DEF ClientOnMessage
  <2> QED BY <2>1, HoldsStays DEF vars, wsVars, rtcVars, LoopInv, HoldsKept
<1>3. CASE ClientRefused(c)
  <2>1. /\ wsC' = [wsC EXCEPT ![c] = "closed"] /\ main' = [main EXCEPT ![c] = "loop"]
        /\ UNCHANGED <<stat, peer_connection, data_channel, ws_hdl_, prog>>
    BY <1>3 DEF ClientRefused, WsClientCloses, rtcVars, sessionVars
  <2>2. Holds(c)'
    BY <1>1, <2>1 DEF Holds, GivenNull, Up
  <2> QED BY <2>1, <2>2, HoldsStays DEF LoopInv, HoldsKept
<1>4. ASSUME UNCHANGED <<wsC, main, ws_hdl_>>, Up(c),
             \A d \in Clients \ {c} :
                /\ prog'[d] = prog[d] /\ stat'[d] = stat[d]
                /\ peer_connection'[d] = peer_connection[d] /\ data_channel'[d] = data_channel[d],
             prog'[c] # "work" => main[c] = "loop",
             stat'[c] = "nullderef" => ws_hdl_[c] = Null,
             \/ prog'[c] \notin {"work", "exit"}
             \/ stat'[c] # "up"
             \/ /\ prog[c] = "work" /\ peer_connection'[c] = peer_connection[c]
                /\ data_channel'[c] = data_channel[c]
                /\ prog'[c] = "exit" => data_channel[c] # Null
      PROVE  LoopInv'
  <2>1. Holds(c)'
    BY <1>1, <1>4 DEF Holds, Up
  <2> QED BY <1>4, <2>1, HoldsStays DEF LoopInv, HoldsKept
<1>5. CASE ClientTypes(c) \/ ClientExit(c)
  <2>1. /\ InInputLoop(c) /\ Sends(c, up[c]) /\ UNCHANGED <<wsC, main, ws_hdl_>>
        /\ UNCHANGED prog \/ prog' = [prog EXCEPT ![c] = "exit"]
    BY Zenon, <1>5 DEF ClientTypes, ClientExit, client_send, wsVars
  <2>2. /\ Up(c) /\ main[c] = "loop" /\ prog[c] = "work"
        /\ UNCHANGED <<peer_connection, data_channel>>
        /\ stat' = [stat EXCEPT ![c] = IF data_channel[c] = Null THEN "nullderef" ELSE stat[c]]
    BY <2>1 DEF InInputLoop, Sends
  <2>3. data_channel[c] = Null => ws_hdl_[c] = Null
    BY <1>1, <2>2 DEF Holds
  <2> QED BY <1>4, <2>1, <2>2, <2>3 DEF Up
<1>6. CASE ClientEof(c)
  <2>1. /\ InInputLoop(c) /\ prog' = [prog EXCEPT ![c] = "dtor"]
        /\ UNCHANGED <<wsC, main, ws_hdl_, stat, peer_connection, data_channel>>
    BY <1>6 DEF ClientEof, vars, wsVars, rtcVars
  <2> QED BY <1>4, <2>1 DEF InInputLoop, Up
<1>7. ASSUME NEW how \in {"done", "uaf", "abort"}, DiesAt(c, how), Up(c), main[c] = "loop",
             UNCHANGED <<wsVars, ws_hdl_, main>>,
             UNCHANGED prog \/ prog' = [prog EXCEPT ![c] = "quit"]
      PROVE  LoopInv'
  <2>1. UNCHANGED <<wsC, main, ws_hdl_, peer_connection, data_channel>>
        /\ stat' = [stat EXCEPT ![c] = how]
    BY <1>7 DEF DiesAt, Dies, wsVars
  <2> QED BY <1>4, <1>7, <2>1
<1>8. CASE Returns(c) \/ ReleaseConnection(c) \/ DanglingCallback(c)
  <2>1. /\ Up(c) /\ UNCHANGED <<wsVars, ws_hdl_, main, prog>> /\ prog[c] # "work"
        /\ \E how \in {"done", "uaf", "abort"} : DiesAt(c, how)
    BY <1>8 DEF Returns, ReleaseConnection, DanglingCallback, sessionVars
  <2>2. main[c] = "loop"
    BY <1>1, <2>1 DEF Holds
  <2> QED BY <1>7, <2>1, <2>2
<1>9. CASE Quit(c)
  <2>1. /\ Up(c) /\ prog[c] = "exit" /\ prog' = [prog EXCEPT ![c] = "quit"]
        /\ UNCHANGED <<wsVars, ws_hdl_, main>>
        /\ quit(c) \/ \E how \in {"done", "uaf", "abort"} : DiesAt(c, how)
    BY <1>9 DEF Quit
  <2>2. main[c] = "loop" /\ peer_connection[c] # Null
    BY <1>1, <2>1 DEF Holds
  <2>3. CASE quit(c)
    <3>1. /\ stat' = [stat EXCEPT ![c] = IF peer_connection[c] = Null THEN "nullderef" ELSE stat[c]]
          /\ peer_connection' = [peer_connection EXCEPT ![c] = Null]
          /\ data_channel' = [data_channel EXCEPT ![c] = Null]
          /\ UNCHANGED <<wsC, main, ws_hdl_>>
      BY <2>1, <2>3 DEF quit, Dereferences, wsVars
    <3> QED BY <1>4, <2>1, <2>2, <3>1 DEF Up
  <2> QED BY <1>7, <2>1, <2>2, <2>3
<1> QED BY <1>2, <1>3, <1>5, <1>6, <1>8, <1>9 DEF ClientInput, ClientLeaves

-----------------------------------------------------------------------------
(***************************************************************************)
(* The server: run() has returned only with the endpoint stopped and no    *)
(* connection left, so no handler runs beside quit(); and whoever stopped  *)
(* it did so through a data channel, hence there is a peer connection for  *)
(* quit() to close.  The only null pointer it may use is a peer connection *)
(* libwebrtc did not give it.                                              *)
(***************************************************************************)
RunInv ==
    /\ prog[Server] # "work" => /\ endpoint = "stopped"
                                /\ \A c \in Clients : wsS[c] \in {"none", "closed"}
    /\ Up(Server) /\ prog[Server] # "quit" /\ (endpoint # "listening" \/ data_channel[Server] # Null)
       => peer_connection[Server] # Null
    /\ stat[Server] = "nullderef" => prog[Server] = "work" /\ GivenNull(Server)

RunKept ==
    /\ UNCHANGED <<wsS, endpoint>> /\ prog'[Server] = prog[Server]
    /\ peer_connection'[Server] = peer_connection[Server]
    /\ data_channel'[Server] = data_channel[Server]
    /\ Up(Server)' => Up(Server)
    /\ stat'[Server] = "nullderef" => stat[Server] = "nullderef"

LEMMA RunStays ==
    ASSUME RunInv, RunKept
    PROVE  RunInv'
  BY DEF RunInv, RunKept, GivenNull

(* A client never touches the server's pointers. *)
LEMMA RunClient ==
    ASSUME TypeInv, ProgressTyped, RunInv, NEW c \in Clients,
           \/ ClientConnect(c) /\ UNCHANGED sessionVars
           \/ ClientHandshake(c) \/ ClientRefused(c) \/ ClientCallback(c)
           \/ ClientInput(c) \/ ClientLeaves(c)
    PROVE  RunInv'
<1> USE NodeFacts, Domains
<1> DOMAIN prog = Nodes
  BY DEF ProgressTyped
<1>1. ASSUME UNCHANGED <<wsS, endpoint>>, prog'[Server] = prog[Server], Kept(Server)
      PROVE  RunInv'
  BY <1>1, RunStays DEF RunKept, Kept, Up
<1>2. ASSUME ClientConnect(c) \/ ClientMain(c) \/ ClientSignaling(c), UNCHANGED sessionVars
      PROVE  RunInv'
  <2>1. UNCHANGED wsS
    BY <1>2 DEF ClientConnect, WsConnect, ClientMain, ClientConnectFails, ClientOpenHandler,
                ClientMessageHandler, ClientReadsClose, ClientCloseHandler, WsClientCloses, WsClientOpens,
                ClientSignaling, ClientOnSdp, ClientCsdFails, ClientOnIce, ClientOnOpen,
                ClientOnClosed, wsVars
  <2> QED BY <1>1, <1>2, <2>1, ClientKeeps DEF sessionVars
<1>3. ASSUME UNCHANGED <<wsVars, endpoint>>, prog'[Server] = prog[Server],
             (\E q : Sends(c, q)) \/ (\E how : DiesAt(c, how)) \/ quit(c)
      PROVE  RunInv'
  <2>1. Kept(Server)
    BY <1>3 DEF Sends, DiesAt, Dies, quit, Dereferences, Kept
  <2> QED BY <1>1, <1>3, <2>1 DEF wsVars
<1>4. CASE ClientTypes(c) \/ ClientExit(c)
  BY <1>3, <1>4 DEF ClientTypes, ClientExit, client_send
<1>5. CASE ClientEof(c) \/ ClientOnMessage(c)
  <2>1. UNCHANGED <<vars, endpoint>> /\ prog'[Server] = prog[Server]
    BY <1>5 DEF ClientEof, ClientOnMessage
  <2> QED BY <1>1, <2>1 DEF vars, wsVars, rtcVars, Kept
<1>6. CASE Quit(c) \/ Returns(c) \/ ReleaseConnection(c) \/ DanglingCallback(c)
  BY <1>3, <1>6 DEF Quit, Returns, ReleaseConnection, DanglingCallback, sessionVars
<1>7. CASE ClientRefused(c)
  <2>1. UNCHANGED <<wsS, rtcVars, endpoint, prog>>
    BY <1>7 DEF ClientRefused, WsClientCloses, sessionVars
  <2> QED BY <1>1, <2>1 DEF rtcVars, Kept
<1> QED BY <1>2, <1>4, <1>5, <1>6, <1>7
        DEF ClientHandshake, ClientCallback, ClientInput, ClientLeaves

LEMMA RunServer ==
    ASSUME TypeInv, NullInv, ProgressTyped, RunInv,
           ServerCallback \/ ServerLeaves \/ \E c \in Clients : ServerHandshake(c)
    PROVE  RunInv'
<1> USE NodeFacts, Domains
<1> DOMAIN prog = Nodes
  BY DEF ProgressTyped
<1>1. ASSUME NEW c \in Clients, ServerHandshake(c)
      PROVE  RunInv'
  <2>1. ServerMain(c) /\ UNCHANGED <<endpoint, prog>> /\ (endpoint = "listening" \/ wsS[c] # "none")
    BY <1>1 DEF ServerHandshake, sessionVars
  <2>2. wsS[c] # "closed"
    BY <2>1 DEF ServerMain, ServerAccept, WsAccept, ServerOpenHandler, WsServerOpens,
                ServerMessageHandler, ServerCloseHandler
  <2>3. prog[Server] = "work"
    BY <2>1, <2>2 DEF RunInv
  <2>4. NoNewNull
    BY <2>1, NullInvStep DEF Next
  <2>5. /\ Up(Server) /\ UNCHANGED data_channel
        /\ peer_connection'[Server] = Null => ~Up(Server)' \/ peer_connection[Server] = Null
    <3>1. CASE ServerAccept(c) \/ ServerOpenHandler(c) \/ ServerCloseHandler(c)
      BY <3>1 DEF ServerAccept, ServerOpenHandler, ServerCloseHandler, rtcVars
    <3>2. CASE ServerMessageHandler(c)
      <4>1. Head(toS[c]).pc \in Clients
        BY Zenon, <3>2, StreamTyping DEF ServerMessageHandler, Frame
      <4>2. PICK s \in Clients : \/ create_answer_sdp_exits(Server, s) \/ push_ice(Server, s)
                                 \/ create_answer_sdp(Server, s)
        BY Zenon, <3>2, <4>1 DEF ServerMessageHandler
      <4>3. Up(Server)
        BY <3>2 DEF ServerMessageHandler
      <4> QED BY <4>2, <4>3
              DEF create_answer_sdp_exits, Replaces, push_ice, create_answer_sdp, DiesAt, Dies, Up
    <3> QED BY <2>1, <3>1, <3>2 DEF ServerMain
  <2>6. stat'[Server] = "nullderef" => GivenNull(Server)'
    BY <2>4, <2>5 DEF NoNewNull, Up
  <2> QED BY <2>1, <2>3, <2>5, <2>6 DEF RunInv
<1>2. ASSUME ServerSignaling, UNCHANGED sessionVars
      PROVE  RunInv'
  <2>1. stat'[Server] # "nullderef"
    BY <1>2 DEF ServerSignaling, ServerOnSdp, ServerCsdFails, ServerOnIce, ServerOnDataChannel,
                ServerOnOpen, ServerOnClosed, on_success_csd, on_failure_csd, on_ice_candidate,
                OnDataChannel, on_state_change, on_success, ws_server_send, Dies, Up
  <2>2. UNCHANGED <<peer_connection, endpoint, prog>> /\ Up(Server)
    BY <1>2 DEF sessionVars, ServerSignaling, ServerOnSdp, ServerCsdFails, ServerOnIce,
                ServerOnDataChannel, ServerOnOpen, ServerOnClosed, on_success_csd, on_failure_csd,
                on_ice_candidate, OnDataChannel, on_state_change
  <2>3. data_channel'[Server] # Null => data_channel[Server] # Null \/ peer_connection[Server] # Null
    BY <1>2 DEF ServerSignaling, ServerOnSdp, ServerCsdFails, ServerOnIce,
                ServerOnDataChannel, ServerOnOpen, ServerOnClosed, on_success_csd, on_failure_csd,
                on_ice_candidate, OnDataChannel, on_state_change
  <2>4. \/ UNCHANGED wsS
        \/ ws_hdl_[Server] # Null /\ wsS[ws_hdl_[Server]] = "open"
    BY Zenon, <1>2 DEF ServerSignaling, ServerOnSdp, ServerCsdFails, ServerOnIce,
                ServerOnDataChannel, ServerOnOpen, ServerOnClosed, on_success, wsVars
  <2>5. ws_hdl_[Server] \in Clients \cup {Null}
    BY DEF TypeInv, TypeOK
  <2>6. prog[Server] # "work" => UNCHANGED wsS
    BY <2>4, <2>5 DEF RunInv
  <2> QED BY <2>1, <2>2, <2>3, <2>6 DEF RunInv
<1>3. ASSUME NEW c \in Clients, ServerOnMessage(c)
      PROVE  RunInv'
  <2>1. /\ Up(Server) /\ data_channel[Server] = c
        /\ UNCHANGED <<wsS, prog, peer_connection, data_channel>>
        /\ UNCHANGED endpoint \/ endpoint' = "stopped"
    BY Zenon, <1>3 DEF ServerOnMessage, stop_listening, server_send, Sends, wsVars
  <2>2. stat'[Server] = "nullderef" => stat[Server] = "nullderef"
    <3>1. (\E q : Sends(Server, q)) \/ UNCHANGED stat \/ Dies(Server, "abort")
      BY Zenon, <1>3 DEF ServerOnMessage, stop_listening, server_send
    <3> QED BY <2>1, <3>1 DEF Sends, Dies
  <2> QED BY <2>1, <2>2 DEF RunInv, Up
<1>4. CASE ServerReturnsFromRun
  <2>1. /\ Up(Server) /\ endpoint = "stopped" /\ \A c \in Clients : wsS[c] \in {"none", "closed"}
        /\ prog[Server] = "work" /\ prog'[Server] = "exit" /\ UNCHANGED <<vars, endpoint>>
    BY <1>4 DEF ServerReturnsFromRun
  <2> QED BY <2>1 DEF RunInv, vars, wsVars, rtcVars, Up
<1>5. CASE Quit(Server)
  <2>1. /\ Up(Server) /\ prog[Server] = "exit" /\ prog'[Server] = "quit" /\ UNCHANGED <<wsS, endpoint>>
        /\ quit(Server) \/ \E how \in {"uaf", "abort"} : DiesAt(Server, how)
    BY <1>5 DEF Quit, wsVars
  <2>2. peer_connection[Server] # Null
    BY <2>1 DEF RunInv
  <2>3. stat'[Server] # "nullderef"
    BY <2>1, <2>2 DEF quit, Dereferences, DiesAt, Dies, Up
  <2> QED BY <2>1, <2>3 DEF RunInv
<1>6. CASE Returns(Server)
  <2>1. /\ UNCHANGED <<wsS, endpoint, prog>> /\ stat'[Server] = "done"
    BY <1>6 DEF Returns, DiesAt, Dies, wsVars, sessionVars
  <2> QED BY <2>1 DEF RunInv, Up
<1> QED BY <1>1, <1>2, <1>3, <1>4, <1>5, <1>6 DEF ServerCallback, ServerLeaves

(***************************************************************************)
(* quit() clears the peer connection of a client whose connection is gone, *)
(* and that of the server when every connection is; so NullInv holds to    *)
(* the end.                                                                *)
(***************************************************************************)
LEMMA NullInvEnding ==
    ASSUME TypeInv, NullInv, SilentInv, LoopInv, RunInv, Ending
    PROVE  NullInv'
<1> USE NodeFacts, Domains
<1>1. ClientHolds'
  <2> SUFFICES ASSUME NEW c \in Clients, Up(c)', wsC'[c] = "open"
               PROVE  peer_connection'[c] # Null
    BY DEF ClientHolds
  <2>1. Up(c) /\ wsC[c] = "open" /\ peer_connection[c] # Null
    BY EndingEffects DEF NullInv, Handshake, ClientHolds
  <2>2. prog[c] # "exit"
    BY <2>1 DEF LoopInv, Holds
  <2> QED BY <2>1, <2>2, EndingEffects
<1>2. OfferFirst'
  <2> SUFFICES ASSUME Up(Server)', peer_connection'[Server] = Null, NEW c \in Clients, wsS'[c] # "closed"
               PROVE  /\ toS'[c] # <<>> => Head(toS'[c]).type = "offer"
                      /\ Up(c)' /\ sig'[c] # "none" => toS'[c] # <<>>
    BY DEF OfferFirst
  <2>1. Up(Server) /\ wsS[c] # "closed" /\ toS'[c] = toS[c] /\ (Up(c)' => Up(c))
        /\ (sig'[c] # "none" => sig[c] # "none")
    BY EndingEffects
  <2>2. CASE peer_connection[Server] = Null
    BY <2>1, <2>2 DEF NullInv, Handshake, OfferFirst
  <2>3. CASE prog[Server] = "exit"
    BY <2>1, <2>3 DEF RunInv, SilentInv
  <2> QED BY <2>2, <2>3, EndingEffects
<1>3. Fresh'
  <2> SUFFICES ASSUME NEW c \in Clients, wsC'[c] \in {"none", "connecting"}
               PROVE  peer_connection'[c] = Null /\ data_channel'[c] = Null /\ dcState'[c] = "none"
    BY DEF Fresh
  <2>1. wsC[c] = wsC'[c]
    BY EndingEffects
  <2>2. peer_connection[c] = Null /\ data_channel[c] = Null /\ dcState[c] = "none"
    BY <2>1 DEF NullInv, Fresh
  <2>3. prog[c] # "exit"
    BY <2>1 DEF LoopInv, Holds
  <2> QED BY <2>2, <2>3, EndingEffects
<1> QED BY <1>1, <1>2, <1>3 DEF NullInv, Handshake

EndInv == TypeInv /\ ProgressTyped /\ NullInv /\ SilentInv /\ LoopInv /\ RunInv

LEMMA EndInvStep == EndInv /\ [SessionNext]_allVars => EndInv'
<1> SUFFICES ASSUME EndInv, [SessionNext]_allVars PROVE EndInv'
  OBVIOUS
<1> USE NodeFacts, Domains DEF EndInv
<1>1. TypeInv' /\ ProgressTyped' /\ ([Next]_vars \/ Ending)
  BY SessionTypeInvStep, ProgressStep, SessionMoves
<1>2. SilentInv' /\ NullInv'
  BY <1>1, SilentStep, NullInvStep, NullInvEnding
<1>3. ASSUME \A d \in Clients : HoldsKept(d)
      PROVE  LoopInv'
  BY <1>3, HoldsStays DEF LoopInv
<1>4. ASSUME NEW n \in Nodes, Kill(n), UNCHANGED sessionVars
      PROVE  LoopInv' /\ RunInv'
  <2>1. /\ UNCHANGED <<wsC, wsS, main, ws_hdl_, prog, endpoint, peer_connection, data_channel>>
        /\ \A p \in Nodes : stat'[p] = stat[p] \/ stat'[p] = "killed"
    BY <1>4 DEF Kill, DiesAt, Dies, wsVars, sessionVars
  <2>2. LoopInv'
    BY <2>1 DEF LoopInv, Holds, GivenNull, Up
  <2> QED BY <2>1, <2>2, RunStays DEF RunKept, Up
<1>5. CASE UNCHANGED allVars
  <2>1. UNCHANGED <<wsC, wsS, main, ws_hdl_, prog, endpoint, peer_connection, data_channel, stat>>
    BY <1>5 DEF allVars, vars, wsVars, rtcVars, sessionVars
  <2> QED BY <1>1, <1>2, <1>3, <2>1, RunStays DEF RunKept, HoldsKept, Up
<1>6. ASSUME NEW c \in Clients,
             \/ ClientConnect(c) /\ UNCHANGED sessionVars
             \/ ClientHandshake(c) \/ ClientRefused(c) \/ ClientCallback(c)
             \/ ClientInput(c) \/ ClientLeaves(c)
      PROVE  LoopInv' /\ RunInv'
  <2>1. RunInv'
    BY <1>6, RunClient
  <2>2. LoopInv'
    BY <1>6, HandshakeHolds, LoopHolds DEF ClientHandshake, ClientCallback, sessionVars
  <2> QED BY <2>1, <2>2
<1>7. ASSUME ServerCallback \/ ServerLeaves \/ \E c \in Clients : ServerHandshake(c)
      PROVE  LoopInv' /\ RunInv'
  <2>1. RunInv'
    BY <1>7, RunServer
  <2>2. \A d \in Clients : HoldsKept(d)
    <3> SUFFICES ASSUME NEW d \in Clients PROVE HoldsKept(d)
      OBVIOUS
    <3>1. ASSUME ServerSignaling \/ \E c \in Clients : ServerMain(c), UNCHANGED sessionVars
          PROVE  HoldsKept(d)
      BY <3>1, ServerKeeps DEF HoldsKept, Kept, sessionVars
    <3>2. ASSUME UNCHANGED <<wsVars, ws_hdl_, main>>, prog'[d] = prog[d],
                 (\E q : Sends(Server, q)) \/ (\E how : DiesAt(Server, how)) \/ quit(Server)
                 \/ UNCHANGED rtcVars
          PROVE  HoldsKept(d)
      BY <3>2 DEF HoldsKept, Sends, DiesAt, Dies, quit, Dereferences, wsVars, rtcVars
    <3>3. ASSUME NEW c \in Clients, ServerOnMessage(c)
          PROVE  HoldsKept(d)
      BY Zenon, <3>2, <3>3 DEF ServerOnMessage, stop_listening, server_send, DiesAt, rtcVars
    <3>4. CASE ServerLeaves
      <4>1. CASE ServerReturnsFromRun
        BY <3>2, <4>1 DEF ServerReturnsFromRun, ProgressTyped, vars
      <4>2. CASE Quit(Server) \/ Returns(Server)
        BY <3>2, <4>2 DEF Quit, Returns, ProgressTyped, sessionVars
      <4> QED BY <3>4, <4>1, <4>2 DEF ServerLeaves
    <3> QED BY <1>7, <3>1, <3>3, <3>4 DEF ServerCallback, ServerHandshake
  <2> QED BY <1>3, <2>1, <2>2
<1> HIDE DEF EndInv
<1>8. LoopInv' /\ RunInv'
  BY <1>4, <1>5, <1>6, <1>7 DEF SessionNext, EndInv
<1> QED BY <1>1, <1>2, <1>8 DEF EndInv

(***************************************************************************)
(* From the first connection to the end of the processes, for any number   *)
(* of clients and whatever fails: send() and quit() (webrtc_manager.h:396, *)
(* 409) use the pointers unchecked, and the server, and every client whose *)
(* WebSocket opened, has by then the pointer they use.  A process that     *)
(* dies of a null one never connected, or died in a handler at the pointer *)
(* that libwebrtc had just failed to give it.                              *)
(***************************************************************************)
THEOREM NullWhereUnconnected == SessionSpec => []NullOnlyUnconnected
<1>1. SessionInit => EndInv
  <2> SUFFICES ASSUME SessionInit PROVE EndInv
    OBVIOUS
  <2>1. TypeInv /\ NullInv
    BY TypeInvInit, NullInvInit DEF SessionInit
  <2>2. ProgressTyped /\ SilentInv /\ LoopInv /\ RunInv
    BY NodeFacts DEF SessionInit, Init, WsInit, RtcInit, ProgressTyped, Progress, SilentInv, LoopInv,
                     Holds, RunInv, Up
  <2> QED BY <2>1, <2>2 DEF EndInv
<1>2. EndInv => NullOnlyUnconnected
  BY NodeFacts DEF EndInv, LoopInv, Holds, RunInv, GivenNull, InInputLoop, NullOnlyUnconnected
<1> QED BY <1>1, <1>2, EndInvStep, PTL DEF SessionSpec
=============================================================================
