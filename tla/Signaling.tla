----------------------------- MODULE Signaling -----------------------------
(***************************************************************************)
(* The WebRTC handshake between server.cpp and client.cpp: the handlers of *)
(* WebSocketServerManager and WebSocketClientManager, composed with the    *)
(* WebRTCManager each of them owns and with the WebSocket between them.    *)
(*                                                                         *)
(* A process has two threads that matter here.  Its main thread is inside  *)
(* ws_server_.run() or ws_client_.run() and executes the WebSocket         *)
(* handlers; its signaling thread executes the WebRTC callbacks, which use *)
(* the WebSocket too.  Every step of the one interleaves with every step   *)
(* of the other, and with the steps of the other processes.                *)
(*                                                                         *)
(* An exception that leaves a handler or a callback ends the process: no   *)
(* caller catches it (main has none, the signaling thread has none).       *)
(***************************************************************************)
EXTENDS WebSocket, WebRTCManager, FiniteSets

VARIABLES
    ws_hdl_,        \* [Nodes -> connection or Null]: the handle a process sends on
    main            \* [Clients -> start, run, loop]: where main() of a client is

vars == <<wsVars, rtcVars, ws_hdl_, main>>

TypeOK ==
    /\ WsTypeOK
    /\ RtcTypeOK
    /\ ws_hdl_ \in [Nodes -> Clients \cup {Null}]
    /\ main \in [Clients -> {"start", "run", "loop"}]

(* The server is constructed and in run(); the clients are not started. *)
Init ==
    /\ WsInit
    /\ RtcInit
    /\ ws_hdl_ = [n \in Nodes |-> Null]
    /\ main = [c \in Clients |-> "start"]

-----------------------------------------------------------------------------
(***************************************************************************)
(* Sending on the handle.  send() without an error_code argument throws    *)
(* when the handle is empty, its connection is gone or not open.           *)
(***************************************************************************)
ws_client_send(c, m) ==
    IF ws_hdl_[c] = c /\ wsC[c] = "open"
    THEN toS' = [toS EXCEPT ![c] = Append(@, m)] /\ UNCHANGED stat
    ELSE Dies(c, "abort") /\ UNCHANGED toS

(* hdl is the value of ws_hdl_ that the callback reads. *)
ws_server_send(hdl, m) ==
    IF hdl # Null /\ wsS[hdl] = "open"
    THEN toC' = [toC EXCEPT ![hdl] = Append(@, m)] /\ UNCHANGED stat
    ELSE Dies(Server, "abort") /\ UNCHANGED toC

-----------------------------------------------------------------------------
(* The client's main thread. *)

(* Mutant: the offer is requested before the connection is open. *)
ClientConnect_offers(c) ==
    /\ Up(c)
    /\ main[c] = "start"
    /\ WsConnect(c)
    /\ create_offer_sdp(c)
    /\ main' = [main EXCEPT ![c] = "run"]
    /\ UNCHANGED ws_hdl_

(***************************************************************************)
(* The end of the constructor: connect() and run().                        *)
(***************************************************************************)
ClientConnect(c) ==
    /\ Up(c)
    /\ main[c] = "start"
    /\ WsConnect(c)
    /\ main' = [main EXCEPT ![c] = "run"]
    /\ UNCHANGED <<rtcVars, ws_hdl_>>

(***************************************************************************)
(* The connection is refused or dropped before it opened.  There is no     *)
(* fail handler: run() has nothing left to do and returns to main().       *)
(***************************************************************************)
ClientConnectFails(c) ==
    /\ Up(c)
    /\ wsC[c] = "connecting"
    /\ ~Up(Server) \/ ("refused" \in Faults /\ wsS[c] = "none")
    /\ WsClientCloses(c)
    /\ main' = [main EXCEPT ![c] = "loop"]
    /\ UNCHANGED <<rtcVars, ws_hdl_>>

(* WebSocketClientManager::OpenHandler *)
ClientOpenHandler(c) ==
    /\ Up(c)
    /\ WsClientOpens(c)
    /\ ws_hdl_' = [ws_hdl_ EXCEPT ![c] = c]
    /\ create_offer_sdp(c)
    /\ UNCHANGED main

(* WebSocketClientManager::MessageHandler *)
ClientMessageHandler(c) ==
    /\ Up(c)
    /\ wsC[c] = "open"
    /\ toC[c] # <<>>
    /\ LET m == Head(toC[c]) IN
          \/ m.type = "answer" /\ push_reply_sdp(c, m.pc)
          \/ m.type = "ice" /\ push_ice(c, m.pc)
    /\ ws_hdl_' = [ws_hdl_ EXCEPT ![c] = c]
    /\ toC' = [toC EXCEPT ![c] = Tail(@)]
    /\ UNCHANGED <<wsC, wsS, toS, main>>

(* websocketpp reads the close frame and acknowledges it; no handler runs. *)
ClientReadsClose(c) ==
    /\ Up(c)
    /\ wsC[c] = "open"
    /\ toC[c] # <<>>
    /\ Head(toC[c]).type = "close"
    /\ wsC' = [wsC EXCEPT ![c] = "closing"]
    /\ toC' = [toC EXCEPT ![c] = Tail(@)]
    /\ UNCHANGED <<wsS, toS, rtcVars, ws_hdl_, main>>

(***************************************************************************)
(* WebSocketClientManager::CloseHandler, after the close handshake or when *)
(* the server's end went away; then run() returns to main().               *)
(***************************************************************************)
ClientCloseHandler(c) ==
    /\ Up(c)
    /\ \/ wsC[c] = "closing"
       \/ wsC[c] = "open" /\ (wsS[c] = "closed" \/ ~Up(Server))
    /\ WsClientCloses(c)
    /\ ws_hdl_' = [ws_hdl_ EXCEPT ![c] = c]
    /\ main' = [main EXCEPT ![c] = "loop"]
    /\ UNCHANGED rtcVars

ClientMain(c) ==
    \/ ClientConnectFails(c)
    \/ ClientOpenHandler(c)
    \/ ClientMessageHandler(c)
    \/ ClientReadsClose(c)
    \/ ClientCloseHandler(c)

-----------------------------------------------------------------------------
(* The client's signaling thread. *)

(* Mutant: the offer is sent twice. *)
ClientOnSdp_twice(c) ==
    /\ Up(c)
    /\ on_success_csd(c)
    /\ toS' = [toS EXCEPT ![c] = @ \o <<FrameOf("offer", c), FrameOf("offer", c)>>]
    /\ UNCHANGED <<stat, wsC, wsS, toC, ws_hdl_, main>>

(* The offer is ready: on_success_csd, then on_sdp sends it. *)
ClientOnSdp(c) ==
    /\ Up(c)
    /\ on_success_csd(c)
    /\ ws_client_send(c, FrameOf("offer", c))
    /\ UNCHANGED <<wsC, wsS, toC, ws_hdl_, main>>

ClientCsdFails(c) ==
    /\ Up(c)
    /\ on_failure_csd(c)
    /\ UNCHANGED <<wsVars, ws_hdl_, main>>

(* A candidate is gathered: on_ice lists it and sends it. *)
ClientOnIce(c) ==
    /\ Up(c)
    /\ on_ice_candidate(c)
    /\ ws_client_send(c, FrameOf("ice", c))
    /\ UNCHANGED <<wsC, wsS, toC, ws_hdl_, main>>

(***************************************************************************)
(* The two peer connections of a session can reach each other: each has    *)
(* applied the other's description, and one of them knows a candidate of   *)
(* the other (the other learns the reverse path from the checks).          *)
(***************************************************************************)
Reachable(c) ==
    /\ Up(Server)
    /\ peer_connection[Server] = c /\ sig[Server] = "stable"
    /\ sig[c] = "stable" /\ remote[c] = c
    /\ c \in added[c] \/ c \in added[Server]

(***************************************************************************)
(* The client's data channel opens as soon as the transport is up, and its *)
(* in-band OPEN message leaves.  on_success only logs.                     *)
(***************************************************************************)
ClientOnOpen(c) ==
    /\ Up(c)
    /\ Reachable(c)
    /\ dcState[c] = "connecting"
    /\ on_state_change(c, "open")
    /\ UNCHANGED <<stat, wsVars, ws_hdl_, main>>

(* The server's end of the session is gone, or only its data channel. *)
ClientOnClosed(c) ==
    /\ Up(c)
    /\ dcState[c] = "open"
    /\ \/ ~Up(Server)
       \/ peer_connection[Server] # c
       \/ data_channel[Server] = c /\ dcState[Server] = "closed"
    /\ on_state_change(c, "closed")
    /\ UNCHANGED <<stat, wsVars, ws_hdl_, main>>

(***************************************************************************)
(* The observers PCO, DCO, CSDO and SSDO.  The callbacks not listed change *)
(* nothing: they log, a failure of ICE (PCO::OnIceConnectionChange)        *)
(* included, and SSDO::OnSuccess calls on_accept_ice only when it is set,  *)
(* which neither program does.                                             *)
(***************************************************************************)
ClientSignaling(c) ==
    \/ ClientOnSdp(c)
    \/ ClientCsdFails(c)
    \/ ClientOnIce(c)
    \/ ClientOnOpen(c)
    \/ ClientOnClosed(c)

-----------------------------------------------------------------------------
(* The server's main thread. *)

ServerAccept(c) ==
    /\ Up(Server)
    /\ WsAccept(c)
    /\ UNCHANGED <<rtcVars, ws_hdl_, main>>

(* WebSocketServerManager::OpenHandler *)
ServerOpenHandler(c) ==
    /\ Up(Server)
    /\ WsServerOpens(c)
    /\ ws_hdl_' = [ws_hdl_ EXCEPT ![Server] = c]
    /\ UNCHANGED <<rtcVars, main>>

(***************************************************************************)
(* The request for the previous answer, when create_answer_sdp replaces    *)
(* the peer connection before it completed.  The released peer connection  *)
(* fails it (CSDO::OnFailure, or nothing was outstanding), or its OnSuccess*)
(* still runs: on_success_csd gives the description to the NEW peer        *)
(* connection, which refuses and frees it, and then reads it.  Reading     *)
(* freed memory ends the process or yields the text it held.               *)
(***************************************************************************)
StaleAnswer(hdl) ==
    \/ UNCHANGED <<stat, toC>>
    \/ Server \in csd /\ Dies(Server, "uaf") /\ UNCHANGED toC
    \/ Server \in csd /\ ws_server_send(hdl, FrameOf("answer", peer_connection[Server]))

(***************************************************************************)
(* The same request where create_answer_sdp exits: the answer may have     *)
(* left before, from the old peer connection or from the freed text.       *)
(***************************************************************************)
LastAnswer(hdl) ==
    \/ UNCHANGED toC
    \/ /\ Server \in csd /\ stat'[Server] = "exit"
       /\ toC' = [toC EXCEPT ![hdl] = Append(@, FrameOf("answer", peer_connection[Server]))]

(* WebSocketServerManager::MessageHandler *)
ServerMessageHandler(c) ==
    /\ Up(Server)
    /\ wsS[c] = "open"
    /\ toS[c] # <<>>
    /\ ws_hdl_' = [ws_hdl_ EXCEPT ![Server] = c]
    /\ toS' = [toS EXCEPT ![c] = Tail(@)]
    /\ LET m == Head(toS[c]) IN
          \/ m.type = "offer" /\ create_answer_sdp_exits(Server, m.pc) /\ LastAnswer(c)
          \/ m.type = "offer" /\ create_answer_sdp(Server, m.pc) /\ StaleAnswer(c)
          \/ m.type = "ice" /\ push_ice(Server, m.pc) /\ UNCHANGED toC
    /\ UNCHANGED <<wsC, wsS, main>>

(***************************************************************************)
(* WebSocketServerManager::CloseHandler, after the close handshake or when *)
(* the client's end went away.                                             *)
(***************************************************************************)
ServerCloseHandler(c) ==
    /\ Up(Server)
    /\ \/ wsS[c] = "closing"
       \/ wsS[c] = "open" /\ ~Up(c)
    /\ WsServerCloses(c)
    /\ ws_hdl_' = [ws_hdl_ EXCEPT ![Server] = c]
    /\ UNCHANGED <<rtcVars, main>>

ServerMain(c) ==
    \/ ServerAccept(c)
    \/ ServerOpenHandler(c)
    \/ ServerMessageHandler(c)
    \/ ServerCloseHandler(c)

-----------------------------------------------------------------------------
(* The server's signaling thread. *)

(* Mutant: the answer carries a type that no handler knows. *)
ServerOnSdp_mistyped ==
    /\ Up(Server)
    /\ on_success_csd(Server)
    /\ ws_server_send(ws_hdl_[Server], FrameOf("sdp", peer_connection[Server]))
    /\ UNCHANGED <<wsC, wsS, toS, ws_hdl_, main>>

(* Mutant: the WebSocket is closed as soon as the answer is out. *)
ServerOnSdp_closes ==
    /\ Up(Server)
    /\ on_success_csd(Server)
    /\ LET c == peer_connection[Server] IN
          /\ wsS' = [wsS EXCEPT ![c] = "closing"]
          /\ toC' = [toC EXCEPT ![c] = @ \o <<FrameOf("answer", c), FrameOf("close", c)>>]
    /\ UNCHANGED <<stat, wsC, toS, ws_hdl_, main>>

(* The answer is ready: on_success_csd, then on_sdp sends it. *)
ServerOnSdp ==
    /\ Up(Server)
    /\ on_success_csd(Server)
    /\ ws_server_send(ws_hdl_[Server], FrameOf("answer", peer_connection[Server]))
    /\ UNCHANGED <<wsC, wsS, toS, ws_hdl_, main>>

ServerCsdFails ==
    /\ Up(Server)
    /\ on_failure_csd(Server)
    /\ UNCHANGED <<wsVars, ws_hdl_, main>>

(* A candidate is gathered: on_ice lists it and sends it. *)
ServerOnIce ==
    /\ Up(Server)
    /\ on_ice_candidate(Server)
    /\ ws_server_send(ws_hdl_[Server], FrameOf("ice", peer_connection[Server]))
    /\ UNCHANGED <<wsC, wsS, toS, ws_hdl_, main>>

(* The OPEN message of the client's data channel arrived. *)
ServerOnDataChannel ==
    /\ Up(Server)
    /\ sig[Server] = "stable"
    /\ data_channel[Server] # peer_connection[Server]
    /\ dcState[peer_connection[Server]] = "open"
    /\ OnDataChannel(Server)
    /\ UNCHANGED <<wsVars, ws_hdl_, main>>

(***************************************************************************)
(* on_success: pause_reading() and close() on the handle.  Both throw on a *)
(* connection that is gone, close() also on one that is not open.          *)
(***************************************************************************)
on_success(hdl) ==
    IF hdl # Null /\ wsS[hdl] = "open"
    THEN /\ wsS' = [wsS EXCEPT ![hdl] = "closing"]
         /\ toC' = [toC EXCEPT ![hdl] = Append(@, FrameOf("close", hdl))]
         /\ UNCHANGED stat
    ELSE Dies(Server, "abort") /\ UNCHANGED <<wsS, toC>>

(* Mutant: on_success is not called. *)
ServerOnOpen_stays ==
    /\ Up(Server)
    /\ dcState[Server] = "connecting"
    /\ on_state_change(Server, "open")
    /\ UNCHANGED <<stat, wsVars, ws_hdl_, main>>

(* The server's data channel is open; on_success closes the WebSocket. *)
ServerOnOpen ==
    /\ Up(Server)
    /\ dcState[Server] = "connecting"
    /\ on_state_change(Server, "open")
    /\ on_success(ws_hdl_[Server])
    /\ UNCHANGED <<wsC, toS, ws_hdl_, main>>

(* The client of the session is gone, or only its data channel. *)
ServerOnClosed ==
    /\ Up(Server)
    /\ dcState[Server] \in {"connecting", "open"}
    /\ ~Up(data_channel[Server]) \/ dcState[data_channel[Server]] = "closed"
    /\ on_state_change(Server, "closed")
    /\ UNCHANGED <<stat, wsVars, ws_hdl_, main>>

(* The same observers, in the server. *)
ServerSignaling ==
    \/ ServerOnSdp
    \/ ServerCsdFails
    \/ ServerOnIce
    \/ ServerOnDataChannel
    \/ ServerOnOpen
    \/ ServerOnClosed

-----------------------------------------------------------------------------
(* A process is killed from outside. *)
Kill(n) ==
    /\ "kill" \in Faults
    /\ Up(n)
    /\ DiesAt(n, "killed")
    /\ UNCHANGED <<wsVars, ws_hdl_, main>>

Next ==
    \/ \E c \in Clients :
          \/ ClientConnect(c)
          \/ ClientMain(c)
          \/ ClientSignaling(c)
          \/ ServerMain(c)
    \/ ServerSignaling
    \/ \E n \in Nodes : Kill(n)

Spec == Init /\ [][Next]_vars

(***************************************************************************)
(* Both threads of a process keep running: an event loop that has a frame, *)
(* an accepted connection or a timer takes it up, and the signaling thread *)
(* delivers every callback libwebrtc owes.  Starting a client is the       *)
(* user's choice and is not fair; neither is being killed.                 *)
(***************************************************************************)
Fairness ==
    /\ \A c \in Clients :
          /\ WF_vars(ClientMain(c))
          /\ WF_vars(ClientSignaling(c))
          /\ WF_vars(ServerMain(c))
    /\ WF_vars(ServerSignaling)

FairSpec == Spec /\ Fairness

-----------------------------------------------------------------------------
(***************************************************************************)
(* Properties of any number of clients, whatever fails.                    *)
(***************************************************************************)

(* What CreatePeerConnection or CreateDataChannel returned is null. *)
GivenNull(n) ==
    \/ "pc" \in Faults /\ peer_connection[n] = Null
    \/ "dc" \in Faults /\ n \in Clients /\ data_channel[n] = Null

(***************************************************************************)
(* push_ice and push_reply_sdp use connection.peer_connection unchecked,   *)
(* and a message could find it null.  None does, in either program: a      *)
(* client sends its candidates behind its offer, and gets answers only     *)
(* when it has made one.  Every null pointer that is used is one that      *)
(* CreatePeerConnection or CreateDataChannel has just returned: to         *)
(* create_offer_sdp, or, in the server, in place of a peer connection      *)
(* whose OnSuccess is still to come.                                       *)
(***************************************************************************)
NoNullDeref ==
    /\ \A c \in Clients :
          /\ Up(c) /\ wsC[c] = "open" /\ toC[c] # <<>> => peer_connection[c] # Null
          /\ /\ Up(Server) /\ wsS[c] = "open" /\ toS[c] # <<>>
             /\ Head(toS[c]).type # "offer"
             => peer_connection[Server] # Null
    /\ \A n \in Nodes :
          stat[n] = "nullderef" => GivenNull(n)

(* The data channel of the client has been open. *)
Connected(c) == dcState[c] \in {"open", "closed"}

(***************************************************************************)
(* A send on a WebSocket that is not open throws, and ends the process.    *)
(* The callbacks (server.cpp:31,63,69, client.cpp:34,58) send without      *)
(* looking, on whatever handle is stored, while other clients come and     *)
(* move it.  Nevertheless no send throws until some data channel has been  *)
(* open, or some other process has ended.                                  *)
(***************************************************************************)
AbortNeedsCause ==
    \A n \in Nodes :
        stat[n] = "abort"
        => (\E c \in Clients : Connected(c)) \/ (\E m \in Nodes \ {n} : ~Up(m))

AnswersIn(q, s) == {i \in DOMAIN q : q[i] = FrameOf("answer", s)}

(***************************************************************************)
(* An offer is answered at most once, and the answer is applied by at most *)
(* one client: replacing the peer connection while its answer is being     *)
(* made neither duplicates that answer nor hands it out twice.             *)
(***************************************************************************)
OneAnswerPerOffer ==
    \A s \in Clients :
        LET queued == UNION {{<<c, i>> : i \in AnswersIn(toC[c], s)} : c \in Clients}
            applied == {c \in Clients : remote[c] = s}
            making == IF Server \in csd /\ peer_connection[Server] = s THEN 1 ELSE 0
        IN  Cardinality(queued) + Cardinality(applied) + making <= 1

-----------------------------------------------------------------------------
(***************************************************************************)
(* Properties of the intended use: one client, and nothing fails.          *)
(***************************************************************************)

(***************************************************************************)
(* "DataChannel created. WebSocketClientManager exits its blocking state." *)
(* (client.cpp:61): the client's main thread stays in the constructor, so  *)
(* that main() cannot send, until its data channel has been open.          *)
(***************************************************************************)
HeldUntilConnected ==
    \A c \in Clients : main[c] = "loop" => Connected(c)

(***************************************************************************)
(* A send that throws ends the process.  While the two sides still need    *)
(* the WebSocket, no send throws: the server closes it only after the      *)
(* data channel is open at both ends.                                      *)
(***************************************************************************)
NoAbortBeforeConnected ==
    \A n \in Nodes, c \in Clients : stat[n] = "abort" => Connected(c)

(***************************************************************************)
(* AddIceCandidate refuses a candidate that arrives before the remote      *)
(* description, and push_ice ignores that: the candidate would be lost.    *)
(* It does not happen, the answer always gets to the client first.         *)
(***************************************************************************)
NoEarlyCandidate ==
    \A c \in Clients :
        /\ wsC[c] = "open" /\ toC[c] # <<>> /\ Head(toC[c]).type = "ice"
        => sig[c] = "stable"

(***************************************************************************)
(* CreateOffer of c, or CreateAnswer of the server, has failed: OnFailure  *)
(* wrote a line of log, and nothing will be sent.                          *)
(***************************************************************************)
Undescribed(c) ==
    \/ peer_connection[c] = c /\ sig[c] = "none" /\ c \notin csd
    \/ peer_connection[Server] = c /\ sig[Server] = "remote" /\ Server \notin csd

(***************************************************************************)
(* A client that started does not stay in run() for ever: it gets to its   *)
(* input loop, or its process has ended.  Two things can hold it there: a  *)
(* description that could not be created, and an ICE connection that does  *)
(* not get through.  The second is assumed away (Reachable, and the        *)
(* fairness of ClientSignaling): PCO::OnIceConnectionChange only logs it.  *)
(***************************************************************************)
EveryClientReleased ==
    \A c \in Clients :
        main[c] = "run" ~> (main[c] = "loop" \/ ~Up(c) \/ Undescribed(c))

(***************************************************************************)
(* The server does not keep a WebSocket for ever: run() can only return    *)
(* once every connection is gone.  The exception and the assumption are    *)
(* the same.                                                               *)
(***************************************************************************)
EveryConnectionReleased ==
    \A c \in Clients :
        wsS[c] = "open" ~> (wsS[c] = "closed" \/ ~Up(Server) \/ Undescribed(c))

-----------------------------------------------------------------------------
(***************************************************************************)
(* What the code or its comments say, and the model refutes.               *)
(***************************************************************************)

(***************************************************************************)
(* "if (connection.peer_connection.get() == nullptr) ... exit" (webrtc_    *)
(* manager.h:310): a failed CreatePeerConnection is reported and ends the  *)
(* process with EXIT_FAILURE, never by using the null pointer.             *)
(***************************************************************************)
PeerConnectionFailureIsReported ==
    \A n \in Nodes : stat[n] # "nullderef"

(***************************************************************************)
(* "The server and client exchange their ICE candidate list" (server.cpp:  *)
(* 148, client.cpp:156): a candidate that on_ice puts on ice_list_ is sent *)
(* to the peer, so no send of it throws.                                   *)
(***************************************************************************)
EveryListedCandidateIsSent ==
    \A n \in Nodes : stat[n] # "abort"

(***************************************************************************)
(* "Whenever there is a WebSocket callback, we update this handler. In our *)
(* use case, they shall all be the same one." (server.cpp:143): while an   *)
(* answer is being made, ws_hdl_ is the connection its offer came from.    *)
(***************************************************************************)
HandleIsTheOfferers ==
    Server \in csd => ws_hdl_[Server] = peer_connection[Server]
=============================================================================
