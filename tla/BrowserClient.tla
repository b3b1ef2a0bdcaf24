--------------------------- MODULE BrowserClient ---------------------------
(***************************************************************************)
(* The other client, webrtc_client.js on the page client.html, and the     *)
(* server of Session.  Here Clients are the WebSockets that one page opens *)
(* in turn, one per click on "connect"; the peer connection and the data   *)
(* channel that the open event of a socket makes go by its name.           *)
(*                                                                         *)
(* The page is one thread of events: every handler below is a step.  The   *)
(* three globals name what the handlers use, whichever socket or peer      *)
(* connection the event is about.  An exception ends a handler and nothing *)
(* else: what it did not get to is left undone.                            *)
(***************************************************************************)
EXTENDS Session

VARIABLES
    webSocketConnection, peerConnection, dataChannel,   \* the globals: Clients \cup {Null}
    hasty           \* whether "connect" was ever clicked before the last attempt was over

globals == <<webSocketConnection, peerConnection, dataChannel>>
browserVars == <<allVars, globals, hasty>>

(* What only the C++ client has. *)
nativeVars == <<ws_hdl_, main, prog>>

BrowserInit ==
    /\ SessionInit
    /\ webSocketConnection = Null /\ peerConnection = Null /\ dataChannel = Null
    /\ hasty = FALSE

(* The attempt is under way: neither refused, nor connected, nor closed. *)
Trying(c) == wsC[c] = "connecting" \/ dcState[c] = "connecting"

-----------------------------------------------------------------------------
(* connect(), a click *)
connect(c) ==
    /\ Up(c)
    /\ WsConnect(c)
    /\ webSocketConnection' = c
    /\ hasty' = (hasty \/ \E d \in Clients : Trying(d))
    /\ UNCHANGED <<rtcVars, nativeVars, sent, up, down, echoed, cut, endpoint,
                   peerConnection, dataChannel>>

(* The end of a socket, refused or closed; the page sets no handler for it. *)
SocketGone(c) ==
    /\ Up(c)
    /\ \/ /\ wsC[c] = "connecting"
          /\ \/ ~Up(Server)
             \/ wsS[c] = "none" /\ ("refused" \in Faults \/ endpoint = "stopped")
       \/ wsC[c] = "closing"
       \/ wsC[c] = "open" /\ (wsS[c] = "closed" \/ ~Up(Server))
    /\ WsClientCloses(c)
    /\ UNCHANGED <<rtcVars, nativeVars, sent, up, down, echoed, cut, endpoint, globals, hasty>>

(***************************************************************************)
(* onWebSocketOpen: a new peer connection and data channel take the place  *)
(* of the old ones, which are not closed.  RTCPeerConnection may throw.    *)
(***************************************************************************)
onWebSocketOpen(c) ==
    /\ Up(c)
    /\ WsClientOpens(c)
    /\ \/ "pc" \in Faults /\ UNCHANGED <<rtcVars, globals>>
       \/ /\ peer_connection' = [peer_connection EXCEPT ![c] = c]
          /\ data_channel' = [data_channel EXCEPT ![c] = c]
          /\ dcState' = [dcState EXCEPT ![c] = "connecting"]
          /\ csd' = csd \cup {c}
          /\ peerConnection' = c /\ dataChannel' = c
          /\ UNCHANGED <<stat, sig, remote, added, gathered, webSocketConnection>>
    /\ UNCHANGED <<nativeVars, sent, up, down, echoed, cut, endpoint, hasty>>

(* Mutant: the offer goes out twice. *)
onOfferSuccess_twice(c) ==
    /\ Up(c)
    /\ c \in csd
    /\ csd' = csd \ {c}
    /\ sig' = [sig EXCEPT ![c] = IF peerConnection = c THEN "local" ELSE @]
    /\ toS' = [toS EXCEPT ![webSocketConnection] =
                  @ \o <<FrameOf("offer", c), FrameOf("offer", c)>>]
    /\ UNCHANGED <<wsC, wsS, toC, stat, peer_connection, remote, added, gathered, data_channel,
                   dcState, nativeVars, sent, up, down, echoed, cut, endpoint, globals, hasty>>

(***************************************************************************)
(* onOfferSuccess: setLocalDescription is called on the global peer        *)
(* connection, and refused (a promise nobody looks at) when the offer is   *)
(* another's; there is no call, and an exception, when the global is null. *)
(* A socket that is not open does not send either.                         *)
(***************************************************************************)
onOfferSuccess(c) ==
    /\ Up(c)
    /\ c \in csd
    /\ csd' = csd \ {c}
    /\ sig' = [sig EXCEPT ![c] = IF peerConnection = c THEN "local" ELSE @]
    /\ toS' = [toS EXCEPT ![webSocketConnection] =
                  IF peerConnection # Null /\ wsC[webSocketConnection] = "open"
                  THEN Append(@, FrameOf("offer", c)) ELSE @]
    /\ UNCHANGED <<wsC, wsS, toC, stat, peer_connection, remote, added, gathered, data_channel,
                   dcState, nativeVars, sent, up, down, echoed, cut, endpoint, globals, hasty>>

onOfferFailure(c) ==
    /\ Up(c)
    /\ on_failure_csd(c)
    /\ UNCHANGED <<wsVars, nativeVars, sent, up, down, echoed, cut, endpoint, globals, hasty>>

(***************************************************************************)
(* onWebSocketMessage of any socket: the answer or the candidate goes to   *)
(* the global peer connection, which refuses it in the wrong state; a null *)
(* one is an exception.                                                    *)
(***************************************************************************)
Takes(p, type) ==
    /\ p # Null
    /\ sig[p] = IF type = "answer" THEN "local" ELSE "stable"

(* Mutant: the candidates of the server are only printed. *)
onWebSocketMessage_prints(c) ==
    /\ Up(c)
    /\ wsC[c] = "open"
    /\ toC[c] # <<>>
    /\ toC' = [toC EXCEPT ![c] = Tail(@)]
    /\ LET m == Head(toC[c]) IN
          /\ m.type \in {"answer", "ice"}
          /\ \/ /\ Takes(peerConnection, m.type) /\ m.type = "answer"
                /\ sig' = [sig EXCEPT ![peerConnection] = "stable"]
                /\ remote' = [remote EXCEPT ![peerConnection] = m.pc]
             \/ /\ ~Takes(peerConnection, m.type) \/ m.type = "ice"
                /\ UNCHANGED <<sig, remote>>
    /\ UNCHANGED <<wsC, wsS, toS, stat, peer_connection, csd, added, gathered, data_channel, dcState,
                   nativeVars, sent, up, down, echoed, cut, endpoint, globals, hasty>>

onWebSocketMessage(c) ==
    /\ Up(c)
    /\ wsC[c] = "open"
    /\ toC[c] # <<>>
    /\ toC' = [toC EXCEPT ![c] = Tail(@)]
    /\ LET m == Head(toC[c])
           p == peerConnection
       IN  /\ m.type \in {"answer", "ice"}
           /\ \/ /\ Takes(p, m.type) /\ m.type = "answer"
                 /\ sig' = [sig EXCEPT ![p] = "stable"]
                 /\ remote' = [remote EXCEPT ![p] = m.pc]
                 /\ UNCHANGED added
              \/ /\ Takes(p, m.type) /\ m.type = "ice"
                 /\ added' = [added EXCEPT ![p] = @ \cup {m.pc}]
                 /\ UNCHANGED <<sig, remote>>
              \/ /\ ~Takes(p, m.type)
                 /\ UNCHANGED <<sig, remote, added>>
    /\ UNCHANGED <<wsC, wsS, toS, stat, peer_connection, csd, gathered, data_channel, dcState,
                   nativeVars, sent, up, down, echoed, cut, endpoint, globals, hasty>>

-----------------------------------------------------------------------------
(***************************************************************************)
(* send(), a click.  Sending throws when the channel is not open or its    *)
(* buffer is full; then nothing happens, and quit() is not reached.        *)
(***************************************************************************)
page_send ==
    /\ dataChannel # Null
    /\ Up(dataChannel)
    /\ sent[dataChannel] < MaxMsgs
    /\ Accepts(dataChannel, up[dataChannel])
    /\ sent' = [sent EXCEPT ![dataChannel] = @ + 1]
    /\ up' = [up EXCEPT ![dataChannel] = Append(@, sent'[dataChannel])]
    /\ UNCHANGED <<vars, down, echoed, cut, endpoint, prog, globals, hasty>>

(* send() of "exit", and quit(): both are closed and let go. *)
page_exit ==
    /\ dataChannel # Null
    /\ Up(dataChannel)
    /\ Accepts(dataChannel, up[dataChannel])
    /\ up' = [up EXCEPT ![dataChannel] = Append(@, Exit)]
    /\ dcState' = [dcState EXCEPT ![dataChannel] = "closed"]
    /\ sig' = [sig EXCEPT ![peerConnection] = "none"]
    /\ csd' = csd \ {peerConnection}
    /\ dataChannel' = Null /\ peerConnection' = Null
    /\ UNCHANGED <<wsVars, stat, peer_connection, remote, added, gathered, data_channel, nativeVars,
                   sent, down, echoed, cut, endpoint, webSocketConnection, hasty>>

(***************************************************************************)
(* "maxRetransmitTime: 3000": where a browser knows the option, a message  *)
(* of either direction that did not get through in time is given up.       *)
(***************************************************************************)
Expires(c) ==
    /\ "expire" \in Faults
    /\ \/ up[c] # <<>> /\ up' = [up EXCEPT ![c] = Tail(@)] /\ UNCHANGED down
       \/ down[c] # <<>> /\ down' = [down EXCEPT ![c] = Tail(@)] /\ UNCHANGED up
    /\ UNCHANGED <<vars, sent, echoed, cut, endpoint, prog, globals, hasty>>

(* The tab is closed. *)
PageCloses ==
    /\ "kill" \in Faults
    /\ \A c \in Clients : Up(c)
    /\ stat' = [n \in Nodes |-> IF n \in Clients THEN "killed" ELSE stat[n]]
    /\ UNCHANGED <<wsVars, peer_connection, sig, csd, remote, added, gathered, data_channel, dcState,
                   ws_hdl_, main, sessionVars, globals, hasty>>

-----------------------------------------------------------------------------
(***************************************************************************)
(* The events of socket c and of what it made; close frames as in          *)
(* Signaling.  onIceCandidate, onIceConnectionStateChange and the channel's*)
(* handlers only print, and the server makes no channel for onDataChannel. *)
(***************************************************************************)
PageEvent(c) ==
    \/ SocketGone(c)
    \/ onWebSocketOpen(c)
    \/ onOfferSuccess(c)
    \/ onOfferFailure(c)
    \/ onWebSocketMessage(c)
    \/ /\ ClientReadsClose(c) \/ ClientOnOpen(c) \/ ClientOnClosed(c)
       /\ UNCHANGED <<sessionVars, globals, hasty>>
    \/ ClientOnMessage(c) /\ UNCHANGED <<globals, hasty>>

(* The server is that of Session. *)
ServerEvent ==
    /\ ServerCallback \/ ServerLeaves
    /\ UNCHANGED <<globals, hasty>>

ServerSocketEvent(c) ==
    /\ ServerHandshake(c)
    /\ UNCHANGED <<globals, hasty>>

BrowserNext ==
    \/ \E c \in Clients : connect(c) \/ PageEvent(c) \/ ServerSocketEvent(c) \/ Expires(c)
    \/ page_send
    \/ page_exit
    \/ ServerEvent
    \/ PageCloses

BrowserSpec == BrowserInit /\ [][BrowserNext]_browserVars

(* The browser delivers its events; what the user clicks is not fair. *)
BrowserFairSpec ==
    /\ BrowserSpec
    /\ \A c \in Clients :
          WF_browserVars(PageEvent(c)) /\ WF_browserVars(ServerSocketEvent(c))
    /\ WF_browserVars(ServerEvent)

-----------------------------------------------------------------------------
(***************************************************************************)
(* Every handler goes through the globals.  As long as the user clicks     *)
(* "connect" only when the last attempt is over, an answer is nevertheless *)
(* applied only to the peer connection whose offer it answers.             *)
(***************************************************************************)
AnswersMatch == ~hasty => \A c \in Clients : remote[c] \in {Null, c}

(***************************************************************************)
(* The channel of the page may lose messages, and the echoes that are left *)
(* are still in the order of the lines, none repeated, none unasked.       *)
(***************************************************************************)
EchoesInOrder ==
    \A c \in Clients :
        /\ \A i, j \in DOMAIN echoed[c] : i < j => echoed[c][i] < echoed[c][j]
        /\ \A i \in DOMAIN echoed[c] : echoed[c][i] \in 1..sent[c]

(***************************************************************************)
(* The page sends no candidate of its own (onIceCandidate only prints).    *)
(* Those of the server are enough: an attempt that is not refused and not  *)
(* hasty ends with a data channel, unless the page or the server has gone  *)
(* by then, or the server has another socket of the page besides, and no   *)
(* second handle for it.                                                   *)
(***************************************************************************)
BrowserConnects ==
    \A c \in Clients :
        wsC[c] = "connecting" ~> \/ dcState[c] \in {"open", "closed"}
                                 \/ wsC[c] = "closed" /\ dcState[c] = "none"
                                 \/ hasty \/ ~Up(c) \/ ~Up(Server)
                                 \/ \E d \in Clients \ {c} : wsS[d] \in {"accepted", "open"}
=============================================================================
