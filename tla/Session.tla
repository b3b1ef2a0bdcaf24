------------------------------ MODULE Session ------------------------------
(***************************************************************************)
(* A session from its beginning to the end of the processes: the handshake *)
(* of Signaling, then the data channel that the two main() functions and   *)
(* the on_message callbacks use, and the ways in which a program ends.     *)
(*                                                                         *)
(* A line that a client sends is its ordinal, and Exit is the line "exit"; *)
(* the echo of a line carries the ordinal of the line.  A data channel is  *)
(* reliable and ordered (the default DataChannelInit), so each direction   *)
(* is a FIFO stream, cut short when either end of the channel is gone.     *)
(***************************************************************************)
EXTENDS Signaling

CONSTANTS
    MaxMsgs,        \* bound: lines a client gets on its data channel
    MaxBuffered     \* the messages that fill the buffer of a data channel

ASSUME SessionAssumption == MaxMsgs \in Nat /\ MaxBuffered \in Nat \ {0}

VARIABLES
    sent,           \* [Clients -> 0..MaxMsgs]: lines the client's channel accepted
    up,             \* [Clients -> Seq]: messages on the channel to the server
    down,           \* [Clients -> Seq]: messages on the channel to the client
    echoed,         \* [Clients -> Seq]: replies that on_message of the client printed
    cut,            \* the sessions whose channel the server's end closed abruptly
    endpoint,       \* whether ws_server_ is listening or stopped
    prog            \* [Nodes -> Progress]: where main() is, see below

sessionVars == <<sent, up, down, echoed, cut, endpoint, prog>>
allVars == <<vars, sessionVars>>

Exit == 0

(***************************************************************************)
(* work: in run() or in the input loop.  exit: quit() is next.  quit: it   *)
(* returned.  dtor: the destructors of main's manager are running, and the *)
(* callbacks and observers, the members declared last, are gone.           *)
(***************************************************************************)
Progress == {"work", "exit", "quit", "dtor"}

SessionTypeOK ==
    /\ TypeOK
    /\ sent \in [Clients -> 0..MaxMsgs]
    /\ up \in [Clients -> Seq(0..MaxMsgs)]
    /\ down \in [Clients -> Seq(1..MaxMsgs)]
    /\ echoed \in [Clients -> Seq(1..MaxMsgs)]
    /\ cut \subseteq Clients
    /\ endpoint \in {"listening", "stopped"}
    /\ prog \in [Nodes -> Progress]

SessionInit ==
    /\ Init
    /\ sent = [c \in Clients |-> 0]
    /\ up = [c \in Clients |-> <<>>]
    /\ down = [c \in Clients |-> <<>>]
    /\ echoed = [c \in Clients |-> <<>>]
    /\ cut = {}
    /\ endpoint = "listening"
    /\ prog = [n \in Nodes |-> "work"]

-----------------------------------------------------------------------------
(***************************************************************************)
(* WebRTCManager::send of a client and of the server.  data_channel is     *)
(* used unchecked and the result of Send() ignored: a channel that is not  *)
(* open takes nothing, and one whose buffer is full is closed abruptly.    *)
(***************************************************************************)
Accepts(n, stream) == dcState[n] = "open" /\ Len(stream) < MaxBuffered

Sends(n, stream) ==
    /\ stat' = [stat EXCEPT ![n] = IF data_channel[n] = Null THEN "nullderef" ELSE @]
    /\ dcState' = [dcState EXCEPT ![n] =
                      IF @ = "open" /\ ~Accepts(n, stream) THEN "closed" ELSE @]
    /\ UNCHANGED <<peer_connection, sig, csd, remote, added, gathered, data_channel>>

client_send(c, m) ==
    /\ Sends(c, up[c])
    /\ up' = [up EXCEPT ![c] = IF Accepts(c, @) THEN Append(@, m) ELSE @]

(* Mutant: a full buffer drops the message and leaves the channel open. *)
server_send_drops(c, m) ==
    /\ down' = [down EXCEPT ![c] = IF Accepts(Server, @) THEN Append(@, m) ELSE @]
    /\ UNCHANGED <<rtcVars, cut>>

server_send(c, m) ==
    /\ Sends(Server, down[c])
    /\ down' = [down EXCEPT ![c] = IF Accepts(Server, @) THEN Append(@, m) ELSE @]
    /\ cut' = IF Accepts(Server, down[c]) THEN cut ELSE cut \cup {c}

-----------------------------------------------------------------------------
(* The client's main thread, back from the constructor. *)

InInputLoop(c) == Up(c) /\ main[c] = "loop" /\ prog[c] = "work"

(* A line other than "exit". *)
ClientTypes(c) ==
    /\ InInputLoop(c)
    /\ sent[c] < MaxMsgs
    /\ client_send(c, sent[c] + 1)
    /\ sent' = [sent EXCEPT ![c] = IF Accepts(c, up[c]) THEN @ + 1 ELSE @]
    /\ UNCHANGED <<wsVars, ws_hdl_, main, down, echoed, cut, endpoint, prog>>

(* Mutant: "exit" is sent once more on the way out of the loop. *)
ClientExit_twice(c) ==
    /\ InInputLoop(c) /\ data_channel[c] # Null
    /\ up' = [up EXCEPT ![c] = IF Accepts(c, @) THEN @ \o <<Exit, Exit>> ELSE @]
    /\ prog' = [prog EXCEPT ![c] = "exit"]
    /\ UNCHANGED <<rtcVars, wsVars, ws_hdl_, main, sent, down, echoed, cut, endpoint>>

(* The line "exit": send it, then quit() and break. *)
ClientExit(c) ==
    /\ InInputLoop(c)
    /\ client_send(c, Exit)
    /\ prog' = [prog EXCEPT ![c] = "exit"]
    /\ UNCHANGED <<wsVars, ws_hdl_, main, sent, down, echoed, cut, endpoint>>

(***************************************************************************)
(* quit(), in either program.  A description still being made fails with   *)
(* the peer connection (OnFailure logs), or its OnSuccess runs during      *)
(* Close(): on_success_csd gives it to a closed peer connection, which     *)
(* frees it, reads it (uaf) and sends it on the closed WebSocket (abort).  *)
(***************************************************************************)
Quit(n) ==
    /\ Up(n)
    /\ prog[n] = "exit"
    /\ \/ quit(n)
       \/ n \in csd /\ \E how \in {"uaf", "abort"} : DiesAt(n, how)
    /\ prog' = [prog EXCEPT ![n] = "quit"]
    /\ UNCHANGED <<wsVars, ws_hdl_, main, sent, up, down, echoed, cut, endpoint>>

(* "Client exits gracefully.", "Server exits gracefully." *)
Returns(n) ==
    /\ Up(n)
    /\ prog[n] = "quit"
    /\ DiesAt(n, "done")
    /\ UNCHANGED <<wsVars, ws_hdl_, main, sessionVars>>

(* Mutant: the end of the input is taken for the line "exit". *)
ClientEof_exits(c) ==
    /\ InInputLoop(c)
    /\ client_send(c, Exit)
    /\ prog' = [prog EXCEPT ![c] = "dtor"]
    /\ UNCHANGED <<wsVars, ws_hdl_, main, sent, down, echoed, cut, endpoint>>

(***************************************************************************)
(* The end of the input: main() returns without quit().  ~Connection ends  *)
(* the observers and the callbacks before the data channel and the peer    *)
(* connection that use them.                                               *)
(***************************************************************************)
ClientEof(c) ==
    /\ InInputLoop(c)
    /\ prog' = [prog EXCEPT ![c] = "dtor"]
    /\ UNCHANGED <<vars, sent, up, down, echoed, cut, endpoint>>

(* Until they are released, libwebrtc may call one of those observers. *)
DanglingCallback(c) ==
    /\ Up(c)
    /\ prog[c] = "dtor"
    /\ peer_connection[c] # Null
    /\ DiesAt(c, "uaf")
    /\ UNCHANGED <<wsVars, ws_hdl_, main, sessionVars>>

ReleaseConnection(c) ==
    /\ Up(c)
    /\ prog[c] = "dtor"
    /\ DiesAt(c, "done")
    /\ UNCHANGED <<wsVars, ws_hdl_, main, sessionVars>>

ClientInput(c) == ClientTypes(c) \/ ClientExit(c) \/ ClientEof(c)

ClientLeaves(c) == Quit(c) \/ Returns(c) \/ ReleaseConnection(c)

-----------------------------------------------------------------------------
(* Mutant: the channel is configured unordered. *)
ClientOnMessage_unordered(c) ==
    /\ Up(c)
    /\ prog[c] # "dtor"
    /\ dcState[c] = "open"
    /\ \E i \in DOMAIN down[c] :
          /\ echoed' = [echoed EXCEPT ![c] = Append(@, down[c][i])]
          /\ down' = [down EXCEPT ![c] = SubSeq(@, 1, i - 1) \o SubSeq(@, i + 1, Len(@))]
    /\ UNCHANGED <<vars, sent, up, cut, endpoint, prog>>

(* The client's signaling thread: on_message prints the echo. *)
ClientOnMessage(c) ==
    /\ Up(c)
    /\ prog[c] # "dtor"
    /\ dcState[c] = "open"
    /\ down[c] # <<>>
    /\ echoed' = [echoed EXCEPT ![c] = Append(@, Head(down[c]))]
    /\ down' = [down EXCEPT ![c] = Tail(@)]
    /\ UNCHANGED <<vars, sent, up, cut, endpoint, prog>>

-----------------------------------------------------------------------------
(* The server's signaling thread. *)

(* stop_listening() throws when the endpoint is not listening. *)
stop_listening ==
    /\ IF endpoint = "listening" THEN UNCHANGED stat ELSE Dies(Server, "abort")
    /\ endpoint' = "stopped"
    /\ UNCHANGED <<peer_connection, sig, csd, remote, added, gathered, data_channel, dcState>>

(* Mutant: "exit" is echoed like any other message. *)
ServerOnMessage_echoes(c) ==
    /\ Up(Server)
    /\ data_channel[Server] = c
    /\ dcState[Server] = "open"
    /\ c \notin cut
    /\ up[c] # <<>>
    /\ up' = [up EXCEPT ![c] = Tail(@)]
    /\ server_send(c, Head(up[c]))
    /\ UNCHANGED <<wsVars, ws_hdl_, main, sent, echoed, endpoint, prog>>

(* Mutant: the reply goes out, and the message is delivered again. *)
ServerOnMessage_again(c) ==
    /\ Up(Server)
    /\ data_channel[Server] = c
    /\ dcState[Server] = "open"
    /\ c \notin cut
    /\ up[c] # <<>>
    /\ Head(up[c]) # Exit
    /\ server_send(c, Head(up[c]))
    /\ UNCHANGED <<wsVars, ws_hdl_, main, sent, up, echoed, endpoint, prog>>

(***************************************************************************)
(* on_message: "exit" stops the endpoint, any other message is echoed.     *)
(* Assumed of libwebrtc: a replaced peer connection closes its channel     *)
(* before its successor can announce one, so the message comes from the    *)
(* channel held now.                                                       *)
(***************************************************************************)
ServerOnMessage(c) ==
    /\ Up(Server)
    /\ data_channel[Server] = c
    /\ dcState[Server] = "open"
    /\ c \notin cut
    /\ up[c] # <<>>
    /\ up' = [up EXCEPT ![c] = Tail(@)]
    /\ \/ /\ Head(up[c]) = Exit
          /\ stop_listening
          /\ UNCHANGED <<down, cut>>
       \/ /\ Head(up[c]) # Exit
          /\ server_send(c, Head(up[c]))
          /\ UNCHANGED endpoint
    /\ UNCHANGED <<wsVars, ws_hdl_, main, sent, echoed, prog>>

-----------------------------------------------------------------------------
(* The server's main thread. *)


(***************************************************************************)
(* run() returns once the endpoint has stopped listening and has no        *)
(* connection left; quit() is next.                                        *)
(***************************************************************************)
ServerReturnsFromRun ==
    /\ Up(Server)
    /\ endpoint = "stopped"
    /\ \A c \in Clients : wsS[c] \in {"none", "closed"}
    /\ prog[Server] = "work"
    /\ prog' = [prog EXCEPT ![Server] = "exit"]
    /\ UNCHANGED <<vars, sent, up, down, echoed, cut, endpoint>>

ServerLeaves == ServerReturnsFromRun \/ Quit(Server) \/ Returns(Server)

(* The handshake; an endpoint that has stopped accepts nobody. *)
ServerHandshake(c) ==
    /\ endpoint = "listening" \/ wsS[c] # "none"
    /\ ServerMain(c)
    /\ UNCHANGED sessionVars

ClientHandshake(c) ==
    /\ ClientMain(c)
    /\ UNCHANGED sessionVars

(* The port is closed: run() of the client ends as after any other refusal. *)
ClientRefused(c) ==
    /\ Up(c)
    /\ wsC[c] = "connecting"
    /\ endpoint = "stopped" /\ wsS[c] = "none"
    /\ WsClientCloses(c)
    /\ main' = [main EXCEPT ![c] = "loop"]
    /\ UNCHANGED <<rtcVars, ws_hdl_, sessionVars>>

ClientCallback(c) ==
    \/ prog[c] # "dtor" /\ ClientSignaling(c) /\ UNCHANGED sessionVars
    \/ ClientOnMessage(c)
    \/ DanglingCallback(c)

ServerCallback ==
    \/ ServerSignaling /\ UNCHANGED sessionVars
    \/ \E c \in Clients : ServerOnMessage(c)

-----------------------------------------------------------------------------
SessionNext ==
    \/ \E c \in Clients :
          \/ ClientConnect(c) /\ UNCHANGED sessionVars
          \/ ClientHandshake(c)
          \/ ClientRefused(c)
          \/ ClientCallback(c)
          \/ ClientInput(c)
          \/ ClientLeaves(c)
          \/ ServerHandshake(c)
    \/ ServerCallback
    \/ ServerLeaves
    \/ \E n \in Nodes : Kill(n) /\ UNCHANGED sessionVars

SessionSpec == SessionInit /\ [][SessionNext]_allVars

(***************************************************************************)
(* Both threads of a process keep running, as in Signaling, and a main()   *)
(* that has begun to leave gets to its end.  What the user types, and      *)
(* whether the user types at all, is not fair.                             *)
(***************************************************************************)
SessionFairness ==
    /\ \A c \in Clients :
          /\ WF_allVars(ClientHandshake(c) \/ ClientRefused(c))
          /\ WF_allVars(ClientCallback(c))
          /\ WF_allVars(ClientLeaves(c))
          /\ WF_allVars(ServerHandshake(c))
    /\ WF_allVars(ServerCallback)
    /\ WF_allVars(ServerLeaves)

SessionFairSpec == SessionSpec /\ SessionFairness

-----------------------------------------------------------------------------
(***************************************************************************)
(* Properties.                                                             *)
(***************************************************************************)

(***************************************************************************)
(* The refinement mapping: of all the state, the echo service sees how     *)
(* many lines the channels took and which replies were printed.            *)
(***************************************************************************)
Echo == INSTANCE EchoService WITH Clients <- Clients, sent <- sent, echoed <- echoed

(***************************************************************************)
(* The two on_message callbacks and the input loop (server.cpp:34,         *)
(* client.cpp:37,166) implement the echo service, for every client and     *)
(* whatever happens to the processes, the channels and their buffers: no   *)
(* echo is lost in the middle, repeated or reordered, although no result   *)
(* of Send() is looked at.                                                 *)
(***************************************************************************)
ImplementsEcho == Echo!Spec

(* Both processes hold an open end of the data channel of c. *)
Joined(c) ==
    /\ Up(c) /\ dcState[c] = "open"
    /\ Up(Server) /\ data_channel[Server] = c /\ dcState[Server] = "open"

(***************************************************************************)
(* While the channel is up and the client has not said "exit", every line  *)
(* that send() put on it is on its way to the server, on its way back, or  *)
(* printed by the client.                                                  *)
(***************************************************************************)
NothingLost ==
    \A c \in Clients :
        Joined(c) /\ prog[c] = "work"
        => sent[c] = Len(up[c]) + Len(down[c]) + Len(echoed[c])

(***************************************************************************)
(* send() and quit() use data_channel and peer_connection unchecked, and   *)
(* quit() clears both while callbacks may still come.  A client whose      *)
(* WebSocket opened has a data channel to send on, and whoever calls       *)
(* quit() has a peer connection.  So the null pointers that are used are   *)
(* those of a client whose WebSocket never opened, the user of which types *)
(* a line all the same, and those of the handshake (NoNullDeref).          *)
(***************************************************************************)
NullOnlyUnconnected ==
    /\ \A c \in Clients :
          InInputLoop(c) /\ ws_hdl_[c] # Null => data_channel[c] # Null
    /\ \A n \in Nodes :
          /\ Up(n) /\ prog[n] = "exit" => peer_connection[n] # Null
          /\ stat[n] = "nullderef"
             => \/ n \in Clients /\ ws_hdl_[n] = Null
                \/ prog[n] = "work" /\ GivenNull(n)

(***************************************************************************)
(* The server stops for nobody but a client that said "exit": the end of   *)
(* the input, a kill, a closed channel or a full buffer leave it           *)
(* listening (server.cpp:41).                                              *)
(***************************************************************************)
StopsOnlyOnExit ==
    endpoint = "stopped" => \E c \in Clients : prog[c] \in {"exit", "quit"}

(***************************************************************************)
(* "exit" is a proxy to stop the event loop (server.cpp:42).  Handling it  *)
(* ends the server by an exception, which stop_listening() throws, in one  *)
(* case only: another client said "exit" too.                              *)
(***************************************************************************)
ExitStopsCleanly ==
    [][\A c \in Clients :
          Len(up'[c]) < Len(up[c]) /\ Head(up[c]) = Exit
          => Up(Server)' \/ \E d \in Clients \ {c} : prog[d] \in {"exit", "quit"}]_allVars

(***************************************************************************)
(* A line on the channel is echoed in the end, unless the channel closes   *)
(* or the client leaves.                                                   *)
(***************************************************************************)
EveryLineEchoed ==
    \A c \in Clients, m \in 1..MaxMsgs :
        sent[c] = m ~> (Len(echoed[c]) >= m \/ ~Joined(c) \/ prog[c] # "work")

(***************************************************************************)
(* The WebSocket of a client with which the server will never connect: no  *)
(* description was made, or another offer has taken the place of its own.  *)
(* Nobody closes it.                                                       *)
(***************************************************************************)
Stranded(c) ==
    /\ wsS[c] = "open"
    /\ \/ Undescribed(c)
       \/ /\ sig[c] # "none" /\ peer_connection[Server] # c
          /\ \A i \in DOMAIN toS[c] : toS[c][i].type # "offer"

=============================================================================
