----------------------------- MODULE WireFormat -----------------------------
(***************************************************************************)
(* The signaling messages as JSON text: what server.cpp, client.cpp and    *)
(* webrtc_client.js write, and what each of them makes of what it reads.   *)
(* Signaling carries a message as its type and its session; here are the   *)
(* names of the members and the checks on them.                            *)
(*                                                                         *)
(* A text is the set of its members, <<name, value>>: no writer repeats a  *)
(* name and no reader looks at the order.                                  *)
(***************************************************************************)
EXTENDS Integers

CONSTANTS
    Texts,          \* descriptions, candidates and mids, none of them empty
    Indexes         \* indexes of m= sections

ASSUME WireAssumption == "" \notin Texts /\ Indexes \subseteq Nat

VARIABLES
    to,             \* who reads the last message
    meant,          \* the operation that the writer sent it for, see below
    text,           \* the message
    made            \* what the reader called for it; <<>> until it has read it

wireVars == <<to, meant, text, made>>

(* Json::writeString, JSON.stringify; Json::CharReader::parse, JSON.parse. *)
JsonToString(json) == {<<name, json[name]>> : name \in DOMAIN json}

StringToJson(str) ==
    [name \in {m[1] : m \in str} |-> (CHOOSE m \in str : m[1] = name)[2]]

(* Json::Value::get; the members the programs write have the kind asked for. *)
get(json, name, default) == IF name \in DOMAIN json THEN json[name] ELSE default

(***************************************************************************)
(* struct Ice.  IceCandidateInterface has a text, an index counted from    *)
(* zero, and a mid "if present" (api/jsep.h).                              *)
(***************************************************************************)
Ice == [candidate : Texts, sdp_mid : Texts \cup {""}, sdp_mline_index : Indexes]

ToJsonString(ice) ==
    JsonToString([type |-> "ice",
                  candidate |-> ice.candidate,
                  sdpMid |-> ice.sdp_mid,
                  sdpMLineIndex |-> ice.sdp_mline_index])

IceIn(json) ==
    [candidate |-> get(json, "candidate", ""),
     sdp_mid |-> get(json, "sdpMid", ""),
     sdp_mline_index |-> get(json, "sdpMLineIndex", -1)]

(* An operation and its argument, or an exception. *)
Throws == <<"throw">>

(* Ice::FromJsonString and the push_ice that follows it. *)
FromJsonString(str) ==
    LET json == StringToJson(str)
        ice == IceIn(json)
    IN  IF /\ get(json, "type", "") = "ice"
           /\ ice.candidate # "" /\ ice.sdp_mid # "" /\ ice.sdp_mline_index # -1
        THEN <<"push_ice", ice>>
        ELSE Throws

-----------------------------------------------------------------------------
(* MessageHandler of server.cpp and of client.cpp, and onWebSocketMessage. *)

ServerReads(str) ==
    LET json == StringToJson(str)
        type == get(json, "type", "")
    IN  CASE type = "offer" -> <<"create_answer_sdp", get(json, "sdp", "")>>
          [] type = "ice" -> FromJsonString(str)
          [] OTHER -> Throws

ClientReads(str) ==
    LET json == StringToJson(str)
        type == get(json, "type", "")
    IN  CASE type = "answer" -> <<"push_reply_sdp", get(json, "answer", "")>>
          [] type = "ice" -> FromJsonString(str)
          [] OTHER -> Throws

(* The browser passes the object on; its member names are those of the Ice. *)
BrowserReads(str) ==
    LET json == StringToJson(str) IN
    CASE json["type"] = "answer" -> <<"push_reply_sdp", get(json, "answer", "")>>
      [] json["type"] = "ice" -> <<"push_ice", IceIn(json)>>
      [] OTHER -> Throws

-----------------------------------------------------------------------------
Sends(reader, operation, str) ==
    /\ to' = reader
    /\ meant' = operation
    /\ text' = str
    /\ made' = <<>>

(* on_sdp of client.cpp, onOfferSuccess: toJSON() of a description. *)
SendOffer ==
    \E sdp \in Texts :
        Sends("server", <<"create_answer_sdp", sdp>>,
              JsonToString([type |-> "offer", sdp |-> sdp]))

(* Mutant: the member is renamed, as the TODO of the browser's reader asks. *)
SendAnswer_renamed ==
    \E sdp \in Texts, reader \in {"client", "browser"} :
        Sends(reader, <<"push_reply_sdp", sdp>>,
              JsonToString([type |-> "answer", sdp |-> sdp]))

(* on_sdp of server.cpp. *)
SendAnswer ==
    \E sdp \in Texts, reader \in {"client", "browser"} :
        Sends(reader, <<"push_reply_sdp", sdp>>,
              JsonToString([type |-> "answer", answer |-> sdp]))

(* on_ice of either program; the browser sends none. *)
SendIce ==
    \E ice \in Ice, reader \in {"server", "client", "browser"} :
        Sends(reader, <<"push_ice", ice>>, ToJsonString(ice))

Read ==
    /\ made = <<>>
    /\ text # {}
    /\ made' = CASE to = "server" -> ServerReads(text)
                 [] to = "client" -> ClientReads(text)
                 [] to = "browser" -> BrowserReads(text)
    /\ UNCHANGED <<to, meant, text>>

WireInit == to = "server" /\ meant = <<>> /\ text = {} /\ made = <<>>

WireNext == SendOffer \/ SendAnswer \/ SendIce \/ Read

WireSpec == WireInit /\ [][WireNext]_wireVars

-----------------------------------------------------------------------------
(***************************************************************************)
(* Three programs, in two languages, agree on the messages: the reader     *)
(* calls the operation that the message was sent for, with the same        *)
(* argument.  The one message that is refused instead, by an exception     *)
(* that ends the process (webrtc_manager.h:34), is a candidate without a   *)
(* mid at one of the C++ programs.                                         *)
(***************************************************************************)
Understood ==
    made # <<>> =>
        \/ made = meant
        \/ /\ made = Throws
           /\ to \in {"server", "client"}
           /\ meant[1] = "push_ice" /\ meant[2].sdp_mid = ""
=============================================================================
