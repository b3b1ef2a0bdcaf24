----------------------------- MODULE WireProofs -----------------------------
(***************************************************************************)
(* The messages are understood whatever their texts and indexes are.       *)
(***************************************************************************)
EXTENDS WireFormat, TLAPS

(***************************************************************************)
(* Reading the members back gives the object that was written.             *)
(***************************************************************************)
LEMMA Parsed ==
    ASSUME NEW json
    PROVE  LET read == StringToJson(JsonToString(json)) IN
           /\ DOMAIN read = DOMAIN json
           /\ \A name \in DOMAIN json : read[name] = json[name]
<1> DEFINE str == JsonToString(json)
<1>1. \A m \in str : m[1] \in DOMAIN json /\ m = <<m[1], json[m[1]]>>
  BY DEF JsonToString
<1>2. \A name \in DOMAIN json : <<name, json[name]>> \in str
  BY DEF JsonToString
<1> HIDE DEF str
<1>3. {m[1] : m \in str} = DOMAIN json
  <2>1. ASSUME NEW name \in DOMAIN json
        PROVE  \E m \in str : m[1] = name
    <3>1. <<name, json[name]>> \in str
      BY <1>2
    <3> QED BY <3>1
  <2>2. \A m \in str : m[1] \in DOMAIN json
    BY <1>1
  <2> QED BY Zenon, <2>1, <2>2
<1>4. ASSUME NEW name \in DOMAIN json
      PROVE  (CHOOSE m \in str : m[1] = name)[2] = json[name]
  <2> DEFINE w == CHOOSE m \in str : m[1] = name
  <2>1. \E m \in str : m[1] = name
    BY <1>2
  <2>2. w \in str /\ w[1] = name
    BY <2>1
  <2> HIDE DEF w
  <2>3. w = <<name, json[name]>>
    BY <1>1, <2>2
  <2>4. w[2] = json[name]
    BY <2>3
  <2> QED BY <2>4 DEF w
<1> QED BY <1>3, <1>4 DEF StringToJson, str

LEMMA ReadBack ==
    ASSUME NEW json, NEW default, NEW name
    PROVE  get(StringToJson(JsonToString(json)), name, default) = get(json, name, default)
  BY Parsed DEF get

(***************************************************************************)
(* What each reader makes of each of the three messages.                   *)
(***************************************************************************)
LEMMA OfferRead ==
    ASSUME NEW sdp \in Texts
    PROVE  ServerReads(JsonToString([type |-> "offer", sdp |-> sdp])) = <<"create_answer_sdp", sdp>>
<1> DEFINE json == [type |-> "offer", sdp |-> sdp]
<1>1. get(json, "type", "") = "offer" /\ get(json, "sdp", "") = sdp
  BY DEF get
<1> HIDE DEF json
<1> DEFINE read == StringToJson(JsonToString(json))
<1>2. get(read, "type", "") = "offer" /\ get(read, "sdp", "") = sdp
  BY <1>1, ReadBack
<1> QED BY <1>2 DEF ServerReads, json

LEMMA AnswerRead ==
    ASSUME NEW sdp \in Texts
    PROVE  LET str == JsonToString([type |-> "answer", answer |-> sdp]) IN
           /\ ClientReads(str) = <<"push_reply_sdp", sdp>>
           /\ BrowserReads(str) = <<"push_reply_sdp", sdp>>
<1> DEFINE json == [type |-> "answer", answer |-> sdp]
<1>1. /\ get(json, "type", "") = "answer" /\ get(json, "answer", "") = sdp
      /\ "type" \in DOMAIN json /\ json["type"] = "answer"
  BY DEF get
<1> HIDE DEF json
<1> DEFINE read == StringToJson(JsonToString(json))
<1>2. get(read, "type", "") = "answer" /\ get(read, "answer", "") = sdp
  BY <1>1, ReadBack
<1>3. read["type"] = "answer"
  BY <1>1, Parsed
<1>4. ClientReads(JsonToString(json)) = <<"push_reply_sdp", sdp>>
  BY <1>2 DEF ClientReads
<1>5. BrowserReads(JsonToString(json)) = <<"push_reply_sdp", sdp>>
  BY <1>2, <1>3 DEF BrowserReads
<1> QED BY <1>4, <1>5 DEF json

LEMMA IceRead ==
    ASSUME NEW ice \in Ice
    PROVE  LET str == ToJsonString(ice) IN
           /\ BrowserReads(str) = <<"push_ice", ice>>
           /\ \A reads \in {ServerReads(str), ClientReads(str)} :
                 reads = <<"push_ice", ice>> \/ (reads = Throws /\ ice.sdp_mid = "")
<1> DEFINE json == [type |-> "ice", candidate |-> ice.candidate, sdpMid |-> ice.sdp_mid,
                    sdpMLineIndex |-> ice.sdp_mline_index]
<1>1. /\ "type" \in DOMAIN json /\ json["type"] = "ice"
      /\ get(json, "type", "") = "ice"
      /\ get(json, "candidate", "") = ice.candidate
      /\ get(json, "sdpMid", "") = ice.sdp_mid
      /\ get(json, "sdpMLineIndex", -1) = ice.sdp_mline_index
  BY DEF get
<1>2. ToJsonString(ice) = JsonToString(json)
  BY DEF ToJsonString
<1> HIDE DEF json
<1> DEFINE str == JsonToString(json)
           read == StringToJson(str)
<1>3. /\ get(read, "type", "") = "ice"
      /\ get(read, "candidate", "") = ice.candidate
      /\ get(read, "sdpMid", "") = ice.sdp_mid
      /\ get(read, "sdpMLineIndex", -1) = ice.sdp_mline_index
  BY <1>1, ReadBack
<1>4. read["type"] = "ice"
  BY <1>1, Parsed
<1> HIDE DEF str
<1>5. IceIn(read) = ice
  BY <1>3 DEF IceIn, Ice
<1>6. ice.candidate # "" /\ ice.sdp_mline_index # -1
  <2>1. ice.candidate \in Texts /\ ice.sdp_mline_index \in Nat
    BY WireAssumption DEF Ice
  <2>2. ice.candidate # ""
    BY Zenon, <2>1, WireAssumption
  <2>3. \A i \in Nat : i # -1
    OBVIOUS
  <2> QED BY Zenon, <2>1, <2>2, <2>3
<1>7. FromJsonString(str) = IF ice.sdp_mid # "" THEN <<"push_ice", ice>> ELSE Throws
  BY <1>3, <1>5, <1>6 DEF FromJsonString
<1>8. ServerReads(str) = FromJsonString(str) /\ ClientReads(str) = FromJsonString(str)
  BY <1>3 DEF ServerReads, ClientReads
<1>9. BrowserReads(str) = <<"push_ice", ice>>
  BY <1>4, <1>5 DEF BrowserReads
<1> QED BY <1>2, <1>7, <1>8, <1>9 DEF str

(***************************************************************************)
(* The message that is under way was written by one of the three senders.  *)
(***************************************************************************)
WrittenAs ==
    \/ \E sdp \in Texts :
          /\ to = "server" /\ meant = <<"create_answer_sdp", sdp>>
          /\ text = JsonToString([type |-> "offer", sdp |-> sdp])
    \/ \E sdp \in Texts :
          /\ to \in {"client", "browser"} /\ meant = <<"push_reply_sdp", sdp>>
          /\ text = JsonToString([type |-> "answer", answer |-> sdp])
    \/ \E ice \in Ice :
          /\ to \in {"server", "client", "browser"} /\ meant = <<"push_ice", ice>>
          /\ text = ToJsonString(ice)

LEMMA ReadAsMeant == WrittenAs /\ Read => Understood'
<1> SUFFICES ASSUME WrittenAs, Read
             PROVE  Understood'
  OBVIOUS
<1>1. CASE made' = meant
  BY <1>1 DEF Understood, Read
<1>2. ASSUME NEW sdp \in Texts, to = "server", meant = <<"create_answer_sdp", sdp>>,
             text = JsonToString([type |-> "offer", sdp |-> sdp])
      PROVE  Understood'
  BY <1>1, <1>2, OfferRead DEF Read
<1>3. ASSUME NEW sdp \in Texts, to \in {"client", "browser"}, meant = <<"push_reply_sdp", sdp>>,
             text = JsonToString([type |-> "answer", answer |-> sdp])
      PROVE  Understood'
  BY <1>1, <1>3, AnswerRead DEF Read
<1>4. ASSUME NEW ice \in Ice, to \in {"server", "client", "browser"},
             meant = <<"push_ice", ice>>, text = ToJsonString(ice)
      PROVE  Understood'
  <2>1. CASE to = "browser"
    BY <1>1, <1>4, <2>1, IceRead DEF Read
  <2>2. CASE to \in {"server", "client"}
    <3>1. made' \in {ServerReads(text), ClientReads(text)}
      BY <2>2 DEF Read
    <3>2. made' = meant \/ (made' = Throws /\ ice.sdp_mid = "")
      BY <1>4, <3>1, IceRead
    <3>3. meant[1] = "push_ice" /\ meant[2] = ice
      BY <1>4
    <3>4. to' = to /\ meant' = meant
      BY DEF Read
    <3> QED BY <1>1, <2>2, <3>2, <3>3, <3>4 DEF Understood
  <2> QED BY <1>4, <2>1, <2>2
<1> QED BY <1>2, <1>3, <1>4 DEF WrittenAs

(***************************************************************************)
(* Whatever the descriptions, candidates, mids and indexes are, a message  *)
(* of server.cpp, client.cpp or webrtc_client.js makes its reader call the *)
(* operation it was sent for with the same argument; only a candidate      *)
(* without a mid is refused instead, by Ice::FromJsonString.               *)
(***************************************************************************)
THEOREM MessagesUnderstood == WireSpec => []Understood
<1> DEFINE IInv == Understood /\ (text # {} => WrittenAs)
<1>1. WireInit => IInv
  BY DEF WireInit, Understood
<1>2. IInv /\ [WireNext]_wireVars => IInv'
  <2> SUFFICES ASSUME IInv, [WireNext]_wireVars
               PROVE  IInv'
    OBVIOUS
  <2>1. CASE SendOffer
    BY <2>1 DEF SendOffer, Sends, Understood, WrittenAs
  <2>2. CASE SendAnswer
    BY <2>2 DEF SendAnswer, Sends, Understood, WrittenAs
  <2>3. CASE SendIce
    BY <2>3 DEF SendIce, Sends, Understood, WrittenAs
  <2>4. CASE Read
    <3>1. WrittenAs'
      BY <2>4 DEF Read, WrittenAs
    <3> QED BY <2>4, <3>1, ReadAsMeant DEF Read
  <2>5. CASE UNCHANGED wireVars
    BY <2>5 DEF wireVars, Understood, WrittenAs
  <2> QED BY <2>1, <2>2, <2>3, <2>4, <2>5 DEF WireNext
<1> QED BY <1>1, <1>2, PTL DEF WireSpec
=============================================================================
