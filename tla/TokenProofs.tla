---------------------------- MODULE TokenProofs ----------------------------
(***************************************************************************)
(* The one token that a session has: the request for its offer, the offer  *)
(* on the stream, the request for the answer, the answer on a stream, and  *)
(* the answer applied.  Every step moves the token on or loses it.         *)
(***************************************************************************)
EXTENDS SignalingProofs

Has(q, f) == \E i \in 1..Len(q) : q[i] = f

AtMostOne(q, f) == \A i, j \in 1..Len(q) : q[i] = f /\ q[j] = f => i = j

Unasked(s) == wsC[s] \in {"none", "connecting"}

Answering(s) == Server \in csd /\ peer_connection[Server] = s

Answered(s) ==
    \/ peer_connection[Server] = s
    \/ \E c \in Clients : Has(toC[c], FrameOf("answer", s)) \/ remote[c] = s

(***************************************************************************)
(* Where the token of session s can be, and that it is in one place only.  *)
(***************************************************************************)
OfferToken(s) ==
    LET o == FrameOf("offer", s) IN
    /\ AtMostOne(toS[s], o)
    /\ \A c \in Clients : c # s => ~Has(toS[c], o)
    /\ Unasked(s) => s \notin csd
    /\ Unasked(s) \/ s \in csd => ~Has(toS[s], o)
    /\ Unasked(s) \/ s \in csd \/ Has(toS[s], o) => ~Answered(s)

AnswerToken(s) ==
    LET a == FrameOf("answer", s) IN
    /\ Answering(s) => \A c \in Clients : ~Has(toC[c], a) /\ remote[c] # s
    /\ \A c \in Clients : AtMostOne(toC[c], a)
    /\ \A c, d \in Clients : Has(toC[c], a) /\ Has(toC[d], a) => c = d
    /\ \A c, d \in Clients : Has(toC[c], a) => remote[d] # s
    /\ \A c, d \in Clients : remote[c] = s /\ remote[d] = s => c = d

TokenInv == \A s \in Clients : OfferToken(s) /\ AnswerToken(s)

(***************************************************************************)
(* What appending a frame and taking the first one do to a stream.         *)
(***************************************************************************)
LEMMA HasFacts ==
    ASSUME NEW q \in Seq(Frame), NEW f
    PROVE  /\ ~Has(<<>>, f) /\ AtMostOne(<<>>, f)
           /\ \A m \in Frame : Has(Append(q, m), f) <=> (Has(q, f) \/ m = f)
           /\ \A m \in Frame : AtMostOne(q, f) /\ (m = f => ~Has(q, f)) => AtMostOne(Append(q, m), f)
           /\ q # <<>> /\ Has(Tail(q), f) => Has(q, f)
           /\ q # <<>> /\ Head(q) = f => Has(q, f)
           /\ q # <<>> /\ AtMostOne(q, f) => AtMostOne(Tail(q), f)
           /\ q # <<>> /\ AtMostOne(q, f) /\ Head(q) = f => ~Has(Tail(q), f)
<1>1. ~Has(<<>>, f) /\ AtMostOne(<<>>, f)
  BY DEF Has, AtMostOne
<1>2. ASSUME NEW m \in Frame
      PROVE  /\ Has(Append(q, m), f) <=> (Has(q, f) \/ m = f)
             /\ AtMostOne(q, f) /\ (m = f => ~Has(q, f)) => AtMostOne(Append(q, m), f)
  <2> DEFINE r == Append(q, m)
  <2>1. /\ Len(r) = Len(q) + 1 /\ r[Len(q) + 1] = m /\ \A i \in 1..Len(q) : r[i] = q[i]
        /\ Len(q) \in Nat
    OBVIOUS
  <2> HIDE DEF r
  <2>2. Has(r, f) <=> (Has(q, f) \/ m = f)
    BY <2>1 DEF Has
  <2>3. AtMostOne(q, f) /\ (m = f => ~Has(q, f)) => AtMostOne(r, f)
    BY <2>1 DEF Has, AtMostOne
  <2> QED BY <2>2, <2>3 DEF r
<1>3. ASSUME q # <<>>
      PROVE  /\ Has(Tail(q), f) => Has(q, f)
             /\ Head(q) = f => Has(q, f)
             /\ AtMostOne(q, f) => AtMostOne(Tail(q), f)
             /\ AtMostOne(q, f) /\ Head(q) = f => ~Has(Tail(q), f)
  <2> DEFINE t == Tail(q)
  <2>1. /\ Len(q) \in Nat /\ Len(q) >= 1 /\ Len(t) = Len(q) - 1 /\ Head(q) = q[1]
        /\ \A i \in 1..(Len(q) - 1) : t[i] = q[i + 1]
    BY <1>3
  <2> HIDE DEF t
  <2>2. \A i \in 1..Len(t) : i + 1 \in 1..Len(q) /\ t[i] = q[i + 1]
    BY <2>1
  <2>3. Has(t, f) => Has(q, f)
    BY <2>2 DEF Has
  <2>4. 1 \in 1..Len(q)
    BY <2>1
  <2>5. Head(q) = f => Has(q, f)
    BY <2>1, <2>4 DEF Has
  <2>6. AtMostOne(q, f) => AtMostOne(t, f)
    BY <2>1, <2>2 DEF AtMostOne
  <2>7. AtMostOne(q, f) /\ Head(q) = f => ~Has(t, f)
    BY <2>1, <2>2, <2>4 DEF AtMostOne, Has
  <2> QED BY <2>3, <2>5, <2>6, <2>7 DEF t
<1> QED BY <1>1, <1>2, <1>3

LEMMA FrameFacts ==
    ASSUME NEW s, NEW t
    PROVE  /\ \A k, l : FrameOf(k, s) = FrameOf(l, t) => k = l /\ s = t
           /\ \A k : FrameOf(k, s).type = k /\ FrameOf(k, s).pc = s
           /\ \A m \in Frame : m = FrameOf(m.type, m.pc)
  BY DEF FrameOf, Frame

(***************************************************************************)
(* A step that makes no token keeps the invariant.                         *)
(***************************************************************************)
NoNewFrames ==
    /\ \A c, s \in Clients :
          /\ Has(toS'[c], FrameOf("offer", s)) => Has(toS[c], FrameOf("offer", s))
          /\ Has(toC'[c], FrameOf("answer", s)) => Has(toC[c], FrameOf("answer", s))
          /\ AtMostOne(toS[c], FrameOf("offer", s)) => AtMostOne(toS'[c], FrameOf("offer", s))
          /\ AtMostOne(toC[c], FrameOf("answer", s)) => AtMostOne(toC'[c], FrameOf("answer", s))

NoNewRequests ==
    /\ \A s \in Clients : Unasked(s)' => Unasked(s)
    /\ csd' \subseteq csd
    /\ \A s \in Clients : peer_connection'[Server] = s => peer_connection[Server] = s
    /\ \A c, s \in Clients : remote'[c] = s => remote[c] = s

LEMMA TokensKept ==
    ASSUME TokenInv, NoNewFrames, NoNewRequests
    PROVE  TokenInv'
<1> SUFFICES ASSUME NEW s \in Clients
             PROVE  OfferToken(s)' /\ AnswerToken(s)'
  BY DEF TokenInv
<1>1. OfferToken(s) /\ AnswerToken(s)
  BY DEF TokenInv
<1>2. Answered(s)' => Answered(s)
  BY DEF Answered, NoNewFrames, NoNewRequests
<1>3. Answering(s)' => Answering(s)
  BY DEF Answering, NoNewRequests
<1>4. OfferToken(s)'
  BY <1>1, <1>2 DEF OfferToken, NoNewFrames, NoNewRequests
<1>5. AnswerToken(s)'
  BY <1>1, <1>3 DEF AnswerToken, NoNewFrames, NoNewRequests
<1> QED BY <1>4, <1>5

(***************************************************************************)
(* Streams that are cleared, read, or given a candidate or a close frame.  *)
(***************************************************************************)
Quiet(q, r) ==
    \/ r = q
    \/ r = <<>>
    \/ q # <<>> /\ r = Tail(q)
    \/ \E m \in Frame : m.type \notin {"offer", "answer"} /\ r = Append(q, m)

LEMMA QuietStream ==
    ASSUME NEW q \in Seq(Frame), NEW r, Quiet(q, r), NEW s, NEW k \in {"offer", "answer"}
    PROVE  /\ Has(r, FrameOf(k, s)) => Has(q, FrameOf(k, s))
           /\ AtMostOne(q, FrameOf(k, s)) => AtMostOne(r, FrameOf(k, s))
<1>1. \A m \in Frame : m.type \notin {"offer", "answer"} => m # FrameOf(k, s)
  BY FrameFacts
<1>2. CASE r = q
  BY <1>2
<1>3. CASE r = <<>>
  BY Zenon, <1>3, HasFacts
<1>4. CASE q # <<>> /\ r = Tail(q)
  BY Zenon, <1>4, HasFacts
<1>5. ASSUME NEW m \in Frame, m.type \notin {"offer", "answer"}, r = Append(q, m)
      PROVE  /\ Has(r, FrameOf(k, s)) => Has(q, FrameOf(k, s))
             /\ AtMostOne(q, FrameOf(k, s)) => AtMostOne(r, FrameOf(k, s))
  BY Zenon, <1>1, <1>5, HasFacts
<1> QED BY Zenon, <1>2, <1>3, <1>4, <1>5 DEF Quiet

LEMMA QuietFrames ==
    ASSUME TypeInv, \A c \in Clients : Quiet(toS[c], toS'[c]) /\ Quiet(toC[c], toC'[c])
    PROVE  NoNewFrames
<1>1. \A c \in Clients : toS[c] \in Seq(Frame) /\ toC[c] \in Seq(Frame)
  BY DEF TypeInv, TypeOK, WsTypeOK
<1> QED BY Zenon, <1>1, QuietStream DEF NoNewFrames

(***************************************************************************)
(* What the connection of a client does when it opens, when a message      *)
(* comes and is applied to the description of client p, and when the offer *)
(* is sent.                                                                *)
(***************************************************************************)
LEMMA TokenOpens ==
    ASSUME TypeInv, TokenInv, NEW c \in Clients, Unasked(c), wsC' = [wsC EXCEPT ![c] = "open"],
           UNCHANGED <<toS, toC, remote>>,
           \/ UNCHANGED <<csd, peer_connection>>
           \/ csd' \in {csd, csd \cup {c}} /\ peer_connection' = [peer_connection EXCEPT ![c] = c]
    PROVE  TokenInv'
<1> USE NodeFacts, Domains
<1>1. /\ peer_connection'[Server] = peer_connection[Server]
      /\ Server \in csd' <=> Server \in csd
      /\ \A s \in Clients : Unasked(s)' => Unasked(s) /\ s # c
      /\ \A s \in Clients : s \in csd' => s \in csd \/ s = c
  BY DEF Unasked
<1>2. ASSUME NEW s \in Clients
      PROVE  OfferToken(s)' /\ AnswerToken(s)'
  <2>1. OfferToken(s) /\ AnswerToken(s)
    BY DEF TokenInv
  <2>2. Answered(s)' <=> Answered(s)
    BY Zenon, <1>1 DEF Answered
  <2>3. OfferToken(s)'
    BY <1>1, <2>1, <2>2 DEF OfferToken
  <2>4. AnswerToken(s)'
    BY <1>1, <2>1 DEF AnswerToken, Answering
  <2> QED BY <2>3, <2>4
<1> QED BY <1>2 DEF TokenInv

LEMMA TokenApplied ==
    ASSUME TypeInv, TokenInv, NEW c \in Clients, NEW r \in Clients,
           toC[c] # <<>>, toC' = [toC EXCEPT ![c] = Tail(@)],
           UNCHANGED <<wsC, toS, csd, peer_connection>>,
           \/ UNCHANGED remote
           \/ Head(toC[c]).type = "answer" /\ remote' = [remote EXCEPT ![r] = Head(toC[c]).pc]
    PROVE  TokenInv'
<1> USE NodeFacts, Domains
<1> DEFINE m == Head(toC[c])
<1>1. toC[c] # <<>> /\ toC' = [toC EXCEPT ![c] = Tail(@)] /\ UNCHANGED <<wsC, toS, csd, peer_connection>>
  OBVIOUS
<1>2. m \in Frame /\ DOMAIN toC = Clients /\ toC[c] \in Seq(Frame) /\ DOMAIN remote = Nodes
  BY StreamTyping DEF TypeInv, TypeOK, WsTypeOK, RtcTypeOK
<1>3. \A d \in Clients : Quiet(toS[d], toS'[d]) /\ Quiet(toC[d], toC'[d])
  BY <1>1, <1>2 DEF Quiet
<1>4. NoNewFrames
  BY <1>3, QuietFrames
<1>5. CASE UNCHANGED remote
  <2>1. NoNewRequests
    BY <1>1, <1>5 DEF NoNewRequests, Unasked
  <2> QED BY <1>4, <2>1, TokensKept
<1>6. CASE m.type = "answer" /\ remote' = [remote EXCEPT ![r] = m.pc]
  <2> DEFINE p == m.pc
             a == FrameOf("answer", p)
  <2>1. p \in Clients /\ m = a
    BY <1>2, <1>6, FrameFacts DEF Frame
  <2>2. Has(toC[c], a) /\ AtMostOne(toC[c], a)
    BY <1>1, <1>2, <2>1, HasFacts DEF TokenInv, AnswerToken
  <2>3. ~Has(toC'[c], a) /\ \A d \in Clients : d # c => toC'[d] = toC[d]
    BY <1>1, <1>2, <2>1, <2>2, HasFacts
  <2>4. \A d \in Clients : ~Has(toC'[d], a)
    BY <2>1, <2>2, <2>3 DEF TokenInv, AnswerToken
  <2>5. remote'[r] = p /\ \A d \in Clients : d # r => remote'[d] = remote[d]
    BY <1>2, <1>6
  <2> HIDE DEF p, a, m
  <2>6. ASSUME NEW s \in Clients
        PROVE  OfferToken(s)' /\ AnswerToken(s)'
    <3>1. OfferToken(s) /\ AnswerToken(s)
      BY DEF TokenInv
    <3>2. Answered(s)' => Answered(s)
      <4>1. s = p => Answered(s)
        BY <2>2 DEF Answered, a
      <4>2. s # p => \A d \in Clients : remote'[d] = s => remote[d] = s
        BY <2>5
      <4> QED BY <1>4, <4>1, <4>2 DEF Answered, NoNewFrames
    <3>3. OfferToken(s)'
      BY <1>1, <3>1, <3>2 DEF OfferToken, Unasked
    <3>4. CASE s = p
      <4>1. ~Answering(s) /\ \A d \in Clients : remote[d] # s
        BY <2>2, <3>1, <3>4 DEF AnswerToken, a
      <4>2. ~Answering(s)'
        BY <1>1, <4>1 DEF Answering
      <4>3. \A d \in Clients : remote'[d] = s => d = r
        BY <2>5, <4>1
      <4>4. \A d \in Clients : ~Has(toC'[d], FrameOf("answer", s))
        BY <2>4, <3>4 DEF a
      <4>5. \A d \in Clients : AtMostOne(toC'[d], FrameOf("answer", s))
        BY <1>4, <3>1 DEF AnswerToken, NoNewFrames
      <4>6. AnswerToken(s)'
        BY <4>2, <4>3, <4>4, <4>5 DEF AnswerToken
      <4> QED BY <3>3, <4>6
    <3>5. CASE s # p
      <4>1. \A d \in Clients : remote'[d] = s => remote[d] = s
        BY <2>5, <3>5
      <4> QED BY <1>4, <3>1, <3>3, <4>1 DEF AnswerToken, Answering, NoNewFrames
    <3> QED BY <3>4, <3>5
  <2> QED BY <2>6 DEF TokenInv
<1> QED BY <1>5, <1>6

LEMMA OfferSent ==
    ASSUME TypeInv, TokenInv, NEW c \in Clients, c \in csd, csd' = csd \ {c},
           UNCHANGED <<wsC, toC, peer_connection, remote>>,
           UNCHANGED toS \/ toS' = [toS EXCEPT ![c] = Append(@, FrameOf("offer", c))]
    PROVE  TokenInv'
<1> USE NodeFacts, Domains
<1> DEFINE o == FrameOf("offer", c)
<1>1. c \in csd /\ csd' = csd \ {c} /\ UNCHANGED <<wsC, toC, peer_connection, remote>>
  OBVIOUS
<1>2. CASE UNCHANGED toS
  <2>1. NoNewFrames
    BY <1>2, QuietFrames DEF Quiet
  <2> QED BY <1>2, <2>1, TokensKept DEF NoNewRequests, Unasked
<1>3. CASE toS' = [toS EXCEPT ![c] = Append(@, o)]
  <2>1. o \in Frame /\ toS[c] \in Seq(Frame) /\ \A s \in Clients : s # c => o # FrameOf("offer", s)
    BY FrameTyping, FrameFacts DEF TypeInv, TypeOK, WsTypeOK
  <2>2. ~Has(toS[c], o) /\ AtMostOne(toS[c], o) /\ ~Unasked(c) /\ ~Answered(c)
    BY <1>1 DEF TokenInv, OfferToken
  <2>3. /\ toS'[c] = Append(toS[c], o)
        /\ \A d \in Clients : d # c => toS'[d] = toS[d]
    BY <1>3
  <2> HIDE DEF o
  <2>4. AtMostOne(toS'[c], o)
    <3>1. AtMostOne(Append(toS[c], o), o)
      BY Zenon, <2>1, <2>2, HasFacts
    <3> QED BY <2>3, <3>1
  <2>5. \A s \in Clients : s # c => (Has(toS'[c], FrameOf("offer", s)) => Has(toS[c], FrameOf("offer", s)))
    <3>1. ASSUME NEW f PROVE Has(Append(toS[c], o), f) <=> (Has(toS[c], f) \/ o = f)
      BY Zenon, <2>1, HasFacts
    <3> QED BY Zenon, <2>1, <2>3, <3>1
  <2>6. ASSUME NEW s \in Clients
        PROVE  OfferToken(s)' /\ AnswerToken(s)'
    <3>1. OfferToken(s) /\ AnswerToken(s)
      BY DEF TokenInv
    <3>2. (Answered(s)' <=> Answered(s)) /\ (Unasked(s)' <=> Unasked(s))
      BY Zenon, <1>1 DEF Answered, Unasked
    <3>3. AnswerToken(s)'
      BY <1>1, <3>1 DEF AnswerToken, Answering
    <3>4. CASE s = c
      BY <1>1, <2>2, <2>3, <2>4, <3>1, <3>2, <3>3, <3>4 DEF OfferToken, o
    <3>5. CASE s # c
      BY <1>1, <2>3, <2>5, <3>1, <3>2, <3>3, <3>5 DEF OfferToken
    <3> QED BY <3>4, <3>5
  <2> QED BY <2>6 DEF TokenInv
<1> QED BY <1>2, <1>3

(***************************************************************************)
(* The main thread of a client.                                            *)
(***************************************************************************)
LEMMA TokenClientMain ==
    ASSUME TypeInv, TokenInv, NEW c \in Clients, ClientConnect(c) \/ ClientMain(c)
    PROVE  TokenInv'
<1> USE NodeFacts, Domains
<1>1. ASSUME UNCHANGED rtcVars, UNCHANGED toS,
             UNCHANGED toC \/ (\E q : Quiet(toC[c], q) /\ toC' = [toC EXCEPT ![c] = q]),
             \E w : /\ w = "connecting" => wsC[c] = "none"
                    /\ wsC' = [wsC EXCEPT ![c] = w] /\ w # "none"
      PROVE  TokenInv'
  <2>1. \A d \in Clients : Quiet(toS[d], toS'[d]) /\ Quiet(toC[d], toC'[d])
    BY <1>1 DEF Quiet
  <2>2. NoNewFrames
    BY <2>1, QuietFrames
  <2>3. NoNewRequests
    <3>1. \A s \in Clients : Unasked(s)' => Unasked(s)
      BY <1>1 DEF Unasked
    <3>2. UNCHANGED <<csd, peer_connection, remote>>
      BY <1>1 DEF rtcVars
    <3> QED BY <3>1, <3>2 DEF NoNewRequests
  <2> QED BY <2>2, <2>3, TokensKept
<1>2. CASE ClientConnect(c)
  BY <1>1, <1>2 DEF ClientConnect, WsConnect
<1>3. CASE ClientConnectFails(c) \/ ClientCloseHandler(c)
  <2>1. Quiet(toC[c], <<>>)
    BY DEF Quiet
  <2> QED BY <1>1, <1>3, <2>1 DEF ClientConnectFails, ClientCloseHandler, WsClientCloses
<1>4. CASE ClientReadsClose(c)
  <2>1. Quiet(toC[c], Tail(toC[c]))
    BY <1>4 DEF Quiet, ClientReadsClose
  <2> QED BY <1>1, <1>4, <2>1 DEF ClientReadsClose
<1>5. CASE ClientOpenHandler(c)
  <2>1. /\ Unasked(c) /\ wsC' = [wsC EXCEPT ![c] = "open"] /\ UNCHANGED <<toS, toC, remote>>
        /\ \/ UNCHANGED <<csd, peer_connection>>
           \/ csd' \in {csd, csd \cup {c}} /\ peer_connection' = [peer_connection EXCEPT ![c] = c]
    BY <1>5 DEF ClientOpenHandler, WsClientOpens, create_offer_sdp, DiesAt, Unasked
  <2> QED BY <2>1, TokenOpens
<1>6. CASE ClientMessageHandler(c)
  <2> DEFINE m == Head(toC[c])
  <2>1. /\ toC[c] # <<>> /\ toC' = [toC EXCEPT ![c] = Tail(@)]
        /\ UNCHANGED <<wsC, toS, csd, peer_connection>>
    BY <1>6 DEF ClientMessageHandler, push_reply_sdp, push_ice, DiesAt
  <2>2. \/ UNCHANGED remote
        \/ m.type = "answer" /\ remote' = [remote EXCEPT ![c] = m.pc]
    <3>1. CASE m.type = "answer" /\ push_reply_sdp(c, m.pc)
      <4>1. UNCHANGED remote \/ remote' = [remote EXCEPT ![c] = IF sig[c] = "local" THEN m.pc ELSE @]
        BY <3>1 DEF push_reply_sdp, DiesAt
      <4>2. [remote EXCEPT ![c] = remote[c]] = remote
        BY DEF TypeInv, TypeOK, RtcTypeOK
      <4> QED BY <3>1, <4>1, <4>2
    <3>2. CASE push_ice(c, m.pc)
      BY <3>2 DEF push_ice, DiesAt
    <3> QED BY <1>6, <3>1, <3>2 DEF ClientMessageHandler
  <2> QED BY <2>1, <2>2, TokenApplied
<1> QED BY <1>2, <1>3, <1>4, <1>5, <1>6 DEF ClientMain

(***************************************************************************)
(* The signaling thread of a client: the offer is sent.                    *)
(***************************************************************************)
LEMMA TokenClientSignaling ==
    ASSUME TypeInv, TokenInv, NEW c \in Clients, ClientSignaling(c)
    PROVE  TokenInv'
<1> USE NodeFacts, Domains
<1>1. UNCHANGED <<wsC, toC, peer_connection, remote>>
  BY DEF ClientSignaling, ClientOnSdp, ClientCsdFails, ClientOnIce, ClientOnOpen, ClientOnClosed,
         on_success_csd, on_failure_csd, on_ice_candidate, on_state_change, wsVars
<1>2. ASSUME csd' \subseteq csd, \A d \in Clients : Quiet(toS[d], toS'[d])
      PROVE  TokenInv'
  <2>1. NoNewFrames
    BY <1>1, <1>2, QuietFrames DEF Quiet
  <2>2. NoNewRequests
    BY <1>1, <1>2 DEF NoNewRequests, Unasked
  <2> QED BY <2>1, <2>2, TokensKept
<1>3. CASE ClientCsdFails(c) \/ ClientOnOpen(c) \/ ClientOnClosed(c)
  <2>1. UNCHANGED toS /\ csd' \subseteq csd
    BY <1>3 DEF ClientCsdFails, ClientOnOpen, ClientOnClosed, on_failure_csd, on_state_change, wsVars
  <2> QED BY <1>2, <2>1 DEF Quiet
<1>4. CASE ClientOnIce(c)
  <2>1. FrameOf("ice", c) \in Frame /\ FrameOf("ice", c).type \notin {"offer", "answer"}
    BY FrameTyping, FrameFacts
  <2>2. UNCHANGED csd /\ (UNCHANGED toS \/ toS' = [toS EXCEPT ![c] = Append(@, FrameOf("ice", c))])
    BY <1>4 DEF ClientOnIce, on_ice_candidate, ws_client_send
  <2>3. \A d \in Clients : Quiet(toS[d], toS'[d])
    BY <2>1, <2>2 DEF Quiet
  <2> QED BY <1>2, <2>2, <2>3
<1>5. CASE ClientOnSdp(c)
  <2>1. /\ c \in csd /\ csd' = csd \ {c}
        /\ UNCHANGED toS \/ toS' = [toS EXCEPT ![c] = Append(@, FrameOf("offer", c))]
    BY <1>5 DEF ClientOnSdp, on_success_csd, ws_client_send
  <2> QED BY <1>1, <2>1, OfferSent
<1> QED BY <1>3, <1>4, <1>5 DEF ClientSignaling

(***************************************************************************)
(* The server sends the answer it has been making, on whatever connection  *)
(* ws_hdl_ is, and from then on is not making it.                          *)
(***************************************************************************)
LEMMA AnswerSent ==
    ASSUME TypeInv, TokenInv, Server \in csd, NEW p \in Clients, peer_connection[Server] = p,
           NEW h \in Clients, toC' = [toC EXCEPT ![h] = Append(@, FrameOf("answer", p))],
           \A d \in Clients : remote'[d] = remote[d], ~Answering(p)', NEW s \in Clients,
           Answering(s)' => s # p /\ ~Answered(s)
    PROVE  AnswerToken(s)' /\ \A c \in Clients : Has(toC'[c], FrameOf("answer", s)) => Answered(s)
<1> DEFINE a == FrameOf("answer", p)
           b == FrameOf("answer", s)
<1>1. a \in Frame /\ toC[h] \in Seq(Frame) /\ DOMAIN toC = Clients
  BY FrameTyping DEF TypeInv, TypeOK, WsTypeOK
<1>2. a = b <=> s = p
  BY FrameFacts
<1>3. /\ toC'[h] = Append(toC[h], a)
      /\ \A d \in Clients : d # h => toC'[d] = toC[d]
  BY <1>1
<1>4. Answering(p) /\ \A d \in Clients : ~Has(toC[d], a) /\ remote[d] # p
  BY DEF Answering, TokenInv, AnswerToken
<1>5. AnswerToken(s)
  BY DEF TokenInv
<1>6. /\ Has(toC'[h], b) <=> (Has(toC[h], b) \/ s = p)
      /\ AtMostOne(toC'[h], b)
  <2> HIDE DEF a, b
  <2>1. Has(Append(toC[h], a), b) <=> (Has(toC[h], b) \/ a = b)
    BY Zenon, <1>1, HasFacts
  <2>2. AtMostOne(toC[h], b)
    BY Zenon, <1>5 DEF AnswerToken, b
  <2>3. a = b => ~Has(toC[h], b)
    BY Zenon, <1>4
  <2>4. AtMostOne(Append(toC[h], a), b)
    BY Zenon, <1>1, <2>2, <2>3, HasFacts
  <2> QED BY <1>2, <1>3, <2>1, <2>4
<1> HIDE DEF a, b
<1>7. CASE s = p
  <2>1. \A d \in Clients : Has(toC'[d], b) => d = h
    BY <1>2, <1>3, <1>4, <1>7
  <2>2. \A d \in Clients : AtMostOne(toC'[d], b)
    BY <1>3, <1>5, <1>6 DEF AnswerToken, b
  <2>3. \A d \in Clients : remote'[d] # s
    BY <1>4, <1>7
  <2>4. AnswerToken(s)'
    BY <1>7, <2>1, <2>2, <2>3 DEF AnswerToken, b
  <2> QED BY <1>7, <2>4 DEF Answered
<1>8. CASE s # p
  <2>1. \A d \in Clients : Has(toC'[d], b) <=> Has(toC[d], b)
    BY <1>3, <1>6, <1>8
  <2>2. \A d \in Clients : AtMostOne(toC'[d], b)
    BY <1>3, <1>5, <1>6 DEF AnswerToken, b
  <2>3. \A c \in Clients : Has(toC'[c], b) \/ remote'[c] = s => Answered(s)
    BY <2>1 DEF Answered, b
  <2>4. AnswerToken(s)'
    BY <1>5, <2>1, <2>2, <2>3 DEF AnswerToken, b
  <2> QED BY <2>3, <2>4 DEF b
<1> QED BY <1>7, <1>8

(***************************************************************************)
(* The server takes an offer: its request replaces the previous one, whose *)
(* answer is lost or goes out.                                             *)
(***************************************************************************)
LEMMA TokenTaken ==
    ASSUME TypeInv, TokenInv, NEW c \in Clients, ServerMessageHandler(c)
    PROVE  TokenInv'
<1> USE NodeFacts, Domains
<1> DEFINE m == Head(toS[c])
           o == FrameOf("offer", c)
<1>1. /\ Up(Server) /\ toS[c] # <<>> /\ toS' = [toS EXCEPT ![c] = Tail(@)] /\ UNCHANGED wsC
      /\ toS[c] \in Seq(Frame) /\ \A d \in Clients : toC[d] \in Seq(Frame)
  BY DEF ServerMessageHandler, TypeInv, TypeOK, WsTypeOK
<1>2. m \in Frame /\ m.pc \in Clients
  BY <1>1, StreamTyping DEF Frame
<1>3. \A d \in Clients : Quiet(toS[d], toS'[d])
  BY <1>1 DEF Quiet
<1>4. CASE push_ice(Server, m.pc) /\ UNCHANGED toC
  <2>1. NoNewFrames
    BY <1>3, <1>4, QuietFrames DEF Quiet
  <2>2. NoNewRequests
    BY <1>1, <1>4 DEF NoNewRequests, Unasked, push_ice, DiesAt
  <2> QED BY <2>1, <2>2, TokensKept
<1>5. CASE m.type = "offer"
  <2>1. m = o /\ m.pc = c
    <3>1. m = FrameOf("offer", m.pc)
      BY <1>2, <1>5, FrameFacts
    <3>2. Has(toS[c], FrameOf("offer", m.pc))
      <4>1. ASSUME NEW f, m = f PROVE Has(toS[c], f)
        BY Zenon, <1>1, <4>1, HasFacts
      <4> QED BY Zenon, <3>1, <4>1
    <3>3. c = m.pc
      BY Zenon, <1>2, <3>2 DEF TokenInv, OfferToken
    <3> QED BY <3>1, <3>3
  <2>2. /\ Has(toS[c], o) /\ ~Unasked(c) /\ c \notin csd /\ ~Answered(c)
        /\ AtMostOne(toS[c], o)
    <3>1. Has(toS[c], o)
      BY Zenon, <1>1, <2>1, HasFacts
    <3> QED BY Zenon, <3>1 DEF TokenInv, OfferToken
  <2>3. ~Has(toS'[c], o)
    <3>1. ~Has(Tail(toS[c]), o)
      BY Zenon, <1>1, <2>1, <2>2, HasFacts
    <3> QED BY <1>1, <3>1
  <2>4. /\ csd' = csd \ {Server} \/ csd' = csd \cup {Server}
        /\ peer_connection'[Server] = Null \/ peer_connection'[Server] = c
        /\ UNCHANGED remote \/ remote' = [remote EXCEPT ![Server] = c]
    BY <1>5, <2>1 DEF ServerMessageHandler, create_answer_sdp_exits, create_answer_sdp, Replaces
  <2>5. \A d \in Clients : remote'[d] = remote[d]
    BY <2>4 DEF TypeInv, TypeOK, RtcTypeOK
  <2>6. \/ UNCHANGED toC
        \/ /\ Server \in csd
           /\ toC' = [toC EXCEPT ![c] = Append(@, FrameOf("answer", peer_connection[Server]))]
    BY <1>5, <2>1 DEF ServerMessageHandler, StaleAnswer, LastAnswer, ws_server_send
  <2>7. \A s, d \in Clients :
           /\ AtMostOne(toS[d], FrameOf("offer", s)) => AtMostOne(toS'[d], FrameOf("offer", s))
           /\ Has(toS'[d], FrameOf("offer", s)) => Has(toS[d], FrameOf("offer", s))
    BY Zenon, <1>1, <1>3, QuietStream
  <2> HIDE DEF m, o
  <2>8. \A s \in Clients : s # c => ~Answering(s)'
    BY <2>4 DEF Answering
  <2>9. ASSUME NEW s \in Clients
        PROVE  AnswerToken(s)' /\ \A d \in Clients : Has(toC'[d], FrameOf("answer", s)) => Answered(s)
    <3>1. OfferToken(s) /\ AnswerToken(s)
      BY DEF TokenInv
    <3>2. CASE UNCHANGED toC
      <4>1. \A d \in Clients : Has(toC'[d], FrameOf("answer", s)) => Answered(s)
        BY <3>2 DEF Answered
      <4>2. Answering(s)' => \A d \in Clients : ~Has(toC'[d], FrameOf("answer", s)) /\ remote'[d] # s
        BY <2>2, <2>5, <2>8, <4>1 DEF Answered
      <4> QED BY <2>5, <3>1, <3>2, <4>1, <4>2 DEF AnswerToken
    <3>3. CASE /\ Server \in csd
               /\ toC' = [toC EXCEPT ![c] = Append(@, FrameOf("answer", peer_connection[Server]))]
      <4>1. PICK p \in Clients : peer_connection[Server] = p
        BY Zenon, <1>1, <3>3 DEF TypeInv, TypeOK, RtcTypeOK, PcHeld
      <4>2. p # c
        BY <2>2, <4>1 DEF Answered
      <4>3. ~Answering(p)'
        BY <2>8, <4>2
      <4>4. Answering(s)' => s # p /\ ~Answered(s)
        BY <2>2, <2>8, <4>2
      <4> QED BY <2>5, <3>3, <4>1, <4>3, <4>4, AnswerSent
    <3> QED BY <2>6, <3>2, <3>3
  <2>10. ASSUME NEW s \in Clients
         PROVE  OfferToken(s)'
    <3>1. OfferToken(s)
      BY DEF TokenInv
    <3>2. (Unasked(s)' <=> Unasked(s)) /\ (s \in csd' <=> s \in csd)
      BY <1>1, <2>4 DEF Unasked
    <3>3. CASE s = c
      BY <2>2, <2>3, <2>7, <3>1, <3>2, <3>3 DEF OfferToken, o
    <3>4. CASE s # c
      <4>1. Answered(s)' => Answered(s)
        <5>1. (\E d \in Clients : remote'[d] = s) => Answered(s)
          BY <2>5 DEF Answered
        <5>2. peer_connection'[Server] # s
          BY <2>4, <3>4
        <5>3. Answered(s)' => \E d \in Clients : Has(toC'[d], FrameOf("answer", s)) \/ remote'[d] = s
          BY <5>2 DEF Answered
        <5> QED BY <2>9, <5>1, <5>3
      <4> QED BY <2>7, <3>1, <3>2, <4>1 DEF OfferToken
    <3> QED BY <3>3, <3>4
  <2> QED BY <2>9, <2>10 DEF TokenInv
<1> QED BY <1>4, <1>5 DEF ServerMessageHandler

(***************************************************************************)
(* The other steps of the server.                                          *)
(***************************************************************************)
LEMMA TokenServer ==
    ASSUME TypeInv, TokenInv, ServerSignaling \/ \E c \in Clients : ServerMain(c)
    PROVE  TokenInv'
<1> USE NodeFacts, Domains
<1>1. ASSUME UNCHANGED <<wsC, peer_connection, remote>>, csd' \subseteq csd,
             \A d \in Clients : Quiet(toS[d], toS'[d]) /\ Quiet(toC[d], toC'[d])
      PROVE  TokenInv'
  <2>1. NoNewFrames
    BY <1>1, QuietFrames
  <2>2. NoNewRequests
    BY <1>1 DEF NoNewRequests, Unasked
  <2> QED BY <2>1, <2>2, TokensKept
<1>2. ASSUME NEW c \in Clients, ServerMain(c)
      PROVE  TokenInv'
  <2>1. CASE ServerAccept(c) \/ ServerOpenHandler(c) \/ ServerCloseHandler(c)
    <3>1. /\ UNCHANGED <<wsC, toC, rtcVars>>
          /\ UNCHANGED toS \/ toS' = [toS EXCEPT ![c] = <<>>]
      BY <2>1 DEF ServerAccept, WsAccept, ServerOpenHandler, WsServerOpens, ServerCloseHandler,
                  WsServerCloses
    <3>2. \A d \in Clients : Quiet(toS[d], toS'[d]) /\ Quiet(toC[d], toC'[d])
      BY <3>1 DEF Quiet
    <3> QED BY <1>1, <3>1, <3>2 DEF rtcVars
  <2> QED BY <1>2, <2>1, TokenTaken DEF ServerMain
<1>3. CASE ServerCsdFails \/ ServerOnDataChannel \/ ServerOnClosed
  <2>1. UNCHANGED <<wsC, toS, toC, peer_connection, remote>> /\ csd' \subseteq csd
    BY <1>3 DEF ServerCsdFails, ServerOnDataChannel, ServerOnClosed, on_failure_csd, OnDataChannel,
                on_state_change, wsVars
  <2> QED BY <1>1, <2>1 DEF Quiet
<1>4. ASSUME NEW h \in Clients \cup {Null}, NEW m \in Frame, m.type \notin {"offer", "answer"},
             UNCHANGED <<wsC, toS, peer_connection, remote, csd>>,
             UNCHANGED toC \/ (h # Null /\ toC' = [toC EXCEPT ![h] = Append(@, m)])
      PROVE  TokenInv'
  <2>1. \A d \in Clients : Quiet(toS[d], toS'[d]) /\ Quiet(toC[d], toC'[d])
    BY <1>4 DEF Quiet
  <2> QED BY <1>1, <1>4, <2>1
<1>5. ws_hdl_[Server] \in Clients \cup {Null}
  BY DEF TypeInv, TypeOK
<1>6. CASE ServerOnIce
  <2>1. peer_connection[Server] \in Clients
    BY Zenon, <1>6 DEF ServerOnIce, on_ice_candidate, TypeInv, TypeOK, RtcTypeOK, PcHeld
  <2> DEFINE m == FrameOf("ice", peer_connection[Server])
  <2>2. m \in Frame /\ m.type \notin {"offer", "answer"}
    BY <2>1, FrameTyping, FrameFacts
  <2>3. /\ UNCHANGED <<wsC, toS, peer_connection, remote, csd>>
        /\ \/ UNCHANGED toC
           \/ ws_hdl_[Server] # Null /\ toC' = [toC EXCEPT ![ws_hdl_[Server]] = Append(@, m)]
    BY <1>6 DEF ServerOnIce, on_ice_candidate, ws_server_send
  <2> HIDE DEF m
  <2> QED BY <1>4, <1>5, <2>2, <2>3
<1>7. CASE ServerOnOpen
  <2> DEFINE m == FrameOf("close", ws_hdl_[Server])
  <2>1. /\ UNCHANGED <<wsC, toS, peer_connection, remote, csd>>
        /\ \/ UNCHANGED toC
           \/ ws_hdl_[Server] # Null /\ toC' = [toC EXCEPT ![ws_hdl_[Server]] = Append(@, m)]
    BY <1>7 DEF ServerOnOpen, on_state_change, on_success
  <2>2. ASSUME ws_hdl_[Server] # Null
        PROVE  m \in Frame /\ m.type \notin {"offer", "answer"}
    <3>1. m \in Frame
      BY Zenon, <1>5, <2>2, FrameTyping
    <3>2. m.type = "close"
      BY DEF FrameOf
    <3> QED BY <3>1, <3>2
  <2>3. CASE UNCHANGED toC
    BY <1>1, <2>1, <2>3 DEF Quiet
  <2> HIDE DEF m
  <2> QED BY <1>4, <1>5, <2>1, <2>2, <2>3
<1>8. CASE ServerOnSdp
  <2>1. PICK p \in Clients : peer_connection[Server] = p
    BY Zenon, <1>8 DEF ServerOnSdp, on_success_csd, TypeInv, TypeOK, RtcTypeOK, PcHeld
  <2>2. /\ UNCHANGED <<wsC, toS, peer_connection, remote>>
        /\ Server \in csd /\ csd' = csd \ {Server}
    BY <1>8 DEF ServerOnSdp, on_success_csd
  <2>3. \/ UNCHANGED toC
        \/ \E h \in Clients : toC' = [toC EXCEPT ![h] = Append(@, FrameOf("answer", p))]
    BY <1>5, <1>8, <2>1 DEF ServerOnSdp, ws_server_send
  <2>4. CASE UNCHANGED toC
    BY <1>1, <2>2, <2>4 DEF Quiet
  <2>5. ASSUME NEW h \in Clients, toC' = [toC EXCEPT ![h] = Append(@, FrameOf("answer", p))],
               NEW s \in Clients
        PROVE  OfferToken(s)' /\ AnswerToken(s)'
    <3>1. \A t \in Clients : ~Answering(t)'
      BY <2>2 DEF Answering
    <3>2. AnswerToken(s)' /\ \A c \in Clients : Has(toC'[c], FrameOf("answer", s)) => Answered(s)
      BY <2>1, <2>2, <2>5, <3>1, AnswerSent
    <3>3. Answered(s)' => Answered(s)
      <4>1. (\E d \in Clients : remote'[d] = s) \/ peer_connection'[Server] = s => Answered(s)
        BY <2>2 DEF Answered
      <4>2. Answered(s)' => \/ peer_connection'[Server] = s
                            \/ \E d \in Clients : Has(toC'[d], FrameOf("answer", s)) \/ remote'[d] = s
        BY DEF Answered
      <4> QED BY <3>2, <4>1, <4>2
    <3>4. OfferToken(s)'
      BY <2>2, <3>3 DEF TokenInv, OfferToken, Unasked
    <3> QED BY <3>2, <3>4
  <2> QED BY <2>3, <2>4, <2>5 DEF TokenInv
<1> QED BY <1>2, <1>3, <1>6, <1>7, <1>8 DEF ServerSignaling

LEMMA TokenInvStep == TypeInv /\ TokenInv /\ [Next]_vars => TokenInv'
<1> SUFFICES ASSUME TypeInv, TokenInv, [Next]_vars
             PROVE  TokenInv'
  OBVIOUS
<1>1. ASSUME UNCHANGED <<wsC, toS, toC, csd, peer_connection, remote>>
      PROVE  TokenInv'
  <2>1. NoNewFrames
    BY <1>1, QuietFrames DEF Quiet
  <2> QED BY <1>1, <2>1, TokensKept DEF NoNewRequests, Unasked
<1>2. ASSUME NEW n \in Nodes, Kill(n)
      PROVE  TokenInv'
  BY <1>1, <1>2 DEF Kill, DiesAt, wsVars
<1>3. CASE UNCHANGED vars
  BY <1>1, <1>3 DEF vars, wsVars, rtcVars
<1> QED BY <1>2, <1>3, TokenClientMain, TokenClientSignaling, TokenServer DEF Next

LEMMA TokenInvInit == Init => TokenInv
<1> SUFFICES ASSUME Init, NEW s \in Clients
             PROVE  OfferToken(s) /\ AnswerToken(s)
  BY DEF TokenInv
<1>1. \A f : ~Has(<<>>, f) /\ AtMostOne(<<>>, f)
  BY DEF Has, AtMostOne
<1>2. /\ \A c \in Clients : toS[c] = <<>> /\ toC[c] = <<>> /\ remote[c] = Null
      /\ csd = {} /\ peer_connection[Server] = Null
  BY NodeFacts DEF Init, WsInit, RtcInit
<1>3. ~Answered(s)
  BY Zenon, <1>1, <1>2, NodeFacts DEF Answered
<1>4. OfferToken(s)
  BY Zenon, <1>1, <1>2, <1>3 DEF OfferToken
<1>5. AnswerToken(s)
  BY Zenon, <1>1, <1>2, NodeFacts DEF AnswerToken, Answering
<1> QED BY <1>4, <1>5
=============================================================================
