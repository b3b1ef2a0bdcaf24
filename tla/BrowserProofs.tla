--------------------------- MODULE BrowserProofs ---------------------------
(***************************************************************************)
(* What holds of the page: its echoes are in order although its channel    *)
(* may lose messages, and an answer goes to the peer connection that asked *)
(* for it although the handlers find it through a global.                  *)
(***************************************************************************)
EXTENDS BrowserClient, TokenProofs, ShutdownProofs

(***************************************************************************)
(* The messages of a session, from the replies that were printed over      *)
(* those on their way back to those on their way to the server, ascend.    *)
(* Only "exit" has no place in that order.                                 *)
(***************************************************************************)
Ascending(q) == \A i, j \in DOMAIN q : i < j /\ q[j] # Exit => q[i] < q[j]

Before(p, q) == \A i \in DOMAIN p, j \in DOMAIN q : q[j] # Exit => p[i] < q[j]

Within(q, n) == \A i \in DOMAIN q : q[i] <= n

InOrder(e, d, u, n) ==
    /\ e \in Seq(Nat \ {0}) /\ d \in Seq(Nat \ {0}) /\ u \in Seq(Nat) /\ n \in Nat
    /\ Ascending(e) /\ Ascending(d) /\ Ascending(u)
    /\ Before(e, d) /\ Before(e, u) /\ Before(d, u)
    /\ Within(e, n) /\ Within(d, n) /\ Within(u, n)

OrderInv ==
    /\ DOMAIN sent = Clients /\ DOMAIN up = Clients /\ DOMAIN down = Clients /\ DOMAIN echoed = Clients
    /\ \A c \in Clients : InOrder(echoed[c], down[c], up[c], sent[c])

(***************************************************************************)
(* What taking the first message and appending one do to the order.        *)
(***************************************************************************)
LEMMA TailOrder ==
    ASSUME NEW q \in Seq(Nat), q # <<>>
    PROVE  /\ Ascending(q) => Ascending(Tail(q))
           /\ \A n : Within(q, n) => Within(Tail(q), n) /\ Head(q) <= n
           /\ \A p : Before(p, q) => Before(p, Tail(q))
           /\ \A p : Before(q, p) => Before(Tail(q), p)
<1> DEFINE t == Tail(q)
<1>1. /\ \A i \in DOMAIN t : i \in Nat /\ i + 1 \in DOMAIN q /\ t[i] = q[i + 1]
      /\ 1 \in DOMAIN q /\ Head(q) = q[1]
  OBVIOUS
<1> HIDE DEF t
<1>2. Ascending(q) => Ascending(t)
  <2> SUFFICES ASSUME Ascending(q), NEW i \in DOMAIN t, NEW j \in DOMAIN t, i < j, t[j] # Exit
               PROVE  t[i] < t[j]
    BY DEF Ascending
  <2>1. i + 1 < j + 1
    BY <1>1
  <2> QED BY <1>1, <2>1 DEF Ascending
<1>3. \A n : Within(q, n) => Within(t, n) /\ Head(q) <= n
  BY <1>1 DEF Within
<1>4. \A p : (Before(p, q) => Before(p, t)) /\ (Before(q, p) => Before(t, p))
  BY Zenon, <1>1 DEF Before
<1> QED BY <1>2, <1>3, <1>4 DEF t

LEMMA AppendOrder ==
    ASSUME NEW q \in Seq(Nat), NEW x \in Nat
    PROVE  /\ Ascending(q) /\ (x = Exit \/ \A i \in DOMAIN q : q[i] < x) => Ascending(Append(q, x))
           /\ \A n : Within(q, n) /\ x <= n => Within(Append(q, x), n)
           /\ \A p : Before(p, q) /\ (x = Exit \/ \A i \in DOMAIN p : p[i] < x) => Before(p, Append(q, x))
           /\ \A p : Before(q, p) /\ (\A j \in DOMAIN p : p[j] # Exit => x < p[j]) => Before(Append(q, x), p)
<1> DEFINE r == Append(q, x)
           k == Len(q) + 1
<1>1. /\ \A i \in DOMAIN r : /\ i \in Nat
                             /\ (i \in DOMAIN q /\ r[i] = q[i] /\ i < k) \/ (i = k /\ r[i] = x)
      /\ k \in Nat /\ \A i \in DOMAIN q : i < k
  OBVIOUS
<1> HIDE DEF r, k
<1>2. Ascending(q) /\ (x = Exit \/ \A i \in DOMAIN q : q[i] < x) => Ascending(r)
  <2> SUFFICES ASSUME Ascending(q), x = Exit \/ \A i \in DOMAIN q : q[i] < x,
                      NEW i \in DOMAIN r, NEW j \in DOMAIN r, i < j, r[j] # Exit
               PROVE  r[i] < r[j]
    BY DEF Ascending
  <2>1. CASE j = k /\ r[j] = x
    <3>1. i # k /\ x # Exit
      BY <1>1, <2>1
    <3> QED BY <1>1, <2>1, <3>1
  <2>2. CASE j \in DOMAIN q /\ r[j] = q[j] /\ j < k
    <3>1. i \in DOMAIN q /\ r[i] = q[i]
      BY <1>1, <2>2
    <3> QED BY <2>2, <3>1 DEF Ascending
  <2> QED BY <1>1, <2>1, <2>2
<1>3. \A n : Within(q, n) /\ x <= n => Within(r, n)
  BY Zenon, <1>1 DEF Within
<1>4. \A p : Before(p, q) /\ (x = Exit \/ \A i \in DOMAIN p : p[i] < x) => Before(p, r)
  BY Zenon, <1>1 DEF Before
<1>5. \A p : Before(q, p) /\ (\A j \in DOMAIN p : p[j] # Exit => x < p[j]) => Before(r, p)
  BY Zenon, <1>1 DEF Before
<1> QED BY <1>2, <1>3, <1>4, <1>5 DEF r

(***************************************************************************)
(* The first message of q goes to the end of p.                            *)
(***************************************************************************)
LEMMA MoveOrder ==
    ASSUME NEW p \in Seq(Nat), NEW q \in Seq(Nat), q # <<>>, Head(q) # Exit,
           Ascending(p), Ascending(q), Before(p, q)
    PROVE  /\ Ascending(Append(p, Head(q))) /\ Before(Append(p, Head(q)), Tail(q))
           /\ \A n : Within(p, n) /\ Within(q, n) => Within(Append(p, Head(q)), n)
           /\ \A r : Before(p, r) /\ Before(q, r) => Before(Append(p, Head(q)), r)
           /\ \A r : Before(r, p) /\ Before(r, q) => Before(r, Append(p, Head(q)))
<1> DEFINE x == Head(q)
           t == Tail(q)
<1>1. x \in Nat /\ 1 \in DOMAIN q /\ x = q[1]
  OBVIOUS
<1>2. \A j \in DOMAIN t : t[j] # Exit => x < t[j]
  <2>1. \A j \in DOMAIN t : 1 < j + 1 /\ j + 1 \in DOMAIN q /\ t[j] = q[j + 1]
    OBVIOUS
  <2> HIDE DEF x, t
  <2> QED BY Zenon, <1>1, <2>1 DEF Ascending
<1>3. \A i \in DOMAIN p : p[i] < x
  <2> HIDE DEF x
  <2>1. q[1] # Exit
    BY <1>1 DEF x
  <2> QED BY Zenon, <1>1, <2>1 DEF Before
<1>4. Before(p, t) /\ \A n : Within(q, n) => x <= n
  BY Zenon, TailOrder
<1>5. \A r : Before(q, r) => \A j \in DOMAIN r : r[j] # Exit => x < r[j]
  <2> HIDE DEF x
  <2> QED BY Zenon, <1>1 DEF Before
<1>6. \A r : Before(r, q) => \A i \in DOMAIN r : r[i] < x
  <2> HIDE DEF x
  <2>1. q[1] # Exit
    BY <1>1 DEF x
  <2> QED BY Zenon, <1>1, <2>1 DEF Before
<1> HIDE DEF x, t
<1>7. /\ Ascending(Append(p, x)) /\ Before(Append(p, x), t)
      /\ \A n : Within(p, n) /\ Within(q, n) => Within(Append(p, x), n)
  BY Zenon, <1>1, <1>2, <1>3, <1>4, AppendOrder
<1>8. \A r : Before(p, r) /\ Before(q, r) => Before(Append(p, x), r)
  BY Zenon, <1>1, <1>5, AppendOrder
<1>9. \A r : Before(r, p) /\ Before(r, q) => Before(r, Append(p, x))
  BY Zenon, <1>1, <1>6, AppendOrder
<1> QED BY Zenon, <1>7, <1>8, <1>9 DEF x, t

(***************************************************************************)
(* The steps on the streams of a session: a message is given up or dropped,*)
(* a line is echoed, a reply is printed, a line or "exit" is sent.         *)
(***************************************************************************)
LEMMA OrderMoves ==
    ASSUME NEW e, NEW d, NEW u, NEW n, InOrder(e, d, u, n)
    PROVE  /\ u # <<>> => InOrder(e, d, Tail(u), n)
           /\ d # <<>> => InOrder(e, Tail(d), u, n)
           /\ u # <<>> /\ Head(u) # Exit => InOrder(e, Append(d, Head(u)), Tail(u), n)
           /\ d # <<>> => InOrder(Append(e, Head(d)), Tail(d), u, n)
           /\ InOrder(e, d, Append(u, n + 1), n + 1)
           /\ InOrder(e, d, Append(u, Exit), n)
<1> USE DEF InOrder
<1>1. e \in Seq(Nat) /\ d \in Seq(Nat)
  OBVIOUS
<1>2. u # <<>> => Tail(u) \in Seq(Nat) /\ Head(u) \in Nat
  BY Zenon, SeqFacts
<1>3. d # <<>> => Tail(d) \in Seq(Nat \ {0}) /\ Head(d) \in Nat \ {0}
  BY Zenon, SeqFacts
<1>4. u # <<>> => InOrder(e, d, Tail(u), n)
  BY Zenon, <1>2, TailOrder
<1>5. d # <<>> => InOrder(e, Tail(d), u, n)
  BY Zenon, <1>1, <1>3, TailOrder
<1>6. ASSUME u # <<>>, Head(u) # Exit
      PROVE  InOrder(e, Append(d, Head(u)), Tail(u), n)
  <2>1. Head(u) \in Nat \ {0}
    BY <1>2, <1>6 DEF Exit
  <2>2. Append(d, Head(u)) \in Seq(Nat \ {0})
    BY Zenon, <2>1, SeqFacts
  <2>3. /\ Ascending(Append(d, Head(u))) /\ Before(Append(d, Head(u)), Tail(u))
        /\ Within(Append(d, Head(u)), n) /\ Before(e, Append(d, Head(u)))
    BY Zenon, <1>1, <1>6, MoveOrder
  <2> QED BY Zenon, <1>4, <1>6, <2>2, <2>3
<1>7. ASSUME d # <<>>
      PROVE  InOrder(Append(e, Head(d)), Tail(d), u, n)
  <2>1. Head(d) # Exit
    BY <1>3, <1>7 DEF Exit
  <2>2. Append(e, Head(d)) \in Seq(Nat \ {0})
    BY Zenon, <1>3, <1>7, SeqFacts
  <2>3. /\ Ascending(Append(e, Head(d))) /\ Before(Append(e, Head(d)), Tail(d))
        /\ Within(Append(e, Head(d)), n) /\ Before(Append(e, Head(d)), u)
    BY Zenon, <1>1, <1>7, <2>1, MoveOrder
  <2> QED BY Zenon, <1>5, <1>7, <2>2, <2>3
<1>8. InOrder(e, d, Append(u, n + 1), n + 1)
  <2>1. /\ n + 1 \in Nat /\ n + 1 <= n + 1
        /\ \A q : Within(q, n) /\ q \in Seq(Nat) => Within(q, n + 1) /\ \A i \in DOMAIN q : q[i] < n + 1
    <3> SUFFICES ASSUME NEW q \in Seq(Nat), Within(q, n)
                 PROVE  Within(q, n + 1) /\ \A i \in DOMAIN q : q[i] < n + 1
      OBVIOUS
    <3>1. \A i \in DOMAIN q : q[i] \in Nat
      OBVIOUS
    <3> QED BY <3>1 DEF Within
  <2>2. Append(u, n + 1) \in Seq(Nat)
    BY Zenon, <2>1, SeqFacts
  <2>3. /\ Ascending(Append(u, n + 1)) /\ Within(Append(u, n + 1), n + 1)
        /\ Before(e, Append(u, n + 1)) /\ Before(d, Append(u, n + 1))
    BY Zenon, <1>1, <2>1, AppendOrder
  <2> QED BY Zenon, <1>1, <2>1, <2>2, <2>3
<1>9. InOrder(e, d, Append(u, Exit), n)
  <2>1. Exit \in Nat /\ Exit <= n
    BY DEF Exit
  <2>2. Append(u, Exit) \in Seq(Nat)
    BY Zenon, <2>1, SeqFacts
  <2> QED BY Zenon, <2>1, <2>2, AppendOrder
<1> QED BY <1>4, <1>5, <1>6, <1>7, <1>8, <1>9

LEMMA OrderStep ==
    ASSUME OrderInv, dataChannel \in Clients \cup {Null}, [BrowserNext]_browserVars
    PROVE  OrderInv'
<1> USE NodeFacts
<1>1. ASSUME UNCHANGED <<sent, up, down, echoed>>
      PROVE  OrderInv'
  BY <1>1 DEF OrderInv
<1>2. ASSUME UNCHANGED sessionVars
      PROVE  OrderInv'
  BY <1>1, <1>2 DEF sessionVars
<1> DEFINE Only(c) ==
               /\ \A b \in Clients : b # c => /\ echoed'[b] = echoed[b] /\ down'[b] = down[b]
                                            /\ up'[b] = up[b] /\ sent'[b] = sent[b]
               /\ DOMAIN sent' = Clients /\ DOMAIN up' = Clients
               /\ DOMAIN down' = Clients /\ DOMAIN echoed' = Clients
<1>3. ASSUME NEW c \in Clients, Only(c), InOrder(echoed'[c], down'[c], up'[c], sent'[c])
      PROVE  OrderInv'
  BY Zenon, <1>3 DEF OrderInv
<1>4. \A c \in Clients : InOrder(echoed[c], down[c], up[c], sent[c])
  BY DEF OrderInv
<1> HIDE DEF Only
<1>5. ASSUME NEW c \in Clients, Expires(c)
      PROVE  OrderInv'
  <2>1. /\ UNCHANGED <<sent, echoed>>
        /\ \/ up[c] # <<>> /\ up' = [up EXCEPT ![c] = Tail(up[c])] /\ UNCHANGED down
           \/ down[c] # <<>> /\ down' = [down EXCEPT ![c] = Tail(down[c])] /\ UNCHANGED up
    BY Zenon, <1>5 DEF Expires
  <2>2. Only(c) /\ echoed'[c] = echoed[c] /\ sent'[c] = sent[c]
    BY <2>1 DEF Only, OrderInv
  <2>3. \/ up[c] # <<>> /\ up'[c] = Tail(up[c]) /\ down'[c] = down[c]
        \/ down[c] # <<>> /\ down'[c] = Tail(down[c]) /\ up'[c] = up[c]
    BY Zenon, <2>1 DEF OrderInv
  <2>4. InOrder(echoed[c], down'[c], up'[c], sent[c])
    BY <1>4, <2>3, OrderMoves
  <2> QED BY Zenon, <1>3, <2>2, <2>4
<1>6. ASSUME NEW c \in Clients, ClientOnMessage(c)
      PROVE  OrderInv'
  <2>1. /\ UNCHANGED <<sent, up>> /\ down[c] # <<>>
        /\ echoed' = [echoed EXCEPT ![c] = Append(echoed[c], Head(down[c]))]
        /\ down' = [down EXCEPT ![c] = Tail(down[c])]
    BY Zenon, <1>6 DEF ClientOnMessage
  <2>2. Only(c) /\ up'[c] = up[c] /\ sent'[c] = sent[c]
    BY <2>1 DEF Only, OrderInv
  <2>3. echoed'[c] = Append(echoed[c], Head(down[c])) /\ down'[c] = Tail(down[c])
    BY Zenon, <2>1 DEF OrderInv
  <2>4. InOrder(Append(echoed[c], Head(down[c])), Tail(down[c]), up[c], sent[c])
    BY Zenon, <1>4, <2>1, OrderMoves
  <2> QED BY Zenon, <1>3, <2>1, <2>2, <2>3, <2>4
<1>7. ASSUME NEW c \in Clients, ServerOnMessage(c)
      PROVE  OrderInv'
  <2>1. /\ UNCHANGED <<sent, echoed>> /\ up[c] # <<>> /\ up' = [up EXCEPT ![c] = Tail(up[c])]
        /\ \/ UNCHANGED down
           \/ /\ Head(up[c]) # Exit
              /\ down' = [down EXCEPT ![c] = IF Accepts(Server, down[c])
                                             THEN Append(down[c], Head(up[c])) ELSE down[c]]
    BY Zenon, <1>7 DEF ServerOnMessage, server_send
  <2>2. Only(c) /\ echoed'[c] = echoed[c] /\ sent'[c] = sent[c]
    BY <2>1 DEF Only, OrderInv
  <2>3. /\ up'[c] = Tail(up[c])
        /\ down'[c] = down[c] \/ (Head(up[c]) # Exit /\ down'[c] = Append(down[c], Head(up[c])))
    BY Zenon, <2>1 DEF OrderInv
  <2>4. /\ InOrder(echoed[c], down[c], Tail(up[c]), sent[c])
        /\ Head(up[c]) # Exit => InOrder(echoed[c], Append(down[c], Head(up[c])), Tail(up[c]), sent[c])
    BY Zenon, <1>4, <2>1, OrderMoves
  <2>5. InOrder(echoed[c], down'[c], up'[c], sent[c])
    BY Zenon, <2>3, <2>4
  <2> QED BY Zenon, <1>3, <2>2, <2>5
<1>8. CASE page_send
  <2> DEFINE c == dataChannel
  <2>1. /\ c \in Clients /\ UNCHANGED <<echoed, down>>
        /\ sent' = [sent EXCEPT ![c] = sent[c] + 1]
        /\ up' = [up EXCEPT ![c] = Append(up[c], sent'[c])]
    BY <1>8 DEF page_send
  <2> HIDE DEF c
  <2>2. Only(c) /\ echoed'[c] = echoed[c] /\ down'[c] = down[c] /\ sent'[c] = sent[c] + 1
    BY <2>1 DEF Only, OrderInv
  <2>3. up'[c] = Append(up[c], sent[c] + 1)
    BY Zenon, <2>1, <2>2 DEF OrderInv
  <2>4. InOrder(echoed[c], down[c], Append(up[c], sent[c] + 1), sent[c] + 1)
    BY Zenon, <1>4, <2>1, OrderMoves
  <2> QED BY Zenon, <1>3, <2>1, <2>2, <2>3, <2>4
<1>9. CASE page_exit
  <2> DEFINE c == dataChannel
  <2>1. /\ c \in Clients /\ UNCHANGED <<echoed, down, sent>>
        /\ up' = [up EXCEPT ![c] = Append(up[c], Exit)]
    BY <1>9 DEF page_exit
  <2> HIDE DEF c
  <2>2. Only(c) /\ echoed'[c] = echoed[c] /\ down'[c] = down[c] /\ sent'[c] = sent[c]
    BY <2>1 DEF Only, OrderInv
  <2>3. up'[c] = Append(up[c], Exit)
    BY Zenon, <2>1 DEF OrderInv
  <2>4. InOrder(echoed[c], down[c], Append(up[c], Exit), sent[c])
    BY Zenon, <1>4, <2>1, OrderMoves
  <2> QED BY Zenon, <1>3, <2>1, <2>2, <2>3, <2>4
<1>10. ASSUME NEW c \in Clients, connect(c) \/ PageEvent(c) \/ ServerSocketEvent(c)
       PROVE  OrderInv'
  <2>1. CASE connect(c)
    BY <1>1, <2>1 DEF connect
  <2>2. CASE ServerSocketEvent(c)
    BY <1>2, <2>2 DEF ServerSocketEvent, ServerHandshake
  <2>3. CASE SocketGone(c) \/ onWebSocketOpen(c) \/ onOfferSuccess(c) \/ onOfferFailure(c)
             \/ onWebSocketMessage(c)
    BY Zenon, <1>1, <2>3 DEF SocketGone, onWebSocketOpen, onOfferSuccess, onOfferFailure, onWebSocketMessage
  <2> QED BY <1>2, <1>6, <1>10, <2>1, <2>2, <2>3 DEF PageEvent
<1>11. CASE ServerEvent
  <2>1. CASE ServerCallback
    BY <1>2, <1>7, <2>1 DEF ServerCallback
  <2>2. CASE ServerLeaves
    BY <1>1, <1>2, <2>2 DEF ServerLeaves, ServerReturnsFromRun, Quit, Returns
  <2> QED BY <1>11, <2>1, <2>2 DEF ServerEvent
<1>12. CASE PageCloses
  BY <1>2, <1>12 DEF PageCloses
<1>13. CASE UNCHANGED browserVars
  BY <1>2, <1>13 DEF browserVars, allVars
<1> QED BY <1>5, <1>8, <1>9, <1>10, <1>11, <1>12, <1>13 DEF BrowserNext

(***************************************************************************)
(* The globals.  The data channel is the one of the peer connection:       *)
(* onWebSocketOpen makes both and quit() lets both go.                     *)
(***************************************************************************)
GlobalsTyped ==
    /\ webSocketConnection \in Clients \cup {Null}
    /\ dataChannel = peerConnection /\ dataChannel \in Clients \cup {Null}

LEMMA GlobalsStep == GlobalsTyped /\ [BrowserNext]_browserVars => GlobalsTyped'
<1> SUFFICES ASSUME GlobalsTyped, [BrowserNext]_browserVars PROVE GlobalsTyped'
  OBVIOUS
<1>1. ASSUME UNCHANGED globals PROVE GlobalsTyped'
  BY <1>1 DEF globals, GlobalsTyped
<1>2. ASSUME NEW c \in Clients, connect(c) PROVE GlobalsTyped'
  BY <1>2 DEF connect, GlobalsTyped
<1>3. ASSUME NEW c \in Clients, onWebSocketOpen(c) PROVE GlobalsTyped'
  BY <1>3 DEF onWebSocketOpen, GlobalsTyped, globals
<1>4. CASE page_exit
  BY <1>4 DEF page_exit, GlobalsTyped
<1>5. ASSUME NEW c \in Clients, PageEvent(c) PROVE GlobalsTyped'
  BY Zenon, <1>1, <1>3, <1>5 DEF PageEvent, SocketGone, onOfferSuccess, onOfferFailure, onWebSocketMessage
<1>6. CASE UNCHANGED browserVars
  BY <1>1, <1>6 DEF browserVars
<1> QED BY <1>1, <1>2, <1>4, <1>5, <1>6
        DEF BrowserNext, ServerSocketEvent, Expires, page_send, ServerEvent, PageCloses

(***************************************************************************)
(* Whatever the channel of the page loses, for any number of sockets and   *)
(* of lines: the echoes that on_message (webrtc_client.js) prints are in   *)
(* the order of the lines, none repeated, none unasked.                    *)
(***************************************************************************)
THEOREM EchoesStayInOrder == BrowserSpec => []EchoesInOrder
<1>1. BrowserInit => GlobalsTyped /\ OrderInv
  <2>1. InOrder(<<>>, <<>>, <<>>, 0)
    BY DEF InOrder, Ascending, Before, Within
  <2> QED BY <2>1 DEF BrowserInit, SessionInit, GlobalsTyped, OrderInv
<1>2. (GlobalsTyped /\ OrderInv) /\ [BrowserNext]_browserVars => (GlobalsTyped /\ OrderInv)'
  BY GlobalsStep, OrderStep DEF GlobalsTyped
<1>3. OrderInv => EchoesInOrder
  <2> SUFFICES ASSUME OrderInv, NEW c \in Clients
               PROVE  /\ \A i, j \in DOMAIN echoed[c] : i < j => echoed[c][i] < echoed[c][j]
                      /\ \A i \in DOMAIN echoed[c] : echoed[c][i] \in 1..sent[c]
    BY Zenon DEF EchoesInOrder
  <2> DEFINE e == echoed[c]
  <2>1. /\ e \in Seq(Nat \ {0}) /\ Ascending(e) /\ Within(e, sent[c]) /\ sent[c] \in Nat
    BY DEF OrderInv, InOrder
  <2>2. \A i \in DOMAIN e : e[i] \in Nat \ {0}
    BY <2>1
  <2> HIDE DEF e
  <2>3. \A i \in DOMAIN e : e[i] # Exit /\ e[i] \in 1..sent[c]
    BY <2>1, <2>2 DEF Exit, Within
  <2>4. \A i, j \in DOMAIN e : i < j => e[i] < e[j]
    BY Zenon, <2>1, <2>3 DEF Ascending
  <2> QED BY <2>3, <2>4 DEF e
<1> QED BY <1>1, <1>2, <1>3, PTL DEF BrowserSpec


-----------------------------------------------------------------------------
(***************************************************************************)
(* The server's steps are those of Session.                                *)
(***************************************************************************)
ServerStep == ServerEvent \/ \E c \in Clients : ServerSocketEvent(c)

ServerEnds == Quit(Server) \/ Returns(Server) \/ \E c \in Clients : ServerOnMessage(c)

LEMMA ServerKinds ==
    ASSUME ServerStep
    PROVE  /\ UNCHANGED <<globals, hasty>>
           /\ \/ ServerSignaling
              \/ \E c \in Clients : ServerMain(c)
              \/ ServerEnds /\ Ending
              \/ UNCHANGED vars
<1>1. UNCHANGED <<globals, hasty>>
  BY DEF ServerStep, ServerEvent, ServerSocketEvent
<1>2. ServerEnds => Ending
  BY NodeFacts DEF ServerEnds, Ending
<1>3. CASE ServerEvent
  BY Zenon, <1>1, <1>2, <1>3 DEF ServerEvent, ServerCallback, ServerLeaves, ServerReturnsFromRun, ServerEnds
<1>4. CASE \E c \in Clients : ServerSocketEvent(c)
  BY Zenon, <1>1, <1>4 DEF ServerSocketEvent, ServerHandshake
<1> QED BY <1>3, <1>4 DEF ServerStep

(***************************************************************************)
(* The steps of the page keep TypeInv.                                     *)
(***************************************************************************)
LEMMA PageTypes ==
    ASSUME TypeInv, GlobalsTyped, NEW c \in Clients, connect(c) \/ PageEvent(c)
    PROVE  TypeInv'
<1> USE ConstantsAssumption DEF TypeInv, TypeOK, WsTypeOK, PcHeld, Up
<1>1. CASE connect(c)
  BY <1>1 DEF connect, WsConnect, EndState, rtcVars, nativeVars, RtcTypeOK
<1>2. CASE SocketGone(c)
  <2>1. /\ UNCHANGED <<rtcVars, nativeVars, wsS, toS>>
        /\ wsC' = [wsC EXCEPT ![c] = "closed"] /\ toC' = [toC EXCEPT ![c] = <<>>]
    BY Zenon, <1>2 DEF SocketGone, WsClientCloses
  <2> QED BY <2>1, StreamEmpty DEF EndState, rtcVars, nativeVars, RtcTypeOK
<1>3. CASE onWebSocketOpen(c)
  <2>1. /\ UNCHANGED <<nativeVars, wsS, toS, toC>> /\ wsC' = [wsC EXCEPT ![c] = "open"]
    BY Zenon, <1>3 DEF onWebSocketOpen, WsClientOpens
  <2>2. CASE UNCHANGED rtcVars
    BY <2>1, <2>2 DEF EndState, nativeVars, rtcVars, RtcTypeOK
  <2>3. CASE create_offer_sdp(c)
    <3>1. RtcTypeOK'
      BY Zenon, <2>3, NodeFacts, ManagerTyping
    <3>2. PcHeld'
      BY <2>3 DEF create_offer_sdp, DiesAt, Dies, RtcTypeOK
    <3> QED BY <2>1, <3>1, <3>2 DEF EndState, nativeVars
  <2> QED BY Zenon, <1>3, <2>2, <2>3 DEF onWebSocketOpen, create_offer_sdp
<1>4. CASE onOfferSuccess(c)
  <2>1. /\ UNCHANGED <<wsC, wsS, toC, stat, peer_connection, remote, added, gathered, data_channel,
                       dcState, nativeVars>>
        /\ c \in csd /\ csd' = csd \ {c}
        /\ \E x \in {"local", sig[c]} : sig' = [sig EXCEPT ![c] = x]
    BY Zenon, <1>4 DEF onOfferSuccess
  <2>2. RtcTypeOK'
    <3>1. sig' \in [Nodes -> SigState]
      BY Zenon, <2>1, NodeFacts DEF RtcTypeOK, SigState
    <3> QED BY <2>1, <3>1 DEF RtcTypeOK
  <2>3. PcHeld'
    <3>1. \A n \in Nodes : n # c => sig'[n] = sig[n]
      BY <2>1 DEF RtcTypeOK
    <3> QED BY <2>1, <3>1
  <2>4. toS' \in [Clients -> Seq(Frame)]
    <3>1. CASE webSocketConnection \in Clients
      <4>1. FrameOf("offer", c) \in Frame
        BY Zenon, FrameTyping
      <4>2. toS[webSocketConnection] \in Seq(Frame)
        BY Zenon, <3>1
      <4>3. Append(toS[webSocketConnection], FrameOf("offer", c)) \in Seq(Frame)
        BY <4>1, <4>2
      <4> QED BY <1>4, <3>1, <4>2, <4>3 DEF onOfferSuccess
    <3>2. CASE webSocketConnection = Null
      BY Zenon, <1>4, <3>2, NodeFacts DEF onOfferSuccess
    <3> QED BY <3>1, <3>2 DEF GlobalsTyped
  <2> QED BY <2>1, <2>2, <2>3, <2>4 DEF nativeVars
<1>5. CASE onOfferFailure(c)
  <2>1. /\ UNCHANGED <<wsVars, nativeVars, stat, peer_connection, sig, remote, added, gathered, data_channel, dcState>>
        /\ csd' = csd \ {c}
    BY Zenon, <1>5 DEF onOfferFailure, on_failure_csd
  <2> QED BY <2>1 DEF wsVars, nativeVars, RtcTypeOK
<1>6. CASE onWebSocketMessage(c)
  <2> DEFINE m == Head(toC[c])
             p == peerConnection
  <2>1. /\ UNCHANGED <<wsC, wsS, toS, stat, peer_connection, csd, gathered, data_channel, dcState, nativeVars>>
        /\ toC[c] # <<>> /\ toC' = [toC EXCEPT ![c] = Tail(toC[c])]
        /\ \/ /\ p # Null /\ sig[p] = "local"
              /\ sig' = [sig EXCEPT ![p] = "stable"] /\ remote' = [remote EXCEPT ![p] = m.pc]
              /\ UNCHANGED added
           \/ p # Null /\ added' = [added EXCEPT ![p] = added[p] \cup {m.pc}] /\ UNCHANGED <<sig, remote>>
           \/ UNCHANGED <<sig, remote, added>>
    BY Zenon, <1>6 DEF onWebSocketMessage, Takes
  <2>2. m \in Frame /\ Tail(toC[c]) \in Seq(Frame) /\ m.pc \in Clients
    BY Zenon, <2>1, StreamTyping DEF Frame
  <2>3. p \in Clients \cup {Null}
    BY DEF GlobalsTyped
  <2> HIDE DEF m, p
  <2>4. RtcTypeOK'
    <3>1. /\ sig \in [Nodes -> SigState] /\ remote \in [Nodes -> Clients \cup {Null}]
          /\ added \in [Nodes -> SUBSET Clients] /\ "stable" \in SigState
      BY DEF RtcTypeOK, SigState
    <3>2. sig' \in [Nodes -> SigState]
      BY Zenon, <2>1, <3>1
    <3>3. remote' \in [Nodes -> Clients \cup {Null}]
      BY Zenon, <2>1, <2>2, <3>1
    <3>4. added' \in [Nodes -> SUBSET Clients]
      <4>1. CASE UNCHANGED added
        BY <3>1, <4>1
      <4>2. CASE p # Null /\ added' = [added EXCEPT ![p] = added[p] \cup {m.pc}]
        <5>1. p \in Nodes
          BY <2>3, <4>2, NodeFacts
        <5>2. added[p] \cup {m.pc} \in SUBSET Clients
          BY <2>2, <3>1, <5>1
        <5> QED BY Zenon, <3>1, <4>2, <5>2
      <4> QED BY <2>1, <4>1, <4>2
    <3> QED BY <2>1, <3>2, <3>3, <3>4 DEF RtcTypeOK
  <2>5. PcHeld'
    <3>1. \A n \in Nodes : sig'[n] = sig[n] \/ sig[n] = "local"
      BY <2>1 DEF RtcTypeOK
    <3> QED BY <2>1, <3>1
  <2> QED BY <2>1, <2>2, <2>4, <2>5 DEF nativeVars
<1>7. CASE ClientReadsClose(c)
  BY Zenon, <1>7, TypeInvClientMain DEF ClientMain
<1>8. CASE ClientOnOpen(c) \/ ClientOnClosed(c)
  BY Zenon, <1>8, TypeInvClientSignaling DEF ClientSignaling
<1>9. CASE ClientOnMessage(c)
  <2>1. UNCHANGED vars
    BY Zenon, <1>9 DEF ClientOnMessage
  <2> QED BY Zenon, <2>1, TypeInvStep
<1> QED BY Zenon, <1>1, <1>2, <1>3, <1>4, <1>5, <1>6, <1>7, <1>8, <1>9 DEF PageEvent

LEMMA BrowserTypes ==
    ASSUME TypeInv, GlobalsTyped, [BrowserNext]_browserVars
    PROVE  TypeInv'
<1>1. ASSUME UNCHANGED vars
      PROVE  TypeInv'
  BY <1>1, TypeInvStep
<1>2. CASE ServerStep
  BY <1>1, <1>2, ServerKinds, TypeInvServerMain, TypeInvServerSignaling, TypeInvEnding
<1>3. CASE page_exit
  <2>1. /\ peerConnection \in Clients /\ dataChannel \in Clients
        /\ UNCHANGED <<wsVars, stat, peer_connection, remote, added, gathered, data_channel, nativeVars>>
        /\ dcState' = [dcState EXCEPT ![dataChannel] = "closed"]
        /\ sig' = [sig EXCEPT ![peerConnection] = "none"] /\ csd' = csd \ {peerConnection}
    BY <1>3 DEF page_exit, GlobalsTyped
  <2>2. RtcTypeOK' /\ PcHeld'
    BY <2>1 DEF TypeInv, TypeOK, RtcTypeOK, PcHeld, Nodes, SigState, Up
  <2> QED BY <2>1, <2>2 DEF TypeInv, TypeOK, WsTypeOK, wsVars, nativeVars
<1>4. CASE PageCloses
  <2>1. /\ UNCHANGED <<wsVars, peer_connection, sig, csd, remote, added, gathered, data_channel, dcState,
                       ws_hdl_, main>>
        /\ stat' = [n \in Nodes |-> IF n \in Clients THEN "killed" ELSE stat[n]]
    BY <1>4 DEF PageCloses
  <2>2. RtcTypeOK' /\ PcHeld'
    BY <2>1 DEF TypeInv, TypeOK, RtcTypeOK, PcHeld, Nodes, Status, Up
  <2> QED BY <2>1, <2>2 DEF TypeInv, TypeOK, WsTypeOK, wsVars
<1>5. CASE page_send \/ (\E c \in Clients : Expires(c)) \/ UNCHANGED browserVars
  BY <1>1, <1>5 DEF page_send, Expires, browserVars, allVars
<1> QED BY <1>2, <1>3, <1>4, <1>5, PageTypes DEF BrowserNext, ServerStep


-----------------------------------------------------------------------------
(***************************************************************************)
(* What the globals mean to a user who does not click "connect" too early: *)
(* an attempt that is under way is the one they name, and there is no      *)
(* other.  A socket that has made no peer connection has asked for no      *)
(* answer; one whose channel was open has its own.                         *)
(***************************************************************************)
Asked(c) == Answered(c) \/ \E d \in Clients : Has(toS[d], FrameOf("offer", c))

Page(c) ==
    /\ Trying(c) => webSocketConnection = c
    /\ dcState[c] = "connecting" => peerConnection = c
    /\ c \in csd => sig[c] = "none" /\ dcState[c] = "connecting"
    /\ sig[c] = "local" => dcState[c] = "connecting"
    /\ dcState[c] \in {"open", "closed"} => remote[c] = c
    /\ dcState[c] = "none" => sig[c] = "none" /\ ~Asked(c)
    /\ Unasked(c) => dcState[c] = "none"
    /\ remote[c] \in {Null, c}

PageInv == TokenInv /\ \A c \in Clients : Page(c)

LEMMA PageStays ==
    ASSUME NEW c \in Clients, Page(c), UNCHANGED globals,
           wsC'[c] = wsC[c] \/ wsC'[c] \in {"closing", "closed"},
           sig'[c] = sig[c], dcState'[c] = dcState[c], remote'[c] = remote[c],
           c \in csd' => c \in csd, Asked(c)' => Asked(c)
    PROVE  Page(c)'
<1>1. UNCHANGED <<webSocketConnection, peerConnection>>
  BY DEF globals
<1>2. (Trying(c)' => Trying(c)) /\ (Unasked(c)' => Unasked(c))
  BY DEF Trying, Unasked
<1> QED BY <1>1, <1>2 DEF Page

LEMMA NotAsked ==
    ASSUME NoNewFrames, NoNewRequests, NEW s \in Clients
    PROVE  Asked(s)' => Asked(s)
  BY DEF Asked, Answered, NoNewFrames, NoNewRequests

(***************************************************************************)
(* A server step leaves the clients' managers alone.                       *)
(***************************************************************************)
LEMMA ServerSpares ==
    ASSUME TypeInv, ServerStep, NEW d \in Clients
    PROVE  /\ wsC'[d] = wsC[d] /\ sig'[d] = sig[d] /\ dcState'[d] = dcState[d]
           /\ remote'[d] = remote[d] /\ (d \in csd' => d \in csd)
<1> DEFINE Goal == /\ wsC'[d] = wsC[d] /\ sig'[d] = sig[d] /\ dcState'[d] = dcState[d]
                   /\ remote'[d] = remote[d] /\ (d \in csd' => d \in csd)
<1> USE NodeFacts
<1>1. d \in Nodes /\ d # Server /\ DOMAIN remote = Nodes
  BY DEF TypeInv, TypeOK, RtcTypeOK
<1>2. ASSUME UNCHANGED wsC, UNCHANGED rtcVars PROVE Goal
  BY <1>2 DEF rtcVars
<1>3. ASSUME NEW c \in Clients, ServerMain(c) PROVE Goal
  <2>1. CASE ServerAccept(c) \/ ServerOpenHandler(c) \/ ServerCloseHandler(c)
    BY Zenon, <1>2, <2>1 DEF ServerAccept, WsAccept, ServerOpenHandler, WsServerOpens, ServerCloseHandler,
                             WsServerCloses
  <2>2. CASE ServerMessageHandler(c)
    <3>1. UNCHANGED wsC
      BY <2>2 DEF ServerMessageHandler
    <3>2. PICK p : \/ create_answer_sdp_exits(Server, p) \/ create_answer_sdp(Server, p)
                   \/ push_ice(Server, p)
      BY Zenon, <2>2 DEF ServerMessageHandler
    <3>3. CASE create_answer_sdp_exits(Server, p) \/ push_ice(Server, p)
      BY <1>1, <3>1, <3>3, Domains DEF create_answer_sdp_exits, Replaces, push_ice, DiesAt
    <3>4. CASE create_answer_sdp(Server, p)
      BY <1>1, <3>1, <3>4, Domains DEF create_answer_sdp, Replaces
    <3> QED BY <3>2, <3>3, <3>4
  <2> QED BY <1>3, <2>1, <2>2 DEF ServerMain
<1>4. CASE ServerSignaling
  <2>1. UNCHANGED <<wsC, remote>> /\ (d \in csd' => d \in csd)
    BY Zenon, <1>4 DEF ServerSignaling, ServerOnSdp, ServerCsdFails, ServerOnIce, ServerOnDataChannel, ServerOnOpen,
                ServerOnClosed, on_success_csd, on_failure_csd, on_ice_candidate, OnDataChannel,
                on_state_change, wsVars
  <2>2. sig'[d] = sig[d] /\ dcState'[d] = dcState[d]
    BY Zenon, <1>1, <1>4, Domains
       DEF ServerSignaling, ServerOnSdp, ServerCsdFails, ServerOnIce, ServerOnDataChannel, ServerOnOpen,
           ServerOnClosed, on_success_csd, on_failure_csd, on_ice_candidate, OnDataChannel, on_state_change
  <2> QED BY <2>1, <2>2
<1>5. CASE ServerEnds
  <2>1. UNCHANGED wsC
    BY Zenon, <1>5 DEF ServerEnds, Quit, Returns, ServerOnMessage, wsVars
  <2>2. \/ \E q : Sends(Server, q)
        \/ \E how : DiesAt(Server, how)
        \/ quit(Server)
        \/ UNCHANGED rtcVars
    BY Zenon, <1>5 DEF ServerEnds, Quit, Returns, ServerOnMessage, server_send, stop_listening, DiesAt, rtcVars
  <2>3. CASE \E q : Sends(Server, q)
    BY <1>1, <2>1, <2>3, Domains DEF Sends
  <2>4. CASE (\E how : DiesAt(Server, how)) \/ UNCHANGED rtcVars
    BY <2>1, <2>4 DEF DiesAt, rtcVars
  <2>5. CASE quit(Server)
    BY <1>1, <2>1, <2>5, Domains DEF quit
  <2> QED BY Zenon, <2>2, <2>3, <2>4, <2>5
<1>6. CASE UNCHANGED vars
  BY Zenon, <1>2, <1>6 DEF vars, wsVars
<1> QED BY Zenon, <1>3, <1>4, <1>5, <1>6, ServerKinds


(***************************************************************************)
(* The server answers nobody who has not asked.                            *)
(***************************************************************************)
LEMMA OnlyAsked ==
    ASSUME TypeInv, NEW s \in Clients,
           \A d \in Clients : Quiet(toS[d], toS'[d]) /\ remote'[d] = remote[d],
           peer_connection'[Server] = s => Asked(s),
           \/ \A d \in Clients : Quiet(toC[d], toC'[d])
           \/ /\ peer_connection[Server] \in Clients
              /\ \E h \in Clients :
                    toC' = [toC EXCEPT ![h] = Append(@, FrameOf("answer", peer_connection[Server]))]
    PROVE  Asked(s)' => Asked(s)
<1> DEFINE a == FrameOf("answer", s)
           o == FrameOf("offer", s)
<1>1. \A d \in Clients : toS[d] \in Seq(Frame) /\ toC[d] \in Seq(Frame)
  BY DEF TypeInv, TypeOK, WsTypeOK
<1>2. \A d \in Clients : Has(toS'[d], o) => Has(toS[d], o)
  BY Zenon, <1>1, QuietStream
<1>3. ASSUME NEW d \in Clients, Has(toC'[d], a) PROVE Asked(s)
  <2>1. CASE \A e \in Clients : Quiet(toC[e], toC'[e])
    <3>1. Has(toC[d], a)
      BY Zenon, <1>1, <1>3, <2>1, QuietStream
    <3> QED BY <3>1 DEF Asked, Answered
  <2>2. ASSUME NEW p \in Clients, peer_connection[Server] = p, NEW h \in Clients,
               toC' = [toC EXCEPT ![h] = Append(@, FrameOf("answer", p))]
        PROVE  Asked(s)
    <3>1. FrameOf("answer", p) \in Frame /\ (FrameOf("answer", p) = a => s = p)
      BY FrameTyping, FrameFacts
    <3>2. d # h => toC'[d] = toC[d]
      BY <2>2, Domains
    <3>3. toC'[h] = Append(toC[h], FrameOf("answer", p))
      BY <2>2, Domains
    <3> HIDE DEF a
    <3>4. Has(Append(toC[h], FrameOf("answer", p)), a) <=> (Has(toC[h], a) \/ FrameOf("answer", p) = a)
      BY Zenon, <1>1, <3>1, HasFacts
    <3>5. Has(toC[d], a) \/ s = p
      BY Zenon, <1>3, <3>1, <3>2, <3>3, <3>4
    <3> QED BY <2>2, <3>5 DEF Asked, Answered, a
  <2> QED BY <2>1, <2>2
<1>4. \A d \in Clients : remote'[d] = s => Asked(s)
  BY DEF Asked, Answered
<1>5. Asked(s)' => \/ peer_connection'[Server] = s
                   \/ \E d \in Clients : Has(toC'[d], a) \/ remote'[d] = s \/ Has(toS'[d], o)
  BY DEF Asked, Answered
<1> QED BY Zenon, <1>2, <1>3, <1>4, <1>5 DEF Asked

LEMMA ServerAsks ==
    ASSUME TypeInv, ServerStep, NEW s \in Clients
    PROVE  Asked(s)' => Asked(s)
<1> USE NodeFacts, Domains
<1>1. \A d \in Clients : remote'[d] = remote[d]
  BY ServerSpares
<1>2. peer_connection[Server] = s => Asked(s)
  BY DEF Asked, Answered
<1>3. ASSUME UNCHANGED peer_connection,
             \A d \in Clients : Quiet(toS[d], toS'[d]) /\ Quiet(toC[d], toC'[d])
      PROVE  Asked(s)' => Asked(s)
  <2>1. peer_connection'[Server] = s => Asked(s)
    BY Zenon, <1>2, <1>3
  <2> QED BY Zenon, <1>1, <1>3, <2>1, OnlyAsked
<1>4. ASSUME NEW c \in Clients, ServerMain(c)
      PROVE  Asked(s)' => Asked(s)
  <2>1. CASE ServerAccept(c) \/ ServerOpenHandler(c) \/ ServerCloseHandler(c)
    <3>1. /\ UNCHANGED <<toC, rtcVars>>
          /\ UNCHANGED toS \/ toS' = [toS EXCEPT ![c] = <<>>]
      BY Zenon, <2>1 DEF ServerAccept, WsAccept, ServerOpenHandler, WsServerOpens, ServerCloseHandler,
                  WsServerCloses
    <3>2. \A d \in Clients : Quiet(toS[d], toS'[d]) /\ Quiet(toC[d], toC'[d])
      BY <3>1 DEF Quiet
    <3> QED BY <1>3, <3>1, <3>2 DEF rtcVars
  <2>2. CASE ServerMessageHandler(c)
    <3> DEFINE m == Head(toS[c])
    <3>1. /\ toS[c] # <<>> /\ toS' = [toS EXCEPT ![c] = Tail(toS[c])] /\ Up(Server)
      BY Zenon, <2>2 DEF ServerMessageHandler
    <3>2. \A d \in Clients : Quiet(toS[d], toS'[d])
      BY <3>1 DEF Quiet
    <3>3. m \in Frame /\ toS[c] \in Seq(Frame)
      BY <3>1, StreamTyping
    <3>4. m.type = "offer" /\ m.pc = s => Asked(s)
      <4>1. ASSUME m.type = "offer", m.pc = s PROVE Asked(s)
        <5>1. m = FrameOf("offer", s)
          BY <3>3, <4>1, FrameFacts
        <5>2. \A f : m = f => Has(toS[c], f)
          BY Zenon, <3>1, <3>3, HasFacts
        <5> QED BY <5>1, <5>2 DEF Asked
      <4> QED BY <4>1
    <3>5. CASE m.type = "ice" /\ push_ice(Server, m.pc) /\ UNCHANGED toC
      <4>1. UNCHANGED peer_connection /\ \A d \in Clients : Quiet(toC[d], toC'[d])
        BY <3>5 DEF push_ice, DiesAt, Quiet
      <4> QED BY <1>3, <3>2, <4>1
    <3>6. CASE m.type = "offer"
      <4>1. peer_connection'[Server] = Null \/ peer_connection'[Server] = m.pc
        BY <2>2, <3>6 DEF ServerMessageHandler, create_answer_sdp_exits, create_answer_sdp, Replaces
      <4>2. peer_connection'[Server] = s => Asked(s)
        BY <3>4, <3>6, <4>1
      <4>3. \/ UNCHANGED toC
            \/ /\ Server \in csd
               /\ toC' = [toC EXCEPT ![c] = Append(@, FrameOf("answer", peer_connection[Server]))]
        BY Zenon, <2>2, <3>6 DEF ServerMessageHandler, StaleAnswer, LastAnswer, ws_server_send
      <4>4. Server \in csd => peer_connection[Server] \in Clients
        BY Zenon, <3>1 DEF TypeInv, TypeOK, RtcTypeOK, PcHeld
      <4>5. UNCHANGED toC => \A d \in Clients : Quiet(toC[d], toC'[d])
        BY DEF Quiet
      <4> HIDE DEF m
      <4> QED BY Zenon, <1>1, <3>2, <4>2, <4>3, <4>4, <4>5, OnlyAsked
    <3> QED BY Zenon, <2>2, <3>5, <3>6 DEF ServerMessageHandler
  <2> QED BY <1>4, <2>1, <2>2 DEF ServerMain
<1>5. CASE ServerCsdFails \/ ServerOnDataChannel \/ ServerOnClosed
  <2>1. UNCHANGED <<toS, toC, peer_connection>>
    BY <1>5 DEF ServerCsdFails, ServerOnDataChannel, ServerOnClosed, on_failure_csd, OnDataChannel,
                on_state_change, wsVars
  <2> QED BY <1>3, <2>1 DEF Quiet
<1>6. ws_hdl_[Server] \in Clients \cup {Null}
  BY DEF TypeInv, TypeOK
<1>7. CASE ServerOnIce \/ ServerOnOpen
  <2>1. \E m \in Frame : /\ m.type \notin {"offer", "answer"}
                         /\ \/ UNCHANGED toC
                            \/ /\ ws_hdl_[Server] # Null
                               /\ toC' = [toC EXCEPT ![ws_hdl_[Server]] = Append(@, m)]
    <3>1. CASE ServerOnIce
      <4>1. peer_connection[Server] \in Clients
        BY Zenon, <3>1 DEF ServerOnIce, on_ice_candidate, TypeInv, TypeOK, RtcTypeOK, PcHeld
      <4>2. /\ FrameOf("ice", peer_connection[Server]) \in Frame
            /\ FrameOf("ice", peer_connection[Server]).type \notin {"offer", "answer"}
        BY <4>1, FrameTyping, FrameFacts
      <4> QED BY Zenon, <3>1, <4>2 DEF ServerOnIce, ws_server_send
    <3>2. CASE ServerOnOpen
      <4>1. /\ FrameOf("close", s) \in Frame /\ FrameOf("close", s).type \notin {"offer", "answer"}
        BY FrameTyping, FrameFacts
      <4>2. ws_hdl_[Server] # Null => /\ FrameOf("close", ws_hdl_[Server]) \in Frame
                                      /\ FrameOf("close", ws_hdl_[Server]).type \notin {"offer", "answer"}
        BY <1>6, FrameTyping, FrameFacts
      <4> QED BY Zenon, <3>2, <4>1, <4>2 DEF ServerOnOpen, on_success
    <3> QED BY <1>7, <3>1, <3>2
  <2>2. UNCHANGED <<toS, peer_connection>>
    BY <1>7 DEF ServerOnIce, ServerOnOpen, on_ice_candidate, on_state_change
  <2>3. \A d \in Clients : Quiet(toS[d], toS'[d]) /\ Quiet(toC[d], toC'[d])
    BY <1>6, <2>1, <2>2 DEF Quiet
  <2> QED BY <1>3, <2>2, <2>3
<1>8. CASE ServerOnSdp
  <2>1. peer_connection[Server] \in Clients
    BY Zenon, <1>8 DEF ServerOnSdp, on_success_csd, TypeInv, TypeOK, RtcTypeOK, PcHeld
  <2>2. UNCHANGED <<toS, peer_connection>>
    BY <1>8 DEF ServerOnSdp, on_success_csd
  <2>3. \/ UNCHANGED toC
        \/ \E h \in Clients : toC' = [toC EXCEPT ![h] = Append(@, FrameOf("answer", peer_connection[Server]))]
    BY Zenon, <1>6, <1>8 DEF ServerOnSdp, ws_server_send
  <2>4. \A d \in Clients : Quiet(toS[d], toS'[d]) /\ (UNCHANGED toC => Quiet(toC[d], toC'[d]))
    BY <2>2 DEF Quiet
  <2>5. peer_connection'[Server] = s => Asked(s)
    BY <1>2, <2>2
  <2> QED BY Zenon, <1>1, <2>1, <2>3, <2>4, <2>5, OnlyAsked
<1>9. CASE Ending
  <2>1. \A d \in Clients : Quiet(toS[d], toS'[d]) /\ Quiet(toC[d], toC'[d])
    BY <1>9, EndingEffects DEF Quiet
  <2>2. peer_connection'[Server] = s => Asked(s)
    BY <1>2, <1>9, EndingEffects
  <2> QED BY <1>1, <2>1, <2>2, OnlyAsked
<1>10. CASE UNCHANGED vars
  <2>1. UNCHANGED <<toS, toC, peer_connection>>
    BY Zenon, <1>10 DEF vars, wsVars, rtcVars
  <2> QED BY <1>3, <2>1 DEF Quiet
<1> QED BY Zenon, <1>4, <1>5, <1>7, <1>8, <1>9, <1>10, ServerKinds DEF ServerSignaling

LEMMA ServerPage ==
    ASSUME TypeInv, PageInv, ServerStep
    PROVE  PageInv'
<1>1. UNCHANGED globals
  BY ServerKinds
<1>2. \A c \in Clients : Page(c)'
  BY <1>1, ServerSpares, ServerAsks, PageStays DEF PageInv
<1>3. TokenInv'
  <2>1. TokenInv
    BY DEF PageInv
  <2>2. CASE Ending
    <3>1. \A d \in Clients : Quiet(toS[d], toS'[d]) /\ Quiet(toC[d], toC'[d])
      BY <2>2, EndingEffects DEF Quiet
    <3>2. NoNewFrames
      BY <3>1, QuietFrames
    <3>3. \A s \in Clients : /\ Unasked(s)' => Unasked(s)
                             /\ peer_connection'[Server] = s => peer_connection[Server] = s
      BY <2>2, EndingEffects, NodeFacts DEF Unasked
    <3>4. NoNewRequests
      BY <2>2, <3>3, EndingEffects DEF NoNewRequests
    <3> QED BY <2>1, <3>2, <3>4, TokensKept
  <2>3. CASE UNCHANGED vars
    BY <2>1, <2>3, TokenInvStep
  <2> QED BY <2>1, <2>2, <2>3, ServerKinds, TokenServer
<1> QED BY <1>2, <1>3 DEF PageInv


(***************************************************************************)
(* A click when nothing is under way: the new attempt is the only one.     *)
(***************************************************************************)
LEMMA PageConnects ==
    ASSUME TypeInv, PageInv, NEW c \in Clients, connect(c), ~hasty'
    PROVE  PageInv'
<1> USE NodeFacts, Domains
<1>1. /\ wsC[c] = "none" /\ wsC' = [wsC EXCEPT ![c] = "connecting"] /\ UNCHANGED <<toS, toC>>
      /\ UNCHANGED <<peer_connection, sig, csd, remote, dcState, peerConnection>>
      /\ webSocketConnection' = c /\ \A d \in Clients : ~Trying(d)
  BY Zenon DEF connect, WsConnect, rtcVars
<1>2. NoNewFrames
  BY Zenon, <1>1, QuietFrames DEF Quiet
<1>3. NoNewRequests
  BY <1>1 DEF NoNewRequests, Unasked
<1>4. TokenInv'
  BY <1>2, <1>3, TokensKept DEF PageInv
<1>5. ASSUME NEW d \in Clients PROVE Page(d)'
  <2>1. Page(d) /\ (Asked(d)' => Asked(d)) /\ (Unasked(d)' => Unasked(d))
    BY Zenon, <1>1, <1>2, <1>3, NotAsked DEF PageInv, Unasked
  <2>2. Trying(d)' => d = c
    BY Zenon, <1>1 DEF Trying
  <2> QED BY Zenon, <1>1, <2>1, <2>2 DEF Page
<1> QED BY <1>4, <1>5 DEF PageInv

(***************************************************************************)
(* The open event: its socket is the one under way, so the globals it sets *)
(* were no other attempt's.                                                *)
(***************************************************************************)
LEMMA PageOpens ==
    ASSUME TypeInv, PageInv, NEW c \in Clients, onWebSocketOpen(c)
    PROVE  PageInv'
<1> USE NodeFacts, Domains
<1>1. /\ wsC[c] = "connecting" /\ wsC' = [wsC EXCEPT ![c] = "open"] /\ UNCHANGED <<toS, toC, sig, remote>>
      /\ \/ UNCHANGED <<csd, peer_connection, dcState, webSocketConnection, peerConnection>>
         \/ /\ csd' = csd \cup {c} /\ peer_connection' = [peer_connection EXCEPT ![c] = c]
            /\ dcState' = [dcState EXCEPT ![c] = "connecting"]
            /\ peerConnection' = c /\ UNCHANGED webSocketConnection
  BY Zenon DEF onWebSocketOpen, WsClientOpens, rtcVars, globals
<1>2. TokenInv'
  BY Zenon, <1>1, TokenOpens DEF PageInv, Unasked
<1>3. Page(c) /\ Unasked(c) /\ Trying(c)
  BY Zenon, <1>1 DEF PageInv, Unasked, Trying
<1>4. webSocketConnection = c /\ dcState[c] = "none" /\ sig[c] = "none" /\ ~Asked(c) /\ remote[c] \in {Null, c}
  BY <1>3 DEF Page
<1>5. ASSUME NEW d \in Clients PROVE Page(d)'
  <2>1. Page(d) /\ (Unasked(d)' => Unasked(d) /\ d # c)
    BY <1>1 DEF PageInv, Unasked
  <2>2. peer_connection'[Server] = peer_connection[Server]
    BY <1>1
  <2>3. Asked(d)' => Asked(d)
    BY Zenon, <1>1, <2>2 DEF Asked, Answered
  <2>4. CASE d = c
    <3>1. \/ dcState'[c] = "connecting" /\ peerConnection' = c
          \/ dcState'[c] = "none" /\ (c \in csd' => c \in csd) /\ wsC'[c] = "open"
      BY Zenon, <1>1, <1>4
    <3> QED BY Zenon, <1>1, <1>4, <2>1, <2>3, <2>4, <3>1 DEF Page, Trying
  <2>5. CASE d # c
    <3>1. /\ dcState'[d] = dcState[d] /\ wsC'[d] = wsC[d] /\ (d \in csd' => d \in csd)
          /\ sig'[d] = sig[d] /\ remote'[d] = remote[d] /\ webSocketConnection' = c
      BY Zenon, <1>1, <1>4, <2>5
    <3>2. ~Trying(d)
      BY Zenon, <1>4, <2>1, <2>5 DEF Page
    <3> QED BY Zenon, <2>1, <2>3, <3>1, <3>2 DEF Page, Trying
  <2> QED BY <2>4, <2>5
<1> QED BY Zenon, <1>2, <1>5 DEF PageInv

(***************************************************************************)
(* The offer is the global peer connection's and goes out on its socket.   *)
(***************************************************************************)
LEMMA PageOffers ==
    ASSUME TypeInv, PageInv, NEW c \in Clients, onOfferSuccess(c)
    PROVE  PageInv'
<1> USE NodeFacts, Domains
<1>1. /\ c \in csd /\ csd' = csd \ {c}
      /\ UNCHANGED <<wsC, toC, peer_connection, remote, dcState, webSocketConnection, peerConnection>>
  BY Zenon DEF onOfferSuccess, globals
<1>2. Page(c) /\ sig[c] = "none" /\ dcState[c] = "connecting"
  BY <1>1 DEF PageInv, Page
<1>3. webSocketConnection = c /\ peerConnection = c
  BY Zenon, <1>2 DEF Page, Trying
<1>4. /\ sig' = [sig EXCEPT ![c] = "local"]
      /\ UNCHANGED toS \/ toS' = [toS EXCEPT ![c] = Append(@, FrameOf("offer", c))]
  <2>1. toS \in [Clients -> Seq(Frame)]
    BY DEF TypeInv, TypeOK, WsTypeOK
  <2>2. toS' = [toS EXCEPT ![c] = toS[c]] => UNCHANGED toS
    BY <2>1
  <2> QED BY Zenon, <1>3, <2>2 DEF onOfferSuccess
<1>5. TokenInv'
  BY Zenon, <1>1, <1>4, OfferSent DEF PageInv
<1>6. ASSUME NEW d \in Clients PROVE Page(d)'
  <2>1. Page(d) /\ (Unasked(d)' => Unasked(d)) /\ (Trying(d)' => Trying(d))
    BY <1>1 DEF PageInv, Unasked, Trying
  <2>2. CASE d = c
    BY Zenon, <1>1, <1>2, <1>4, <2>1, <2>2 DEF Page
  <2>3. CASE d # c
    <3>1. \A e \in Clients : Has(toS'[e], FrameOf("offer", d)) => Has(toS[e], FrameOf("offer", d))
      <4> DEFINE o == FrameOf("offer", c)
                 f == FrameOf("offer", d)
      <4>1. o \in Frame /\ o # f /\ toS[c] \in Seq(Frame)
        <5>1. o \in Frame
          BY Zenon, FrameTyping
        <5>2. o # f
          BY <2>3 DEF FrameOf
        <5> QED BY Zenon, <5>1, <5>2, Domains
      <4> HIDE DEF o, f
      <4>2. Has(Append(toS[c], o), f) => Has(toS[c], f)
        BY Zenon, <4>1, HasFacts
      <4>3. \A e \in Clients : toS'[e] = toS[e] \/ (e = c /\ toS'[e] = Append(toS[c], o))
        BY <1>4 DEF o
      <4>4. \A e \in Clients : Has(toS'[e], f) => Has(toS[e], f)
        BY Zenon, <4>2, <4>3
      <4> QED BY Zenon, <4>4 DEF f
    <3>2. Asked(d)' => Asked(d)
      BY Zenon, <1>1, <3>1 DEF Asked, Answered
    <3>3. sig'[d] = sig[d]
      BY Zenon, <1>4, <2>3
    <3> QED BY Zenon, <1>1, <2>1, <3>2, <3>3 DEF Page
  <2> QED BY <2>2, <2>3
<1> QED BY Zenon, <1>5, <1>6 DEF PageInv

(***************************************************************************)
(* The answer: the session it answers has asked, has no answer yet, and so *)
(* is under way, as is the peer connection that awaits one.  They are one. *)
(***************************************************************************)
LEMMA PageAnswered ==
    ASSUME TypeInv, PageInv, GlobalsTyped, NEW c \in Clients, onWebSocketMessage(c)
    PROVE  PageInv'
<1> USE NodeFacts, Domains
<1> DEFINE m == Head(toC[c])
           s == m.pc
           p == peerConnection
<1>1. /\ toC[c] # <<>> /\ toC' = [toC EXCEPT ![c] = Tail(@)]
      /\ UNCHANGED <<wsC, toS, csd, peer_connection, dcState, globals>>
      /\ \/ UNCHANGED <<sig, remote>>
         \/ /\ m.type = "answer" /\ p # Null /\ sig[p] = "local"
            /\ sig' = [sig EXCEPT ![p] = "stable"] /\ remote' = [remote EXCEPT ![p] = s]
  BY Zenon DEF onWebSocketMessage, Takes
<1>2. /\ m \in Frame /\ toC[c] \in Seq(Frame) /\ \A d \in Clients : toC[d] \in Seq(Frame)
      /\ p \in Clients \cup {Null} /\ DOMAIN remote = Nodes
  BY Zenon, <1>1, StreamTyping DEF TypeInv, TypeOK, WsTypeOK, RtcTypeOK, GlobalsTyped
<1>3. NoNewFrames
  <2>1. \A d \in Clients : Quiet(toS[d], toS'[d]) /\ Quiet(toC[d], toC'[d])
    BY Zenon, <1>1 DEF Quiet
  <2> QED BY <2>1, QuietFrames
<1>4. CASE UNCHANGED <<sig, remote>>
  <2>1. TokenInv'
    BY Zenon, <1>1, <1>4, TokenApplied DEF PageInv
  <2>2. NoNewRequests
    BY Zenon, <1>1, <1>4 DEF NoNewRequests, Unasked
  <2> QED BY Zenon, <1>1, <1>3, <1>4, <2>1, <2>2, NotAsked, PageStays DEF PageInv
<1>5. CASE /\ m.type = "answer" /\ p # Null /\ sig[p] = "local"
           /\ sig' = [sig EXCEPT ![p] = "stable"] /\ remote' = [remote EXCEPT ![p] = s]
  <2>1. p \in Clients /\ s \in Clients /\ m = FrameOf("answer", s)
    BY Zenon, <1>2, <1>5, FrameFacts DEF Frame
  <2>2. Has(toC[c], FrameOf("answer", s))
    <3>1. \A f : m = f => Has(toC[c], f)
      BY Zenon, <1>1, <1>2, HasFacts
    <3> QED BY Zenon, <2>1, <3>1
  <2>3. TokenInv'
    BY Zenon, <1>1, <1>5, <2>1, TokenApplied DEF PageInv
  <2>4. Page(p) /\ Page(s) /\ AnswerToken(s)
    BY Zenon, <2>1 DEF PageInv, TokenInv
  <2>5. dcState[p] = "connecting" /\ webSocketConnection = p /\ p \notin csd
    BY Zenon, <1>5, <2>4 DEF Page, Trying
  <2> HIDE DEF s, p, m
  <2>6. Asked(s) /\ remote[s] # s
    BY Zenon, <2>1, <2>2, <2>4 DEF Asked, Answered, AnswerToken
  <2>7. dcState[s] \in {"none", "connecting", "open", "closed"}
    BY Zenon, <2>1 DEF TypeInv, TypeOK, RtcTypeOK
  <2>8. webSocketConnection = s
    BY Zenon, <2>4, <2>6, <2>7 DEF Page, Trying
  <2>9. s = p
    BY Zenon, <2>5, <2>8
  <2>10. ASSUME NEW d \in Clients PROVE Page(d)'
    <3>1. Page(d) /\ UNCHANGED <<webSocketConnection, peerConnection>>
      BY Zenon, <1>1 DEF PageInv, globals
    <3>2. CASE d = p
      <4>1. sig'[d] = "stable" /\ remote'[d] = d
        BY <1>5, <1>2, <2>1, <2>9, <3>2
      <4>2. dcState'[d] = "connecting" /\ d \notin csd' /\ webSocketConnection' = d /\ peerConnection' = d
        BY Zenon, <1>1, <2>5, <3>1, <3>2 DEF p
      <4>3. ~Unasked(d)'
        BY Zenon, <1>1, <2>5, <3>1, <3>2 DEF Page, Unasked
      <4> QED BY <4>1, <4>2, <4>3 DEF Page
    <3>3. CASE d # p
      <4>1. sig'[d] = sig[d] /\ remote'[d] = remote[d]
        BY Zenon, <1>2, <1>5, <3>3
      <4>2. \A e \in Clients : remote'[e] = d => remote[e] = d
        BY <1>2, <1>5, <2>1, <2>9, <3>3
      <4>3. Asked(d)' => Asked(d)
        BY Zenon, <1>1, <1>3, <4>2 DEF Asked, Answered, NoNewFrames
      <4> QED BY Zenon, <1>1, <3>1, <4>1, <4>3, PageStays
    <3> QED BY <3>2, <3>3
  <2> QED BY Zenon, <2>3, <2>10 DEF PageInv
<1> QED BY <1>1, <1>4, <1>5


(***************************************************************************)
(* The other events of a socket and of its channel.                        *)
(***************************************************************************)
LEMMA PageEvents ==
    ASSUME TypeInv, PageInv, NEW c \in Clients,
           \/ SocketGone(c) \/ onOfferFailure(c) \/ (ClientOnMessage(c) /\ UNCHANGED globals)
           \/ /\ ClientReadsClose(c) \/ ClientOnOpen(c) \/ ClientOnClosed(c)
              /\ UNCHANGED globals
    PROVE  PageInv'
<1> USE NodeFacts, Domains
<1>1. ASSUME UNCHANGED <<globals, toS, peer_connection, sig, remote, dcState>>, csd' \subseteq csd,
             \A d \in Clients : /\ wsC'[d] = wsC[d] \/ wsC'[d] \in {"closing", "closed"}
                                /\ Quiet(toC[d], toC'[d])
      PROVE  PageInv'
  <2>1. NoNewFrames
    BY Zenon, <1>1, QuietFrames DEF Quiet
  <2>2. NoNewRequests
    BY Zenon, <1>1 DEF NoNewRequests, Unasked
  <2>3. TokenInv'
    BY Zenon, <2>1, <2>2, TokensKept DEF PageInv
  <2>4. \A d \in Clients : Page(d)'
    BY Zenon, <1>1, <2>1, <2>2, NotAsked, PageStays DEF PageInv
  <2> QED BY <2>3, <2>4 DEF PageInv
<1>2. CASE SocketGone(c)
  <2>1. /\ UNCHANGED <<globals, rtcVars, toS>>
        /\ wsC' = [wsC EXCEPT ![c] = "closed"] /\ toC' = [toC EXCEPT ![c] = <<>>]
    BY Zenon, <1>2 DEF SocketGone, WsClientCloses
  <2>2. \A d \in Clients : wsC'[d] = wsC[d] \/ wsC'[d] \in {"closing", "closed"}
    BY Zenon, <2>1
  <2>3. \A d \in Clients : Quiet(toC[d], toC'[d])
    BY <2>1 DEF Quiet
  <2> QED BY Zenon, <1>1, <2>1, <2>2, <2>3 DEF rtcVars
<1>3. CASE onOfferFailure(c)
  <2>1. UNCHANGED <<globals, wsC, toC, toS, peer_connection, sig, remote, dcState>> /\ csd' = csd \ {c}
    BY Zenon, <1>3 DEF onOfferFailure, on_failure_csd, wsVars
  <2> QED BY Zenon, <1>1, <2>1 DEF Quiet
<1>4. CASE ClientOnMessage(c) /\ UNCHANGED globals
  <2>1. UNCHANGED <<globals, wsC, toC, toS, peer_connection, sig, csd, remote, dcState>>
    BY Zenon, <1>4 DEF ClientOnMessage, vars, wsVars, rtcVars
  <2> QED BY <1>1, <2>1 DEF Quiet
<1>5. CASE ClientReadsClose(c) /\ UNCHANGED globals
  <2>1. /\ UNCHANGED <<globals, rtcVars, toS>> /\ toC[c] # <<>>
        /\ wsC' = [wsC EXCEPT ![c] = "closing"] /\ toC' = [toC EXCEPT ![c] = Tail(@)]
    BY Zenon, <1>5 DEF ClientReadsClose
  <2>2. \A d \in Clients : wsC'[d] = wsC[d] \/ wsC'[d] \in {"closing", "closed"}
    BY <2>1
  <2>3. \A d \in Clients : Quiet(toC[d], toC'[d])
    BY Zenon, <2>1 DEF Quiet
  <2> QED BY Zenon, <1>1, <2>1, <2>2, <2>3 DEF rtcVars
<1>6. CASE (ClientOnOpen(c) \/ ClientOnClosed(c)) /\ UNCHANGED globals
  <2>1. /\ UNCHANGED <<wsC, toS, toC, peer_connection, sig, csd, remote, globals>>
        /\ \/ /\ dcState[c] = "connecting" /\ sig[c] = "stable" /\ remote[c] = c
              /\ dcState' = [dcState EXCEPT ![c] = "open"]
           \/ dcState[c] = "open" /\ dcState' = [dcState EXCEPT ![c] = "closed"]
    BY Zenon, <1>6 DEF ClientOnOpen, Reachable, ClientOnClosed, on_state_change, wsVars
  <2>2. TokenInv'
    BY <1>6, TokenClientSignaling DEF ClientSignaling, PageInv
  <2>3. ASSUME NEW d \in Clients PROVE Page(d)'
    <3>1. Page(d) /\ (Asked(d)' => Asked(d))
      BY Zenon, <2>1 DEF PageInv, Asked, Answered
    <3>2. CASE d # c
      <4>1. dcState'[d] = dcState[d]
        BY Zenon, <2>1, <3>2
      <4> QED BY Zenon, <2>1, <3>1, <4>1, PageStays
    <3>3. CASE d = c
      <4>1. /\ dcState'[d] \in {"open", "closed"} /\ remote[d] = d /\ sig[d] # "local" /\ d \notin csd
            /\ ~Unasked(d)
        BY Zenon, <2>1, <3>1, <3>3 DEF Page
      <4>2. ~Trying(d)'
        BY Zenon, <2>1, <4>1 DEF Trying, Unasked
      <4>3. ~Unasked(d)'
        BY Zenon, <2>1, <4>1 DEF Unasked
      <4> QED BY Zenon, <2>1, <4>1, <4>2, <4>3 DEF Page
    <3> QED BY Zenon, <3>2, <3>3
  <2> QED BY Zenon, <2>2, <2>3 DEF PageInv
<1> QED BY Zenon, <1>2, <1>3, <1>4, <1>5, <1>6

(***************************************************************************)
(* quit(): the channel was open, so no attempt is under way.               *)
(***************************************************************************)
LEMMA PageExits ==
    ASSUME TypeInv, PageInv, GlobalsTyped, page_exit
    PROVE  PageInv'
<1> USE NodeFacts, Domains
<1> DEFINE p == peerConnection
<1>1. /\ p \in Clients /\ dcState[p] = "open" /\ dcState' = [dcState EXCEPT ![p] = "closed"]
      /\ sig' = [sig EXCEPT ![p] = "none"] /\ csd' = csd \ {p}
      /\ UNCHANGED <<wsC, toS, toC, peer_connection, remote, webSocketConnection>>
  BY Zenon DEF page_exit, GlobalsTyped, Accepts, wsVars
<1>2. NoNewFrames
  BY <1>1, QuietFrames DEF Quiet
<1>3. NoNewRequests
  BY Zenon, <1>1 DEF NoNewRequests, Unasked
<1>4. TokenInv'
  BY Zenon, <1>2, <1>3, TokensKept DEF PageInv
<1>5. ASSUME NEW d \in Clients PROVE Page(d)'
  <2>1. Page(d) /\ (Asked(d)' => Asked(d)) /\ (Unasked(d)' <=> Unasked(d))
    BY Zenon, <1>1, <1>2, <1>3, NotAsked DEF PageInv, Unasked
  <2>2. dcState[d] # "connecting"
    BY Zenon, <1>1, <2>1 DEF Page
  <2>3. CASE d = p
    <3>1. dcState'[d] = "closed" /\ sig'[d] = "none" /\ d \notin csd' /\ remote'[d] = d
      BY Zenon, <1>1, <2>1, <2>3 DEF Page
    <3>2. ~Unasked(d)'
      BY Zenon, <1>1, <2>1, <2>3 DEF Page
    <3> QED BY Zenon, <3>1, <3>2 DEF Page, Trying, Unasked
  <2>4. CASE d # p
    <3>1. dcState'[d] = dcState[d] /\ sig'[d] = sig[d] /\ remote'[d] = remote[d] /\ (d \in csd' => d \in csd)
      BY Zenon, <1>1, <2>4
    <3> QED BY Zenon, <1>1, <2>1, <2>2, <3>1 DEF Page, Trying
  <2> QED BY <2>3, <2>4
<1> QED BY Zenon, <1>4, <1>5 DEF PageInv

LEMMA PageStep ==
    ASSUME TypeInv, GlobalsTyped, ~hasty => PageInv, [BrowserNext]_browserVars, ~hasty'
    PROVE  PageInv'
<1>1. ASSUME UNCHANGED <<wsC, toS, toC, peer_connection, sig, csd, remote, dcState, globals>>, PageInv
      PROVE  PageInv'
  <2>1. NoNewFrames
    BY <1>1, QuietFrames DEF Quiet
  <2>2. NoNewRequests
    BY <1>1 DEF NoNewRequests, Unasked
  <2>3. TokenInv'
    BY <1>1, <2>1, <2>2, TokensKept DEF PageInv
  <2>4. \A d \in Clients : Page(d)'
    BY <1>1, <2>1, <2>2, NotAsked, PageStays DEF PageInv
  <2> QED BY <2>3, <2>4 DEF PageInv
<1>2. ASSUME NEW c \in Clients, connect(c)
      PROVE  PageInv'
  BY Zenon, <1>2, PageConnects DEF connect
<1>3. ASSUME NEW c \in Clients, PageEvent(c)
      PROVE  PageInv'
  <2>1. PageInv
    BY Zenon, <1>3 DEF PageEvent, SocketGone, onWebSocketOpen, onOfferSuccess, onOfferFailure, onWebSocketMessage
  <2>2. CASE onWebSocketOpen(c) \/ onOfferSuccess(c) \/ onWebSocketMessage(c)
    BY <2>1, <2>2, PageOpens, PageOffers, PageAnswered
  <2>3. CASE \/ SocketGone(c) \/ onOfferFailure(c) \/ (ClientOnMessage(c) /\ UNCHANGED globals)
             \/ /\ ClientReadsClose(c) \/ ClientOnOpen(c) \/ ClientOnClosed(c)
                /\ UNCHANGED globals
    BY <2>1, <2>3, PageEvents
  <2> QED BY <1>3, <2>2, <2>3 DEF PageEvent
<1>4. CASE ServerStep
  BY <1>4, ServerKinds, ServerPage
<1>5. CASE page_exit
  BY <1>5, PageExits DEF page_exit
<1>6. CASE page_send \/ (\E c \in Clients : Expires(c)) \/ UNCHANGED browserVars
  <2>1. UNCHANGED <<vars, globals, hasty>>
    BY <1>6 DEF page_send, Expires, browserVars, allVars
  <2> QED BY <1>1, <2>1 DEF vars, wsVars, rtcVars
<1>7. CASE PageCloses
  BY <1>1, <1>7 DEF PageCloses, wsVars
<1> QED BY <1>2, <1>3, <1>4, <1>5, <1>6, <1>7 DEF BrowserNext, ServerStep

(***************************************************************************)
(* For any number of sockets, whatever fails and however the server and    *)
(* the page interleave: as long as the user clicks "connect" only when the *)
(* last attempt is over, onWebSocketMessage (webrtc_client.js), which uses *)
(* the global peerConnection, gives it no answer but its own.              *)
(***************************************************************************)
THEOREM AnswersGoHome == BrowserSpec => []AnswersMatch
<1> DEFINE I == TypeInv /\ GlobalsTyped /\ (~hasty => PageInv)
<1>1. BrowserInit => I
  <2> SUFFICES ASSUME BrowserInit PROVE I
    OBVIOUS
  <2> USE NodeFacts
  <2>1. Init /\ GlobalsTyped
    BY DEF BrowserInit, SessionInit, GlobalsTyped
  <2>2. TypeInv /\ TokenInv
    BY <2>1, TypeInvInit, TokenInvInit
  <2>3. ASSUME NEW c \in Clients PROVE Page(c)
    <3>1. wsC[c] = "none" /\ dcState[c] = "none" /\ sig[c] = "none" /\ remote[c] = Null /\ csd = {}
      BY <2>1 DEF Init, WsInit, RtcInit
    <3>2. ~Asked(c)
      BY <2>1 DEF Init, WsInit, RtcInit, Asked, Answered, Has
    <3> QED BY <3>1, <3>2 DEF Page, Trying
  <2> QED BY <2>1, <2>2, <2>3 DEF PageInv
<1>2. I /\ [BrowserNext]_browserVars => I'
  <2> SUFFICES ASSUME I, [BrowserNext]_browserVars PROVE I'
    OBVIOUS
  <2>1. TypeInv' /\ GlobalsTyped'
    BY BrowserTypes, GlobalsStep
  <2>2. ~hasty' => PageInv'
    BY PageStep
  <2> QED BY <2>1, <2>2
<1>3. I => AnswersMatch
  BY Zenon DEF PageInv, Page, AnswersMatch
<1> QED BY <1>1, <1>2, <1>3, PTL DEF BrowserSpec
============================================================================
