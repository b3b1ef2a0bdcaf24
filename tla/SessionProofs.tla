--------------------------- MODULE SessionProofs ---------------------------
(***************************************************************************)
(* What holds of Session for every number of clients, every bound and      *)
(* every choice of faults.                                                 *)
(***************************************************************************)
EXTENDS Session, TLAPS

(***************************************************************************)
(* Where the lines of one client are, n of them, with u and d on the       *)
(* channel and e printed.  The replies on the channel are the next ones    *)
(* due, in order.  The messages to the server are the next ones to answer, *)
(* and "exit" is the last.  Until then no line is missing.                 *)
(***************************************************************************)
RepliesDue(d, e, n) ==
    /\ \A i \in 1..Len(d) : d[i] = Len(e) + i
    /\ Len(e) + Len(d) <= n

LinesDue(u, d, e, n) ==
    \A i \in 1..Len(u) :
        \/ u[i] = Exit /\ i = Len(u)
        \/ u[i] = Len(e) + Len(d) + i /\ u[i] <= n

NoneMissing(u, d, e, n) ==
    /\ n = Len(e) + Len(d) + Len(u)
    /\ \A i \in 1..Len(u) : u[i] # Exit

(***************************************************************************)
(* When its buffer is full the server closes its end of the channel and    *)
(* the reply is lost; from then on it takes nothing from that channel, so  *)
(* the lines on it need not be in order with the replies.                  *)
(***************************************************************************)
EchoInv ==
    /\ sent \in [Clients -> Nat] /\ up \in [Clients -> Seq(Nat)]
    /\ down \in [Clients -> Seq(Nat)] /\ echoed \in [Clients -> Seq(Nat)]
    /\ DOMAIN prog = Nodes
    /\ \A c \in Clients :
          /\ RepliesDue(down[c], echoed[c], sent[c])
          /\ c \notin cut => LinesDue(up[c], down[c], echoed[c], sent[c])
          /\ c \notin cut /\ prog[c] = "work"
             => NoneMissing(up[c], down[c], echoed[c], sent[c])

(***************************************************************************)
(* What happens to these when a line or "exit" goes on the channel, when   *)
(* the server takes a message, and when the client prints a reply.         *)
(***************************************************************************)
LEMMA LineSent ==
    ASSUME NEW u \in Seq(Nat), NEW d \in Seq(Nat), NEW e \in Seq(Nat), NEW n \in Nat,
           RepliesDue(d, e, n)
    PROVE  /\ RepliesDue(d, e, n + 1)
           /\ LinesDue(u, d, e, n) /\ NoneMissing(u, d, e, n)
              => /\ LinesDue(Append(u, n + 1), d, e, n + 1)
                 /\ NoneMissing(Append(u, n + 1), d, e, n + 1)
                 /\ LinesDue(Append(u, Exit), d, e, n)
<1>1. RepliesDue(d, e, n + 1)
  BY DEF RepliesDue
<1>2. ASSUME LinesDue(u, d, e, n), NoneMissing(u, d, e, n), NEW x \in Nat, NEW k \in Nat,
             \/ x = Exit /\ k = n
             \/ x = n + 1 /\ k = n + 1
      PROVE  LinesDue(Append(u, x), d, e, k)
  <2> DEFINE v == Append(u, x)
  <2>1. /\ Len(v) = Len(u) + 1 /\ v[Len(u) + 1] = x
        /\ \A i \in 1..Len(u) : v[i] = u[i]
    OBVIOUS
  <2> HIDE DEF v
  <2>2. n = Len(e) + Len(d) + Len(u) /\ \A i \in 1..Len(u) : u[i] # Exit
    BY <1>2 DEF NoneMissing
  <2>3. \A i \in 1..Len(u) : u[i] = Len(e) + Len(d) + i /\ u[i] <= n
    BY <1>2, <2>2 DEF LinesDue
  <2>4. ASSUME NEW i \in 1..Len(v)
        PROVE  \/ v[i] = Exit /\ i = Len(v)
               \/ v[i] = Len(e) + Len(d) + i /\ v[i] <= k
    <3>1. CASE i \in 1..Len(u)
      <4>1. v[i] = Len(e) + Len(d) + i /\ v[i] <= n
        BY <2>1, <2>3, <3>1
      <4> QED BY <1>2, <4>1
    <3>2. CASE i = Len(u) + 1
      BY <1>2, <2>1, <2>2, <3>2
    <3> QED BY <2>1, <3>1, <3>2
  <2>5. LinesDue(v, d, e, k)
    BY <2>4 DEF LinesDue
  <2> QED BY <2>5 DEF v
<1>3. ASSUME NoneMissing(u, d, e, n)
      PROVE  NoneMissing(Append(u, n + 1), d, e, n + 1)
  BY <1>3 DEF NoneMissing, Exit
<1>4. Exit \in Nat /\ n + 1 \in Nat
  BY DEF Exit
<1> QED BY <1>1, <1>2, <1>3, <1>4

LEMMA LineTaken ==
    ASSUME NEW u \in Seq(Nat), NEW d \in Seq(Nat), NEW e \in Seq(Nat), NEW n \in Nat,
           RepliesDue(d, e, n), LinesDue(u, d, e, n), u # <<>>
    PROVE  /\ Head(u) = Exit => Tail(u) = <<>> /\ ~NoneMissing(u, d, e, n)
           /\ Head(u) # Exit
              => /\ RepliesDue(Append(d, Head(u)), e, n)
                 /\ LinesDue(Tail(u), Append(d, Head(u)), e, n)
                 /\ NoneMissing(u, d, e, n) => NoneMissing(Tail(u), Append(d, Head(u)), e, n)
<1> DEFINE t == Tail(u)
           x == Head(u)
           g == Append(d, x)
<1>1. /\ x = u[1] /\ x \in Nat /\ Len(u) \in Nat /\ Len(u) >= 1
      /\ t \in Seq(Nat) /\ Len(t) = Len(u) - 1
      /\ \A i \in 1..(Len(u) - 1) : t[i] = u[i + 1]
  OBVIOUS
<1>2. /\ g \in Seq(Nat) /\ Len(g) = Len(d) + 1 /\ g[Len(d) + 1] = x
      /\ \A i \in 1..Len(d) : g[i] = d[i]
  BY <1>1
<1> HIDE DEF t, x, g
<1>3. Len(u) = 1 => t = <<>>
  <2>1. Len(u) = 1 => Len(t) = 0
    BY <1>1
  <2> QED BY <1>1, <2>1
<1>4. Len(d) \in Nat /\ Len(e) \in Nat
  OBVIOUS
<1>5. \/ u[1] = Exit /\ 1 = Len(u)
      \/ u[1] = Len(e) + Len(d) + 1 /\ u[1] <= n
  <2>1. 1 \in 1..Len(u)
    BY <1>1
  <2> QED BY Zenon, <2>1 DEF LinesDue
<1>6. x = Exit => t = <<>> /\ ~NoneMissing(u, d, e, n)
  <2> SUFFICES ASSUME x = Exit PROVE t = <<>> /\ ~NoneMissing(u, d, e, n)
    OBVIOUS
  <2>1. Len(u) = 1 /\ 1 \in 1..Len(u)
    BY <1>1, <1>4, <1>5 DEF Exit
  <2> QED BY <1>1, <1>3, <2>1 DEF NoneMissing
<1>7. ASSUME x # Exit
      PROVE  /\ RepliesDue(g, e, n)
             /\ LinesDue(t, g, e, n)
             /\ NoneMissing(u, d, e, n) => NoneMissing(t, g, e, n)
  <2>1. x = Len(e) + Len(d) + 1 /\ x <= n
    BY <1>1, <1>5, <1>7
  <2>2. RepliesDue(g, e, n)
    <3>1. ASSUME NEW i \in 1..Len(g)
          PROVE  g[i] = Len(e) + i
      <4>1. CASE i \in 1..Len(d)
        BY <1>2, <4>1 DEF RepliesDue
      <4>2. CASE i = Len(d) + 1
        BY <1>2, <1>4, <2>1, <4>2
      <4> QED BY <1>2, <1>4, <4>1, <4>2
    <3> QED BY <1>2, <1>4, <2>1, <3>1 DEF RepliesDue
  <2>3. LinesDue(t, g, e, n)
    <3>1. ASSUME NEW i \in 1..Len(t)
          PROVE  \/ t[i] = Exit /\ i = Len(t)
                 \/ t[i] = Len(e) + Len(g) + i /\ t[i] <= n
      <4>1. i + 1 \in 1..Len(u) /\ t[i] = u[i + 1]
        BY <1>1
      <4>2. \/ u[i + 1] = Exit /\ i + 1 = Len(u)
            \/ u[i + 1] = Len(e) + Len(d) + (i + 1) /\ u[i + 1] <= n
        BY Zenon, <4>1 DEF LinesDue
      <4> QED BY <1>1, <1>2, <1>4, <4>1, <4>2
    <3> QED BY <3>1 DEF LinesDue
  <2>4. NoneMissing(u, d, e, n) => NoneMissing(t, g, e, n)
    <3> SUFFICES ASSUME NoneMissing(u, d, e, n) PROVE NoneMissing(t, g, e, n)
      OBVIOUS
    <3>1. n = Len(e) + Len(g) + Len(t)
      BY <1>1, <1>2, <1>4 DEF NoneMissing
    <3>2. \A i \in 1..Len(t) : i + 1 \in 1..Len(u) /\ t[i] = u[i + 1]
      BY <1>1
    <3> QED BY <3>1, <3>2 DEF NoneMissing
  <2> QED BY <2>2, <2>3, <2>4
<1> QED BY <1>6, <1>7 DEF t, x, g

LEMMA ReplyPrinted ==
    ASSUME NEW u \in Seq(Nat), NEW d \in Seq(Nat), NEW e \in Seq(Nat), NEW n \in Nat,
           RepliesDue(d, e, n), d # <<>>
    PROVE  LET f == Append(e, Head(d)) IN
           /\ Head(d) = Len(e) + 1 /\ Len(e) < n
           /\ RepliesDue(Tail(d), f, n)
           /\ LinesDue(u, d, e, n) => LinesDue(u, Tail(d), f, n)
           /\ NoneMissing(u, d, e, n) => NoneMissing(u, Tail(d), f, n)
<1> DEFINE f == Append(e, Head(d))
<1>1. Head(d) = d[1] /\ Len(d) >= 1 /\ Len(Tail(d)) = Len(d) - 1 /\ Head(d) \in Nat
      /\ \A i \in 1..(Len(d) - 1) : Tail(d)[i] = d[i + 1]
  OBVIOUS
<1>2. Len(f) = Len(e) + 1 /\ Tail(d) \in Seq(Nat)
  BY <1>1
<1> HIDE DEF f
<1>3. Head(d) = Len(e) + 1 /\ Len(e) < n
  BY <1>1 DEF RepliesDue
<1>4. RepliesDue(Tail(d), f, n)
  BY <1>1, <1>2 DEF RepliesDue
<1>5. LinesDue(u, d, e, n) => LinesDue(u, Tail(d), f, n)
  BY <1>1, <1>2 DEF LinesDue
<1>6. NoneMissing(u, d, e, n) => NoneMissing(u, Tail(d), f, n)
  BY <1>1, <1>2 DEF NoneMissing
<1> QED BY <1>3, <1>4, <1>5, <1>6 DEF f

LEMMA EchoInvInit == SessionInit => EchoInv
<1> SUFFICES ASSUME SessionInit PROVE EchoInv
  OBVIOUS
<1>1. RepliesDue(<<>>, <<>>, 0) /\ LinesDue(<<>>, <<>>, <<>>, 0) /\ NoneMissing(<<>>, <<>>, <<>>, 0)
  BY DEF RepliesDue, LinesDue, NoneMissing
<1>2. <<>> \in Seq(Nat) /\ 0 \in Nat
  OBVIOUS
<1>3. \A c \in Clients : sent[c] = 0 /\ up[c] = <<>> /\ down[c] = <<>> /\ echoed[c] = <<>>
  BY DEF SessionInit
<1> QED BY <1>1, <1>2, <1>3 DEF SessionInit, EchoInv

(***************************************************************************)
(* EchoInv of one client, and that a step which changes the streams of one *)
(* client leaves those of the others alone.                                *)
(***************************************************************************)
Due(c) ==
    /\ sent[c] \in Nat /\ up[c] \in Seq(Nat) /\ down[c] \in Seq(Nat) /\ echoed[c] \in Seq(Nat)
    /\ RepliesDue(down[c], echoed[c], sent[c])
    /\ c \notin cut => LinesDue(up[c], down[c], echoed[c], sent[c])
    /\ c \notin cut /\ prog[c] = "work"
       => NoneMissing(up[c], down[c], echoed[c], sent[c])

Elsewhere(c) ==
    /\ DOMAIN sent' = Clients /\ DOMAIN up' = Clients /\ DOMAIN down' = Clients
    /\ DOMAIN echoed' = Clients /\ DOMAIN prog' = Nodes
    /\ sent' = [d \in DOMAIN sent' |-> sent'[d]] /\ up' = [d \in DOMAIN up' |-> up'[d]]
    /\ down' = [d \in DOMAIN down' |-> down'[d]]
    /\ echoed' = [d \in DOMAIN echoed' |-> echoed'[d]]
    /\ \A d \in Clients \ {c} :
          /\ sent'[d] = sent[d] /\ up'[d] = up[d] /\ down'[d] = down[d]
          /\ echoed'[d] = echoed[d] /\ prog'[d] = prog[d]
          /\ d \in cut' <=> d \in cut

LEMMA DueEverywhere ==
    ASSUME EchoInv, NEW c \in Clients, Elsewhere(c), Due(c)'
    PROVE  EchoInv'
<1>1. ASSUME NEW d \in Clients
      PROVE  Due(d)'
  <2>1. CASE d = c
    BY <2>1
  <2>2. CASE d # c
    <3>1. Due(d)
      BY DEF EchoInv, Due
    <3>2. /\ sent'[d] = sent[d] /\ up'[d] = up[d] /\ down'[d] = down[d]
          /\ echoed'[d] = echoed[d] /\ prog'[d] = prog[d]
          /\ d \in cut' <=> d \in cut
      BY <2>2 DEF Elsewhere
    <3> QED BY <3>1, <3>2 DEF Due
  <2> QED BY <2>1, <2>2
<1>2. /\ sent' \in [Clients -> Nat] /\ up' \in [Clients -> Seq(Nat)]
      /\ down' \in [Clients -> Seq(Nat)] /\ echoed' \in [Clients -> Seq(Nat)]
  BY Zenon, <1>1 DEF Due, Elsewhere
<1> QED BY <1>1, <1>2 DEF EchoInv, Due, Elsewhere

(***************************************************************************)
(* A step of main() on a client's line: it goes on the channel, or not.    *)
(***************************************************************************)
LEMMA EchoInput ==
    ASSUME EchoInv, NEW c \in Clients, ClientTypes(c) \/ ClientExit(c)
    PROVE  EchoInv' /\ (Echo!Say(c) \/ UNCHANGED <<sent, echoed>>)
<1>1. Due(c) /\ prog[c] = "work" /\ c \in Nodes
  BY DEF EchoInv, Due, ClientTypes, ClientExit, InInputLoop, Nodes
<1>2. Due(c)
  BY <1>1
<1>3. CASE ClientTypes(c)
  <2>1. UNCHANGED <<down, echoed, cut, prog>>
    BY <1>3 DEF ClientTypes
  <2>2. CASE Accepts(c, up[c])
    <3>1. /\ sent' = [sent EXCEPT ![c] = sent[c] + 1]
          /\ up' = [up EXCEPT ![c] = Append(up[c], sent[c] + 1)]
      BY <1>3, <2>2 DEF ClientTypes, client_send
    <3>2. Elsewhere(c) /\ sent'[c] = sent[c] + 1 /\ up'[c] = Append(up[c], sent[c] + 1)
      BY Zenon, <2>1, <3>1 DEF Elsewhere, EchoInv
    <3>3. Due(c)'
      <4>1. Append(up[c], sent[c] + 1) \in Seq(Nat) /\ sent[c] + 1 \in Nat
        BY <1>1 DEF Due
      <4>2. /\ RepliesDue(down[c], echoed[c], sent[c] + 1)
            /\ c \notin cut
               => /\ LinesDue(Append(up[c], sent[c] + 1), down[c], echoed[c], sent[c] + 1)
                  /\ NoneMissing(Append(up[c], sent[c] + 1), down[c], echoed[c], sent[c] + 1)
        BY Zenon, <1>1, LineSent DEF Due
      <4> QED BY <1>1, <2>1, <3>2, <4>1, <4>2 DEF Due
    <3> QED BY <2>1, <3>1, <3>2, <3>3, DueEverywhere DEF Echo!Say
  <2>3. CASE ~Accepts(c, up[c])
    <3>1. sent' = [sent EXCEPT ![c] = sent[c]] /\ up' = [up EXCEPT ![c] = up[c]]
      BY <1>3, <2>3 DEF ClientTypes, client_send
    <3>2. UNCHANGED <<sent, up>>
      BY <3>1 DEF EchoInv
    <3> QED BY <2>1, <3>2 DEF EchoInv
  <2> QED BY <2>2, <2>3
<1>4. CASE ClientExit(c)
  <2>1. UNCHANGED <<sent, down, echoed, cut>> /\ prog' = [prog EXCEPT ![c] = "exit"]
    BY <1>4 DEF ClientExit
  <2>2. \/ up' = [up EXCEPT ![c] = Append(up[c], Exit)]
        \/ up' = [up EXCEPT ![c] = up[c]]
    BY <1>4 DEF ClientExit, client_send
  <2>3. Elsewhere(c) /\ (up'[c] = Append(up[c], Exit) \/ up'[c] = up[c]) /\ prog'[c] = "exit"
    <3>1. PICK x : up' = [up EXCEPT ![c] = x]
      BY Zenon, <2>2
    <3>2. \A d \in Clients : d \in Nodes
      BY DEF Nodes
    <3>3. Elsewhere(c)
      BY Zenon, <2>1, <3>1, <3>2 DEF Elsewhere, EchoInv
    <3>4. up'[c] = Append(up[c], Exit) \/ up'[c] = up[c]
      BY Zenon, <2>2 DEF EchoInv
    <3>5. prog'[c] = "exit"
      BY Zenon, <1>1, <2>1 DEF EchoInv
    <3> QED BY <3>3, <3>4, <3>5
  <2>4. Due(c)'
    <3>1. Append(up[c], Exit) \in Seq(Nat)
      BY <1>1 DEF Due, Exit
    <3>2. c \notin cut => LinesDue(Append(up[c], Exit), down[c], echoed[c], sent[c])
      BY Zenon, <1>1, LineSent DEF Due
    <3> QED BY <1>1, <2>1, <2>3, <3>1, <3>2 DEF Due
  <2> QED BY <2>1, <2>3, <2>4, DueEverywhere
<1> QED BY <1>3, <1>4

(***************************************************************************)
(* The client prints a reply: the one step that the echo service sees.     *)
(***************************************************************************)
LEMMA EchoPrinted ==
    ASSUME EchoInv, NEW c \in Clients, ClientOnMessage(c)
    PROVE  EchoInv' /\ Echo!Reply(c)
<1>1. Due(c) /\ down[c] # <<>>
  BY DEF EchoInv, Due, ClientOnMessage
<1>2. /\ echoed' = [echoed EXCEPT ![c] = Append(echoed[c], Head(down[c]))]
      /\ down' = [down EXCEPT ![c] = Tail(down[c])]
      /\ UNCHANGED <<sent, up, cut, prog>>
  BY Zenon DEF ClientOnMessage
<1>3. /\ Elsewhere(c)
      /\ echoed'[c] = Append(echoed[c], Head(down[c])) /\ down'[c] = Tail(down[c])
  BY Zenon, <1>2 DEF Elsewhere, EchoInv
<1>4. LET f == Append(echoed[c], Head(down[c])) IN
      /\ Head(down[c]) = Len(echoed[c]) + 1 /\ Len(echoed[c]) < sent[c]
      /\ RepliesDue(Tail(down[c]), f, sent[c])
      /\ LinesDue(up[c], down[c], echoed[c], sent[c])
         => LinesDue(up[c], Tail(down[c]), f, sent[c])
      /\ NoneMissing(up[c], down[c], echoed[c], sent[c])
         => NoneMissing(up[c], Tail(down[c]), f, sent[c])
  BY Zenon, <1>1, ReplyPrinted DEF Due
<1>5. Due(c)'
  <2>1. Tail(down[c]) \in Seq(Nat) /\ Append(echoed[c], Head(down[c])) \in Seq(Nat)
    BY <1>1 DEF Due
  <2> QED BY Zenon, <1>1, <1>2, <1>3, <1>4, <2>1 DEF Due
<1> QED BY <1>2, <1>3, <1>4, <1>5, DueEverywhere DEF Echo!Reply

(***************************************************************************)
(* The server takes a message.                                             *)
(***************************************************************************)
LEMMA EchoTaken ==
    ASSUME EchoInv, NEW c \in Clients, ServerOnMessage(c)
    PROVE  EchoInv' /\ UNCHANGED <<sent, echoed>>
<1> DEFINE u == up[c]
<1>1. Due(c) /\ c \notin cut /\ u # <<>> /\ LinesDue(u, down[c], echoed[c], sent[c])
  BY Zenon DEF EchoInv, Due, ServerOnMessage
<1>2. up' = [up EXCEPT ![c] = Tail(u)] /\ UNCHANGED <<sent, echoed, prog>>
  BY Zenon DEF ServerOnMessage
<1>3. Tail(u) \in Seq(Nat) /\ Head(u) \in Nat /\ Append(down[c], Head(u)) \in Seq(Nat)
  BY <1>1 DEF Due
<1>4. /\ Head(u) = Exit => Tail(u) = <<>> /\ ~NoneMissing(u, down[c], echoed[c], sent[c])
      /\ Head(u) # Exit
         => /\ RepliesDue(Append(down[c], Head(u)), echoed[c], sent[c])
            /\ LinesDue(Tail(u), Append(down[c], Head(u)), echoed[c], sent[c])
            /\ NoneMissing(u, down[c], echoed[c], sent[c])
               => NoneMissing(Tail(u), Append(down[c], Head(u)), echoed[c], sent[c])
  BY Zenon, <1>1, LineTaken DEF Due
<1>5. CASE Head(u) = Exit /\ UNCHANGED <<down, cut>>
  <2>1. Elsewhere(c) /\ up'[c] = Tail(u)
    BY Zenon, <1>2, <1>5 DEF Elsewhere, EchoInv
  <2>2. LinesDue(<<>>, down[c], echoed[c], sent[c])
    BY DEF LinesDue
  <2>3. Due(c)'
    BY Zenon, <1>1, <1>2, <1>3, <1>4, <1>5, <2>1, <2>2 DEF Due
  <2> QED BY <1>2, <2>1, <2>3, DueEverywhere
<1>6. CASE Head(u) # Exit /\ server_send(c, Head(u))
  <2>1. CASE Accepts(Server, down[c])
    <3>1. down' = [down EXCEPT ![c] = Append(down[c], Head(u))] /\ UNCHANGED cut
      BY <1>6, <2>1 DEF server_send
    <3>2. Elsewhere(c) /\ up'[c] = Tail(u) /\ down'[c] = Append(down[c], Head(u))
      BY Zenon, <1>2, <3>1 DEF Elsewhere, EchoInv
    <3>3. Due(c)'
      BY Zenon, <1>1, <1>2, <1>3, <1>4, <1>6, <3>1, <3>2 DEF Due
    <3> QED BY <1>2, <3>2, <3>3, DueEverywhere
  <2>2. CASE ~Accepts(Server, down[c])
    <3>1. down' = [down EXCEPT ![c] = down[c]] /\ cut' = cut \cup {c}
      BY <1>6, <2>2 DEF server_send
    <3>2. Elsewhere(c) /\ up'[c] = Tail(u) /\ down'[c] = down[c]
      BY Zenon, <1>2, <3>1 DEF Elsewhere, EchoInv
    <3>3. Due(c)'
      BY Zenon, <1>1, <1>2, <1>3, <3>1, <3>2 DEF Due
    <3> QED BY <1>2, <3>2, <3>3, DueEverywhere
  <2> QED BY <2>1, <2>2
<1> QED BY <1>5, <1>6 DEF ServerOnMessage

(***************************************************************************)
(* The other steps leave the streams alone, and no main() that has left    *)
(* its loop goes back to it.                                               *)
(***************************************************************************)
LEMMA EchoStep ==
    EchoInv /\ [SessionNext]_allVars => EchoInv' /\ [Echo!Next]_<<sent, echoed>>
<1> SUFFICES ASSUME EchoInv, [SessionNext]_allVars
             PROVE  EchoInv' /\ [Echo!Next]_<<sent, echoed>>
  OBVIOUS
<1>1. ASSUME UNCHANGED <<sent, up, down, echoed, cut>>, DOMAIN prog' = Nodes,
             \A c \in Clients : prog'[c] = "work" => prog[c] = "work"
      PROVE  EchoInv' /\ [Echo!Next]_<<sent, echoed>>
  BY <1>1 DEF EchoInv
<1>2. ASSUME UNCHANGED sessionVars
      PROVE  EchoInv' /\ [Echo!Next]_<<sent, echoed>>
  BY <1>1, <1>2 DEF sessionVars, EchoInv
<1>3. ASSUME NEW n \in Nodes, UNCHANGED <<sent, up, down, echoed, cut>>,
             NEW p \in {"exit", "quit", "dtor"}, prog' = [prog EXCEPT ![n] = p]
      PROVE  EchoInv' /\ [Echo!Next]_<<sent, echoed>>
  <2>1. DOMAIN prog' = Nodes /\ \A c \in Clients : prog'[c] = "work" => prog[c] = "work"
    BY <1>3 DEF EchoInv, Nodes
  <2> QED BY <1>1, <1>3, <2>1
<1>4. \A c \in Clients : c \in Nodes
  BY DEF Nodes
<1>5. Server \in Nodes
  BY DEF Nodes
<1>6. ASSUME NEW c \in Clients, ClientInput(c)
      PROVE  EchoInv' /\ [Echo!Next]_<<sent, echoed>>
  BY <1>3, <1>4, <1>6, EchoInput DEF ClientInput, ClientEof, Echo!Next
<1>7. ASSUME NEW n \in Nodes, Quit(n) \/ Returns(n)
      PROVE  EchoInv' /\ [Echo!Next]_<<sent, echoed>>
  BY <1>2, <1>3, <1>7 DEF Quit, Returns
<1>8. ASSUME NEW c \in Clients, ClientCallback(c)
      PROVE  EchoInv' /\ [Echo!Next]_<<sent, echoed>>
  BY <1>2, <1>8, EchoPrinted DEF ClientCallback, DanglingCallback, Echo!Next
<1>9. CASE ServerCallback
  BY <1>2, <1>9, EchoTaken DEF ServerCallback
<1>10. CASE ServerLeaves
  BY <1>3, <1>5, <1>7, <1>10 DEF ServerLeaves, ServerReturnsFromRun
<1>11. CASE UNCHANGED allVars
  BY <1>2, <1>11 DEF allVars
<1> QED BY <1>2, <1>4, <1>6, <1>7, <1>8, <1>9, <1>10, <1>11
        DEF SessionNext, ClientHandshake, ClientRefused, ClientLeaves, ReleaseConnection,
            ServerHandshake

(***************************************************************************)
(* The two programs implement the echo service, for any number of clients, *)
(* any size of the buffers and whatever fails: each client gets the echoes *)
(* of its own lines, once each and in order.                               *)
(***************************************************************************)
THEOREM EchoRefinement == SessionSpec => ImplementsEcho
<1>1. SessionInit => Echo!Init
  BY DEF SessionInit, Echo!Init
<1> QED BY <1>1, EchoInvInit, EchoStep, PTL DEF SessionSpec, ImplementsEcho, Echo!Spec

(***************************************************************************)
(* Only a client that left through the line "exit" has put "exit" on its   *)
(* channel, and it stays one.                                              *)
(***************************************************************************)
HasExit(q) == \E i \in 1..Len(q) : q[i] = Exit

LeftByExit(c) == prog[c] \in {"exit", "quit"}

ExitInv ==
    /\ StopsOnlyOnExit
    /\ \A c \in Clients : HasExit(up[c]) => LeftByExit(c)

LEMMA ExitQueued ==
    ASSUME NEW q \in Seq(Nat)
    PROVE  /\ \A m \in Nat : HasExit(Append(q, m)) => HasExit(q) \/ m = Exit
           /\ q # <<>> /\ HasExit(Tail(q)) => HasExit(q)
           /\ q # <<>> /\ Head(q) = Exit => HasExit(q)
<1>1. ASSUME NEW m \in Nat, HasExit(Append(q, m)), m # Exit
      PROVE  HasExit(q)
  <2> DEFINE r == Append(q, m)
  <2>1. Len(r) = Len(q) + 1 /\ r[Len(q) + 1] = m /\ \A i \in 1..Len(q) : r[i] = q[i]
    OBVIOUS
  <2> HIDE DEF r
  <2>2. PICK i \in 1..Len(r) : r[i] = Exit
    BY <1>1 DEF HasExit, r
  <2> QED BY <1>1, <2>1, <2>2 DEF HasExit
<1>2. ASSUME q # <<>>
      PROVE  (HasExit(Tail(q)) => HasExit(q)) /\ (Head(q) = Exit => HasExit(q))
  <2> DEFINE t == Tail(q)
  <2>1. /\ Len(q) \in Nat /\ Len(q) >= 1 /\ Len(t) = Len(q) - 1 /\ Head(q) = q[1]
        /\ \A i \in 1..(Len(q) - 1) : t[i] = q[i + 1]
    BY <1>2
  <2> HIDE DEF t
  <2>2. \A i \in 1..Len(t) : i + 1 \in 1..Len(q) /\ t[i] = q[i + 1]
    BY <2>1
  <2>3. HasExit(t) => HasExit(q)
    BY <2>2 DEF HasExit
  <2>4. Head(q) = Exit => HasExit(q)
    BY <2>1 DEF HasExit
  <2> QED BY <2>3, <2>4 DEF t
<1> QED BY <1>1, <1>2

LEMMA ExitStep == EchoInv /\ ExitInv /\ [SessionNext]_allVars => ExitInv'
<1> SUFFICES ASSUME EchoInv, ExitInv, [SessionNext]_allVars
             PROVE  ExitInv'
  OBVIOUS
<1>1. Server \notin Clients /\ Nodes = Clients \cup {Server}
  BY ConstantsAssumption DEF Nodes
<1>2. DOMAIN prog = Nodes /\ DOMAIN up = Clients /\ \A c \in Clients : up[c] \in Seq(Nat) /\ sent[c] \in Nat
  BY DEF EchoInv
<1>3. ASSUME \A c \in Clients : LeftByExit(c) => LeftByExit(c)',
             \A c \in Clients : HasExit(up'[c]) => HasExit(up[c]) \/ LeftByExit(c)',
             endpoint' = "stopped" => endpoint = "stopped" \/ \E c \in Clients : HasExit(up[c])
      PROVE  ExitInv'
  <2>1. \A c \in Clients : HasExit(up'[c]) => LeftByExit(c)'
    BY Zenon, <1>3 DEF ExitInv
  <2>2. endpoint' = "stopped" => \E c \in Clients : LeftByExit(c)'
    BY Zenon, <1>3 DEF ExitInv, StopsOnlyOnExit, LeftByExit
  <2> QED BY <2>1, <2>2 DEF ExitInv, StopsOnlyOnExit, LeftByExit
<1>4. ASSUME UNCHANGED <<up, endpoint, prog>>
      PROVE  ExitInv'
  BY <1>4 DEF ExitInv, StopsOnlyOnExit, LeftByExit
<1>5. ASSUME NEW n \in Nodes, NEW p \in {"exit", "quit", "dtor"}, UNCHANGED <<up, endpoint>>,
             prog' = [prog EXCEPT ![n] = p],
             n \in Clients /\ LeftByExit(n) => p = "quit"
      PROVE  ExitInv'
  <2>1. \A c \in Clients : LeftByExit(c) => LeftByExit(c)'
    BY <1>1, <1>2, <1>5 DEF LeftByExit
  <2> QED BY <1>3, <1>5, <2>1
<1>6. ASSUME NEW c \in Clients, ClientInput(c)
      PROVE  ExitInv'
  <2>1. prog[c] = "work" /\ c \in Nodes
    BY <1>1, <1>6 DEF ClientInput, ClientTypes, ClientExit, ClientEof, InInputLoop
  <2>2. CASE ClientEof(c)
    BY <1>5, <2>1, <2>2 DEF ClientEof, LeftByExit
  <2>3. ASSUME NEW m \in Nat, m # Exit \/ prog' = [prog EXCEPT ![c] = "exit"],
               UNCHANGED prog \/ prog' = [prog EXCEPT ![c] = "exit"],
               up' = [up EXCEPT ![c] = Append(up[c], m)] \/ UNCHANGED up, UNCHANGED endpoint
        PROVE  ExitInv'
    <3>1. \A d \in Clients : LeftByExit(d) => LeftByExit(d)'
      <4>1. CASE UNCHANGED prog
        BY <4>1 DEF LeftByExit
      <4>2. CASE prog' = [prog EXCEPT ![c] = "exit"]
        <5>1. \A d \in Clients : prog'[d] = prog[d] \/ prog'[d] = "exit"
          BY <1>1, <1>2, <4>2
        <5> QED BY <5>1 DEF LeftByExit
      <4> QED BY <2>3, <4>1, <4>2
    <3>2. m = Exit => LeftByExit(c)'
      BY <1>2, <2>1, <2>3 DEF LeftByExit
    <3>3. HasExit(Append(up[c], m)) => HasExit(up[c]) \/ m = Exit
      BY <1>2, ExitQueued
    <3>4. \A d \in Clients : up'[d] = up[d] \/ (d = c /\ up'[d] = Append(up[c], m))
      BY <1>2, <2>3
    <3>5. \A d \in Clients : HasExit(up'[d]) => HasExit(up[d]) \/ LeftByExit(d)'
      BY Zenon, <3>2, <3>3, <3>4
    <3> QED BY <1>3, <2>3, <3>1, <3>5
  <2>4. CASE ClientTypes(c)
    <3>1. sent[c] + 1 \in Nat /\ sent[c] + 1 # Exit
      BY <1>2 DEF Exit
    <3>2. /\ up' = [up EXCEPT ![c] = Append(up[c], sent[c] + 1)] \/ up' = [up EXCEPT ![c] = up[c]]
          /\ UNCHANGED <<prog, endpoint>>
      BY <2>4 DEF ClientTypes, client_send
    <3>3. [up EXCEPT ![c] = up[c]] = up
      BY DEF EchoInv
    <3> QED BY <2>3, <3>1, <3>2, <3>3
  <2>5. CASE ClientExit(c)
    <3>1. Exit \in Nat
      BY DEF Exit
    <3>2. /\ up' = [up EXCEPT ![c] = Append(up[c], Exit)] \/ up' = [up EXCEPT ![c] = up[c]]
          /\ prog' = [prog EXCEPT ![c] = "exit"] /\ UNCHANGED endpoint
      BY <2>5 DEF ClientExit, client_send
    <3>3. [up EXCEPT ![c] = up[c]] = up
      BY DEF EchoInv
    <3> QED BY <2>3, <3>1, <3>2, <3>3
  <2> QED BY <1>6, <2>2, <2>4, <2>5 DEF ClientInput
<1>7. ASSUME NEW n \in Nodes, Quit(n) \/ Returns(n)
      PROVE  ExitInv'
  <2>1. CASE Quit(n)
    BY <1>5, <2>1 DEF Quit
  <2>2. CASE Returns(n)
    BY <1>4, <2>2 DEF Returns, sessionVars
  <2> QED BY <1>7, <2>1, <2>2
<1>8. ASSUME NEW c \in Clients, ServerOnMessage(c)
      PROVE  ExitInv'
  <2>1. /\ up[c] # <<>> /\ up' = [up EXCEPT ![c] = Tail(up[c])] /\ UNCHANGED prog
        /\ endpoint' # endpoint => Head(up[c]) = Exit
    BY <1>8 DEF ServerOnMessage, stop_listening
  <2>2. (HasExit(Tail(up[c])) => HasExit(up[c])) /\ (Head(up[c]) = Exit => HasExit(up[c]))
    BY <1>2, <2>1, ExitQueued
  <2>3. \A d \in Clients : up'[d] = up[d] \/ (d = c /\ up'[d] = Tail(up[c]))
    BY <1>2, <2>1
  <2>4. \A d \in Clients : HasExit(up'[d]) => HasExit(up[d])
    BY Zenon, <2>2, <2>3
  <2>5. endpoint' = "stopped" => endpoint = "stopped" \/ \E d \in Clients : HasExit(up[d])
    BY <2>1, <2>2
  <2>6. \A d \in Clients : LeftByExit(d) => LeftByExit(d)'
    BY <2>1 DEF LeftByExit
  <2> QED BY <1>3, <2>4, <2>5, <2>6
<1>9. ASSUME UNCHANGED sessionVars
      PROVE  ExitInv'
  BY <1>4, <1>9 DEF sessionVars
<1>10. ASSUME NEW c \in Clients, ClientCallback(c)
       PROVE  ExitInv'
  BY <1>4, <1>9, <1>10 DEF ClientCallback, ClientOnMessage, DanglingCallback
<1>11. CASE ServerReturnsFromRun
  BY <1>1, <1>5, <1>11 DEF ServerReturnsFromRun
<1> QED BY <1>1, <1>6, <1>7, <1>8, <1>9, <1>10, <1>11
        DEF SessionNext, ClientHandshake, ClientRefused, ClientLeaves, ReleaseConnection,
            ServerHandshake, ServerCallback, ServerLeaves, allVars

(***************************************************************************)
(* The server stops listening only after some client sent "exit", for any  *)
(* number of clients and whatever fails (server.cpp:41).                   *)
(***************************************************************************)
THEOREM OnlyExitStops == SessionSpec => []StopsOnlyOnExit
<1>1. SessionInit => ExitInv
  BY DEF SessionInit, ExitInv, StopsOnlyOnExit, HasExit
<1> QED BY <1>1, EchoInvInit, EchoStep, ExitStep, PTL DEF SessionSpec, ExitInv

-----------------------------------------------------------------------------
(***************************************************************************)
(* "exit" is the last message of its client, so the client whose "exit"    *)
(* stopped the endpoint has no other on its stream.                        *)
(***************************************************************************)
ExitLast(q) == \A i \in 1..(Len(q) - 1) : q[i] # Exit

OnceInv ==
    /\ \A c \in Clients : ExitLast(up[c])
    /\ endpoint # "listening" => \E d \in Clients : LeftByExit(d) /\ ~HasExit(up[d])

LEMMA LastQueued ==
    ASSUME NEW q \in Seq(Nat)
    PROVE  /\ \A m \in Nat : ~HasExit(q) => ExitLast(Append(q, m))
           /\ q # <<>> /\ ExitLast(q) => ExitLast(Tail(q))
           /\ q # <<>> /\ ExitLast(q) /\ Head(q) = Exit => ~HasExit(Tail(q))
<1>1. ASSUME NEW m \in Nat, ~HasExit(q)
      PROVE  ExitLast(Append(q, m))
  <2> DEFINE r == Append(q, m)
  <2>1. Len(r) - 1 = Len(q) /\ \A i \in 1..Len(q) : r[i] = q[i]
    OBVIOUS
  <2> HIDE DEF r
  <2>2. ExitLast(r)
    BY <1>1, <2>1 DEF HasExit, ExitLast
  <2> QED BY <2>2 DEF r
<1>2. ASSUME q # <<>>, ExitLast(q)
      PROVE  ExitLast(Tail(q)) /\ (Head(q) = Exit => ~HasExit(Tail(q)))
  <2> DEFINE t == Tail(q)
  <2>1. /\ Len(q) \in Nat /\ Len(q) >= 1 /\ Len(t) = Len(q) - 1 /\ Head(q) = q[1]
        /\ \A i \in 1..(Len(q) - 1) : t[i] = q[i + 1]
    BY <1>2
  <2> HIDE DEF t
  <2>2. ASSUME NEW i \in 1..(Len(t) - 1)
        PROVE  t[i] # Exit
    <3>1. i \in 1..(Len(q) - 1) /\ i + 1 \in 1..(Len(q) - 1)
      BY <2>1
    <3> QED BY <1>2, <2>1, <3>1 DEF ExitLast
  <2>3. ExitLast(t)
    BY <2>2 DEF ExitLast
  <2>4. ASSUME Head(q) = Exit
        PROVE  ~HasExit(t)
    <3>1. ~(1 \in 1..(Len(q) - 1))
      BY <1>2, <2>1, <2>4 DEF ExitLast
    <3>2. Len(t) = 0
      BY <2>1, <3>1
    <3> QED BY <3>2 DEF HasExit
  <2> QED BY <2>3, <2>4 DEF t
<1> QED BY <1>1, <1>2

(***************************************************************************)
(* What a step does to the streams to the server: nothing, or a client in  *)
(* its loop appends a message, or the server takes one.                    *)
(***************************************************************************)
LEMMA ExitMoves ==
    ASSUME EchoInv, [SessionNext]_allVars
    PROVE  \/ /\ UNCHANGED <<up, endpoint>>
              /\ \A d \in Clients : LeftByExit(d) => LeftByExit(d)'
           \/ \E c \in Clients, m \in Nat :
                 /\ ~LeftByExit(c) /\ up' = [up EXCEPT ![c] = Append(up[c], m)] /\ UNCHANGED endpoint
                 /\ \A d \in Clients : LeftByExit(d) => LeftByExit(d)'
           \/ \E c \in Clients : ServerOnMessage(c)
<1> DEFINE Stays == /\ UNCHANGED <<up, endpoint>>
                    /\ \A d \in Clients : LeftByExit(d) => LeftByExit(d)'
           Adds(c, m) == /\ ~LeftByExit(c) /\ up' = [up EXCEPT ![c] = Append(up[c], m)]
                         /\ UNCHANGED endpoint
                         /\ \A d \in Clients : LeftByExit(d) => LeftByExit(d)'
<1>1. Server \notin Clients /\ Nodes = Clients \cup {Server}
  BY ConstantsAssumption DEF Nodes
<1>2. DOMAIN prog = Nodes /\ DOMAIN up = Clients /\ \A c \in Clients : up[c] \in Seq(Nat) /\ sent[c] \in Nat
  BY DEF EchoInv
<1>3. ASSUME UNCHANGED prog
      PROVE  \A d \in Clients : LeftByExit(d) => LeftByExit(d)'
  BY <1>3 DEF LeftByExit
<1>4. ASSUME NEW n \in Nodes, NEW p \in {"exit", "quit", "dtor"}, prog' = [prog EXCEPT ![n] = p],
             n \in Clients /\ LeftByExit(n) => p = "quit"
      PROVE  \A d \in Clients : LeftByExit(d) => LeftByExit(d)'
  BY <1>1, <1>2, <1>4 DEF LeftByExit
<1>5. ASSUME NEW c \in Clients, ClientInput(c)
      PROVE  Stays \/ \E m \in Nat : Adds(c, m)
  <2>1. prog[c] = "work" /\ c \in Nodes /\ ~LeftByExit(c)
    BY <1>1, <1>5 DEF ClientInput, ClientTypes, ClientExit, ClientEof, InInputLoop, LeftByExit
  <2>2. [up EXCEPT ![c] = up[c]] = up
    BY DEF EchoInv
  <2>3. CASE ClientEof(c)
    BY <1>4, <2>1, <2>3 DEF ClientEof
  <2>4. CASE ClientTypes(c)
    <3>1. sent[c] + 1 \in Nat
      BY <1>2
    <3>2. /\ up' = [up EXCEPT ![c] = Append(up[c], sent[c] + 1)] \/ up' = [up EXCEPT ![c] = up[c]]
          /\ UNCHANGED <<prog, endpoint>>
      BY <2>4 DEF ClientTypes, client_send
    <3> QED BY <1>3, <2>1, <2>2, <3>1, <3>2
  <2>5. CASE ClientExit(c)
    <3>1. Exit \in Nat
      BY DEF Exit
    <3>2. /\ up' = [up EXCEPT ![c] = Append(up[c], Exit)] \/ up' = [up EXCEPT ![c] = up[c]]
          /\ prog' = [prog EXCEPT ![c] = "exit"] /\ UNCHANGED endpoint
      BY <2>5 DEF ClientExit, client_send
    <3>3. \A d \in Clients : LeftByExit(d) => LeftByExit(d)'
      BY <1>4, <2>1, <3>2
    <3> QED BY <2>1, <2>2, <3>1, <3>2, <3>3
  <2> QED BY <1>5, <2>3, <2>4, <2>5 DEF ClientInput
<1>6. ASSUME NEW n \in Nodes, Quit(n) \/ Returns(n)
      PROVE  Stays
  BY <1>3, <1>4, <1>6 DEF Quit, Returns, sessionVars
<1>7. ASSUME UNCHANGED sessionVars
      PROVE  Stays
  BY <1>3, <1>7 DEF sessionVars
<1>8. ASSUME NEW c \in Clients, ClientCallback(c)
      PROVE  Stays
  BY <1>3, <1>7, <1>8 DEF ClientCallback, ClientOnMessage, DanglingCallback
<1>9. ASSUME ServerReturnsFromRun
      PROVE  Stays
  BY <1>1, <1>4, <1>9 DEF ServerReturnsFromRun
<1> HIDE DEF Stays, Adds
<1> SUFFICES \/ Stays
             \/ \E c \in Clients, m \in Nat : Adds(c, m)
             \/ \E c \in Clients : ServerOnMessage(c)
  BY DEF Stays, Adds
<1>10. ASSUME NEW c \in Clients, ClientHandshake(c) \/ ClientRefused(c) \/ ServerHandshake(c)
                                  \/ ReleaseConnection(c)
       PROVE  Stays
  BY <1>7, <1>10 DEF ClientHandshake, ClientRefused, ServerHandshake, ReleaseConnection
<1>11. ASSUME NEW c \in Clients, ClientLeaves(c)
       PROVE  Stays
  BY <1>1, <1>6, <1>10, <1>11 DEF ClientLeaves
<1>12. CASE ServerLeaves
  BY <1>1, <1>6, <1>9, <1>12 DEF ServerLeaves
<1>13. CASE ServerCallback
  BY <1>7, <1>13 DEF ServerCallback
<1>14. CASE UNCHANGED allVars
  BY <1>7, <1>14 DEF allVars
<1>15. CASE \E n \in Nodes : Kill(n) /\ UNCHANGED sessionVars
  BY <1>7, <1>15
<1>16. ASSUME NEW c \in Clients,
              \/ ClientConnect(c) /\ UNCHANGED sessionVars
              \/ ClientHandshake(c)
              \/ ClientRefused(c)
              \/ ClientCallback(c)
              \/ ClientInput(c)
              \/ ClientLeaves(c)
              \/ ServerHandshake(c)
       PROVE  Stays \/ \E m \in Nat : Adds(c, m)
  BY <1>5, <1>7, <1>8, <1>10, <1>11, <1>16
<1> QED BY <1>12, <1>13, <1>14, <1>15, <1>16 DEF SessionNext

LEMMA OnceStep == EchoInv /\ ExitInv /\ OnceInv /\ [SessionNext]_allVars => OnceInv'
<1> SUFFICES ASSUME EchoInv, ExitInv, OnceInv, [SessionNext]_allVars
             PROVE  OnceInv'
  OBVIOUS
<1>1. DOMAIN up = Clients /\ \A c \in Clients : up[c] \in Seq(Nat)
  BY DEF EchoInv
<1>2. CASE /\ UNCHANGED <<up, endpoint>>
           /\ \A d \in Clients : LeftByExit(d) => LeftByExit(d)'
  <2>1. \A c \in Clients : ExitLast(up'[c])
    BY <1>2 DEF OnceInv
  <2>2. endpoint' # "listening" => \E d \in Clients : LeftByExit(d)' /\ ~HasExit(up'[d])
    BY Zenon, <1>2 DEF OnceInv
  <2> QED BY <2>1, <2>2 DEF OnceInv
<1>3. ASSUME NEW c \in Clients, NEW m \in Nat, ~LeftByExit(c), UNCHANGED endpoint,
             up' = [up EXCEPT ![c] = Append(up[c], m)],
             \A d \in Clients : LeftByExit(d) => LeftByExit(d)'
      PROVE  OnceInv'
  <2>1. up'[c] = Append(up[c], m) /\ \A d \in Clients \ {c} : up'[d] = up[d]
    BY <1>1, <1>3
  <2>2. ExitLast(up'[c])
    BY <1>1, <1>3, <2>1, LastQueued DEF ExitInv
  <2>3. \A d \in Clients : ExitLast(up'[d])
    BY Zenon, <2>1, <2>2 DEF OnceInv
  <2>4. endpoint' # "listening" => \E d \in Clients : LeftByExit(d)' /\ ~HasExit(up'[d])
    <3>1. SUFFICES ASSUME endpoint # "listening"
                   PROVE  \E d \in Clients : LeftByExit(d)' /\ ~HasExit(up'[d])
      BY <1>3
    <3>2. PICK d \in Clients : LeftByExit(d) /\ ~HasExit(up[d])
      BY <3>1 DEF OnceInv
    <3>3. d # c
      BY <1>3, <3>2
    <3>4. up'[d] = up[d]
      BY <2>1, <3>3
    <3> QED BY Zenon, <1>3, <3>2, <3>4
  <2> QED BY <2>3, <2>4 DEF OnceInv
<1>4. ASSUME NEW c \in Clients, ServerOnMessage(c)
      PROVE  OnceInv'
  <2>1. /\ up[c] # <<>> /\ up' = [up EXCEPT ![c] = Tail(up[c])] /\ UNCHANGED prog
        /\ Head(up[c]) # Exit => UNCHANGED endpoint
    BY <1>4 DEF ServerOnMessage
  <2>2. up'[c] = Tail(up[c]) /\ \A d \in Clients \ {c} : up'[d] = up[d]
    BY <1>1, <2>1
  <2>3. ExitLast(up'[c]) /\ (Head(up[c]) = Exit => ~HasExit(up'[c]))
    BY <1>1, <2>1, <2>2, LastQueued DEF OnceInv
  <2>4. \A d \in Clients : ExitLast(up'[d])
    BY Zenon, <2>2, <2>3 DEF OnceInv
  <2>5. \A d \in Clients : LeftByExit(d)' <=> LeftByExit(d)
    BY <2>1 DEF LeftByExit
  <2>6. HasExit(up'[c]) => HasExit(up[c])
    BY <1>1, <2>1, <2>2, ExitQueued
  <2>7. CASE Head(up[c]) = Exit
    <3>1. HasExit(up[c])
      BY <1>1, <2>1, <2>7, ExitQueued
    <3>2. LeftByExit(c)' /\ ~HasExit(up'[c])
      BY <2>3, <2>5, <2>7, <3>1 DEF ExitInv
    <3> QED BY <2>4, <3>2 DEF OnceInv
  <2>8. CASE Head(up[c]) # Exit
    <3>1. \A d \in Clients : ~HasExit(up[d]) => ~HasExit(up'[d])
      BY Zenon, <2>2, <2>6
    <3>2. endpoint' # "listening" => \E d \in Clients : LeftByExit(d)' /\ ~HasExit(up'[d])
      BY Zenon, <2>1, <2>5, <2>8, <3>1 DEF OnceInv
    <3> QED BY <2>4, <3>2 DEF OnceInv
  <2> QED BY <2>7, <2>8
<1> QED BY <1>2, <1>3, <1>4, ExitMoves

LEMMA ExitHandled ==
    ASSUME EchoInv, OnceInv, [SessionNext]_allVars, NEW c \in Clients,
           Len(up'[c]) < Len(up[c]), Head(up[c]) = Exit
    PROVE  Up(Server)' \/ \E d \in Clients \ {c} : prog[d] \in {"exit", "quit"}
<1>1. DOMAIN up = Clients /\ \A d \in Clients : up[d] \in Seq(Nat)
  BY DEF EchoInv
<1>2. ASSUME NEW d \in Clients, NEW m \in Nat, up' = [up EXCEPT ![d] = Append(up[d], m)]
      PROVE  FALSE
  <2>1. up'[c] = up[c] \/ up'[c] = Append(up[c], m)
    BY <1>1, <1>2
  <2>2. Len(Append(up[c], m)) = Len(up[c]) + 1 /\ Len(up[c]) \in Nat
    BY <1>1
  <2> QED BY <2>1, <2>2
<1>3. ~UNCHANGED up
  <2>1. Len(up[c]) \in Nat
    BY <1>1
  <2> QED BY <2>1
<1>4. PICK d \in Clients : ServerOnMessage(d)
  BY <1>2, <1>3, ExitMoves
<1>5. up[d] # <<>> /\ up' = [up EXCEPT ![d] = Tail(up[d])]
  BY <1>4 DEF ServerOnMessage
<1>6. d = c
  <2>1. d # c => up'[c] = up[c]
    BY <1>1, <1>5
  <2>2. Len(up[c]) \in Nat
    BY <1>1
  <2> QED BY <2>1, <2>2
<1>7. Up(Server) /\ stop_listening
  BY <1>4, <1>6 DEF ServerOnMessage
<1>8. CASE endpoint = "listening"
  BY <1>7, <1>8 DEF stop_listening, Up
<1>9. CASE endpoint # "listening"
  <2>1. PICK e \in Clients : LeftByExit(e) /\ ~HasExit(up[e])
    BY <1>9 DEF OnceInv
  <2>2. HasExit(up[c])
    BY <1>1, <1>5, <1>6, ExitQueued
  <2>3. e # c
    BY <2>1, <2>2
  <2> QED BY <2>1, <2>3 DEF LeftByExit
<1> QED BY <1>8, <1>9

(***************************************************************************)
(* One "exit" never ends the server by an exception: it takes a second, of *)
(* another client, for stop_listening() to throw (server.cpp:44).          *)
(***************************************************************************)
THEOREM FirstExitIsClean == SessionSpec => ExitStopsCleanly
<1>1. SessionInit => ExitInv /\ OnceInv
  BY DEF SessionInit, ExitInv, StopsOnlyOnExit, HasExit, OnceInv, ExitLast
<1>2. EchoInv /\ OnceInv /\ [SessionNext]_allVars =>
         [\A c \in Clients :
             Len(up'[c]) < Len(up[c]) /\ Head(up[c]) = Exit
             => Up(Server)' \/ \E d \in Clients \ {c} : prog[d] \in {"exit", "quit"}]_allVars
  BY ExitHandled
<1> QED BY <1>1, <1>2, EchoInvInit, EchoStep, ExitStep, OnceStep, PTL
        DEF SessionSpec, ExitStopsCleanly
=============================================================================
