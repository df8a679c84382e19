--------------------------- MODULE Ieee1451Proofs ---------------------------
(***************************************************************************)
(* A transducer module and its network node, for every sequence of initial *)
(* numbers, every list of TEDS and every behaviour of the network: what    *)
(* the owner of a socket is given (DeliversInOrder), the types, which TEDS *)
(* a retriever takes for the one it has asked for (TedsAsAsked), and that  *)
(* a connected TIM has a peer (EstablishedHasPeer).                        *)
(***************************************************************************)
EXTENDS Ieee1451, SequenceLemmas

-----------------------------------------------------------------------------
(* The inductive invariant                                                 *)

(* L is the log of the messages sent, G what the sockets have given.       *)
Entry(m)   == [seq |-> m.seq, data |-> m.data]
DataOf(L)  == {Null} \cup {d.data : d \in L}

(* A segment under way to a node carries a message of the log or none.     *)
(* Its SYN stands at an initial number, and none but an answer reaches the *)
(* TIM.                                                                    *)
Under(node, G, L) ==
    {m \in [seq : Nat, ack : Int, flags : SUBSET Flags, data : DataOf(L)] :
        /\ m.data # Null => Entry(m) \in L
        /\ "syn" \in m.flags =>
             /\ m.seq \in {Isns[k] : k \in DOMAIN G}
             /\ node = "tim" => "ack" \in m.flags}

TcpSockets == [state : States, snd_ini : Nat, snd_nxt : Nat, rcv_ini : Nat, rcv_nxt : Nat]

(* What a socket expects next follows what it has given; before it has     *)
(* given anything, it follows an initial number.                           *)
Follows(s, had, G) ==
    /\ s.state \in {"SYN_SENT", "SYN_RCVD"} => had = << >>
    /\ s.state \in {"SYN_RCVD", "ESTABLISHED"} /\ had = << >> =>
         s.rcv_nxt - 1 \in {Isns[k] : k \in DOMAIN G}
    /\ s.state = "ESTABLISHED" /\ had # << >> => s.rcv_nxt = had[Len(had)].seq + 1

SocketOf(s, n, G) ==
    /\ s \in TcpSockets
    /\ n \in DOMAIN G
    /\ s.snd_ini = Isns[n]
    /\ Follows(s, G[n], G)

(* A message that is given, and the one before.                            *)
InOrder(G) ==
    \A n \in DOMAIN G : \A i \in DOMAIN G[n] :
        /\ G[n][i].seq = G[n][1].seq + i - 1
        /\ G[n][1].seq - 1 \in {Isns[k] : k \in DOMAIN G}

Histories(G, L) ==
    /\ L \subseteq [seq : Nat, data : DataOf(L)]
    /\ G \in Seq(Seq(L))
    /\ Len(G) <= Len(Isns)
    /\ InOrder(G)

NetOK(segments, G, L) ==
    /\ segments = [node \in Nodes |-> segments[node]]
    /\ \A node \in Nodes : segments[node] \in Seq(Under(node, G, L))

(* The NCAP; what it has sent are messages and no SYN.                     *)
Replies(D) == [seq : Nat, ack : Int, flags : SUBSET (Flags \ {"syn"}), data : D]

HasNcapFields(N) ==
    N = [f \in {"clones", "retrievers", "cache", "nextId", "out"} |-> N[f]]

IsNcap(N) ==
    /\ HasNcapFields(N)
    /\ N.clones \in Seq(TcpSockets)
    /\ \E D : N.out \in Seq(Replies(D))

(* Each socket of the NCAP has a number of its own.                        *)
ClonesOK(clones, G) ==
    /\ \A i \in DOMAIN clones :
         /\ \E n \in DOMAIN G : SocketOf(clones[i], n, G)
         /\ clones[i].state # "SYN_SENT"
    /\ \A i, j \in DOMAIN clones : clones[i].snd_ini = clones[j].snd_ini => i = j

(* And so has the TIM's.                                                   *)
HasSocket(c, clones, G) ==
    /\ \E n \in DOMAIN G : SocketOf(c, n, G)
    /\ \A i \in DOMAIN clones : clones[i].snd_ini # c.snd_ini

(* The sockets that still have to handle the segment m.                    *)
TurnsOK(isns, m, clones, G, L) ==
    /\ isns \in Seq(Nat)
    /\ isns # << >> => m \in Under("ncap", G, L)
    /\ \A k \in DOMAIN isns : \E i \in DOMAIN clones : clones[i].snd_ini = isns[k]
    /\ IsInjective(isns)

(* A segment whose header is made, and a FIN.                              *)
Headed(m) == m \in [seq : Nat, ack : Int, flags : {{"ack"}}, data : {m.data}]

IsFin(m) == m \in [seq : Nat, ack : Int, flags : {{"fin", "ack"}}, data : {Null}]

SendingOK ==
    /\ pc = "sending" => Headed(header)
    /\ pc = "finishing" => IsFin(header)
    /\ asking # Null => Headed(asking.segment)

(* The thread is in disconnect(), and where it uses its socket.            *)
InClose == {"finishing", "finished", "open", "halfOpen", "disconnecting"}

Holding ==
    \/ pc \in {"connecting", "connected", "suspended", "reconnecting", "reconnected", "sending"}
    \/ pc \in InClose
    \/ pc \in {"loop", "collected"} /\ mode.polling
    \/ pc = "loop" /\ Streams

ClientOK(c, held, clones, G) == (c = Null /\ ~held) \/ HasSocket(c, clones, G)

ModeOK ==
    /\ mode \in [tim_im : BOOLEAN, polling : BOOLEAN]
    /\ pc \in InClose \cup {"collect"} => ~mode.polling

DeliveryInv ==
    /\ Histories(got, log)
    /\ NetOK(net, got, log)
    /\ IsNcap(ncap)
    /\ ClonesOK(ncap.clones, got)
    /\ ClientOK(client, Holding, ncap.clones, got)
    /\ TurnsOK(turns, handled, ncap.clones, got, log)
    /\ SendingOK
    /\ ModeOK

-----------------------------------------------------------------------------
(* Sequences and histories that grow                                       *)

(* More messages in the log and more numbers drawn leave what is under way *)
(* as it was.                                                              *)
LEMMA UnderGrows ==
  ASSUME NEW node, NEW G, NEW H, NEW L, NEW K,
         DOMAIN G \subseteq DOMAIN H, L \subseteq K
  PROVE  Under(node, G, L) \subseteq Under(node, H, K)
<1>1. DataOf(L) \subseteq DataOf(K)
  BY DEF DataOf
<1>2. QED
  BY <1>1 DEF Under

(* The k-th number drawn is the k-th of Isns.                              *)
LEMMA DrawnIsn ==
  ASSUME NEW n \in DOMAIN Isns
  PROVE  Drawn(Isns[n]) = n
<1>1. \A k \in DOMAIN Isns : Isns[k] = Isns[n] => k = n
  BY IeeeAssumption DEF IeeeAssumption, IsInjective
<1>2. QED
  BY <1>1 DEF Drawn

(* A number drawn is a natural number, and differs from the other ones.    *)
LEMMA IsnsApart ==
  ASSUME NEW G, NEW L, Histories(G, L)
  PROVE  /\ DOMAIN G = 1..Len(G) /\ Len(G) \in Nat
         /\ DOMAIN G \subseteq DOMAIN Isns
         /\ DOMAIN Isns = 1..Len(Isns) /\ Len(Isns) \in Nat
         /\ \A n \in DOMAIN Isns : Isns[n] \in Nat
         /\ \A m, n \in DOMAIN Isns : Isns[m] = Isns[n] => m = n
<1>1. Isns \in Seq(Nat) /\ \A m, n \in DOMAIN Isns : Isns[m] = Isns[n] => m = n
  BY IeeeAssumption DEF IeeeAssumption, IsInjective
<1>2. G \in Seq(Seq(L)) /\ Len(G) <= Len(Isns)
  BY DEF Histories
<1>3. QED
  BY <1>1, <1>2

(* A longer log changes nothing in the histories.                          *)
LEMMA LogGrows ==
  ASSUME NEW G, NEW L, NEW K, Histories(G, L),
         L \subseteq K, K \subseteq [seq : Nat, data : DataOf(K)]
  PROVE  Histories(G, K)
<1>1. Seq(L) \subseteq Seq(K)
  BY SeqMonotonic
<1>2. G \in Seq(Seq(K))
  BY <1>1, SeqMonotonic DEF Histories
<1>3. QED
  BY <1>2 DEF Histories

(* What is said of a socket stays true while it is given nothing.          *)
LEMMA SocketStays ==
  ASSUME NEW s, NEW n, NEW G, NEW H, SocketOf(s, n, G),
         DOMAIN G \subseteq DOMAIN H, H[n] = G[n]
  PROVE  SocketOf(s, n, H)
BY DEF SocketOf, Follows

(* One more number is drawn, and nothing is given yet.                     *)
LEMMA OneMoreDrawn ==
  ASSUME NEW G, NEW L, Histories(G, L), Len(G) < Len(Isns)
  PROVE  LET H == Append(G, << >>)
         IN /\ Histories(H, L)
            /\ DOMAIN G \subseteq DOMAIN H
            /\ Len(G) + 1 \in DOMAIN H /\ Len(G) + 1 \notin DOMAIN G
            /\ Len(G) + 1 \in DOMAIN Isns
            /\ H[Len(G) + 1] = << >>
            /\ \A n \in DOMAIN G : H[n] = G[n]
<1> DEFINE H == Append(G, << >>)
<1>1. G \in Seq(Seq(L)) /\ << >> \in Seq(L)
  BY DEF Histories
<1>2. /\ H \in Seq(Seq(L)) /\ Len(H) = Len(G) + 1
      /\ \A n \in 1..Len(G) : H[n] = G[n]
      /\ H[Len(G) + 1] = << >>
  BY <1>1, AppendProperties
<1>3. /\ DOMAIN G = 1..Len(G) /\ Len(G) \in Nat
      /\ DOMAIN Isns = 1..Len(Isns) /\ Len(Isns) \in Nat
  BY IsnsApart
<1>4. DOMAIN H = 1..Len(H)
  BY <1>2
<1> HIDE DEF H
<1>5. /\ DOMAIN G \subseteq DOMAIN H
      /\ Len(G) + 1 \in DOMAIN H /\ Len(G) + 1 \notin DOMAIN G
      /\ Len(G) + 1 \in DOMAIN Isns
  BY <1>2, <1>3, <1>4
<1>6. InOrder(H)
  <2>1. SUFFICES ASSUME NEW n \in DOMAIN H, NEW i \in DOMAIN H[n]
                 PROVE  /\ H[n][i].seq = H[n][1].seq + i - 1
                        /\ H[n][1].seq - 1 \in {Isns[k] : k \in DOMAIN H}
    BY DEF InOrder
  <2>2. DOMAIN << >> = {}
    OBVIOUS
  <2>3. n \in DOMAIN G /\ H[n] = G[n]
    BY <1>2, <1>3, <1>4, <2>2
  <2>4. QED
    BY <2>3, <1>5 DEF Histories, InOrder
<1>7. Histories(H, L)
  BY <1>2, <1>6, <1>3 DEF Histories
<1>8. QED
  BY <1>2, <1>3, <1>5, <1>7 DEF H

Extended(G, n, e) == [G EXCEPT ![n] = Append(@, e)]

(* One more message is given, the next one or the first of a connection.   *)
LEMMA OneMoreGiven ==
  ASSUME NEW G, NEW L, Histories(G, L), NEW n \in DOMAIN G, NEW e \in L,
         G[n] = << >> => e.seq - 1 \in {Isns[k] : k \in DOMAIN G},
         G[n] # << >> => e.seq = G[n][Len(G[n])].seq + 1
  PROVE  /\ Histories(Extended(G, n, e), L)
         /\ DOMAIN Extended(G, n, e) = DOMAIN G
         /\ Extended(G, n, e)[n] # << >>
         /\ Extended(G, n, e)[n][Len(Extended(G, n, e)[n])] = e
         /\ \A k \in DOMAIN G : k # n => Extended(G, n, e)[k] = G[k]
<1> DEFINE g == G[n]
           a == Append(g, e)
           H == Extended(G, n, e)
<1>1. /\ G \in Seq(Seq(L)) /\ Len(G) \in Nat /\ DOMAIN G = 1..Len(G)
      /\ g \in Seq(L) /\ Len(g) \in Nat /\ DOMAIN g = 1..Len(g)
      /\ \A i \in DOMAIN g : g[i] \in L
  BY SMTT(20) DEF Histories
<1>2. /\ g = << >> => e.seq - 1 \in {Isns[k] : k \in DOMAIN G}
      /\ g # << >> => e.seq = g[Len(g)].seq + 1
  OBVIOUS
<1> HIDE DEF g
<1>3. /\ a \in Seq(L) /\ a # << >>
      /\ Len(a) = Len(g) + 1
      /\ DOMAIN a = 1..Len(g) + 1
      /\ \A i \in 1..Len(g) : a[i] = g[i]
      /\ a[Len(g) + 1] = e
  <2>1. /\ a \in Seq(L) /\ a # << >> /\ Len(a) = Len(g) + 1
        /\ \A i \in 1..Len(g) : a[i] = g[i]
        /\ a[Len(g) + 1] = e
    <3>1. g \in Seq(L) /\ e \in L
      BY <1>1
    <3>2. QED
      BY ONLY <3>1, AppendProperties
  <2>2. DOMAIN a = 1..Len(a)
    BY <2>1, LenProperties
  <2>3. QED
    BY <2>1, <2>2
<1> HIDE DEF a
<1>4. /\ H \in Seq(Seq(L)) /\ Len(H) = Len(G) /\ DOMAIN H = DOMAIN G
      /\ H[n] = a
      /\ \A k \in DOMAIN G : k # n => H[k] = G[k]
  <2>1. H = [G EXCEPT ![n] = a]
    BY DEF a, g, Extended
  <2> HIDE DEF H
  <2>2. G \in Seq(Seq(L)) /\ n \in 1..Len(G) /\ a \in Seq(L)
    BY <1>1, <1>3
  <2>3. /\ [G EXCEPT ![n] = a] \in Seq(Seq(L))
        /\ Len([G EXCEPT ![n] = a]) = Len(G)
        /\ \A k \in 1..Len(G) : [G EXCEPT ![n] = a][k] = IF k = n THEN a ELSE G[k]
    BY ONLY <2>2, ExceptSeq
  <2>4. DOMAIN H = DOMAIN G
    BY <2>1, <2>2, <2>3, LenProperties
  <2>5. H[n] = a /\ \A k \in DOMAIN G : k # n => H[k] = G[k]
    BY <2>1, <2>2, <2>3, <1>1
  <2>6. QED
    BY <2>1, <2>3, <2>4, <2>5
<1> HIDE DEF H
<1>5. \A i \in DOMAIN g : /\ g[i].seq = g[1].seq + i - 1
                          /\ g[1].seq - 1 \in {Isns[k] : k \in DOMAIN G}
  BY DEF Histories, InOrder, g
<1>6. \A i \in DOMAIN g : g[i].seq \in Nat
  BY <1>1 DEF Histories
<1>7. e.seq \in Nat
  BY DEF Histories
<1>8. ASSUME NEW i \in 1..Len(g) + 1
      PROVE  /\ a[i].seq = a[1].seq + i - 1
             /\ a[1].seq - 1 \in {Isns[k] : k \in DOMAIN G}
  <2>1. CASE g = << >>
    BY <2>1, <1>1, <1>3, <1>7, <1>2, SMTT(20)
  <2>2. CASE g # << >>
    <3>1. Len(g) \in 1..Len(g) /\ 1 \in 1..Len(g)
      BY <2>2, <1>1
    <3>2. a[1] = g[1] /\ g[Len(g)].seq = g[1].seq + Len(g) - 1
      BY <3>1, <1>1, <1>3, <1>5
    <3>3. CASE i \in 1..Len(g)
      BY <3>1, <3>2, <3>3, <1>1, <1>3, <1>5
    <3>4. CASE i = Len(g) + 1
      <4>1. a[i].seq = g[Len(g)].seq + 1
        <5>1. a[i] = e
          BY <3>4, <1>3
        <5>2. QED
          BY <5>1, <2>2, <1>2
      <4>2. g[1].seq \in Nat /\ g[1].seq - 1 \in {Isns[k] : k \in DOMAIN G}
        <5>1. 1 \in DOMAIN g
          BY <3>1, <1>1
        <5>2. QED
          BY <5>1, <1>5, <1>6
      <4>3. a[i].seq = a[1].seq + i - 1
        <5>1. a[1].seq = g[1].seq /\ Len(g) \in Nat
          BY <3>2, <1>1
        <5>2. a[i].seq = g[1].seq + Len(g) - 1 + 1
          BY <4>1, <3>2
        <5>3. QED
          BY ONLY <5>1, <5>2, <4>2, <3>4
      <4>4. QED
        BY <4>2, <4>3, <3>2
    <3>5. QED
      BY <3>3, <3>4, <1>1
  <2>3. QED
    BY <2>1, <2>2
<1>9. InOrder(H)
  <2>1. SUFFICES ASSUME NEW k \in DOMAIN H, NEW i \in DOMAIN H[k]
                 PROVE  /\ H[k][i].seq = H[k][1].seq + i - 1
                        /\ H[k][1].seq - 1 \in {Isns[j] : j \in DOMAIN H}
    BY DEF InOrder
  <2>2. CASE k = n
    BY <2>2, <1>3, <1>4, <1>8
  <2>3. CASE k # n
    <3>1. k \in DOMAIN G /\ H[k] = G[k] /\ i \in DOMAIN G[k]
      BY <2>3, <1>4
    <3>2. QED
      BY <3>1, <1>4 DEF Histories, InOrder
  <2>4. QED
    BY <2>2, <2>3
<1>10. Histories(H, L)
  BY <1>4, <1>9 DEF Histories
<1>11. QED
  BY <1>1, <1>3, <1>4, <1>10 DEF H

-----------------------------------------------------------------------------
(* What a handler makes of a segment                                       *)

Controls == Replies({Null})

(* o is what a socket s has made of m: it stays itself and sends neither a *)
(* SYN nor data; it gives its owner the message that is due, and no other; *)
(* once established, it expects what follows.                              *)
HandledOK(s, m, o) ==
    /\ o.socket \in TcpSockets /\ o.socket.snd_ini = s.snd_ini
    /\ o.sent \in Seq(Controls)
    /\ o.socket.state = "SYN_SENT" => s.state = "SYN_SENT"
    /\ o.socket.state = "SYN_RCVD" => s.state = "SYN_RCVD" /\ o.socket.rcv_nxt = s.rcv_nxt
    /\ "received" \in o.calls =>
         /\ s.state = "ESTABLISHED" /\ m.seq = s.rcv_nxt /\ m.data # Null
         /\ o.socket.state \in {"ESTABLISHED", "CLOSE_WAIT"}
         /\ o.socket.state = "ESTABLISHED" => o.socket.rcv_nxt = m.seq + 1
    /\ "received" \notin o.calls /\ o.socket.state = "ESTABLISHED" =>
         \/ s.state \in {"SYN_RCVD", "ESTABLISHED"} /\ o.socket.rcv_nxt = s.rcv_nxt
         \/ s.state = "SYN_SENT" /\ "syn" \in m.flags /\ o.socket.rcv_nxt = m.seq + 1

(* An outcome is what it is made of.                                       *)
LEMMA OutcomeFields ==
  ASSUME NEW s, NEW q, NEW c
  PROVE  /\ Outcome(s, q, c).socket = s
         /\ Outcome(s, q, c).sent = q
         /\ Outcome(s, q, c).calls = c
BY DEF Outcome

(* Acknowledgements and FINs are segments without data and without a SYN.  *)
LEMMA ControlsSent ==
  ASSUME NEW s \in TcpSockets
  PROVE  /\ Ack(s) \in Controls /\ Fin(s) \in Controls
         /\ << >> \in Seq(Controls) /\ <<Ack(s)>> \in Seq(Controls) /\ <<Fin(s)>> \in Seq(Controls)
<1>1. Ack(s) \in Controls /\ Fin(s) \in Controls
  BY DEF Ack, Fin, Segment, Controls, Replies, TcpSockets, Flags
<1>2. QED
  BY <1>1

(* Handle() keeps to HandledOK.  Only the SYN of a socket that connects    *)
(* must come with an acknowledgement.                                      *)
LEMMA HandleOK ==
  ASSUME NEW s \in TcpSockets, NEW D,
         NEW m \in [seq : Nat, ack : Int, flags : SUBSET Flags, data : D],
         s.state = "SYN_SENT" /\ "syn" \in m.flags => "ack" \in m.flags
  PROVE  HandledOK(s, m, Handle(s, m))
<1>1. /\ s.state \in States /\ s.snd_ini \in Nat /\ s.snd_nxt \in Nat
      /\ s.rcv_ini \in Nat /\ s.rcv_nxt \in Nat
      /\ m.seq \in Nat /\ m.ack \in Int /\ m.flags \in SUBSET Flags
      /\ Length(m) \in {0, 1} /\ (m.data # Null => Length(m) = 1)
  BY DEF TcpSockets, Length
<1>2. ASSUME NEW c, "received" \notin c
      PROVE  HandledOK(s, m, Outcome(s, << >>, c))
  <2> DEFINE o == Outcome(s, << >>, c)
  <2>1. o.socket = s /\ o.sent = << >> /\ o.calls = c
    BY OutcomeFields
  <2>2. << >> \in Seq(Controls)
    OBVIOUS
  <2> HIDE DEF o
  <2>3. HandledOK(s, m, o)
    BY <1>2, <2>1, <2>2 DEF HandledOK
  <2>4. QED
    BY <2>3 DEF o
<1>3. HandledOK(s, m, Ignored(s))
  BY <1>2 DEF Ignored
<1>4. ASSUME NEW t \in TcpSockets, t.snd_ini = s.snd_ini,
             t.state \notin {"SYN_SENT", "SYN_RCVD", "ESTABLISHED"},
             NEW q \in Seq(Controls), NEW c, "received" \notin c
      PROVE  HandledOK(s, m, Outcome(t, q, c))
  <2> DEFINE o == Outcome(t, q, c)
  <2>1. o.socket = t /\ o.sent = q /\ o.calls = c
    BY OutcomeFields
  <2> HIDE DEF o
  <2>2. HandledOK(s, m, o)
    BY <1>4, <2>1 DEF HandledOK
  <2>3. QED
    BY <2>2 DEF o
<1>5. ASSUME NEW q \in Seq(Controls)
      PROVE  HandledOK(s, m, Closed(s, q))
  <2>1. /\ [s EXCEPT !.state = "CLOSED"] \in TcpSockets
        /\ [s EXCEPT !.state = "CLOSED"].snd_ini = s.snd_ini
        /\ [s EXCEPT !.state = "CLOSED"].state = "CLOSED"
    BY DEF TcpSockets, States
  <2>2. QED
    BY <2>1, <1>4 DEF Closed
<1>6. << >> \in Seq(Controls) /\ <<Ack(s)>> \in Seq(Controls)
  BY ControlsSent
<1>7. CASE s.state = "SYN_SENT"
  <2> DEFINE heard == [s EXCEPT !.rcv_nxt = m.seq + 1]
             established == [heard EXCEPT !.state = "ESTABLISHED", !.rcv_ini = m.seq]
  <2>1. /\ established \in TcpSockets /\ established.snd_ini = s.snd_ini
        /\ established.state = "ESTABLISHED" /\ established.rcv_nxt = m.seq + 1
    <3>1. heard \in TcpSockets /\ heard.snd_ini = s.snd_ini /\ heard.rcv_nxt = m.seq + 1
      BY <1>1 DEF TcpSockets
    <3> HIDE DEF heard
    <3>2. QED
      BY <3>1, <1>1 DEF TcpSockets, States
  <2> HIDE DEF established, heard
  <2>2. ASSUME "syn" \in m.flags
        PROVE  HandledOK(s, m, Outcome(established, <<Ack(established)>>, {"connected"}))
    <3> DEFINE q == <<Ack(established)>>
               o == Outcome(established, q, {"connected"})
    <3>1. q \in Seq(Controls)
      BY <2>1, ControlsSent
    <3>2. o.socket = established /\ o.sent = q /\ o.calls = {"connected"}
      BY OutcomeFields
    <3> HIDE DEF o, q
    <3>3. HandledOK(s, m, o)
      BY <2>1, <2>2, <3>1, <3>2, <1>7 DEF HandledOK
    <3>4. QED
      BY <3>3 DEF o, q
  <2>3. \/ SynSent(s, m) = Closed(s, << >>)
        \/ "syn" \in m.flags /\ SynSent(s, m) = Outcome(established, <<Ack(established)>>, {"connected"})
        \/ SynSent(s, m) = Ignored(s)
    <3> DEFINE a == Closed(s, << >>)
               b == Outcome(established, <<Ack(established)>>, {"connected"})
               c == Outcome([heard EXCEPT !.state = "SYN_RCVD", !.snd_ini = m.seq], << >>, {})
               d == Ignored(s)
    <3>1. SynSent(s, m) =
            CASE Resets(m) \/ ("ack" \in m.flags /\ ~AcksSyn(s, m)) -> a
              [] ~Resets(m) /\ {"ack", "syn"} \subseteq m.flags /\ AcksSyn(s, m) -> b
              [] ~Resets(m) /\ "ack" \notin m.flags /\ "syn" \in m.flags -> c
              [] OTHER -> d
      BY DEF SynSent, established, heard
    <3> HIDE DEF a, b, c, d
    <3>2. \/ SynSent(s, m) = a
          \/ "syn" \in m.flags /\ SynSent(s, m) = b
          \/ SynSent(s, m) = d
      BY <3>1, <1>7
    <3>3. QED
      BY <3>2 DEF a, b, d
  <2>4. Handle(s, m) = SynSent(s, m)
    BY <1>7 DEF Handle
  <2>5. QED
    BY <2>2, <2>3, <2>4, <1>3, <1>5, <1>6
<1>8. CASE s.state = "CLOSED" \/ (s.state # "SYN_SENT" /\ ~Expected(s, m))
  BY <1>3, <1>8 DEF Handle
<1>9. CASE s.state = "SYN_RCVD" /\ Expected(s, m)
  <2>1. Handle(s, m) = SynRcvd(s, m)
    BY <1>9 DEF Handle
  <2>2. HandledOK(s, m, Outcome([s EXCEPT !.state = "ESTABLISHED"], << >>, {"connected"}))
    <3>1. /\ [s EXCEPT !.state = "ESTABLISHED"] \in TcpSockets
          /\ [s EXCEPT !.state = "ESTABLISHED"].snd_ini = s.snd_ini
          /\ [s EXCEPT !.state = "ESTABLISHED"].rcv_nxt = s.rcv_nxt
          /\ [s EXCEPT !.state = "ESTABLISHED"].state = "ESTABLISHED"
      BY DEF TcpSockets, States
    <3> DEFINE t == [s EXCEPT !.state = "ESTABLISHED"]
               o == Outcome(t, << >>, {"connected"})
    <3>2. o.socket = t /\ o.sent = << >> /\ o.calls = {"connected"}
      BY OutcomeFields
    <3> HIDE DEF t, o
    <3>3. HandledOK(s, m, o)
      BY <3>1, <3>2, <1>6, <1>9 DEF HandledOK, t
    <3>4. QED
      BY <3>3 DEF t, o
  <2>3. \/ SynRcvd(s, m) = Closed(s, << >>)
        \/ SynRcvd(s, m) = Outcome([s EXCEPT !.state = "ESTABLISHED"], << >>, {"connected"})
        \/ SynRcvd(s, m) = Ignored(s)
    BY DEF SynRcvd
  <2>4. QED
    BY <2>1, <2>2, <2>3, <1>3, <1>5, <1>6
<1>10. CASE s.state = "ESTABLISHED" /\ Expected(s, m)
  <2>1. Handle(s, m) = Established(s, m)
    BY <1>10 DEF Handle
  <2> DEFINE taken == [s EXCEPT !.rcv_nxt = @ + Length(m)]
             fin   == "fin" \in m.flags
             t     == IF fin THEN [taken EXCEPT !.state = "CLOSE_WAIT"] ELSE taken
             q     == (IF m.data = Null THEN << >> ELSE <<Ack(s)>>)
                        \o (IF fin THEN <<Ack(taken)>> ELSE << >>)
             c     == (IF m.data = Null THEN {} ELSE {"received"})
                        \cup (IF fin THEN {"closing"} ELSE {})
  <2>2. /\ taken \in TcpSockets /\ taken.snd_ini = s.snd_ini
        /\ taken.rcv_nxt = s.rcv_nxt + Length(m) /\ taken.state = "ESTABLISHED"
    BY <1>1, <1>10 DEF TcpSockets
  <2> HIDE DEF taken
  <2>3. /\ t \in TcpSockets /\ t.snd_ini = s.snd_ini /\ t.rcv_nxt = taken.rcv_nxt
        /\ t.state = IF fin THEN "CLOSE_WAIT" ELSE "ESTABLISHED"
    BY <2>2 DEF TcpSockets, States
  <2>4. q \in Seq(Controls)
    <3>1. <<Ack(taken)>> \in Seq(Controls)
      BY <2>2, ControlsSent
    <3>2. QED
      BY <3>1, <1>6, ConcatProperties
  <2>5. "received" \in c <=> m.data # Null
    OBVIOUS
  <2>6. m.data = Null => Length(m) = 0
    BY DEF Length
  <2> HIDE DEF t, q, c, fin
  <2>7. HandledOK(s, m, Outcome(t, q, c))
    BY <2>2, <2>3, <2>4, <2>5, <2>6, <1>1, <1>10, OutcomeFields DEF HandledOK, Expected
  <2>8. Established(s, m) = IF "rst" \in m.flags THEN Closed(s, << >>) ELSE Outcome(t, q, c)
    BY DEF Established, t, q, c, fin, taken
  <2>9. QED
    BY <2>1, <2>7, <2>8, <1>5, <1>6
<1>11. CASE s.state = "FIN_WAIT1" /\ Expected(s, m)
  <2>1. Handle(s, m) = FinWait1(s, m)
    BY <1>11 DEF Handle
  <2> DEFINE waiting == [s EXCEPT !.state = "FIN_WAIT2", !.rcv_nxt = m.seq + Length(m)]
             closing == [s EXCEPT !.state = "CLOSING"]
  <2>2. /\ waiting \in TcpSockets /\ waiting.snd_ini = s.snd_ini /\ waiting.state = "FIN_WAIT2"
        /\ closing \in TcpSockets /\ closing.snd_ini = s.snd_ini /\ closing.state = "CLOSING"
    <3>1. m.seq + Length(m) \in Nat
      BY <1>1
    <3>2. QED
      BY <3>1 DEF TcpSockets, States
  <2>3. \/ FinWait1(s, m) = Outcome(waiting, <<Ack(waiting)>>, {})
        \/ FinWait1(s, m) = Closed(s, <<Ack(s)>>)
        \/ FinWait1(s, m) = Outcome(closing, <<Ack(s)>>, {})
        \/ FinWait1(s, m) = Ignored(s)
    BY DEF FinWait1
  <2> HIDE DEF waiting, closing
  <2>4. /\ HandledOK(s, m, Outcome(waiting, <<Ack(waiting)>>, {}))
        /\ HandledOK(s, m, Outcome(closing, <<Ack(s)>>, {}))
    <3>1. <<Ack(waiting)>> \in Seq(Controls)
      BY <2>2, ControlsSent
    <3>2. QED
      BY <3>1, <2>2, <1>4, <1>6
  <2>5. QED
    BY <2>1, <2>3, <2>4, <1>3, <1>5, <1>6
<1>12. CASE s.state \in {"FIN_WAIT2", "CLOSE_WAIT", "CLOSING", "LAST_ACK"} /\ Expected(s, m)
  <2>1. Handle(s, m) \in {FinWait2(s, m), CloseWait(s, m), LastAck(s, m)}
    <3>1. CASE s.state = "FIN_WAIT2"
      BY <1>12, <3>1 DEF Handle
    <3>2. CASE s.state = "CLOSE_WAIT"
      BY <1>12, <3>2 DEF Handle
    <3>3. CASE s.state \in {"CLOSING", "LAST_ACK"}
      BY <1>12, <3>3 DEF Handle
    <3>4. QED
      BY <1>12, <3>1, <3>2, <3>3
  <2>2. Handle(s, m) \in {Closed(s, <<Ack(s)>>), Closed(s, << >>), Ignored(s)}
    BY <2>1 DEF FinWait2, CloseWait, LastAck
  <2>3. QED
    BY <2>2, <1>3, <1>5, <1>6
<1>13. QED
  BY <1>1, <1>7, <1>8, <1>9, <1>10, <1>11, <1>12 DEF States

(* What the socket has given so far, with what it gives now.               *)
Giving(G, n, m, o) ==
    IF "received" \in o.calls THEN Extended(G, n, Entry(m)) ELSE G

(* A segment handled: the histories stay in order, and what is said of the *)
(* socket stays true.                                                      *)
LEMMA Handled ==
  ASSUME NEW G, NEW L, Histories(G, L), NEW n \in DOMAIN G,
         NEW s, SocketOf(s, n, G),
         NEW node, NEW m \in Under(node, G, L),
         NEW o, HandledOK(s, m, o)
  PROVE  /\ Histories(Giving(G, n, m, o), L)
         /\ DOMAIN Giving(G, n, m, o) = DOMAIN G
         /\ \A k \in DOMAIN G : k # n => Giving(G, n, m, o)[k] = G[k]
         /\ SocketOf(o.socket, n, Giving(G, n, m, o))
<1> DEFINE t == o.socket
           H == Giving(G, n, m, o)
<1>1. /\ t \in TcpSockets /\ t.snd_ini = Isns[n]
      /\ s \in TcpSockets /\ Follows(s, G[n], G)
  BY DEF HandledOK, SocketOf
<1>2. /\ m.seq \in Nat
      /\ m.data # Null => Entry(m) \in L
      /\ "syn" \in m.flags => m.seq \in {Isns[k] : k \in DOMAIN G}
  BY DEF Under
<1>3. CASE "received" \in o.calls
  <2> DEFINE e == Entry(m)
  <2>1. e \in L /\ e.seq = m.seq /\ s.state = "ESTABLISHED" /\ m.seq = s.rcv_nxt
    BY <1>2, <1>3 DEF HandledOK, Entry
  <2>2. /\ G[n] = << >> => e.seq - 1 \in {Isns[k] : k \in DOMAIN G}
        /\ G[n] # << >> => e.seq = G[n][Len(G[n])].seq + 1
    BY <2>1, <1>1 DEF Follows
  <2>3. H = Extended(G, n, e)
    BY <1>3 DEF Giving
  <2> HIDE DEF e, H
  <2>4. /\ Histories(H, L) /\ DOMAIN H = DOMAIN G
        /\ H[n] # << >> /\ H[n][Len(H[n])] = e
        /\ \A k \in DOMAIN G : k # n => H[k] = G[k]
    BY <2>1, <2>2, <2>3, OneMoreGiven
  <2>5. /\ t.state \in {"ESTABLISHED", "CLOSE_WAIT"}
        /\ t.state = "ESTABLISHED" => t.rcv_nxt = m.seq + 1
    BY <1>3 DEF HandledOK
  <2>6. Follows(t, H[n], H)
    BY <2>1, <2>4, <2>5 DEF Follows
  <2> HIDE DEF t
  <2>7. SocketOf(t, n, H)
    BY <1>1, <2>4, <2>6 DEF SocketOf
  <2>8. QED
    BY <2>4, <2>7 DEF t, H
<1>4. CASE "received" \notin o.calls
  <2>1. H = G
    BY <1>4 DEF Giving
  <2>2. /\ t.state = "SYN_SENT" => s.state = "SYN_SENT"
        /\ t.state = "SYN_RCVD" => s.state = "SYN_RCVD" /\ t.rcv_nxt = s.rcv_nxt
        /\ t.state = "ESTABLISHED" =>
             \/ s.state \in {"SYN_RCVD", "ESTABLISHED"} /\ t.rcv_nxt = s.rcv_nxt
             \/ s.state = "SYN_SENT" /\ "syn" \in m.flags /\ t.rcv_nxt = m.seq + 1
    BY <1>4 DEF HandledOK
  <2> HIDE DEF t, H
  <2>3. Follows(t, G[n], G)
    <3>1. CASE t.state \notin {"SYN_SENT", "SYN_RCVD", "ESTABLISHED"}
      BY <3>1 DEF Follows
    <3>2. CASE t.state = "SYN_SENT"
      BY <3>2, <1>1, <2>2 DEF Follows
    <3>3. CASE t.state = "SYN_RCVD"
      BY <3>3, <1>1, <2>2 DEF Follows
    <3>4. CASE t.state = "ESTABLISHED" /\ s.state \in {"SYN_RCVD", "ESTABLISHED"}
               /\ t.rcv_nxt = s.rcv_nxt
      BY <3>4, <1>1 DEF Follows
    <3>5. CASE t.state = "ESTABLISHED" /\ s.state = "SYN_SENT" /\ "syn" \in m.flags
               /\ t.rcv_nxt = m.seq + 1
      <4>1. t.rcv_nxt - 1 = m.seq
        BY <3>5, <1>2
      <4>2. G[n] = << >> /\ m.seq \in {Isns[k] : k \in DOMAIN G}
        BY <3>5, <1>1, <1>2 DEF Follows
      <4>3. QED
        BY <3>5, <4>1, <4>2 DEF Follows
    <3>6. QED
      BY <3>1, <3>2, <3>3, <3>4, <3>5, <2>2
  <2>4. SocketOf(t, n, G)
    BY <1>1, <2>3 DEF SocketOf
  <2>5. QED
    BY <2>1, <2>4 DEF t, H
<1>5. QED
  BY <1>3, <1>4

(* Given() is Giving() at the place of the socket's initial number.        *)
LEMMA GivenIsGiving ==
  ASSUME NEW n \in DOMAIN got, NEW s, SocketOf(s, n, got), Histories(got, log), NEW m
  PROVE  Given(s, m) = Giving(got, n, m, Handle(s, m))
<1>1. n \in DOMAIN Isns /\ s.snd_ini = Isns[n]
  BY IsnsApart DEF SocketOf
<1>2. Drawn(s.snd_ini) = n
  BY <1>1, DrawnIsn
<1>3. QED
  BY <1>2 DEF Given, Giving, Entry, Extended

-----------------------------------------------------------------------------
(* What the operations of the owner make of a socket                       *)

(* t is s a while later, in the same state or one that it does not leave.  *)
Later(s, t) ==
    /\ t \in TcpSockets
    /\ t.snd_ini = s.snd_ini /\ t.rcv_ini = s.rcv_ini /\ t.rcv_nxt = s.rcv_nxt
    /\ t.state = s.state \/ t.state \notin {"SYN_SENT", "SYN_RCVD", "ESTABLISHED"}

(* t is s when nothing but the next number to send has changed.            *)
Uses(s, t) == Later(s, t) /\ t.state = s.state

(* What is said of a socket stays true when its owner uses it.             *)
LEMMA LaterStays ==
  ASSUME NEW s, NEW n, NEW G, SocketOf(s, n, G), NEW t, Later(s, t)
  PROVE  SocketOf(t, n, G)
<1>1. Follows(t, G[n], G)
  BY DEF SocketOf, Follows, Later
<1>2. QED
  BY <1>1 DEF SocketOf, Later

(* The end of a send(), whatever value of snd_nxt it has read.             *)
LEMMA AdvanceUses ==
  ASSUME NEW s \in TcpSockets, NEW from \in Nat
  PROVE  Uses(s, Advance(s, from))
BY DEF Uses, Later, Advance, TcpSockets

(* close() sends a FIN, and leaves the states that receive.                *)
LEMMA CloseLater ==
  ASSUME NEW s \in TcpSockets
  PROVE  Later(s, Close(s).socket) /\ Close(s).sent \in Seq(Controls)
<1>1. <<Fin(s)>> \in Seq(Controls)
  BY ControlsSent
<1>2. ASSUME NEW x \in {"FIN_WAIT1", "LAST_ACK", "CLOSED"}
      PROVE  Later(s, [s EXCEPT !.state = x])
  BY DEF Later, TcpSockets, States
<1>3. Later(s, s)
  BY DEF Later
<1> DEFINE q == <<Fin(s)>>
           o == Close(s)
<1>4. \/ \E x \in {"FIN_WAIT1", "LAST_ACK", "CLOSED"}, c \in {{}, {"closed"}} :
            o = Outcome([s EXCEPT !.state = x], q, c)
      \/ o = Outcome(s, q, {})
  <2> HIDE DEF q
  <2>1. QED
    BY DEF Close, Closed, q
<1> HIDE DEF q, o
<1>5. CASE o = Outcome(s, q, {})
  <2>1. o.socket = s /\ o.sent = q
    BY <1>5, OutcomeFields
  <2>2. QED
    BY <2>1, <1>1, <1>3 DEF q, o
<1>6. ASSUME NEW x \in {"FIN_WAIT1", "LAST_ACK", "CLOSED"}, NEW c,
             o = Outcome([s EXCEPT !.state = x], q, c)
      PROVE  Later(s, o.socket) /\ o.sent \in Seq(Controls)
  <2> DEFINE t == [s EXCEPT !.state = x]
  <2>1. Later(s, t)
    BY <1>2
  <2> HIDE DEF t
  <2>2. o.socket = t /\ o.sent = q
    BY <1>6, OutcomeFields DEF t
  <2>3. QED
    BY <2>1, <2>2, <1>1 DEF q
<1>7. QED
  BY <1>4, <1>5, <1>6 DEF o

(* A message sent: the socket advances, and the segment has its data.      *)
LEMMA SendUses ==
  ASSUME NEW s \in TcpSockets, NEW data
  PROVE  Uses(s, Send(s, data).socket) /\ Send(s, data).sent \in Seq(Replies({data}))
<1>1. Send(s, data) = Outcome(Advance(s, s.snd_nxt), <<[DataHeader(s) EXCEPT !.data = data]>>, {})
  BY DEF Send
<1>2. s.snd_nxt \in Nat /\ s.rcv_nxt \in Nat
  BY DEF TcpSockets
<1>3. [DataHeader(s) EXCEPT !.data = data] \in Replies({data})
  <2>1. [DataHeader(s) EXCEPT !.data = data] =
           [seq |-> s.snd_nxt, ack |-> s.rcv_nxt - 1, flags |-> {"ack"}, data |-> data]
    BY DEF DataHeader, Segment
  <2>2. QED
    BY <2>1, <1>2 DEF Replies, Flags
<1> DEFINE t == Advance(s, s.snd_nxt)
           q == <<[DataHeader(s) EXCEPT !.data = data]>>
           o == Send(s, data)
<1>4. Uses(s, t) /\ q \in Seq(Replies({data}))
  BY <1>2, <1>3, AdvanceUses
<1> HIDE DEF t, q, o
<1>5. o.socket = t /\ o.sent = q
  BY <1>1, OutcomeFields DEF t, q, o
<1>6. QED
  BY <1>4, <1>5 DEF o

-----------------------------------------------------------------------------
(* What the application of the NCAP does to its sockets                    *)

(* M is N a while later: the same sockets, none of which starts anew.      *)
Leaves(N, M) ==
    /\ IsNcap(M)
    /\ Len(M.clones) = Len(N.clones)
    /\ \A i \in 1..Len(N.clones) : Later(N.clones[i], M.clones[i])

(* M is N after its sockets have sent messages, and no more.               *)
Keeps(N, M) ==
    /\ IsNcap(M)
    /\ Len(M.clones) = Len(N.clones)
    /\ \A i \in 1..Len(N.clones) : Uses(N.clones[i], M.clones[i])

(* Sending is one of the things that leave the sockets what they are.      *)
LEMMA KeepsLeaves ==
  ASSUME NEW N, NEW M, Keeps(N, M)
  PROVE  Leaves(N, M)
BY DEF Keeps, Leaves, Uses

(* Nothing has been done to the sockets.                                   *)
LEMMA KeepsAsItIs ==
  ASSUME NEW N, IsNcap(N), NEW M,
         HasNcapFields(M),
         M.clones = N.clones, M.out = N.out
  PROVE  Keeps(N, M)
<1>1. \A i \in 1..Len(N.clones) : N.clones[i] \in TcpSockets
  BY DEF IsNcap
<1>2. IsNcap(M)
  BY DEF IsNcap
<1>3. QED
  BY <1>1, <1>2 DEF Keeps, Uses, Later

(* One thing is done after the other.                                      *)
LEMMA KeepsOn ==
  ASSUME NEW N, NEW M, NEW P, Keeps(N, M), Keeps(M, P)
  PROVE  Keeps(N, P)
<1>1. \A i \in 1..Len(N.clones) : /\ Uses(N.clones[i], M.clones[i])
                                  /\ Uses(M.clones[i], P.clones[i])
  BY DEF Keeps
<1>2. \A i \in 1..Len(N.clones) : Uses(N.clones[i], P.clones[i])
  BY <1>1 DEF Uses, Later
<1>3. QED
  BY <1>2 DEF Keeps

(* What is not a socket and not sent may become anything.                  *)
LEMMA KeepsOthers ==
  ASSUME NEW N, IsNcap(N), NEW f \in {"retrievers", "cache", "nextId"}, NEW e
  PROVE  Keeps(N, [N EXCEPT ![f] = e])
<1> DEFINE M == [N EXCEPT ![f] = e]
<1>1. /\ HasNcapFields(M)
      /\ M.clones = N.clones /\ M.out = N.out
  BY DEF IsNcap, HasNcapFields
<1> HIDE DEF M
<1>2. Keeps(N, M)
  BY <1>1, KeepsAsItIs
<1>3. QED
  BY <1>2 DEF M

Used(N, i, s, q) == [N EXCEPT !.clones[i] = s, !.out = @ \o q]

(* Of its sockets only the i-th is another.                                *)
ChangedAt(N, i, s, M) ==
    \A j \in 1..Len(N.clones) : M.clones[j] = IF j = i THEN s ELSE N.clones[j]

(* The i-th socket is used by its owner, and sends q.                      *)
LEMMA LeavesUsed ==
  ASSUME NEW N, IsNcap(N), NEW i \in 1..Len(N.clones), NEW s, Later(N.clones[i], s),
         NEW E, NEW q \in Seq(Replies(E))
  PROVE  Leaves(N, Used(N, i, s, q)) /\ ChangedAt(N, i, s, Used(N, i, s, q))
<1> DEFINE M == Used(N, i, s, q)
<1>1. N.clones \in Seq(TcpSockets) /\ s \in TcpSockets
  BY DEF IsNcap, Later
<1>2. /\ HasNcapFields(M)
      /\ M.clones = [N.clones EXCEPT ![i] = s] /\ M.out = N.out \o q
  BY DEF IsNcap, Used, HasNcapFields
<1> HIDE DEF M
<1>3. /\ M.clones \in Seq(TcpSockets) /\ Len(M.clones) = Len(N.clones)
      /\ \A j \in 1..Len(N.clones) : M.clones[j] = IF j = i THEN s ELSE N.clones[j]
  <2> DEFINE C == N.clones
             D == [C EXCEPT ![i] = s]
  <2>1. C \in Seq(TcpSockets) /\ i \in 1..Len(C) /\ s \in TcpSockets /\ D = M.clones
    BY <1>1, <1>2
  <2> HIDE DEF C
  <2>2. /\ D \in Seq(TcpSockets) /\ Len(D) = Len(C)
        /\ \A j \in 1..Len(C) : D[j] = IF j = i THEN s ELSE C[j]
    BY ONLY <2>1, ExceptSeq
  <2> HIDE DEF D
  <2>3. QED
    BY <2>1, <2>2 DEF C
<1>4. \E D : M.out \in Seq(Replies(D))
  <2>1. PICK D : N.out \in Seq(Replies(D))
    BY DEF IsNcap
  <2>2. /\ Replies(D) \subseteq Replies(D \cup E)
        /\ Replies(E) \subseteq Replies(D \cup E)
    BY DEF Replies
  <2>3. N.out \in Seq(Replies(D \cup E)) /\ q \in Seq(Replies(D \cup E))
    BY <2>1, <2>2, SeqMonotonic
  <2>4. N.out \o q \in Seq(Replies(D \cup E))
    BY <2>3, ConcatProperties
  <2>5. QED
    BY <2>4, <1>2
<1>5. \A j \in 1..Len(N.clones) : Later(N.clones[j], N.clones[j])
  BY <1>1 DEF Later
<1>6. \A j \in 1..Len(N.clones) : Later(N.clones[j], M.clones[j])
  BY <1>3, <1>5
<1>7. IsNcap(M)
  BY <1>2, <1>3, <1>4 DEF IsNcap
<1>8. Leaves(N, M)
  BY <1>3, <1>6, <1>7 DEF Leaves
<1>9. ChangedAt(N, i, s, M)
  BY <1>3 DEF ChangedAt
<1>10. QED
  BY <1>8, <1>9 DEF M

(* It only sends.                                                          *)
LEMMA KeepsUsed ==
  ASSUME NEW N, IsNcap(N), NEW i \in 1..Len(N.clones), NEW s, Uses(N.clones[i], s),
         NEW E, NEW q \in Seq(Replies(E))
  PROVE  Keeps(N, Used(N, i, s, q))
<1> DEFINE M == Used(N, i, s, q)
<1>1. Leaves(N, M) /\ ChangedAt(N, i, s, M)
  <2>1. Later(N.clones[i], s)
    BY DEF Uses
  <2>2. QED
    BY <2>1, LeavesUsed
<1>2. \A j \in 1..Len(N.clones) : N.clones[j] \in TcpSockets
  BY DEF IsNcap
<1> HIDE DEF M
<1>3. ASSUME NEW j \in 1..Len(N.clones)
      PROVE  Uses(N.clones[j], M.clones[j])
  BY <1>1, <1>2 DEF Uses, Later, ChangedAt
<1>4. Keeps(N, M)
  BY <1>1, <1>3 DEF Leaves, Keeps
<1>5. QED
  BY <1>4 DEF M

(* sendMessage() uses the first socket, if there is one.                   *)
LEMMA SendMessageKeeps ==
  ASSUME NEW N, IsNcap(N), NEW msg
  PROVE  Keeps(N, SendMessage(N, msg))
<1>1. CASE N.clones = << >>
  <2>1. SendMessage(N, msg) = N
    BY <1>1 DEF SendMessage
  <2>2. QED
    BY <2>1, KeepsAsItIs DEF IsNcap
<1>2. CASE N.clones # << >>
  <2> DEFINE s == N.clones[1]
             o == Send(s, msg)
  <2>1. N.clones \in Seq(TcpSockets) /\ 1 \in 1..Len(N.clones) /\ s \in TcpSockets
    BY <1>2 DEF IsNcap
  <2>2. Uses(s, o.socket) /\ o.sent \in Seq(Replies({msg}))
    BY <2>1, SendUses
  <2>3. SendMessage(N, msg) = Used(N, 1, o.socket, o.sent)
    BY <1>2 DEF SendMessage, Used
  <2> HIDE DEF o
  <2>4. QED
    BY <2>1, <2>2, <2>3, KeepsUsed
<1>3. QED
  BY <1>1, <1>2

(* sendCommand() sends a message, and counts.                              *)
LEMMA SendCommandKeeps ==
  ASSUME NEW N, IsNcap(N), NEW kind, NEW teds
  PROVE  Keeps(N, SendCommand(N, kind, teds))
<1> DEFINE M == SendMessage(N, Message(N.nextId, kind, teds))
<1>1. Keeps(N, M) /\ IsNcap(M)
  BY SendMessageKeeps DEF Keeps
<1>2. SendCommand(N, kind, teds) = [M EXCEPT !["nextId"] = (M.nextId + 1) % TransIds]
  BY DEF SendCommand
<1> HIDE DEF M
<1>3. Keeps(M, [M EXCEPT !["nextId"] = (M.nextId + 1) % TransIds])
  BY <1>1, KeepsOthers
<1>4. QED
  BY <1>1, <1>2, <1>3, KeepsOn

(* A retriever asks for the next TEDS.                                     *)
LEMMA ExecuteKeeps ==
  ASSUME NEW N, IsNcap(N), NEW i
  PROVE  Keeps(N, Execute(N, i))
<1> DEFINE M == SendCommand(N, "readTeds", Teds[N.retrievers[i].step])
           P == [M EXCEPT !.retrievers[i].lastTransId = N.nextId]
<1>1. Keeps(N, M) /\ IsNcap(M)
  BY SendCommandKeeps DEF Keeps
<1>2. Execute(N, i) = P
  BY DEF Execute
<1> HIDE DEF M
<1>3. /\ HasNcapFields(P)
      /\ P.clones = M.clones /\ P.out = M.out
  BY <1>1 DEF IsNcap, HasNcapFields
<1> HIDE DEF P
<1>4. Keeps(M, P)
  BY <1>1, <1>3, KeepsAsItIs
<1>5. QED
  BY <1>1, <1>2, <1>4, KeepsOn

(* A TIM has connected: a command, or a retriever that starts.             *)
LEMMA ReportTimConnectedKeeps ==
  ASSUME NEW N, IsNcap(N)
  PROVE  Keeps(N, ReportTimConnected(N))
<1>1. Keeps(N, Operate(N))
  <2> DEFINE M == SendCommand(N, "operate", Null)
             P == [M EXCEPT !.cache[1].connected = TRUE]
  <2>1. Keeps(N, M) /\ IsNcap(M)
    BY SendCommandKeeps DEF Keeps
  <2>2. Operate(N) = P
    BY DEF Operate
  <2> HIDE DEF M
  <2>3. /\ HasNcapFields(P)
        /\ P.clones = M.clones /\ P.out = M.out
    BY <2>1 DEF IsNcap, HasNcapFields
  <2> HIDE DEF P
  <2>4. Keeps(M, P)
    BY <2>1, <2>3, KeepsAsItIs
  <2>5. QED
    BY <2>1, <2>2, <2>4, KeepsOn
<1> DEFINE r == Append(N.retrievers, [step |-> 1, lastTransId |-> 0, teds |-> << >>])
           S == [N EXCEPT !["retrievers"] = r]
<1>2. ReportTimConnected(N) =
        IF N.cache # << >> THEN Operate(N) ELSE Execute(S, Len(S.retrievers))
  BY DEF ReportTimConnected
<1>3. Keeps(N, S) /\ IsNcap(S)
  <2> HIDE DEF r
  <2>1. Keeps(N, S)
    BY KeepsOthers
  <2>2. QED
    BY <2>1 DEF Keeps
<1> HIDE DEF S
<1>4. Keeps(S, Execute(S, Len(S.retrievers)))
  BY <1>3, ExecuteKeeps
<1>5. QED
  BY <1>1, <1>2, <1>3, <1>4, KeepsOn

(* A TIM has disconnected: the cache takes note.                           *)
LEMMA ReportTimDisconnectedKeeps ==
  ASSUME NEW N, IsNcap(N)
  PROVE  Keeps(N, ReportTimDisconnected(N))
<1> DEFINE M == ReportTimDisconnected(N)
<1>1. /\ HasNcapFields(M)
      /\ M.clones = N.clones /\ M.out = N.out
  BY DEF ReportTimDisconnected, IsNcap, HasNcapFields
<1> HIDE DEF M
<1>2. Keeps(N, M)
  BY <1>1, KeepsAsItIs
<1>3. QED
  BY <1>2 DEF M

(* A retriever is done: the cache has one more entry.                      *)
LEMMA UpdateTIMCompletedKeeps ==
  ASSUME NEW N, IsNcap(N), NEW i
  PROVE  Keeps(N, UpdateTIMCompleted(N, i))
<1> DEFINE c == Append(N.cache, [connected |-> FALSE, teds |-> N.retrievers[i].teds])
           r == RemoveAt(N.retrievers, i)
           M == [N EXCEPT !.cache = c, !.retrievers = r]
<1>1. UpdateTIMCompleted(N, i) = ReportTimConnected(M)
  BY DEF UpdateTIMCompleted
<1> HIDE DEF c, r
<1>2. /\ HasNcapFields(M)
      /\ M.clones = N.clones /\ M.out = N.out
  BY DEF IsNcap, HasNcapFields
<1> HIDE DEF M
<1>3. Keeps(N, M) /\ IsNcap(M)
  BY <1>2, KeepsAsItIs DEF Keeps
<1>4. QED
  BY <1>1, <1>3, ReportTimConnectedKeeps, KeepsOn

(* A message of the TIM: the retriever that awaits it goes on.             *)
LEMMA ReceiveReplyKeeps ==
  ASSUME NEW N, IsNcap(N), NEW msg
  PROVE  Keeps(N, ReceiveReply(N, msg))
<1>1. ASSUME NEW i
      PROVE  Keeps(N, Process(N, i, msg))
  <2> DEFINE M == [N EXCEPT !.retrievers[i].teds = Append(@, msg.teds),
                            !.retrievers[i].step = @ + 1]
  <2>1. Process(N, i, msg) = IF M.retrievers[i].step <= Len(Teds) THEN Execute(M, i)
                             ELSE UpdateTIMCompleted(M, i)
    BY DEF Process
  <2>2. /\ HasNcapFields(M)
        /\ M.clones = N.clones /\ M.out = N.out
    BY DEF IsNcap, HasNcapFields
  <2> HIDE DEF M
  <2>3. Keeps(N, M) /\ IsNcap(M)
    BY <2>2, KeepsAsItIs DEF Keeps
  <2>4. Keeps(M, Execute(M, i)) /\ Keeps(M, UpdateTIMCompleted(M, i))
    BY <2>3, ExecuteKeeps, UpdateTIMCompletedKeeps
  <2>5. QED
    BY <2>1, <2>3, <2>4, KeepsOn
<1>2. Keeps(N, N)
  BY KeepsAsItIs DEF IsNcap
<1>3. ReceiveReply(N, msg) = N \/ \E i : ReceiveReply(N, msg) = Process(N, i, msg)
  BY DEF ReceiveReply
<1>4. QED
  BY <1>1, <1>2, <1>3

-----------------------------------------------------------------------------
(* Segments sent                                                           *)

(* What is sent is logged, and may be under way.                           *)
LEMMA SentAreLogged ==
  ASSUME NEW G, Histories(G, log), NEW D, NEW q \in Seq(Replies(D)), NEW node
  PROVE  /\ Histories(G, Logged(q))
         /\ log \subseteq Logged(q)
         /\ q \in Seq(Under(node, G, Logged(q)))
<1> DEFINE K == Logged(q)
<1>1. K = log \cup {Entry(m) : m \in {n \in ToSet(q) : n.data # Null}}
  BY DEF Logged, Entry
<1>2. \A m \in ToSet(q) : m \in Replies(D)
  BY DEF ToSet
<1> HIDE DEF K
<1>3. log \subseteq K /\ DataOf(log) \subseteq DataOf(K)
  BY <1>1 DEF DataOf
<1>4. ASSUME NEW m \in ToSet(q)
      PROVE  /\ m.data \in DataOf(K)
             /\ m.data # Null => Entry(m) \in K
  <2>1. CASE m.data # Null
    <3>1. Entry(m) \in K /\ Entry(m).data = m.data
      BY <1>1, <2>1 DEF Entry
    <3>2. QED
      BY <3>1 DEF DataOf
  <2>2. CASE m.data = Null
    BY <2>2 DEF DataOf
  <2>3. QED
    BY <2>1, <2>2
<1>5. K \subseteq [seq : Nat, data : DataOf(K)]
  <2>1. ASSUME NEW d \in log
        PROVE  d \in [seq : Nat, data : DataOf(K)]
    BY <1>3 DEF Histories
  <2>2. ASSUME NEW m \in ToSet(q)
        PROVE  Entry(m) \in [seq : Nat, data : DataOf(K)]
    <3>1. m.seq \in Nat
      BY <1>2 DEF Replies
    <3>2. QED
      BY <3>1, <1>4 DEF Entry
  <2>3. QED
    BY <1>1, <2>1, <2>2
<1>6. Histories(G, K)
  BY <1>3, <1>5, LogGrows
<1>7. ASSUME NEW m \in ToSet(q)
      PROVE  m \in Under(node, G, K)
  <2>1. m \in [seq : Nat, ack : Int, flags : SUBSET (Flags \ {"syn"}), data : D]
    BY <1>2 DEF Replies
  <2>2. m \in [seq : Nat, ack : Int, flags : SUBSET Flags, data : DataOf(K)] /\ "syn" \notin m.flags
    BY <2>1, <1>4
  <2>3. QED
    BY <2>2, <1>4 DEF Under
<1>8. q \in Seq(Under(node, G, K))
  BY <1>7 DEF ToSet
<1>9. QED
  BY <1>3, <1>6, <1>8 DEF K

(* What is neither a SYN nor data may always be under way.                 *)
LEMMA ControlsUnder ==
  ASSUME NEW node, NEW G, NEW L
  PROVE  Seq(Controls) \subseteq Seq(Under(node, G, L))
<1>1. Controls \subseteq Under(node, G, L)
  BY DEF Controls, Replies, Under, DataOf
<1>2. QED
  BY <1>1, SeqMonotonic

(* And so for all that is under way to a node.                             *)
LEMMA SeqUnderGrows ==
  ASSUME NEW node, NEW G, NEW H, NEW L, NEW K,
         DOMAIN G \subseteq DOMAIN H, L \subseteq K
  PROVE  Seq(Under(node, G, L)) \subseteq Seq(Under(node, H, K))
BY UnderGrows, SeqMonotonic

(* Segments are sent to a node.                                            *)
LEMMA Transmitted ==
  ASSUME NEW G, NEW H, NEW L, NEW K, NetOK(net, G, L),
         DOMAIN G \subseteq DOMAIN H, L \subseteq K,
         NEW to \in Nodes, NEW q \in Seq(Under(to, H, K))
  PROVE  NetOK(Transmit(to, q), H, K)
<1>1. \A node \in Nodes : net[node] \in Seq(Under(node, H, K))
  BY SeqUnderGrows DEF NetOK
<1>2. net[to] \o q \in Seq(Under(to, H, K))
  BY <1>1, ConcatProperties
<1> DEFINE w == Transmit(to, q)
<1>3. w = [node \in Nodes |-> IF node = to THEN net[to] \o q ELSE net[node]]
  BY DEF Transmit, NetOK
<1> HIDE DEF w
<1>4. NetOK(w, H, K)
  BY <1>1, <1>2, <1>3 DEF NetOK
<1>5. QED
  BY <1>4 DEF w

(* A node takes its first segment and sends some to the other.             *)
LEMMA Exchanged ==
  ASSUME NEW G, NEW H, NEW L, NEW K, NetOK(net, G, L),
         DOMAIN G \subseteq DOMAIN H, L \subseteq K,
         NEW at \in Nodes, NEW to \in Nodes \ {at}, net[at] # << >>,
         NEW q \in Seq(Under(to, H, K))
  PROVE  /\ NetOK(Exchange(at, to, q), H, K)
         /\ Head(net[at]) \in Under(at, G, L)
<1>1. \A node \in Nodes : net[node] \in Seq(Under(node, H, K))
  BY SeqUnderGrows DEF NetOK
<1>2. net[to] \o q \in Seq(Under(to, H, K))
  BY <1>1, ConcatProperties
<1>3. Tail(net[at]) \in Seq(Under(at, H, K)) /\ Head(net[at]) \in Under(at, G, L)
  BY <1>1, HeadTailProperties DEF NetOK
<1> DEFINE w == Exchange(at, to, q)
<1>4. w = [node \in Nodes |-> IF node = to THEN net[to] \o q
                              ELSE IF node = at THEN Tail(net[at]) ELSE net[node]]
  BY DEF Exchange, NetOK
<1> HIDE DEF w
<1>5. NetOK(w, H, K)
  BY <1>1, <1>2, <1>3, <1>4 DEF NetOK
<1>6. QED
  BY <1>3, <1>5 DEF w

-----------------------------------------------------------------------------
(* The sockets of the two nodes                                            *)

(* More numbers are drawn, or more messages sent.                          *)
LEMMA SocketsGrow ==
  ASSUME NEW C, NEW G, NEW H, NEW L, NEW K,
         DOMAIN G \subseteq DOMAIN H, L \subseteq K,
         \A n \in DOMAIN G : H[n] = G[n]
  PROVE  /\ ClonesOK(C, G) => ClonesOK(C, H)
         /\ \A c : HasSocket(c, C, G) => HasSocket(c, C, H)
         /\ \A isns, m : TurnsOK(isns, m, C, G, L) => TurnsOK(isns, m, C, H, K)
<1>1. \A s : \A n \in DOMAIN G : SocketOf(s, n, G) => n \in DOMAIN H /\ SocketOf(s, n, H)
  BY SocketStays
<1>2. Under("ncap", G, L) \subseteq Under("ncap", H, K)
  BY UnderGrows
<1>3. ClonesOK(C, G) => ClonesOK(C, H)
  BY <1>1 DEF ClonesOK
<1>4. \A c : HasSocket(c, C, G) => HasSocket(c, C, H)
  BY <1>1 DEF HasSocket
<1>5. \A isns, m : TurnsOK(isns, m, C, G, L) => TurnsOK(isns, m, C, H, K)
  BY <1>2 DEF TurnsOK
<1>6. QED
  BY <1>3, <1>4, <1>5

(* The sockets of the NCAP are used.                                       *)
LEMMA ClonesLater ==
  ASSUME NEW C \in Seq(TcpSockets), NEW D \in Seq(TcpSockets), Len(D) = Len(C),
         \A i \in 1..Len(C) : Later(C[i], D[i]),
         NEW G, NEW L
  PROVE  /\ ClonesOK(C, G) => ClonesOK(D, G)
         /\ \A c : HasSocket(c, C, G) => HasSocket(c, D, G)
         /\ \A isns, m : TurnsOK(isns, m, C, G, L) => TurnsOK(isns, m, D, G, L)
<1>1. DOMAIN C = 1..Len(C) /\ DOMAIN D = 1..Len(C)
  OBVIOUS
<1>2. \A i \in 1..Len(C) :
        /\ D[i].snd_ini = C[i].snd_ini
        /\ C[i].state # "SYN_SENT" => D[i].state # "SYN_SENT"
  BY DEF Later
<1>3. \A i \in 1..Len(C) : \A n \in DOMAIN G : SocketOf(C[i], n, G) => SocketOf(D[i], n, G)
  BY LaterStays
<1>4. ClonesOK(C, G) => ClonesOK(D, G)
  BY <1>1, <1>2, <1>3 DEF ClonesOK
<1>5. \A c : HasSocket(c, C, G) => HasSocket(c, D, G)
  BY <1>1, <1>2 DEF HasSocket
<1>6. \A isns, m : TurnsOK(isns, m, C, G, L) => TurnsOK(isns, m, D, G, L)
  BY <1>1, <1>2 DEF TurnsOK
<1>7. QED
  BY <1>4, <1>5, <1>6

(* A socket of the NCAP handles a segment.                                 *)
LEMMA CloneHandled ==
  ASSUME NEW C \in Seq(TcpSockets), NEW G, NEW L, Histories(G, L), ClonesOK(C, G),
         NEW i \in 1..Len(C), NEW n \in DOMAIN G, SocketOf(C[i], n, G),
         NEW m \in Under("ncap", G, L), NEW o, HandledOK(C[i], m, o),
         NEW D, D = [C EXCEPT ![i] = o.socket]
  PROVE  LET H == Giving(G, n, m, o)
         IN /\ D \in Seq(TcpSockets) /\ Len(D) = Len(C)
            /\ \A j \in 1..Len(C) : D[j].snd_ini = C[j].snd_ini
            /\ ClonesOK(D, H)
            /\ \A c : HasSocket(c, C, G) => HasSocket(c, D, H)
            /\ \A isns, x : TurnsOK(isns, x, C, G, L) => TurnsOK(isns, x, D, H, L)
<1> DEFINE H == Giving(G, n, m, o)
           t == o.socket
<1>1. /\ DOMAIN H = DOMAIN G
      /\ \A k \in DOMAIN G : k # n => H[k] = G[k]
      /\ SocketOf(t, n, H)
  BY Handled
<1>2. /\ t \in TcpSockets /\ t.snd_ini = C[i].snd_ini
      /\ t.state = "SYN_SENT" => C[i].state = "SYN_SENT"
  BY DEF HandledOK
<1> HIDE DEF H, t
<1>3. D = [C EXCEPT ![i] = t]
  BY DEF t
<1>4. /\ D \in Seq(TcpSockets) /\ Len(D) = Len(C)
      /\ \A j \in 1..Len(C) : D[j] = IF j = i THEN t ELSE C[j]
  BY <1>2, <1>3, ExceptSeq
<1>5. DOMAIN C = 1..Len(C) /\ DOMAIN D = 1..Len(C)
  BY <1>4
<1>6. \A j \in 1..Len(C) : /\ D[j].snd_ini = C[j].snd_ini
                           /\ C[j].state # "SYN_SENT" => D[j].state # "SYN_SENT"
  BY <1>2, <1>4
<1>7. ASSUME NEW s, s.snd_ini # C[i].snd_ini, NEW k \in DOMAIN G, SocketOf(s, k, G)
      PROVE  SocketOf(s, k, H)
  <2>1. k # n
    BY <1>7 DEF SocketOf
  <2>2. QED
    BY <2>1, <1>1, <1>7, SocketStays
<1>8. ClonesOK(D, H)
  <2>1. ASSUME NEW j \in 1..Len(C)
        PROVE  \E k \in DOMAIN H : SocketOf(D[j], k, H)
    <3>1. CASE j = i
      BY <3>1, <1>1, <1>4
    <3>2. CASE j # i
      <4>1. C[j].snd_ini # C[i].snd_ini /\ \E k \in DOMAIN G : SocketOf(C[j], k, G)
        BY <3>2, <1>5 DEF ClonesOK
      <4>2. D[j] = C[j]
        BY <3>2, <1>4
      <4>3. QED
        BY <4>1, <4>2, <1>1, <1>7
    <3>3. QED
      BY <3>1, <3>2
  <2>2. QED
    BY <2>1, <1>5, <1>6 DEF ClonesOK
<1>9. ASSUME NEW c, HasSocket(c, C, G)
      PROVE  HasSocket(c, D, H)
  <2>1. c.snd_ini # C[i].snd_ini /\ \E k \in DOMAIN G : SocketOf(c, k, G)
    BY <1>9, <1>5 DEF HasSocket
  <2>2. \E k \in DOMAIN H : SocketOf(c, k, H)
    BY <2>1, <1>1, <1>7
  <2>3. QED
    BY <2>2, <1>5, <1>6, <1>9 DEF HasSocket
<1>10. \A isns, x : TurnsOK(isns, x, C, G, L) => TurnsOK(isns, x, D, H, L)
  <2>1. Under("ncap", G, L) \subseteq Under("ncap", H, L)
    BY <1>1, UnderGrows
  <2>2. QED
    BY <2>1, <1>5, <1>6 DEF TurnsOK
<1>11. QED
  BY <1>4, <1>6, <1>8, <1>9, <1>10 DEF H

(* The next turn; the sockets are those it had before.                     *)
LEMMA TurnTaken ==
  ASSUME NEW isns, isns # << >>, NEW m, NEW C, NEW G, NEW L, TurnsOK(isns, m, C, G, L)
  PROVE  /\ TurnsOK(Tail(isns), IF Len(isns) = 1 THEN Null ELSE m, C, G, L)
         /\ m \in Under("ncap", G, L)
         /\ \E i \in DOMAIN C : C[i].snd_ini = Head(isns)
         /\ \A k \in DOMAIN Tail(isns) : Tail(isns)[k] # Head(isns)
<1> DEFINE a == Tail(isns)
<1>1. isns \in Seq(Nat) /\ Len(isns) \in Nat \ {0} /\ DOMAIN isns = 1..Len(isns)
  BY DEF TurnsOK
<1>2. /\ a \in Seq(Nat) /\ Len(a) = Len(isns) - 1 /\ Head(isns) = isns[1]
      /\ \A k \in 1..Len(a) : a[k] = isns[k + 1]
  BY <1>1, HeadTailProperties
<1> HIDE DEF a
<1>3. DOMAIN a = 1..Len(a) /\ 1 \in DOMAIN isns
      /\ \A k \in DOMAIN a : k + 1 \in DOMAIN isns /\ k + 1 # 1
  BY <1>1, <1>2
<1>4. \A j, k \in DOMAIN isns : isns[j] = isns[k] => j = k
  BY DEF TurnsOK, IsInjective
<1>5. \A j, k \in DOMAIN a : a[j] = a[k] => j = k
  <2>1. SUFFICES ASSUME NEW j \in DOMAIN a, NEW k \in DOMAIN a, a[j] = a[k]
                 PROVE  j = k
    OBVIOUS
  <2>2. j + 1 = k + 1
    BY <2>1, <1>2, <1>3, <1>4
  <2>3. QED
    BY <2>2, <1>2, <1>3
<1>6. \A k \in DOMAIN a : \E i \in DOMAIN C : C[i].snd_ini = a[k]
  BY <1>2, <1>3 DEF TurnsOK
<1>7. a # << >> => Len(isns) # 1
  <2>1. Len(a) = 0 => a = << >>
    BY <1>2, EmptySeq
  <2>2. QED
    BY <2>1, <1>2, <1>1
<1>8. TurnsOK(a, IF Len(isns) = 1 THEN Null ELSE m, C, G, L)
  BY <1>2, <1>5, <1>6, <1>7 DEF TurnsOK, IsInjective
<1>9. \A k \in DOMAIN a : a[k] # Head(isns)
  BY <1>2, <1>3, <1>4
<1>10. QED
  BY <1>2, <1>3, <1>8, <1>9 DEF TurnsOK, a

(* A socket of the NCAP is deleted, in its turn.                           *)
LEMMA CloneRemoved ==
  ASSUME NEW C \in Seq(TcpSockets), NEW G, NEW L, NEW i \in 1..Len(C)
  PROVE  LET D == RemoveAt(C, i)
         IN /\ D \in Seq(TcpSockets)
            /\ ClonesOK(C, G) => ClonesOK(D, G)
            /\ \A c : HasSocket(c, C, G) => HasSocket(c, D, G)
            /\ \A isns, m :
                 TurnsOK(isns, m, C, G, L) /\ (\A k \in DOMAIN isns : isns[k] # C[i].snd_ini)
                    => TurnsOK(isns, m, D, G, L)
<1> DEFINE D == RemoveAt(C, i)
<1>1. /\ D \in Seq(TcpSockets) /\ Len(D) = Len(C) - 1
      /\ \A j \in 1..Len(C)-1 : D[j] = IF j < i THEN C[j] ELSE C[j + 1]
  BY RemoveAtElements
<1> HIDE DEF D
<1>2. DOMAIN C = 1..Len(C) /\ DOMAIN D = 1..Len(C)-1 /\ Len(C) \in Nat
  BY <1>1
<1> DEFINE was(j) == IF j < i THEN j ELSE j + 1
<1>3. \A j \in DOMAIN D : was(j) \in DOMAIN C /\ D[j] = C[was(j)]
  BY <1>1, <1>2
<1>4. \A j, k \in DOMAIN D : was(j) = was(k) => j = k
  BY <1>2
<1>5. ASSUME NEW j \in DOMAIN C, j # i
      PROVE  \E k \in DOMAIN D : D[k] = C[j]
  <2>1. CASE j < i
    <3>1. j \in DOMAIN D /\ D[j] = C[j]
      BY <2>1, <1>1, <1>2
    <3>2. QED
      BY <3>1
  <2>2. CASE j > i
    <3>1. j - 1 \in DOMAIN D /\ was(j - 1) = j
      BY <2>2, <1>2
    <3>2. QED
      BY <3>1, <1>3
  <2>3. QED
    BY <2>1, <2>2, <1>2, <1>5
<1> HIDE DEF was
<1>6. ClonesOK(C, G) => ClonesOK(D, G)
  <2>1. SUFFICES ASSUME ClonesOK(C, G) PROVE ClonesOK(D, G)
    OBVIOUS
  <2>2. ASSUME NEW j \in DOMAIN D
        PROVE  (\E n \in DOMAIN G : SocketOf(D[j], n, G)) /\ D[j].state # "SYN_SENT"
    BY <1>3, <2>1 DEF ClonesOK
  <2>3. ASSUME NEW j \in DOMAIN D, NEW k \in DOMAIN D, D[j].snd_ini = D[k].snd_ini
        PROVE  j = k
    BY <1>3, <1>4, <2>1, <2>3 DEF ClonesOK
  <2>4. QED
    BY <2>2, <2>3 DEF ClonesOK
<1>7. \A c : HasSocket(c, C, G) => HasSocket(c, D, G)
  BY <1>3 DEF HasSocket
<1>8. \A isns, m :
        TurnsOK(isns, m, C, G, L) /\ (\A k \in DOMAIN isns : isns[k] # C[i].snd_ini)
            => TurnsOK(isns, m, D, G, L)
  <2>1. SUFFICES ASSUME NEW isns, NEW m, TurnsOK(isns, m, C, G, L),
                        \A k \in DOMAIN isns : isns[k] # C[i].snd_ini
                 PROVE  TurnsOK(isns, m, D, G, L)
    OBVIOUS
  <2>2. ASSUME NEW k \in DOMAIN isns
        PROVE  \E j \in DOMAIN D : D[j].snd_ini = isns[k]
    <3>1. PICK j \in DOMAIN C : C[j].snd_ini = isns[k]
      BY <2>1 DEF TurnsOK
    <3>2. j # i
      BY <2>1, <3>1
    <3>3. QED
      BY <3>1, <3>2, <1>5
  <2>3. QED
    BY <2>1, <2>2 DEF TurnsOK
<1>9. QED
  BY <1>1, <1>6, <1>7, <1>8 DEF D

(* IndexOf() is the place of the only socket that has the number.          *)
LEMMA IndexOfIs ==
  ASSUME IsNcap(ncap), ClonesOK(ncap.clones, got), NEW isn
  PROVE  /\ IndexOf(isn) = 0 \/ IndexOf(isn) \in 1..Len(ncap.clones)
         /\ IndexOf(isn) # 0 => ncap.clones[IndexOf(isn)].snd_ini = isn
         /\ (\E i \in DOMAIN ncap.clones : ncap.clones[i].snd_ini = isn) => IndexOf(isn) # 0
<1> DEFINE C == ncap.clones
           I == {i \in 1..Len(C) : C[i].snd_ini = isn}
<1>1. IndexOf(isn) = IF I # {} THEN Min(I) ELSE 0
  BY DEF IndexOf, SelectInSeq
<1>2. C \in Seq(TcpSockets) /\ DOMAIN C = 1..Len(C) /\ Len(C) \in Nat
  BY DEF IsNcap
<1>3. \A i, j \in I : i = j
  BY <1>2 DEF ClonesOK
<1>4. ASSUME NEW i \in I
      PROVE  Min(I) = i
  <2>1. I = {i} /\ i \in Nat
    BY <1>2, <1>3
  <2>2. Min({i}) = i
    BY <2>1 DEF Min
  <2>3. QED
    BY <2>1, <2>2
<1>5. CASE I = {}
  BY <1>1, <1>2, <1>5
<1>6. CASE I # {}
  <2>1. PICK i \in I : TRUE
    BY <1>6
  <2>2. IndexOf(isn) = i
    BY <1>1, <1>4, <1>6
  <2>3. i # 0
    BY <1>2
  <2>4. QED
    BY <2>2, <2>3
<1>7. QED
  BY <1>5, <1>6

-----------------------------------------------------------------------------
(* The invariant holds at the start, and every step keeps it               *)

(* At the start nothing is sent, given or drawn.                           *)
LEMMA DeliveryInit == Init => DeliveryInv
<1> SUFFICES ASSUME Init PROVE DeliveryInv
  OBVIOUS
<1>1. /\ got = << >> /\ log = {} /\ net = [node \in Nodes |-> << >>] /\ client = Null
      /\ ncap = [clones |-> << >>, retrievers |-> << >>, cache |-> << >>, nextId |-> 1,
                 out |-> << >>]
      /\ turns = << >> /\ asking = Null /\ pc = "start" /\ mode \in Modes
  BY DEF Init
<1>2. << >> \in Seq(Nat) /\ DOMAIN << >> = {} /\ Len(<< >>) = 0
  OBVIOUS
<1>3. Histories(got, log)
  <2>1. Len(Isns) \in Nat
    BY IeeeAssumption DEF IeeeAssumption
  <2>2. log \subseteq [seq : Nat, data : DataOf(log)] /\ got \in Seq(Seq(log)) /\ InOrder(got)
    BY <1>1 DEF InOrder
  <2>3. QED
    BY <1>1, <1>2, <2>1, <2>2 DEF Histories
<1>4. NetOK(net, got, log)
  BY <1>1 DEF NetOK
<1>5. IsNcap(ncap)
  BY <1>1 DEF IsNcap, HasNcapFields
<1>6. ClonesOK(ncap.clones, got)
  BY <1>1 DEF ClonesOK
<1>7. ClientOK(client, Holding, ncap.clones, got)
  BY <1>1 DEF ClientOK, Holding, InClose
<1>8. TurnsOK(turns, handled, ncap.clones, got, log)
  BY <1>1 DEF TurnsOK, IsInjective
<1>9. SendingOK
  BY <1>1 DEF SendingOK
<1>10. ModeOK
  BY <1>1, IeeeAssumption DEF ModeOK, InClose, IeeeAssumption
<1>11. QED
  BY <1>3, <1>4, <1>5, <1>6, <1>7, <1>8, <1>9, <1>10 DEF DeliveryInv

(* The thread of the TIM connects: a number is drawn, and its socket is    *)
(* the only one of that number.                                            *)
LEMMA DoConnectKeeps ==
  ASSUME DeliveryInv, NEW from, NEW to \in {"connecting", "reconnecting"}, DoConnect(from, to)
  PROVE  DeliveryInv'
<1> DEFINE n == Len(got) + 1
           H == Append(got, << >>)
           s == Connect(Isn).socket
           C == ncap.clones
<1>1. /\ Len(got) < Len(Isns)
      /\ pc' = to /\ client' = s /\ got' = H
      /\ net' = Transmit("ncap", Connect(Isn).sent)
      /\ UNCHANGED <<mode, ncap, turns, handled, asking, log>>
  BY DEF DoConnect, MoreIsns, loop
<1>2. /\ Histories(H, log)
      /\ DOMAIN got \subseteq DOMAIN H
      /\ n \in DOMAIN H /\ n \notin DOMAIN got /\ n \in DOMAIN Isns
      /\ H[n] = << >>
      /\ \A k \in DOMAIN got : H[k] = got[k]
  BY <1>1, OneMoreDrawn DEF DeliveryInv
<1>3. /\ \A k \in DOMAIN Isns : Isns[k] \in Nat
      /\ \A j, k \in DOMAIN Isns : Isns[j] = Isns[k] => j = k
      /\ DOMAIN got \subseteq DOMAIN Isns
  BY IsnsApart DEF DeliveryInv
<1>4. Isn = Isns[n] /\ Isn \in Nat
  BY <1>2, <1>3 DEF Isn
<1> DEFINE m == Segment(Isn, 0, {"syn"}, Null)
<1>5. /\ s \in TcpSockets /\ s.snd_ini = Isn /\ s.state = "SYN_SENT"
      /\ Connect(Isn).sent = <<m>>
  BY <1>4, OutcomeFields DEF Connect, TcpSockets, States, Outcome
<1> HIDE DEF H, s, n
<1>6. SocketOf(s, n, H)
  BY <1>2, <1>4, <1>5 DEF SocketOf, Follows
<1>7. m \in Under("ncap", H, log)
  <2>1. Isn \in {Isns[k] : k \in DOMAIN H}
    BY <1>2, <1>4
  <2>2. m.seq = Isn /\ m.data = Null
    BY DEF Segment
  <2>3. m \in [seq : Nat, ack : Int, flags : SUBSET Flags, data : DataOf(log)]
    <3>1. Isn \in Nat
      BY <1>4
    <3>2. {"syn"} \in SUBSET Flags
      BY DEF Flags
    <3>3. Null \in DataOf(log)
      BY DEF DataOf
    <3>4. QED
      BY <3>1, <3>2, <3>3 DEF Segment
  <2>4. "syn" \in m.flags /\ "ncap" # "tim"
    BY DEF Segment
  <2> HIDE DEF m
  <2>5. QED
    BY <2>1, <2>2, <2>3, <2>4 DEF Under
<1>8. NetOK(net', H, log)
  <2>1. Connect(Isn).sent \in Seq(Under("ncap", H, log))
    BY <1>5, <1>7
  <2>2. NetOK(net, got, log)
    BY DEF DeliveryInv
  <2>3. NetOK(Transmit("ncap", Connect(Isn).sent), H, log)
    BY <1>2, <2>1, <2>2, Transmitted DEF Nodes
  <2>4. QED
    BY <1>1, <2>3
<1>9. /\ ClonesOK(C, H)
      /\ TurnsOK(turns, handled, C, H, log)
  BY <1>2, SocketsGrow DEF DeliveryInv
<1>10. HasSocket(s, C, H)
  <2>1. ASSUME NEW i \in DOMAIN C
        PROVE  C[i].snd_ini # s.snd_ini
    <3>1. PICK k \in DOMAIN got : C[i].snd_ini = Isns[k]
      BY DEF DeliveryInv, ClonesOK, SocketOf
    <3>2. k # n /\ k \in DOMAIN Isns
      BY <1>2, <1>3
    <3>3. QED
      BY <3>1, <3>2, <1>2, <1>3, <1>4, <1>5
  <2>2. QED
    BY <1>2, <1>6, <2>1 DEF HasSocket
<1>11. SendingOK' /\ ModeOK'
  BY <1>1 DEF DeliveryInv, SendingOK, ModeOK, InClose
<1>12. Histories(got', log')
  BY <1>1, <1>2
<1>13. NetOK(net', got', log')
  BY <1>1, <1>8
<1>14. QED
  BY <1>1, <1>9, <1>10, <1>11, <1>12, <1>13 DEF DeliveryInv, ClientOK

(* A socket that its owner uses is the same socket.                        *)
LEMMA HasSocketLater ==
  ASSUME NEW c, NEW C, NEW G, HasSocket(c, C, G), NEW d, Later(c, d)
  PROVE  HasSocket(d, C, G)
<1>1. \E n \in DOMAIN G : SocketOf(d, n, G)
  BY LaterStays DEF HasSocket
<1>2. QED
  BY <1>1 DEF HasSocket, Later

(* A socket in use is a socket.                                            *)
LEMMA HeldIsTyped ==
  ASSUME NEW c, NEW C, NEW G, HasSocket(c, C, G)
  PROVE  c \in TcpSockets
BY DEF HasSocket, SocketOf

(* A step of the TIM's thread that sends nothing.                          *)
LEMMA QuietKeeps ==
  ASSUME DeliveryInv, UNCHANGED <<net, got, log, ncap, turns, handled, asking, mode>>,
         pc' = "sending" => Headed(header'), pc' = "finishing" => IsFin(header'),
         pc' \in InClose \cup {"collect"} => ~mode.polling,
         ClientOK(client', Holding', ncap.clones, got)
  PROVE  DeliveryInv'
<1>1. SendingOK' /\ ModeOK'
  BY DEF DeliveryInv, SendingOK, ModeOK
<1>2. QED
  BY <1>1 DEF DeliveryInv

(* Each step of the TIM's thread keeps the invariant.                      *)
LEMMA ThreadKeeps ==
  ASSUME DeliveryInv, Thread
  PROVE  DeliveryInv'
<1> DEFINE C == ncap.clones
<1>1. ClientOK(client, Holding, C, got) /\ SendingOK /\ ModeOK /\ NetOK(net, got, log)
  BY DEF DeliveryInv
<1>2. ASSUME DoConnect("start", "connecting") \/ DoConnect("collected", "reconnecting")
      PROVE  DeliveryInv'
  BY <1>2, DoConnectKeeps
<1>3. ASSUME NEW from, NEW to, Await(from, to),
             <<from, to>> \in {<<"connecting", "connected">>, <<"reconnecting", "reconnected">>}
      PROVE  DeliveryInv'
  <2>1. /\ UNCHANGED <<net, got, log, ncap, turns, handled, asking, mode, client>>
        /\ pc' = to /\ pc = from
    BY <1>3 DEF Await, Go, loop
  <2>2. Holding /\ pc' \notin InClose \cup {"sending", "collect"}
    BY <2>1, <1>3 DEF Holding, InClose
  <2>3. ClientOK(client', Holding', C, got)
    BY <2>1, <2>2, <1>1 DEF ClientOK
  <2>4. QED
    BY <2>1, <2>2, <2>3, QuietKeeps DEF InClose
<1>4. ASSUME Suspend
      PROVE  DeliveryInv'
  <2>1. /\ UNCHANGED <<net, got, log, ncap, turns, handled, asking, mode, client>>
        /\ pc' = "suspended" /\ pc = "connected"
    BY <1>4 DEF Suspend, Go, loop
  <2>2. ClientOK(client', Holding', C, got)
    BY <2>1, <1>1 DEF ClientOK, Holding
  <2>3. QED
    BY <2>1, <2>2, QuietKeeps DEF InClose
<1>5. ASSUME Disconnect
      PROVE  DeliveryInv'
  <2>1. /\ UNCHANGED <<net, got, log, ncap, turns, handled, asking, mode, client>>
        /\ pc' = "finishing" /\ pc = "loop" /\ Streams /\ header' = Fin(client)
    BY <1>5 DEF Disconnect, Go, loop
  <2>2. HasSocket(client, C, got)
    BY <2>1, <1>1 DEF ClientOK, Holding
  <2>3. IsFin(header')
    BY <2>1, <2>2, HeldIsTyped DEF IsFin, Fin, Segment, TcpSockets
  <2>4. ClientOK(client', Holding', C, got)
    BY <2>1, <2>2 DEF ClientOK
  <2>5. QED
    BY <2>1, <2>3, <2>4, QuietKeeps DEF Streams
<1>6. ASSUME FinSent
       PROVE  DeliveryInv'
  <2> DEFINE q == <<header>>
  <2>1. /\ UNCHANGED <<got, log, ncap, turns, handled, asking, mode, client>>
        /\ pc' = "finished" /\ pc = "finishing" /\ net' = Transmit("ncap", q)
    BY <1>6 DEF FinSent, loop
  <2>2. HasSocket(client, C, got) /\ IsFin(header)
    BY <2>1, <1>1 DEF ClientOK, Holding, InClose, SendingOK
  <2>3. q \in Seq(Controls)
    BY <2>2 DEF IsFin, Controls, Replies, Flags
  <2> HIDE DEF q
  <2>4. q \in Seq(Under("ncap", got, log))
    BY <2>3, ControlsUnder
  <2>5. NetOK(net', got, log)
    BY <2>1, <2>4, <1>1, Transmitted DEF Nodes
  <2>6. SendingOK' /\ ModeOK'
    BY <2>1, <1>1 DEF SendingOK, ModeOK, InClose
  <2>7. QED
    BY <2>1, <2>2, <2>5, <2>6 DEF DeliveryInv, ClientOK
<1>7. ASSUME CloseTests \/ CloseSets
       PROVE  DeliveryInv'
  <2>1. /\ UNCHANGED <<net, got, log, ncap, turns, handled, asking, mode>>
        /\ pc \in InClose /\ pc' \in InClose \ {"finishing"}
    BY <1>7 DEF CloseTests, CloseSets, Tested, Go, loop, InClose
  <2>2. HasSocket(client, C, got)
    BY <2>1, <1>1 DEF ClientOK, Holding
  <2>3. PICK st \in States : client' = client \/ client' = [client EXCEPT !.state = st]
    BY <1>7 DEF CloseTests, CloseSets, States
  <2>4. HasSocket(client', C, got)
    <3>1. CASE Later(client, client')
      BY <3>1, <2>2, HasSocketLater
    <3>2. QED
      BY <1>7, <2>2, <2>3, <3>1, HeldIsTyped
      DEF CloseTests, CloseSets, Later, TcpSockets
  <2>5. pc' # "sending" /\ ~mode.polling
    BY <2>1, <1>1 DEF ModeOK, InClose
  <2>6. QED
    BY <2>1, <2>4, <2>5, QuietKeeps DEF ClientOK
<1>8. ASSUME Disconnected
      PROVE  DeliveryInv'
  <2>1. /\ UNCHANGED <<net, got, log, ncap, turns, handled, asking, mode>>
        /\ pc' = "collect" /\ pc = "disconnecting" /\ client' = Null
    BY <1>8 DEF Disconnected, Go, loop
  <2>2. ~mode.polling
    BY <2>1, <1>1 DEF ModeOK, InClose
  <2>3. ClientOK(client', Holding', C, got)
    BY <2>1 DEF ClientOK, Holding, InClose
  <2>4. QED
    BY <2>1, <2>2, <2>3, QuietKeeps
<1>9. ASSUME Collect
      PROVE  DeliveryInv'
  <2>1. /\ UNCHANGED <<net, got, log, ncap, turns, handled, asking, mode, client>>
        /\ pc' = "collected" /\ pc \in {"collect", "loop"}
    BY <1>9 DEF Collect, Go, loop
  <2>2. mode.polling => pc = "loop" /\ Holding
    BY <2>1, <1>1 DEF ModeOK, Holding
  <2>3. Holding' => Holding
    BY <2>1, <2>2 DEF Holding, InClose
  <2>4. ClientOK(client', Holding', C, got)
    BY <2>1, <2>3, <1>1 DEF ClientOK
  <2>5. QED
    BY <2>1, <2>4, QuietKeeps DEF InClose
<1>10. ASSUME NotFull
      PROVE  DeliveryInv'
  <2>1. /\ UNCHANGED <<net, got, log, ncap, turns, handled, asking, mode, client, pos>>
        /\ pc' = "loop" /\ pc = "collected" /\ ~Full
    BY <1>10 DEF NotFull, Go, loop
  <2>2. Holding' => Holding
    BY <2>1 DEF Holding, Streams, Full, InClose
  <2>3. ClientOK(client', Holding', C, got)
    BY <2>1, <2>2, <1>1 DEF ClientOK
  <2>4. QED
    BY <2>1, <2>3, QuietKeeps DEF InClose
<1>11. ASSUME SendDataSet
      PROVE  DeliveryInv'
  <2>1. /\ UNCHANGED <<net, got, log, ncap, turns, handled, asking, mode, client>>
        /\ pc' = "sending"
        /\ pc = "reconnected" \/ (pc = "collected" /\ ~Streams /\ Full)
        /\ header' = [DataHeader(client) EXCEPT !.data = Message(Unasked, "set", Null)]
    BY <1>11 DEF SendDataSet, Go, loop
  <2>2. Holding
    BY <2>1 DEF Holding, Streams
  <2>3. HasSocket(client, C, got)
    BY <2>2, <1>1 DEF ClientOK
  <2>4. client.snd_nxt \in Nat /\ client.rcv_nxt - 1 \in Int
    BY <2>3, HeldIsTyped DEF TcpSockets
  <2>5. Headed(header')
    BY <2>1, <2>4 DEF Headed, DataHeader, Segment
  <2>6. ClientOK(client', Holding', C, got)
    BY <2>1, <2>3 DEF ClientOK
  <2>7. QED
    BY <2>1, <2>5, <2>6, QuietKeeps DEF InClose
<1>12. ASSUME DataSetSent
       PROVE  DeliveryInv'
  <2> DEFINE q == <<header>>
  <2>1. /\ UNCHANGED <<got, ncap, turns, handled, asking, mode>>
        /\ pc' = "loop" /\ pc = "sending"
        /\ net' = Transmit("ncap", q) /\ log' = Logged(q)
        /\ \E from \in header.seq..client.snd_nxt : client' = Advance(client, from)
    BY <1>12 DEF DataSetSent, loop
  <2>2. HasSocket(client, C, got) /\ Headed(header)
    BY <2>1, <1>1 DEF ClientOK, Holding, SendingOK
  <2>3. header.seq..client.snd_nxt \subseteq Nat
    BY <2>2, HeldIsTyped DEF Headed, TcpSockets
  <2>4. HasSocket(client', C, got)
    BY <2>1, <2>2, <2>3, HeldIsTyped, AdvanceUses, HasSocketLater DEF Uses
  <2>5. q \in Seq(Replies({header.data}))
    BY <2>2 DEF Headed, Replies, Flags
  <2> HIDE DEF q
  <2>6. /\ Histories(got, log') /\ log \subseteq log'
        /\ q \in Seq(Under("ncap", got, log'))
    BY <2>1, <2>5, SentAreLogged DEF DeliveryInv
  <2>7. NetOK(net', got, log')
    BY <2>1, <2>6, <1>1, Transmitted DEF Nodes
  <2>8. TurnsOK(turns, handled, C, got, log')
    BY <2>6, SocketsGrow DEF DeliveryInv
  <2>9. SendingOK' /\ ModeOK'
    BY <2>1, <1>1 DEF SendingOK, ModeOK, InClose
  <2>10. QED
    BY <2>1, <2>4, <2>6, <2>7, <2>8, <2>9 DEF DeliveryInv, ClientOK
<1>13. QED
  BY <1>2, <1>3, <1>4, <1>5, <1>6, <1>7, <1>8, <1>9, <1>10, <1>11, <1>12 DEF Thread

(* What the network does to the segments under way; a restart of the TIM.  *)
LEMMA FaultKeeps ==
  ASSUME DeliveryInv, Fault
  PROVE  DeliveryInv'
<1>1. UNCHANGED <<got, log, ncap, turns, handled, asking>>
  BY DEF Fault, loop
<1>2. ASSUME Restart
      PROVE  DeliveryInv'
  <2>1. UNCHANGED <<net, mode>> /\ pc' = "start" /\ client' = Null
    BY <1>2 DEF Restart
  <2>2. ClientOK(client', Holding', ncap.clones, got)
    BY <2>1 DEF ClientOK, Holding, InClose
  <2>3. QED
    BY <1>1, <2>1, <2>2, QuietKeeps DEF InClose
<1>3. ASSUME NEW node \in Nodes, Lose(node) \/ Duplicate(node) \/ Delay(node),
             UNCHANGED tim
      PROVE  DeliveryInv'
  <2> DEFINE S == Under(node, got, log)
             w == net[node]
  <2>1. w \in Seq(S) /\ net = [x \in Nodes |-> net[x]]
        /\ \A x \in Nodes : net[x] \in Seq(Under(x, got, log))
    BY DEF DeliveryInv, NetOK
  <2>2. \E v \in Seq(S) : net' = [net EXCEPT ![node] = v]
    <3> HIDE DEF S
    <3>1. ASSUME NEW i \in DOMAIN w
          PROVE  /\ i \in 1..Len(w) /\ w[i] \in S
                 /\ RemoveAt(w, i) \in Seq(S)
                 /\ Append(w, w[i]) \in Seq(S)
                 /\ Append(RemoveAt(w, i), w[i]) \in Seq(S)
      <4>1. i \in 1..Len(w) /\ w[i] \in S
        BY <2>1
      <4>2. RemoveAt(w, i) \in Seq(S)
        BY <2>1, <4>1, RemoveAtElements
      <4> HIDE DEF w
      <4>3. QED
        BY <2>1, <4>1, <4>2, AppendProperties
    <3>2. CASE Lose(node)
      BY <3>1, <3>2 DEF Lose
    <3>3. CASE Duplicate(node)
      BY <3>1, <3>3 DEF Duplicate
    <3>4. CASE Delay(node)
      BY <3>1, <3>4 DEF Delay
    <3>5. QED
      BY <1>3, <3>2, <3>3, <3>4
  <2>3. PICK v \in Seq(S) : net' = [net EXCEPT ![node] = v]
    BY <2>2
  <2>4. net' = [x \in Nodes |-> IF x = node THEN v ELSE net[x]]
    BY <2>1, <2>3
  <2>5. NetOK(net', got, log)
    BY <2>1, <2>4 DEF NetOK
  <2>6. SendingOK' /\ ModeOK' /\ (Holding' <=> Holding) /\ client' = client
    BY <1>1, <1>3 DEF DeliveryInv, SendingOK, ModeOK, Holding, Streams, Full, tim
  <2>7. ClientOK(client', Holding', ncap.clones, got)
    BY <2>6 DEF DeliveryInv, ClientOK
  <2>8. QED
    BY <1>1, <2>5, <2>6, <2>7 DEF DeliveryInv
<1>4. QED
  BY <1>2, <1>3 DEF Fault

(* The NCAP takes a segment: the listening socket may make a new one.      *)
LEMMA NcapReceiveKeeps ==
  ASSUME DeliveryInv, NcapReceive
  PROVE  DeliveryInv'
<1> DEFINE C == ncap.clones
           m == Head(net["ncap"])
           n == Len(got) + 1
           H == Append(got, << >>)
           o == Accept(m, Isn)
           s == o.socket
<1>1. /\ net["ncap"] # << >>
      /\ \/ /\ Accepts(m) /\ Len(got) < Len(Isns)
            /\ ncap' = [ncap EXCEPT !.clones = Append(@, s)]
            /\ net' = Exchange("ncap", "tim", o.sent)
            /\ got' = H
         \/ /\ net' = Exchange("ncap", "tim", << >>)
            /\ ncap' = ncap /\ got' = got
      /\ handled' = m
      /\ turns' = [i \in DOMAIN ncap'.clones |-> ncap'.clones[i].snd_ini]
      /\ UNCHANGED <<mode, pc, client, pos, header, asking, log>>
  BY DEF NcapReceive, MoreIsns, tim
<1>2. /\ NetOK(net, got, log) /\ IsNcap(ncap) /\ ClonesOK(C, got) /\ Histories(got, log)
      /\ ClientOK(client, Holding, C, got)
  BY DEF DeliveryInv
<1>3. m \in Under("ncap", got, log)
  <2>1. << >> \in Seq(Under("tim", got, log))
    OBVIOUS
  <2>2. QED
    BY <1>1, <1>2, <2>1, Exchanged DEF Nodes
<1> HIDE DEF m
<1>4. SendingOK' /\ ModeOK' /\ (Holding' <=> Holding)
  BY <1>1 DEF DeliveryInv, SendingOK, ModeOK, Holding, Streams, Full
(* The turns are those of the sockets there are.                           *)
<1>5. ASSUME IsNcap(ncap'), ClonesOK(ncap'.clones, got'),
             DOMAIN got \subseteq DOMAIN got'
      PROVE  TurnsOK(turns', handled', ncap'.clones, got', log)
  <2> DEFINE D == ncap'.clones
  <2>1. D \in Seq(TcpSockets)
    BY <1>5 DEF IsNcap
  <2>2. \A i, j \in DOMAIN D : D[i].snd_ini = D[j].snd_ini => i = j
    BY <1>5 DEF ClonesOK
  <2> HIDE DEF D
  <2>3. turns' = [i \in DOMAIN D |-> D[i].snd_ini]
    BY <1>1 DEF D
  <2>4. DOMAIN turns' = DOMAIN D /\ \A i \in DOMAIN D : turns'[i] = D[i].snd_ini
    BY <2>3
  <2>5. \A i \in DOMAIN D : D[i].snd_ini \in Nat
    <3>1. \A i \in DOMAIN D : D[i] \in TcpSockets
      BY <2>1
    <3>2. QED
      BY <3>1 DEF TcpSockets
  <2>6. turns' \in Seq(Nat)
    BY <2>1, <2>3, <2>5
  <2>7. IsInjective(turns')
    BY <2>2, <2>4 DEF IsInjective
  <2>8. handled' \in Under("ncap", got', log)
    BY <1>1, <1>3, <1>5, UnderGrows
  <2>9. TurnsOK(turns', handled', D, got', log)
    BY <2>4, <2>6, <2>7, <2>8 DEF TurnsOK
  <2>10. QED
    BY <2>9 DEF D
<1>6. CASE ncap' = ncap /\ got' = got /\ net' = Exchange("ncap", "tim", << >>)
  <2>1. << >> \in Seq(Under("tim", got, log))
    OBVIOUS
  <2>2. NetOK(net', got, log)
    BY <1>1, <1>2, <1>6, <2>1, Exchanged DEF Nodes
  <2>3. TurnsOK(turns', handled', ncap'.clones, got', log)
    BY <1>2, <1>5, <1>6
  <2>4. ClientOK(client', Holding', ncap'.clones, got')
    BY <1>1, <1>2, <1>4, <1>6 DEF ClientOK
  <2>5. QED
    BY <1>1, <1>2, <1>4, <1>6, <2>2, <2>3, <2>4 DEF DeliveryInv
<1>7. CASE /\ Accepts(m) /\ Len(got) < Len(Isns)
           /\ ncap' = [ncap EXCEPT !.clones = Append(@, s)]
           /\ net' = Exchange("ncap", "tim", o.sent)
           /\ got' = H
  <2>1. /\ Histories(H, log)
        /\ DOMAIN got \subseteq DOMAIN H
        /\ n \in DOMAIN H /\ n \notin DOMAIN got /\ n \in DOMAIN Isns
        /\ H[n] = << >>
        /\ \A k \in DOMAIN got : H[k] = got[k]
    BY <1>2, <1>7, OneMoreDrawn
  <2>2. /\ \A k \in DOMAIN Isns : Isns[k] \in Nat
        /\ \A j, k \in DOMAIN Isns : Isns[j] = Isns[k] => j = k
        /\ DOMAIN got \subseteq DOMAIN Isns
    BY <1>2, IsnsApart
  <2>3. Isn = Isns[n] /\ Isn \in Nat
    BY <2>1, <2>2 DEF Isn
  <2>4. m.seq \in Nat /\ m.seq \in {Isns[k] : k \in DOMAIN got}
    BY <1>3, <1>7 DEF Under, Accepts
  <2> DEFINE a == Segment(Isn, m.seq + 1, {"syn", "ack"}, Null)
  <2>5. /\ s = [state |-> "SYN_RCVD", snd_ini |-> Isn, snd_nxt |-> Isn + 1,
                rcv_ini |-> m.seq, rcv_nxt |-> m.seq + 1]
        /\ o.sent = <<a>>
    BY OutcomeFields DEF Accept
  <2> HIDE DEF H, n, o, s
  <2>6. s \in TcpSockets /\ s.snd_ini = Isn /\ s.state = "SYN_RCVD" /\ s.rcv_nxt = m.seq + 1
    <3>1. Isn + 1 \in Nat /\ m.seq + 1 \in Nat
      BY <2>3, <2>4
    <3>2. QED
      BY <2>3, <2>4, <2>5, <3>1 DEF TcpSockets, States
  <2>7. SocketOf(s, n, H)
    <3>1. s.rcv_nxt - 1 = m.seq
      BY <2>4, <2>6
    <3>2. m.seq \in {Isns[k] : k \in DOMAIN H}
      BY <2>1, <2>4
    <3>3. Follows(s, H[n], H)
      BY <2>1, <2>6, <3>1, <3>2 DEF Follows
    <3>4. QED
      BY <2>1, <2>3, <2>6, <3>3 DEF SocketOf
  <2>8. a \in Under("tim", H, log)
    <3>1. Isn \in {Isns[k] : k \in DOMAIN H}
      BY <2>1, <2>3
    <3>2. m.seq + 1 \in Nat
      BY <2>4
    <3>3. {"syn", "ack"} \in SUBSET Flags
      BY DEF Flags
    <3>4. Null \in DataOf(log)
      BY DEF DataOf
    <3>5. a \in [seq : Nat, ack : Int, flags : SUBSET Flags, data : DataOf(log)]
      BY <2>3, <3>2, <3>3, <3>4 DEF Segment
    <3>6. a.seq = Isn /\ a.data = Null /\ "ack" \in a.flags
      BY DEF Segment
    <3> HIDE DEF a
    <3>7. QED
      BY <3>1, <3>5, <3>6 DEF Under
  <2>9. NetOK(net', H, log)
    <3>1. o.sent \in Seq(Under("tim", H, log))
      BY <2>5, <2>8
    <3>2. NetOK(Exchange("ncap", "tim", o.sent), H, log)
      BY <1>1, <1>2, <2>1, <3>1, Exchanged DEF Nodes
    <3>3. QED
      BY <1>7, <3>2
  <2>10. C \in Seq(TcpSockets) /\ Len(C) \in Nat /\ DOMAIN C = 1..Len(C)
    BY <1>2 DEF IsNcap
  <2> DEFINE D == Append(C, s)
  <2>11. /\ ncap'.clones = D
         /\ HasNcapFields(ncap')
         /\ ncap'.out = ncap.out
    BY <1>2, <1>7 DEF IsNcap, HasNcapFields
  <2>12. /\ D \in Seq(TcpSockets) /\ Len(D) = Len(C) + 1
         /\ \A i \in 1..Len(C) : D[i] = C[i]
         /\ D[Len(C) + 1] = s
    BY <2>6, <2>10, AppendProperties
  <2> HIDE DEF D
  <2>13. IsNcap(ncap')
    BY <1>2, <2>11, <2>12 DEF IsNcap
  <2>14. ClonesOK(C, H)
    BY <1>2, <2>1, SocketsGrow
  <2>15. \A c : HasSocket(c, C, got) => HasSocket(c, C, H)
    BY <1>2, <2>1, SocketsGrow
  <2>16. \A t : \A k \in DOMAIN got : SocketOf(t, k, got) => t.snd_ini # s.snd_ini
    <3>1. \A k \in DOMAIN got : Isns[k] # Isns[n]
      BY <2>1, <2>2
    <3>2. QED
      BY <3>1, <2>3, <2>6 DEF SocketOf
  <2>17. \A i \in DOMAIN C : C[i].snd_ini # s.snd_ini
    BY <1>2, <2>16 DEF ClonesOK
  <2>18. \A i \in DOMAIN D : (i \in DOMAIN C /\ D[i] = C[i]) \/ (i = Len(C) + 1 /\ D[i] = s)
    BY <2>10, <2>12
  <2>19. ClonesOK(D, H)
    <3>1. ASSUME NEW i \in DOMAIN D
          PROVE  (\E k \in DOMAIN H : SocketOf(D[i], k, H)) /\ D[i].state # "SYN_SENT"
      BY <2>1, <2>6, <2>7, <2>14, <2>18 DEF ClonesOK
    <3>2. ASSUME NEW i \in DOMAIN D, NEW j \in DOMAIN D, D[i].snd_ini = D[j].snd_ini
          PROVE  i = j
      BY <2>14, <2>17, <2>18, <3>2 DEF ClonesOK
    <3>3. QED
      BY <3>1, <3>2 DEF ClonesOK
  <2>20. ClientOK(client, Holding, D, H)
    <3>1. ASSUME HasSocket(client, C, got)
          PROVE  HasSocket(client, D, H)
      <4>1. client.snd_ini # s.snd_ini
        BY <2>16, <3>1 DEF HasSocket
      <4>2. HasSocket(client, C, H)
        BY <2>15, <3>1
      <4>3. QED
        BY <2>18, <4>1, <4>2 DEF HasSocket
    <3>2. QED
      BY <1>2, <3>1 DEF ClientOK
  <2>21. TurnsOK(turns', handled', ncap'.clones, got', log)
    BY <1>5, <1>7, <2>1, <2>11, <2>13, <2>19
  <2>22. ClientOK(client', Holding', ncap'.clones, got')
    BY <1>1, <1>4, <1>7, <2>11, <2>20 DEF ClientOK
  <2>23. QED
    BY <1>1, <1>4, <1>7, <2>1, <2>9, <2>11, <2>13, <2>19, <2>21, <2>22 DEF DeliveryInv
<1>8. QED
  BY <1>1, <1>6, <1>7

(* A callback of the NCAP: its sockets stay, or the one that has closed is *)
(* deleted.                                                                *)
LEMMA CalledKeeps ==
  ASSUME NEW N, IsNcap(N), NEW i \in 1..Len(N.clones), NEW data, NEW calls,
         NEW M, M = Called(N, i, data, calls)
  PROVE  \/ Leaves(N, M)
         \/ \E P : /\ Leaves(N, P)
                   /\ HasNcapFields(M)
                   /\ M.clones = RemoveAt(P.clones, i) /\ M.out = P.out
<1>1. CASE M = ReportTimConnected(N)
  BY <1>1, ReportTimConnectedKeeps, KeepsLeaves
<1>2. CASE M = ReceiveReply(N, data)
  BY <1>2, ReceiveReplyKeeps, KeepsLeaves
<1>3. CASE M = [N EXCEPT !.clones[i] = Close(@).socket, !.out = @ \o Close(N.clones[i]).sent]
  <2> DEFINE s == N.clones[i]
             o == Close(s)
  <2>1. s \in TcpSockets
    BY DEF IsNcap
  <2>2. Later(s, o.socket) /\ o.sent \in Seq(Controls)
    BY <2>1, CloseLater
  <2>3. M = Used(N, i, o.socket, o.sent)
    BY <1>3 DEF Used
  <2> HIDE DEF o
  <2>4. QED
    BY <2>2, <2>3, LeavesUsed DEF Controls
<1>4. CASE M = [ReportTimDisconnected(N) EXCEPT !.clones = RemoveAt(@, i)]
  <2> DEFINE P == ReportTimDisconnected(N)
  <2>1. Leaves(N, P) /\ IsNcap(P)
    BY ReportTimDisconnectedKeeps, KeepsLeaves DEF Keeps
  <2>2. M = [P EXCEPT !.clones = RemoveAt(@, i)]
    BY <1>4
  <2> HIDE DEF P
  <2>3. /\ HasNcapFields(M)
        /\ M.clones = RemoveAt(P.clones, i) /\ M.out = P.out
    BY <2>1, <2>2 DEF IsNcap, HasNcapFields
  <2>4. QED
    BY <2>1, <2>3
<1>5. CASE M = N
  BY <1>5, KeepsAsItIs, KeepsLeaves DEF IsNcap
<1> DEFINE a == ReportTimConnected(N)
           b == ReceiveReply(N, data)
           c == [N EXCEPT !.clones[i] = Close(@).socket, !.out = @ \o Close(N.clones[i]).sent]
           d == [ReportTimDisconnected(N) EXCEPT !.clones = RemoveAt(@, i)]
<1>6. Called(N, i, data, calls) =
        CASE "connected" \in calls -> a
          [] "received" \in calls  -> b
          [] "closing" \in calls   -> c
          [] "closed" \in calls    -> d
          [] OTHER                 -> N
  BY DEF Called
<1> HIDE DEF a, b, c, d
<1>7. M \in {a, b, c, d, N}
  BY <1>6
<1>8. QED
  BY <1>1, <1>2, <1>3, <1>4, <1>5, <1>7 DEF a, b, c, d

(* A socket of the NCAP takes its turn.                                    *)
LEMMA NcapHandleKeeps ==
  ASSUME DeliveryInv, NcapHandle
  PROVE  DeliveryInv'
<1> DEFINE C == ncap.clones
           m == handled
           i == IndexOf(Head(turns))
           s == C[i]
           o == Handle(s, m)
           N == [ncap EXCEPT !.clones[i] = o.socket, !.out = o.sent]
           M == Called(N, i, m.data, o.calls)
<1>1. /\ turns # << >>
      /\ ncap' = [M EXCEPT !.out = << >>]
      /\ net' = Transmit("tim", M.out)
      /\ log' = Logged(M.out)
      /\ got' = Given(s, m)
      /\ turns' = Tail(turns)
      /\ handled' = IF Len(turns) = 1 THEN Null ELSE m
      /\ UNCHANGED <<mode, pc, client, pos, header, asking>>
  BY DEF NcapHandle, tim
<1>2. /\ NetOK(net, got, log) /\ IsNcap(ncap) /\ ClonesOK(C, got) /\ Histories(got, log)
      /\ ClientOK(client, Holding, C, got) /\ TurnsOK(turns, m, C, got, log)
  BY DEF DeliveryInv
<1>3. /\ TurnsOK(turns', handled', C, got, log)
      /\ m \in Under("ncap", got, log)
      /\ \E j \in DOMAIN C : C[j].snd_ini = Head(turns)
      /\ \A k \in DOMAIN turns' : turns'[k] # Head(turns)
  BY <1>1, <1>2, TurnTaken
<1>4. C \in Seq(TcpSockets)
  BY <1>2 DEF IsNcap
<1>5. i \in 1..Len(C) /\ s.snd_ini = Head(turns)
  BY <1>2, <1>3, IndexOfIs
<1>6. s \in TcpSockets /\ s.state # "SYN_SENT"
  BY <1>2, <1>4, <1>5 DEF ClonesOK
<1>7. PICK n \in DOMAIN got : SocketOf(s, n, got)
  BY <1>2, <1>4, <1>5 DEF ClonesOK
<1>8. HandledOK(s, m, o)
  <2>1. m \in [seq : Nat, ack : Int, flags : SUBSET Flags, data : DataOf(log)]
    BY <1>3 DEF Under
  <2>2. QED
    BY <1>6, <2>1, HandleOK
<1> DEFINE H == Giving(got, n, m, o)
           D == [C EXCEPT ![i] = o.socket]
<1>9. got' = H
  BY <1>1, <1>2, <1>7, GivenIsGiving
<1>10. Histories(H, log) /\ DOMAIN H = DOMAIN got
  BY <1>2, <1>3, <1>7, <1>8, Handled
<1>11. /\ D \in Seq(TcpSockets) /\ Len(D) = Len(C)
       /\ D[i].snd_ini = Head(turns)
       /\ ClonesOK(D, H)
       /\ \A c : HasSocket(c, C, got) => HasSocket(c, D, H)
       /\ TurnsOK(turns', handled', D, H, log)
  <2> HIDE DEF D, H, i, o, s
  <2>1. /\ D \in Seq(TcpSockets) /\ Len(D) = Len(C)
        /\ \A j \in 1..Len(C) : D[j].snd_ini = C[j].snd_ini
        /\ ClonesOK(D, H)
        /\ \A c : HasSocket(c, C, got) => HasSocket(c, D, H)
        /\ \A isns, x : TurnsOK(isns, x, C, got, log) => TurnsOK(isns, x, D, H, log)
    BY <1>2, <1>3, <1>4, <1>5, <1>7, <1>8, CloneHandled DEF D, H, s
  <2>2. QED
    BY <2>1, <1>3, <1>5 DEF s
<1> HIDE DEF H, i, o, s
<1>12. /\ HasNcapFields(N)
       /\ N.clones = D /\ N.out = o.sent
  BY <1>2 DEF IsNcap, HasNcapFields
<1> HIDE DEF N, D
<1>13. IsNcap(N)
  <2>1. o.sent \in Seq(Replies({Null}))
    BY <1>8 DEF HandledOK, Controls
  <2>2. QED
    BY <1>11, <1>12, <2>1 DEF IsNcap
<1>14. i \in 1..Len(N.clones)
  BY <1>5, <1>11, <1>12
<1>15. \/ Leaves(N, M)
       \/ \E P : /\ Leaves(N, P)
                 /\ HasNcapFields(M)
                 /\ M.clones = RemoveAt(P.clones, i) /\ M.out = P.out
  BY <1>13, <1>14, CalledKeeps
<1> HIDE DEF M
<1>16. ASSUME NEW P, Leaves(N, P)
       PROVE  /\ P.clones \in Seq(TcpSockets) /\ i \in 1..Len(P.clones)
              /\ P.clones[i].snd_ini = Head(turns)
              /\ ClonesOK(P.clones, H)
              /\ \A c : HasSocket(c, C, got) => HasSocket(c, P.clones, H)
              /\ TurnsOK(turns', handled', P.clones, H, log)
  <2> DEFINE Q == P.clones
  <2>1. /\ Q \in Seq(TcpSockets) /\ Len(Q) = Len(D)
        /\ \A j \in 1..Len(D) : Later(D[j], Q[j])
    BY <1>12, <1>16 DEF Leaves, IsNcap
  <2> HIDE DEF Q
  <2>2. /\ ClonesOK(Q, H)
        /\ \A c : HasSocket(c, D, H) => HasSocket(c, Q, H)
        /\ TurnsOK(turns', handled', Q, H, log)
    BY <1>11, <2>1, ClonesLater
  <2>3. i \in 1..Len(Q) /\ Q[i].snd_ini = Head(turns)
    BY <1>5, <1>11, <2>1 DEF Later
  <2>4. QED
    BY <1>11, <2>1, <2>2, <2>3 DEF Q
<1>17. /\ HasNcapFields(M)
       /\ M.clones \in Seq(TcpSockets)
       /\ \E E : M.out \in Seq(Replies(E))
       /\ ClonesOK(M.clones, H)
       /\ \A c : HasSocket(c, C, got) => HasSocket(c, M.clones, H)
       /\ TurnsOK(turns', handled', M.clones, H, log)
  <2>1. CASE Leaves(N, M)
    BY <1>16, <2>1 DEF Leaves, IsNcap
  <2>2. ASSUME NEW P, Leaves(N, P),
               HasNcapFields(M),
               M.clones = RemoveAt(P.clones, i), M.out = P.out
        PROVE  /\ M.clones \in Seq(TcpSockets)
               /\ \E E : M.out \in Seq(Replies(E))
               /\ ClonesOK(M.clones, H)
               /\ \A c : HasSocket(c, C, got) => HasSocket(c, M.clones, H)
               /\ TurnsOK(turns', handled', M.clones, H, log)
    <3> DEFINE Q == P.clones
               R == RemoveAt(Q, i)
    <3>1. /\ Q \in Seq(TcpSockets) /\ i \in 1..Len(Q) /\ Q[i].snd_ini = Head(turns)
          /\ ClonesOK(Q, H)
          /\ \A c : HasSocket(c, C, got) => HasSocket(c, Q, H)
          /\ TurnsOK(turns', handled', Q, H, log)
      BY <1>16, <2>2
    <3>2. \E E : P.out \in Seq(Replies(E))
      BY <2>2 DEF Leaves, IsNcap
    <3>3. R = M.clones
      BY <2>2
    <3> HIDE DEF Q
    <3>4. /\ R \in Seq(TcpSockets)
          /\ ClonesOK(R, H)
          /\ \A c : HasSocket(c, Q, H) => HasSocket(c, R, H)
          /\ TurnsOK(turns', handled', R, H, log)
      BY <1>3, <3>1, CloneRemoved
    <3> HIDE DEF R
    <3>5. QED
      BY <2>2, <3>1, <3>2, <3>3, <3>4
  <2>3. QED
    BY <1>15, <2>1, <2>2
<1>18. PICK E : M.out \in Seq(Replies(E))
  BY <1>17
<1> DEFINE K == Logged(M.out)
           Q == M.clones
<1>19. /\ Histories(H, K) /\ log \subseteq K
       /\ M.out \in Seq(Under("tim", H, K))
  BY <1>10, <1>18, SentAreLogged
<1>20. /\ HasNcapFields(ncap')
       /\ ncap'.clones = Q /\ ncap'.out = << >>
  BY <1>1, <1>17 DEF HasNcapFields
<1>21. IsNcap(ncap')
  <2>1. << >> \in Seq(Replies({}))
    OBVIOUS
  <2>2. QED
    BY <1>17, <1>20, <2>1 DEF IsNcap
<1> HIDE DEF K, Q
<1>22. log' = K
  BY <1>1 DEF K
<1>23. NetOK(net', H, K)
  BY <1>1, <1>2, <1>10, <1>19, Transmitted DEF Nodes
<1>24. TurnsOK(turns', handled', Q, H, K)
  BY <1>17, <1>19, SocketsGrow DEF Q
<1>25. SendingOK' /\ ModeOK' /\ (Holding' <=> Holding)
  BY <1>1 DEF DeliveryInv, SendingOK, ModeOK, Holding, Streams, Full
<1>26. ClientOK(client', Holding', Q, H)
  BY <1>1, <1>2, <1>17, <1>25 DEF ClientOK, Q
<1>27. QED
  BY <1>9, <1>17, <1>19, <1>20, <1>21, <1>22, <1>23, <1>24, <1>25, <1>26 DEF DeliveryInv, Q

(* A request by SIP makes its header, ...                                  *)
LEMMA AskKeeps ==
  ASSUME DeliveryInv, Ask
  PROVE  DeliveryInv'
<1> DEFINE C == ncap.clones
           id == (ncap.nextId + 1) % TransIds
<1>1. /\ C # << >>
      /\ asking' = [isn |-> C[1].snd_ini,
                    segment |-> [DataHeader(C[1])
                                   EXCEPT !.data = Message(ncap.nextId, "readSet", Null)]]
      /\ ncap' = [ncap EXCEPT !["nextId"] = id]
      /\ UNCHANGED <<mode, pc, client, pos, header, turns, handled, net, log, got>>
  BY DEF Ask, tim, loop
<1>2. IsNcap(ncap) /\ C \in Seq(TcpSockets)
  BY DEF DeliveryInv, IsNcap
<1> HIDE DEF id
<1>3. /\ HasNcapFields(ncap')
      /\ ncap'.clones = C /\ ncap'.out = ncap.out
  BY <1>1, <1>2 DEF IsNcap, HasNcapFields
<1>4. IsNcap(ncap')
  BY <1>2, <1>3 DEF IsNcap
<1>5. C[1] \in TcpSockets
  BY <1>1, <1>2
<1>6. C[1].snd_nxt \in Nat /\ C[1].rcv_nxt - 1 \in Int
  BY <1>5 DEF TcpSockets
<1>7. Headed(asking'.segment)
  <2>1. asking'.segment = [seq |-> C[1].snd_nxt, ack |-> C[1].rcv_nxt - 1, flags |-> {"ack"},
                           data |-> Message(ncap.nextId, "readSet", Null)]
    BY <1>1 DEF DataHeader, Segment
  <2>2. QED
    BY <1>6, <2>1 DEF Headed
<1>8. SendingOK' /\ ModeOK' /\ (Holding' <=> Holding)
  BY <1>1, <1>7 DEF DeliveryInv, SendingOK, ModeOK, Holding, Streams, Full
<1>9. ClientOK(client', Holding', C, got)
  BY <1>1, <1>8 DEF DeliveryInv, ClientOK
<1>10. QED
  BY <1>1, <1>3, <1>4, <1>8, <1>9 DEF DeliveryInv

(* ... and sends it.                                                       *)
LEMMA AskSendKeeps ==
  ASSUME DeliveryInv, AskSend
  PROVE  DeliveryInv'
<1> DEFINE C == ncap.clones
           D == ncap'.clones
           i == IndexOf(asking.isn)
           m == asking.segment
           q == <<m>>
<1>1. /\ asking # Null /\ asking' = Null
      /\ IF i = 0 THEN ncap' = ncap
         ELSE \E from \in m.seq..C[i].snd_nxt : ncap' = [ncap EXCEPT !.clones[i] = Advance(@, from)]
      /\ net' = Transmit("tim", q) /\ log' = Logged(q)
      /\ UNCHANGED <<mode, pc, client, pos, header, turns, handled, got>>
  BY DEF AskSend, tim, loop
<1>2. /\ NetOK(net, got, log) /\ IsNcap(ncap) /\ ClonesOK(C, got) /\ Histories(got, log)
      /\ ClientOK(client, Holding, C, got) /\ TurnsOK(turns, handled, C, got, log)
      /\ Headed(m)
  BY <1>1 DEF DeliveryInv, SendingOK
<1>3. C \in Seq(TcpSockets) /\ DOMAIN C = 1..Len(C)
  BY <1>2 DEF IsNcap
<1>4. i = 0 \/ i \in 1..Len(C)
  BY <1>2, IndexOfIs
<1> HIDE DEF i
<1>5. Keeps(ncap, ncap')
  <2>1. CASE i = 0
    BY <1>1, <1>2, <2>1, KeepsAsItIs DEF IsNcap
  <2>2. CASE i # 0
    <3>1. PICK from \in m.seq..C[i].snd_nxt : ncap' = [ncap EXCEPT !.clones[i] = Advance(@, from)]
      BY <1>1, <2>2
    <3>2. i \in 1..Len(C) /\ C[i] \in TcpSockets
      BY <1>3, <1>4, <2>2
    <3>3. from \in Nat
      BY <3>1, <3>2, <1>2 DEF Headed, TcpSockets
    <3> DEFINE s == Advance(C[i], from)
    <3>4. Uses(C[i], s)
      BY <3>2, <3>3, AdvanceUses
    <3>5. ncap' = [ncap EXCEPT !.clones[i] = s]
      BY <3>1
    <3> HIDE DEF s
    <3> DEFINE N == Used(ncap, i, s, << >>)
    <3>6. Keeps(ncap, N)
      <4>1. << >> \in Seq(Replies({}))
        OBVIOUS
      <4>2. QED
        BY <1>2, <3>2, <3>4, <4>1, KeepsUsed
    <3>7. /\ HasNcapFields(ncap')
          /\ ncap'.clones = N.clones /\ ncap'.out = ncap.out
      BY <1>2, <3>5 DEF IsNcap, Used, HasNcapFields
    <3> HIDE DEF N
    <3>8. QED
      BY <1>2, <3>6, <3>7 DEF Keeps, IsNcap
  <2>3. QED
    BY <2>1, <2>2
<1>6. D \in Seq(TcpSockets) /\ Len(D) = Len(C) /\ \A j \in 1..Len(C) : Later(C[j], D[j])
  BY <1>5 DEF Keeps, IsNcap, Uses
<1>7. IsNcap(ncap')
  BY <1>5 DEF Keeps
<1>8. q \in Seq(Replies({m.data}))
  BY <1>2 DEF Headed, Replies, Flags
<1> HIDE DEF C, D, q, m
<1>9. /\ ClonesOK(D, got)
      /\ \A c : HasSocket(c, C, got) => HasSocket(c, D, got)
      /\ TurnsOK(turns, handled, D, got, log)
  BY <1>2, <1>3, <1>6, ClonesLater
<1>10. /\ Histories(got, log') /\ log \subseteq log'
       /\ q \in Seq(Under("tim", got, log'))
  BY <1>1, <1>2, <1>8, SentAreLogged
<1>11. NetOK(net', got, log')
  BY <1>1, <1>2, <1>10, Transmitted DEF Nodes
<1>12. TurnsOK(turns, handled, D, got, log')
  BY <1>9, <1>10, SocketsGrow
<1>13. SendingOK' /\ ModeOK' /\ (Holding' <=> Holding)
  BY <1>1 DEF DeliveryInv, SendingOK, ModeOK, Holding, Streams, Full
<1>14. ClientOK(client', Holding', D, got)
  BY <1>1, <1>2, <1>9, <1>13 DEF ClientOK
<1>15. QED
  BY <1>1, <1>7, <1>9, <1>10, <1>11, <1>12, <1>13, <1>14 DEF DeliveryInv, D

(* What the TIM answers is a message, sent after the acknowledgement.      *)
LEMMA AnswerLater ==
  ASSUME NEW o, o.socket \in TcpSockets, o.sent \in Seq(Controls), NEW m
  PROVE  /\ Later(o.socket, Answer(o, m).socket)
         /\ \E E : Answer(o, m).sent \in Seq(Replies(E))
<1> DEFINE s == o.socket
           r == Reply(m.data)
           a == Send(s, r)
<1>1. Answer(o, m) = [a EXCEPT !.sent = o.sent \o @] \/ Answer(o, m) = o
  BY DEF Answer
<1>2. CASE Answer(o, m) = o
  BY <1>2 DEF Later, Controls
<1>3. CASE Answer(o, m) = [a EXCEPT !.sent = o.sent \o @]
  <2>1. Later(s, a.socket) /\ a.sent \in Seq(Replies({r}))
    BY SendUses DEF Uses
  <2>2. a = [socket |-> a.socket, sent |-> a.sent, calls |-> a.calls]
    BY DEF Send, Outcome
  <2> HIDE DEF a, r
  <2>3. Answer(o, m).socket = a.socket /\ Answer(o, m).sent = o.sent \o a.sent
    BY <1>3, <2>2
  <2>4. Replies({Null}) \subseteq Replies({Null, r}) /\ Replies({r}) \subseteq Replies({Null, r})
    BY DEF Replies
  <2>5. o.sent \in Seq(Replies({Null, r})) /\ a.sent \in Seq(Replies({Null, r}))
    BY <2>1, <2>4, SeqMonotonic DEF Controls
  <2>6. o.sent \o a.sent \in Seq(Replies({Null, r}))
    BY <2>5, ConcatProperties
  <2>7. QED
    BY <2>1, <2>3, <2>6
<1>4. QED
  BY <1>1, <1>2, <1>3

(* The TIM's socket, if it has one, handles a segment, and the TIM answers.*)
LEMMA TimReceiveKeeps ==
  ASSUME DeliveryInv, TimReceive
  PROVE  DeliveryInv'
<1> DEFINE C == ncap.clones
           m == Head(net["tim"])
           o == Handle(client, m)
           a == Answer(o, m)
<1>1. net["tim"] # << >> /\ UNCHANGED <<mode, pos, header, ncap, turns, handled, asking>>
  BY DEF TimReceive, loop
<1>2. \/ /\ client = Null /\ net' = Exchange("tim", "ncap", << >>)
         /\ UNCHANGED <<client, pc, log, got>>
      \/ /\ client # Null
         /\ client' = a.socket /\ net' = Exchange("tim", "ncap", a.sent)
         /\ log' = Logged(a.sent) /\ got' = Given(client, m)
         /\ pc' = pc \/ pc' = Start(pc)
  BY DEF TimReceive
<1>3. /\ NetOK(net, got, log) /\ ClonesOK(C, got) /\ Histories(got, log)
      /\ ClientOK(client, Holding, C, got) /\ TurnsOK(turns, handled, C, got, log)
  BY DEF DeliveryInv
<1>4. m \in Under("tim", got, log)
  <2>1. << >> \in Seq(Under("ncap", got, log))
    OBVIOUS
  <2>2. QED
    BY <1>1, <1>3, <2>1, Exchanged DEF Nodes
<1>5. CASE /\ client = Null /\ net' = Exchange("tim", "ncap", << >>)
           /\ UNCHANGED <<client, pc, log, got>>
  <2>1. << >> \in Seq(Under("ncap", got, log))
    OBVIOUS
  <2>2. NetOK(net', got, log)
    BY <1>1, <1>3, <1>5, <2>1, Exchanged DEF Nodes
  <2>3. SendingOK' /\ ModeOK' /\ (Holding' <=> Holding)
    BY <1>1, <1>5 DEF DeliveryInv, SendingOK, ModeOK, Holding, Streams, Full
  <2>4. ClientOK(client', Holding', C, got)
    BY <1>3, <1>5, <2>3 DEF ClientOK
  <2>5. QED
    BY <1>1, <1>5, <2>2, <2>3, <2>4 DEF DeliveryInv
<1>6. CASE /\ client # Null
           /\ client' = a.socket /\ net' = Exchange("tim", "ncap", a.sent)
           /\ log' = Logged(a.sent) /\ got' = Given(client, m)
           /\ pc' = pc \/ pc' = Start(pc)
  <2>1. HasSocket(client, C, got)
    BY <1>3, <1>6 DEF ClientOK
  <2>2. PICK n \in DOMAIN got : SocketOf(client, n, got)
    BY <2>1 DEF HasSocket
  <2>3. HandledOK(client, m, o)
    <3>1. /\ m \in [seq : Nat, ack : Int, flags : SUBSET Flags, data : DataOf(log)]
          /\ "syn" \in m.flags => "ack" \in m.flags
      BY <1>4 DEF Under
    <3>2. client \in TcpSockets
      BY <2>1, HeldIsTyped
    <3> HIDE DEF m
    <3>3. QED
      BY <3>1, <3>2, HandleOK
  <2> DEFINE H == Giving(got, n, m, o)
  <2>4. got' = H
    BY <1>3, <1>6, <2>2, GivenIsGiving
  <2>5. Later(o.socket, a.socket) /\ \E E : a.sent \in Seq(Replies(E))
    BY <2>3, AnswerLater DEF HandledOK
  <2>6. o.socket.snd_ini = client.snd_ini
    BY <2>3 DEF HandledOK
  <2> HIDE DEF m, o, a
  <2>7. /\ Histories(H, log) /\ DOMAIN H = DOMAIN got
        /\ \A k \in DOMAIN got : k # n => H[k] = got[k]
        /\ SocketOf(o.socket, n, H)
    BY <1>3, <1>4, <2>2, <2>3, Handled
  <2> HIDE DEF H
  <2>8. PICK E : a.sent \in Seq(Replies(E))
    BY <2>5
  <2>9. /\ Histories(H, log') /\ log \subseteq log'
        /\ a.sent \in Seq(Under("ncap", H, log'))
    BY <1>6, <2>7, <2>8, SentAreLogged
  <2>10. NetOK(net', H, log')
    BY <1>1, <1>3, <1>6, <2>7, <2>9, Exchanged DEF Nodes, m
  <2>11. ASSUME NEW j \in DOMAIN C
         PROVE  \E k \in DOMAIN H : SocketOf(C[j], k, H)
    <3>1. PICK k \in DOMAIN got : SocketOf(C[j], k, got)
      BY <1>3 DEF ClonesOK
    <3>2. k # n
      BY <2>1, <2>2, <3>1 DEF HasSocket, SocketOf
    <3>3. SocketOf(C[j], k, H)
      BY <2>7, <3>1, <3>2, SocketStays
    <3>4. QED
      BY <2>7, <3>3
  <2>12. ClonesOK(C, H)
    BY <1>3, <2>11 DEF ClonesOK
  <2>13. TurnsOK(turns, handled, C, H, log')
    <3>1. Under("ncap", got, log) \subseteq Under("ncap", H, log')
      BY <2>7, <2>9, UnderGrows
    <3>2. QED
      BY <1>3, <3>1 DEF TurnsOK
  <2>14. HasSocket(client', C, H)
    <3>1. SocketOf(client', n, H) /\ client'.snd_ini = client.snd_ini
      BY <1>6, <2>5, <2>6, <2>7, LaterStays DEF Later
    <3>2. QED
      BY <2>1, <2>7, <3>1 DEF HasSocket
  <2>15. SendingOK' /\ ModeOK'
    BY <1>1, <1>6 DEF DeliveryInv, SendingOK, ModeOK, Start, InClose
  <2>16. QED
    BY <1>1, <2>4, <2>9, <2>10, <2>12, <2>13, <2>14, <2>15 DEF DeliveryInv, ClientOK
<1>7. QED
  BY <1>2, <1>5, <1>6

-----------------------------------------------------------------------------
(* The theorem                                                             *)

(* The inductive invariant holds in every state.                           *)
THEOREM DeliveryInvHolds == Spec => []DeliveryInv
<1>1. DeliveryInv /\ [Next]_vars => DeliveryInv'
  <2> SUFFICES ASSUME DeliveryInv, [Next]_vars PROVE DeliveryInv'
    OBVIOUS
  <2>1. CASE UNCHANGED vars
    BY <2>1 DEF vars, tim, loop, DeliveryInv, SendingOK, ModeOK, Holding, Streams, Full
  <2>2. QED
    BY <2>1, TimReceiveKeeps, NcapReceiveKeeps, NcapHandleKeeps, AskKeeps, AskSendKeeps,
       ThreadKeeps, FaultKeeps DEF Next
<1>2. QED
  BY <1>1, DeliveryInit, PTL DEF Spec

(* What the owner of a socket is given are messages that were sent, with   *)
(* the numbers that follow the first one of a connection: no gap, no copy  *)
(* and nothing out of order, whatever segments are lost, repeated or late, *)
(* however often the TIM restarts, for any number of connections and       *)
(* requests.  The numbers tell from which connection a message is as long  *)
(* as those of two connections do not overlap, as in the runs.             *)
THEOREM DeliversInOrderHolds == Spec => []DeliversInOrder
<1>1. DeliveryInv => DeliversInOrder
  <2> SUFFICES ASSUME Histories(got, log)
               PROVE  DeliversInOrder
    BY DEF DeliveryInv
  <2>1. \A n \in DOMAIN got : \A i \in DOMAIN got[n] : got[n][i] \in log
    <3>1. \A n \in DOMAIN got : got[n] \in Seq(log)
      BY DEF Histories
    <3>2. QED
      BY <3>1
  <2>2. QED
    BY <2>1 DEF DeliversInOrder, Histories, InOrder
<1>2. QED
  BY <1>1, DeliveryInvHolds, PTL

-----------------------------------------------------------------------------
(* Types, and what the retrievers of the NCAP wait for                     *)

MessageTeds == ToSet(Teds) \cup {Null}

(* A retriever; one whose step may be past the last TEDS; what it leaves   *)
(* in the cache.                                                           *)
Retrievers == [step : 1..Len(Teds), lastTransId : 0..TransIds - 1, teds : Seq(MessageTeds)]
AfterRead  == [step : Nat, lastTransId : 0..TransIds - 1, teds : Seq(MessageTeds)]
Entries    == [connected : BOOLEAN, teds : Seq(MessageTeds)]

IsReader(N) ==
    /\ N.nextId \in 0..TransIds - 1
    /\ N.retrievers \in Seq(Retrievers)
    /\ N.cache \in Seq(Entries)

(* The messages that the NCAP has sent in this action.                     *)
Said(N) == {m.data : m \in ToSet(N.out)} \ {Null}

(* A retriever has read the TEDS before its step, in order; n is the next  *)
(* number, D are the messages sent.  Those of the number it waits for are  *)
(* about the TEDS of its step.                                             *)
Served(r) == r.teds = SubSeq(Teds, 1, r.step - 1)

Waits(r, n, D) ==
    /\ r.lastTransId \in 1..n - 1
    /\ \A d \in D : d.transId = r.lastTransId => d.teds = Teds[r.step]

(* The retrievers of I wait.                                               *)
InTurn(N, D, I) ==
    /\ N.nextId # 0
    /\ \A d \in D : d.transId \in 0..N.nextId - 1
    /\ \A i \in DOMAIN N.retrievers : Served(N.retrievers[i])
    /\ \A i \in I : Waits(N.retrievers[i], N.nextId, D)
    /\ \A i \in DOMAIN N.cache : N.cache[i].teds = Teds

(* P is N after an operation that has sent some messages, no two with one  *)
(* number.  The retrievers of I waited before, and all do after.           *)
Goes(N, P, D, I) ==
    /\ IsReader(P)
    /\ \E E \in SUBSET Messages :
         /\ Said(P) \subseteq Said(N) \cup E
         /\ InTurn(N, D, I) /\ P.nextId # 0 => InTurn(P, D \cup E, DOMAIN P.retrievers)

(* The next number, but for a wrap the one that follows.                   *)
LEMMA NextNumber ==
  ASSUME NEW n \in 0..TransIds - 1
  PROVE  /\ (n + 1) % TransIds \in 0..TransIds - 1
         /\ (n + 1) % TransIds # 0 => (n + 1) % TransIds = n + 1
<1>1. TransIds \in Nat \ {0}
  BY IeeeAssumption DEF IeeeAssumption
<1>2. CASE n + 1 < TransIds
  BY <1>1, <1>2
<1>3. CASE n + 1 = TransIds
  <2>1. (n + 1) % TransIds = 0
    BY <1>1, <1>3
  <2>2. QED
    BY <1>1, <2>1
<1>4. QED
  BY <1>1, <1>2, <1>3

(* Nothing but messages is added to what is under way.                     *)
LEMMA SaidMore ==
  ASSUME NEW N, IsNcap(N), NEW E, NEW q \in Seq(Replies(E)), NEW P, P.out = N.out \o q
  PROVE  Said(P) \subseteq Said(N) \cup (E \ {Null})
<1>1. PICK D : N.out \in Seq(Replies(D))
  BY DEF IsNcap
<1> DEFINE a == N.out
           b == a \o q
<1>2. \A m \in ToSet(b) : m \in ToSet(a) \/ m \in ToSet(q)
  <2>1. a \in Seq(Replies(D) \cup Replies(E)) /\ q \in Seq(Replies(D) \cup Replies(E))
    <3> HIDE DEF a
    <3>1. a \in Seq(Replies(D))
      BY <1>1 DEF a
    <3>2. QED
      BY <3>1, SeqMonotonic
  <2> HIDE DEF a
  <2>2. /\ Len(b) = Len(a) + Len(q) /\ Len(a) \in Nat /\ Len(q) \in Nat
        /\ DOMAIN a = 1..Len(a) /\ DOMAIN q = 1..Len(q) /\ DOMAIN b = 1..Len(b)
        /\ \A i \in 1..Len(a) + Len(q) : b[i] = IF i <= Len(a) THEN a[i] ELSE q[i - Len(a)]
    BY <2>1, ConcatProperties
  <2> HIDE DEF b
  <2>3. SUFFICES ASSUME NEW i \in DOMAIN b
                 PROVE  b[i] \in ToSet(a) \/ b[i] \in ToSet(q)
    BY DEF ToSet
  <2>4. i \in Nat /\ i >= 1 /\ i <= Len(a) + Len(q)
    BY <2>2
  <2>5. CASE i <= Len(a)
    <3>1. i \in DOMAIN a /\ b[i] = a[i]
      BY <2>2, <2>4, <2>5
    <3>2. QED
      BY <3>1 DEF ToSet
  <2>6. CASE i > Len(a)
    <3>1. i - Len(a) \in DOMAIN q /\ b[i] = q[i - Len(a)]
      BY <2>2, <2>4, <2>6
    <3>2. QED
      BY <3>1 DEF ToSet
  <2>7. QED
    BY <2>2, <2>4, <2>5, <2>6
<1>3. \A m \in ToSet(q) : m.data \in E
  <2>1. \A m \in ToSet(q) : m \in Replies(E)
    BY DEF ToSet
  <2>2. QED
    BY <2>1 DEF Replies
<1> HIDE DEF b
<1>4. P.out = b
  BY DEF b
<1>5. QED
  BY <1>2, <1>3, <1>4 DEF Said, a

(* sendMessage() leaves the retrievers and the cache alone.                *)
LEMMA SendMessageSays ==
  ASSUME NEW N, IsNcap(N), NEW msg
  PROVE  LET M == SendMessage(N, msg)
         IN /\ M.nextId = N.nextId /\ M.retrievers = N.retrievers /\ M.cache = N.cache
            /\ Said(M) \subseteq Said(N) \cup {msg}
<1> DEFINE M == SendMessage(N, msg)
<1>1. CASE N.clones = << >>
  <2>1. M = N
    BY <1>1 DEF SendMessage
  <2>2. QED
    BY <2>1
<1>2. CASE N.clones # << >>
  <2> DEFINE s == N.clones[1]
             o == Send(s, msg)
  <2>1. s \in TcpSockets
    BY <1>2 DEF IsNcap
  <2>2. o.sent \in Seq(Replies({msg}))
    BY <2>1, SendUses
  <2>3. M = Used(N, 1, o.socket, o.sent)
    BY <1>2 DEF SendMessage, Used
  <2> HIDE DEF o
  <2>4. /\ M.nextId = N.nextId /\ M.retrievers = N.retrievers /\ M.cache = N.cache
        /\ M.out = N.out \o o.sent
    BY <2>3 DEF IsNcap, Used, HasNcapFields
  <2> HIDE DEF M
  <2>5. Said(M) \subseteq Said(N) \cup ({msg} \ {Null})
    BY <2>2, <2>4, SaidMore
  <2>6. QED
    BY <2>4, <2>5 DEF M
<1>3. QED
  BY <1>1, <1>2

(* sendCommand() counts, and sends the message with the number it had.     *)
LEMMA SendCommandSays ==
  ASSUME NEW N, IsNcap(N), NEW kind, NEW teds
  PROVE  LET M == SendCommand(N, kind, teds)
         IN /\ IsNcap(M)
            /\ M.nextId = (N.nextId + 1) % TransIds
            /\ M.retrievers = N.retrievers /\ M.cache = N.cache
            /\ Said(M) \subseteq Said(N) \cup {Message(N.nextId, kind, teds)}
<1> DEFINE P == SendMessage(N, Message(N.nextId, kind, teds))
           M == SendCommand(N, kind, teds)
<1>1. IsNcap(M)
  BY SendCommandKeeps DEF Keeps
<1>2. IsNcap(P)
  BY SendMessageKeeps DEF Keeps
<1>3. /\ P.nextId = N.nextId /\ P.retrievers = N.retrievers /\ P.cache = N.cache
      /\ Said(P) \subseteq Said(N) \cup {Message(N.nextId, kind, teds)}
  BY SendMessageSays
<1>4. M = [P EXCEPT !["nextId"] = (P.nextId + 1) % TransIds]
  BY DEF SendCommand
<1> HIDE DEF P
<1>5. /\ M.nextId = (P.nextId + 1) % TransIds /\ M.retrievers = P.retrievers
      /\ M.cache = P.cache /\ M.out = P.out
  BY <1>2, <1>4 DEF IsNcap, HasNcapFields
<1> HIDE DEF M
<1>6. QED
  BY <1>1, <1>3, <1>5 DEF Said, M

(* A number that has been used is not used again, and more is said.        *)
LEMMA WaitsOn ==
  ASSUME NEW r, NEW n \in Nat, NEW D, Waits(r, n, D),
         \A d \in D : d.transId \in 0..n - 1, NEW e, e.transId = n
  PROVE  Waits(r, n + 1, D \cup {e})
<1>1. r.lastTransId \in 1..n /\ r.lastTransId # n
  BY DEF Waits
<1>2. QED
  BY <1>1 DEF Waits

(* What a message says of itself.                                          *)
LEMMA MessageFields ==
  ASSUME NEW id, NEW kind, NEW teds
  PROVE  /\ Message(id, kind, teds).transId = id
         /\ Message(id, kind, teds).teds = teds
BY DEF Message

(* A message of this system is typed.                                      *)
LEMMA MessageTyped ==
  ASSUME NEW id \in 0..TransIds - 1, NEW kind \in Kinds, NEW teds \in MessageTeds
  PROVE  Message(id, kind, teds) \in Messages
BY DEF Message, Messages, MessageTeds

(* The TEDS of a step is one that a message may be about.                  *)
LEMMA TedsOfStep ==
  ASSUME NEW s \in 1..Len(Teds)
  PROVE  Teds[s] \in MessageTeds
<1>1. DOMAIN Teds = 1..Len(Teds)
  <2>1. Teds \in Seq(Nat \X Nat)
    BY IeeeAssumption DEF IeeeAssumption
  <2>2. QED
    BY <2>1
<1>2. QED
  BY <1>1 DEF MessageTeds, ToSet

(* A retriever's step is one of the requests of IEEE1451Retriever.         *)
LEMMA RetrieverStep ==
  ASSUME NEW r \in Retrievers
  PROVE  r.step \in 1..Len(Teds)
BY DEF Retrievers

(* The sensor's position stays inside its data set.                        *)
LEMMA NextPosition ==
  ASSUME NEW n \in Nat
  PROVE  (n + 1) % DataSetSize \in 0..DataSetSize - 1
<1>1. DataSetSize \in Nat \ {0}
  BY IeeeAssumption DEF IeeeAssumption
<1>2. QED
  BY <1>1

(* The i-th retriever asks for the TEDS of its step.                       *)
LEMMA ExecuteGoes ==
  ASSUME NEW N, IsNcap(N), IsReader(N), NEW i \in DOMAIN N.retrievers, NEW D
  PROVE  Goes(N, Execute(N, i), D, DOMAIN N.retrievers \ {i})
<1> DEFINE r == N.retrievers[i]
           c == Message(N.nextId, "readTeds", Teds[r.step])
           M == SendCommand(N, "readTeds", Teds[r.step])
           P == Execute(N, i)
           t == [r EXCEPT !.lastTransId = N.nextId]
           n == N.nextId
           I == DOMAIN N.retrievers \ {i}
<1>1. /\ n \in 0..TransIds - 1 /\ N.retrievers \in Seq(Retrievers) /\ r \in Retrievers
      /\ N.cache \in Seq(Entries)
  BY DEF IsReader
<1>2. /\ IsNcap(M)
      /\ M.nextId = (n + 1) % TransIds
      /\ M.retrievers = N.retrievers /\ M.cache = N.cache
      /\ Said(M) \subseteq Said(N) \cup {c}
  BY SendCommandSays
<1>3. P = [M EXCEPT !.retrievers[i].lastTransId = n]
  BY DEF Execute
<1> HIDE DEF M
<1>4. /\ P.nextId = M.nextId /\ P.cache = M.cache /\ P.out = M.out
      /\ P.retrievers = [N.retrievers EXCEPT ![i] = t]
  BY <1>2, <1>3 DEF IsNcap, HasNcapFields
<1> HIDE DEF P
<1>5. /\ t \in Retrievers
      /\ t.lastTransId = n /\ t.step = r.step /\ t.teds = r.teds
  BY <1>1 DEF Retrievers
<1> HIDE DEF t
<1>6. /\ P.retrievers \in Seq(Retrievers)
      /\ DOMAIN P.retrievers = DOMAIN N.retrievers
      /\ \A j \in DOMAIN N.retrievers : P.retrievers[j] = IF j = i THEN t ELSE N.retrievers[j]
  BY <1>1, <1>4, <1>5
<1>7. Teds[r.step] \in MessageTeds
  <2>1. r.step \in 1..Len(Teds)
    BY <1>1, RetrieverStep
  <2>2. QED
    BY <2>1, TedsOfStep
<1>8. c \in Messages
  BY <1>1, <1>7, MessageTyped DEF Kinds
<1>9. IsReader(P)
  BY <1>1, <1>2, <1>4, <1>6, NextNumber DEF IsReader
<1>10. c.transId = n /\ c.teds = Teds[r.step]
  BY MessageFields
<1> HIDE DEF c
<1>11. ASSUME InTurn(N, D, I), P.nextId # 0
       PROVE  InTurn(P, D \cup {c}, DOMAIN P.retrievers)
  <2>1. n \in Nat \ {0} /\ P.nextId = n + 1
    BY <1>1, <1>2, <1>4, <1>11, NextNumber DEF InTurn
  <2>2. \A d \in D \cup {c} : d.transId \in 0..P.nextId - 1
    <3>1. \A d \in D : d.transId \in 0..n - 1
      BY <1>11 DEF InTurn
    <3>2. QED
      BY <3>1, <2>1, <1>10
  <2>3. ASSUME NEW j \in DOMAIN P.retrievers
        PROVE  Served(P.retrievers[j]) /\ Waits(P.retrievers[j], P.nextId, D \cup {c})
    <3>1. CASE j = i
      <4>1. P.retrievers[j] = t /\ Served(r)
        BY <1>6, <1>11, <3>1 DEF InTurn
      <4>2. \A d \in D : d.transId # n
        BY <1>11, <2>1 DEF InTurn
      <4>3. Served(t)
        BY <4>1, <1>5 DEF Served
      <4>4. Waits(t, n + 1, D \cup {c})
        BY <1>5, <1>10, <2>1, <4>2 DEF Waits
      <4>5. QED
        BY <4>1, <4>3, <4>4, <2>1
    <3>2. CASE j # i
      <4>1. j \in I /\ P.retrievers[j] = N.retrievers[j]
        BY <1>6, <3>2
      <4>2. Served(N.retrievers[j]) /\ Waits(N.retrievers[j], n, D)
        BY <1>11, <4>1 DEF InTurn
      <4>3. Waits(N.retrievers[j], n + 1, D \cup {c})
        BY <4>2, <2>1, <1>10, <1>11, WaitsOn DEF InTurn
      <4>4. QED
        BY <4>1, <4>2, <4>3, <2>1
    <3>3. QED
      BY <3>1, <3>2
  <2>4. \A j \in DOMAIN P.cache : P.cache[j].teds = Teds
    BY <1>2, <1>4, <1>11 DEF InTurn
  <2>5. QED
    BY <1>11, <2>2, <2>3, <2>4 DEF InTurn
<1>12. Said(P) \subseteq Said(N) \cup {c}
  BY <1>2, <1>4 DEF Said
<1>13. QED
  BY <1>8, <1>9, <1>11, <1>12 DEF Goes, P

(* The cache notes whether the TIM is connected.                           *)
Noted(N, b) == [N EXCEPT !.cache[1].connected = b]

(* Nothing else is changed by that.                                        *)
LEMMA NotedKeeps ==
  ASSUME NEW N, HasNcapFields(N), N.cache \in Seq(Entries), N.cache # << >>, NEW b \in BOOLEAN
  PROVE  LET P == Noted(N, b)
         IN /\ P.nextId = N.nextId /\ P.retrievers = N.retrievers /\ P.out = N.out
            /\ P.cache \in Seq(Entries)
            /\ DOMAIN P.cache = DOMAIN N.cache
            /\ \A i \in DOMAIN N.cache : P.cache[i].teds = N.cache[i].teds
<1> DEFINE P == Noted(N, b)
           e == [N.cache[1] EXCEPT !.connected = b]
<1>1. /\ P.nextId = N.nextId /\ P.retrievers = N.retrievers /\ P.out = N.out
      /\ P.cache = [N.cache EXCEPT ![1] = e]
  BY DEF Noted, HasNcapFields
<1> HIDE DEF P
<1>2. 1 \in DOMAIN N.cache /\ N.cache[1] \in Entries
  OBVIOUS
<1>3. e \in Entries /\ e.teds = N.cache[1].teds
  BY <1>2 DEF Entries
<1> HIDE DEF e
<1>4. QED
  BY <1>1, <1>2, <1>3 DEF P

(* The TIM is told to operate.                                             *)
LEMMA OperateGoes ==
  ASSUME NEW N, IsNcap(N), IsReader(N), N.cache # << >>, NEW D
  PROVE  Goes(N, Operate(N), D, DOMAIN N.retrievers)
<1> DEFINE n == N.nextId
           c == Message(n, "operate", Null)
           M == SendCommand(N, "operate", Null)
           P == Operate(N)
<1>1. /\ n \in 0..TransIds - 1 /\ N.retrievers \in Seq(Retrievers) /\ N.cache \in Seq(Entries)
  BY DEF IsReader
<1>2. /\ IsNcap(M)
      /\ M.nextId = (n + 1) % TransIds
      /\ M.retrievers = N.retrievers /\ M.cache = N.cache
      /\ Said(M) \subseteq Said(N) \cup {c}
  BY SendCommandSays
<1>3. P = Noted(M, TRUE)
  BY DEF Operate, Noted
<1> HIDE DEF M, P
<1>4. HasNcapFields(M)
  BY <1>2 DEF IsNcap
<1>5. /\ P.nextId = M.nextId /\ P.retrievers = N.retrievers /\ P.out = M.out
      /\ P.cache \in Seq(Entries)
      /\ DOMAIN P.cache = DOMAIN N.cache
      /\ \A i \in DOMAIN N.cache : P.cache[i].teds = N.cache[i].teds
  <2>1. M.cache \in Seq(Entries) /\ M.cache # << >>
    BY <1>1, <1>2
  <2>2. LET Q == Noted(M, TRUE)
        IN /\ Q.nextId = M.nextId /\ Q.retrievers = M.retrievers /\ Q.out = M.out
           /\ Q.cache \in Seq(Entries)
           /\ DOMAIN Q.cache = DOMAIN M.cache
           /\ \A i \in DOMAIN M.cache : Q.cache[i].teds = M.cache[i].teds
    BY <1>4, <2>1, NotedKeeps
  <2>3. QED
    BY <1>2, <1>3, <2>2
<1>6. c \in Messages
  <2>1. Null \in MessageTeds
    BY DEF MessageTeds
  <2>2. QED
    BY <1>1, <2>1, MessageTyped DEF Kinds
<1>7. IsReader(P)
  BY <1>1, <1>2, <1>5, NextNumber DEF IsReader
<1>8. c.transId = n
  BY MessageFields
<1> HIDE DEF c
<1>9. ASSUME InTurn(N, D, DOMAIN N.retrievers), P.nextId # 0
      PROVE  InTurn(P, D \cup {c}, DOMAIN P.retrievers)
  <2>1. n \in Nat \ {0} /\ P.nextId = n + 1
    BY <1>1, <1>2, <1>5, <1>9, NextNumber DEF InTurn
  <2>2. \A d \in D : d.transId \in 0..n - 1
    BY <1>9 DEF InTurn
  <2>3. \A d \in D \cup {c} : d.transId \in 0..n
    BY <2>1, <2>2, <1>8
  <2>4. \A j \in DOMAIN N.retrievers : Waits(N.retrievers[j], n + 1, D \cup {c})
    BY <2>1, <2>2, <1>8, <1>9, WaitsOn DEF InTurn
  <2>5. \A j \in DOMAIN N.retrievers : Served(N.retrievers[j])
    BY <1>9 DEF InTurn
  <2>6. \A j \in DOMAIN P.cache : P.cache[j].teds = Teds
    BY <1>5, <1>9 DEF InTurn
  <2>7. P.nextId - 1 = n
    BY <2>1
  <2>8. QED
    BY <1>5, <1>9, <2>1, <2>3, <2>4, <2>5, <2>6, <2>7 DEF InTurn
<1>10. Said(P) \subseteq Said(N) \cup {c}
  BY <1>2, <1>5 DEF Said
<1>11. QED
  BY <1>6, <1>7, <1>9, <1>10 DEF Goes, P

(* A TIM has connected: the known one operates, a new one is read.         *)
LEMMA ReportTimConnectedGoes ==
  ASSUME NEW N, IsNcap(N), IsReader(N), NEW D
  PROVE  Goes(N, ReportTimConnected(N), D, DOMAIN N.retrievers)
<1>1. CASE N.cache # << >>
  <2>1. ReportTimConnected(N) = Operate(N)
    BY <1>1 DEF ReportTimConnected
  <2>2. QED
    BY <1>1, <2>1, OperateGoes
<1>2. CASE N.cache = << >>
  <2> DEFINE e == [step |-> 1, lastTransId |-> 0, teds |-> << >>]
             R == N.retrievers
             Q == Append(R, e)
             S == [N EXCEPT !["retrievers"] = Q]
             P == ReportTimConnected(N)
  <2>1. P = Execute(S, Len(S.retrievers))
    BY <1>2 DEF ReportTimConnected
  <2>2. R \in Seq(Retrievers) /\ e \in Retrievers
    <3>1. 1 \in 1..Len(Teds)
      BY IeeeAssumption DEF IeeeAssumption
    <3>2. 0 \in 0..TransIds - 1
      BY IeeeAssumption DEF IeeeAssumption
    <3>3. QED
      BY <3>1, <3>2 DEF IsReader, Retrievers
  <2>3. e.step = 1 /\ e.teds = << >>
    OBVIOUS
  <2> HIDE DEF e
  <2>4. /\ Q \in Seq(Retrievers) /\ Len(Q) = Len(R) + 1 /\ Len(R) \in Nat
        /\ DOMAIN R = 1..Len(R) /\ DOMAIN Q = 1..Len(Q)
        /\ Q[Len(Q)] = e /\ \A i \in 1..Len(R) : Q[i] = R[i]
    <3> HIDE DEF R
    <3>1. Q \in Seq(Retrievers) /\ Len(Q) = Len(R) + 1
          /\ Q[Len(R) + 1] = e /\ \A i \in 1..Len(R) : Q[i] = R[i]
      BY <2>2, AppendProperties
    <3> HIDE DEF Q
    <3>2. QED
      BY <2>2, <3>1
  <2>5. Keeps(N, S)
    <3> HIDE DEF Q
    <3>1. QED
      BY KeepsOthers
  <2>6. /\ S.nextId = N.nextId /\ S.cache = N.cache /\ S.out = N.out /\ S.retrievers = Q
    BY DEF IsNcap, HasNcapFields
  <2> HIDE DEF S, Q, R
  <2>7. IsNcap(S) /\ IsReader(S)
    BY <2>4, <2>5, <2>6 DEF Keeps, IsReader
  <2> DEFINE k == Len(Q)
  <2>8. k \in DOMAIN S.retrievers /\ DOMAIN S.retrievers \ {k} = DOMAIN R
    BY <2>4, <2>6
  <2>9. Goes(S, P, D, DOMAIN R)
    BY <2>1, <2>6, <2>7, <2>8, ExecuteGoes
  <2>10. ASSUME InTurn(N, D, DOMAIN N.retrievers)
         PROVE  InTurn(S, D, DOMAIN R)
    <3>1. Served(e)
      <4>1. SubSeq(Teds, 1, 0) = << >>
        BY IeeeAssumption DEF IeeeAssumption
      <4>2. QED
        BY <2>3, <4>1 DEF Served
    <3>2. \A i \in DOMAIN S.retrievers : Served(S.retrievers[i])
      BY <2>4, <2>6, <2>10, <3>1 DEF InTurn, R
    <3>3. \A i \in DOMAIN R : Waits(S.retrievers[i], S.nextId, D)
      BY <2>4, <2>6, <2>10 DEF InTurn, R
    <3>4. QED
      BY <2>6, <2>10, <3>2, <3>3 DEF InTurn
  <2>11. Said(S) = Said(N)
    BY <2>6 DEF Said
  <2> HIDE DEF P
  <2>12. Goes(N, P, D, DOMAIN N.retrievers)
    BY <2>9, <2>10, <2>11 DEF Goes
  <2>13. QED
    BY <2>12 DEF P
<1>3. QED
  BY <1>1, <1>2

(* One TEDS more is read.                                                  *)
LEMMA OneMoreRead ==
  ASSUME NEW n \in 1..Len(Teds)
  PROVE  Append(SubSeq(Teds, 1, n - 1), Teds[n]) = SubSeq(Teds, 1, n)
<1> DEFINE P == Nat \X Nat
<1>1. Teds \in Seq(P)
  BY IeeeAssumption DEF IeeeAssumption
<1> HIDE DEF P
<1> DEFINE a == SubSeq(Teds, 1, n - 1)
           b == Append(a, Teds[n])
           c == SubSeq(Teds, 1, n)
<1>2. Len(a) = n - 1 /\ a \in Seq(P) /\ \A i \in 1..n - 1 : a[i] = Teds[i]
  BY <1>1, FirstOf
<1>3. Len(c) = n /\ c \in Seq(P) /\ \A i \in 1..n : c[i] = Teds[i]
  BY <1>1, FirstOf
<1>4. a \in Seq(P) /\ Teds[n] \in P
  BY <1>1, <1>2
<1> HIDE DEF a, c
<1>5. /\ b \in Seq(P) /\ Len(b) = n /\ b[n] = Teds[n]
      /\ \A i \in 1..n - 1 : b[i] = Teds[i]
  <2>1. /\ b \in Seq(P) /\ Len(b) = Len(a) + 1 /\ b[Len(a) + 1] = Teds[n]
        /\ \A i \in 1..Len(a) : b[i] = a[i]
    BY <1>4, AppendProperties
  <2> HIDE DEF b
  <2>2. QED
    BY <1>2, <2>1
<1> HIDE DEF b
<1>6. ASSUME NEW i \in 1..n
      PROVE  b[i] = c[i]
  <2>1. c[i] = Teds[i]
    BY <1>3
  <2>2. i = n \/ i \in 1..n - 1
    OBVIOUS
  <2>3. QED
    BY <1>5, <2>1, <2>2
<1>7. b = c
  BY <1>3, <1>5, <1>6, SeqEqual
<1>8. QED
  BY <1>7 DEF a, b, c

(* process() files the TEDS of a reply.                                    *)
ReadOn(N, i, msg) ==
    [N EXCEPT !.retrievers[i].teds = Append(@, msg.teds), !.retrievers[i].step = @ + 1]

(* Two fields of a retriever are written.                                  *)
LEMMA Refiled ==
  ASSUME NEW L, NEW T, NEW r \in [step : Nat, lastTransId : L, teds : T], NEW a \in T, NEW b \in Nat
  PROVE  LET u == [r EXCEPT !.teds = a, !.step = b]
         IN u \in [step : Nat, lastTransId : L, teds : T] /\ u.step = b /\ u.teds = a
<1> DEFINE v == [r EXCEPT !.teds = a]
           u == [v EXCEPT !.step = b]
<1>1. v \in [step : Nat, lastTransId : L, teds : T] /\ v.teds = a
  OBVIOUS
<1> HIDE DEF v
<1>2. u \in [step : Nat, lastTransId : L, teds : T] /\ u.step = b /\ u.teds = v.teds
  BY <1>1
<1>3. u = [r EXCEPT !.teds = a, !.step = b]
  BY DEF v
<1>4. QED
  BY <1>1, <1>2, <1>3

(* Nothing else is changed by that.                                        *)
LEMMA ReadOnIs ==
  ASSUME NEW N, IsNcap(N), IsReader(N), NEW i \in DOMAIN N.retrievers, NEW msg \in Messages
  PROVE  LET M == ReadOn(N, i, msg)
             R == N.retrievers
             t == M.retrievers[i]
         IN /\ M.nextId = N.nextId /\ M.cache = N.cache /\ M.out = N.out
            /\ IsNcap(M)
            /\ t \in AfterRead /\ t.step = R[i].step + 1 /\ t.teds = Append(R[i].teds, msg.teds)
            /\ M.retrievers \in Seq(AfterRead) /\ Len(M.retrievers) = Len(R)
            /\ \A j \in 1..Len(R) : j # i => M.retrievers[j] = R[j]
<1> DEFINE M == ReadOn(N, i, msg)
           R == N.retrievers
           r == R[i]
           a == Append(r.teds, msg.teds)
           b == r.step + 1
           t == [r EXCEPT !.teds = a, !.step = b]
<1>1. R \in Seq(Retrievers) /\ r \in Retrievers
  BY DEF IsReader
<1>2. t \in AfterRead /\ t.step = b /\ t.teds = a
  <2>1. msg.teds \in MessageTeds
    BY DEF Messages, MessageTeds
  <2>2. b \in Nat /\ r \in AfterRead /\ r.teds \in Seq(MessageTeds)
    <3> HIDE DEF r
    <3>1. r \in AfterRead
      BY <1>1 DEF Retrievers, AfterRead
    <3>2. r.step \in Nat /\ r.teds \in Seq(MessageTeds)
      BY <3>1 DEF AfterRead
    <3>3. QED
      BY <3>1, <3>2
  <2>3. a \in Seq(MessageTeds)
    BY <2>1, <2>2, AppendProperties
  <2> HIDE DEF a, b
  <2>4. QED
    BY <2>2, <2>3, Refiled DEF AfterRead
<1>3. /\ HasNcapFields(M)
      /\ M.clones = N.clones /\ M.out = N.out /\ M.nextId = N.nextId /\ M.cache = N.cache
      /\ M.retrievers = [R EXCEPT ![i] = t]
  <2>1. M = [N EXCEPT !.retrievers = [R EXCEPT ![i] = t]]
    BY <1>1 DEF ReadOn, IsNcap, HasNcapFields
  <2> HIDE DEF M, t
  <2>2. QED
    BY <2>1 DEF IsNcap, HasNcapFields
<1>4. t.step = r.step + 1 /\ t.teds = Append(r.teds, msg.teds)
  BY <1>2
<1> HIDE DEF M, t
<1>5. IsNcap(M)
  BY <1>3, KeepsAsItIs DEF Keeps
<1>6. R \in Seq(AfterRead)
  <2>1. Retrievers \subseteq AfterRead
    BY IeeeAssumption DEF Retrievers, AfterRead, IeeeAssumption
  <2>2. QED
    BY <1>1, <2>1, SeqMonotonic
<1>7. /\ M.retrievers \in Seq(AfterRead) /\ Len(M.retrievers) = Len(R)
      /\ M.retrievers[i] = t
      /\ \A j \in 1..Len(R) : j # i => M.retrievers[j] = R[j]
  <2>1. i \in 1..Len(R)
    BY <1>1
  <2> HIDE DEF R
  <2>2. /\ [R EXCEPT ![i] = t] \in Seq(AfterRead) /\ Len([R EXCEPT ![i] = t]) = Len(R)
        /\ \A j \in 1..Len(R) : [R EXCEPT ![i] = t][j] = IF j = i THEN t ELSE R[j]
    BY <1>2, <1>6, <2>1, ExceptSeq
  <2>3. QED
    BY <1>3, <2>1, <2>2
<1>8. QED
  BY <1>2, <1>3, <1>4, <1>5, <1>7 DEF M

(* A reply is about the TEDS of the step of the retriever that awaits it.  *)
LEMMA ReadIsServed ==
  ASSUME NEW r \in Retrievers, NEW n, NEW D, NEW msg \in D, Served(r), Waits(r, n, D), Awaits(r, msg),
         NEW t, t.step = r.step + 1, t.teds = Append(r.teds, msg.teds)
  PROVE  Served(t) /\ t.teds = SubSeq(Teds, 1, r.step)
<1>1. r.step \in 1..Len(Teds) /\ r.step \in Nat
  <2>1. Len(Teds) \in Nat
    BY IeeeAssumption DEF IeeeAssumption
  <2>2. QED
    BY <2>1 DEF Retrievers
<1>2. msg.teds = Teds[r.step]
  BY DEF Waits, Awaits
<1>3. Append(SubSeq(Teds, 1, r.step - 1), Teds[r.step]) = SubSeq(Teds, 1, r.step)
  BY <1>1, OneMoreRead
<1>4. t.teds = SubSeq(Teds, 1, r.step)
  BY <1>2, <1>3 DEF Served
<1>5. t.step - 1 = r.step
  BY <1>1
<1>6. QED
  BY <1>4, <1>5 DEF Served

(* The retriever that has read all TEDS makes room for an entry.           *)
Filed(M, i) ==
    [M EXCEPT !.cache = Append(@, [connected |-> FALSE, teds |-> M.retrievers[i].teds]),
              !.retrievers = RemoveAt(@, i)]

(* The other retrievers and entries stay what they are.                    *)
LEMMA FiledIs ==
  ASSUME NEW M, IsNcap(M), M.nextId \in 0..TransIds - 1, M.cache \in Seq(Entries),
         M.retrievers \in Seq(AfterRead), NEW i \in 1..Len(M.retrievers),
         \A j \in 1..Len(M.retrievers) : j # i => M.retrievers[j] \in Retrievers
  PROVE  LET F == Filed(M, i)
         IN /\ IsNcap(F) /\ IsReader(F)
            /\ F.nextId = M.nextId /\ F.out = M.out
            /\ \A k \in DOMAIN F.retrievers :
                 \E j \in 1..Len(M.retrievers) : j # i /\ F.retrievers[k] = M.retrievers[j]
            /\ \A k \in DOMAIN F.cache :
                 \/ k \in DOMAIN M.cache /\ F.cache[k] = M.cache[k]
                 \/ F.cache[k].teds = M.retrievers[i].teds
<1> DEFINE F == Filed(M, i)
           R == M.retrievers
           Q == RemoveAt(R, i)
           e == [connected |-> FALSE, teds |-> R[i].teds]
           C == Append(M.cache, e)
<1>1. /\ HasNcapFields(F)
      /\ F.clones = M.clones /\ F.out = M.out /\ F.nextId = M.nextId
      /\ F.retrievers = Q /\ F.cache = C
  <2>1. F = [M EXCEPT !.cache = C, !.retrievers = Q]
    BY DEF Filed
  <2> HIDE DEF F, C, Q
  <2>2. QED
    BY <2>1 DEF IsNcap, HasNcapFields
<1> HIDE DEF F
<1>2. IsNcap(F)
  BY <1>1, KeepsAsItIs DEF Keeps
<1>3. /\ Q \in Seq(AfterRead) /\ Len(Q) = Len(R) - 1 /\ Len(R) \in Nat
      /\ \A k \in 1..Len(R) - 1 : Q[k] = IF k < i THEN R[k] ELSE R[k + 1]
  <2> HIDE DEF Q, R
  <2>1. R \in Seq(AfterRead) /\ i \in 1..Len(R)
    BY DEF R
  <2>2. Len(R) \in Nat
    BY <2>1
  <2>3. Q = RemoveAt(R, i)
    BY DEF Q
  <2>4. /\ Q \in Seq(AfterRead) /\ Len(Q) = Len(R) - 1
        /\ \A k \in 1..Len(R) - 1 : Q[k] = IF k < i THEN R[k] ELSE R[k + 1]
    BY ONLY <2>1, <2>3, RemoveAtElements, ZenonT(30)
  <2>5. QED
    BY <2>2, <2>4
<1>4. DOMAIN Q = 1..Len(R) - 1
  <2> HIDE DEF Q, R
  <2>1. QED
    BY <1>3
<1>5. ASSUME NEW k \in 1..Len(R) - 1
      PROVE  \E j \in 1..Len(R) : j # i /\ Q[k] = R[j]
  <2> HIDE DEF Q, R
  <2>1. k \in Nat /\ k \in 1..Len(R) /\ k + 1 \in 1..Len(R) /\ i \in Nat
    BY <1>3 DEF R
  <2>2. CASE k < i
    BY <1>3, <2>1, <2>2
  <2>3. CASE ~(k < i)
    <3>1. k + 1 # i /\ Q[k] = R[k + 1]
      BY <1>3, <2>1, <2>3
    <3>2. QED
      BY <2>1, <3>1
  <2>4. QED
    BY <2>2, <2>3
<1>6. Q \in Seq(Retrievers)
  <2>1. \A k \in 1..Len(Q) : Q[k] \in Retrievers
    BY <1>3, <1>5
  <2> HIDE DEF Q, R
  <2>2. QED
    BY <1>3, <2>1
<1>7. e \in Entries /\ e.teds = R[i].teds
  <2>1. R[i] \in AfterRead
    OBVIOUS
  <2>2. R[i].teds \in Seq(MessageTeds)
    BY <2>1 DEF AfterRead
  <2>3. QED
    BY <2>2 DEF Entries
<1> HIDE DEF e
<1>8. /\ C \in Seq(Entries) /\ Len(C) = Len(M.cache) + 1
      /\ C[Len(M.cache) + 1] = e
      /\ \A k \in 1..Len(M.cache) : C[k] = M.cache[k]
  BY <1>7, AppendProperties
<1>9. ASSUME NEW k \in DOMAIN C
      PROVE  \/ k \in DOMAIN M.cache /\ C[k] = M.cache[k]
             \/ C[k].teds = R[i].teds
  <2>1. DOMAIN C = 1..Len(M.cache) + 1 /\ Len(M.cache) \in Nat /\ DOMAIN M.cache = 1..Len(M.cache)
    <3> HIDE DEF C
    <3>1. QED
      BY <1>8
  <2>2. k \in 1..Len(M.cache) \/ k = Len(M.cache) + 1
    BY <2>1
  <2>3. QED
    BY <1>7, <1>8, <2>1, <2>2
<1> HIDE DEF C, Q
<1>10. IsReader(F)
  BY <1>1, <1>6, <1>8 DEF IsReader
<1>11. /\ \A k \in DOMAIN F.retrievers : \E j \in 1..Len(R) : j # i /\ F.retrievers[k] = R[j]
       /\ \A k \in DOMAIN F.cache : \/ k \in DOMAIN M.cache /\ F.cache[k] = M.cache[k]
                                    \/ F.cache[k].teds = R[i].teds
  BY <1>1, <1>4, <1>5, <1>9
<1>12. QED
  BY <1>1, <1>2, <1>10, <1>11 DEF F

(* The retriever that a reply is for reads on, or is done.                 *)
LEMMA ProcessGoes ==
  ASSUME NEW N, IsNcap(N), IsReader(N), NEW i \in DOMAIN N.retrievers,
         NEW D, NEW msg \in Messages, msg \in D, Awaits(N.retrievers[i], msg)
  PROVE  Goes(N, Process(N, i, msg), D, DOMAIN N.retrievers)
<1> DEFINE R == N.retrievers
           r == R[i]
           M == ReadOn(N, i, msg)
           t == M.retrievers[i]
           P == Process(N, i, msg)
           I == DOMAIN R
<1>1. /\ R \in Seq(Retrievers) /\ r \in Retrievers /\ DOMAIN R = 1..Len(R)
      /\ \A j \in 1..Len(R) : R[j] \in Retrievers
      /\ N.nextId \in 0..TransIds - 1 /\ N.cache \in Seq(Entries)
  BY DEF IsReader
<1>2. /\ M.nextId = N.nextId /\ M.cache = N.cache /\ M.out = N.out
      /\ IsNcap(M)
      /\ t \in AfterRead /\ t.step = r.step + 1 /\ t.teds = Append(r.teds, msg.teds)
      /\ M.retrievers \in Seq(AfterRead) /\ Len(M.retrievers) = Len(R)
      /\ \A j \in 1..Len(R) : j # i => M.retrievers[j] = R[j]
  BY ReadOnIs
<1>3. P = IF t.step <= Len(Teds) THEN Execute(M, i) ELSE UpdateTIMCompleted(M, i)
  BY DEF Process, ReadOn
<1> HIDE DEF M, P
<1>4. Said(M) = Said(N)
  BY <1>2 DEF Said
<1>5. DOMAIN M.retrievers = DOMAIN R
  BY <1>1, <1>2
<1>6. InTurn(N, D, I) => Served(t) /\ t.teds = SubSeq(Teds, 1, r.step)
  <2>1. SUFFICES ASSUME InTurn(N, D, I)
                 PROVE  Served(t) /\ t.teds = SubSeq(Teds, 1, r.step)
    OBVIOUS
  <2>2. Served(r) /\ Waits(r, N.nextId, D)
    BY <2>1 DEF InTurn
  <2>3. r \in Retrievers /\ Awaits(r, msg) /\ msg \in D
    BY <1>1
  <2>4. t.step = r.step + 1 /\ t.teds = Append(r.teds, msg.teds)
    BY <1>2
  <2> HIDE DEF r, t
  <2>5. QED
    BY ONLY <2>2, <2>3, <2>4, ReadIsServed, Zenon
<1>7. r.step \in Nat /\ r.step <= Len(Teds) /\ Len(Teds) \in Nat
  <2>1. Len(Teds) \in Nat
    BY IeeeAssumption DEF IeeeAssumption
  <2>2. r.step \in 1..Len(Teds)
    BY <1>1, RetrieverStep
  <2>3. QED
    BY <2>1, <2>2
<1>8. CASE t.step <= Len(Teds)
  <2>1. t \in Retrievers
    <3>1. t \in AfterRead /\ t.step \in 1..Len(Teds)
      BY <1>2, <1>7, <1>8
    <3> HIDE DEF t
    <3>2. QED
      BY <3>1 DEF AfterRead, Retrievers
  <2>2. M.retrievers \in Seq(Retrievers)
    <3>1. \A j \in 1..Len(M.retrievers) : M.retrievers[j] \in Retrievers
      BY <1>1, <1>2, <2>1
    <3>2. QED
      BY <1>2, <3>1
  <2>3. IsReader(M)
    BY <1>1, <1>2, <2>2 DEF IsReader
  <2>4. P = Execute(M, i) /\ i \in DOMAIN M.retrievers
    BY <1>3, <1>5, <1>8
  <2>5. Goes(M, P, D, I \ {i})
    BY <1>2, <1>5, <2>3, <2>4, ExecuteGoes
  <2>6. ASSUME InTurn(N, D, I)
        PROVE  InTurn(M, D, I \ {i})
    <3>1. \A j \in DOMAIN M.retrievers : Served(M.retrievers[j])
      BY <1>1, <1>2, <1>5, <1>6, <2>6 DEF InTurn
    <3>2. \A j \in I \ {i} : Waits(M.retrievers[j], M.nextId, D)
      BY <1>1, <1>2, <2>6 DEF InTurn
    <3>3. QED
      BY <1>2, <2>6, <3>1, <3>2 DEF InTurn
  <2>7. QED
    BY <1>4, <2>5, <2>6 DEF Goes, P
<1>9. CASE ~(t.step <= Len(Teds))
  <2> DEFINE F == Filed(M, i)
  <2>1. P = ReportTimConnected(F)
    BY <1>3, <1>9 DEF UpdateTIMCompleted, Filed
  <2>2. /\ i \in 1..Len(M.retrievers)
        /\ \A j \in 1..Len(M.retrievers) : j # i => M.retrievers[j] \in Retrievers
    BY <1>1, <1>2
  <2>3. /\ IsNcap(F) /\ IsReader(F)
        /\ F.nextId = M.nextId /\ F.out = M.out
        /\ \A k \in DOMAIN F.retrievers :
             \E j \in 1..Len(M.retrievers) : j # i /\ F.retrievers[k] = M.retrievers[j]
        /\ \A k \in DOMAIN F.cache :
             \/ k \in DOMAIN M.cache /\ F.cache[k] = M.cache[k]
             \/ F.cache[k].teds = t.teds
    BY <1>1, <1>2, <2>2, FiledIs
  <2> HIDE DEF F
  <2>4. Goes(F, P, D, DOMAIN F.retrievers)
    BY <2>1, <2>3, ReportTimConnectedGoes
  <2>5. ASSUME InTurn(N, D, I)
        PROVE  InTurn(F, D, DOMAIN F.retrievers)
    <3>1. \A k \in DOMAIN F.retrievers : \E j \in I : F.retrievers[k] = R[j]
      BY <1>1, <1>2, <2>3
    <3>2. \A k \in DOMAIN F.retrievers : /\ Served(F.retrievers[k])
                                         /\ Waits(F.retrievers[k], F.nextId, D)
      BY <1>2, <2>3, <2>5, <3>1 DEF InTurn
    <3>3. t.teds = Teds
      <4>1. r.step = Len(Teds)
        BY <1>2, <1>7, <1>9
      <4>2. SubSeq(Teds, 1, Len(Teds)) = Teds
        BY IeeeAssumption, SubSeqFull DEF IeeeAssumption
      <4>3. QED
        BY <1>6, <2>5, <4>1, <4>2
    <3>4. \A k \in DOMAIN F.cache : F.cache[k].teds = Teds
      BY <1>2, <2>3, <2>5, <3>3 DEF InTurn
    <3>5. QED
      BY <1>2, <2>3, <2>5, <3>2, <3>4 DEF InTurn
  <2>6. Said(F) = Said(N)
    BY <1>4, <2>3 DEF Said
  <2>7. QED
    BY <2>4, <2>5, <2>6 DEF Goes, P
<1>10. QED
  BY <1>8, <1>9

(* Nothing is sent, and retrievers and cache stay what they are.           *)
LEMMA GoesQuietly ==
  ASSUME NEW N, IsReader(N), NEW P, NEW D,
         P.nextId = N.nextId, P.retrievers = N.retrievers, P.cache = N.cache,
         Said(P) \subseteq Said(N)
  PROVE  Goes(N, P, D, DOMAIN N.retrievers)
<1>1. IsReader(P)
  BY DEF IsReader
<1>2. InTurn(N, D, DOMAIN N.retrievers) => InTurn(P, D \cup {}, DOMAIN P.retrievers)
  BY DEF InTurn
<1>3. QED
  BY <1>1, <1>2 DEF Goes

(* A message of the TIM goes to the retriever that awaits it, if any.      *)
LEMMA ReceiveReplyGoes ==
  ASSUME NEW N, IsNcap(N), IsReader(N), NEW D, NEW msg \in Messages, msg \in D
  PROVE  Goes(N, ReceiveReply(N, msg), D, DOMAIN N.retrievers)
<1> DEFINE R == N.retrievers
           I == {j \in 1..Len(R) : Awaits(R[j], msg)}
           i == SelectInSeq(R, LAMBDA r : Awaits(r, msg))
<1>1. i = IF I # {} THEN Min(I) ELSE 0
  BY DEF SelectInSeq
<1>2. DOMAIN R = 1..Len(R) /\ Len(R) \in Nat
  BY DEF IsReader
<1>3. I # {} => Min(I) \in I
  <2>1. I \in SUBSET Nat
    BY <1>2
  <2> HIDE DEF I
  <2>2. ASSUME I # {} PROVE \E n \in I : \A m \in I : n <= m
    BY <2>1, <2>2, LeastNatural
  <2>3. QED
    BY <2>2 DEF Min
<1>4. i # 0 => i \in DOMAIN R /\ Awaits(R[i], msg)
  BY <1>1, <1>2, <1>3
<1>5. ReceiveReply(N, msg) = IF msg.transId = Unasked \/ i = 0 THEN N ELSE Process(N, i, msg)
  BY DEF ReceiveReply
<1> HIDE DEF i
<1>6. CASE ReceiveReply(N, msg) = N
  BY <1>6, GoesQuietly
<1>7. CASE ReceiveReply(N, msg) = Process(N, i, msg) /\ i # 0
  BY <1>4, <1>7, ProcessGoes
<1>8. QED
  BY <1>5, <1>6, <1>7

(* What the NCAP makes of what a socket tells it; data is a message that   *)
(* has been sent.                                                          *)
LEMMA CalledGoes ==
  ASSUME NEW N, IsNcap(N), IsReader(N), NEW i \in 1..Len(N.clones), NEW data, NEW calls, NEW D,
         "received" \in calls => data \in Messages /\ data \in D
  PROVE  Goes(N, Called(N, i, data, calls), D, DOMAIN N.retrievers)
<1> DEFINE M == Called(N, i, data, calls)
           J == DOMAIN N.retrievers
<1>1. CASE M = ReportTimConnected(N)
  BY <1>1, ReportTimConnectedGoes
<1>2. CASE M = ReceiveReply(N, data) /\ "received" \in calls
  BY <1>2, ReceiveReplyGoes
<1>3. CASE M = [N EXCEPT !.clones[i] = Close(@).socket, !.out = @ \o Close(N.clones[i]).sent]
  <2> DEFINE s == N.clones[i]
             o == Close(s)
  <2>1. s \in TcpSockets
    BY DEF IsNcap
  <2>2. o.sent \in Seq(Replies({Null}))
    BY <2>1, CloseLater DEF Controls
  <2>3. M = Used(N, i, o.socket, o.sent)
    BY <1>3 DEF Used
  <2> HIDE DEF o, M
  <2>4. /\ M.nextId = N.nextId /\ M.retrievers = N.retrievers /\ M.cache = N.cache
        /\ M.out = N.out \o o.sent
    BY <2>3 DEF IsNcap, Used, HasNcapFields
  <2>5. Said(M) \subseteq Said(N) \cup ({Null} \ {Null})
    BY <2>2, <2>4, SaidMore
  <2>6. QED
    BY <2>4, <2>5, GoesQuietly DEF M
<1>4. CASE M = [ReportTimDisconnected(N) EXCEPT !.clones = RemoveAt(@, i)]
  <2> DEFINE P == ReportTimDisconnected(N)
  <2>1. IsNcap(P)
    BY ReportTimDisconnectedKeeps DEF Keeps
  <2>2. M = [P EXCEPT !.clones = RemoveAt(@, i)]
    BY <1>4
  <2>3. P = IF N.cache = << >> THEN N ELSE Noted(N, FALSE)
    BY DEF ReportTimDisconnected, Noted
  <2> HIDE DEF P, M
  <2>4. M.nextId = P.nextId /\ M.retrievers = P.retrievers /\ M.cache = P.cache /\ M.out = P.out
    BY <2>1, <2>2 DEF IsNcap, HasNcapFields
  <2>5. CASE N.cache = << >>
    <3>1. Said(M) \subseteq Said(N)
      BY <2>3, <2>4, <2>5 DEF Said
    <3>2. QED
      BY <2>3, <2>4, <2>5, <3>1, GoesQuietly DEF M
  <2>6. CASE N.cache # << >>
    <3>1. /\ P.nextId = N.nextId /\ P.retrievers = N.retrievers /\ P.out = N.out
          /\ P.cache \in Seq(Entries)
          /\ DOMAIN P.cache = DOMAIN N.cache
          /\ \A k \in DOMAIN N.cache : P.cache[k].teds = N.cache[k].teds
      BY <2>3, <2>6, NotedKeeps DEF IsNcap, IsReader
    <3>2. IsReader(M)
      BY <2>4, <3>1 DEF IsReader
    <3>3. InTurn(N, D, J) => InTurn(M, D \cup {}, DOMAIN M.retrievers)
      BY <2>4, <3>1 DEF InTurn
    <3>4. Said(M) \subseteq Said(N) \cup {}
      BY <2>4, <3>1 DEF Said
    <3>5. Goes(N, M, D, J)
      BY <3>2, <3>3, <3>4 DEF Goes
    <3>6. QED
      BY <3>5 DEF M
  <2>7. QED
    BY <2>5, <2>6
<1>5. CASE M = N
  BY <1>5, GoesQuietly
<1> DEFINE a == ReportTimConnected(N)
           b == ReceiveReply(N, data)
           c == [N EXCEPT !.clones[i] = Close(@).socket, !.out = @ \o Close(N.clones[i]).sent]
           d == [ReportTimDisconnected(N) EXCEPT !.clones = RemoveAt(@, i)]
<1>6. M = CASE "connected" \in calls -> a
            [] "received" \in calls  -> b
            [] "closing" \in calls   -> c
            [] "closed" \in calls    -> d
            [] OTHER                 -> N
  BY DEF Called
<1> HIDE DEF a, b, c, d, M
<1>7. M \in {a, c, d, N} \/ (M = b /\ "received" \in calls)
  BY <1>6
<1>8. QED
  BY <1>1, <1>2, <1>3, <1>4, <1>5, <1>7 DEF a, b, c, d, M

-----------------------------------------------------------------------------
(* The types                                                               *)

Places == {"start", "connecting", "connected", "suspended", "loop", "finishing",
           "finished", "open", "halfOpen", "disconnecting", "collect", "collected",
           "reconnecting", "reconnected", "sending"}

(* The messages that have been sent, and the one that is about to be.      *)
Spoken(L, a) == {d.data : d \in L} \cup (IF a = Null THEN {} ELSE {a.segment.data})

Unsent(h) == Headed(h) /\ h.data = Message(Unasked, "set", Null)

SensorOK ==
    /\ mode \in Modes /\ pc \in Places /\ connected \in BOOLEAN
    /\ pos \in 0..DataSetSize - 1
    /\ header = Null \/ Unsent(header) \/ IsFin(header)
    /\ pc = "sending" => Unsent(header)

ReaderInv ==
    /\ SensorOK
    /\ Spoken(log, asking) \subseteq Messages
    /\ IsReader(ncap) /\ ncap.out = << >>

(* Until the counter wraps, every retriever waits for its own TEDS.        *)
AllInTurn == InTurn(ncap, Spoken(log, asking), DOMAIN ncap.retrievers)

(* What a step does to the two.                                            *)
ReaderStep ==
    /\ ReaderInv'
    /\ AllInTurn /\ ncap'.nextId # 0 => AllInTurn'

(* Fewer messages are no harm.                                             *)
LEMMA InTurnFewer ==
  ASSUME NEW N, NEW D, NEW E \in SUBSET D, NEW I, InTurn(N, D, I)
  PROVE  InTurn(N, E, I)
BY DEF InTurn, Waits

(* At the start nothing is said and nobody waits.                          *)
LEMMA ReaderInit == Init => ReaderInv /\ AllInTurn
<1> SUFFICES ASSUME Init PROVE ReaderInv /\ AllInTurn
  OBVIOUS
<1>1. /\ log = {} /\ asking = Null /\ header = Null /\ pc = "start" /\ mode \in Modes
      /\ connected = FALSE /\ pos = 0
      /\ ncap = [clones |-> << >>, retrievers |-> << >>, cache |-> << >>, nextId |-> 1,
                 out |-> << >>]
  BY DEF Init
<1>2. 0 \in 0..DataSetSize - 1 /\ 1 \in 0..TransIds - 1
  BY IeeeAssumption DEF IeeeAssumption
<1>3. SensorOK
  BY <1>1, <1>2 DEF SensorOK, Places
<1>4. Spoken(log, asking) = {}
  BY <1>1 DEF Spoken
<1>5. ncap.retrievers = << >> /\ ncap.cache = << >> /\ ncap.nextId = 1 /\ ncap.out = << >>
  BY <1>1
<1>6. IsReader(ncap)
  BY <1>2, <1>5 DEF IsReader
<1>7. AllInTurn
  BY <1>4, <1>5 DEF AllInTurn, InTurn
<1>8. QED
  BY <1>3, <1>4, <1>5, <1>6, <1>7 DEF ReaderInv

(* Steps that say nothing.                                                 *)
LEMMA QuietStep ==
  ASSUME ReaderInv, SensorOK', UNCHANGED <<log, asking>>,
         ncap'.nextId = ncap.nextId, ncap'.retrievers = ncap.retrievers,
         ncap'.cache = ncap.cache, ncap'.out = ncap.out
  PROVE  ReaderStep
<1>1. Spoken(log', asking') = Spoken(log, asking)
  OBVIOUS
<1>2. IsReader(ncap')
  BY DEF ReaderInv, IsReader
<1>3. AllInTurn => AllInTurn'
  BY <1>1 DEF AllInTurn, InTurn
<1>4. QED
  BY <1>1, <1>2, <1>3 DEF ReaderInv, ReaderStep

(* What is sent is logged.                                                 *)
LEMMA SpokenLogged ==
  ASSUME NEW q, NEW a
  PROVE  Spoken(Logged(q), a) = Spoken(log, a) \cup ({m.data : m \in ToSet(q)} \ {Null})
<1> DEFINE Q == {[seq |-> m.seq, data |-> m.data] : m \in {n \in ToSet(q) : n.data # Null}}
<1>1. Logged(q) = log \cup Q
  BY DEF Logged
<1>2. {d.data : d \in Q} = {m.data : m \in ToSet(q)} \ {Null}
  <2>1. ASSUME NEW d \in Q
        PROVE  d.data \in {m.data : m \in ToSet(q)} \ {Null}
    OBVIOUS
  <2>2. ASSUME NEW m \in ToSet(q), m.data # Null
        PROVE  \E d \in Q : d.data = m.data
    <3>1. [seq |-> m.seq, data |-> m.data] \in Q
      BY <2>2
    <3>2. QED
      BY <3>1
  <2> HIDE DEF Q
  <2>3. QED
    BY <2>1, <2>2
<1> HIDE DEF Q
<1>3. {d.data : d \in Logged(q)} = {d.data : d \in log} \cup {d.data : d \in Q}
  BY <1>1
<1>4. QED
  BY <1>2, <1>3 DEF Spoken

(* A reply says of a TEDS what the request for it did.                     *)
LEMMA InTurnReplied ==
  ASSUME NEW N, NEW D, NEW E, NEW I, InTurn(N, D, I),
         \A e \in E : \E d \in D : d.transId = e.transId /\ d.teds = e.teds
  PROVE  InTurn(N, D \cup E, I)
<1>1. \A e \in E : e.transId \in 0..N.nextId - 1
  BY DEF InTurn
<1>2. ASSUME NEW i \in I
      PROVE  Waits(N.retrievers[i], N.nextId, D \cup E)
  <2>1. Waits(N.retrievers[i], N.nextId, D)
    BY DEF InTurn
  <2>2. QED
    BY <2>1 DEF Waits
<1>3. QED
  BY <1>1, <1>2 DEF InTurn

(* A message that nobody has asked for is for no retriever.                *)
LEMMA InTurnUnasked ==
  ASSUME NEW N, IsReader(N), NEW D, NEW I, InTurn(N, D, I), NEW e, e.transId = Unasked
  PROVE  InTurn(N, D \cup {e}, I)
<1>1. N.nextId \in Nat \ {0}
  BY DEF IsReader, InTurn
<1>2. e.transId \in 0..N.nextId - 1
  BY <1>1 DEF Unasked
<1>3. ASSUME NEW i \in I
      PROVE  Waits(N.retrievers[i], N.nextId, D \cup {e})
  <2>1. Waits(N.retrievers[i], N.nextId, D)
    BY DEF InTurn
  <2>2. N.retrievers[i].lastTransId # 0
    BY <1>1, <2>1 DEF Waits
  <2>3. QED
    BY <2>1, <2>2 DEF Waits, Unasked
<1>4. QED
  BY <1>2, <1>3 DEF InTurn

(* A command other than that of a retriever has a number of its own.       *)
LEMMA InTurnCounted ==
  ASSUME NEW N, IsReader(N), NEW D, NEW I, InTurn(N, D, I), NEW e, e.transId = N.nextId,
         NEW P, P.retrievers = N.retrievers, P.cache = N.cache, P.nextId = N.nextId + 1
  PROVE  InTurn(P, D \cup {e}, I)
<1>1. N.nextId \in Nat \ {0} /\ P.nextId - 1 = N.nextId /\ P.nextId # 0
  BY DEF IsReader, InTurn
<1>2. \A d \in D : d.transId \in 0..N.nextId - 1
  BY DEF InTurn
<1>3. \A d \in D \cup {e} : d.transId \in 0..P.nextId - 1
  BY <1>1, <1>2
<1>4. \A i \in I : Waits(N.retrievers[i], N.nextId + 1, D \cup {e})
  BY <1>1, <1>2, WaitsOn DEF InTurn
<1>5. QED
  BY <1>1, <1>3, <1>4 DEF InTurn

(* What is under way is a message, and has been sent.                      *)
LEMMA UnderSpoken ==
  ASSUME ReaderInv, NEW node, NEW G, NEW m \in Under(node, G, log), m.data # Null
  PROVE  m.data \in Messages /\ m.data \in Spoken(log, asking)
<1>1. m.data \in Spoken(log, asking)
  BY DEF Under, DataOf, Spoken
<1>2. QED
  BY <1>1 DEF ReaderInv

(* The TIM answers a command with its own number.                          *)
LEMMA TimReceiveReads ==
  ASSUME DeliveryInv, ReaderInv, TimReceive
  PROVE  ReaderStep
<1> DEFINE m == Head(net["tim"])
           o == Handle(client, m)
           a == Answer(o, m)
           D == Spoken(log, asking)
<1>1. /\ net["tim"] # << >>
      /\ UNCHANGED <<mode, pos, header, ncap, asking>>
      /\ pc' = pc \/ pc' = Start(pc)
      /\ connected' \in BOOLEAN
      /\ log' = log \/ (client # Null /\ log' = Logged(a.sent))
  BY DEF TimReceive, ReaderInv, SensorOK
<1>2. SensorOK'
  BY <1>1 DEF ReaderInv, SensorOK, Start, Places
<1>3. CASE log' = log
  BY <1>1, <1>2, <1>3, QuietStep
<1>4. CASE client # Null /\ log' = Logged(a.sent)
  <2>1. m \in Under("tim", got, log)
    <3>1. << >> \in Seq(Under("ncap", got, log))
      OBVIOUS
    <3>2. QED
      BY <1>1, <3>1, Exchanged DEF DeliveryInv, Nodes
  <2>2. HasSocket(client, ncap.clones, got)
    BY <1>4 DEF DeliveryInv, ClientOK
  <2>3. client \in TcpSockets
    BY <2>2, HeldIsTyped
  <2>4. HandledOK(client, m, o)
    <3>1. /\ m \in [seq : Nat, ack : Int, flags : SUBSET Flags, data : DataOf(log)]
          /\ "syn" \in m.flags => "ack" \in m.flags
      BY <2>1 DEF Under
    <3> HIDE DEF m
    <3>2. QED
      BY <2>3, <3>1, HandleOK
  <2> DEFINE E == {x.data : x \in ToSet(a.sent)} \ {Null}
  <2>5. o.sent \in Seq(Controls) /\ o.socket \in TcpSockets
        /\ ("received" \in o.calls => m.data # Null)
    BY <2>4 DEF HandledOK
  <2> HIDE DEF m, o
  <2>6. \A e \in E : /\ e = Reply(m.data)
                     /\ m.data # Null /\ m.data.kind \in {"readTeds", "readSet"}
    <3>1. CASE a = o
      <4>1. \A x \in ToSet(o.sent) : x \in Controls
        BY <2>5 DEF ToSet
      <4>2. \A x \in ToSet(o.sent) : x.data = Null
        BY <4>1 DEF Controls, Replies
      <4>3. QED
        BY <3>1, <4>2
    <3>2. CASE a # o
      <4> DEFINE r == Reply(m.data)
                 b == Send(o.socket, r)
      <4>1. a = [b EXCEPT !.sent = o.sent \o @] /\ Heard(o)
            /\ m.data.kind \in {"readTeds", "readSet"}
        BY <3>2 DEF Answer
      <4>2. b.sent \in Seq(Replies({r}))
        BY <2>5, SendUses
      <4>3. b = [socket |-> b.socket, sent |-> b.sent, calls |-> b.calls]
        BY DEF Send, Outcome
      <4> HIDE DEF a, b, r
      <4>4. a.sent = o.sent \o b.sent
        BY <4>1, <4>3
      <4>5. Replies({Null}) \subseteq Replies({Null, r}) /\ Replies({r}) \subseteq Replies({Null, r})
        BY DEF Replies
      <4>6. o.sent \in Seq(Replies({Null, r})) /\ b.sent \in Seq(Replies({Null, r}))
        BY <2>5, <4>2, <4>5, SeqMonotonic DEF Controls
      <4>7. a.sent \in Seq(Replies({Null, r}))
        BY <4>4, <4>6, ConcatProperties
      <4>8. \A x \in ToSet(a.sent) : x \in Replies({Null, r})
        BY <4>7 DEF ToSet
      <4>9. \A x \in ToSet(a.sent) : x.data \in {Null, r}
        BY <4>8 DEF Replies
      <4>10. m.data # Null
        BY <2>5, <4>1 DEF Heard
      <4>11. QED
        BY <4>1, <4>9, <4>10 DEF r
    <3>3. QED
      BY <3>1, <3>2
  <2>7. \A e \in E : /\ e \in Messages
                     /\ \E d \in D : d.transId = e.transId /\ d.teds = e.teds
    <3>1. SUFFICES ASSUME NEW e \in E
                   PROVE  /\ e \in Messages
                          /\ \E d \in D : d.transId = e.transId /\ d.teds = e.teds
      OBVIOUS
    <3> DEFINE d == m.data
    <3>2. d # Null /\ e = Reply(d)
      BY <2>6
    <3>3. d \in Messages /\ d \in D
      BY <2>1, <3>2, UnderSpoken
    <3> HIDE DEF d, E, D
    <3>4. e.transId = d.transId /\ e.teds = d.teds
      BY <3>2, MessageFields DEF Reply
    <3>5. d.transId \in 0..TransIds - 1 /\ d.teds \in MessageTeds
      BY <3>3 DEF Messages, MessageTeds
    <3>6. e \in Messages
      BY <3>2, <3>5, MessageTyped DEF Reply, Kinds
    <3>7. QED
      BY <3>3, <3>4, <3>6
  <2>8. Spoken(log', asking') = D \cup E
    <3> HIDE DEF a
    <3>1. QED
      BY <1>1, <1>4, SpokenLogged
  <2> HIDE DEF E, D
  <2>9. ReaderInv'
    BY <1>1, <1>2, <2>7, <2>8 DEF ReaderInv, D
  <2>10. AllInTurn => AllInTurn'
    <3> DEFINE I == DOMAIN ncap.retrievers
    <3>1. AllInTurn' <=> InTurn(ncap, D \cup E, I)
      BY <1>1, <2>8 DEF AllInTurn
    <3>2. AllInTurn => InTurn(ncap, D, I)
      BY DEF AllInTurn, D
    <3> HIDE DEF I
    <3>3. InTurn(ncap, D, I) => InTurn(ncap, D \cup E, I)
      BY <2>7, InTurnReplied
    <3>4. QED
      BY <3>1, <3>2, <3>3
  <2>11. QED
    BY <2>9, <2>10 DEF ReaderStep
<1>5. QED
  BY <1>1, <1>3, <1>4

(* The listening socket's part of a segment.                               *)
LEMMA NcapReceiveReads ==
  ASSUME DeliveryInv, ReaderInv, NcapReceive
  PROVE  ReaderStep
<1>1. /\ UNCHANGED <<mode, pc, connected, pos, header, asking, log>>
      /\ \/ ncap' = ncap
         \/ \E s : ncap' = [ncap EXCEPT !.clones = Append(@, s)]
  BY DEF NcapReceive, tim
<1>2. HasNcapFields(ncap)
  BY DEF DeliveryInv, IsNcap
<1>3. /\ ncap'.nextId = ncap.nextId /\ ncap'.retrievers = ncap.retrievers
      /\ ncap'.cache = ncap.cache /\ ncap'.out = ncap.out
  BY <1>1, <1>2 DEF HasNcapFields
<1>4. SensorOK'
  BY <1>1 DEF ReaderInv, SensorOK
<1>5. QED
  BY <1>1, <1>3, <1>4, QuietStep

(* The turn of a socket of the NCAP.                                       *)
LEMMA NcapHandleReads ==
  ASSUME DeliveryInv, ReaderInv, NcapHandle
  PROVE  ReaderStep
<1> DEFINE C == ncap.clones
           m == handled
           i == IndexOf(Head(turns))
           s == C[i]
           o == Handle(s, m)
           N == [ncap EXCEPT !.clones[i] = o.socket, !.out = o.sent]
           M == Called(N, i, m.data, o.calls)
           D == Spoken(log, asking)
           J == DOMAIN ncap.retrievers
<1>1. /\ turns # << >>
      /\ ncap' = [M EXCEPT !.out = << >>]
      /\ log' = Logged(M.out)
      /\ UNCHANGED <<mode, pc, connected, pos, header, asking>>
  BY DEF NcapHandle, tim
<1>2. IsNcap(ncap) /\ ClonesOK(C, got) /\ TurnsOK(turns, m, C, got, log)
  BY DEF DeliveryInv
<1>3. m \in Under("ncap", got, log) /\ \E j \in DOMAIN C : C[j].snd_ini = Head(turns)
  BY <1>1, <1>2, TurnTaken
<1>4. C \in Seq(TcpSockets) /\ HasNcapFields(ncap)
  BY <1>2 DEF IsNcap
<1>5. i \in 1..Len(C)
  BY <1>2, <1>3, IndexOfIs
<1>6. s \in TcpSockets /\ s.state # "SYN_SENT"
  BY <1>2, <1>4, <1>5 DEF ClonesOK
<1>7. HandledOK(s, m, o)
  <2>1. m \in [seq : Nat, ack : Int, flags : SUBSET Flags, data : DataOf(log)]
    BY <1>3 DEF Under
  <2>2. QED
    BY <1>6, <2>1, HandleOK
<1>8. "received" \in o.calls => m.data \in Messages /\ m.data \in D
  BY <1>3, <1>7, UnderSpoken DEF HandledOK
<1> HIDE DEF i, o, s
<1>9. /\ HasNcapFields(N)
      /\ N.clones = [C EXCEPT ![i] = o.socket] /\ N.out = o.sent
      /\ N.nextId = ncap.nextId /\ N.retrievers = ncap.retrievers /\ N.cache = ncap.cache
  BY <1>4 DEF HasNcapFields
<1> HIDE DEF N
<1>10. N.clones \in Seq(TcpSockets) /\ Len(N.clones) = Len(C)
  <2>1. o.socket \in TcpSockets
    BY <1>7 DEF HandledOK
  <2> HIDE DEF C
  <2>2. [C EXCEPT ![i] = o.socket] \in Seq(TcpSockets) /\ Len([C EXCEPT ![i] = o.socket]) = Len(C)
    BY <1>4, <1>5, <2>1, ExceptSeq
  <2>3. QED
    BY <1>9, <2>2
<1>11. IsNcap(N) /\ IsReader(N)
  <2>1. o.sent \in Seq(Replies({Null}))
    BY <1>7 DEF HandledOK, Controls
  <2>2. QED
    BY <1>9, <1>10, <2>1 DEF IsNcap, IsReader, ReaderInv
<1>12. i \in 1..Len(N.clones)
  BY <1>5, <1>10
<1>13. Goes(N, M, D, DOMAIN N.retrievers)
  <2> HIDE DEF D, C, m
  <2>1. QED
    BY <1>8, <1>11, <1>12, CalledGoes
<1>14. HasNcapFields(M)
  <2>1. CASE Leaves(N, M)
    BY <2>1 DEF Leaves, IsNcap
  <2>2. CASE ~Leaves(N, M)
    BY <1>11, <1>12, <2>2, CalledKeeps
  <2>3. QED
    BY <2>1, <2>2
<1>15. Said(N) = {}
  <2>1. \A x \in ToSet(o.sent) : x \in Controls
    BY <1>7 DEF HandledOK, ToSet
  <2>2. \A x \in ToSet(o.sent) : x.data = Null
    BY <2>1 DEF Controls, Replies
  <2>3. QED
    BY <1>9, <2>2 DEF Said
<1> HIDE DEF M
<1>16. PICK E \in SUBSET Messages :
         /\ Said(M) \subseteq E
         /\ InTurn(N, D, J) /\ M.nextId # 0 => InTurn(M, D \cup E, DOMAIN M.retrievers)
  BY <1>9, <1>13, <1>15 DEF Goes
<1>17. Spoken(log', asking') = D \cup Said(M)
  <2>1. log' = Logged(M.out) /\ asking' = asking
    BY <1>1
  <2>2. QED
    BY <2>1, SpokenLogged DEF Said
<1>18. /\ ncap'.nextId = M.nextId /\ ncap'.retrievers = M.retrievers
       /\ ncap'.cache = M.cache /\ ncap'.out = << >>
  BY <1>1, <1>14 DEF HasNcapFields
<1>19. IsReader(ncap')
  BY <1>13, <1>18 DEF Goes, IsReader
<1>20. SensorOK'
  BY <1>1 DEF ReaderInv, SensorOK
<1>21. ReaderInv'
  BY <1>16, <1>17, <1>18, <1>19, <1>20 DEF ReaderInv
<1>22. ASSUME AllInTurn, ncap'.nextId # 0
       PROVE  AllInTurn'
  <2>1. InTurn(N, D, J)
    BY <1>9, <1>22 DEF AllInTurn, InTurn
  <2>2. InTurn(M, D \cup E, DOMAIN M.retrievers)
    BY <1>16, <1>18, <1>22, <2>1
  <2>3. InTurn(M, D \cup Said(M), DOMAIN M.retrievers)
    BY <1>16, <2>2, InTurnFewer
  <2>4. InTurn(ncap', D \cup Said(M), DOMAIN ncap'.retrievers)
    BY <1>18, <2>3 DEF InTurn
  <2>5. QED
    BY <1>17, <2>4 DEF AllInTurn
<1>23. QED
  BY <1>21, <1>22 DEF ReaderStep

(* A request by SIP takes a number, ...                                    *)
LEMMA AskReads ==
  ASSUME DeliveryInv, ReaderInv, Ask
  PROVE  ReaderStep
<1> DEFINE n == ncap.nextId
           c == Message(n, "readSet", Null)
           D == Spoken(log, asking)
<1>1. /\ asking = Null /\ ncap.clones # << >>
      /\ asking' = [isn |-> ncap.clones[1].snd_ini,
                    segment |-> [DataHeader(ncap.clones[1]) EXCEPT !.data = c]]
      /\ ncap' = [ncap EXCEPT !["nextId"] = (n + 1) % TransIds]
      /\ UNCHANGED <<mode, pc, connected, pos, header, log>>
  BY DEF Ask, tim
<1>2. HasNcapFields(ncap) /\ IsReader(ncap) /\ ncap.out = << >>
  BY DEF DeliveryInv, IsNcap, ReaderInv
<1>3. /\ ncap'.nextId = (n + 1) % TransIds /\ ncap'.retrievers = ncap.retrievers
      /\ ncap'.cache = ncap.cache /\ ncap'.out = ncap.out
  BY <1>1, <1>2 DEF HasNcapFields
<1>4. asking'.segment.data = c
  BY <1>1 DEF DataHeader, Segment
<1>5. Spoken(log', asking') \subseteq D \cup {c}
  <2>1. D = {d.data : d \in log}
    BY <1>1 DEF Spoken
  <2> HIDE DEF c, D
  <2>2. QED
    BY <1>1, <1>4, <2>1 DEF Spoken
<1>6. n \in 0..TransIds - 1 /\ c \in Messages
  <2>1. n \in 0..TransIds - 1 /\ Null \in MessageTeds
    BY <1>2 DEF IsReader, MessageTeds
  <2>2. QED
    BY <2>1, MessageTyped DEF Kinds
<1>7. c.transId = n
  BY MessageFields
<1> HIDE DEF c, D
<1>8. SensorOK'
  BY <1>1 DEF ReaderInv, SensorOK
<1>9. IsReader(ncap')
  BY <1>2, <1>3, <1>6, NextNumber DEF IsReader
<1>10. ReaderInv'
  BY <1>2, <1>3, <1>5, <1>6, <1>8, <1>9 DEF ReaderInv, D
<1>11. ASSUME AllInTurn, ncap'.nextId # 0
       PROVE  AllInTurn'
  <2> DEFINE J == DOMAIN ncap.retrievers
  <2>1. InTurn(ncap, D, J)
    BY <1>11 DEF AllInTurn, D
  <2>2. ncap'.nextId = n + 1
    BY <1>3, <1>6, <1>11, NextNumber
  <2>3. InTurn(ncap', D \cup {c}, J)
    BY <1>2, <1>3, <1>7, <2>1, <2>2, InTurnCounted
  <2> HIDE DEF J
  <2>4. InTurn(ncap', Spoken(log', asking'), J)
    BY <1>5, <2>3, InTurnFewer
  <2>5. QED
    BY <1>3, <2>4 DEF AllInTurn, J
<1>12. QED
  BY <1>10, <1>11 DEF ReaderStep

(* ... and goes out.                                                       *)
LEMMA AskSendReads ==
  ASSUME DeliveryInv, ReaderInv, AskSend
  PROVE  ReaderStep
<1> DEFINE m == asking.segment
           D == Spoken(log, asking)
           E == {x.data : x \in ToSet(<<m>>)} \ {Null}
           F == Spoken(log', asking')
<1>1. /\ asking # Null /\ asking' = Null /\ log' = Logged(<<m>>)
      /\ ncap' = ncap \/ \E i, s : ncap' = [ncap EXCEPT !.clones[i] = s]
      /\ UNCHANGED <<mode, pc, connected, pos, header>>
  BY DEF AskSend, tim
<1>2. HasNcapFields(ncap) /\ IsReader(ncap) /\ ncap.out = << >>
  BY DEF DeliveryInv, IsNcap, ReaderInv
<1>3. /\ ncap'.nextId = ncap.nextId /\ ncap'.retrievers = ncap.retrievers
      /\ ncap'.cache = ncap.cache /\ ncap'.out = ncap.out
  BY <1>1, <1>2 DEF HasNcapFields
<1>4. F \subseteq D
  <2>1. F = Spoken(log, Null) \cup E
    BY <1>1, SpokenLogged
  <2>2. E \subseteq {m.data}
    BY DEF ToSet
  <2>3. D = Spoken(log, Null) \cup {m.data}
    BY <1>1 DEF Spoken
  <2> HIDE DEF D, E, F, m
  <2>4. QED
    BY <2>1, <2>2, <2>3
<1>5. SensorOK'
  BY <1>1 DEF ReaderInv, SensorOK
<1>6. IsReader(ncap')
  BY <1>2, <1>3 DEF IsReader
<1>7. ReaderInv'
  BY <1>2, <1>3, <1>4, <1>5, <1>6 DEF ReaderInv
<1>8. ASSUME AllInTurn
      PROVE  AllInTurn'
  <2> DEFINE J == DOMAIN ncap.retrievers
  <2>1. InTurn(ncap, D, J)
    BY <1>8 DEF AllInTurn
  <2> HIDE DEF D, F
  <2>2. InTurn(ncap, F, J)
    BY <1>4, <2>1, InTurnFewer
  <2>3. InTurn(ncap', F, J)
    BY <1>3, <2>2 DEF InTurn
  <2>4. QED
    BY <1>3, <2>3 DEF AllInTurn, F
<1>9. QED
  BY <1>7, <1>8 DEF ReaderStep

(* The sensor's thread.                                                    *)
LEMMA ThreadReads ==
  ASSUME DeliveryInv, ReaderInv, Thread
  PROVE  ReaderStep
<1>1. UNCHANGED <<mode, ncap, asking>>
  BY DEF Thread, DoConnect, Await, Suspend, Disconnect, FinSent, CloseTests, CloseSets,
         Disconnected, Collect, NotFull, SendDataSet, DataSetSent, Go, loop
<1>2. SensorOK
  BY DEF ReaderInv
<1>3. CASE DataSetSent
  <2> DEFINE e == header.data
             D == Spoken(log, asking)
  <2>1. /\ log' = Logged(<<header>>) /\ pc = "sending" /\ pc' = "loop" /\ header' = Null
        /\ UNCHANGED <<connected, pos>>
    BY <1>3 DEF DataSetSent
  <2>2. SensorOK'
    BY <1>1, <1>2, <2>1 DEF SensorOK, Places
  <2>3. e = Message(Unasked, "set", Null)
    BY <1>2, <2>1 DEF SensorOK, Unsent
  <2>4. e \in Messages /\ e.transId = Unasked
    <3>1. Unasked \in 0..TransIds - 1 /\ Null \in MessageTeds
      BY IeeeAssumption DEF IeeeAssumption, Unasked, MessageTeds
    <3>2. QED
      BY <2>3, <3>1, MessageTyped, MessageFields DEF Kinds
  <2>5. Spoken(log', asking') \subseteq D \cup {e}
    <3>1. Spoken(log', asking') = D \cup ({x.data : x \in ToSet(<<header>>)} \ {Null})
      BY <1>1, <2>1, SpokenLogged
    <3>2. {x.data : x \in ToSet(<<header>>)} = {e}
      BY DEF ToSet
    <3>3. QED
      BY <3>1, <3>2
  <2> HIDE DEF e, D
  <2>6. ReaderInv'
    BY <1>1, <2>2, <2>4, <2>5 DEF ReaderInv, D
  <2>7. ASSUME AllInTurn
        PROVE  AllInTurn'
    <3> DEFINE J == DOMAIN ncap.retrievers
    <3>1. InTurn(ncap, D, J) /\ IsReader(ncap)
      BY <2>7 DEF AllInTurn, D, ReaderInv
    <3> HIDE DEF J
    <3>2. InTurn(ncap, D \cup {e}, J)
      BY <2>4, <3>1, InTurnUnasked
    <3>3. InTurn(ncap, Spoken(log', asking'), J)
      BY <2>5, <3>2, InTurnFewer
    <3>4. QED
      BY <1>1, <3>3 DEF AllInTurn, J
  <2>8. QED
    BY <2>6, <2>7 DEF ReaderStep
<1>4. CASE Thread /\ ~DataSetSent
  <2>1. log' = log
    BY <1>4 DEF Thread, DoConnect, Await, Suspend, Disconnect, FinSent, CloseTests, CloseSets,
                Disconnected, Collect, NotFull, SendDataSet, Go
  <2>2. SensorOK'
    <3>1. CASE SendDataSet
      <4>1. /\ pc' = "sending" /\ UNCHANGED <<connected, pos>>
            /\ header' = [DataHeader(client) EXCEPT !.data = Message(Unasked, "set", Null)]
        BY <3>1 DEF SendDataSet, Go
      <4>2. Headed(header')
        <5>1. SendingOK'
          BY ThreadKeeps DEF DeliveryInv
        <5>2. QED
          BY <4>1, <5>1 DEF SendingOK
      <4>3. header'.data = Message(Unasked, "set", Null)
        <5> DEFINE c == Message(Unasked, "set", Null)
        <5>1. header' = [DataHeader(client) EXCEPT !.data = c]
          BY <4>1
        <5> HIDE DEF c
        <5>2. header'.data = c
          BY <5>1 DEF DataHeader, Segment
        <5>3. QED
          BY <5>2 DEF c
      <4>4. QED
        BY <1>1, <1>2, <4>1, <4>2, <4>3 DEF SensorOK, Unsent, Places
    <3>2. CASE Collect
      <4>1. /\ pc' = "collected" /\ UNCHANGED <<connected, header>>
            /\ pos' = (pos + 1) % DataSetSize
        BY <3>2 DEF Collect, Go
      <4>2. pos' \in 0..DataSetSize - 1
        <5>1. pos \in Nat
          BY <1>2 DEF SensorOK
        <5>2. QED
          BY <4>1, <5>1, NextPosition
      <4>3. QED
        BY <1>1, <1>2, <4>1, <4>2 DEF SensorOK, Places
    <3>3. ASSUME UNCHANGED <<pos, header>>, connected' \in BOOLEAN, pc' \in Places \ {"sending"}
          PROVE  SensorOK'
      BY <1>1, <1>2, <3>3 DEF SensorOK
    <3>4. CASE Disconnect
      <4>1. UNCHANGED <<pos, connected>> /\ pc' = "finishing"
        BY <3>4 DEF Disconnect, Go
      <4>2. IsFin(header')
        <5>1. SendingOK'
          BY ThreadKeeps DEF DeliveryInv
        <5>2. QED
          BY <4>1, <5>1 DEF SendingOK
      <4>3. QED
        BY <1>1, <1>2, <4>1, <4>2 DEF SensorOK, Places
    <3>5. CASE FinSent
      BY <1>1, <1>2, <3>5 DEF FinSent, SensorOK, Places
    <3>6. CASE CloseTests \/ CloseSets
      <4>1. /\ UNCHANGED <<pos, header>> /\ connected' \in BOOLEAN
            /\ pc' \in {"open", "halfOpen", "disconnecting"}
        BY <1>2, <3>6 DEF CloseTests, CloseSets, Tested, Go, SensorOK
      <4>2. QED
        BY <3>3, <4>1 DEF Places
    <3>7. ASSUME NEW from, NEW to,
                 DoConnect(from, to) \/ Await(from, to),
                 to \in {"connecting", "reconnecting", "connected", "reconnected"}
          PROVE  SensorOK'
      <4>1. UNCHANGED <<pos, header, connected>> /\ pc' = to
        BY <3>7 DEF DoConnect, Await, Go
      <4>2. QED
        BY <1>2, <3>3, <3>7, <4>1 DEF Places, SensorOK
    <3>8. CASE Suspend \/ Disconnected \/ NotFull
      <4>1. UNCHANGED <<pos, header, connected>> /\ pc' \in {"suspended", "collect", "loop"}
        BY <3>8 DEF Suspend, Disconnected, NotFull, Go
      <4>2. QED
        BY <1>2, <3>3, <4>1 DEF Places, SensorOK
    <3>9. QED
      BY <1>4, <3>1, <3>2, <3>4, <3>5, <3>6, <3>7, <3>8 DEF Thread
  <2>3. QED
    BY <1>1, <2>1, <2>2, QuietStep
<1>5. QED
  BY <1>3, <1>4

(* The network says nothing, and a TIM that restarts knows nothing.        *)
LEMMA FaultReads ==
  ASSUME DeliveryInv, ReaderInv, Fault
  PROVE  ReaderStep
<1>1. UNCHANGED <<ncap, asking, log>>
  BY DEF Fault
<1>2. CASE Restart
  <2>1. pc' = "start" /\ connected' = FALSE /\ pos' = 0 /\ header' = Null /\ mode' = mode
    BY <1>2 DEF Restart
  <2>2. 0 \in 0..DataSetSize - 1
    BY IeeeAssumption DEF IeeeAssumption
  <2>3. SensorOK'
    BY <2>1, <2>2 DEF ReaderInv, SensorOK, Places
  <2>4. QED
    BY <1>1, <2>3, QuietStep
<1>3. CASE UNCHANGED tim
  <2>1. SensorOK'
    BY <1>3 DEF ReaderInv, SensorOK, tim
  <2>2. QED
    BY <1>1, <2>1, QuietStep
<1>4. QED
  BY <1>2, <1>3 DEF Fault

(* Every step.                                                             *)
LEMMA ReaderNext == DeliveryInv /\ ReaderInv /\ [Next]_vars => ReaderStep
<1> SUFFICES ASSUME DeliveryInv, ReaderInv, [Next]_vars PROVE ReaderStep
  OBVIOUS
<1>1. CASE UNCHANGED vars
  <2>1. SensorOK'
    BY <1>1 DEF ReaderInv, SensorOK, vars, tim
  <2>2. QED
    BY <1>1, <2>1, QuietStep DEF vars
<1>2. QED
  BY <1>1, TimReceiveReads, NcapReceiveReads, NcapHandleReads, AskReads, AskSendReads,
     ThreadReads, FaultReads DEF Next

(* The numbers, steps and messages of the NCAP and of the sensor keep      *)
(* their types.                                                            *)
THEOREM ReaderInvHolds == Spec => []ReaderInv
<1>1. DeliveryInv /\ ReaderInv /\ [Next]_vars => ReaderInv'
  BY ReaderNext DEF ReaderStep
<1>2. Init => ReaderInv
  BY ReaderInit
<1>3. QED
  BY <1>1, <1>2, DeliveryInvHolds, PTL DEF Spec

(* The sockets, segments, messages and retrievers keep their types, for    *)
(* every list of TEDS and number of requests, restarts and faults.         *)
THEOREM IeeeTypeOKHolds == Spec => []TypeOK
<1>1. DeliveryInv /\ ReaderInv => TypeOK
  <2> SUFFICES ASSUME DeliveryInv, ReaderInv PROVE TypeOK
    OBVIOUS
  <2>1. SensorOK /\ IsReader(ncap) /\ ncap.out = << >>
    BY DEF ReaderInv
  <2>2. TcpSockets = Sockets
    BY DEF TcpSockets, Sockets
  <2>3. client \in Sockets \cup {Null}
    BY <2>2, HeldIsTyped DEF DeliveryInv, ClientOK
  <2>4. header \in Segments \cup {Null}
    <3>1. CASE Unsent(header)
      <4>1. Unasked \in 0..TransIds - 1 /\ Null \in MessageTeds
        BY IeeeAssumption DEF IeeeAssumption, Unasked, MessageTeds
      <4>2. header.data \in Messages
        BY <3>1, <4>1, MessageTyped DEF Unsent, Kinds
      <4>3. QED
        BY <3>1, <4>2 DEF Unsent, Headed, Segments, Flags
    <3>2. CASE IsFin(header)
      BY <3>2 DEF IsFin, Segments, Flags
    <3>3. QED
      BY <2>1, <3>1, <3>2 DEF SensorOK
  <2>5. \A s \in ToSet(ncap.clones) : s \in Sockets
    BY <2>2 DEF DeliveryInv, IsNcap, ToSet
  <2>6. \A r \in ToSet(ncap.retrievers) : r.step \in 1..Len(Teds)
    <3>1. \A r \in ToSet(ncap.retrievers) : r \in Retrievers
      BY <2>1 DEF IsReader, ToSet
    <3>2. QED
      BY <3>1 DEF Retrievers
  <2>7. ASSUME NEW node \in Nodes, NEW m \in ToSet(net[node])
        PROVE  m \in Segments
    <3>1. m \in Under(node, got, log)
      BY DEF DeliveryInv, NetOK, ToSet
    <3>2. m.data \in Messages \cup {Null}
      BY <3>1, UnderSpoken
    <3>3. QED
      BY <3>1, <3>2 DEF Under, Segments
  <2>8. QED
    BY <2>1, <2>3, <2>4, <2>5, <2>6, <2>7 DEF TypeOK, SensorOK, Places, IsReader
<1>2. QED
  BY <1>1, DeliveryInvHolds, ReaderInvHolds, PTL

(* Until the 16-bit counter of sendCommand() wraps, which the premise      *)
(* excludes, a retriever files each TEDS under what it asked for and the   *)
(* cache has all of them: no segment that is lost, repeated or late, no    *)
(* reply of an earlier connection and no request by SIP makes it take one  *)
(* reply for another.                                                      *)
THEOREM TedsAsAskedHolds == Spec /\ [](ncap.nextId # 0) => []TedsAsAsked
<1>1. DeliveryInv /\ ReaderInv /\ AllInTurn /\ [Next]_vars /\ (ncap.nextId # 0)' => AllInTurn'
  BY ReaderNext DEF ReaderStep
<1>2. Init => AllInTurn
  BY ReaderInit
<1>3. ReaderInv /\ AllInTurn => TedsAsAsked
  <2> SUFFICES ASSUME AllInTurn PROVE TedsAsAsked
    OBVIOUS
  <2>1. \A r \in ToSet(ncap.retrievers) : Served(r)
    BY DEF AllInTurn, InTurn, ToSet
  <2>2. \A c \in ToSet(ncap.cache) : c.teds = Teds
    BY DEF AllInTurn, InTurn, ToSet
  <2>3. QED
    BY <2>1, <2>2 DEF TedsAsAsked, Served
<1>4. QED
  BY <1>1, <1>2, <1>3, DeliveryInvHolds, ReaderInvHolds, PTL DEF Spec

-----------------------------------------------------------------------------
(* The two ends of a connection.  That a TIM has a peer needs one more     *)
(* inductive invariant, PeerInv, on top of DeliveryInv.                    *)

(* x is a number of the connection that began with a: no initial number    *)
(* lies in between.                                                        *)
NumberOf(x, a) == a < x /\ \A k \in DOMAIN Isns : ~(a < Isns[k] /\ Isns[k] <= x)

DrawnIn(G) == {Isns[k] : k \in DOMAIN G}

Open       == {"SYN_RCVD", "ESTABLISHED"}
Live(c, a) == c # Null /\ c.snd_ini = a /\ c.state \in {"SYN_SENT", "ESTABLISHED"}

(* A segment of the TIM, whose socket is c: a SYN, or one of a connection. *)
(* Its FIN is not of one that is beginning or established.                 *)
OfTim(m, c, G) ==
    /\ "rst" \notin m.flags
    /\ \/ m.flags = {"syn"} /\ m.data = Null /\ NumberOf(m.seq + 1, m.seq)
       \/ /\ "syn" \notin m.flags
          /\ \E a \in DrawnIn(G) :
               /\ NumberOf(m.seq, a)
               /\ m.data # Null => NumberOf(m.seq + 1, a)
               /\ "fin" \in m.flags => ~Live(c, a)

(* What a socket of the NCAP expects is of the connection it was made for. *)
Hears(s, G) ==
    s.state \in Open => s.rcv_ini \in DrawnIn(G) /\ NumberOf(s.rcv_nxt, s.rcv_ini)

(* A socket of the NCAP was made for the connection that began with a at   *)
(* the TIM, with b at the NCAP.                                            *)
HasPeer(a, b, C) ==
    \E i \in DOMAIN C : C[i].rcv_ini = a /\ C[i].snd_ini = b /\ C[i].state \in Open

(* An answer to a SYN: if the TIM's socket c waits for it, it has a peer.  *)
Answers(m, c, C, G) ==
    "syn" \in m.flags =>
        /\ m.ack - 1 \in DrawnIn(G)
        /\ c # Null /\ c.state = "SYN_SENT" /\ m.ack = c.snd_ini + 1 =>
             HasPeer(c.snd_ini, m.seq, C)

Peered(c, C) == c # Null /\ c.state = "ESTABLISHED" => HasPeer(c.snd_ini, c.rcv_ini, C)

(* The TIM never sends so much on one connection that it gets to the       *)
(* initial number of another.                                              *)
Apart == client # Null => NumberOf(client.snd_nxt, client.snd_ini)

(* The TIM's socket, until it has sent its FIN.                            *)
Own == IF FinOut THEN Null ELSE client

TowardsNcap ==
    /\ \A m \in ToSet(net["ncap"]) : OfTim(m, Own, got)
    /\ turns # << >> => OfTim(handled, Own, got)
TowardsTim  == \A m \in ToSet(net["tim"]) : Answers(m, Own, ncap.clones, got)
NcapSide    == \A i \in DOMAIN ncap.clones : Hears(ncap.clones[i], got)
TimSide ==
    /\ client # Null => client.state # "SYN_RCVD"
    /\ pc \in {"sending", "finishing"} => NumberOf(header.seq, client.snd_ini)

PeerInv == TowardsNcap /\ TowardsTim /\ NcapSide /\ TimSide /\ Peered(Own, ncap.clones)

(* A number is of one connection only.                                     *)
LEMMA OneConnection ==
  ASSUME NEW G, NEW L, Histories(G, L), NEW a \in DrawnIn(G), NEW b \in DrawnIn(G),
         NEW x \in Nat, NumberOf(x, a), NumberOf(x, b)
  PROVE  a = b
<1>1. /\ \E j \in DOMAIN Isns : a = Isns[j]
      /\ \E k \in DOMAIN Isns : b = Isns[k]
      /\ \A k \in DOMAIN Isns : Isns[k] \in Nat
  BY IsnsApart DEF DrawnIn
<1>2. PICK j \in DOMAIN Isns, k \in DOMAIN Isns : a = Isns[j] /\ b = Isns[k]
  BY <1>1
<1>3. a \in Nat /\ b \in Nat /\ a < x /\ b < x
  BY <1>1, <1>2 DEF NumberOf
<1>4. ~(a < b) /\ ~(b < a)
  BY <1>2, <1>3 DEF NumberOf
<1>5. QED
  BY <1>3, <1>4

(* And so is a smaller one, if it comes after the initial number.          *)
LEMMA NumberBelow ==
  ASSUME NEW G, NEW L, Histories(G, L), NEW a \in Nat, NEW x \in Nat, NEW y \in Nat,
         a < y, y <= x, NumberOf(x, a)
  PROVE  NumberOf(y, a)
<1>1. \A k \in DOMAIN Isns : Isns[k] \in Nat
  BY IsnsApart
<1>2. QED
  BY <1>1 DEF NumberOf

(* More numbers drawn, and a socket of the TIM that is live only where it  *)
(* was, or new.                                                            *)
LEMMA OfTimStays ==
  ASSUME NEW m, NEW c, NEW G, OfTim(m, c, G),
         NEW d, NEW H, DOMAIN G \subseteq DOMAIN H,
         \A a \in DrawnIn(G) : Live(d, a) => Live(c, a)
  PROVE  OfTim(m, d, H)
<1>1. DrawnIn(G) \subseteq DrawnIn(H)
  BY DEF DrawnIn
<1>2. QED
  BY <1>1 DEF OfTim

(* More numbers drawn do not matter to what a socket hears either.         *)
LEMMA HearsStays ==
  ASSUME NEW s, NEW G, Hears(s, G), NEW H, DOMAIN G \subseteq DOMAIN H
  PROVE  Hears(s, H)
<1>1. DrawnIn(G) \subseteq DrawnIn(H)
  BY DEF DrawnIn
<1>2. QED
  BY <1>1 DEF Hears

(* d is c while it connects, or new, or does not connect.                  *)
Awaiting(c, d, G) ==
    d # Null /\ d.state = "SYN_SENT" =>
        \/ c # Null /\ c.state = "SYN_SENT" /\ d.snd_ini = c.snd_ini
        \/ d.snd_ini \in Nat \ DrawnIn(G)

(* The peers of c stay.                                                    *)
PeersStay(c, C, D) ==
    c # Null => \A b : Live(c, c.snd_ini) /\ HasPeer(c.snd_ini, b, C) => HasPeer(c.snd_ini, b, D)

(* An answer under way stays one, while the TIM goes on and peers stay.    *)
LEMMA AnswersStays ==
  ASSUME NEW m, m.ack \in Int, NEW c, NEW C, NEW G, Answers(m, c, C, G),
         NEW d, NEW D, NEW H, DOMAIN G \subseteq DOMAIN H,
         Awaiting(c, d, G), PeersStay(c, C, D)
  PROVE  Answers(m, d, D, H)
<1>1. DrawnIn(G) \subseteq DrawnIn(H)
  BY DEF DrawnIn
<1>2. SUFFICES ASSUME "syn" \in m.flags
               PROVE  /\ m.ack - 1 \in DrawnIn(H)
                      /\ d # Null /\ d.state = "SYN_SENT" /\ m.ack = d.snd_ini + 1 =>
                           HasPeer(d.snd_ini, m.seq, D)
  BY DEF Answers
<1>3. m.ack - 1 \in DrawnIn(G)
  BY <1>2 DEF Answers
<1>4. ASSUME d # Null, d.state = "SYN_SENT", m.ack = d.snd_ini + 1
      PROVE  HasPeer(d.snd_ini, m.seq, D)
  <2>1. CASE d.snd_ini \in Nat \ DrawnIn(G)
    <3>1. m.ack - 1 = d.snd_ini
      BY <1>4, <2>1
    <3>2. QED
      BY <1>3, <2>1, <3>1
  <2>2. CASE c # Null /\ c.state = "SYN_SENT" /\ d.snd_ini = c.snd_ini
    <3>1. HasPeer(c.snd_ini, m.seq, C)
      BY <1>2, <1>4, <2>2 DEF Answers
    <3>2. Live(c, c.snd_ini)
      BY <2>2 DEF Live
    <3>3. QED
      BY <2>2, <3>1, <3>2 DEF PeersStay
  <2>3. QED
    BY <1>4, <2>1, <2>2 DEF Awaiting
<1>5. QED
  BY <1>1, <1>3, <1>4

(* Segments are sent to a node, ...                                        *)
LEMMA TransmittedTo ==
  ASSUME NEW G, NEW L, NetOK(net, G, L), NEW to \in Nodes, NEW S, NEW q \in Seq(S),
         NEW w, w = Transmit(to, q)
  PROVE  /\ ToSet(w[to]) \subseteq ToSet(net[to]) \cup ToSet(q)
         /\ \A node \in Nodes \ {to} : w[node] = net[node]
<1>1. net = [node \in Nodes |-> net[node]] /\ net[to] \in Seq(Under(to, G, L))
  BY DEF NetOK
<1>2. w[to] = net[to] \o q /\ \A node \in Nodes \ {to} : w[node] = net[node]
  BY <1>1 DEF Transmit
<1>3. QED
  BY <1>1, <1>2, ArrivesFrom

(* ... and by one that takes its first segment.                            *)
LEMMA ExchangedTo ==
  ASSUME NEW G, NEW L, NetOK(net, G, L), NEW at \in Nodes, NEW to \in Nodes \ {at},
         net[at] # << >>, NEW S, NEW q \in Seq(S),
         NEW w, w = Exchange(at, to, q)
  PROVE  /\ ToSet(w[to]) \subseteq ToSet(net[to]) \cup ToSet(q)
         /\ ToSet(w[at]) \subseteq ToSet(net[at])
<1>1. /\ net = [node \in Nodes |-> net[node]]
      /\ net[to] \in Seq(Under(to, G, L)) /\ net[at] \in Seq(Under(at, G, L))
  BY DEF NetOK
<1>2. w[to] = net[to] \o q /\ w[at] = Tail(net[at])
  BY <1>1 DEF Exchange
<1>3. QED
  BY <1>1, <1>2, FirstTaken, ArrivesFrom

-----------------------------------------------------------------------------
(* What a handler makes of a connection                                    *)

(* Acknowledgements that bear the number n.                                *)
Acks(n) == [seq : {n}, ack : Int, flags : {{"ack"}}, data : {Null}]

(* m may not end the connection of s.                                      *)
Harmless(s, m) == "rst" \notin m.flags /\ ~("fin" \in m.flags /\ Expected(s, m))

(* o is what a socket s makes of m: it acknowledges, and sends no FIN; the *)
(* connection stays the same, and open unless m ends it.                   *)
ConnectionOK(s, m, o) ==
    /\ o.socket.snd_nxt = s.snd_nxt
    /\ o.sent \in Seq(Acks(s.snd_nxt))
    /\ s.state # "SYN_SENT" => o.socket.rcv_ini = s.rcv_ini
    /\ s.state = "SYN_SENT" /\ o.socket.state = "ESTABLISHED" =>
         "syn" \in m.flags /\ AcksSyn(s, m) /\ o.socket.rcv_ini = m.seq
    /\ s.state \in Open /\ Harmless(s, m) =>
         o.socket.state \in Open /\ "closing" \notin o.calls /\ "closed" \notin o.calls

(* An acknowledgement bears the next number to send.                       *)
LEMMA AckSent ==
  ASSUME NEW s \in TcpSockets
  PROVE  Ack(s) \in Acks(s.snd_nxt)
BY DEF Ack, Segment, Acks, TcpSockets

(* A socket changed in one field: the state, ...                           *)
LEMMA StateSet ==
  ASSUME NEW s \in TcpSockets, NEW x \in States
  PROVE  LET t == [s EXCEPT !.state = x]
         IN /\ t \in TcpSockets /\ t.state = x
            /\ t.snd_ini = s.snd_ini /\ t.snd_nxt = s.snd_nxt
            /\ t.rcv_ini = s.rcv_ini /\ t.rcv_nxt = s.rcv_nxt
BY DEF TcpSockets

(* ... the number it expects, ...                                          *)
LEMMA RcvNxtSet ==
  ASSUME NEW s \in TcpSockets, NEW y \in Nat
  PROVE  LET t == [s EXCEPT !.rcv_nxt = y]
         IN /\ t \in TcpSockets /\ t.state = s.state
            /\ t.snd_ini = s.snd_ini /\ t.snd_nxt = s.snd_nxt
            /\ t.rcv_ini = s.rcv_ini /\ t.rcv_nxt = y
BY DEF TcpSockets

(* ... the other side's initial number.                                    *)
LEMMA RcvIniSet ==
  ASSUME NEW s \in TcpSockets, NEW z \in Nat
  PROVE  LET t == [s EXCEPT !.rcv_ini = z]
         IN /\ t \in TcpSockets /\ t.state = s.state
            /\ t.snd_ini = s.snd_ini /\ t.snd_nxt = s.snd_nxt
            /\ t.rcv_ini = z /\ t.rcv_nxt = s.rcv_nxt
BY DEF TcpSockets

(* Nothing happens, or the connection ends.                                *)
LEMMA IgnoredOrClosed ==
  ASSUME NEW s \in TcpSockets, NEW m
  PROVE  /\ ConnectionOK(s, m, Ignored(s))
         /\ s.state \notin Open \/ ~Harmless(s, m) =>
              ConnectionOK(s, m, Closed(s, << >>)) /\ ConnectionOK(s, m, Closed(s, <<Ack(s)>>))
<1>1. << >> \in Seq(Acks(s.snd_nxt)) /\ <<Ack(s)>> \in Seq(Acks(s.snd_nxt))
  BY AckSent
<1>2. ConnectionOK(s, m, Ignored(s))
  <2> DEFINE o == Outcome(s, << >>, {})
  <2>1. o.socket = s /\ o.sent = << >> /\ o.calls = {}
    BY OutcomeFields
  <2> HIDE DEF o
  <2>2. ConnectionOK(s, m, o)
    BY <2>1, <1>1 DEF ConnectionOK, Open
  <2>3. QED
    BY <2>2 DEF o, Ignored
<1>3. ASSUME s.state \notin Open \/ ~Harmless(s, m), NEW q \in Seq(Acks(s.snd_nxt))
      PROVE  ConnectionOK(s, m, Closed(s, q))
  <2> DEFINE t == [s EXCEPT !.state = "CLOSED"]
             o == Outcome(t, q, {"closed"})
  <2>1. t.state = "CLOSED" /\ t.snd_nxt = s.snd_nxt /\ t.rcv_ini = s.rcv_ini
    BY StateSet DEF States
  <2>2. o.socket = t /\ o.sent = q
    BY OutcomeFields
  <2> HIDE DEF o, t
  <2>3. ConnectionOK(s, m, o)
    BY <2>1, <2>2, <1>3 DEF ConnectionOK
  <2>4. QED
    BY <2>3 DEF o, t, Closed
<1>4. QED
  BY <1>1, <1>2, <1>3

(* The handler of a socket that connects.                                  *)
LEMMA SynSentConnection ==
  ASSUME NEW s \in TcpSockets, s.state = "SYN_SENT", NEW D,
         NEW m \in [seq : Nat, ack : Int, flags : SUBSET Flags, data : D],
         "syn" \in m.flags => "ack" \in m.flags
  PROVE  ConnectionOK(s, m, Handle(s, m))
<1> DEFINE heard == [s EXCEPT !.rcv_nxt = m.seq + 1]
           other == [heard EXCEPT !.state = "ESTABLISHED"]
           established == [heard EXCEPT !.state = "ESTABLISHED", !.rcv_ini = m.seq]
           a == Closed(s, << >>)
           b == Outcome(established, <<Ack(established)>>, {"connected"})
           c == Outcome([heard EXCEPT !.state = "SYN_RCVD", !.snd_ini = m.seq], << >>, {})
           d == Ignored(s)
<1>1. Handle(s, m) =
        CASE Resets(m) \/ ("ack" \in m.flags /\ ~AcksSyn(s, m)) -> a
          [] ~Resets(m) /\ {"ack", "syn"} \subseteq m.flags /\ AcksSyn(s, m) -> b
          [] ~Resets(m) /\ "ack" \notin m.flags /\ "syn" \in m.flags -> c
          [] OTHER -> d
  BY DEF Handle, SynSent
<1>2. established \in TcpSockets
      /\ established.snd_nxt = s.snd_nxt /\ established.rcv_ini = m.seq
  <2>1. m.seq \in Nat /\ m.seq + 1 \in Nat
    OBVIOUS
  <2>2. heard \in TcpSockets /\ heard.snd_nxt = s.snd_nxt
    BY <2>1, RcvNxtSet
  <2> HIDE DEF heard
  <2> DEFINE e == [heard EXCEPT !.state = "ESTABLISHED"]
             f == [e EXCEPT !.rcv_ini = m.seq]
  <2>3. e \in TcpSockets /\ e.snd_nxt = s.snd_nxt
    BY <2>2, StateSet DEF States
  <2>4. established = f
    OBVIOUS
  <2> HIDE DEF e, established
  <2>5. QED
    BY <2>1, <2>3, <2>4, RcvIniSet
<1> HIDE DEF established
<1>3. "syn" \in m.flags /\ AcksSyn(s, m) => ConnectionOK(s, m, b)
  <2> DEFINE q == <<Ack(established)>>
  <2>1. q \in Seq(Acks(s.snd_nxt))
    BY <1>2, AckSent
  <2>2. b.socket = established /\ b.sent = q
    BY OutcomeFields
  <2> HIDE DEF q, b
  <2>3. QED
    BY <1>2, <2>1, <2>2 DEF ConnectionOK, Open
<1>4. ConnectionOK(s, m, a) /\ ConnectionOK(s, m, d)
  BY IgnoredOrClosed DEF Open
<1> HIDE DEF a, b, c, d
<1>5. \/ Handle(s, m) = a
      \/ "syn" \in m.flags /\ AcksSyn(s, m) /\ Handle(s, m) = b
      \/ Handle(s, m) = d
  BY <1>1
<1>6. QED
  BY <1>3, <1>4, <1>5

(* A handler that keeps the connection, or may end it.                     *)
LEMMA ConnectionMade ==
  ASSUME NEW s, NEW m, s.state # "SYN_SENT",
         NEW t, t.snd_nxt = s.snd_nxt, t.rcv_ini = s.rcv_ini,
         NEW q \in Seq(Acks(s.snd_nxt)), NEW c,
         \/ s.state \notin Open \/ ~Harmless(s, m)
         \/ t.state \in Open /\ "closing" \notin c /\ "closed" \notin c
  PROVE  ConnectionOK(s, m, Outcome(t, q, c))
<1> DEFINE o == Outcome(t, q, c)
<1>1. o.socket = t /\ o.sent = q /\ o.calls = c
  BY OutcomeFields
<1> HIDE DEF o
<1>2. ConnectionOK(s, m, o)
  BY <1>1 DEF ConnectionOK
<1>3. QED
  BY <1>2 DEF o

(* The handlers of the other states.                                       *)
LEMMA ConnectionHandled ==
  ASSUME NEW s \in TcpSockets, NEW D,
         NEW m \in [seq : Nat, ack : Int, flags : SUBSET Flags, data : D],
         s.state = "SYN_SENT" /\ "syn" \in m.flags => "ack" \in m.flags
  PROVE  ConnectionOK(s, m, Handle(s, m))
<1>1. /\ s.state \in States /\ m.seq \in Nat /\ s.rcv_nxt \in Nat
      /\ Length(m) \in {0, 1}
  BY DEF TcpSockets, Length
<1>2. << >> \in Seq(Acks(s.snd_nxt)) /\ <<Ack(s)>> \in Seq(Acks(s.snd_nxt))
  BY AckSent
<1>3. ConnectionOK(s, m, Ignored(s))
  BY IgnoredOrClosed
<1>4. CASE s.state = "SYN_SENT"
  BY <1>4, SynSentConnection
<1>5. CASE s.state = "CLOSED" \/ (s.state # "SYN_SENT" /\ ~Expected(s, m))
  BY <1>3, <1>5 DEF Handle
<1>6. CASE s.state = "SYN_RCVD" /\ Expected(s, m)
  <2> DEFINE t == [s EXCEPT !.state = "ESTABLISHED"]
             o == Outcome(t, << >>, {"connected"})
  <2>1. t.state = "ESTABLISHED" /\ t.snd_nxt = s.snd_nxt /\ t.rcv_ini = s.rcv_ini
    BY StateSet DEF States
  <2>2. \/ Resets(m) /\ Handle(s, m) = Closed(s, << >>)
        \/ Handle(s, m) = o
        \/ Handle(s, m) = Ignored(s)
    <3>1. Handle(s, m) = SynRcvd(s, m)
      BY <1>6 DEF Handle
    <3> HIDE DEF o
    <3>2. QED
      BY <3>1 DEF SynRcvd, o
  <2> HIDE DEF t
  <2>3. ConnectionOK(s, m, o)
    BY <2>1, <1>2, <1>6, ConnectionMade DEF Open
  <2>4. Resets(m) => ~Harmless(s, m)
    BY <1>6 DEF Resets, Harmless
  <2> HIDE DEF o
  <2>5. QED
    BY <2>2, <2>3, <2>4, <1>3, IgnoredOrClosed
<1>7. CASE s.state = "ESTABLISHED" /\ Expected(s, m)
  <2> DEFINE taken == [s EXCEPT !.rcv_nxt = @ + Length(m)]
             fin   == "fin" \in m.flags
             u     == [taken EXCEPT !.state = "CLOSE_WAIT"]
             t     == IF fin THEN u ELSE taken
             q     == (IF m.data = Null THEN << >> ELSE <<Ack(s)>>)
                        \o (IF fin THEN <<Ack(taken)>> ELSE << >>)
             c     == (IF m.data = Null THEN {} ELSE {"received"})
                        \cup (IF fin THEN {"closing"} ELSE {})
  <2>1. taken \in TcpSockets /\ taken.snd_nxt = s.snd_nxt /\ taken.rcv_ini = s.rcv_ini
        /\ taken.state = "ESTABLISHED"
    <3>1. s.rcv_nxt + Length(m) \in Nat
      BY <1>1
    <3>2. QED
      BY <3>1, <1>7, RcvNxtSet
  <2>2. Established(s, m) = IF "rst" \in m.flags THEN Closed(s, << >>) ELSE Outcome(t, q, c)
    BY DEF Established
  <2> HIDE DEF taken
  <2>3. u.snd_nxt = s.snd_nxt /\ u.rcv_ini = s.rcv_ini
    BY <2>1, StateSet DEF States
  <2>4. q \in Seq(Acks(s.snd_nxt))
    <3>1. Ack(taken) \in Acks(s.snd_nxt)
      BY <2>1, AckSent
    <3>2. <<Ack(taken)>> \in Seq(Acks(s.snd_nxt))
      BY <3>1
    <3>3. QED
      BY <3>2, <1>2, ConcatProperties
  <2> HIDE DEF u, q
  <2>5. t.snd_nxt = s.snd_nxt /\ t.rcv_ini = s.rcv_ini /\ (~fin => t = taken)
    BY <2>1, <2>3
  <2>6. fin \/ ("closing" \notin c /\ "closed" \notin c)
    OBVIOUS
  <2> HIDE DEF t, c
  <2>7. ConnectionOK(s, m, Outcome(t, q, c))
    <3>1. \/ s.state \notin Open \/ ~Harmless(s, m)
          \/ t.state \in Open /\ "closing" \notin c /\ "closed" \notin c
      BY <2>1, <2>5, <2>6, <1>7 DEF Open, Harmless
    <3>2. QED
      BY <3>1, <2>4, <2>5, <1>7, ConnectionMade
  <2>8. Handle(s, m) = Established(s, m)
    BY <1>7 DEF Handle
  <2>9. "rst" \in m.flags => ~Harmless(s, m)
    BY DEF Harmless
  <2> DEFINE a == Outcome(t, q, c)
             b == Closed(s, << >>)
  <2> HIDE DEF a, b
  <2>10. Handle(s, m) = a \/ ("rst" \in m.flags /\ Handle(s, m) = b)
    BY <2>2, <2>8 DEF a, b
  <2>11. ConnectionOK(s, m, a) /\ ("rst" \in m.flags => ConnectionOK(s, m, b))
    BY <2>7, <2>9, IgnoredOrClosed DEF a, b
  <2>12. QED
    BY <2>10, <2>11
<1>8. CASE s.state = "FIN_WAIT1" /\ Expected(s, m)
  <2> DEFINE heard == [s EXCEPT !.state = "FIN_WAIT2"]
             waiting == [s EXCEPT !.state = "FIN_WAIT2", !.rcv_nxt = m.seq + Length(m)]
             other == [heard EXCEPT !.rcv_nxt = m.seq + Length(m)]
             closing == [s EXCEPT !.state = "CLOSING"]
  <2>1. heard \in TcpSockets /\ heard.snd_nxt = s.snd_nxt /\ heard.rcv_ini = s.rcv_ini
    BY StateSet DEF States
  <2>2. closing.snd_nxt = s.snd_nxt /\ closing.rcv_ini = s.rcv_ini
    BY StateSet DEF States
  <2>3. waiting = other
    OBVIOUS
  <2>4. \/ Handle(s, m) = Outcome(waiting, <<Ack(waiting)>>, {})
        \/ Handle(s, m) = Closed(s, <<Ack(s)>>)
        \/ Handle(s, m) = Outcome(closing, <<Ack(s)>>, {})
        \/ Handle(s, m) = Ignored(s)
    <3>1. Handle(s, m) = FinWait1(s, m)
      BY <1>8 DEF Handle
    <3>2. QED
      BY <3>1 DEF FinWait1
  <2> HIDE DEF heard
  <2>5. other \in TcpSockets /\ other.snd_nxt = s.snd_nxt /\ other.rcv_ini = s.rcv_ini
    <3>1. m.seq + Length(m) \in Nat
      BY <1>1
    <3>2. QED
      BY <3>1, <2>1, RcvNxtSet
  <2> HIDE DEF waiting, other, closing
  <2>6. <<Ack(waiting)>> \in Seq(Acks(s.snd_nxt))
    <3>1. Ack(waiting) \in Acks(s.snd_nxt)
      BY <2>3, <2>5, AckSent
    <3>2. QED
      BY <3>1
  <2>7. s.state \notin Open
    BY <1>8 DEF Open
  <2>8. /\ ConnectionOK(s, m, Outcome(waiting, <<Ack(waiting)>>, {}))
        /\ ConnectionOK(s, m, Outcome(closing, <<Ack(s)>>, {}))
    BY <2>2, <2>3, <2>5, <2>6, <2>7, <1>2, <1>8, ConnectionMade
  <2>9. QED
    BY <2>4, <2>7, <2>8, <1>3, IgnoredOrClosed
<1>9. CASE s.state \in {"FIN_WAIT2", "CLOSE_WAIT", "CLOSING", "LAST_ACK"} /\ Expected(s, m)
  <2>1. Handle(s, m) \in {FinWait2(s, m), CloseWait(s, m), LastAck(s, m)}
    <3>1. CASE s.state = "FIN_WAIT2"
      BY <1>9, <3>1 DEF Handle
    <3>2. CASE s.state = "CLOSE_WAIT"
      BY <1>9, <3>2 DEF Handle
    <3>3. CASE s.state \in {"CLOSING", "LAST_ACK"}
      BY <1>9, <3>3 DEF Handle
    <3>4. QED
      BY <1>9, <3>1, <3>2, <3>3
  <2>2. Handle(s, m) \in {Closed(s, <<Ack(s)>>), Closed(s, << >>), Ignored(s)}
    BY <2>1 DEF FinWait2, CloseWait, LastAck
  <2>3. QED
    BY <2>2, <1>3, <1>9, IgnoredOrClosed DEF Open
<1>10. QED
  BY <1>1, <1>4, <1>5, <1>6, <1>7, <1>8, <1>9 DEF States

-----------------------------------------------------------------------------
(* Peers                                                                   *)

(* A segment of the TIM does not end a connection that is live there.      *)
LEMMA StaysOpen ==
  ASSUME NEW G, NEW L, Histories(G, L), NEW s \in TcpSockets, Hears(s, G), s.state \in Open,
         NEW c, Live(c, s.rcv_ini), NEW m, OfTim(m, c, G)
  PROVE  Harmless(s, m)
<1>1. "rst" \notin m.flags
  BY DEF OfTim
<1>2. ASSUME "fin" \in m.flags, Expected(s, m)
      PROVE  FALSE
  <2>1. m.seq = s.rcv_nxt /\ s.rcv_nxt \in Nat
    BY <1>2 DEF Expected, TcpSockets
  <2>2. PICK a \in DrawnIn(G) : NumberOf(m.seq, a) /\ ~Live(c, a)
    BY <1>2 DEF OfTim
  <2>3. s.rcv_ini \in DrawnIn(G) /\ NumberOf(m.seq, s.rcv_ini)
    BY <2>1 DEF Hears
  <2>4. a = s.rcv_ini
    BY <2>1, <2>2, <2>3, OneConnection
  <2>5. QED
    BY <2>2, <2>4
<1>3. QED
  BY <1>1, <1>2 DEF Harmless

(* A socket of the NCAP goes on hearing the connection it was made for.    *)
LEMMA HearsOn ==
  ASSUME NEW G, NEW L, Histories(G, L), NEW s \in TcpSockets, Hears(s, G), s.state # "SYN_SENT",
         NEW c, NEW m, m.seq \in Nat, OfTim(m, c, G),
         NEW o, HandledOK(s, m, o), ConnectionOK(s, m, o)
  PROVE  Hears(o.socket, G)
<1> DEFINE t == o.socket
<1> SUFFICES ASSUME t.state \in Open
             PROVE  t.rcv_ini \in DrawnIn(G) /\ NumberOf(t.rcv_nxt, t.rcv_ini)
  BY DEF Hears
<1>1. t.rcv_ini = s.rcv_ini
  BY DEF ConnectionOK
<1>2. \/ s.state \in Open /\ t.rcv_nxt = s.rcv_nxt
      \/ /\ s.state = "ESTABLISHED" /\ m.seq = s.rcv_nxt /\ m.data # Null
         /\ t.rcv_nxt = m.seq + 1
  BY DEF HandledOK, Open
<1> HIDE DEF t
<1>3. CASE s.state \in Open /\ t.rcv_nxt = s.rcv_nxt
  BY <1>1, <1>3 DEF Hears
<1>4. CASE /\ s.state = "ESTABLISHED" /\ m.seq = s.rcv_nxt /\ m.data # Null
           /\ t.rcv_nxt = m.seq + 1
  <2>1. PICK a \in DrawnIn(G) : NumberOf(m.seq, a) /\ NumberOf(m.seq + 1, a)
    BY <1>4 DEF OfTim
  <2>2. s.rcv_ini \in DrawnIn(G) /\ NumberOf(m.seq, s.rcv_ini)
    BY <1>4 DEF Hears, Open
  <2>3. a = s.rcv_ini
    BY <2>1, <2>2, OneConnection
  <2>4. QED
    BY <1>1, <1>4, <2>1, <2>3
<1>5. QED
  BY <1>2, <1>3, <1>4

(* The sockets of D are those of C a while later; those at K have not left *)
(* their states.                                                           *)
GoOn(C, D, K) ==
    /\ \A k \in DOMAIN D : \E j \in DOMAIN C : Later(C[j], D[k])
    /\ \A j \in K : \E k \in DOMAIN D : Uses(C[j], D[k])

Ending(calls) == "closing" \in calls \/ "closed" \in calls

(* A socket that is used is as it was for its peer.                        *)
LEMMA PeersGoOn ==
  ASSUME NEW C, NEW D, NEW K \in SUBSET DOMAIN C, GoOn(C, D, K),
         NEW a, NEW b, \E i \in K : C[i].rcv_ini = a /\ C[i].snd_ini = b /\ C[i].state \in Open
  PROVE  HasPeer(a, b, D)
<1>1. PICK i \in K : C[i].rcv_ini = a /\ C[i].snd_ini = b /\ C[i].state \in Open
  OBVIOUS
<1>2. PICK k \in DOMAIN D : Uses(C[i], D[k])
  BY DEF GoOn
<1>3. D[k].rcv_ini = a /\ D[k].snd_ini = b /\ D[k].state \in Open
  BY <1>1, <1>2 DEF Uses, Later
<1>4. QED
  BY <1>3 DEF HasPeer

(* And it hears what it heard.                                             *)
LEMMA HearsGoOn ==
  ASSUME NEW C, NEW D, NEW K, GoOn(C, D, K), NEW G, \A i \in DOMAIN C : Hears(C[i], G)
  PROVE  \A k \in DOMAIN D : Hears(D[k], G)
<1>1. SUFFICES ASSUME NEW k \in DOMAIN D, D[k].state \in Open
               PROVE  D[k].rcv_ini \in DrawnIn(G) /\ NumberOf(D[k].rcv_nxt, D[k].rcv_ini)
  BY DEF Hears
<1>2. PICK j \in DOMAIN C : Later(C[j], D[k])
  BY DEF GoOn
<1>3. /\ C[j].state \in Open /\ D[k].rcv_ini = C[j].rcv_ini /\ D[k].rcv_nxt = C[j].rcv_nxt
  BY <1>1, <1>2 DEF Later, Open
<1>4. QED
  BY <1>3 DEF Hears

(* A callback of the NCAP leaves all sockets in their states but the one   *)
(* that ends.                                                              *)
LEMMA CalledGoesOn ==
  ASSUME NEW N, IsNcap(N), NEW i \in 1..Len(N.clones), NEW data, NEW calls,
         NEW M, M = Called(N, i, data, calls)
  PROVE  /\ GoOn(N.clones, M.clones, {j \in DOMAIN N.clones : j # i \/ ~Ending(calls)})
         /\ \E E : M.out \in Seq(Replies(E))
<1> DEFINE C == N.clones
           K == {j \in DOMAIN C : j # i \/ ~Ending(calls)}
<1>1. C \in Seq(TcpSockets) /\ DOMAIN C = 1..Len(C) /\ Len(C) \in Nat
  BY DEF IsNcap
<1>2. ASSUME NEW P, Leaves(N, P)
      PROVE  /\ P.clones \in Seq(TcpSockets) /\ Len(P.clones) = Len(C)
             /\ DOMAIN P.clones = DOMAIN C
             /\ \A j \in DOMAIN C : Later(C[j], P.clones[j])
             /\ \E E : P.out \in Seq(Replies(E))
  BY <1>1, <1>2 DEF Leaves, IsNcap
<1>3. ASSUME Keeps(N, M)
      PROVE  GoOn(C, M.clones, K) /\ \E E : M.out \in Seq(Replies(E))
  <2>1. Leaves(N, M)
    BY <1>3, KeepsLeaves
  <2>2. \A j \in DOMAIN C : Uses(C[j], M.clones[j])
    BY <1>1, <1>3 DEF Keeps
  <2>3. QED
    BY <1>2, <2>1, <2>2 DEF GoOn
<1>4. CASE "closing" \in calls
           /\ M = [N EXCEPT !.clones[i] = Close(@).socket, !.out = @ \o Close(N.clones[i]).sent]
  <2> DEFINE s == C[i]
             o == Close(s)
  <2>1. s \in TcpSockets
    BY <1>1
  <2>2. Later(s, o.socket) /\ o.sent \in Seq(Replies({Null}))
    BY <2>1, CloseLater DEF Controls
  <2>3. M = Used(N, i, o.socket, o.sent)
    BY <1>4 DEF Used
  <2> HIDE DEF o
  <2>4. Leaves(N, M) /\ ChangedAt(N, i, o.socket, M)
    BY <2>2, <2>3, LeavesUsed
  <2>5. \A j \in K : j \in DOMAIN C /\ M.clones[j] = C[j] /\ C[j] \in TcpSockets
    BY <1>1, <1>4, <2>4 DEF ChangedAt, Ending
  <2>6. \A j \in K : Uses(C[j], M.clones[j])
    BY <2>5 DEF Uses, Later
  <2>7. GoOn(C, M.clones, K)
    BY <1>2, <2>4, <2>5, <2>6 DEF GoOn
  <2>8. QED
    BY <1>2, <2>4, <2>7
<1>5. CASE "closed" \in calls /\ M = [ReportTimDisconnected(N) EXCEPT !.clones = RemoveAt(@, i)]
  <2> DEFINE P == ReportTimDisconnected(N)
             D == RemoveAt(P.clones, i)
  <2>1. Keeps(N, P) /\ IsNcap(P) /\ Leaves(N, P)
    BY ReportTimDisconnectedKeeps, KeepsLeaves DEF Keeps
  <2>2. M = [P EXCEPT !.clones = RemoveAt(@, i)]
    BY <1>5
  <2> HIDE DEF P
  <2>3. M.clones = D /\ M.out = P.out
    BY <2>1, <2>2 DEF IsNcap, HasNcapFields
  <2> DEFINE Q == P.clones
  <2>4. Q \in Seq(TcpSockets) /\ Len(Q) = Len(C) /\ i \in 1..Len(Q)
    BY <1>1, <1>2, <2>1
  <2>5. \A j \in 1..Len(C) : Uses(C[j], Q[j])
    BY <2>1 DEF Keeps
  <2> HIDE DEF Q, C
  <2> DEFINE R == RemoveAt(Q, i)
  <2>6. /\ R \in Seq(TcpSockets) /\ Len(R) = Len(C) - 1
        /\ \A j \in 1..Len(C)-1 : R[j] = IF j < i THEN Q[j] ELSE Q[j + 1]
    BY <2>4, RemoveAtElements
  <2> HIDE DEF R
  <2>7. DOMAIN R = 1..Len(C)-1 /\ i \in 1..Len(C)
    BY <1>1, <2>4, <2>6
  <2>8. \A k \in DOMAIN R : \E j \in DOMAIN C : Later(C[j], R[k])
    <3>1. SUFFICES ASSUME NEW k \in DOMAIN R PROVE \E j \in DOMAIN C : Later(C[j], R[k])
      OBVIOUS
    <3>2. k \in DOMAIN C /\ k + 1 \in DOMAIN C /\ R[k] \in {Q[k], Q[k + 1]}
      BY <1>1, <2>6, <2>7
    <3>3. QED
      BY <1>1, <2>5, <3>2 DEF Uses
  <2>9. \A j \in K : \E k \in DOMAIN R : Uses(C[j], R[k])
    <3>1. SUFFICES ASSUME NEW j \in DOMAIN C, j # i PROVE \E k \in DOMAIN R : Uses(C[j], R[k])
      BY <1>5 DEF Ending
    <3>2. CASE j < i
      <4>1. j \in DOMAIN R /\ R[j] = Q[j]
        BY <1>1, <2>6, <2>7, <3>2
      <4>2. QED
        BY <1>1, <2>5, <4>1
    <3>3. CASE j > i
      <4>1. j - 1 \in DOMAIN R /\ R[j - 1] = Q[j]
        BY <1>1, <2>6, <2>7, <3>3
      <4>2. QED
        BY <1>1, <2>5, <4>1
    <3>4. QED
      BY <1>1, <2>7, <3>1, <3>2, <3>3
  <2>10. GoOn(C, R, K)
    BY <2>8, <2>9 DEF GoOn
  <2>11. R = M.clones
    BY <2>3 DEF R, Q
  <2>12. QED
    BY <1>2, <2>1, <2>3, <2>10, <2>11 DEF C
<1> DEFINE a == ReportTimConnected(N)
           b == ReceiveReply(N, data)
           c == [N EXCEPT !.clones[i] = Close(@).socket, !.out = @ \o Close(N.clones[i]).sent]
           d == [ReportTimDisconnected(N) EXCEPT !.clones = RemoveAt(@, i)]
<1>6. Called(N, i, data, calls) =
        CASE "connected" \in calls -> a
          [] "received" \in calls  -> b
          [] "closing" \in calls   -> c
          [] "closed" \in calls    -> d
          [] OTHER                 -> N
  BY DEF Called
<1>7. Keeps(N, a) /\ Keeps(N, b) /\ Keeps(N, N)
  BY ReportTimConnectedKeeps, ReceiveReplyKeeps, KeepsAsItIs DEF IsNcap
<1> HIDE DEF a, b, c, d
<1>8. \/ M \in {a, b, N}
      \/ "closing" \in calls /\ M = c
      \/ "closed" \in calls /\ M = d
  BY <1>6
<1>9. QED
  BY <1>3, <1>4, <1>5, <1>7, <1>8 DEF c, d

(* What the TIM sends in answer follows its last number; what has data     *)
(* advances it.                                                            *)
LEMMA AnswerNumbered ==
  ASSUME NEW o, o.socket \in TcpSockets, o.sent \in Seq(Acks(o.socket.snd_nxt)), NEW m
  PROVE  /\ Uses(o.socket, Answer(o, m).socket)
         /\ \A x \in ToSet(Answer(o, m).sent) :
              /\ x.flags = {"ack"} /\ x.seq = o.socket.snd_nxt
              /\ x.data # Null => Answer(o, m).socket.snd_nxt = x.seq + 1
<1> DEFINE s == o.socket
           r == Reply(m.data)
           a == Send(s, r)
           x == [DataHeader(s) EXCEPT !.data = r]
<1>1. Answer(o, m) = [a EXCEPT !.sent = o.sent \o @] \/ Answer(o, m) = o
  BY DEF Answer
<1>2. \A y \in ToSet(o.sent) : y.flags = {"ack"} /\ y.seq = s.snd_nxt /\ y.data = Null
  <2>1. \A y \in ToSet(o.sent) : y \in Acks(s.snd_nxt)
    BY DEF ToSet
  <2>2. QED
    BY <2>1 DEF Acks
<1>3. CASE Answer(o, m) = o
  BY <1>2, <1>3 DEF Uses, Later
<1>4. CASE Answer(o, m) = [a EXCEPT !.sent = o.sent \o @]
  <2>1. Uses(s, a.socket) /\ a.sent \in Seq(Replies({r}))
    BY SendUses
  <2>2. a = [socket |-> a.socket, sent |-> a.sent, calls |-> a.calls]
    BY DEF Send, Outcome
  <2>3. a.socket = Advance(s, s.snd_nxt) /\ a.sent = <<x>>
    BY OutcomeFields DEF Send
  <2>4. Advance(s, s.snd_nxt).snd_nxt = s.snd_nxt + 1
    BY DEF Advance, TcpSockets
  <2>5. x.flags = {"ack"} /\ x.seq = s.snd_nxt
    BY DEF DataHeader, Segment
  <2> HIDE DEF a, r, x
  <2>6. Answer(o, m).socket = a.socket /\ Answer(o, m).sent = o.sent \o a.sent
    BY <1>4, <2>2
  <2>7. ToSet(a.sent) = {x}
    BY <2>3 DEF ToSet
  <2>8. ToSet(o.sent \o a.sent) \subseteq ToSet(o.sent) \cup {x}
    BY <2>1, <2>7, ArrivesFrom
  <2>9. QED
    BY <1>2, <2>1, <2>3, <2>4, <2>5, <2>6, <2>8
<1>5. QED
  BY <1>1, <1>3, <1>4

(* close() leaves a connection that begins or is established.              *)
LEMMA CloseEnds ==
  ASSUME NEW s \in TcpSockets
  PROVE  /\ Close(s).sent = <<Fin(s)>>
         /\ Close(s).socket.state \notin {"SYN_SENT", "ESTABLISHED"}
         /\ Close(s).socket.state = "SYN_RCVD" => s.state = "SYN_RCVD"
<1>1. ASSUME NEW x \in {"FIN_WAIT1", "LAST_ACK", "CLOSED"}
      PROVE  [s EXCEPT !.state = x].state = x
  BY StateSet DEF States
<1> DEFINE q == <<Fin(s)>>
           o == Close(s)
<1>2. \/ \E x \in {"FIN_WAIT1", "LAST_ACK", "CLOSED"}, c \in {{}, {"closed"}} :
            o = Outcome([s EXCEPT !.state = x], q, c)
      \/ o = Outcome(s, q, {}) /\ s.state \notin {"SYN_SENT", "ESTABLISHED"}
  <2> HIDE DEF q
  <2>1. QED
    BY DEF Close, Closed, q
<1> HIDE DEF q, o
<1>3. CASE o = Outcome(s, q, {}) /\ s.state \notin {"SYN_SENT", "ESTABLISHED"}
  <2>1. o.socket = s /\ o.sent = q
    BY <1>3, OutcomeFields
  <2>2. QED
    BY <2>1, <1>3 DEF q, o
<1>4. ASSUME NEW x \in {"FIN_WAIT1", "LAST_ACK", "CLOSED"}, NEW c,
             o = Outcome([s EXCEPT !.state = x], q, c)
      PROVE  o.sent = q /\ o.socket.state \in {"FIN_WAIT1", "LAST_ACK", "CLOSED"}
  <2> DEFINE t == [s EXCEPT !.state = x]
  <2>1. t.state = x
    BY <1>1
  <2> HIDE DEF t
  <2>2. o.socket = t /\ o.sent = q
    BY <1>4, OutcomeFields DEF t
  <2>3. QED
    BY <2>1, <2>2
<1>5. QED
  BY <1>2, <1>3, <1>4 DEF q, o

-----------------------------------------------------------------------------
(* Every step keeps the peers                                              *)

(* What each step has to show.                                             *)
LEMMA PeersKept ==
  ASSUME DeliveryInv, PeerInv, DOMAIN got \subseteq DOMAIN got',
         \A a \in DrawnIn(got) : Live(Own', a) => Live(Own, a),
         \A m \in ToSet(net'["ncap"]) : m \in ToSet(net["ncap"]) \/ OfTim(m, Own', got'),
         turns' # << >> =>
           \/ handled' \in ToSet(net["ncap"])
           \/ handled' = handled /\ turns # << >>,
         Awaiting(Own, Own', got), PeersStay(Own, ncap.clones, ncap'.clones),
         \A m \in ToSet(net'["tim"]) :
           m \in ToSet(net["tim"]) \/ Answers(m, Own', ncap'.clones, got'),
         NcapSide', TimSide', Peered(Own', ncap'.clones)
  PROVE  PeerInv'
<1>1. \A m : OfTim(m, Own, got) => OfTim(m, Own', got')
  BY OfTimStays
<1>2. TowardsNcap'
  BY <1>1 DEF PeerInv, TowardsNcap
<1>3. \A m \in ToSet(net["tim"]) : m.ack \in Int
  <2>1. net["tim"] \in Seq(Under("tim", got, log))
    BY DEF DeliveryInv, NetOK, Nodes
  <2>2. \A m \in ToSet(net["tim"]) : m \in Under("tim", got, log)
    BY <2>1 DEF ToSet
  <2>3. QED
    BY <2>2 DEF Under
<1>4. ASSUME NEW m \in ToSet(net["tim"])
      PROVE  Answers(m, Own', ncap'.clones, got')
  <2>1. Answers(m, Own, ncap.clones, got)
    BY DEF PeerInv, TowardsTim
  <2>2. QED
    BY <1>3, <2>1, AnswersStays
<1>5. TowardsTim'
  BY <1>4 DEF TowardsTim
<1>6. QED
  BY <1>2, <1>5 DEF PeerInv

(* The TIM has the socket it is using.                                     *)
LEMMA ClientIsTyped ==
  ASSUME DeliveryInv, client # Null
  PROVE  /\ client \in TcpSockets /\ client.snd_ini \in DrawnIn(got)
         /\ HasSocket(client, ncap.clones, got)
<1>1. HasSocket(client, ncap.clones, got)
  BY DEF DeliveryInv, ClientOK
<1>2. QED
  BY <1>1, HeldIsTyped DEF HasSocket, SocketOf, DrawnIn

(* Where its thread uses the socket, there is one.                         *)
LEMMA HeldIsNotNull ==
  ASSUME DeliveryInv, Holding
  PROVE  client # Null
<1>1. client \in TcpSockets
  BY HeldIsTyped DEF DeliveryInv, ClientOK
<1>2. QED
  BY <1>1, IeeeAssumption DEF IeeeAssumption, Sockets, TcpSockets

(* The TIM becomes established by the answer to its own SYN: the socket    *)
(* that was made for this SYN is its peer.                                 *)
LEMMA PeerFound ==
  ASSUME NEW G, NEW L, Histories(G, L),
         NEW c \in TcpSockets, c # Null, c.state # "SYN_RCVD", NumberOf(c.snd_nxt, c.snd_ini),
         NEW C, Peered(c, C), NEW m, m.ack \in Int, Answers(m, c, C, G),
         NEW o, HandledOK(c, m, o), ConnectionOK(c, m, o),
         NEW d, Uses(o.socket, d)
  PROVE  Peered(d, C)
<1> SUFFICES ASSUME d.state = "ESTABLISHED" PROVE HasPeer(d.snd_ini, d.rcv_ini, C)
  BY DEF Peered
<1>1. /\ o.socket.state = "ESTABLISHED" /\ d.snd_ini = c.snd_ini
      /\ d.rcv_ini = o.socket.rcv_ini
  BY DEF Uses, Later, HandledOK
<1>2. c.state \in {"SYN_SENT", "ESTABLISHED"}
  BY <1>1 DEF HandledOK
<1>3. CASE c.state = "ESTABLISHED"
  BY <1>1, <1>3 DEF ConnectionOK, Peered
<1>4. CASE c.state = "SYN_SENT"
  <2>1. "syn" \in m.flags /\ AcksSyn(c, m) /\ d.rcv_ini = m.seq
    BY <1>1, <1>4 DEF ConnectionOK
  <2>2. PICK k \in DOMAIN G : m.ack - 1 = Isns[k]
    BY <2>1 DEF Answers, DrawnIn
  <2>3. c.snd_ini \in Nat /\ c.snd_nxt \in Nat /\ k \in DOMAIN Isns
    BY IsnsApart DEF TcpSockets
  <2>4. c.snd_ini < m.ack /\ m.ack <= c.snd_nxt
    BY <2>1 DEF AcksSyn
  <2>5. ~(c.snd_ini < m.ack - 1)
    BY <2>2, <2>3, <2>4 DEF NumberOf
  <2>6. m.ack = c.snd_ini + 1
    BY <2>3, <2>4, <2>5
  <2>7. QED
    BY <1>1, <1>4, <2>1, <2>6 DEF Answers
<1>5. QED
  BY <1>2, <1>3, <1>4

(* The TIM's socket handles a segment, and the TIM answers.                *)
LEMMA TimReceivePeers ==
  ASSUME DeliveryInv, PeerInv, Apart, Apart', TimReceive
  PROVE  PeerInv'
<1> DEFINE C == ncap.clones
           m == Head(net["tim"])
           o == Handle(client, m)
           a == Answer(o, m)
<1>1. net["tim"] # << >> /\ UNCHANGED <<mode, pos, header, ncap, turns, handled, asking>>
  BY DEF TimReceive, loop
<1>2. \/ /\ client = Null /\ net' = Exchange("tim", "ncap", << >>)
         /\ UNCHANGED <<client, pc, log, got>>
      \/ /\ client # Null
         /\ client' = a.socket /\ net' = Exchange("tim", "ncap", a.sent)
         /\ got' = Given(client, m)
         /\ pc' = pc \/ pc' = Start(pc)
  BY DEF TimReceive
<1>3. /\ NetOK(net, got, log) /\ Histories(got, log)
      /\ NcapSide /\ TimSide /\ Peered(Own, C)
  BY DEF DeliveryInv, PeerInv
<1>4. PeersStay(Own, C, C)
  BY DEF PeersStay
<1>5. CASE /\ client = Null /\ net' = Exchange("tim", "ncap", << >>)
           /\ UNCHANGED <<client, pc, log, got>>
  <2>1. << >> \in Seq({}) /\ ToSet(<< >>) = {}
    BY DEF ToSet
  <2>2. /\ ToSet(net'["ncap"]) \subseteq ToSet(net["ncap"])
        /\ ToSet(net'["tim"]) \subseteq ToSet(net["tim"])
    BY <1>1, <1>3, <1>5, <2>1, ExchangedTo DEF Nodes
  <2>3. Own' = Own /\ Awaiting(Own, Own', got)
    BY <1>5 DEF Awaiting, Own, FinOut
  <2>4. NcapSide' /\ TimSide' /\ Peered(Own', ncap'.clones)
    BY <1>1, <1>3, <1>5, <2>3 DEF NcapSide, TimSide
  <2>5. ncap'.clones = C
    BY <1>1
  <2> HIDE DEF C
  <2>6. QED
    BY <1>1, <1>4, <1>5, <2>2, <2>3, <2>4, <2>5, PeersKept DEF C
<1>6. CASE /\ client # Null
           /\ client' = a.socket /\ net' = Exchange("tim", "ncap", a.sent)
           /\ got' = Given(client, m)
           /\ pc' = pc \/ pc' = Start(pc)
  <2>1. /\ client \in TcpSockets /\ client.snd_ini \in DrawnIn(got)
        /\ HasSocket(client, C, got)
    BY <1>6, ClientIsTyped
  <2>2. PICK n \in DOMAIN got : SocketOf(client, n, got)
    BY <2>1 DEF HasSocket
  <2>3. m \in ToSet(net["tim"]) \cap Under("tim", got, log)
    <3>1. net["tim"] \in Seq(Under("tim", got, log))
      BY <1>3 DEF NetOK, Nodes
    <3>2. QED
      BY <1>1, <3>1, FirstTaken
  <2>4. HandledOK(client, m, o) /\ ConnectionOK(client, m, o)
    <3>1. /\ m \in [seq : Nat, ack : Int, flags : SUBSET Flags, data : DataOf(log)]
          /\ "syn" \in m.flags => "ack" \in m.flags
      BY <2>3 DEF Under
    <3> HIDE DEF m
    <3>2. QED
      BY <2>1, <3>1, HandleOK, ConnectionHandled
  <2>5. DOMAIN got' = DOMAIN got /\ DrawnIn(got') = DrawnIn(got)
    <3>1. got' = Giving(got, n, m, o)
      BY <1>3, <1>6, <2>2, GivenIsGiving
    <3> HIDE DEF m, o
    <3>2. DOMAIN Giving(got, n, m, o) = DOMAIN got
      BY <1>3, <2>2, <2>3, <2>4, Handled
    <3>3. QED
      BY <3>1, <3>2 DEF DrawnIn
  <2>6. /\ Answers(m, Own, C, got) /\ m.ack \in Int
    BY <2>3 DEF PeerInv, TowardsTim, Under
  <2> HIDE DEF m, o
  <2>7. /\ Uses(o.socket, a.socket)
        /\ \A x \in ToSet(a.sent) :
              /\ x.flags = {"ack"} /\ x.seq = o.socket.snd_nxt
              /\ x.data # Null => a.socket.snd_nxt = x.seq + 1
    <3>1. o.socket \in TcpSockets /\ o.sent \in Seq(Acks(o.socket.snd_nxt))
      BY <2>4 DEF HandledOK, ConnectionOK
    <3>2. QED
      BY <3>1, AnswerNumbered
  <2>8. \E E : a.sent \in Seq(Replies(E))
    BY <2>4, AnswerLater DEF HandledOK
  <2> HIDE DEF a
  <2>9. PICK E : a.sent \in Seq(Replies(E))
    BY <2>8
  <2>10. /\ ToSet(net'["ncap"]) \subseteq ToSet(net["ncap"]) \cup ToSet(a.sent)
         /\ ToSet(net'["tim"]) \subseteq ToSet(net["tim"])
    BY <1>1, <1>3, <1>6, <2>9, ExchangedTo DEF Nodes
  <2>11. /\ Uses(o.socket, client') /\ client'.snd_ini = client.snd_ini
         /\ o.socket.snd_nxt = client.snd_nxt /\ client'.state = o.socket.state
    BY <1>6, <2>4, <2>7 DEF HandledOK, ConnectionOK, Uses, Later
  <2>12. client.state # "SYN_RCVD" /\ NumberOf(client.snd_nxt, client.snd_ini)
    BY <1>3, <1>6 DEF TimSide, Apart
  <2>13. client' # Null /\ NumberOf(client'.snd_nxt, client.snd_ini)
    <3>1. client' \in TcpSockets
      BY <2>11 DEF Uses, Later
    <3>2. client' # Null
      BY <3>1, IeeeAssumption DEF IeeeAssumption, Sockets, TcpSockets
    <3>3. QED
      BY <3>2, <2>11 DEF Apart
  <2>14. FinOut' <=> FinOut
    BY <1>6 DEF FinOut, Start
  <2>15. ASSUME NEW x
         PROVE  Live(Own', x) => Live(Own, x)
    BY <1>6, <2>4, <2>11, <2>12, <2>14 DEF Live, HandledOK, Own
  <2>16. ASSUME NEW x \in ToSet(a.sent)
         PROVE  OfTim(x, Own', got')
    <3>1. x.flags = {"ack"} /\ NumberOf(x.seq, client.snd_ini)
      BY <2>7, <2>11, <2>12
    <3>2. x.data # Null => NumberOf(x.seq + 1, client.snd_ini)
      BY <1>6, <2>7, <2>13
    <3>3. QED
      BY <2>1, <2>5, <3>1, <3>2 DEF OfTim
  <2>17. Awaiting(Own, Own', got)
    BY <1>6, <2>4, <2>11, <2>14 DEF Awaiting, HandledOK, Own
  <2>18. Peered(Own', C)
    <3>1. CASE FinOut
      BY <2>14, <3>1 DEF Own, Peered
    <3>2. CASE ~FinOut
      <4>1. Own = client /\ Own' = client'
        BY <2>14, <3>2 DEF Own
      <4>2. Peered(client, C) /\ Answers(m, client, C, got)
        BY <1>3, <2>6, <4>1
      <4>3. Peered(client', C)
        BY <1>3, <1>6, <2>1, <2>4, <2>6, <2>11, <2>12, <4>2, PeerFound
      <4>4. QED
        BY <4>1, <4>3
    <3>3. QED
      BY <3>1, <3>2
  <2>19. NcapSide'
    BY <1>1, <1>3, <2>5, HearsStays DEF NcapSide
  <2>20. TimSide'
    BY <1>1, <1>3, <1>6, <2>4, <2>11, <2>12 DEF TimSide, HandledOK, Start
  <2>21. ncap'.clones = C
    BY <1>1
  <2> HIDE DEF C
  <2>22. QED
    BY <1>1, <1>4, <2>5, <2>10, <2>15, <2>16, <2>17, <2>18, <2>19, <2>20, <2>21, PeersKept DEF C
<1>7. QED
  BY <1>2, <1>5, <1>6

(* A step that sends nothing and leaves the sockets of the NCAP, and the   *)
(* TIM's as well or deletes or leaves it.                                  *)
LEMMA QuietPeers ==
  ASSUME DeliveryInv, PeerInv, UNCHANGED <<net, got, turns, handled>>, ncap'.clones = ncap.clones,
         Own' = Own \/ Own' = Null, TimSide'
  PROVE  PeerInv'
<1>1. NcapSide /\ Peered(Own, ncap.clones)
  BY DEF PeerInv
<1>2. NcapSide' /\ Peered(Own', ncap'.clones)
  BY <1>1 DEF NcapSide, Peered
<1>3. /\ \A a \in DrawnIn(got) : Live(Own', a) => Live(Own, a)
      /\ Awaiting(Own, Own', got) /\ PeersStay(Own, ncap.clones, ncap'.clones)
  BY DEF Live, Awaiting, PeersStay
<1>4. QED
  BY <1>2, <1>3, PeersKept

(* The TIM draws a number and sends its SYN.                               *)
LEMMA DoConnectPeers ==
  ASSUME DeliveryInv, PeerInv, Apart',
         NEW from, NEW to \in {"connecting", "reconnecting"}, DoConnect(from, to)
  PROVE  PeerInv'
<1> DEFINE n == Len(got) + 1
           H == Append(got, << >>)
           s == Connect(Isn).socket
           C == ncap.clones
           m == Segment(Isn, 0, {"syn"}, Null)
           q == <<m>>
<1>1. /\ Len(got) < Len(Isns)
      /\ pc' = to /\ client' = s /\ got' = H
      /\ net' = Transmit("ncap", Connect(Isn).sent)
      /\ ncap'.clones = C /\ UNCHANGED <<ncap, turns, handled>>
  BY DEF DoConnect, MoreIsns, loop
<1>2. /\ DOMAIN got \subseteq DOMAIN H /\ n \notin DOMAIN got /\ n \in DOMAIN Isns
  BY <1>1, OneMoreDrawn DEF DeliveryInv
<1>3. /\ \A k \in DOMAIN Isns : Isns[k] \in Nat
      /\ \A j, k \in DOMAIN Isns : Isns[j] = Isns[k] => j = k
      /\ DOMAIN got \subseteq DOMAIN Isns
  BY IsnsApart DEF DeliveryInv
<1>4. Isn \in Nat \ DrawnIn(got)
  <2>1. Isn = Isns[n]
    BY DEF Isn
  <2> HIDE DEF n
  <2>2. QED
    BY <1>2, <1>3, <2>1 DEF DrawnIn
<1>5. /\ s \in TcpSockets /\ s.snd_ini = Isn /\ s.snd_nxt = Isn + 1 /\ s.state = "SYN_SENT"
      /\ Connect(Isn).sent = q
  BY <1>4, OutcomeFields DEF Connect, TcpSockets, States, Outcome
<1>6. m.seq = Isn /\ m.data = Null /\ m.flags = {"syn"}
  BY DEF Segment
<1> HIDE DEF H, s, n, m
<1>7. client' # Null
  BY <1>1, <1>5, IeeeAssumption DEF IeeeAssumption, Sockets, TcpSockets
<1>8. NumberOf(Isn + 1, Isn)
  BY <1>1, <1>5, <1>7 DEF Apart
<1>9. OfTim(m, Own', got')
  BY <1>6, <1>8 DEF OfTim
<1>10. /\ ToSet(net'["ncap"]) \subseteq ToSet(net["ncap"]) \cup {m}
       /\ net'["tim"] = net["tim"]
  <2>1. q \in Seq({m}) /\ ToSet(q) = {m}
    BY DEF ToSet
  <2> HIDE DEF q
  <2>2. NetOK(net, got, log)
    BY DEF DeliveryInv
  <2>3. net' = Transmit("ncap", q)
    BY <1>1, <1>5
  <2>4. QED
    BY <2>1, <2>2, <2>3, TransmittedTo DEF Nodes
<1>11. /\ \A a \in DrawnIn(got) : Live(Own', a) => Live(Own, a)
       /\ Awaiting(Own, Own', got) /\ PeersStay(Own, C, C)
  <2>1. Own' = client'
    BY <1>1 DEF Own, FinOut
  <2>2. QED
    BY <1>1, <1>4, <1>5, <2>1 DEF Live, Awaiting, PeersStay
<1>12. NcapSide'
  BY <1>1, <1>2, HearsStays DEF PeerInv, NcapSide
<1>13. TimSide' /\ Peered(Own', C)
  BY <1>1, <1>5 DEF TimSide, Peered, Own, FinOut
<1> HIDE DEF C, q
<1>14. QED
  BY <1>1, <1>2, <1>9, <1>10, <1>11, <1>12, <1>13, PeersKept DEF C

(* The TIM's socket is used, and sends one segment.                        *)
LEMMA ClientPeers ==
  ASSUME DeliveryInv, PeerInv, UNCHANGED <<got, ncap, turns, handled>>,
         NEW m, net' = Transmit("ncap", <<m>>), OfTim(m, Own', got),
         client # Null, Uses(client, client'), ~FinOut, ~FinOut',
         pc' \notin {"sending", "finishing"}
  PROVE  PeerInv'
<1>1. NcapSide /\ TimSide /\ Peered(Own, ncap.clones) /\ NetOK(net, got, log)
  BY DEF PeerInv, DeliveryInv
<1>2. /\ ToSet(net'["ncap"]) \subseteq ToSet(net["ncap"]) \cup {m}
      /\ net'["tim"] = net["tim"]
  <2> DEFINE q == <<m>>
  <2>1. q \in Seq({m}) /\ ToSet(q) = {m}
    BY DEF ToSet
  <2>2. net' = Transmit("ncap", q)
    OBVIOUS
  <2> HIDE DEF q
  <2>3. QED
    BY <1>1, <2>1, <2>2, TransmittedTo DEF Nodes
<1>3. /\ \A a \in DrawnIn(got) : Live(Own', a) => Live(Own, a)
      /\ Awaiting(Own, Own', got) /\ PeersStay(Own, ncap.clones, ncap'.clones)
  BY DEF Live, Awaiting, PeersStay, Uses, Later, Own
<1>4. NcapSide' /\ TimSide' /\ Peered(Own', ncap'.clones)
  BY <1>1 DEF NcapSide, TimSide, Peered, Uses, Later, Own
<1>5. QED
  BY <1>2, <1>3, <1>4, PeersKept

(* Each step of the TIM's thread.                                          *)
LEMMA ThreadPeers ==
  ASSUME DeliveryInv, PeerInv, Apart, Apart', Thread
  PROVE  PeerInv'
<1>1. ASSUME DoConnect("start", "connecting") \/ DoConnect("collected", "reconnecting")
      PROVE  PeerInv'
  BY <1>1, DoConnectPeers
<1>2. ASSUME \/ Await("connecting", "connected") \/ Await("reconnecting", "reconnected")
             \/ Suspend \/ Collect \/ NotFull \/ Disconnected \/ CloseTests \/ CloseSets
      PROVE  PeerInv'
  <2>1. /\ UNCHANGED <<net, got, ncap, turns, handled>>
        /\ pc' \notin {"sending", "finishing"}
    BY <1>2 DEF Await, Suspend, Collect, NotFull, Disconnected, CloseTests, CloseSets, Tested,
                Go, loop
  <2>2. Own' = Own \/ Own' = Null
    BY <1>2 DEF Await, Suspend, Collect, NotFull, Disconnected, CloseTests, CloseSets, Tested,
                Go, Own, FinOut
  <2>3. \/ client' = client \/ client' = Null
        \/ \E x \in {"CLOSED", "FIN_WAIT1", "LAST_ACK"} :
              client' = [client EXCEPT !.state = x] /\ pc \in InClose
    BY <1>2 DEF Await, Suspend, Collect, NotFull, Disconnected, CloseTests, CloseSets, Go, InClose
  <2>4. client' # Null => client'.state # "SYN_RCVD"
    <3>1. pc \in InClose => client \in TcpSockets
      BY HeldIsNotNull, ClientIsTyped DEF Holding
    <3>2. QED
      BY <2>3, <3>1 DEF PeerInv, TimSide, TcpSockets
  <2>5. TimSide'
    BY <2>1, <2>4 DEF TimSide
  <2>6. QED
    BY <2>1, <2>2, <2>5, QuietPeers
<1>3. ASSUME Disconnect
      PROVE  PeerInv'
  <2>1. /\ UNCHANGED <<net, got, ncap, turns, handled, client>>
        /\ pc = "loop" /\ Streams /\ pc' = "finishing" /\ header' = Fin(client)
    BY <1>3 DEF Disconnect, Go, loop
  <2>2. client # Null
    BY <2>1, HeldIsNotNull DEF Holding
  <2>3. header'.seq = client.snd_nxt
    BY <2>1 DEF Fin, Segment
  <2>4. Own' = Own
    BY <2>1 DEF Own, FinOut
  <2>5. TimSide'
    BY <2>1, <2>2, <2>3 DEF Apart, PeerInv, TimSide
  <2>6. QED
    BY <2>1, <2>4, <2>5, QuietPeers
<1>4. ASSUME FinSent
       PROVE  PeerInv'
  <2>1. /\ UNCHANGED <<got, ncap, turns, handled, client>>
        /\ pc = "finishing" /\ pc' = "finished" /\ net' = Transmit("ncap", <<header>>)
    BY <1>4 DEF FinSent, loop
  <2>2. client # Null /\ IsFin(header) /\ NumberOf(header.seq, client.snd_ini)
    BY <2>1, HeldIsNotNull DEF Holding, InClose, DeliveryInv, SendingOK, PeerInv, TimSide
  <2>3. client \in TcpSockets /\ client.snd_ini \in DrawnIn(got)
    BY <2>2, ClientIsTyped
  <2>4. Own' = Null
    BY <2>1 DEF Own, FinOut
  <2>5. OfTim(header, Own', got)
    BY <2>2, <2>3, <2>4 DEF OfTim, Live, IsFin
  <2>6. NcapSide /\ Peered(Own, ncap.clones) /\ NetOK(net, got, log)
    BY DEF PeerInv, DeliveryInv
  <2>7. /\ ToSet(net'["ncap"]) \subseteq ToSet(net["ncap"]) \cup {header}
        /\ net'["tim"] = net["tim"]
    <3> DEFINE q == <<header>>
    <3>1. q \in Seq({header}) /\ ToSet(q) = {header} /\ net' = Transmit("ncap", q)
      BY <2>1 DEF ToSet
    <3> HIDE DEF q
    <3>2. QED
      BY <2>6, <3>1, TransmittedTo DEF Nodes
  <2>8. /\ \A a \in DrawnIn(got) : Live(Own', a) => Live(Own, a)
        /\ Awaiting(Own, Own', got) /\ PeersStay(Own, ncap.clones, ncap'.clones)
    BY <2>1, <2>4 DEF Live, Awaiting, PeersStay
  <2>9. NcapSide' /\ TimSide' /\ Peered(Own', ncap'.clones)
    BY <2>1, <2>4, <2>6 DEF PeerInv, NcapSide, TimSide, Peered
  <2>10. QED
    BY <2>1, <2>5, <2>7, <2>8, <2>9, PeersKept
<1>5. ASSUME SendDataSet
      PROVE  PeerInv'
  <2>1. /\ UNCHANGED <<net, got, ncap, turns, handled, client>>
        /\ pc = "reconnected" \/ (pc = "collected" /\ ~Streams /\ Full)
        /\ header' = [DataHeader(client) EXCEPT !.data = Message(Unasked, "set", Null)]
        /\ pc' = "sending"
    BY <1>5 DEF SendDataSet, Go, loop
  <2>2. client # Null
    BY <2>1, HeldIsNotNull DEF Holding, Streams
  <2>3. header'.seq = client.snd_nxt
    BY <2>1 DEF DataHeader, Segment
  <2>4. Own' = Own /\ TimSide'
    BY <2>1, <2>2, <2>3 DEF Own, FinOut, Apart, PeerInv, TimSide
  <2>5. QED
    BY <2>1, <2>4, QuietPeers
<1>6. ASSUME DataSetSent
      PROVE  PeerInv'
  <2>1. /\ UNCHANGED <<got, ncap, turns, handled>>
        /\ pc' = "loop" /\ pc = "sending"
        /\ net' = Transmit("ncap", <<header>>)
        /\ \E from \in header.seq..client.snd_nxt : client' = Advance(client, from)
    BY <1>6 DEF DataSetSent, loop
  <2>2. PICK from \in header.seq..client.snd_nxt : client' = Advance(client, from)
    BY <2>1
  <2>3. client # Null /\ Headed(header) /\ NumberOf(header.seq, client.snd_ini)
    BY <2>1, HeldIsNotNull DEF Holding, DeliveryInv, SendingOK, PeerInv, TimSide
  <2>4. client \in TcpSockets /\ client.snd_ini \in DrawnIn(got)
    BY <2>3, ClientIsTyped
  <2>5. /\ header.seq \in Nat /\ client.snd_ini \in Nat /\ from \in Nat /\ header.seq <= from
        /\ header.flags = {"ack"}
    BY <2>2, <2>3, <2>4 DEF Headed, TcpSockets
  <2>6. Uses(client, client') /\ client'.snd_nxt = from + 1
    BY <2>2, <2>4, <2>5, AdvanceUses DEF Advance, TcpSockets
  <2>7. NumberOf(from + 1, client.snd_ini)
    <3>1. client' \in TcpSockets /\ client'.snd_ini = client.snd_ini
      BY <2>6 DEF Uses, Later
    <3>2. client' # Null
      BY <3>1, IeeeAssumption DEF IeeeAssumption, Sockets, TcpSockets
    <3>3. QED
      BY <2>6, <3>1, <3>2 DEF Apart
  <2>8. NumberOf(header.seq + 1, client.snd_ini)
    <3>1. client.snd_ini < header.seq
      BY <2>3 DEF NumberOf
    <3>2. /\ client.snd_ini < header.seq + 1 /\ header.seq + 1 <= from + 1
          /\ header.seq + 1 \in Nat /\ from + 1 \in Nat
      BY <2>5, <3>1
    <3>3. Histories(got, log)
      BY DEF DeliveryInv
    <3>4. QED
      BY <2>5, <2>7, <3>2, <3>3, NumberBelow
  <2>9. OfTim(header, Own', got)
    BY <2>3, <2>4, <2>5, <2>8 DEF OfTim
  <2>10. QED
    BY <2>1, <2>3, <2>6, <2>9, ClientPeers DEF FinOut
<1>7. QED
  BY <1>1, <1>2, <1>3, <1>4, <1>5, <1>6 DEF Thread

(* The network may lose, repeat or delay segments, and makes none.         *)
LEMMA NetworkFault ==
  ASSUME DeliveryInv, NEW node \in Nodes, Lose(node) \/ Duplicate(node) \/ Delay(node)
  PROVE  \A x \in Nodes : ToSet(net'[x]) \subseteq ToSet(net[x])
<1> DEFINE S == Under(node, got, log)
           w == net[node]
<1>1. w \in Seq(S) /\ net = [x \in Nodes |-> net[x]]
  BY DEF DeliveryInv, NetOK
<1>2. \E v : net' = [net EXCEPT ![node] = v] /\ ToSet(v) \subseteq ToSet(w)
  <2> HIDE DEF S
  <2>1. ASSUME NEW i \in DOMAIN w
        PROVE  /\ ToSet(RemoveAt(w, i)) \subseteq ToSet(w)
               /\ ToSet(Append(w, w[i])) \subseteq ToSet(w)
               /\ ToSet(Append(RemoveAt(w, i), w[i])) \subseteq ToSet(w)
    <3> DEFINE e == w[i]
               r == RemoveAt(w, i)
    <3>1. i \in 1..Len(w) /\ e \in S /\ Len(w) \in Nat /\ DOMAIN w = 1..Len(w)
      BY <1>1
    <3>2. /\ r \in Seq(S) /\ Len(r) = Len(w) - 1
          /\ \A j \in 1..Len(w)-1 : r[j] = IF j < i THEN w[j] ELSE w[j + 1]
      BY <1>1, <3>1, RemoveAtElements
    <3>3. e \in ToSet(w)
      BY <3>1 DEF ToSet
    <3> HIDE DEF r, e, w
    <3>4. ToSet(r) \subseteq ToSet(w)
      <4>1. DOMAIN r = 1..Len(w)-1
        BY <3>1, <3>2
      <4>2. \A j \in DOMAIN r : j \in DOMAIN w /\ j + 1 \in DOMAIN w /\ r[j] \in {w[j], w[j + 1]}
        BY <3>1, <3>2, <4>1
      <4>3. QED
        BY <4>2 DEF ToSet
    <3>5. ASSUME NEW q \in Seq(S)
          PROVE  ToSet(Append(q, e)) \subseteq ToSet(q) \cup {e}
      <4> DEFINE a == Append(q, e)
      <4>1. /\ a \in Seq(S) /\ Len(a) = Len(q) + 1 /\ Len(q) \in Nat
            /\ \A j \in 1..Len(q) : a[j] = q[j]
            /\ a[Len(q) + 1] = e
        BY <3>1, AppendProperties
      <4> HIDE DEF a
      <4>2. DOMAIN a = 1..Len(q) + 1 /\ DOMAIN q = 1..Len(q)
        BY <4>1
      <4>3. \A j \in DOMAIN a : (j \in DOMAIN q /\ a[j] = q[j]) \/ a[j] = e
        BY <4>1, <4>2
      <4>4. ToSet(a) \subseteq ToSet(q) \cup {e}
        BY <4>3 DEF ToSet
      <4>5. QED
        BY <4>4 DEF a
    <3>6. w \in Seq(S)
      BY <1>1
    <3>7. QED
      BY <3>2, <3>3, <3>4, <3>5, <3>6 DEF r, e
  <2>2. CASE Lose(node)
    BY <2>1, <2>2 DEF Lose
  <2>3. CASE Duplicate(node)
    BY <2>1, <2>3 DEF Duplicate
  <2>4. CASE Delay(node)
    BY <2>1, <2>4 DEF Delay
  <2>5. QED
    BY <2>2, <2>3, <2>4
<1>3. PICK v : net' = [net EXCEPT ![node] = v] /\ ToSet(v) \subseteq ToSet(w)
  BY <1>2
<1>4. QED
  BY <1>1, <1>3

(* Losing, repeating and delaying segments adds none; a restart of the TIM *)
(* leaves no socket.                                                       *)
LEMMA FaultPeers ==
  ASSUME DeliveryInv, PeerInv, Fault
  PROVE  PeerInv'
<1>1. UNCHANGED <<got, ncap, turns, handled>>
  BY DEF Fault, loop
<1>2. ASSUME Restart
      PROVE  PeerInv'
  <2>1. UNCHANGED net /\ pc' = "start" /\ client' = Null
    BY <1>2 DEF Restart
  <2>2. Own' = Null /\ TimSide'
    BY <2>1 DEF Own, TimSide
  <2>3. QED
    BY <1>1, <2>1, <2>2, QuietPeers
<1>3. ASSUME NEW node \in Nodes, Lose(node) \/ Duplicate(node) \/ Delay(node), UNCHANGED tim
      PROVE  PeerInv'
  <2>1. \A x \in Nodes : ToSet(net'[x]) \subseteq ToSet(net[x])
    BY <1>3, NetworkFault
  <2>2. UNCHANGED <<client, pc, header>>
    BY <1>3 DEF tim
  <2>3. /\ Own' = Own
        /\ Awaiting(Own, Own', got) /\ PeersStay(Own, ncap.clones, ncap'.clones)
    BY <1>1, <2>2 DEF Awaiting, PeersStay, Own, FinOut
  <2>4. NcapSide' /\ TimSide' /\ Peered(Own', ncap'.clones)
    BY <1>1, <2>2, <2>3 DEF PeerInv, NcapSide, TimSide
  <2>5. QED
    BY <1>1, <2>1, <2>3, <2>4, PeersKept DEF Nodes
<1>4. QED
  BY <1>2, <1>3 DEF Fault

(* A SYN that comes to the listening socket makes a peer.                  *)
LEMMA NcapReceivePeers ==
  ASSUME DeliveryInv, PeerInv, NcapReceive
  PROVE  PeerInv'
<1> DEFINE C == ncap.clones
           m == Head(net["ncap"])
           o == Accept(m, Isn)
           s == o.socket
           x == Segment(Isn, m.seq + 1, {"syn", "ack"}, Null)
           q == <<x>>
           D == Append(C, s)
<1>1. /\ net["ncap"] # << >>
      /\ \/ /\ Accepts(m) /\ Len(got) < Len(Isns)
            /\ ncap' = [ncap EXCEPT !.clones = Append(@, s)]
            /\ net' = Exchange("ncap", "tim", o.sent)
            /\ got' = Append(got, << >>)
         \/ /\ net' = Exchange("ncap", "tim", << >>)
            /\ ncap' = ncap /\ got' = got
      /\ handled' = m
      /\ UNCHANGED <<pc, client, header>>
  BY DEF NcapReceive, MoreIsns, tim
<1>2. /\ NetOK(net, got, log) /\ IsNcap(ncap) /\ Histories(got, log)
      /\ NcapSide /\ TimSide /\ Peered(Own, C)
  BY DEF DeliveryInv, PeerInv
<1>3. m \in ToSet(net["ncap"]) \cap Under("ncap", got, log)
  <2>1. net["ncap"] \in Seq(Under("ncap", got, log))
    BY <1>2 DEF NetOK, Nodes
  <2>2. QED
    BY <1>1, <2>1, FirstTaken
<1>4. OfTim(m, Own, got)
  BY <1>3 DEF PeerInv, TowardsNcap
<1>5. TimSide' /\ Own' = Own /\ Awaiting(Own, Own', got)
  BY <1>1, <1>2 DEF TimSide, Awaiting, Own, FinOut
<1> HIDE DEF m
<1>6. CASE ncap' = ncap /\ got' = got /\ net' = Exchange("ncap", "tim", << >>)
  <2>1. << >> \in Seq({}) /\ ToSet(<< >>) = {}
    BY DEF ToSet
  <2>2. /\ ToSet(net'["ncap"]) \subseteq ToSet(net["ncap"])
        /\ ToSet(net'["tim"]) \subseteq ToSet(net["tim"])
    BY <1>1, <1>2, <1>6, <2>1, ExchangedTo DEF Nodes
  <2>3. NcapSide' /\ Peered(Own', ncap'.clones) /\ PeersStay(Own, C, ncap'.clones)
    BY <1>1, <1>2, <1>5, <1>6 DEF NcapSide, PeersStay
  <2>4. QED
    BY <1>1, <1>3, <1>5, <1>6, <2>2, <2>3, PeersKept
<1>7. CASE /\ Accepts(m) /\ Len(got) < Len(Isns)
           /\ ncap' = [ncap EXCEPT !.clones = Append(@, s)]
           /\ net' = Exchange("ncap", "tim", o.sent)
           /\ got' = Append(got, << >>)
  <2>1. DOMAIN got \subseteq DOMAIN got'
    BY <1>2, <1>7, OneMoreDrawn
  <2>2. NumberOf(m.seq + 1, m.seq) /\ "syn" \in m.flags
    BY <1>4, <1>7 DEF OfTim, Accepts
  <2>3. m.seq \in Nat /\ m.seq \in DrawnIn(got) /\ DrawnIn(got) \subseteq DrawnIn(got')
    BY <1>3, <2>1, <2>2 DEF Under, DrawnIn
  <2>4. Isn \in Nat
    <3>1. Len(got) + 1 \in DOMAIN Isns /\ \A k \in DOMAIN Isns : Isns[k] \in Nat
      BY <1>2, <1>7, OneMoreDrawn, IsnsApart
    <3>2. QED
      BY <3>1 DEF Isn
  <2>5. /\ s \in TcpSockets /\ s.state = "SYN_RCVD" /\ s.snd_ini = Isn
        /\ s.rcv_ini = m.seq /\ s.rcv_nxt = m.seq + 1
        /\ o.sent = q
    BY <2>3, <2>4, OutcomeFields DEF Accept, TcpSockets, States, Outcome
  <2>6. x.seq = Isn /\ x.ack = m.seq + 1
    BY DEF Segment
  <2> HIDE DEF s, x
  <2>7. /\ ncap'.clones = D /\ C \in Seq(TcpSockets) /\ Len(C) \in Nat
        /\ DOMAIN C = 1..Len(C)
    BY <1>2, <1>7 DEF IsNcap, HasNcapFields
  <2> HIDE DEF C
  <2>8. /\ DOMAIN D = 1..Len(C) + 1 /\ D[Len(C) + 1] = s
        /\ \A i \in DOMAIN C : i \in DOMAIN D /\ D[i] = C[i]
    BY <2>5, <2>7
  <2> HIDE DEF D
  <2>9. \A a, b : HasPeer(a, b, C) => HasPeer(a, b, D)
    BY <2>8 DEF HasPeer
  <2>10. HasPeer(m.seq, Isn, D)
    <3>1. Len(C) + 1 \in DOMAIN D
      BY <2>7, <2>8
    <3>2. QED
      BY <2>5, <2>8, <3>1 DEF HasPeer, Open
  <2>11. Answers(x, Own', D, got')
    <3>1. SUFFICES ASSUME Own # Null, Own.state = "SYN_SENT", x.ack = Own.snd_ini + 1
                   PROVE  HasPeer(Own.snd_ini, x.seq, D)
      BY <1>5, <2>3, <2>6 DEF Answers
    <3>2. Own.snd_ini \in Nat
      BY <3>1, ClientIsTyped DEF TcpSockets, Own
    <3>3. Own.snd_ini = m.seq
      BY <2>3, <2>6, <3>1, <3>2
    <3>4. QED
      BY <2>6, <2>10, <3>3
  <2>12. /\ ToSet(net'["tim"]) \subseteq ToSet(net["tim"]) \cup {x}
         /\ ToSet(net'["ncap"]) \subseteq ToSet(net["ncap"])
    <3>1. q \in Seq({x}) /\ ToSet(q) = {x}
      BY DEF ToSet
    <3>2. net' = Exchange("ncap", "tim", q)
      BY <1>7, <2>5
    <3> HIDE DEF q
    <3>3. QED
      BY <1>1, <1>2, <3>1, <3>2, ExchangedTo DEF Nodes
  <2>13. \A i \in DOMAIN D : Hears(D[i], got')
    <3>1. \A i \in DOMAIN C : Hears(C[i], got')
      BY <1>2, <2>1, HearsStays DEF NcapSide, C
    <3>2. Hears(s, got')
      BY <2>2, <2>3, <2>5 DEF Hears
    <3>3. \A i \in DOMAIN D : i \in DOMAIN C \/ i = Len(C) + 1
      BY <2>7, <2>8
    <3>4. QED
      BY <2>8, <3>1, <3>2, <3>3
  <2>14. NcapSide'
    BY <2>7, <2>13 DEF NcapSide
  <2>15. PeersStay(Own, C, D) /\ Peered(Own', D)
    BY <1>2, <1>5, <2>9 DEF PeersStay, Peered
  <2>16. QED
    BY <1>1, <1>3, <1>5, <2>1, <2>7, <2>11, <2>12, <2>14, <2>15, PeersKept DEF C
<1>8. QED
  BY <1>1, <1>6, <1>7

(* Sockets of the NCAP that change send no SYN, and those on which the     *)
(* TIM's socket depends stay.                                              *)
LEMMA NcapPeers ==
  ASSUME DeliveryInv, PeerInv, UNCHANGED <<pc, client, header>>,
         DOMAIN got' = DOMAIN got, \A i \in DOMAIN ncap'.clones : Hears(ncap'.clones[i], got),
         NEW E, NEW q \in Seq(Replies(E)), net' = Transmit("tim", q),
         PeersStay(Own, ncap.clones, ncap'.clones),
         turns' # << >> => handled' = handled /\ turns # << >>
  PROVE  PeerInv'
<1>1. TimSide /\ Peered(Own, ncap.clones) /\ NetOK(net, got, log) /\ Own' = Own
  BY DEF PeerInv, DeliveryInv, Own, FinOut
<1>2. /\ ToSet(net'["tim"]) \subseteq ToSet(net["tim"]) \cup ToSet(q)
      /\ net'["ncap"] = net["ncap"]
  BY <1>1, TransmittedTo DEF Nodes
<1>3. \A m \in ToSet(q) : "syn" \notin m.flags
  <2>1. \A m \in ToSet(q) : m \in Replies(E)
    BY DEF ToSet
  <2>2. QED
    BY <2>1 DEF Replies
<1>4. \A m \in ToSet(q) : Answers(m, Own', ncap'.clones, got')
  BY <1>3 DEF Answers
<1>5. \A a \in DrawnIn(got) : Live(Own', a) => Live(Own, a)
  BY <1>1
<1>6. Awaiting(Own, Own', got)
  BY <1>1 DEF Awaiting
<1>7. NcapSide'
  BY HearsStays DEF NcapSide
<1>8. TimSide' /\ Peered(Own', ncap'.clones)
  BY <1>1 DEF TimSide, Peered, PeersStay, Live
<1>9. QED
  BY <1>2, <1>4, <1>5, <1>6, <1>7, <1>8, PeersKept

(* A socket of the NCAP takes its turn: it ends only by a FIN of its own   *)
(* connection, which the TIM has left.                                     *)
LEMMA NcapHandlePeers ==
  ASSUME DeliveryInv, PeerInv, NcapHandle
  PROVE  PeerInv'
<1> DEFINE C == ncap.clones
           m == handled
           i == IndexOf(Head(turns))
           s == C[i]
           o == Handle(s, m)
           N == [ncap EXCEPT !.clones[i] = o.socket, !.out = o.sent]
           M == Called(N, i, m.data, o.calls)
<1>1. /\ turns # << >>
      /\ ncap' = [M EXCEPT !.out = << >>]
      /\ net' = Transmit("tim", M.out)
      /\ got' = Given(s, m)
      /\ turns' = Tail(turns)
      /\ handled' = IF Len(turns) = 1 THEN Null ELSE m
      /\ UNCHANGED <<pc, client, header>>
  BY DEF NcapHandle, tim
<1>2. /\ IsNcap(ncap) /\ ClonesOK(C, got) /\ Histories(got, log)
      /\ TurnsOK(turns, m, C, got, log) /\ NcapSide
  BY DEF DeliveryInv, PeerInv
<1>3. /\ m \in Under("ncap", got, log)
      /\ \E j \in DOMAIN C : C[j].snd_ini = Head(turns)
  BY <1>1, <1>2, TurnTaken
<1>4. C \in Seq(TcpSockets) /\ DOMAIN C = 1..Len(C) /\ Len(C) \in Nat
  BY <1>2 DEF IsNcap
<1>5. i \in 1..Len(C)
  BY <1>2, <1>3, IndexOfIs
<1>6. s \in TcpSockets /\ s.state # "SYN_SENT" /\ Hears(s, got)
  BY <1>2, <1>4, <1>5 DEF ClonesOK, NcapSide
<1>7. PICK n \in DOMAIN got : SocketOf(s, n, got)
  BY <1>2, <1>4, <1>5 DEF ClonesOK
<1>8. HandledOK(s, m, o) /\ ConnectionOK(s, m, o)
  <2>1. m \in [seq : Nat, ack : Int, flags : SUBSET Flags, data : DataOf(log)]
    BY <1>3 DEF Under
  <2>2. QED
    BY <1>6, <2>1, HandleOK, ConnectionHandled
<1>9. OfTim(m, Own, got) /\ m.seq \in Nat
  BY <1>1, <1>3 DEF PeerInv, TowardsNcap, Under
<1>10. DOMAIN got' = DOMAIN got
  <2>1. got' = Giving(got, n, m, o)
    BY <1>1, <1>2, <1>7, GivenIsGiving
  <2>2. QED
    BY <1>2, <1>3, <1>7, <1>8, <2>1, Handled
<1> DEFINE D == [C EXCEPT ![i] = o.socket]
<1>11. /\ HasNcapFields(N)
       /\ N.clones = D /\ N.out = o.sent
  BY <1>2 DEF IsNcap, HasNcapFields
<1>12. /\ o.socket \in TcpSockets /\ o.socket.snd_ini = s.snd_ini
       /\ o.sent \in Seq(Replies({Null})) /\ Hears(o.socket, got)
  BY <1>2, <1>6, <1>8, <1>9, HearsOn DEF HandledOK, Controls
<1> HIDE DEF i, o, N
<1>13. /\ D \in Seq(TcpSockets) /\ DOMAIN D = DOMAIN C /\ Len(D) = Len(C)
       /\ D[i] = o.socket /\ \A j \in DOMAIN C \ {i} : D[j] = C[j]
  BY <1>4, <1>5, <1>12
<1> HIDE DEF D
<1>14. IsNcap(N) /\ i \in 1..Len(N.clones)
  BY <1>5, <1>11, <1>12, <1>13 DEF IsNcap
<1> DEFINE K == {j \in DOMAIN D : j # i \/ ~Ending(o.calls)}
<1>15. GoOn(D, M.clones, K) /\ \E E : M.out \in Seq(Replies(E))
  <2>1. /\ GoOn(N.clones, M.clones, {j \in DOMAIN N.clones : j # i \/ ~Ending(o.calls)})
        /\ \E E : M.out \in Seq(Replies(E))
    BY <1>14, CalledGoesOn
  <2>2. QED
    BY <1>11, <2>1
<1>16. ncap'.clones = M.clones
  <2>1. HasNcapFields(M)
    <3>1. Leaves(N, M) => HasNcapFields(M)
      BY DEF Leaves, IsNcap
    <3>2. QED
      BY <1>14, <3>1, CalledKeeps
  <2> HIDE DEF M
  <2>2. QED
    BY <1>1, <2>1 DEF HasNcapFields
<1> HIDE DEF M
<1>17. \A j \in DOMAIN D : Hears(D[j], got)
  BY <1>2, <1>12, <1>13 DEF NcapSide
<1>18. \A k \in DOMAIN ncap'.clones : Hears(ncap'.clones[k], got)
  BY <1>15, <1>16, <1>17, HearsGoOn
<1>19. ASSUME Own # Null, NEW b, Live(Own, Own.snd_ini), HasPeer(Own.snd_ini, b, C)
       PROVE  HasPeer(Own.snd_ini, b, M.clones)
  <2> DEFINE a == Own.snd_ini
  <2>1. PICK j \in DOMAIN C : C[j].rcv_ini = a /\ C[j].snd_ini = b /\ C[j].state \in Open
    BY <1>19 DEF HasPeer
  <2>2. CASE j # i
    <3>1. j \in K /\ D[j] = C[j]
      BY <1>13, <2>2
    <3>2. QED
      BY <1>15, <2>1, <3>1, PeersGoOn
  <2>3. CASE j = i
    <3>1. s.state \in Open /\ s.rcv_ini = a /\ s.snd_ini = b
      BY <2>1, <2>3
    <3>2. Harmless(s, m)
      BY <1>2, <1>6, <1>9, <1>19, <3>1, StaysOpen
    <3>3. o.socket.state \in Open /\ ~Ending(o.calls) /\ o.socket.rcv_ini = a
      BY <1>6, <1>8, <3>1, <3>2 DEF ConnectionOK, Ending
    <3>4. i \in K /\ D[i].rcv_ini = a /\ D[i].snd_ini = b /\ D[i].state \in Open
      BY <1>12, <1>13, <2>3, <3>1, <3>3
    <3>5. QED
      BY <1>15, <3>4, PeersGoOn
  <2>4. QED
    BY <2>2, <2>3
<1>20. PeersStay(Own, C, ncap'.clones)
  BY <1>16, <1>19 DEF PeersStay
<1>21. turns' # << >> => handled' = handled /\ turns # << >>
  <2>1. turns \in Seq(Nat)
    BY <1>2 DEF TurnsOK
  <2>2. Len(turns) = 1 => Tail(turns) = << >>
    <3> DEFINE r == Tail(turns)
    <3>1. r \in Seq(Nat) /\ Len(r) = Len(turns) - 1 /\ Len(turns) \in Nat
      BY <1>1, <2>1, HeadTailProperties
    <3> HIDE DEF r
    <3>2. Len(turns) = 1 => r = << >>
      BY <3>1, EmptySeq
    <3>3. QED
      BY <3>2 DEF r
  <2>3. QED
    BY <1>1, <2>2
<1>22. PICK E : M.out \in Seq(Replies(E))
  BY <1>15
<1>23. QED
  BY <1>1, <1>10, <1>18, <1>20, <1>21, <1>22, NcapPeers

(* A request by SIP makes its header, and sends it.                        *)
LEMMA AskingPeers ==
  ASSUME DeliveryInv, PeerInv, Ask \/ AskSend
  PROVE  PeerInv'
<1>1. CASE Ask
  <2>1. /\ UNCHANGED <<net, got, turns, handled, client, pc, header>>
        /\ ncap' = [ncap EXCEPT !.nextId = (@ + 1) % TransIds]
    BY <1>1 DEF Ask, tim, loop
  <2>2. ncap'.clones = ncap.clones
    BY <2>1 DEF DeliveryInv, IsNcap, HasNcapFields
  <2>3. Own' = Own /\ TimSide'
    BY <2>1 DEF PeerInv, TimSide, Own, FinOut
  <2>4. QED
    BY <2>1, <2>2, <2>3, QuietPeers
<1>2. CASE AskSend
  <2> DEFINE C == ncap.clones
             i == IndexOf(asking.isn)
             m == asking.segment
             q == <<m>>
  <2>1. /\ asking # Null
        /\ IF i = 0 THEN ncap' = ncap
           ELSE \E from \in m.seq..C[i].snd_nxt : ncap' = [ncap EXCEPT !.clones[i] = Advance(@, from)]
        /\ net' = Transmit("tim", q)
        /\ UNCHANGED <<pc, client, header, turns, handled, got>>
    BY <1>2 DEF AskSend, tim, loop
  <2>2. IsNcap(ncap) /\ ClonesOK(C, got) /\ Headed(m) /\ NcapSide
    BY <2>1 DEF DeliveryInv, SendingOK, PeerInv
  <2>3. C \in Seq(TcpSockets) /\ DOMAIN C = 1..Len(C)
    BY <2>2 DEF IsNcap
  <2>4. i = 0 \/ i \in 1..Len(C)
    BY <2>2, IndexOfIs
  <2>5. q \in Seq(Replies({m.data}))
    BY <2>2 DEF Headed, Replies, Flags
  <2> HIDE DEF i, m, q
  <2>6. GoOn(C, ncap'.clones, DOMAIN C)
    <3>1. ASSUME NEW j \in DOMAIN C
          PROVE  Uses(C[j], C[j])
      BY <2>3 DEF Uses, Later
    <3>2. CASE i = 0
      <4>1. ncap'.clones = C
        BY <2>1, <3>2
      <4> HIDE DEF C
      <4>2. QED
        BY <3>1, <4>1 DEF GoOn, Uses
    <3>3. CASE i # 0
      <4>1. PICK from \in m.seq..C[i].snd_nxt : ncap' = [ncap EXCEPT !.clones[i] = Advance(@, from)]
        BY <2>1, <3>3
      <4>2. i \in DOMAIN C /\ C[i] \in TcpSockets
        BY <2>3, <2>4, <3>3
      <4>3. from \in Nat
        BY <4>1, <4>2, <2>2 DEF Headed, TcpSockets
      <4> DEFINE t == Advance(C[i], from)
      <4>4. Uses(C[i], t)
        BY <4>2, <4>3, AdvanceUses
      <4>5. ncap' = [ncap EXCEPT !.clones[i] = t]
        BY <4>1
      <4> HIDE DEF t
      <4>6. ncap'.clones = [C EXCEPT ![i] = t]
        BY <2>2, <4>5 DEF IsNcap, HasNcapFields
      <4> DEFINE D == ncap'.clones
      <4>7. DOMAIN D = DOMAIN C /\ D[i] = t /\ \A j \in DOMAIN C \ {i} : D[j] = C[j]
        BY <2>3, <4>2, <4>6
      <4> HIDE DEF C, D
      <4>8. \A j \in DOMAIN C : Uses(C[j], D[j])
        BY <3>1, <4>4, <4>7
      <4>9. GoOn(C, D, DOMAIN C)
        BY <4>7, <4>8 DEF GoOn, Uses
      <4>10. QED
        BY <4>9 DEF D
    <3>4. QED
      BY <3>2, <3>3
  <2>7. \A k \in DOMAIN ncap'.clones : Hears(ncap'.clones[k], got)
    BY <2>2, <2>6, HearsGoOn DEF NcapSide
  <2>8. \A a, b : HasPeer(a, b, C) => HasPeer(a, b, ncap'.clones)
    BY <2>6, PeersGoOn DEF HasPeer
  <2>9. PeersStay(Own, C, ncap'.clones)
    BY <2>8 DEF PeersStay
  <2>10. QED
    BY <2>1, <2>5, <2>7, <2>9, NcapPeers
<1>3. QED
  BY <1>1, <1>2

-----------------------------------------------------------------------------
(* The theorem                                                             *)

(* At the start there is no socket.                                        *)
LEMMA PeerInit == Init => PeerInv
<1>1. SUFFICES ASSUME Init PROVE PeerInv
  OBVIOUS
<1>2. /\ client = Null /\ pc = "start" /\ turns = << >> /\ ncap.clones = << >>
      /\ net["ncap"] = << >> /\ net["tim"] = << >>
  BY <1>1 DEF Init, Nodes
<1>3. ToSet(<< >>) = {} /\ DOMAIN << >> = {}
  BY DEF ToSet
<1>4. QED
  BY <1>2, <1>3 DEF PeerInv, TowardsNcap, TowardsTim, NcapSide, TimSide, Peered, Own, FinOut

(* Every step keeps the peers, if the numbers stay apart.                  *)
LEMMA PeerNext == DeliveryInv /\ PeerInv /\ Apart /\ Apart' /\ [Next]_vars => PeerInv'
<1>1. SUFFICES ASSUME DeliveryInv, PeerInv, Apart, Apart', [Next]_vars PROVE PeerInv'
  OBVIOUS
<1>2. CASE UNCHANGED vars
  BY <1>1, <1>2 DEF vars, tim, loop, PeerInv, TowardsNcap, TowardsTim, NcapSide, TimSide,
                    Own, FinOut
<1>3. QED
  BY <1>1, <1>2, TimReceivePeers, NcapReceivePeers, NcapHandlePeers, AskingPeers, ThreadPeers,
     FaultPeers DEF Next

(* A TIM that is connected and has sent no FIN has a peer: for any network *)
(* and any restarts of the TIM, as long as no connection of the TIM sends  *)
(* so much that its numbers reach those of another connection.             *)
THEOREM EstablishedHasPeerHolds == Spec /\ []Apart => []EstablishedHasPeer
<1>1. PeerInv => EstablishedHasPeer
  <2>1. SUFFICES ASSUME PeerInv, client # Null, client.state = "ESTABLISHED", ~FinOut
                 PROVE  \E s \in ToSet(ncap.clones) :
                          /\ s.rcv_ini = client.snd_ini /\ s.snd_ini = client.rcv_ini
                          /\ s.state \in {"SYN_RCVD", "ESTABLISHED"}
    BY DEF EstablishedHasPeer
  <2>2. HasPeer(client.snd_ini, client.rcv_ini, ncap.clones)
    BY <2>1 DEF PeerInv, Peered, Own
  <2>3. QED
    BY <2>2 DEF HasPeer, Open, ToSet
<1>2. QED
  BY <1>1, PeerInit, PeerNext, DeliveryInvHolds, PTL DEF Spec

-----------------------------------------------------------------------------
(* PresenceIsTrue.  Whatever the network does, what the two sides hear has *)
(* no RST, and no data with a SYN or a FIN, so that each segment makes one *)
(* callback of one socket of the NCAP, and the callbacks of a connection   *)
(* that opens and of one that ends set the cache.                          *)

Marked(m) == "syn" \in m.flags \/ "fin" \in m.flags

ToNcap(m) == "rst" \notin m.flags /\ (Marked(m) => m.data = Null)
ToTim(m)  == ToNcap(m) /\ "ack" \in m.flags

Polite ==
    /\ \A m \in ToSet(net["ncap"]) : ToNcap(m)
    /\ turns # << >> => ToNcap(handled)
    /\ \A m \in ToSet(net["tim"]) : ToTim(m)
    /\ \A i \in DOMAIN ncap.clones :
         ncap.clones[i].state \in {"SYN_RCVD", "ESTABLISHED", "LAST_ACK"}

Bonded(C) == \E i \in DOMAIN C : C[i].state \in {"ESTABLISHED", "LAST_ACK"}

(* And without faults the two sides take turns.  A SYN or a FIN is under   *)
(* way alone; a TIM that calls again has sent the acknowledgement that     *)
(* ends its last connection before, so that the NCAP has at most one       *)
(* socket whenever a segment comes to it.                                  *)

Clear(Q)  == \A m \in Q : ~Marked(m)
HasSyn(Q) == \E m \in Q : "syn" \in m.flags
HasFin(Q) == \E m \in Q : "fin" \in m.flags

Single(q)  == \A i, j \in DOMAIN q : Marked(q[i]) /\ Marked(q[j]) => i = j
SynLast(q) == \A i \in DOMAIN q : "syn" \in q[i].flags => i = Len(q)

(* Where the thread of the sensor is, and what its socket is like then; s, *)
(* if it disconnects between data sets.                                    *)
In(c, S)     == c # Null /\ c.state \in S
InConnect(p) == p \in {"connecting", "reconnecting"}
FinIsOut(p)  == p \in {"finished", "open", "halfOpen", "disconnecting"}

ThreadAt(p, c, b, n, s) ==
    /\ p \in {"start", "connecting", "connected", "suspended", "reconnecting", "reconnected",
              "sending"} => n = 0
    /\ p \in {"finishing", "collect"} \/ FinIsOut(p) => s
    /\ p \in {"start", "collect"} => c = Null
    /\ InConnect(p) => In(c, {"SYN_SENT", "ESTABLISHED", "CLOSED"})
    /\ p \in {"connected", "suspended", "reconnected", "sending", "finishing"} => In(c, {"ESTABLISHED"})
    /\ p \in {"finished", "open"} => In(c, {"ESTABLISHED", "CLOSE_WAIT", "CLOSED"})
    /\ p = "halfOpen" => In(c, {"CLOSE_WAIT", "CLOSED"})
    /\ p = "disconnecting" => In(c, {"FIN_WAIT1", "FIN_WAIT2", "LAST_ACK", "CLOSED"})
    /\ p \in {"loop", "collected"} =>
         IF s /\ (p = "loop" => n # 0) THEN c = Null ELSE In(c, {"ESTABLISHED"})
    /\ p # "disconnecting" => (b <=> In(c, {"ESTABLISHED", "CLOSE_WAIT"}))
    /\ In(c, {"CLOSED"}) => ~b

Streaming == mode.tim_im /\ ~mode.polling

(* What its connection has come to: it calls, is open, has said that it    *)
(* leaves, or has heard that the NCAP leaves too, and all is over.         *)
Over(c, p, b) == c = Null \/ (~InConnect(p) /\ ~b) \/ In(c, {"CLOSE_WAIT", "LAST_ACK"})

Phase(c, p, b) ==
    CASE Over(c, p, b) -> "over"
      [] ~Over(c, p, b) /\ InConnect(p) /\ c.state # "ESTABLISHED" -> "calling"
      [] ~Over(c, p, b) /\ FinIsOut(p) -> "leaving"
      [] OTHER -> "open"

(* An old connection: its last acknowledgement is under way.               *)
Closing(m, s) == "ack" \in m.flags /\ ~Marked(m) /\ m.seq = s.rcv_nxt
Gone(Q, C) ==
    \A i \in DOMAIN C : C[i].state = "LAST_ACK" /\ \E m \in Q : Closing(m, C[i])

(* ph is the phase and n the next number of the TIM, Q is under way to the *)
(* NCAP, h is what it is handling, T is under way to the TIM, and C are    *)
(* the sockets of the NCAP.                                                *)
Calm(ph, n, h, Q, T, C) ==
    /\ Len(C) <= 1
    /\ ~Clear(Q) => Clear(T) /\ ~HasFin(h)
    /\ HasFin(h) => Clear(T)
    /\ HasSyn(Q) \/ HasSyn(T) => ph = "calling"
    /\ HasFin(Q) \/ HasFin(T) \/ HasFin(h) => ph = "leaving"
    /\ HasSyn(Q) \/ ph = "over" => Gone(Q \cup h, C)
    /\ ph = "leaving" => \A i \in DOMAIN C : C[i].state = "LAST_ACK" =>
         C[i].rcv_nxt = n \/ \E m \in Q \cup h : Closing(m, C[i])
    /\ HasFin(T) => \A i \in DOMAIN C : C[i].state = "LAST_ACK"
    /\ HasSyn(Q) \/ ph \in {"over", "leaving"} \/ \A i \in DOMAIN C : C[i].state # "LAST_ACK"

(* The number f of a FIN is the next one of the TIM, unless the TIM has    *)
(* sent data in between, which took it: then either this data is under way *)
(* and comes before any other, or the NCAP will never take the FIN.        *)
DataAt(f, m) == m.data # Null /\ m.seq = f /\ "ack" \in m.flags /\ ~Marked(m)

Beyond(f, w) == \A k \in DOMAIN w : w[k].data # Null => w[k].seq >= f
Ahead(f, w) ==
    \E j \in DOMAIN w :
        /\ DataAt(f, w[j])
        /\ \A k \in DOMAIN w : k > j /\ w[k].data # Null => w[k].seq >= f
Missed(f, w, C) == Beyond(f, w) /\ \A i \in DOMAIN C : C[i].rcv_nxt # f

FinIsDue(f, n, w, C) == f = n \/ (f < n /\ (Ahead(f, w) \/ Missed(f, w, C)))

(* A connection that begins hears of the acknowledgement before any data.  *)
Dataless(w)    == \A k \in DOMAIN w : w[k].data = Null
AckFirst(w, s) == \E j \in DOMAIN w : Closing(w[j], s) /\ \A k \in 1..j : w[k].data = Null

(* F are the numbers of the FINs, and w is what the NCAP hears, in order.  *)
Counted(ph, n, F, w, C) ==
    /\ \A f \in F : FinIsDue(f, n, w, C)
    /\ ph \in {"over", "calling"} => F = {}
    /\ \A i \in DOMAIN C : C[i].state = "SYN_RCVD" =>
         AckFirst(w, C[i]) \/ (ph = "calling" /\ C[i].rcv_nxt = n /\ Dataless(w))

Synced(ph, n, Q) == ph = "calling" => \A m \in Q : "syn" \in m.flags => m.seq + 1 = n

Fins(p, m, Q) ==
    {x.seq : x \in {y \in Q : "fin" \in y.flags}} \cup (IF p = "finishing" THEN {m.seq} ELSE {})

Taken  == IF turns = << >> THEN {} ELSE {handled}
Coming == IF turns = << >> THEN net["ncap"] ELSE <<handled>> \o net["ncap"]

Ways(ph, n, F) ==
    /\ Single(net["ncap"]) /\ Single(net["tim"]) /\ SynLast(net["ncap"])
    /\ Calm(ph, n, Taken, ToSet(net["ncap"]), ToSet(net["tim"]), ncap.clones)
    /\ Counted(ph, n, F, Coming, ncap.clones)
    /\ Synced(ph, n, ToSet(net["ncap"]))

Phased   == Phase(client, pc, connected)
Finished == Fins(pc, header, ToSet(Coming))

CalmInv ==
    faults = 0 =>
        /\ Len(turns) <= 1
        /\ ThreadAt(pc, client, connected, pos, Streaming)
        /\ Ways(Phased, client.snd_nxt, Finished)

Told ==
    ncap.cache # << >> =>
        /\ ncap.cache[1].connected => Bonded(ncap.clones)
        /\ faults = 0 /\ Bonded(ncap.clones) => ncap.cache[1].connected

PresenceInv == Polite /\ CalmInv /\ Told

-----------------------------------------------------------------------------
(* What is under way                                                       *)

(* What is marked is marked alone.                                         *)
LEMMA SingleTaken ==
  ASSUME NEW U, NEW q \in Seq(U), q # << >>, Single(q)
  PROVE  /\ Single(Tail(q))
         /\ Marked(Head(q)) => Clear(ToSet(Tail(q)))
         /\ ToSet(q) = ToSet(Tail(q)) \cup {Head(q)}
         /\ SynLast(q) => SynLast(Tail(q))
         /\ SynLast(q) /\ "syn" \in Head(q).flags => Tail(q) = << >>
<1> DEFINE r == Tail(q)
           m == Head(q)
<1>1. /\ r \in Seq(U) /\ Len(r) = Len(q) - 1 /\ Len(q) \in Nat /\ Len(q) >= 1
      /\ \A i \in 1..Len(r) : r[i] = q[i + 1]
      /\ m = q[1]
  BY HeadTailProperties, LenProperties, EmptySeq
<1> HIDE DEF r, m
<1>2. DOMAIN r = 1..Len(q) - 1 /\ DOMAIN q = 1..Len(q) /\ 1 \in DOMAIN q
  BY <1>1
<1>3. \A i \in DOMAIN r : i + 1 \in DOMAIN q /\ r[i] = q[i + 1] /\ i + 1 # 1
  BY <1>1, <1>2
<1>4. \A i, j \in DOMAIN r : i + 1 = j + 1 => i = j
  BY <1>2
<1>5. Single(r)
  BY <1>3, <1>4 DEF Single
<1>6. ASSUME Marked(m)
      PROVE  Clear(ToSet(r))
  <2>1. \A i \in DOMAIN r : ~Marked(r[i])
    BY <1>1, <1>2, <1>3, <1>6 DEF Single
  <2>2. QED
    BY <2>1 DEF Clear, ToSet
<1>7. ToSet(q) = ToSet(r) \cup {m}
  <2>1. \A i \in DOMAIN q : i = 1 \/ (i - 1 \in DOMAIN r /\ r[i - 1] = q[i])
    BY <1>1, <1>2
  <2>2. QED
    BY <1>1, <1>2, <1>3, <2>1 DEF ToSet
<1>8. SynLast(q) => SynLast(r)
  <2>1. SUFFICES ASSUME SynLast(q), NEW i \in DOMAIN r, "syn" \in r[i].flags
                 PROVE  i = Len(r)
    BY DEF SynLast
  <2>2. i + 1 = Len(q)
    BY <1>3, <2>1 DEF SynLast
  <2>3. QED
    BY <1>1, <1>2, <2>2
<1>9. SynLast(q) /\ "syn" \in m.flags => r = << >>
  <2>1. SUFFICES ASSUME SynLast(q), "syn" \in m.flags
                 PROVE  r = << >>
    OBVIOUS
  <2>2. Len(q) = 1
    BY <1>1, <1>2, <2>1 DEF SynLast
  <2>3. QED
    BY <1>1, <2>2, EmptySeq
<1>10. QED
  BY <1>5, <1>6, <1>7, <1>8, <1>9 DEF r, m

(* A mark is put only where there is none.                                 *)
LEMMA SingleSent ==
  ASSUME NEW U, NEW q \in Seq(U), NEW V, NEW r \in Seq(V), Single(q), Single(r),
         Clear(ToSet(q)) \/ Clear(ToSet(r))
  PROVE  Single(q \o r)
<1> DEFINE w == q \o r
<1>1. q \in Seq(U \cup V) /\ r \in Seq(U \cup V)
  BY SeqMonotonic
<1>2. /\ w \in Seq(U \cup V) /\ Len(w) = Len(q) + Len(r) /\ Len(q) \in Nat /\ Len(r) \in Nat
      /\ \A i \in 1..Len(q) + Len(r) : w[i] = IF i <= Len(q) THEN q[i] ELSE r[i - Len(q)]
  BY <1>1, ConcatProperties, LenProperties
<1> HIDE DEF w
<1>3. DOMAIN w = 1..Len(q) + Len(r) /\ DOMAIN q = 1..Len(q) /\ DOMAIN r = 1..Len(r)
  BY <1>1, <1>2
<1>4. \A i \in DOMAIN w : \/ i \in DOMAIN q /\ w[i] = q[i]
                          \/ i - Len(q) \in DOMAIN r /\ w[i] = r[i - Len(q)]
  BY <1>2, <1>3
<1>5. \A i, j \in DOMAIN w : i - Len(q) = j - Len(q) => i = j
  BY <1>2, <1>3
<1>6. CASE Clear(ToSet(q))
  <2>1. \A i \in DOMAIN q : ~Marked(q[i])
    BY <1>6 DEF Clear, ToSet
  <2>2. Single(w)
    BY <1>4, <1>5, <2>1 DEF Single
  <2>3. QED
    BY <2>2 DEF w
<1>7. CASE Clear(ToSet(r))
  <2>1. \A i \in DOMAIN r : ~Marked(r[i])
    BY <1>7 DEF Clear, ToSet
  <2>2. Single(w)
    BY <1>4, <2>1 DEF Single
  <2>3. QED
    BY <2>2 DEF w
<1>8. QED
  BY <1>6, <1>7

(* A SYN comes last.                                                       *)
LEMMA SynSentLast ==
  ASSUME NEW U, NEW q \in Seq(U), ~HasSyn(ToSet(q)), NEW V, NEW r \in Seq(V), SynLast(r)
  PROVE  SynLast(q \o r)
<1> DEFINE w == q \o r
<1>1. q \in Seq(U \cup V) /\ r \in Seq(U \cup V)
  BY SeqMonotonic
<1>2. /\ w \in Seq(U \cup V) /\ Len(w) = Len(q) + Len(r) /\ Len(q) \in Nat /\ Len(r) \in Nat
      /\ \A i \in 1..Len(q) + Len(r) : w[i] = IF i <= Len(q) THEN q[i] ELSE r[i - Len(q)]
  BY <1>1, ConcatProperties, LenProperties
<1> HIDE DEF w
<1>3. DOMAIN w = 1..Len(q) + Len(r) /\ DOMAIN q = 1..Len(q) /\ DOMAIN r = 1..Len(r)
  BY <1>1, <1>2
<1>4. SUFFICES ASSUME NEW i \in DOMAIN w, "syn" \in w[i].flags
               PROVE  i = Len(w)
  BY DEF SynLast, w
<1>5. CASE i <= Len(q)
  <2>1. i \in DOMAIN q /\ w[i] = q[i]
    BY <1>2, <1>3, <1>5
  <2>2. QED
    BY <1>4, <2>1 DEF HasSyn, ToSet
<1>6. CASE i > Len(q)
  <2>1. i - Len(q) \in DOMAIN r /\ w[i] = r[i - Len(q)]
    BY <1>2, <1>3, <1>6
  <2>2. i - Len(q) = Len(r)
    BY <1>4, <2>1 DEF SynLast
  <2>3. QED
    BY <1>2, <1>3, <2>2
<1>7. QED
  BY <1>2, <1>3, <1>5, <1>6


-----------------------------------------------------------------------------
(* How what is under way changes                                           *)

(* What comes to the TIM is gone.                                          *)
LEMMA CalmTaken ==
  ASSUME NEW ph, NEW n, NEW h, NEW Q, NEW T, NEW C, Calm(ph, n, h, Q, T, C),
         NEW U \in SUBSET T
  PROVE  Calm(ph, n, h, Q, U, C)
<1>1. /\ Clear(T) => Clear(U)
      /\ HasSyn(U) => HasSyn(T)
      /\ HasFin(U) => HasFin(T)
  BY DEF Clear, HasSyn, HasFin
<1>2. QED
  BY <1>1 DEF Calm

(* Segments with neither SYN nor FIN do not count.                         *)
LEMMA ClearJoined ==
  ASSUME NEW Q, NEW R, Clear(R)
  PROVE  /\ Clear(Q \cup R) <=> Clear(Q)
         /\ HasSyn(Q \cup R) <=> HasSyn(Q)
         /\ HasFin(Q \cup R) <=> HasFin(Q)
BY DEF Clear, HasSyn, HasFin, Marked

(* What is closed by something stays so when there is more.                *)
LEMMA GoneStays ==
  ASSUME NEW Q, NEW C, Gone(Q, C), NEW R, Q \subseteq R
  PROVE  Gone(R, C)
BY DEF Gone

(* More segments without a mark disturb nobody.                            *)
LEMMA CalmSent ==
  ASSUME NEW ph, NEW n, NEW h, NEW Q, NEW T, NEW C, Calm(ph, n, h, Q, T, C),
         NEW R, Clear(R), NEW S, Clear(S)
  PROVE  Calm(ph, n, h, Q \cup R, T \cup S, C)
<1> DEFINE V == Q \cup R
           W == T \cup S
<1>1. /\ (Clear(V) <=> Clear(Q)) /\ (HasSyn(V) <=> HasSyn(Q)) /\ (HasFin(V) <=> HasFin(Q))
      /\ (Clear(W) <=> Clear(T)) /\ (HasSyn(W) <=> HasSyn(T)) /\ (HasFin(W) <=> HasFin(T))
  BY ClearJoined
<1>2. Gone(Q \cup h, C) => Gone(V \cup h, C)
  BY GoneStays
<1>3. \A s : (\E m \in Q \cup h : Closing(m, s)) => \E m \in V \cup h : Closing(m, s)
  OBVIOUS
<1>4. HasSyn(V) \/ ph = "over" => Gone(V \cup h, C)
  BY <1>1, <1>2 DEF Calm
<1> HIDE DEF V, W
<1>5. Calm(ph, n, h, V, W, C)
  BY <1>1, <1>3, <1>4 DEF Calm
<1>6. QED
  BY <1>5 DEF V, W

(* Sockets are alike by their states, and by what they expect.             *)
Alike(C, D) ==
    /\ Len(D) = Len(C) /\ DOMAIN D = DOMAIN C
    /\ \A i \in DOMAIN C : D[i].state = C[i].state /\ D[i].rcv_nxt = C[i].rcv_nxt

(* Sockets that are alike are as calm.                                     *)
LEMMA CalmAlike ==
  ASSUME NEW ph, NEW n, NEW h, NEW Q, NEW T, NEW C, Calm(ph, n, h, Q, T, C),
         NEW D, Alike(C, D)
  PROVE  Calm(ph, n, h, Q, T, D)
<1>1. \A R : Gone(R, C) => Gone(R, D)
  BY DEF Gone, Alike, Closing
<1>2. (\A i \in DOMAIN C : C[i].state = "LAST_ACK") => \A i \in DOMAIN D : D[i].state = "LAST_ACK"
  BY DEF Alike
<1>3. (\A i \in DOMAIN C : C[i].state # "LAST_ACK") => \A i \in DOMAIN D : D[i].state # "LAST_ACK"
  BY DEF Alike
<1>4. \A i \in DOMAIN C : \A R : (\E m \in R : Closing(m, C[i])) => \E m \in R : Closing(m, D[i])
  BY DEF Alike, Closing
<1>5. (\A i \in DOMAIN C : C[i].state = "LAST_ACK" =>
         C[i].rcv_nxt = n \/ \E m \in Q \cup h : Closing(m, C[i])) =>
      \A i \in DOMAIN D : D[i].state = "LAST_ACK" =>
         D[i].rcv_nxt = n \/ \E m \in Q \cup h : Closing(m, D[i])
  BY <1>4 DEF Alike
<1>6. Len(D) = Len(C)
  BY DEF Alike
<1>7. QED
  BY <1>1, <1>2, <1>3, <1>5, <1>6 DEF Calm

(* The TIM sends data while it leaves: it acknowledges what is expected.   *)
LEMMA CalmAdvances ==
  ASSUME NEW n, NEW h, NEW Q, NEW T, NEW C, Calm("leaving", n, h, Q, T, C),
         NEW R, Clear(R), NEW x \in R, x.seq = n, "ack" \in x.flags
  PROVE  Calm("leaving", n + 1, h, Q \cup R, T, C)
<1> DEFINE V == Q \cup R
<1>1. (Clear(V) <=> Clear(Q)) /\ (HasSyn(V) <=> HasSyn(Q)) /\ (HasFin(V) <=> HasFin(Q))
  BY ClearJoined
<1>2. Gone(Q \cup h, C) => Gone(V \cup h, C)
  BY GoneStays
<1>3. x \in V \cup h /\ ~Marked(x)
  BY DEF Clear
<1>4. \A s : s.rcv_nxt = n => Closing(x, s)
  BY <1>3 DEF Closing
<1>5. \A s : (\E m \in Q \cup h : Closing(m, s)) => \E m \in V \cup h : Closing(m, s)
  OBVIOUS
<1>6. HasSyn(V) => Gone(V \cup h, C)
  BY <1>1, <1>2 DEF Calm
<1> HIDE DEF V
<1>7. Calm("leaving", n + 1, h, V, T, C)
  BY <1>1, <1>3, <1>4, <1>5, <1>6 DEF Calm
<1>8. QED
  BY <1>7 DEF V

(* In an open connection its number does not matter, ...                   *)
LEMMA CalmOpen ==
  ASSUME NEW n, NEW h, NEW Q, NEW T, NEW C, Calm("open", n, h, Q, T, C), NEW k
  PROVE  /\ Calm("open", k, h, Q, T, C)
         /\ ~HasSyn(Q)
BY DEF Calm

(* ... and when all is over, what it does to the socket does not.          *)
LEMMA CalmLate ==
  ASSUME NEW n, NEW h, NEW Q, NEW T, NEW C, Calm("over", n, h, Q, T, C), NEW k
  PROVE  /\ Calm("over", k, h, Q, T, C)
         /\ Calm("leaving", k, h, Q, T, C)
<1>1. Gone(Q \cup h, C) /\ ~HasSyn(Q)
  BY DEF Calm
<1>2. \A i \in DOMAIN C : \E m \in Q \cup h : Closing(m, C[i])
  BY <1>1 DEF Gone
<1>3. QED
  BY <1>1, <1>2 DEF Calm

(* The answer to a SYN: the socket that sent it is connected.              *)
LEMMA CalmConnected ==
  ASSUME NEW n, NEW h, NEW Q, NEW T, NEW C, Calm("calling", n, h, Q, T, C),
         HasSyn(T), NEW U \in SUBSET T, Clear(U)
  PROVE  Calm("open", n, h, Q, U, C) /\ ~HasSyn(Q)
<1>1. ~Clear(T)
  BY DEF HasSyn, Clear, Marked
<1>2. Clear(Q) /\ ~HasFin(h)
  BY <1>1 DEF Calm
<1>3. ~HasSyn(Q) /\ ~HasSyn(U) /\ ~HasFin(Q) /\ ~HasFin(U)
  BY <1>2 DEF Clear, HasSyn, HasFin, Marked
<1>4. Len(C) <= 1 /\ \A i \in DOMAIN C : C[i].state # "LAST_ACK"
  BY <1>3 DEF Calm
<1>5. QED
  BY <1>2, <1>3, <1>4 DEF Calm

(* The FIN of the NCAP: the socket of the TIM is past its connection, and  *)
(* its last acknowledgement closes that of the NCAP.                       *)
LEMMA CalmClosed ==
  ASSUME NEW n, NEW h, NEW Q, NEW T, NEW C, Calm("leaving", n, h, Q, T, C),
         HasFin(T), NEW U \in SUBSET T, Clear(U),
         NEW R, Clear(R), NEW x \in R, x.seq = n, "ack" \in x.flags
  PROVE  Calm("over", n, h, Q \cup R, U, C) /\ Clear(Q) /\ ~HasFin(h)
<1>1. ~Clear(T)
  BY DEF HasFin, Clear, Marked
<1>2. Clear(Q) /\ ~HasFin(h)
  BY <1>1 DEF Calm
<1> DEFINE V == Q \cup R
<1>3. Clear(V) /\ ~HasSyn(V) /\ ~HasFin(V) /\ ~HasSyn(U) /\ ~HasFin(U)
  BY <1>2 DEF Clear, HasSyn, HasFin, Marked
<1>4. \A i \in DOMAIN C : /\ C[i].state = "LAST_ACK"
                          /\ C[i].rcv_nxt = n \/ \E m \in Q \cup h : Closing(m, C[i])
  BY <1>2 DEF Calm
<1>5. x \in V \cup h /\ ~Marked(x)
  BY DEF Clear
<1>6. \A i \in DOMAIN C : C[i].rcv_nxt = n => Closing(x, C[i])
  BY <1>5 DEF Closing
<1>7. Gone(V \cup h, C)
  BY <1>4, <1>5, <1>6 DEF Gone
<1> HIDE DEF V
<1>8. Len(C) <= 1
  BY DEF Calm
<1>9. Calm("over", n, h, V, U, C)
  BY <1>2, <1>3, <1>7, <1>8 DEF Calm
<1>10. QED
  BY <1>2, <1>9 DEF V

(* connect(): the old connection is gone.                                  *)
LEMMA CalmConnects ==
  ASSUME NEW n, NEW h, NEW Q, NEW T, NEW C, Calm("over", n, h, Q, T, C),
         NEW m, m.flags = {"syn"}, NEW k
  PROVE  /\ Calm("calling", k, h, Q \cup {m}, T, C)
         /\ ~HasSyn(Q) /\ Clear(Q)
<1>1. ~HasSyn(Q) /\ ~HasSyn(T) /\ ~HasFin(Q) /\ ~HasFin(T) /\ ~HasFin(h)
  BY DEF Calm
<1>2. Clear(Q) /\ Clear(T)
  BY <1>1 DEF Clear, HasSyn, HasFin, Marked
<1> DEFINE R == Q \cup {m}
<1>3. HasSyn(R) /\ ~HasFin(R)
  BY <1>1 DEF HasSyn, HasFin
<1>4. Gone(R \cup h, C)
  <2>1. Gone(Q \cup h, C)
    BY DEF Calm
  <2>2. QED
    BY <2>1, GoneStays
<1> HIDE DEF R
<1>5. Len(C) <= 1
  BY DEF Calm
<1>6. Calm("calling", k, h, R, T, C)
  BY <1>1, <1>2, <1>3, <1>4, <1>5 DEF Calm
<1>7. QED
  BY <1>1, <1>2, <1>6 DEF R

(* disconnect() in a connection: the FIN is sent.                          *)
LEMMA CalmLeaves ==
  ASSUME NEW n, NEW h, NEW Q, NEW T, NEW C, Calm("open", n, h, Q, T, C),
         NEW m, m.flags = {"fin", "ack"}
  PROVE  /\ Calm("leaving", n, h, Q \cup {m}, T, C)
         /\ ~HasSyn(Q) /\ Clear(Q)
<1>1. ~HasSyn(Q) /\ ~HasSyn(T) /\ ~HasFin(Q) /\ ~HasFin(T) /\ ~HasFin(h)
  BY DEF Calm
<1>2. Clear(Q) /\ Clear(T)
  BY <1>1 DEF Clear, HasSyn, HasFin, Marked
<1>3. Len(C) <= 1 /\ \A i \in DOMAIN C : C[i].state # "LAST_ACK"
  BY <1>1 DEF Calm
<1> DEFINE R == Q \cup {m}
<1>4. ~HasSyn(R)
  BY <1>1 DEF HasSyn
<1> HIDE DEF R
<1>5. Calm("leaving", n, h, R, T, C)
  BY <1>1, <1>2, <1>3, <1>4 DEF Calm
<1>6. QED
  BY <1>1, <1>2, <1>5 DEF R

(* The listening socket takes the SYN: the old socket is gone, as nothing  *)
(* else is under way.                                                      *)
LEMMA CalmAccepts ==
  ASSUME NEW ph, NEW n, NEW m, NEW T, NEW C, Calm(ph, n, {}, {m}, T, C),
         "syn" \in m.flags, "fin" \notin m.flags,
         NEW D, Len(D) <= 1, \A i \in DOMAIN D : D[i].state = "SYN_RCVD",
         NEW x, x.flags = {"syn", "ack"}
  PROVE  /\ ph = "calling"
         /\ Clear(T)
         /\ Calm(ph, n, {m}, {}, T \cup {x}, D)
<1> DEFINE Q == {m}
<1>1. HasSyn(Q) /\ ~Clear(Q) /\ Clear(T) /\ ph = "calling"
  BY DEF HasSyn, Clear, Marked, Calm
<1>2. ~HasSyn(T) /\ ~HasFin(T)
  BY <1>1 DEF HasSyn, HasFin, Clear, Marked
<1>3. ~HasFin(T \cup {x}) /\ ~HasFin({m}) /\ ~HasFin({}) /\ ~HasSyn({}) /\ Clear({})
  BY <1>2 DEF HasFin, HasSyn, Clear
<1>4. \A i \in DOMAIN D : D[i].state # "LAST_ACK"
  OBVIOUS
<1>5. QED
  BY <1>1, <1>3, <1>4 DEF Calm

(* A segment that opens no socket goes to those that there are.            *)
LEMMA CalmReceives ==
  ASSUME NEW ph, NEW n, NEW Q, NEW T, NEW C, Calm(ph, n, {}, Q, T, C),
         NEW m, NEW R, Q = R \cup {m}, Marked(m) => Clear(R),
         "syn" \notin m.flags,
         NEW h, h = {m} \/ (h = {} /\ DOMAIN C = {})
  PROVE  Calm(ph, n, h, R, T, C)
<1>1. /\ HasSyn(R) => HasSyn(Q)
      /\ HasFin(R) \/ HasFin(h) => HasFin(Q)
      /\ Clear(Q) => Clear(R) /\ ~HasFin(h)
      /\ HasFin(h) => Clear(R)
      /\ HasSyn(Q) => HasSyn(R)
  BY DEF HasSyn, HasFin, Clear, Marked
<1>2. ~Clear(R) => Clear(T) /\ ~HasFin(h)
  BY <1>1 DEF Calm
<1>3. HasFin(h) => Clear(T)
  BY <1>1 DEF Calm
<1>4. Gone(Q \cup {}, C) => Gone(R \cup h, C)
  BY DEF Gone
<1>5. \A i \in DOMAIN C : \A x \in Q \cup {} : x \in R \cup h
  OBVIOUS
<1>6. /\ HasSyn(R) \/ HasSyn(T) => ph = "calling"
      /\ HasFin(R) \/ HasFin(T) \/ HasFin(h) => ph = "leaving"
      /\ HasSyn(R) \/ ph = "over" => Gone(R \cup h, C)
      /\ HasSyn(R) \/ ph \in {"over", "leaving"} \/ \A i \in DOMAIN C : C[i].state # "LAST_ACK"
  BY <1>1, <1>4 DEF Calm
<1>7. ph = "leaving" => \A i \in DOMAIN C : C[i].state = "LAST_ACK" =>
        C[i].rcv_nxt = n \/ \E x \in R \cup h : Closing(x, C[i])
  BY <1>5 DEF Calm
<1>8. QED
  BY <1>2, <1>3, <1>6, <1>7 DEF Calm

(* Without sockets nothing is handled.                                     *)
LEMMA CalmEmpty ==
  ASSUME NEW ph, NEW n, NEW h, NEW Q, NEW T, NEW C, Calm(ph, n, h, Q, T, C),
         NEW D, Len(D) <= 1, DOMAIN D = {}
  PROVE  Calm(ph, n, {}, Q, T, D)
<1>1. ~HasFin({}) /\ Gone(Q \cup {}, D)
  BY DEF HasFin, Gone
<1>2. QED
  BY <1>1 DEF Calm

(* A segment has been handled: it has closed nothing, ...                  *)
LEMMA CalmHandled ==
  ASSUME NEW ph, NEW n, NEW m, NEW Q, NEW T, NEW C, Calm(ph, n, {m}, Q, T, C),
         \A i \in DOMAIN C : C[i].state = "LAST_ACK" => ~Closing(m, C[i])
  PROVE  Calm(ph, n, {}, Q, T, C)
<1>1. ~HasFin({})
  BY DEF HasFin
<1>2. Gone(Q \cup {m}, C) => Gone(Q \cup {}, C)
  BY DEF Gone
<1>3. \A i \in DOMAIN C : C[i].state = "LAST_ACK" =>
        ((\E x \in Q \cup {m} : Closing(x, C[i])) => \E x \in Q \cup {} : Closing(x, C[i]))
  OBVIOUS
<1>4. QED
  BY <1>1, <1>2, <1>3 DEF Calm

(* ... it has come to a connection that opens or is open, ...              *)
LEMMA CalmOpens ==
  ASSUME NEW ph, NEW n, NEW h, NEW Q, NEW T, NEW C, Calm(ph, n, h, Q, T, C),
         NEW i \in DOMAIN C, C[i].state # "LAST_ACK",
         NEW D, Len(D) <= 1, \A j \in DOMAIN D : D[j].state # "LAST_ACK"
  PROVE  Calm(ph, n, {}, Q, T, D)
<1>1. \A R : ~Gone(R, C)
  BY DEF Gone
<1>2. ~HasSyn(Q) /\ ph # "over" /\ ~HasFin(T)
  BY <1>1 DEF Calm
<1>3. ~HasFin({})
  BY DEF HasFin
<1>4. QED
  BY <1>2, <1>3 DEF Calm

(* ... or it was the FIN, which the NCAP answers with its own.             *)
Followed(m, n, Q) == m.seq = n \/ \E x \in Q : "ack" \in x.flags /\ ~Marked(x) /\ x.seq = m.seq

LEMMA CalmEnds ==
  ASSUME NEW ph, NEW n, NEW m, NEW Q, NEW T, NEW C, Calm(ph, n, {m}, Q, T, C),
         "fin" \in m.flags, NEW i \in DOMAIN C, C[i].state # "LAST_ACK",
         NEW D, Len(D) <= 1,
         \A j \in DOMAIN D : D[j].state = "LAST_ACK" /\ D[j].rcv_nxt = m.seq,
         Followed(m, n, Q), NEW R, ~HasSyn(R)
  PROVE  /\ Calm(ph, n, {}, Q, T \cup R, D)
         /\ Clear(T)
<1>1. HasFin({m})
  BY DEF HasFin
<1>2. Clear(T) /\ Clear(Q) /\ ph = "leaving"
  BY <1>1 DEF Calm
<1>3. \A S : ~Gone(S, C)
  BY DEF Gone
<1>4. ~HasSyn(Q)
  BY <1>3 DEF Calm
<1> DEFINE W == T \cup R
<1>5. ~HasSyn(W) /\ ~HasFin({})
  BY <1>2 DEF HasSyn, HasFin, Clear, Marked
<1>6. \A j \in DOMAIN D : D[j].rcv_nxt = n \/ \E x \in Q \cup {} : Closing(x, D[j])
  BY DEF Closing, Followed
<1> HIDE DEF W
<1>7. Calm(ph, n, {}, Q, W, D)
  BY <1>2, <1>4, <1>5, <1>6 DEF Calm
<1>8. QED
  BY <1>2, <1>7 DEF W
-----------------------------------------------------------------------------
(* The numbers of the segments                                             *)

Numbered(q) == \A k \in DOMAIN q : q[k].seq \in Nat
Unmarked(q) == \A k \in DOMAIN q : ~Marked(q[k])

(* What is sent later comes later.                                         *)
LEMMA DueLater ==
  ASSUME NEW n \in Nat, NEW f \in Nat, NEW U, NEW w \in Seq(U), NEW C, FinIsDue(f, n, w, C),
         NEW V, NEW r \in Seq(V), \A k \in DOMAIN r : r[k].data # Null => r[k].seq = n
  PROVE  /\ f < n => Ahead(f, w \o r) \/ Missed(f, w \o r, C)
         /\ Dataless(r) => FinIsDue(f, n, w \o r, C)
<1> DEFINE x == w \o r
<1>1. /\ Len(w) \in Nat /\ DOMAIN w \subseteq Nat
      /\ \A k \in DOMAIN w : k <= Len(w) /\ k \in DOMAIN x /\ x[k] = w[k]
      /\ \A k \in DOMAIN x : k \notin DOMAIN w =>
           k > Len(w) /\ k - Len(w) \in DOMAIN r /\ x[k] = r[k - Len(w)]
  BY JoinAt
<1> HIDE DEF x
<1>2. ASSUME f < n
      PROVE  Ahead(f, x) \/ Missed(f, x, C)
  <2>1. \A k \in DOMAIN x : k \notin DOMAIN w /\ x[k].data # Null => x[k].seq >= f
    BY <1>1, <1>2
  <2>2. Ahead(f, w) \/ Missed(f, w, C)
    BY <1>2 DEF FinIsDue
  <2>3. CASE Ahead(f, w)
    <3>1. PICK j \in DOMAIN w : /\ DataAt(f, w[j])
                                /\ \A k \in DOMAIN w : k > j /\ w[k].data # Null => w[k].seq >= f
      BY <2>3 DEF Ahead
    <3>2. j \in DOMAIN x /\ DataAt(f, x[j])
      BY <1>1, <3>1
    <3>3. \A k \in DOMAIN x : k > j /\ x[k].data # Null => x[k].seq >= f
      BY <1>1, <2>1, <3>1
    <3>4. QED
      BY <3>2, <3>3 DEF Ahead
  <2>4. CASE Missed(f, w, C)
    <3>1. Beyond(f, x)
      BY <1>1, <2>1, <2>4 DEF Beyond, Missed
    <3>2. QED
      BY <2>4, <3>1 DEF Missed
  <2>5. QED
    BY <2>2, <2>3, <2>4
<1>3. CASE f < n
  BY <1>2, <1>3 DEF FinIsDue, x
<1>4. CASE ~(f < n)
  BY <1>4 DEF FinIsDue, x
<1>5. QED
  BY <1>3, <1>4, <1>2 DEF x

(* An acknowledgement that comes first still does when more is sent.       *)
LEMMA AckLater ==
  ASSUME NEW U, NEW w \in Seq(U), NEW s, AckFirst(w, s), NEW V, NEW r \in Seq(V)
  PROVE  AckFirst(w \o r, s)
<1> DEFINE x == w \o r
<1>1. \A k \in DOMAIN w : k \in DOMAIN x /\ x[k] = w[k]
  BY JoinAt
<1>2. DOMAIN w = 1..Len(w) /\ Len(w) \in Nat
  BY LenProperties
<1> HIDE DEF x
<1>3. PICK j \in DOMAIN w : Closing(w[j], s) /\ \A k \in 1..j : w[k].data = Null
  BY DEF AckFirst
<1>4. \A k \in 1..j : k \in DOMAIN w
  BY <1>2, <1>3
<1>5. j \in DOMAIN x /\ Closing(x[j], s) /\ \A k \in 1..j : x[k].data = Null
  BY <1>1, <1>3, <1>4
<1>6. QED
  BY <1>5 DEF AckFirst, x

(* Segments without data count nothing.                                    *)
LEMMA CountedQuiet ==
  ASSUME NEW ph, NEW n \in Nat, NEW F \in SUBSET Nat, NEW U, NEW w \in Seq(U), NEW C,
         Counted(ph, n, F, w, C), NEW V, NEW r \in Seq(V), Dataless(r)
  PROVE  Counted(ph, n, F, w \o r, C)
<1> DEFINE x == w \o r
<1>1. \A f \in F : FinIsDue(f, n, x, C)
  BY DueLater DEF Counted, Dataless
<1>2. \A i \in DOMAIN C : AckFirst(w, C[i]) => AckFirst(x, C[i])
  BY AckLater
<1>3. Dataless(w) => Dataless(x)
  <2>1. \A k \in DOMAIN x : \/ k \in DOMAIN w /\ x[k] = w[k]
                            \/ k - Len(w) \in DOMAIN r /\ x[k] = r[k - Len(w)]
    BY JoinAt
  <2> HIDE DEF x
  <2>2. QED
    BY <2>1 DEF Dataless
<1> HIDE DEF x
<1>4. Counted(ph, n, F, x, C)
  BY <1>1, <1>2, <1>3 DEF Counted
<1>5. QED
  BY <1>4 DEF x

(* Data takes a number.                                                    *)
LEMMA CountedMore ==
  ASSUME NEW ph, ph # "calling", NEW n \in Nat, NEW F \in SUBSET Nat, NEW U, NEW w \in Seq(U), NEW C,
         Counted(ph, n, F, w, C), NEW V, NEW r \in Seq(V),
         \A k \in DOMAIN r : r[k].data # Null => r[k].seq = n,
         NEW j \in DOMAIN r, DataAt(n, r[j])
  PROVE  Counted(ph, n + 1, F, w \o r, C)
<1> DEFINE x == w \o r
<1>1. \A i \in DOMAIN C : AckFirst(w, C[i]) => AckFirst(x, C[i])
  BY AckLater
<1>2. ASSUME NEW f \in F
      PROVE  FinIsDue(f, n + 1, x, C)
  <2>1. FinIsDue(f, n, w, C) /\ f \in Nat
    BY DEF Counted
  <2>2. CASE f = n
    <3>1. /\ Len(w) \in Nat /\ DOMAIN w \subseteq Nat /\ DOMAIN r \subseteq Nat
          /\ \A k \in DOMAIN w : k <= Len(w)
          /\ \A k \in DOMAIN r : k >= 1 /\ k + Len(w) \in DOMAIN x /\ x[k + Len(w)] = r[k]
          /\ \A k \in DOMAIN x : k \notin DOMAIN w =>
               k > Len(w) /\ k - Len(w) \in DOMAIN r /\ x[k] = r[k - Len(w)]
      BY JoinAt
    <3> HIDE DEF x
    <3>2. j + Len(w) \in DOMAIN x /\ DataAt(f, x[j + Len(w)])
      BY <2>2, <3>1
    <3>3. \A k \in DOMAIN x : k > j + Len(w) => k \notin DOMAIN w
      BY <3>1
    <3>4. \A k \in DOMAIN x : k > j + Len(w) /\ x[k].data # Null => x[k].seq >= f
      BY <2>1, <2>2, <3>1, <3>3
    <3>5. Ahead(f, x)
      BY <3>2, <3>4 DEF Ahead
    <3>6. QED
      BY <2>2, <3>5 DEF FinIsDue
  <2>3. CASE f # n
    <3>1. f < n
      BY <2>1, <2>3 DEF FinIsDue
    <3>2. Ahead(f, x) \/ Missed(f, x, C)
      BY <2>1, <3>1, DueLater
    <3> HIDE DEF x
    <3>3. QED
      BY <2>1, <3>1, <3>2 DEF FinIsDue
  <2>4. QED
    BY <2>2, <2>3
<1> HIDE DEF x
<1>3. Counted(ph, n + 1, F, x, C)
  BY <1>1, <1>2 DEF Counted
<1>4. QED
  BY <1>3 DEF x

(* The phase is another one, or a FIN is taken.                            *)
LEMMA CountedPhase ==
  ASSUME NEW ph, NEW n, NEW F, NEW w, NEW C, Counted(ph, n, F, w, C),
         NEW pg, NEW G \in SUBSET F, ph = pg \/ (ph # "calling" /\ pg # "calling"),
         pg = "over" => G = {}
  PROVE  Counted(pg, n, G, w, C)
BY DEF Counted

(* The TIM that connects acknowledges the SYN of the NCAP.                 *)
LEMMA CountedConnected ==
  ASSUME NEW n, NEW F, NEW U, NEW w \in Seq(U), NEW C, Counted("calling", n, F, w, C),
         NEW m, m.data = Null, \A s : s.rcv_nxt = n => Closing(m, s)
  PROVE  Counted("open", n, {}, w \o <<m>>, C)
<1> DEFINE r == <<m>>
           x == w \o r
<1>1. r \in Seq({m}) /\ 1 \in DOMAIN r /\ r[1] = m
  OBVIOUS
<1> HIDE DEF r
<1>2. \A i \in DOMAIN C : AckFirst(w, C[i]) => AckFirst(x, C[i])
  BY <1>1, AckLater
<1>3. ASSUME NEW i \in DOMAIN C, C[i].rcv_nxt = n, Dataless(w)
      PROVE  AckFirst(x, C[i])
  <2>1. /\ Len(w) \in Nat /\ 1 + Len(w) \in DOMAIN x /\ x[1 + Len(w)] = m
        /\ \A k \in DOMAIN w : x[k] = w[k]
    BY <1>1, JoinAt
  <2>2. DOMAIN w = 1..Len(w)
    BY LenProperties
  <2> HIDE DEF x
  <2>3. \A k \in 1..1 + Len(w) : k \in DOMAIN w \/ k = 1 + Len(w)
    BY <2>1, <2>2
  <2>4. \A k \in 1..1 + Len(w) : x[k].data = Null
    BY <1>3, <2>1, <2>3 DEF Dataless
  <2>5. Closing(x[1 + Len(w)], C[i])
    BY <1>3, <2>1
  <2>6. QED
    BY <2>1, <2>4, <2>5 DEF AckFirst
<1> HIDE DEF x
<1>4. Counted("open", n, {}, x, C)
  BY <1>2, <1>3 DEF Counted
<1>5. QED
  BY <1>4 DEF x, r

(* Where the TIM has sent no FIN, its numbers do not matter.               *)
LEMMA CountedFree ==
  ASSUME NEW ph, ph # "calling", NEW n, NEW F, NEW U, NEW w \in Seq(U), NEW C,
         Counted(ph, n, F, w, C), NEW V, NEW r \in Seq(V), NEW pg, NEW k
  PROVE  Counted(pg, k, {}, w \o r, C)
<1> DEFINE x == w \o r
<1>1. \A i \in DOMAIN C : AckFirst(w, C[i]) => AckFirst(x, C[i])
  BY AckLater
<1> HIDE DEF x
<1>2. Counted(pg, k, {}, x, C)
  BY <1>1 DEF Counted
<1>3. QED
  BY <1>2 DEF x

(* A socket of the NCAP that is s hears m and is t then.                   *)
Becomes(m, s, t) ==
    \/ /\ t.state = s.state /\ t.rcv_nxt = s.rcv_nxt
       /\ Closing(m, s) => s.state = "ESTABLISHED" /\ m.data = Null
    \/ t.state # "SYN_RCVD" /\ t.rcv_nxt = s.rcv_nxt /\ (s.state = "SYN_RCVD" \/ Marked(m))
    \/ t.state # "SYN_RCVD" /\ t.rcv_nxt = m.seq + 1 /\ m.data # Null

(* It takes data in its turn, and the acknowledgement before.              *)
LEMMA CountedTaken ==
  ASSUME NEW ph, NEW n \in Nat, NEW F \in SUBSET Nat, NEW U, NEW w \in Seq(U), NEW C,
         Counted(ph, n, F, w, C), w # << >>, Head(w).seq \in Nat, NEW D,
         \A i \in DOMAIN D : i \in DOMAIN C /\ Becomes(Head(w), C[i], D[i])
  PROVE  Counted(ph, n, F, Tail(w), D)
<1> DEFINE m == Head(w)
           v == Tail(w)
<1>1. /\ DOMAIN v \subseteq Nat /\ DOMAIN w \subseteq Nat
      /\ 1 \in DOMAIN w /\ w[1] = m /\ \A k \in DOMAIN w : k >= 1
      /\ \A k \in DOMAIN v : k + 1 \in DOMAIN w /\ v[k] = w[k + 1]
      /\ \A k \in DOMAIN w : k # 1 => k - 1 \in DOMAIN v /\ v[k - 1] = w[k]
  BY TailAt
<1>2. m.seq \in Nat
  OBVIOUS
<1>3. \A k \in DOMAIN v : k \in Nat /\ k >= 1
  <2>1. v \in Seq(U)
    BY TailAt
  <2> HIDE DEF v
  <2>2. DOMAIN v = 1..Len(v) /\ Len(v) \in Nat
    BY <2>1, LenProperties
  <2>3. QED
    BY <2>2
<1> HIDE DEF m, v
<1>4. Dataless(w) => Dataless(v) /\ m.data = Null
  BY <1>1 DEF Dataless
<1>5. ASSUME NEW i \in DOMAIN C, AckFirst(w, C[i])
      PROVE  m.data = Null /\ (Closing(m, C[i]) \/ \A t : t.rcv_nxt = C[i].rcv_nxt => AckFirst(v, t))
  <2>1. PICK j \in DOMAIN w : Closing(w[j], C[i]) /\ \A k \in 1..j : w[k].data = Null
    BY <1>5 DEF AckFirst
  <2>2. j \in Nat /\ j >= 1
    BY <1>1
  <2>3. m.data = Null
    BY <1>1, <2>1, <2>2
  <2>4. ASSUME j # 1, NEW t, t.rcv_nxt = C[i].rcv_nxt
        PROVE  AckFirst(v, t)
    <3>1. j - 1 \in DOMAIN v /\ v[j - 1] = w[j]
      BY <1>1, <2>4
    <3>2. Closing(v[j - 1], t)
      BY <2>1, <2>4, <3>1 DEF Closing
    <3>3. ASSUME NEW k \in 1..j - 1
          PROVE  v[k].data = Null
      <4>1. k + 1 \in 1..j /\ k + 1 # 1 /\ (k + 1) - 1 = k
        BY <2>2
      <4>2. k + 1 \in DOMAIN w
        <5>1. DOMAIN w = 1..Len(w) /\ Len(w) \in Nat
          BY LenProperties
        <5>2. QED
          BY <2>2, <5>1
      <4>3. v[k] = w[k + 1]
        BY <1>1, <4>1, <4>2
      <4>4. QED
        BY <2>1, <4>1, <4>3
    <3>4. QED
      BY <3>1, <3>2, <3>3 DEF AckFirst
  <2>5. j = 1 => Closing(m, C[i])
    BY <1>1, <2>1
  <2>6. QED
    BY <2>3, <2>4, <2>5
<1>6. ASSUME NEW i \in DOMAIN C, C[i].state = "SYN_RCVD"
      PROVE  m.data = Null
  BY <1>4, <1>5, <1>6 DEF Counted
<1>7. ASSUME NEW f \in F
      PROVE  FinIsDue(f, n, v, D)
  <2>1. FinIsDue(f, n, w, C) /\ f \in Nat
    BY DEF Counted
  <2>2. CASE f = n
    BY <2>2 DEF FinIsDue
  <2>3. CASE Ahead(f, w)
    <3>1. PICK j \in DOMAIN w : /\ DataAt(f, w[j])
                                /\ \A k \in DOMAIN w : k > j /\ w[k].data # Null => w[k].seq >= f
      BY <2>3 DEF Ahead
    <3>2. j \in Nat /\ j >= 1
      BY <1>1
    <3>3. CASE j # 1
      <4>1. j - 1 \in DOMAIN v /\ DataAt(f, v[j - 1])
        BY <1>1, <3>1, <3>3
      <4>2. \A k \in DOMAIN v : k > j - 1 => k + 1 > j
        BY <1>1, <3>2
      <4>3. \A k \in DOMAIN v : k > j - 1 /\ v[k].data # Null => v[k].seq >= f
        BY <1>1, <3>1, <4>2
      <4>4. Ahead(f, v)
        BY <4>1, <4>3 DEF Ahead
      <4>5. QED
        BY <2>1, <4>4 DEF FinIsDue
    <3>4. CASE j = 1
      <4>1. DataAt(f, m)
        BY <1>1, <3>1, <3>4
      <4>2. Beyond(f, v)
        <5>1. \A k \in DOMAIN v : k + 1 > j
          BY <1>3, <3>4
        <5>2. QED
          BY <1>1, <3>1, <5>1 DEF Beyond
      <4>3. ASSUME NEW i \in DOMAIN D
            PROVE  D[i].rcv_nxt # f
        <5>1. i \in DOMAIN C /\ Becomes(m, C[i], D[i])
          BY DEF m
        <5>2. m.data # Null /\ m.seq = f /\ "ack" \in m.flags /\ ~Marked(m)
          BY <4>1 DEF DataAt
        <5>3. C[i].state # "SYN_RCVD"
          BY <1>6, <5>1, <5>2
        <5>4. m.seq + 1 # f
          BY <2>1, <5>2
        <5>5. QED
          BY <5>1, <5>2, <5>3, <5>4 DEF Becomes, Closing
      <4>4. QED
        BY <2>1, <4>2, <4>3 DEF FinIsDue, Missed
    <3>5. QED
      BY <3>3, <3>4
  <2>4. CASE Missed(f, w, C)
    <3>1. Beyond(f, v) /\ (m.data # Null => m.seq >= f)
      BY <1>1, <2>4 DEF Beyond, Missed
    <3>2. ASSUME NEW i \in DOMAIN D
          PROVE  D[i].rcv_nxt # f
      <4>1. i \in DOMAIN C /\ Becomes(m, C[i], D[i])
        BY DEF m
      <4>2. C[i].rcv_nxt # f
        BY <2>4, <4>1 DEF Missed
      <4>3. m.data # Null => m.seq + 1 # f
        BY <1>2, <2>1, <3>1
      <4>4. QED
        BY <4>1, <4>2, <4>3 DEF Becomes
    <3>3. QED
      BY <2>1, <3>1, <3>2 DEF FinIsDue, Missed
  <2>5. QED
    BY <2>1, <2>2, <2>3, <2>4 DEF FinIsDue
<1>8. ASSUME NEW i \in DOMAIN D, D[i].state = "SYN_RCVD"
      PROVE  AckFirst(v, D[i]) \/ (ph = "calling" /\ D[i].rcv_nxt = n /\ Dataless(v))
  <2>1. i \in DOMAIN C /\ Becomes(m, C[i], D[i])
    BY DEF m
  <2>2. C[i].state = "SYN_RCVD" /\ D[i].rcv_nxt = C[i].rcv_nxt /\ ~Closing(m, C[i])
    BY <1>8, <2>1 DEF Becomes
  <2>3. QED
    BY <1>4, <1>5, <2>1, <2>2 DEF Counted
<1>9. Counted(ph, n, F, v, D)
  BY <1>7, <1>8 DEF Counted
<1>10. QED
  BY <1>9 DEF v

-----------------------------------------------------------------------------
(* What the sockets make of it                                             *)

Datagrams(D) == [seq : Nat, ack : Int, flags : SUBSET Flags, data : D]

(* A socket of the NCAP makes at most one callback.                        *)
NcapOutcome(s, m, o) ==
    \/ /\ o.calls = {} /\ o.socket.state = s.state /\ o.socket.rcv_nxt = s.rcv_nxt
       /\ Closing(m, s) => s.state = "ESTABLISHED" /\ m.data = Null
    \/ /\ o.calls = {"connected"} /\ s.state = "SYN_RCVD" /\ o.socket.state = "ESTABLISHED"
       /\ o.socket.rcv_nxt = s.rcv_nxt
    \/ /\ o.calls = {"received"} /\ s.state = "ESTABLISHED" /\ o.socket.state = "ESTABLISHED"
       /\ m.data # Null /\ o.socket.rcv_nxt = m.seq + 1
    \/ /\ o.calls = {"closing"} /\ s.state = "ESTABLISHED" /\ o.socket.state = "CLOSE_WAIT"
       /\ "fin" \in m.flags /\ s.rcv_nxt = m.seq /\ o.socket.rcv_nxt = m.seq
    \/ o.calls = {"closed"}

(* It is what handle() does, whatever the segment is.                      *)
LEMMA NcapHandles ==
  ASSUME NEW s \in TcpSockets, s.state \in {"SYN_RCVD", "ESTABLISHED", "LAST_ACK"},
         NEW D, NEW m \in Datagrams(D), ToNcap(m)
  PROVE  NcapOutcome(s, m, Handle(s, m))
<1>1. CASE ~Expected(s, m)
  <2>1. Handle(s, m) = Ignored(s)
    BY <1>1 DEF Handle
  <2>2. ~Closing(m, s)
    BY <1>1 DEF Closing, Expected
  <2>3. QED
    BY <2>1, <2>2, OutcomeFields DEF NcapOutcome, Ignored
<1>2. CASE Expected(s, m) /\ s.state = "SYN_RCVD"
  <2> DEFINE t == [s EXCEPT !.state = "ESTABLISHED"]
             u == [s EXCEPT !.state = "CLOSED"]
  <2>1. t.state = "ESTABLISHED" /\ t.rcv_nxt = s.rcv_nxt
    BY DEF TcpSockets
  <2>2. Handle(s, m) = SynRcvd(s, m)
    BY <1>2 DEF Handle
  <2>3. \/ Handle(s, m) \in {Outcome(u, << >>, {"closed"}), Outcome(t, << >>, {"connected"})}
        \/ Handle(s, m) = Ignored(s) /\ "ack" \notin m.flags
    BY <2>2 DEF SynRcvd, Closed
  <2> HIDE DEF t, u
  <2>4. QED
    BY <1>2, <2>1, <2>3, OutcomeFields DEF NcapOutcome, Ignored, Closing
<1>3. CASE Expected(s, m) /\ s.state = "ESTABLISHED"
  <2> DEFINE t == [s EXCEPT !.rcv_nxt = @ + Length(m)]
             u == [t EXCEPT !.state = "CLOSE_WAIT"]
             o == Handle(s, m)
  <2>1. /\ m.seq = s.rcv_nxt /\ s.rcv_nxt \in Nat
    BY <1>3 DEF Expected, TcpSockets
  <2>2. "rst" \notin m.flags
    BY DEF ToNcap
  <2>3. o = Established(s, m)
    BY <1>3 DEF Handle
  <2>4. Length(m) \in Nat
    BY DEF Length
  <2>5. t \in TcpSockets /\ t.state = "ESTABLISHED" /\ t.rcv_nxt = s.rcv_nxt + Length(m)
    BY <1>3, <2>1, <2>4, RcvNxtSet
  <2>6. u.state = "CLOSE_WAIT" /\ u.rcv_nxt = t.rcv_nxt
    BY <2>5, StateSet DEF States
  <2>7. CASE "fin" \in m.flags
    <3>1. m.data = Null /\ Length(m) = 0
      BY <2>7 DEF ToNcap, Marked, Length
    <3>2. o.socket = u /\ o.calls = {} \cup {"closing"}
      BY <2>2, <2>3, <2>7, <3>1, OutcomeFields DEF Established
    <3>3. u.rcv_nxt = m.seq
      BY <2>1, <2>5, <2>6, <3>1
    <3> HIDE DEF o, u
    <3>4. NcapOutcome(s, m, o)
      BY <1>3, <2>1, <2>6, <2>7, <3>2, <3>3 DEF NcapOutcome
    <3>5. QED
      BY <3>4 DEF o
  <2>8. CASE "fin" \notin m.flags
    <3>1. o.socket = t /\ o.calls = (IF m.data = Null THEN {} ELSE {"received"}) \cup {}
      BY <2>2, <2>3, <2>8, OutcomeFields DEF Established
    <3>2. m.data = Null => t.rcv_nxt = s.rcv_nxt
      BY <2>1, <2>5 DEF Length
    <3>3. m.data # Null => t.rcv_nxt = m.seq + 1
      BY <2>1, <2>5 DEF Length
    <3> HIDE DEF o, t
    <3>4. NcapOutcome(s, m, o)
      BY <1>3, <2>5, <3>1, <3>2, <3>3 DEF NcapOutcome
    <3>5. QED
      BY <3>4 DEF o
  <2>9. QED
    BY <2>7, <2>8
<1>4. CASE Expected(s, m) /\ s.state = "LAST_ACK"
  <2>1. Handle(s, m) = LastAck(s, m)
    BY <1>4 DEF Handle
  <2>2. CASE "ack" \in m.flags
    BY <2>1, <2>2, OutcomeFields DEF LastAck, Closed, NcapOutcome
  <2>3. CASE "ack" \notin m.flags
    <3>1. Handle(s, m) = Ignored(s) /\ ~Closing(m, s)
      BY <2>1, <2>3 DEF LastAck, Closing
    <3>2. QED
      BY <3>1, OutcomeFields DEF NcapOutcome, Ignored
  <2>4. QED
    BY <2>2, <2>3
<1>5. QED
  BY <1>1, <1>2, <1>3, <1>4

(* The socket of the TIM opens by a SYN and closes by a FIN, and answers   *)
(* each; while it waits for the SYN and after all is over it sends nothing.*)
IsAck(a, n)  == a.flags = {"ack"} /\ a.seq = n /\ a.data = Null
OneAck(q, n) == \E a : IsAck(a, n) /\ q = <<a>>

TimStays(s, o) ==
    /\ o.socket.state = s.state
    /\ o.calls = {} \/ (s.state = "ESTABLISHED" /\ o.calls = {"received"})
    /\ s.state \in {"ESTABLISHED", "FIN_WAIT1", "FIN_WAIT2"} \/ o.sent = << >>
TimOpens(s, m, o) ==
    /\ s.state = "SYN_SENT" /\ "syn" \in m.flags
    /\ o.socket.state = "ESTABLISHED" /\ o.calls = {"connected"} /\ OneAck(o.sent, o.socket.snd_nxt)
TimFails(s, o) ==
    /\ s.state \in {"SYN_SENT", "CLOSE_WAIT", "LAST_ACK"}
    /\ o.socket.state = "CLOSED" /\ o.calls = {"closed"} /\ o.sent = << >>
TimWaits(s, o) == s.state = "FIN_WAIT1" /\ o.socket.state = "FIN_WAIT2" /\ o.calls = {}
TimHearsFin(s, m, o) ==
    /\ "fin" \in m.flags /\ OneAck(o.sent, s.snd_nxt)
    /\ \/ /\ s.state \in {"FIN_WAIT1", "FIN_WAIT2"}
          /\ o.socket.state = "CLOSED" /\ o.calls = {"closed"}
       \/ /\ s.state = "ESTABLISHED"
          /\ o.socket.state = "CLOSE_WAIT" /\ o.calls = {"closing"}

TimOutcome(s, m, o) ==
    \/ TimStays(s, o) \/ TimOpens(s, m, o) \/ TimFails(s, o)
    \/ TimWaits(s, o) \/ TimHearsFin(s, m, o)

(* It is what handle() does, whatever comes to the TIM.                    *)
LEMMA TimHandles ==
  ASSUME NEW s \in TcpSockets,
         s.state \in {"SYN_SENT", "ESTABLISHED", "FIN_WAIT1", "FIN_WAIT2", "CLOSE_WAIT",
                     "LAST_ACK", "CLOSED"},
         NEW D, NEW m \in Datagrams(D), ToTim(m)
  PROVE  TimOutcome(s, m, Handle(s, m))
<1>1. ASSUME Handle(s, m) = Ignored(s)
      PROVE  TimOutcome(s, m, Handle(s, m))
  BY <1>1, OutcomeFields DEF TimOutcome, TimStays, Ignored
<1> DEFINE z == [s EXCEPT !.state = "CLOSED"]
<1>2. z.state = "CLOSED" /\ "rst" \notin m.flags /\ "ack" \in m.flags
  BY DEF TcpSockets, ToTim, ToNcap
<1>3. \A q : Closed(s, q) = Outcome(z, q, {"closed"})
  BY DEF Closed
<1>4. \A t : OneAck(<<Ack(t)>>, t.snd_nxt)
  BY DEF OneAck, IsAck, Ack, Segment
<1> HIDE DEF z
<1>5. CASE s.state = "SYN_SENT"
  <2> DEFINE heard == [s EXCEPT !.rcv_nxt = m.seq + 1]
             t == [heard EXCEPT !.state = "ESTABLISHED", !.rcv_ini = m.seq]
  <2>1. Handle(s, m) = SynSent(s, m)
    BY <1>5 DEF Handle
  <2>2. t.state = "ESTABLISHED"
    BY DEF TcpSockets
  <2>3. \/ Handle(s, m) = Closed(s, << >>)
        \/ "syn" \in m.flags /\ Handle(s, m) = Outcome(t, <<Ack(t)>>, {"connected"})
        \/ Handle(s, m) = Ignored(s)
    BY <1>2, <2>1 DEF SynSent
  <2> HIDE DEF t
  <2>4. QED
    BY <1>1, <1>2, <1>3, <1>4, <1>5, <2>2, <2>3, OutcomeFields DEF TimOutcome, TimOpens, TimFails
<1>6. CASE s.state = "CLOSED" \/ (s.state # "SYN_SENT" /\ ~Expected(s, m))
  <2>1. Handle(s, m) = Ignored(s)
    BY <1>6 DEF Handle
  <2>2. QED
    BY <1>1, <2>1
<1>7. CASE s.state = "ESTABLISHED" /\ Expected(s, m)
  <2> DEFINE t == [s EXCEPT !.rcv_nxt = @ + Length(m)]
             u == [t EXCEPT !.state = "CLOSE_WAIT"]
             o == Handle(s, m)
  <2>1. o = Established(s, m)
    BY <1>7 DEF Handle
  <2>2. t.state = "ESTABLISHED" /\ u.state = "CLOSE_WAIT" /\ t.snd_nxt = s.snd_nxt
    BY <1>7 DEF TcpSockets
  <2>3. CASE "fin" \in m.flags
    <3>1. m.data = Null
      BY <2>3 DEF ToTim, ToNcap, Marked
    <3>2. o.socket = u /\ o.calls = {} \cup {"closing"} /\ o.sent = << >> \o <<Ack(t)>>
      BY <1>2, <2>1, <2>3, <3>1, OutcomeFields DEF Established
    <3>3. << >> \o <<Ack(t)>> = <<Ack(t)>>
      <4> DEFINE q == <<Ack(t)>>
      <4>1. q \in Seq({Ack(t)})
        OBVIOUS
      <4> HIDE DEF q
      <4>2. << >> \o q = q
        BY <4>1, ConcatEmptySeq
      <4>3. QED
        BY <4>2 DEF q
    <3> HIDE DEF o, t, u
    <3>4. TimHearsFin(s, m, o)
      BY <1>4, <1>7, <2>2, <2>3, <3>2, <3>3 DEF TimHearsFin
    <3>5. QED
      BY <3>4 DEF o, TimOutcome
  <2>4. CASE "fin" \notin m.flags
    <3>1. o.socket = t /\ o.calls = (IF m.data = Null THEN {} ELSE {"received"}) \cup {}
      BY <1>2, <2>1, <2>4, OutcomeFields DEF Established
    <3> HIDE DEF o, t
    <3>2. TimStays(s, o)
      BY <1>7, <2>2, <3>1 DEF TimStays
    <3>3. QED
      BY <3>2 DEF o, TimOutcome
  <2>5. QED
    BY <2>3, <2>4
<1>8. CASE s.state = "FIN_WAIT1" /\ Expected(s, m)
  <2> DEFINE w == [s EXCEPT !.state = "FIN_WAIT2", !.rcv_nxt = m.seq + Length(m)]
  <2>1. Handle(s, m) = FinWait1(s, m)
    BY <1>8 DEF Handle
  <2>2. w.state = "FIN_WAIT2"
    BY DEF TcpSockets
  <2>3. \/ Handle(s, m) = Outcome(w, <<Ack(w)>>, {})
        \/ "fin" \in m.flags /\ Handle(s, m) = Closed(s, <<Ack(s)>>)
    BY <1>2, <2>1 DEF FinWait1
  <2> HIDE DEF w
  <2>4. QED
    BY <1>2, <1>3, <1>4, <1>8, <2>2, <2>3, OutcomeFields DEF TimOutcome, TimWaits, TimHearsFin
<1>9. CASE s.state = "FIN_WAIT2" /\ Expected(s, m)
  <2>1. Handle(s, m) = FinWait2(s, m)
    BY <1>9 DEF Handle
  <2>2. Handle(s, m) = Ignored(s) \/ ("fin" \in m.flags /\ Handle(s, m) = Closed(s, <<Ack(s)>>))
    BY <2>1 DEF FinWait2
  <2>3. QED
    BY <1>1, <1>2, <1>3, <1>4, <1>9, <2>2, OutcomeFields DEF TimOutcome, TimHearsFin
<1>10. CASE s.state \in {"CLOSE_WAIT", "LAST_ACK"} /\ Expected(s, m)
  <2>1. Handle(s, m) \in {CloseWait(s, m), LastAck(s, m)}
    BY <1>10 DEF Handle
  <2>2. Handle(s, m) = Ignored(s) \/ Handle(s, m) = Closed(s, << >>)
    BY <2>1 DEF CloseWait, LastAck
  <2>3. QED
    BY <1>1, <1>2, <1>3, <1>10, <2>2, OutcomeFields DEF TimOutcome, TimFails
<1>11. QED
  BY <1>5, <1>6, <1>7, <1>8, <1>9, <1>10

-----------------------------------------------------------------------------
(* What the callbacks send, and what they make of the cache                *)

Plain(N) == \A m \in ToSet(N.out) : m.flags = {"ack"}

Tells(N, P) ==
    /\ P.cache \in Seq(Entries)
    /\ Plain(N) => Plain(P)
    /\ P.cache = N.cache \/ (P.cache # << >> /\ P.cache[1].connected)

(* send() sets no flag but the acknowledgement.                            *)
LEMMA SendMessagePlain ==
  ASSUME NEW N, IsNcap(N), NEW msg, Plain(N)
  PROVE  Plain(SendMessage(N, msg))
<1>1. CASE N.clones = << >>
  BY <1>1 DEF SendMessage
<1>2. CASE N.clones # << >>
  <2> DEFINE s == N.clones[1]
             o == Send(s, msg)
             x == [DataHeader(s) EXCEPT !.data = msg]
             M == SendMessage(N, msg)
  <2>1. s \in TcpSockets
    BY <1>2 DEF IsNcap
  <2>2. o.sent \in Seq(Replies({msg}))
    BY <2>1, SendUses
  <2>3. x.flags = {"ack"}
    BY DEF DataHeader, Segment
  <2>4. o.sent = <<x>>
    BY OutcomeFields DEF Send
  <2>5. M = Used(N, 1, o.socket, o.sent)
    BY <1>2 DEF SendMessage, Used
  <2> HIDE DEF o, x
  <2>6. M.out = N.out \o o.sent
    BY <2>5 DEF IsNcap, Used, HasNcapFields
  <2>7. PICK D : N.out \in Seq(Replies(D))
    BY DEF IsNcap
  <2>8. ToSet(o.sent) = {x}
    BY <2>4 DEF ToSet
  <2>9. ToSet(M.out) \subseteq ToSet(N.out) \cup {x}
    BY <2>2, <2>6, <2>7, <2>8, ArrivesFrom
  <2> HIDE DEF M
  <2>10. Plain(M)
    BY <2>3, <2>9 DEF Plain
  <2>11. QED
    BY <2>10 DEF M
<1>3. QED
  BY <1>1, <1>2

(* A command is one more segment without a mark.                           *)
LEMMA SendCommandPlain ==
  ASSUME NEW N, IsNcap(N), NEW kind, NEW teds, Plain(N)
  PROVE  Plain(SendCommand(N, kind, teds))
<1> DEFINE P == SendMessage(N, Message(N.nextId, kind, teds))
           M == SendCommand(N, kind, teds)
<1>1. IsNcap(P) /\ Plain(P)
  BY SendMessageKeeps, SendMessagePlain DEF Keeps
<1>2. M = [P EXCEPT !["nextId"] = (P.nextId + 1) % TransIds]
  BY DEF SendCommand
<1> HIDE DEF P
<1>3. M.out = P.out
  BY <1>1, <1>2 DEF IsNcap, HasNcapFields
<1> HIDE DEF M
<1>4. Plain(M)
  BY <1>1, <1>3 DEF Plain
<1>5. QED
  BY <1>4 DEF M

(* A retriever asks for the next TEDS.                                     *)
LEMMA ExecuteTells ==
  ASSUME NEW N, IsNcap(N), N.cache \in Seq(Entries), NEW i
  PROVE  LET P == Execute(N, i)
         IN P.cache = N.cache /\ (Plain(N) => Plain(P))
<1> DEFINE teds == Teds[N.retrievers[i].step]
           n == N.nextId
           M == SendCommand(N, "readTeds", teds)
           P == Execute(N, i)
<1>1. IsNcap(M) /\ M.cache = N.cache
  BY SendCommandSays
<1>2. Plain(N) => Plain(M)
  BY SendCommandPlain
<1>3. P = [M EXCEPT !.retrievers[i].lastTransId = n]
  BY DEF Execute
<1> HIDE DEF M, P
<1>4. P.cache = M.cache /\ P.out = M.out
  BY <1>1, <1>3 DEF IsNcap, HasNcapFields
<1>5. P.cache = N.cache /\ (Plain(N) => Plain(P))
  BY <1>1, <1>2, <1>4 DEF Plain
<1>6. QED
  BY <1>5 DEF P

(* What is noted is the state of the connection.                           *)
LEMMA NotedIs ==
  ASSUME NEW N, HasNcapFields(N), N.cache \in Seq(Entries), N.cache # << >>, NEW b \in BOOLEAN
  PROVE  LET P == Noted(N, b)
         IN /\ P.cache \in Seq(Entries) /\ P.cache # << >> /\ P.cache[1].connected = b
            /\ P.out = N.out /\ P.clones = N.clones
<1> DEFINE P == Noted(N, b)
           e == [N.cache[1] EXCEPT !.connected = b]
<1>1. P.out = N.out /\ P.cache = [N.cache EXCEPT ![1] = e] /\ P.clones = N.clones
  BY DEF Noted, HasNcapFields
<1> HIDE DEF P
<1>2. 1 \in DOMAIN N.cache /\ N.cache[1] \in Entries
  OBVIOUS
<1>3. e \in Entries /\ e.connected = b
  BY <1>2 DEF Entries
<1> HIDE DEF e
<1>4. QED
  BY <1>1, <1>2, <1>3 DEF P

(* The TIM that connects is open in the cache, if it is there.             *)
LEMMA ReportTimConnectedTells ==
  ASSUME NEW N, IsNcap(N), IsReader(N)
  PROVE  LET P == ReportTimConnected(N)
         IN /\ Tells(N, P)
            /\ N.cache # << >> => P.cache # << >> /\ P.cache[1].connected
            /\ N.cache = << >> => P.cache = << >>
<1> DEFINE P == ReportTimConnected(N)
<1>1. N.cache \in Seq(Entries)
  BY DEF IsReader
<1>2. CASE N.cache # << >>
  <2> DEFINE M == SendCommand(N, "operate", Null)
  <2>1. IsNcap(M) /\ M.cache = N.cache
    BY SendCommandSays
  <2>2. Plain(N) => Plain(M)
    BY SendCommandPlain
  <2>3. P = Noted(M, TRUE)
    BY <1>2 DEF ReportTimConnected, Operate, Noted
  <2> HIDE DEF M, P
  <2>4. P.cache \in Seq(Entries) /\ P.cache # << >> /\ P.cache[1].connected = TRUE /\ P.out = M.out
    BY <1>1, <1>2, <2>1, <2>3, NotedIs DEF IsNcap
  <2>5. Tells(N, P)
    BY <2>2, <2>4 DEF Tells, Plain
  <2>6. QED
    BY <1>2, <2>4, <2>5 DEF P
<1>3. CASE N.cache = << >>
  <2> DEFINE e == [step |-> 1, lastTransId |-> 0, teds |-> << >>]
             Q == Append(N.retrievers, e)
             S == [N EXCEPT !["retrievers"] = Q]
  <2>1. P = Execute(S, Len(S.retrievers))
    BY <1>3 DEF ReportTimConnected
  <2>2. Keeps(N, S)
    <3> HIDE DEF Q
    <3>1. QED
      BY KeepsOthers
  <2>3. S.cache = N.cache /\ S.out = N.out
    BY DEF IsNcap, HasNcapFields
  <2> HIDE DEF S, Q
  <2>4. IsNcap(S) /\ S.cache \in Seq(Entries)
    BY <1>1, <2>2, <2>3 DEF Keeps
  <2>5. LET W == Execute(S, Len(S.retrievers))
        IN W.cache = S.cache /\ (Plain(S) => Plain(W))
    BY <2>4, ExecuteTells
  <2>6. P.cache = S.cache /\ (Plain(S) => Plain(P))
    BY <2>1, <2>5
  <2> HIDE DEF P
  <2>7. P.cache = N.cache /\ (Plain(N) => Plain(P))
    BY <2>3, <2>6 DEF Plain
  <2>8. Tells(N, P)
    BY <1>1, <2>7 DEF Tells
  <2>9. QED
    BY <1>3, <2>7, <2>8 DEF P
<1>4. QED
  BY <1>2, <1>3

(* A reply: the last one files the TIM, which then is open.                *)
LEMMA ReceiveReplyTells ==
  ASSUME NEW N, IsNcap(N), IsReader(N), NEW msg \in Messages
  PROVE  Tells(N, ReceiveReply(N, msg))
<1> DEFINE R == N.retrievers
           I == {j \in 1..Len(R) : Awaits(R[j], msg)}
           i == SelectInSeq(R, LAMBDA r : Awaits(r, msg))
           P == ReceiveReply(N, msg)
<1>1. i = IF I # {} THEN Min(I) ELSE 0
  BY DEF SelectInSeq
<1>2. /\ DOMAIN R = 1..Len(R) /\ Len(R) \in Nat /\ R \in Seq(Retrievers)
      /\ N.cache \in Seq(Entries) /\ N.nextId \in 0..TransIds - 1
  BY DEF IsReader
<1>3. I # {} => Min(I) \in I
  <2>1. I \in SUBSET Nat
    BY <1>2
  <2> HIDE DEF I
  <2>2. ASSUME I # {} PROVE \E n \in I : \A m \in I : n <= m
    BY <2>1, <2>2, LeastNatural
  <2>3. QED
    BY <2>2 DEF Min
<1>4. i # 0 => i \in DOMAIN R
  BY <1>1, <1>2, <1>3
<1>5. P = IF msg.transId = Unasked \/ i = 0 THEN N ELSE Process(N, i, msg)
  BY DEF ReceiveReply
<1> HIDE DEF i
<1>6. CASE P = N
  BY <1>2, <1>6 DEF Tells
<1>7. CASE P = Process(N, i, msg) /\ i # 0
  <2> DEFINE M == ReadOn(N, i, msg)
             t == M.retrievers[i]
             F == Filed(M, i)
  <2>1. /\ M.nextId = N.nextId /\ M.cache = N.cache /\ M.out = N.out
        /\ IsNcap(M)
        /\ M.retrievers \in Seq(AfterRead) /\ Len(M.retrievers) = Len(R)
        /\ \A j \in 1..Len(R) : j # i => M.retrievers[j] = R[j]
    BY <1>4, <1>7, ReadOnIs
  <2>2. P = IF t.step <= Len(Teds) THEN Execute(M, i) ELSE ReportTimConnected(F)
    BY <1>7 DEF Process, ReadOn, UpdateTIMCompleted, Filed
  <2> HIDE DEF M, P
  <2>3. CASE P = Execute(M, i)
    <3>1. LET W == Execute(M, i)
          IN W.cache = M.cache /\ (Plain(M) => Plain(W))
      BY <1>2, <2>1, ExecuteTells
    <3>2. P.cache = N.cache /\ (Plain(N) => Plain(P))
      BY <2>1, <2>3, <3>1 DEF Plain
    <3>3. Tells(N, P)
      BY <1>2, <3>2 DEF Tells
    <3>4. QED
      BY <3>3 DEF P
  <2>4. CASE P = ReportTimConnected(F)
    <3>1. \A j \in 1..Len(M.retrievers) : j # i => M.retrievers[j] \in Retrievers
      BY <1>2, <2>1
    <3>2. i \in 1..Len(M.retrievers)
      BY <1>2, <1>4, <1>7, <2>1
    <3>3. IsNcap(F) /\ IsReader(F) /\ F.out = M.out
      BY <1>2, <2>1, <3>1, <3>2, FiledIs
    <3>4. F.cache = Append(M.cache, [connected |-> FALSE, teds |-> M.retrievers[i].teds])
      BY <2>1 DEF Filed, IsNcap, HasNcapFields
    <3>5. F.cache # << >>
      <4>1. M.cache \in Seq(Entries)
        BY <1>2, <2>1
      <4>2. t \in AfterRead
        BY <2>1, <3>2
      <4> HIDE DEF t
      <4>3. [connected |-> FALSE, teds |-> t.teds] \in Entries
        BY <4>2 DEF AfterRead, Entries
      <4>4. QED
        BY <3>4, <4>1, <4>3, AppendProperties DEF t
    <3> HIDE DEF F
    <3>6. LET W == ReportTimConnected(F)
          IN /\ Tells(F, W)
             /\ F.cache # << >> => W.cache # << >> /\ W.cache[1].connected
      BY <3>3, ReportTimConnectedTells
    <3>7. Tells(F, P) /\ P.cache # << >> /\ P.cache[1].connected
      BY <2>4, <3>5, <3>6
    <3>8. Tells(N, P)
      BY <2>1, <3>3, <3>7 DEF Tells, Plain
    <3>9. QED
      BY <3>8 DEF P
  <2>5. QED
    BY <2>2, <2>3, <2>4 DEF P
<1>8. QED
  BY <1>5, <1>6, <1>7

(* What a turn of a socket of the NCAP makes of all of them, and of the    *)
(* cache, which was A.                                                     *)
OnlyAt(i, x, C, D) ==
    /\ Len(D) = Len(C) /\ DOMAIN D = DOMAIN C
    /\ D[i].state = x
    /\ \A j \in DOMAIN C \ {i} : D[j].state = C[j].state

Fewer(C, D) ==
    /\ Len(D) = Len(C) - 1 /\ DOMAIN D = 1..Len(D)
    /\ \A k \in DOMAIN D : \E j \in DOMAIN C : D[k].state = C[j].state

IsOpen(cache)   == cache # << >> => cache[1].connected
IsClosed(cache) == cache # << >> => ~cache[1].connected

TurnStays(m, C, i, A, M) ==
    /\ Alike(C, M.clones)
    /\ Closing(m, C[i]) => C[i].state = "ESTABLISHED" /\ m.data = Null
    /\ M.cache = A /\ Plain(M)
TurnOpens(m, C, i, A, M) ==
    /\ OnlyAt(i, "ESTABLISHED", C, M.clones) /\ Plain(M)
    /\ \/ /\ C[i].state = "SYN_RCVD" /\ M.clones[i].rcv_nxt = C[i].rcv_nxt
          /\ IsOpen(M.cache)
       \/ /\ C[i].state = "ESTABLISHED" /\ M.clones[i].rcv_nxt = m.seq + 1 /\ m.data # Null
          /\ M.cache = A \/ IsOpen(M.cache)
TurnEnds(m, C, i, A, M) ==
    /\ C[i].state = "ESTABLISHED" /\ OnlyAt(i, "LAST_ACK", C, M.clones)
    /\ "fin" \in m.flags /\ C[i].rcv_nxt = m.seq /\ M.clones[i].rcv_nxt = m.seq
    /\ M.cache = A
TurnCloses(C, M) == Fewer(C, M.clones) /\ IsClosed(M.cache) /\ Plain(M)

TurnOutcome(m, C, i, A, M) ==
    /\ M.cache \in Seq(Entries)
    /\ Single(M.out) /\ \A x \in ToSet(M.out) : ToTim(x) /\ "syn" \notin x.flags
    /\ \/ TurnStays(m, C, i, A, M) \/ TurnOpens(m, C, i, A, M)
       \/ TurnEnds(m, C, i, A, M) \/ TurnCloses(C, M)

(* Segments without a mark are such as the NCAP may send.                  *)
LEMMA PlainIs ==
  ASSUME NEW M, Plain(M)
  PROVE  /\ Single(M.out) /\ Clear(ToSet(M.out))
         /\ \A x \in ToSet(M.out) : ToTim(x) /\ "syn" \notin x.flags
<1>1. \A x \in ToSet(M.out) : ~Marked(x) /\ ToTim(x) /\ "syn" \notin x.flags
  BY DEF Plain, Marked, ToTim, ToNcap
<1>2. \A j \in DOMAIN M.out : ~Marked(M.out[j])
  BY <1>1 DEF ToSet
<1>3. QED
  BY <1>1, <1>2 DEF Single, Clear

(* Callbacks that keep the sockets keep their states.                      *)
LEMMA KeepsAt ==
  ASSUME NEW C \in Seq(TcpSockets), NEW i \in 1..Len(C), NEW t \in TcpSockets,
         NEW N, IsNcap(N), N.clones = [C EXCEPT ![i] = t],
         NEW M, Keeps(N, M)
  PROVE  /\ OnlyAt(i, t.state, C, M.clones) /\ M.clones[i].rcv_nxt = t.rcv_nxt
         /\ t.state = C[i].state /\ t.rcv_nxt = C[i].rcv_nxt => Alike(C, M.clones)
<1> DEFINE B == N.clones
           D == M.clones
<1>1. /\ DOMAIN C = 1..Len(C) /\ Len(C) \in Nat
      /\ DOMAIN B = DOMAIN C /\ Len(B) = Len(C)
      /\ B[i] = t /\ \A j \in DOMAIN C \ {i} : B[j] = C[j]
  OBVIOUS
<1>2. /\ D \in Seq(TcpSockets) /\ Len(D) = Len(B)
      /\ \A j \in 1..Len(B) : Uses(B[j], D[j])
  BY DEF Keeps, IsNcap
<1> HIDE DEF B, D
<1>3. DOMAIN D = DOMAIN C /\ Len(D) = Len(C)
  BY <1>1, <1>2
<1>4. \A j \in DOMAIN C : D[j].state = B[j].state /\ D[j].rcv_nxt = B[j].rcv_nxt
  BY <1>1, <1>2 DEF Uses, Later
<1>5. OnlyAt(i, t.state, C, D) /\ D[i].rcv_nxt = t.rcv_nxt
  BY <1>1, <1>3, <1>4 DEF OnlyAt
<1>6. t.state = C[i].state /\ t.rcv_nxt = C[i].rcv_nxt => Alike(C, D)
  BY <1>1, <1>3, <1>4 DEF Alike
<1>7. QED
  BY <1>5, <1>6 DEF D

(* closing() closes the other side.                                        *)
LEMMA ClosingEnds ==
  ASSUME NEW C \in Seq(TcpSockets), NEW i \in 1..Len(C),
         NEW t \in TcpSockets, t.state = "CLOSE_WAIT",
         NEW N, IsNcap(N), IsReader(N), N.clones = [C EXCEPT ![i] = t], Plain(N),
         NEW m, C[i].state = "ESTABLISHED", "fin" \in m.flags,
         C[i].rcv_nxt = m.seq, t.rcv_nxt = m.seq,
         NEW data, NEW M, M = Called(N, i, data, {"closing"})
  PROVE  TurnOutcome(m, C, i, N.cache, M)
<1> DEFINE s == N.clones[i]
           o == Close(s)
           u == [s EXCEPT !.state = "LAST_ACK"]
           f == Fin(s)
           B == N.clones
<1>1. /\ DOMAIN C = 1..Len(C) /\ Len(C) \in Nat
      /\ DOMAIN B = DOMAIN C /\ Len(B) = Len(C)
      /\ B[i] = t /\ \A j \in DOMAIN C \ {i} : B[j] = C[j]
  OBVIOUS
<1>2. s = t
  BY <1>1
<1>3. Later(s, o.socket) /\ o.sent \in Seq(Controls)
  BY <1>2, CloseLater
<1>4. o = Outcome(u, <<f>>, {})
  BY <1>2 DEF Close
<1>5. u.state = "LAST_ACK" /\ u.rcv_nxt = t.rcv_nxt
  BY <1>2, StateSet DEF States
<1>6. f.flags = {"fin", "ack"} /\ f.data = Null
  BY DEF Fin, Segment
<1>7. M = Used(N, i, o.socket, o.sent)
  BY DEF Called, Used
<1> HIDE DEF u, f
<1>8. o.socket = u /\ o.sent = <<f>>
  BY <1>4, OutcomeFields
<1> HIDE DEF o, s
<1>9. i \in 1..Len(N.clones) /\ Later(N.clones[i], o.socket)
  BY <1>1, <1>3 DEF s
<1>10. Leaves(N, M) /\ ChangedAt(N, i, o.socket, M)
  BY <1>3, <1>7, <1>9, LeavesUsed DEF Controls
<1>11. M.out = N.out \o o.sent /\ M.cache = N.cache
  BY <1>7 DEF Used, IsNcap, HasNcapFields
<1> DEFINE D == M.clones
<1>12. D \in Seq(TcpSockets) /\ Len(D) = Len(B)
  BY <1>10 DEF Leaves, IsNcap
<1>13. \A j \in 1..Len(B) : D[j] = IF j = i THEN o.socket ELSE B[j]
  BY <1>10 DEF ChangedAt
<1> HIDE DEF D, B
<1>14. OnlyAt(i, "LAST_ACK", C, D) /\ D[i].rcv_nxt = m.seq
  BY <1>1, <1>5, <1>8, <1>12, <1>13 DEF OnlyAt
<1>15. TurnEnds(m, C, i, N.cache, M)
  BY <1>11, <1>14 DEF TurnEnds, D
<1>16. PICK E : N.out \in Seq(Replies(E))
  BY DEF IsNcap
<1>17. ToSet(o.sent) = {f} /\ Single(o.sent)
  BY <1>8 DEF ToSet, Single
<1>18. Single(N.out) /\ Clear(ToSet(N.out)) /\ \A x \in ToSet(N.out) : ToTim(x) /\ "syn" \notin x.flags
  BY PlainIs
<1>19. Single(M.out) /\ ToSet(M.out) = ToSet(N.out) \cup {f}
  <2> DEFINE q == N.out
             r == o.sent
  <2>1. q \in Seq(Replies(E)) /\ r \in Seq(Controls)
    BY <1>3, <1>16
  <2>2. Single(q) /\ Single(r) /\ Clear(ToSet(q)) /\ M.out = q \o r /\ ToSet(r) = {f}
    BY <1>11, <1>17, <1>18
  <2> HIDE DEF q, r
  <2>3. Single(q \o r)
    BY <2>1, <2>2, SingleSent
  <2>4. ToSet(q \o r) = ToSet(q) \cup ToSet(r)
    BY <2>1, SentIsUnderWay
  <2>5. QED
    BY <2>2, <2>3, <2>4 DEF q
<1>20. \A x \in ToSet(M.out) : ToTim(x) /\ "syn" \notin x.flags
  BY <1>6, <1>18, <1>19 DEF ToTim, ToNcap
<1>21. M.cache \in Seq(Entries)
  BY <1>11 DEF IsReader
<1>22. QED
  BY <1>15, <1>19, <1>20, <1>21 DEF TurnOutcome

(* closed() tells that the connection has ended.                           *)
LEMMA ClosedTells ==
  ASSUME NEW C \in Seq(TcpSockets), NEW i \in 1..Len(C), NEW t \in TcpSockets,
         NEW N, IsNcap(N), IsReader(N), N.clones = [C EXCEPT ![i] = t], Plain(N),
         NEW m, NEW data, NEW M, M = Called(N, i, data, {"closed"})
  PROVE  TurnOutcome(m, C, i, N.cache, M)
<1> DEFINE P == ReportTimDisconnected(N)
           B == N.clones
           R == RemoveAt(B, i)
<1>1. /\ DOMAIN C = 1..Len(C) /\ Len(C) \in Nat
      /\ B \in Seq(TcpSockets) /\ Len(B) = Len(C) /\ i \in 1..Len(B)
      /\ \A j \in 1..Len(C) : j # i => B[j] = C[j]
  OBVIOUS
<1>2. N.cache \in Seq(Entries)
  BY DEF IsReader
<1>3. /\ P.cache \in Seq(Entries) /\ IsClosed(P.cache)
      /\ P.out = N.out /\ P.clones = N.clones
  <2>1. CASE N.cache = << >>
    BY <1>2, <2>1 DEF ReportTimDisconnected, IsClosed
  <2>2. CASE N.cache # << >>
    <3>1. P = Noted(N, FALSE)
      BY <2>2 DEF ReportTimDisconnected, Noted
    <3> HIDE DEF P
    <3>2. /\ P.cache \in Seq(Entries) /\ P.cache # << >> /\ P.cache[1].connected = FALSE
          /\ P.out = N.out /\ P.clones = N.clones
      BY <1>2, <2>2, <3>1, NotedIs DEF IsNcap
    <3>3. QED
      BY <3>2 DEF IsClosed
  <2>3. QED
    BY <2>1, <2>2
<1>4. IsNcap(P)
  BY ReportTimDisconnectedKeeps DEF Keeps
<1>5. M = [P EXCEPT !.clones = RemoveAt(@, i)]
  BY DEF Called
<1> HIDE DEF P
<1>6. M.clones = RemoveAt(P.clones, i) /\ M.out = P.out /\ M.cache = P.cache
  BY <1>4, <1>5 DEF IsNcap, HasNcapFields
<1>7. M.clones = R
  BY <1>3, <1>6
<1> HIDE DEF B
<1>8. /\ R \in Seq(TcpSockets) /\ Len(R) = Len(C) - 1
      /\ \A j \in 1..Len(C)-1 : R[j] = IF j < i THEN B[j] ELSE B[j + 1]
  <2>1. /\ R \in Seq(TcpSockets) /\ Len(R) = Len(B) - 1
        /\ \A j \in 1..Len(B)-1 : R[j] = IF j < i THEN B[j] ELSE B[j + 1]
    BY <1>1, RemoveAtElements
  <2>2. QED
    BY <1>1, <2>1
<1> HIDE DEF R
<1>9. DOMAIN R = 1..Len(C)-1 /\ Len(R) = Len(C) - 1
  BY <1>1, <1>8
<1>10. ASSUME NEW k \in DOMAIN R
       PROVE  \E j \in DOMAIN C : R[k].state = C[j].state
  <2>1. CASE k < i
    <3>1. k \in DOMAIN C /\ k # i /\ R[k] = B[k]
      BY <1>1, <1>8, <1>9, <2>1
    <3>2. QED
      BY <1>1, <3>1
  <2>2. CASE ~(k < i)
    <3>1. k + 1 \in DOMAIN C /\ k + 1 # i /\ R[k] = B[k + 1]
      BY <1>1, <1>8, <1>9, <2>2
    <3>2. QED
      BY <1>1, <3>1
  <2>3. QED
    BY <2>1, <2>2
<1>11. Fewer(C, M.clones)
  BY <1>7, <1>9, <1>10 DEF Fewer
<1>12. Plain(M)
  BY <1>3, <1>6 DEF Plain
<1>13. TurnCloses(C, M)
  BY <1>3, <1>6, <1>11, <1>12 DEF TurnCloses
<1>14. QED
  BY <1>3, <1>6, <1>12, <1>13, PlainIs DEF TurnOutcome

(* The turn of a socket.                                                   *)
LEMMA TurnMakes ==
  ASSUME NEW C \in Seq(TcpSockets), NEW i \in 1..Len(C), NEW m, NEW o, NcapOutcome(C[i], m, o),
         o.socket \in TcpSockets,
         NEW N, IsNcap(N), IsReader(N), N.clones = [C EXCEPT ![i] = o.socket], Plain(N),
         "received" \in o.calls => m.data \in Messages,
         NEW M, M = Called(N, i, m.data, o.calls)
  PROVE  TurnOutcome(m, C, i, N.cache, M)
<1> DEFINE s == C[i]
           t == o.socket
           data == m.data
<1>1. N.cache \in Seq(Entries)
  BY DEF IsReader
<1>2. CASE /\ o.calls = {} /\ t.state = s.state /\ t.rcv_nxt = s.rcv_nxt
           /\ Closing(m, s) => s.state = "ESTABLISHED" /\ m.data = Null
  <2>1. M = N
    BY <1>2 DEF Called
  <2>2. Keeps(N, M)
    BY <2>1, KeepsAsItIs DEF IsNcap
  <2>3. Alike(C, M.clones)
    BY <1>2, <2>2, KeepsAt
  <2>4. TurnStays(m, C, i, N.cache, M)
    BY <1>2, <2>1, <2>3 DEF TurnStays
  <2>5. QED
    BY <1>1, <2>1, <2>4, PlainIs DEF TurnOutcome
<1>3. CASE /\ o.calls = {"connected"} /\ s.state = "SYN_RCVD" /\ t.state = "ESTABLISHED"
           /\ t.rcv_nxt = s.rcv_nxt
  <2>1. M = ReportTimConnected(N)
    BY <1>3 DEF Called
  <2>2. Keeps(N, M) /\ Tells(N, M) /\ IsOpen(M.cache)
    BY <2>1, ReportTimConnectedKeeps, ReportTimConnectedTells DEF IsOpen
  <2>3. OnlyAt(i, "ESTABLISHED", C, M.clones) /\ M.clones[i].rcv_nxt = s.rcv_nxt
    BY <1>3, <2>2, KeepsAt
  <2>4. Plain(M) /\ M.cache \in Seq(Entries)
    BY <2>2 DEF Tells
  <2>5. TurnOpens(m, C, i, N.cache, M)
    BY <1>3, <2>2, <2>3, <2>4 DEF TurnOpens
  <2>6. QED
    BY <2>4, <2>5, PlainIs DEF TurnOutcome
<1>4. CASE /\ o.calls = {"received"} /\ s.state = "ESTABLISHED" /\ t.state = "ESTABLISHED"
           /\ data # Null /\ t.rcv_nxt = m.seq + 1
  <2>1. M = ReceiveReply(N, data) /\ data \in Messages
    BY <1>4 DEF Called
  <2>2. Keeps(N, M) /\ Tells(N, M)
    BY <2>1, ReceiveReplyKeeps, ReceiveReplyTells
  <2>3. OnlyAt(i, "ESTABLISHED", C, M.clones) /\ M.clones[i].rcv_nxt = m.seq + 1
    BY <1>4, <2>2, KeepsAt
  <2>4. Plain(M) /\ M.cache \in Seq(Entries) /\ (M.cache = N.cache \/ IsOpen(M.cache))
    BY <2>2 DEF Tells, IsOpen
  <2>5. TurnOpens(m, C, i, N.cache, M)
    BY <1>4, <2>3, <2>4 DEF TurnOpens
  <2>6. QED
    BY <2>4, <2>5, PlainIs DEF TurnOutcome
<1>5. CASE /\ o.calls = {"closing"} /\ s.state = "ESTABLISHED" /\ t.state = "CLOSE_WAIT"
           /\ "fin" \in m.flags /\ s.rcv_nxt = m.seq /\ t.rcv_nxt = m.seq
  BY <1>5, ClosingEnds
<1>6. CASE o.calls = {"closed"}
  BY <1>6, ClosedTells
<1>7. QED
  BY <1>2, <1>3, <1>4, <1>5, <1>6 DEF NcapOutcome

-----------------------------------------------------------------------------
-----------------------------------------------------------------------------
(* The steps of the TIM                                                    *)

(* The network is changed by a segment taken and those sent for it.        *)
LEMMA ExchangedIs ==
  ASSUME NEW G, NEW L, NetOK(net, G, L), NEW at \in Nodes, NEW to \in Nodes \ {at},
         NEW q, NEW w, w = Exchange(at, to, q)
  PROVE  w[to] = net[to] \o q /\ w[at] = Tail(net[at])
<1>1. net = [node \in Nodes |-> net[node]]
  BY DEF NetOK
<1>2. QED
  BY <1>1 DEF Exchange

(* Unmarked segments may be sent at any time, but none after a SYN.        *)
LEMMA ClearSent ==
  ASSUME NEW U, NEW q \in Seq(U), Single(q), NEW V, NEW r \in Seq(V), Clear(ToSet(r))
  PROVE  /\ Single(q \o r) /\ ToSet(q \o r) = ToSet(q) \cup ToSet(r)
         /\ SynLast(q) /\ (r = << >> \/ ~HasSyn(ToSet(q))) => SynLast(q \o r)
<1>1. \A i \in DOMAIN r : ~Marked(r[i])
  BY DEF Clear, ToSet
<1>2. Single(r) /\ SynLast(r)
  BY <1>1 DEF Single, SynLast, Marked
<1>3. r = << >> => q \o r = q
  BY ConcatEmptySeq
<1>4. ~HasSyn(ToSet(q)) => SynLast(q \o r)
  BY <1>2, SynSentLast
<1>5. QED
  BY <1>2, <1>3, <1>4, SingleSent, SentIsUnderWay

(* Good manners are kept by who sends such segments only.                  *)
LEMMA PoliteKept ==
  ASSUME Polite,
         \A m \in ToSet(net'["ncap"]) : m \in ToSet(net["ncap"]) \/ ToNcap(m),
         \A m \in ToSet(net'["tim"]) : m \in ToSet(net["tim"]) \/ ToTim(m),
         turns' # << >> => \/ handled' \in ToSet(net["ncap"])
                           \/ handled' = handled /\ turns # << >>,
         \A i \in DOMAIN ncap'.clones :
           ncap'.clones[i].state \in {"SYN_RCVD", "ESTABLISHED", "LAST_ACK"}
  PROVE  Polite'
BY DEF Polite

(* A socket is no null pointer.                                            *)
LEMMA SocketIsNotNull ==
  ASSUME NEW s \in TcpSockets
  PROVE  s # Null
BY IeeeAssumption DEF IeeeAssumption, Sockets, TcpSockets


(* The phases of a connection.                                             *)
LEMMA PhaseIs ==
  ASSUME NEW c, NEW p, NEW b
  PROVE  /\ Over(c, p, b) => Phase(c, p, b) = "over"
         /\ ~Over(c, p, b) /\ InConnect(p) /\ c.state # "ESTABLISHED" => Phase(c, p, b) = "calling"
         /\ ~Over(c, p, b) /\ InConnect(p) /\ c.state = "ESTABLISHED" => Phase(c, p, b) = "open"
         /\ ~Over(c, p, b) /\ FinIsOut(p) => Phase(c, p, b) = "leaving"
         /\ ~Over(c, p, b) /\ ~InConnect(p) /\ ~FinIsOut(p) => Phase(c, p, b) = "open"
         /\ ~(InConnect(p) /\ FinIsOut(p))
<1>1. ~(InConnect(p) /\ FinIsOut(p))
  BY DEF InConnect, FinIsOut
<1>2. Over(c, p, b) => Phase(c, p, b) = "over"
  BY DEF Phase
<1>3. ~Over(c, p, b) /\ InConnect(p) /\ c.state # "ESTABLISHED" => Phase(c, p, b) = "calling"
  BY <1>1 DEF Phase
<1>4. ~Over(c, p, b) /\ InConnect(p) /\ c.state = "ESTABLISHED" => Phase(c, p, b) = "open"
  BY <1>1 DEF Phase
<1>5. ~Over(c, p, b) /\ FinIsOut(p) => Phase(c, p, b) = "leaving"
  BY <1>1 DEF Phase
<1>6. ~Over(c, p, b) /\ ~InConnect(p) /\ ~FinIsOut(p) => Phase(c, p, b) = "open"
  BY DEF Phase
<1>7. QED
  BY <1>1, <1>2, <1>3, <1>4, <1>5, <1>6

(* Where the states of the TIM's socket are known.                         *)
At(p, x, b) ==
    \/ InConnect(p) /\ x \in {"SYN_SENT", "ESTABLISHED", "CLOSED"} /\ (b <=> x = "ESTABLISHED")
    \/ ~InConnect(p) /\ ~FinIsOut(p) /\ x = "ESTABLISHED" /\ b
    \/ /\ p \in {"finished", "open"} /\ x \in {"ESTABLISHED", "CLOSE_WAIT", "CLOSED"}
       /\ b <=> x # "CLOSED"
    \/ p = "halfOpen" /\ x \in {"CLOSE_WAIT", "CLOSED"} /\ (b <=> x # "CLOSED")
    \/ /\ p = "disconnecting" /\ x \in {"FIN_WAIT1", "FIN_WAIT2", "LAST_ACK", "CLOSED"}
       /\ x = "CLOSED" => ~b

LEMMA ThreadStates ==
  ASSUME NEW p \in Places, NEW c, c # Null, NEW b, NEW n, NEW s, ThreadAt(p, c, b, n, s)
  PROVE  At(p, c.state, b)
<1>1. \A S : In(c, S) <=> c.state \in S
  BY DEF In
<1>2. CASE InConnect(p)
  <2>1. c.state \in {"SYN_SENT", "ESTABLISHED", "CLOSED"} /\ (b <=> c.state \in {"ESTABLISHED", "CLOSE_WAIT"})
    BY <1>1, <1>2 DEF ThreadAt, InConnect
  <2>2. QED
    BY <1>2, <2>1 DEF At
<1>3. CASE ~InConnect(p) /\ ~FinIsOut(p)
  <2>1. c.state = "ESTABLISHED" /\ (b <=> c.state \in {"ESTABLISHED", "CLOSE_WAIT"})
    BY <1>1, <1>3 DEF ThreadAt, InConnect, FinIsOut, Places
  <2>2. QED
    BY <1>3, <2>1 DEF At
<1>4. CASE FinIsOut(p)
  BY <1>1, <1>4 DEF ThreadAt, FinIsOut, At
<1>5. QED
  BY <1>2, <1>3, <1>4

(* What the socket makes of a segment changes the phase.                   *)
Passes(ph, pg, c, m, o) ==
    \/ /\ pg = ph
       /\ ph = "calling" => o.sent = << >>
       /\ "received" \in o.calls => ph \in {"open", "leaving"} \/ ~connected
    \/ /\ ph = "calling" /\ pg = "open" /\ "syn" \in m.flags /\ "received" \notin o.calls
       /\ OneAck(o.sent, o.socket.snd_nxt)
    \/ /\ ph = "leaving" /\ pg = "over" /\ "fin" \in m.flags /\ "received" \notin o.calls
       /\ OneAck(o.sent, c.snd_nxt)

(* The thread of the sensor waits for what its socket becomes.             *)
Hooked(b, o) == (b \/ "connected" \in o.calls) /\ "closed" \notin o.calls

LEMMA ThreadAnswers ==
  ASSUME NEW p \in Places, NEW c, connected \in BOOLEAN, NEW n, NEW s,
         ThreadAt(p, c, connected, n, s), c # Null,
         NEW m, NEW o, TimOutcome(c, m, o),
         "fin" \in m.flags => Phase(c, p, connected) = "leaving",
         NEW d, d # Null, d.state = o.socket.state,
         NEW b1, b1 = Hooked(connected, o),
         NEW p1, p1 = p \/ (p = "suspended" /\ p1 = "loop")
  PROVE  /\ ThreadAt(p1, d, b1, n, s)
         /\ Passes(Phase(c, p, connected), Phase(d, p1, b1), c, m, o)
<1> DEFINE b == connected
           x == c.state
           y == d.state
           ph == Phase(c, p, b)
           pg == Phase(d, p1, b1)
<1>1. At(p, x, b)
  BY ThreadStates
<1>2. (\A S : In(d, S) <=> y \in S) /\ (\A S : In(c, S) <=> x \in S)
  BY DEF In
<1>3. p # p1 => p = "suspended" /\ p1 = "loop" /\ n = 0 /\ x = "ESTABLISHED" /\ b
  <2>1. p # p1 => p = "suspended" /\ p1 = "loop" /\ n = 0
    BY DEF ThreadAt
  <2>2. QED
    BY <1>1, <2>1 DEF At, InConnect, FinIsOut
<1>4. (InConnect(p1) <=> InConnect(p)) /\ (FinIsOut(p1) <=> FinIsOut(p))
  BY DEF InConnect, FinIsOut
<1>5. /\ Over(c, p, b) <=> (~InConnect(p) /\ ~b) \/ x \in {"CLOSE_WAIT", "LAST_ACK"}
      /\ Over(d, p1, b1) <=> (~InConnect(p) /\ ~b1) \/ y \in {"CLOSE_WAIT", "LAST_ACK"}
  BY <1>2, <1>4 DEF Over
<1>6. ASSUME y = x, b1 = b
      PROVE  ThreadAt(p1, d, b1, n, s) /\ pg = ph
  <2>1. \A S : In(d, S) <=> In(c, S)
    BY <1>2, <1>6
  <2>2. ThreadAt(p, d, b1, n, s)
    BY <1>6, <2>1 DEF ThreadAt
  <2>3. ThreadAt(p1, d, b1, n, s)
    <3>1. CASE p1 = p
      BY <2>2, <3>1
    <3>2. CASE p1 # p
      BY <1>3, <2>2, <3>2 DEF ThreadAt, InConnect, FinIsOut
    <3>3. QED
      BY <3>1, <3>2
  <2>4. pg = ph
    BY <1>4, <1>5, <1>6 DEF Phase
  <2>5. QED
    BY <2>3, <2>4
<1>7. CASE TimStays(c, o)
  <2>1. y = x /\ b1 = b
    BY <1>7 DEF TimStays, Hooked
  <2>2. ph = "calling" => x # "ESTABLISHED" /\ InConnect(p)
    <3>1. ph = "calling" => InConnect(p) /\ c.state # "ESTABLISHED"
      BY PhaseIs
    <3>2. QED
      BY <3>1
  <2>3. ph = "calling" => o.sent = << >>
    BY <1>1, <1>7, <2>2 DEF TimStays, At, InConnect
  <2>4. "received" \in o.calls => ph \in {"open", "leaving"} \/ ~connected
    <3>1. ASSUME "received" \in o.calls, connected
          PROVE  ph \in {"open", "leaving"}
      <4>1. x = "ESTABLISHED" /\ ~Over(c, p, b)
        BY <1>5, <1>7, <3>1 DEF TimStays
      <4>2. QED
        BY <4>1, PhaseIs
    <3>2. QED
      BY <3>1
  <2>5. QED
    BY <1>6, <2>1, <2>3, <2>4 DEF Passes
<1>8. CASE TimOpens(c, m, o)
  <2>1. x = "SYN_SENT" /\ y = "ESTABLISHED" /\ b1 = TRUE /\ InConnect(p) /\ p1 = p
    BY <1>1, <1>3, <1>8 DEF TimOpens, At, Hooked
  <2>2. ThreadAt(p1, d, b1, n, s)
    BY <1>2, <2>1 DEF ThreadAt, InConnect, FinIsOut
  <2>3. ~Over(c, p, b) /\ ~Over(d, p1, b1)
    BY <1>5, <2>1
  <2>4. ph = "calling" /\ pg = "open"
    BY <1>4, <2>1, <2>3, PhaseIs
  <2>5. QED
    BY <1>8, <2>2, <2>4 DEF TimOpens, Passes
<1>9. CASE TimFails(c, o)
  <2>1. y = "CLOSED" /\ b1 = FALSE /\ p1 = p /\ o.sent = << >> /\ "received" \notin o.calls
    BY <1>3, <1>9 DEF TimFails, Hooked
  <2>2. \/ x = "SYN_SENT" /\ InConnect(p)
        \/ x \in {"CLOSE_WAIT", "LAST_ACK"} /\ p \in {"finished", "open", "halfOpen", "disconnecting"}
    BY <1>1, <1>9 DEF At, TimFails
  <2>3. ThreadAt(p1, d, b1, n, s)
    BY <1>2, <2>1, <2>2 DEF ThreadAt, InConnect, FinIsOut
  <2>4. pg = ph
    <3>1. CASE x = "SYN_SENT" /\ InConnect(p)
      <4>1. ~Over(c, p, b) /\ ~Over(d, p1, b1)
        BY <1>5, <2>1, <3>1
      <4>2. ph = "calling" /\ pg = "calling"
        BY <1>4, <2>1, <3>1, <4>1, PhaseIs
      <4>3. QED
        BY <4>2
    <3>2. CASE /\ x \in {"CLOSE_WAIT", "LAST_ACK"}
               /\ p \in {"finished", "open", "halfOpen", "disconnecting"}
      <4>1. Over(c, p, b) /\ Over(d, p1, b1)
        BY <1>5, <2>1, <3>2 DEF InConnect
      <4>2. ph = "over" /\ pg = "over"
        BY <4>1, PhaseIs
      <4>3. QED
        BY <4>2
    <3>3. QED
      BY <2>2, <3>1, <3>2
  <2>5. QED
    BY <2>1, <2>3, <2>4 DEF Passes
<1>10. CASE TimWaits(c, o)
  <2>1. x = "FIN_WAIT1" /\ y = "FIN_WAIT2" /\ b1 = b /\ p1 = p /\ "received" \notin o.calls
    BY <1>3, <1>10 DEF TimWaits, Hooked
  <2>2. p = "disconnecting"
    BY <1>1, <2>1 DEF At
  <2>3. ThreadAt(p1, d, b1, n, s)
    BY <1>2, <2>1, <2>2 DEF ThreadAt, InConnect, FinIsOut
  <2>4. Over(d, p1, b1) <=> Over(c, p, b)
    BY <1>5, <2>1
  <2>5. ~InConnect(p) /\ FinIsOut(p)
    BY <2>2 DEF InConnect, FinIsOut
  <2>6. pg = ph /\ ph # "calling"
    <3>1. CASE Over(c, p, b)
      <4>1. ph = "over" /\ pg = "over"
        BY <2>4, <3>1, PhaseIs
      <4>2. QED
        BY <4>1
    <3>2. CASE ~Over(c, p, b)
      <4>1. ph = "leaving" /\ pg = "leaving"
        BY <1>4, <2>4, <2>5, <3>2, PhaseIs
      <4>2. QED
        BY <4>1
    <3>3. QED
      BY <3>1, <3>2
  <2>7. QED
    BY <2>1, <2>3, <2>6 DEF Passes
<1>11. CASE TimHearsFin(c, m, o)
  <2>1. ph = "leaving"
    BY <1>11 DEF TimHearsFin
  <2>2. FinIsOut(p) /\ p1 = p
    <3>1. FinIsOut(p)
      BY <2>1, PhaseIs
    <3>2. QED
      BY <3>1 DEF FinIsOut
  <2>3. "received" \notin o.calls
    BY <1>11 DEF TimHearsFin
  <2>4. \/ x \in {"FIN_WAIT1", "FIN_WAIT2"} /\ y = "CLOSED" /\ b1 = FALSE
        \/ x = "ESTABLISHED" /\ y = "CLOSE_WAIT" /\ b1 = b
    BY <1>11 DEF TimHearsFin, Hooked
  <2>5. ThreadAt(p1, d, b1, n, s)
    <3>1. CASE x \in {"FIN_WAIT1", "FIN_WAIT2"} /\ y = "CLOSED" /\ b1 = FALSE
      <4>1. p = "disconnecting"
        BY <1>1, <3>1 DEF At
      <4>2. QED
        BY <1>2, <2>2, <3>1, <4>1 DEF ThreadAt, InConnect, FinIsOut
    <3>2. CASE x = "ESTABLISHED" /\ y = "CLOSE_WAIT" /\ b1 = b
      <4>1. p \in {"finished", "open"} /\ b1 = TRUE
        BY <1>1, <2>2, <3>2 DEF At, InConnect, FinIsOut
      <4>2. QED
        BY <1>2, <2>2, <3>2, <4>1 DEF ThreadAt, InConnect, FinIsOut
    <3>3. QED
      BY <2>4, <3>1, <3>2
  <2>6. Over(d, p1, b1)
    <3>1. ~InConnect(p)
      BY <2>2 DEF FinIsOut, InConnect
    <3>2. QED
      BY <1>5, <2>4, <3>1
  <2>7. pg = "over"
    BY <2>6, PhaseIs
  <2>8. QED
    BY <1>11, <2>1, <2>3, <2>5, <2>7 DEF TimHearsFin, Passes
<1>12. QED
  BY <1>7, <1>8, <1>9, <1>10, <1>11 DEF TimOutcome

(* What a thread or a handler of the TIM sends that has the next number n: *)
(* data takes it.                                                          *)
DataSent(n, q) ==
    /\ \A j \in DOMAIN q : q[j].data # Null => q[j].seq = n
    /\ \E j \in DOMAIN q : DataAt(n, q[j])

(* What the TIM makes of a segment m in the phase ph, and what it sends.   *)
TimAnswer(ph, pg, n, k, m, q) ==
    /\ Clear(ToSet(q))
    /\ \/ pg = ph /\ k = n /\ Dataless(q) /\ (ph = "calling" => q = << >>)
       \/ pg = ph /\ ph \in {"open", "leaving"} /\ k = n + 1 /\ DataSent(n, q)
       \/ ph = "calling" /\ pg = "open" /\ "syn" \in m.flags /\ k = n /\ OneAck(q, n)
       \/ ph = "leaving" /\ pg = "over" /\ "fin" \in m.flags /\ k = n /\ OneAck(q, n)

(* The TIM answers a command with data.                                    *)
LEMMA AnswerAdvances ==
  ASSUME NEW o, o.socket \in TcpSockets, o.sent \in Seq(Acks(o.socket.snd_nxt)), NEW m,
         Heard(o) => Reply(m.data) # Null
  PROVE  LET a == Answer(o, m)
             n == o.socket.snd_nxt
         IN /\ Clear(ToSet(a.sent))
            /\ \/ a = o /\ Dataless(o.sent)
               \/ Heard(o) /\ a.socket.snd_nxt = n + 1 /\ DataSent(n, a.sent)
<1> DEFINE a == Answer(o, m)
           s == o.socket
           n == s.snd_nxt
           b == Reply(m.data)
           e == Send(s, b)
           x == [DataHeader(s) EXCEPT !.data = b]
<1>1. (Heard(o) /\ a = [e EXCEPT !.sent = o.sent \o @]) \/ a = o
  BY DEF Answer
<1>2. \A j \in DOMAIN o.sent : o.sent[j] \in Acks(n)
  OBVIOUS
<1>3. \A j \in DOMAIN o.sent : o.sent[j].flags = {"ack"} /\ o.sent[j].data = Null
  BY <1>2 DEF Acks
<1>4. Clear(ToSet(a.sent))
  <2>1. \A y \in ToSet(a.sent) : y.flags = {"ack"}
    BY AnswerNumbered
  <2> HIDE DEF a
  <2>2. QED
    BY <2>1 DEF Clear, Marked
<1>5. CASE a = o
  BY <1>3, <1>4, <1>5 DEF Dataless
<1>6. CASE Heard(o) /\ a = [e EXCEPT !.sent = o.sent \o @]
  <2>1. e = [socket |-> e.socket, sent |-> e.sent, calls |-> e.calls]
    BY DEF Send, Outcome
  <2>2. e.socket = Advance(s, n) /\ e.sent = <<x>>
    BY OutcomeFields DEF Send
  <2>3. Advance(s, n).snd_nxt = n + 1
    BY DEF Advance, TcpSockets
  <2>4. x.flags = {"ack"} /\ x.seq = n /\ x.data = b
    BY DEF DataHeader, Segment
  <2> DEFINE r == <<x>>
             p == o.sent
             w == p \o r
  <2>5. r \in Seq({x}) /\ p \in Seq(Acks(n)) /\ DOMAIN r = {1} /\ r[1] = x
    OBVIOUS
  <2> HIDE DEF e, b, x
  <2>6. a.socket = e.socket /\ a.sent = w
    BY <1>6, <2>1, <2>2
  <2> HIDE DEF r, p, a
  <2>7. /\ 1 + Len(p) \in DOMAIN w /\ w[1 + Len(p)] = x
        /\ \A k \in DOMAIN w : \/ k \in DOMAIN p /\ w[k] = p[k]
                               \/ w[k] = x
    <3>1. /\ \A k \in DOMAIN p : k \in DOMAIN w /\ w[k] = p[k]
          /\ \A k \in DOMAIN r : k + Len(p) \in DOMAIN w /\ w[k + Len(p)] = r[k]
          /\ \A k \in DOMAIN w : k \notin DOMAIN p => k - Len(p) \in DOMAIN r /\ w[k] = r[k - Len(p)]
      BY <2>5, JoinAt
    <3> HIDE DEF w
    <3>2. QED
      BY <2>5, <3>1
  <2> HIDE DEF w
  <2>8. DataAt(n, x)
    <3>1. b # Null
      BY <1>6 DEF b
    <3>2. QED
      BY <2>4, <3>1 DEF DataAt, Marked
  <2>9. DataSent(n, w)
    <3>1. \A k \in DOMAIN w : w[k].data # Null => w[k].seq = n
      BY <1>3, <2>4, <2>7 DEF p
    <3>2. QED
      BY <2>7, <2>8, <3>1 DEF DataSent
  <2>10. Heard(o) /\ a.socket.snd_nxt = n + 1 /\ DataSent(n, a.sent)
    BY <1>6, <2>2, <2>3, <2>6, <2>9
  <2>11. QED
    BY <1>4, <2>10 DEF a
<1>7. QED
  BY <1>1, <1>5, <1>6

(* After the answer the TIM is as calm, and it sends nothing after a SYN.  *)
LEMMA CalmAnswers ==
  ASSUME NEW ph, NEW n, NEW h, NEW Q, NEW T, NEW C, Calm(ph, n, h, Q, T, C),
         NEW m \in T, NEW U \in SUBSET T, Marked(m) => Clear(U),
         NEW pg, NEW k, NEW q, TimAnswer(ph, pg, n, k, m, q)
  PROVE  /\ Calm(pg, k, h, Q \cup ToSet(q), U, C)
         /\ HasSyn(Q) => q = << >>
         /\ ph # pg /\ pg = "over" => ~HasFin(Q \cup h)
<1> DEFINE R == ToSet(q)
<1>1. Clear(R) /\ Clear({}) /\ U \cup {} = U
  BY DEF TimAnswer, Clear
<1>2. Calm(ph, n, h, Q, U, C)
  BY CalmTaken
<1>3. HasSyn(Q) => ph = "calling"
  BY DEF Calm
<1> HIDE DEF R
<1>4. Calm(ph, n, h, Q \cup R, U, C)
  BY <1>1, <1>2, CalmSent
<1>5. CASE pg = ph /\ k = n /\ Dataless(q) /\ (ph = "calling" => q = << >>)
  BY <1>3, <1>4, <1>5 DEF R
<1>6. CASE pg = ph /\ ph = "open" /\ k = n + 1
  <2>1. Calm("open", k, h, Q \cup R, U, C) /\ ~HasSyn(Q)
    BY <1>2, <1>4, <1>6, CalmOpen
  <2>2. QED
    BY <1>6, <2>1 DEF R
<1>7. CASE pg = ph /\ ph = "leaving" /\ k = n + 1 /\ DataSent(n, q)
  <2>1. PICK j \in DOMAIN q : DataAt(n, q[j])
    BY <1>7 DEF DataSent
  <2>2. q[j] \in R /\ q[j].seq = n /\ "ack" \in q[j].flags
    BY <2>1 DEF R, ToSet, DataAt
  <2>3. Calm("leaving", k, h, Q \cup R, U, C)
    BY <1>1, <1>2, <1>7, <2>2, CalmAdvances
  <2>4. QED
    BY <1>3, <1>7, <2>3 DEF R
<1>8. CASE ph = "calling" /\ pg = "open" /\ "syn" \in m.flags /\ k = n
  <2>1. HasSyn(T) /\ Clear(U)
    BY <1>8 DEF HasSyn, Marked
  <2>2. Calm("open", n, h, Q, U, C) /\ ~HasSyn(Q)
    BY <1>8, <2>1, CalmConnected
  <2>3. Calm("open", n, h, Q \cup R, U, C)
    BY <1>1, <2>2, CalmSent
  <2>4. QED
    BY <1>8, <2>2, <2>3 DEF R
<1>9. CASE ph = "leaving" /\ pg = "over" /\ "fin" \in m.flags /\ k = n /\ OneAck(q, n)
  <2>1. HasFin(T) /\ Clear(U)
    BY <1>9 DEF HasFin, Marked
  <2>2. PICK a : IsAck(a, n) /\ q = <<a>>
    BY <1>9 DEF OneAck
  <2>3. a \in R
    BY <2>2 DEF R, ToSet
  <2>4. a.seq = n /\ "ack" \in a.flags
    BY <2>2 DEF IsAck
  <2>5. Calm("over", n, h, Q \cup R, U, C) /\ Clear(Q) /\ ~HasFin(h)
    BY <1>1, <1>9, <2>1, <2>3, <2>4, CalmClosed
  <2>6. ~HasFin(Q \cup h)
    BY <2>5 DEF Clear, Marked, HasFin
  <2>7. QED
    BY <1>3, <1>9, <2>5, <2>6 DEF R
<1>10. QED
  BY <1>5, <1>6, <1>7, <1>8, <1>9 DEF TimAnswer

(* And the numbers are in order.                                           *)
LEMMA CountedAnswers ==
  ASSUME NEW ph, NEW n \in Nat, NEW F \in SUBSET Nat, NEW U, NEW w \in Seq(U), NEW C,
         Counted(ph, n, F, w, C), NEW V, NEW q \in Seq(V),
         NEW m, NEW pg, NEW k, TimAnswer(ph, pg, n, k, m, q),
         NEW G \in SUBSET F, ph # pg /\ pg = "over" => G = {}
  PROVE  Counted(pg, k, G, w \o q, C)
<1> DEFINE x == w \o q
<1>1. ph \in {"over", "calling"} => F = {}
  BY DEF Counted
<1>2. CASE pg = ph /\ k = n /\ Dataless(q)
  <2>1. Counted(ph, n, F, x, C)
    BY <1>2, CountedQuiet
  <2> HIDE DEF x
  <2>2. Counted(pg, n, G, x, C)
    BY <1>1, <1>2, <2>1, CountedPhase
  <2>3. QED
    BY <1>2, <2>2 DEF x
<1>3. CASE pg = ph /\ ph \in {"open", "leaving"} /\ k = n + 1 /\ DataSent(n, q)
  <2>1. PICK j \in DOMAIN q : DataAt(n, q[j])
    BY <1>3 DEF DataSent
  <2>2. \A i \in DOMAIN q : q[i].data # Null => q[i].seq = n
    BY <1>3 DEF DataSent
  <2>3. Counted(ph, n + 1, F, x, C)
    BY <1>3, <2>1, <2>2, CountedMore
  <2> HIDE DEF x
  <2>4. Counted(pg, n + 1, G, x, C)
    BY <1>3, <2>3, CountedPhase
  <2>5. QED
    BY <1>3, <2>4 DEF x
<1>4. CASE ph = "calling" /\ pg = "open" /\ k = n /\ OneAck(q, n)
  <2>1. PICK a : IsAck(a, n) /\ q = <<a>>
    BY <1>4 DEF OneAck
  <2>2. a.data = Null /\ \A s : s.rcv_nxt = n => Closing(a, s)
    BY <2>1 DEF IsAck, Closing, Marked
  <2>3. Counted("open", n, {}, w \o <<a>>, C)
    BY <1>4, <2>2, CountedConnected
  <2>4. QED
    BY <1>1, <1>4, <2>1, <2>3
<1>5. CASE ph = "leaving" /\ pg = "over" /\ k = n /\ OneAck(q, n)
  <2>1. PICK a : IsAck(a, n) /\ q = <<a>>
    BY <1>5 DEF OneAck
  <2>2. Dataless(q)
    BY <2>1 DEF IsAck, Dataless
  <2>3. Counted(ph, n, F, x, C)
    BY <2>2, CountedQuiet
  <2> HIDE DEF x
  <2>4. ph # "calling" /\ pg # "calling" /\ G = {}
    BY <1>5
  <2>5. Counted(pg, n, G, x, C)
    BY <2>3, <2>4, CountedPhase
  <2>6. QED
    BY <1>5, <2>5 DEF x
<1>6. QED
  BY <1>2, <1>3, <1>4, <1>5 DEF TimAnswer

(* What the NCAP hears, in order.                                          *)
LEMMA ComingIs ==
  ASSUME DeliveryInv
  PROVE  /\ Coming \in Seq(Under("ncap", got, log))
         /\ ToSet(Coming) = ToSet(net["ncap"]) \cup Taken
         /\ turns # << >> => Coming # << >> /\ Head(Coming) = handled /\ Tail(Coming) = net["ncap"]
         /\ \A m \in ToSet(Coming) : m.seq \in Nat
<1> DEFINE V == Under("ncap", got, log)
<1>1. net["ncap"] \in Seq(V) /\ (turns # << >> => handled \in V)
  BY DEF DeliveryInv, NetOK, Nodes, TurnsOK
<1>2. \A m \in V : m.seq \in Nat
  BY DEF Under
<1> HIDE DEF V
<1>3. /\ Coming \in Seq(V) /\ ToSet(Coming) = ToSet(net["ncap"]) \cup Taken
      /\ turns # << >> => Coming # << >> /\ Head(Coming) = handled /\ Tail(Coming) = net["ncap"]
  <2>1. CASE turns = << >>
    BY <1>1, <2>1 DEF Coming, Taken
  <2>2. CASE turns # << >>
    <3> DEFINE q == net["ncap"]
               w == <<handled>> \o q
    <3>1. Coming = w /\ Taken = {handled}
      BY <2>2 DEF Coming, Taken
    <3>2. w \in Seq(V) /\ w # << >> /\ Head(w) = handled /\ Tail(w) = q /\ ToSet(w) = ToSet(q) \cup {handled}
      BY <1>1, <2>2, HandledFirst
    <3> HIDE DEF w
    <3>3. QED
      BY <3>1, <3>2
  <2>3. QED
    BY <2>1, <2>2
<1>4. \A m \in ToSet(Coming) : m \in V
  BY <1>3 DEF ToSet
<1>5. QED
  BY <1>2, <1>3, <1>4 DEF V

(* The FINs have numbers, and none is made by what has no mark.            *)
LEMMA FinsAre ==
  ASSUME DeliveryInv
  PROVE  /\ Finished \in SUBSET Nat
         /\ ~HasFin(ToSet(Coming)) /\ pc # "finishing" => Finished = {}
<1>1. \A m \in ToSet(Coming) : m.seq \in Nat
  BY ComingIs
<1>2. pc = "finishing" => header.seq \in Nat
  BY DEF DeliveryInv, SendingOK, IsFin
<1>3. QED
  BY <1>1, <1>2 DEF Finished, Fins, HasFin

LEMMA FinsSent ==
  ASSUME NEW p, NEW m, NEW Q, NEW p1, (p1 = "finishing") <=> (p = "finishing"), NEW R, Clear(R)
  PROVE  Fins(p1, m, Q \cup R) = Fins(p, m, Q)
<1>1. {y \in Q \cup R : "fin" \in y.flags} = {y \in Q : "fin" \in y.flags}
  BY DEF Clear, Marked
<1>2. QED
  BY <1>1 DEF Fins

(* More comes when the TIM sends.                                          *)
LEMMA ComingMore ==
  ASSUME DeliveryInv, UNCHANGED <<turns, handled>>, NEW V, NEW r \in Seq(V),
         net'["ncap"] = net["ncap"] \o r
  PROVE  Coming' = Coming \o r
<1> DEFINE q == net["ncap"]
           U == Under("ncap", got, log)
<1>1. q \in Seq(U) /\ (turns # << >> => handled \in U)
  BY DEF DeliveryInv, NetOK, Nodes, TurnsOK
<1>2. q \in Seq(U \cup V) /\ r \in Seq(U \cup V)
  BY <1>1, SeqMonotonic
<1>3. CASE turns = << >>
  BY <1>3 DEF Coming
<1>4. CASE turns # << >>
  <2> DEFINE p == <<handled>>
  <2>1. p \in Seq(U \cup V)
    BY <1>1, <1>4
  <2>2. Coming = p \o q /\ Coming' = p \o (q \o r)
    BY <1>4 DEF Coming
  <2> HIDE DEF p, q
  <2>3. p \o (q \o r) = (p \o q) \o r
    BY <1>2, <2>1, ConcatAssociative
  <2>4. QED
    BY <2>2, <2>3
<1>5. QED
  BY <1>3, <1>4

(* A segment comes to the TIM.                                             *)
LEMMA TimReceivePresence ==
  ASSUME DeliveryInv, ReaderInv, PresenceInv, TimReceive
  PROVE  PresenceInv'
<1> DEFINE q == net["ncap"]
           t == net["tim"]
           m == Head(t)
           o == Handle(client, m)
           a == Answer(o, m)
           r == a.sent
           U == Under("tim", got, log)
           V == Under("ncap", got, log)
<1>1. t # << >> /\ UNCHANGED <<mode, pos, header, ncap, turns, handled, faults>>
  BY DEF TimReceive, loop
<1>2. \/ /\ client = Null /\ net' = Exchange("tim", "ncap", << >>)
         /\ UNCHANGED <<client, connected, pc>>
      \/ /\ client # Null
         /\ client' = a.socket /\ net' = Exchange("tim", "ncap", r)
         /\ connected' = ((connected \/ "connected" \in o.calls) /\ "closed" \notin o.calls)
         /\ pc' = pc \/ pc' = Start(pc)
  BY DEF TimReceive
<1>3. /\ NetOK(net, got, log) /\ q \in Seq(V) /\ t \in Seq(U)
      /\ pc \in Places /\ connected \in BOOLEAN
  BY DEF DeliveryInv, ReaderInv, SensorOK, NetOK, Nodes
<1>4. Told'
  BY <1>1 DEF PresenceInv, Told
<1>5. /\ UNCHANGED <<Taken, Streaming>>
      /\ faults' = 0 => /\ Len(turns) <= 1 /\ Len(turns') <= 1
                        /\ ThreadAt(pc, client, connected, pos, Streaming)
                        /\ Ways(Phased, client.snd_nxt, Finished)
  BY <1>1 DEF PresenceInv, CalmInv, Taken, Streaming
<1>6. /\ m \in ToSet(t) /\ m \in U /\ ToSet(Tail(t)) \subseteq ToSet(t)
      /\ Single(t) => Single(Tail(t)) /\ (Marked(m) => Clear(ToSet(Tail(t))))
  BY <1>1, <1>3, FirstTaken, SingleTaken
<1>7. ToTim(m)
  BY <1>6 DEF PresenceInv, Polite
<1> HIDE DEF m, q, t
<1>8. CASE /\ client = Null /\ net' = Exchange("tim", "ncap", << >>)
           /\ UNCHANGED <<client, connected, pc>>
  <2>1. net'["ncap"] = q /\ net'["tim"] = Tail(t)
    <3>1. net'["ncap"] = q \o << >> /\ net'["tim"] = Tail(t)
      BY <1>3, <1>8, ExchangedIs DEF Nodes, q, t
    <3>2. q \o << >> = q
      BY <1>3, ConcatEmptySeq
    <3>3. QED
      BY <3>1, <3>2
  <2>2. Polite'
    BY <1>1, <1>6, <2>1, PoliteKept DEF PresenceInv, Polite, q, t
  <2>3. UNCHANGED <<client, pc, ncap, Taken, Phased, Coming, Finished>>
    <3>1. UNCHANGED <<Phased, Coming>>
      BY <1>1, <1>8, <2>1 DEF Phased, Coming, q
    <3>2. QED
      BY <1>1, <1>5, <1>8, <3>1 DEF Finished
  <2>4. ASSUME faults' = 0
        PROVE  (Ways(Phased, client.snd_nxt, Finished))'
    <3> DEFINE ph == Phased
               n == client.snd_nxt
               F == Finished
    <3>1. /\ Single(q) /\ Single(t) /\ SynLast(q)
          /\ Calm(ph, n, Taken, ToSet(q), ToSet(t), ncap.clones)
          /\ Counted(ph, n, F, Coming, ncap.clones) /\ Synced(ph, n, ToSet(q))
      BY <1>5, <2>4 DEF Ways, q, t
    <3>2. UNCHANGED <<ph, n, F>>
      BY <2>3
    <3> HIDE DEF ph, n, F
    <3>3. Calm(ph, n, Taken, ToSet(q), ToSet(Tail(t)), ncap.clones)
      BY <1>6, <3>1, CalmTaken
    <3>4. (Ways(ph, n, F))'
      BY <1>6, <2>1, <2>3, <3>1, <3>2, <3>3 DEF Ways
    <3>5. QED
      BY <3>4 DEF ph, n, F
  <2>5. CalmInv'
    BY <1>1, <1>5, <1>8, <2>4 DEF CalmInv
  <2>6. QED
    BY <1>4, <2>2, <2>5 DEF PresenceInv
<1>9. CASE /\ client # Null
           /\ client' = a.socket /\ net' = Exchange("tim", "ncap", r)
           /\ connected' = ((connected \/ "connected" \in o.calls) /\ "closed" \notin o.calls)
           /\ pc' = pc \/ pc' = Start(pc)
  <2>1. client \in TcpSockets
    BY <1>9, ClientIsTyped
  <2>2. m \in Datagrams(DataOf(log)) /\ ("syn" \in m.flags => "ack" \in m.flags)
    BY <1>6 DEF Under, Datagrams
  <2>3. HandledOK(client, m, o) /\ ConnectionOK(client, m, o)
    BY <2>1, <2>2, HandleOK, ConnectionHandled DEF Datagrams
  <2>4. /\ o.socket \in TcpSockets /\ o.socket.snd_nxt = client.snd_nxt
        /\ o.sent \in Seq(Acks(o.socket.snd_nxt)) /\ o.sent \in Seq(Controls)
        /\ "received" \in o.calls => m.data # Null
    BY <2>3 DEF HandledOK, ConnectionOK
  <2>5. Heard(o) => Reply(m.data) # Null
    <3>1. ASSUME Heard(o)
          PROVE  Reply(m.data) \in Messages
      <4> DEFINE d == m.data
      <4>1. d \in Messages
        BY <1>6, <2>4, <3>1, UnderSpoken DEF Heard
      <4> HIDE DEF d
      <4>2. d.transId \in 0..TransIds - 1 /\ d.teds \in MessageTeds
        BY <4>1 DEF Messages, MessageTeds
      <4>3. Reply(d) \in Messages
        BY <4>2, MessageTyped DEF Reply, Kinds
      <4>4. QED
        BY <4>3 DEF d
    <3>2. QED
      BY <3>1, MessageAssumption
  <2>6. /\ Uses(o.socket, a.socket)
        /\ \A x \in ToSet(r) : x.flags = {"ack"}
        /\ \E E : r \in Seq(Replies(E))
        /\ Clear(ToSet(r))
        /\ \/ a = o /\ Dataless(r)
           \/ Heard(o) /\ client'.snd_nxt = client.snd_nxt + 1 /\ DataSent(client.snd_nxt, r)
    <3>1. /\ Clear(ToSet(r))
          /\ \/ a = o /\ Dataless(o.sent)
             \/ Heard(o) /\ a.socket.snd_nxt = o.socket.snd_nxt + 1 /\ DataSent(o.socket.snd_nxt, r)
      <4> HIDE DEF o
      <4>1. QED
        BY <2>4, <2>5, AnswerAdvances
    <3>2. /\ Uses(o.socket, a.socket)
          /\ \A x \in ToSet(r) : x.flags = {"ack"}
          /\ \E E : r \in Seq(Replies(E))
      <4> HIDE DEF o
      <4>1. QED
        BY <2>4, AnswerNumbered, AnswerLater
    <3> HIDE DEF a, o
    <3>3. QED
      BY <1>9, <2>4, <3>1, <3>2
  <2>7. client' \in TcpSockets /\ client'.state = o.socket.state /\ client' # Null
    <3>1. client' \in TcpSockets /\ client'.state = o.socket.state
      BY <1>9, <2>6 DEF Uses, Later
    <3>2. QED
      BY <3>1, SocketIsNotNull
  <2>8. ASSUME faults' = 0
        PROVE  /\ TimOutcome(client, m, o)
               /\ "fin" \in m.flags => Phased = "leaving"
    <3>1. At(pc, client.state, connected)
      BY <1>3, <1>5, <1>9, <2>8, ThreadStates
    <3>2. client.state \in {"SYN_SENT", "ESTABLISHED", "FIN_WAIT1", "FIN_WAIT2", "CLOSE_WAIT",
                            "LAST_ACK", "CLOSED"}
      BY <3>1 DEF At
    <3>3. TimOutcome(client, m, o)
      BY <1>7, <2>1, <2>2, <3>2, TimHandles
    <3>4. "fin" \in m.flags => HasFin(ToSet(t))
      BY <1>6 DEF HasFin
    <3>5. "fin" \in m.flags => Phased = "leaving"
      BY <1>5, <2>8, <3>4 DEF Ways, Calm, t
    <3>6. QED
      BY <3>3, <3>5
  <2> HIDE DEF o, a
  <2>9. PICK E : r \in Seq(Replies(E))
    BY <2>6
  <2>10. net'["ncap"] = q \o r /\ net'["tim"] = Tail(t)
    <3>1. net' = Exchange("tim", "ncap", r)
      BY <1>9
    <3> HIDE DEF r
    <3>2. net'["ncap"] = net["ncap"] \o r /\ net'["tim"] = Tail(net["tim"])
      BY <1>3, <3>1, ExchangedIs DEF Nodes
    <3>3. QED
      BY <3>2 DEF q, t
  <2> HIDE DEF r
  <2>11. ToSet(q \o r) = ToSet(q) \cup ToSet(r)
    BY <1>3, <2>9, SentIsUnderWay
  <2>12. Polite'
    <3>1. \A x \in ToSet(r) : ToNcap(x)
      BY <2>6 DEF ToNcap, Marked
    <3>2. \A x \in ToSet(net'["ncap"]) : x \in ToSet(net["ncap"]) \/ ToNcap(x)
      BY <2>10, <2>11, <3>1 DEF q
    <3>3. \A x \in ToSet(net'["tim"]) : x \in ToSet(net["tim"])
      BY <1>6, <2>10 DEF t
    <3>4. QED
      BY <1>1, <3>2, <3>3, PoliteKept DEF PresenceInv, Polite
  <2>13. Coming' = Coming \o r
    BY <1>1, <2>9, <2>10, ComingMore DEF q
  <2>14. pc' = pc \/ (pc = "suspended" /\ pc' = "loop")
    BY <1>9 DEF Start
  <2>15. Finished' = Finished
    <3>1. ToSet(Coming') = ToSet(Coming) \cup ToSet(r)
      <4>1. Coming \in Seq(V)
        BY ComingIs
      <4> HIDE DEF V
      <4>2. QED
        BY <2>9, <2>13, <4>1, SentIsUnderWay
    <3>2. header' = header
      BY <1>1
    <3>3. Fins(pc', header, ToSet(Coming) \cup ToSet(r)) = Fins(pc, header, ToSet(Coming))
      BY <2>6, <2>14, FinsSent
    <3>4. QED
      BY <3>1, <3>2, <3>3 DEF Finished
  <2>16. ASSUME faults' = 0
         PROVE  /\ (Ways(Phased, client.snd_nxt, Finished))'
                /\ ThreadAt(pc', client', connected', pos, Streaming)
    <3> DEFINE ph == Phased
               pg == Phased'
               n == client.snd_nxt
               k == client'.snd_nxt
               C == ncap.clones
               F == Finished
    <3>1. /\ Single(q) /\ Single(t) /\ SynLast(q)
          /\ Calm(ph, n, Taken, ToSet(q), ToSet(t), C)
          /\ Counted(ph, n, F, Coming, C) /\ Synced(ph, n, ToSet(q))
          /\ ThreadAt(pc, client, connected, pos, Streaming)
      BY <1>5, <2>16 DEF Ways, q, t
    <3>2. /\ ThreadAt(pc', client', connected', pos, Streaming)
          /\ Passes(ph, pg, client, m, o)
      <4> DEFINE d == client'
                 b1 == connected'
                 p1 == pc'
      <4>1. /\ d # Null /\ d.state = o.socket.state
            /\ b1 = Hooked(connected, o)
            /\ p1 = pc \/ (pc = "suspended" /\ p1 = "loop")
        BY <1>9, <2>7, <2>14 DEF Hooked
      <4>2. /\ TimOutcome(client, m, o)
            /\ "fin" \in m.flags => Phase(client, pc, connected) = "leaving"
        BY <2>8, <2>16 DEF Phased
      <4> HIDE DEF d, b1, p1
      <4>3. /\ ThreadAt(p1, d, b1, pos, Streaming)
            /\ Passes(Phase(client, pc, connected), Phase(d, p1, b1), client, m, o)
        BY <1>3, <1>9, <3>1, <4>1, <4>2, ThreadAnswers
      <4>4. QED
        BY <4>3 DEF d, b1, p1, Phased
    <3>3. n \in Nat
      BY <2>1 DEF TcpSockets
    <3> HIDE DEF ph, pg, n, k, C, F
    <3>4. TimAnswer(ph, pg, n, k, m, r)
      <4>1. Clear(ToSet(r))
        BY <2>6
      <4>2. CASE a = o /\ Dataless(r)
        <5>1. r = o.sent /\ k = n /\ o.socket.snd_nxt = n
          BY <1>9, <2>4, <4>2 DEF r, k, n
        <5>2. QED
          BY <3>2, <4>1, <4>2, <5>1 DEF Passes, TimAnswer, n
      <4>3. CASE Heard(o) /\ k = n + 1 /\ DataSent(n, r)
        <5>1. "received" \in o.calls /\ connected
          BY <4>3 DEF Heard
        <5>2. pg = ph /\ ph \in {"open", "leaving"}
          BY <3>2, <5>1 DEF Passes
        <5>3. QED
          BY <4>1, <4>3, <5>2 DEF TimAnswer
      <4>4. QED
        BY <2>6, <4>2, <4>3 DEF n, k
    <3> DEFINE h == Taken
               Q == ToSet(q)
               T == ToSet(t)
               W == ToSet(Tail(t))
    <3>5. m \in T /\ W \in SUBSET T /\ (Marked(m) => Clear(W)) /\ Calm(ph, n, h, Q, T, C)
      BY <1>6, <3>1
    <3> HIDE DEF h, Q, T, W
    <3>6. /\ Calm(pg, k, h, Q \cup ToSet(r), W, C)
          /\ HasSyn(Q) => r = << >>
          /\ ph # pg /\ pg = "over" => ~HasFin(Q \cup h)
      BY <3>4, <3>5, CalmAnswers
    <3>7. F \in SUBSET Nat /\ (ph # pg /\ pg = "over" => F = {})
      <4>1. F \in SUBSET Nat /\ (~HasFin(ToSet(Coming)) /\ pc # "finishing" => F = {})
        BY FinsAre DEF F
      <4>2. ToSet(Coming) = Q \cup h
        BY ComingIs DEF Q, h, q
      <4>3. ph # pg /\ pg = "over" => ph = "leaving"
        BY <3>2 DEF Passes
      <4>4. ph = "leaving" => FinIsOut(pc)
        BY PhaseIs DEF ph, Phased
      <4>5. FinIsOut(pc) => pc # "finishing"
        BY DEF FinIsOut
      <4>6. QED
        BY <3>6, <4>1, <4>2, <4>3, <4>4, <4>5
    <3>8. Counted(pg, k, F, Coming \o r, C)
      <4>1. Coming \in Seq(V)
        BY ComingIs
      <4> HIDE DEF V
      <4>2. QED
        BY <2>9, <3>1, <3>3, <3>4, <3>7, <4>1, CountedAnswers
    <3>9. Single(q \o r) /\ SynLast(q \o r)
      BY <1>3, <2>6, <2>9, <3>1, <3>6, ClearSent DEF Q
    <3>10. Synced(pg, k, ToSet(q \o r))
      <4>1. CASE pg # "calling"
        BY <4>1 DEF Synced
      <4>2. CASE pg = "calling"
        <5>1. ph = "calling" /\ k = n /\ r = << >>
          BY <3>4, <4>2 DEF TimAnswer
        <5>2. ToSet(q \o r) = ToSet(q)
          BY <1>3, <5>1, ConcatEmptySeq
        <5>3. QED
          BY <3>1, <4>2, <5>1, <5>2
      <4>3. QED
        BY <4>1, <4>2
    <3>11. /\ Single(net'["ncap"]) /\ Single(net'["tim"]) /\ SynLast(net'["ncap"])
           /\ Calm(pg, k, Taken', ToSet(net'["ncap"]), ToSet(net'["tim"]), ncap'.clones)
           /\ Counted(pg, k, F, Coming', ncap'.clones)
           /\ Synced(pg, k, ToSet(net'["ncap"]))
      BY <1>1, <1>5, <1>6, <2>10, <2>11, <2>13, <3>1, <3>6, <3>8, <3>9, <3>10 DEF C, h, Q, W
    <3>12. (Ways(Phased, client.snd_nxt, Finished))'
      BY <2>15, <3>11 DEF Ways, pg, k, F
    <3>13. QED
      BY <3>2, <3>12
  <2>17. CalmInv'
    BY <1>1, <1>5, <2>16 DEF CalmInv
  <2>18. QED
    BY <1>4, <2>12, <2>17 DEF PresenceInv
<1>10. QED
  BY <1>2, <1>8, <1>9

(* The thread of the sensor acts and sends nothing: it stays in its phase, *)
(* or sets the state of a socket whose connection is over.                 *)
MayPass(ph, pg, n, k) == (pg = ph /\ k = n) \/ (ph = "over" /\ pg \in {"over", "leaving"})

LEMMA CountedPassed ==
  ASSUME NEW ph, NEW n, NEW F, NEW w, NEW C, Counted(ph, n, F, w, C),
         NEW pg, NEW k, MayPass(ph, pg, n, k),
         NEW G, G = F \/ (ph = "open" /\ G \subseteq F \cup {n})
  PROVE  Counted(pg, k, G, w, C)
<1>1. CASE ph = "over" /\ pg \in {"over", "leaving"}
  <2>1. F = {} /\ G = {}
    BY <1>1 DEF Counted
  <2>2. QED
    BY <1>1, <2>1 DEF Counted
<1>2. CASE pg = ph /\ k = n
  <2>1. \A f \in G : FinIsDue(f, n, w, C)
    BY DEF Counted, FinIsDue
  <2>2. ph \in {"over", "calling"} => G = {}
    BY DEF Counted
  <2>3. QED
    BY <1>2, <2>1, <2>2 DEF Counted
<1>3. QED
  BY <1>1, <1>2 DEF MayPass

LEMMA QuietPresence ==
  ASSUME PresenceInv, UNCHANGED <<net, ncap, turns, handled, faults, mode>>,
         ThreadAt(pc, client, connected, pos, Streaming) =>
           /\ ThreadAt(pc', client', connected', pos', Streaming)
           /\ MayPass(Phased, Phased', client.snd_nxt, client'.snd_nxt)
           /\ \/ Finished' = Finished
              \/ Phased = "open" /\ Finished' \subseteq Finished \cup {client.snd_nxt}
  PROVE  PresenceInv'
<1>1. Polite' /\ Told'
  BY DEF PresenceInv, Polite, Told
<1>2. UNCHANGED <<Taken, Streaming, Coming>>
  BY DEF Taken, Streaming, Coming
<1>3. ASSUME faults = 0
      PROVE  /\ Len(turns') <= 1 /\ ThreadAt(pc', client', connected', pos', Streaming)
             /\ (Ways(Phased, client.snd_nxt, Finished))'
  <2> DEFINE ph == Phased
             pg == Phased'
             n == client.snd_nxt
             k == client'.snd_nxt
             F == Finished
             G == Finished'
             Q == ToSet(net["ncap"])
             T == ToSet(net["tim"])
             C == ncap.clones
  <2>1. /\ Len(turns) <= 1 /\ ThreadAt(pc, client, connected, pos, Streaming)
        /\ Single(net["ncap"]) /\ Single(net["tim"]) /\ SynLast(net["ncap"])
        /\ Calm(ph, n, Taken, Q, T, C)
        /\ Counted(ph, n, F, Coming, C) /\ Synced(ph, n, Q)
    BY <1>3 DEF PresenceInv, CalmInv, Ways
  <2>2. /\ ThreadAt(pc', client', connected', pos', Streaming)
        /\ MayPass(ph, pg, n, k)
        /\ G = F \/ (ph = "open" /\ G \subseteq F \cup {n})
    BY <2>1
  <2> HIDE DEF ph, pg, n, k, F, G, Q, T, C
  <2>3. Calm(pg, k, Taken, Q, T, C)
    <3>1. CASE ph = "over" /\ pg \in {"over", "leaving"}
      BY <2>1, <3>1, CalmLate
    <3>2. CASE pg = ph /\ k = n
      BY <2>1, <3>2
    <3>3. QED
      BY <2>2, <3>1, <3>2 DEF MayPass
  <2>4. Counted(pg, k, G, Coming, C)
    BY <2>1, <2>2, CountedPassed
  <2>5. Synced(pg, k, Q)
    BY <2>1, <2>2 DEF MayPass, Synced
  <2>6. (Ways(Phased, client.snd_nxt, Finished))'
    BY <1>2, <2>1, <2>3, <2>4, <2>5 DEF Ways, pg, k, G, Q, T, C
  <2>7. QED
    BY <2>1, <2>2, <2>6
<1>4. CalmInv'
  BY <1>2, <1>3 DEF CalmInv
<1>5. QED
  BY <1>1, <1>4 DEF PresenceInv

(* It sends one segment: a SYN, the FIN it has made, or data.              *)
MaySend(ph, pg, n, k, m) ==
    \/ ph = "over" /\ pg = "calling" /\ m.flags = {"syn"} /\ m.seq + 1 = k
    \/ ph = "open" /\ pg = "leaving" /\ k = n /\ n \in Nat /\ m.flags = {"fin", "ack"}
    \/ ph = "open" /\ pg = "open" /\ ~Marked(m) /\ pc # "finishing"

(* Such a step keeps the invariant.                                        *)
LEMMA SendingPresence ==
  ASSUME DeliveryInv, PresenceInv, UNCHANGED <<ncap, turns, handled, faults, mode>>,
         NEW m, net' = Transmit("ncap", <<m>>), ToNcap(m),
         pc' # "finishing", "fin" \in m.flags => pc = "finishing" /\ m = header,
         ThreadAt(pc, client, connected, pos, Streaming) =>
           /\ ThreadAt(pc', client', connected', pos', Streaming)
           /\ MaySend(Phased, Phased', client.snd_nxt, client'.snd_nxt, m)
  PROVE  PresenceInv'
<1> DEFINE q == net["ncap"]
           r == <<m>>
           V == Under("ncap", got, log)
<1>1. /\ NetOK(net, got, log) /\ q \in Seq(V) /\ r \in Seq({m}) /\ Coming \in Seq(V)
      /\ ToSet(r) = {m} /\ Single(r) /\ SynLast(r) /\ DOMAIN r = {1} /\ r[1] = m
  BY ComingIs DEF DeliveryInv, NetOK, Nodes, ToSet, Single, SynLast
<1>2. net' = Transmit("ncap", r)
  OBVIOUS
<1> HIDE DEF q, r, V
<1>3. net'["ncap"] = q \o r /\ net'["tim"] = net["tim"]
  <2>1. NetOK(net, got, log) /\ "ncap" \in Nodes /\ "tim" \in Nodes \ {"ncap"}
    BY <1>1 DEF Nodes
  <2>2. net = [node \in Nodes |-> net[node]]
    BY <2>1 DEF NetOK
  <2>3. QED
    BY <1>2, <2>1, <2>2 DEF Transmit, q
<1>4. ToSet(q \o r) = ToSet(q) \cup {m}
  BY <1>1, SentIsUnderWay
<1>5. Coming' = Coming \o r
  BY <1>1, <1>3, ComingMore DEF q
<1>6. Finished' \in SUBSET Finished
  <2>1. ToSet(Coming') = ToSet(Coming) \cup {m}
    BY <1>1, <1>5, SentIsUnderWay
  <2>2. QED
    BY <2>1 DEF Finished, Fins
<1>7. Polite'
  <2>1. \A x \in ToSet(net'["ncap"]) : x \in ToSet(net["ncap"]) \/ ToNcap(x)
    BY <1>3, <1>4 DEF q
  <2>2. QED
    BY <1>3, <2>1, PoliteKept DEF PresenceInv, Polite
<1>8. UNCHANGED <<Taken, Streaming>> /\ Told'
  BY DEF Taken, Streaming, PresenceInv, Told
<1>9. ASSUME faults = 0
      PROVE  /\ Len(turns') <= 1 /\ ThreadAt(pc', client', connected', pos', Streaming)
             /\ (Ways(Phased, client.snd_nxt, Finished))'
  <2> DEFINE Q == ToSet(q)
             T == ToSet(net["tim"])
             C == ncap.clones
             h == Taken
             ph == Phased
             pg == Phased'
             n == client.snd_nxt
             k == client'.snd_nxt
             F == Finished
             G == Finished'
  <2>1. /\ Len(turns) <= 1 /\ ThreadAt(pc, client, connected, pos, Streaming)
        /\ Single(q) /\ Single(net["tim"]) /\ SynLast(q)
        /\ Calm(ph, n, h, Q, T, C)
        /\ Counted(ph, n, F, Coming, C) /\ Synced(ph, n, Q)
    BY <1>9 DEF PresenceInv, CalmInv, Ways, q
  <2>2. /\ ThreadAt(pc', client', connected', pos', Streaming)
        /\ MaySend(ph, pg, n, k, m)
        /\ G \in SUBSET F /\ F \in SUBSET Nat /\ (~HasFin(Q \cup h) /\ pc # "finishing" => F = {})
    BY <1>6, <2>1, ComingIs, FinsAre DEF q
  <2> HIDE DEF Q, T, C, h, ph, pg, n, k, F, G
  <2>3. /\ Calm(pg, k, h, Q \cup {m}, T, C) /\ ~HasSyn(Q) /\ (Marked(m) => Clear(Q))
        /\ Counted(pg, k, G, Coming \o r, C) /\ Synced(pg, k, Q \cup {m})
    <3>1. CASE ph = "over" /\ pg = "calling" /\ m.flags = {"syn"} /\ m.seq + 1 = k
      <4>1. Calm("calling", k, h, Q \cup {m}, T, C) /\ ~HasSyn(Q) /\ Clear(Q)
        BY <2>1, <3>1, CalmConnects
      <4>2. F = {} /\ G = {}
        BY <2>1, <2>2, <3>1 DEF Counted
      <4>3. Counted("calling", k, {}, Coming \o r, C)
        BY <1>1, <2>1, <3>1, CountedFree
      <4>4. Synced(pg, k, Q \cup {m})
        BY <3>1, <4>1 DEF Synced, HasSyn
      <4>5. QED
        BY <3>1, <4>1, <4>2, <4>3, <4>4
    <3>2. CASE ph = "open" /\ pg = "leaving" /\ k = n /\ n \in Nat /\ m.flags = {"fin", "ack"}
      <4>1. Calm("leaving", n, h, Q \cup {m}, T, C) /\ ~HasSyn(Q) /\ Clear(Q)
        BY <2>1, <3>2, CalmLeaves
      <4>2. Dataless(r)
        BY <1>1, <3>2 DEF Dataless, ToNcap, Marked
      <4>3. Counted(ph, n, F, Coming \o r, C)
        BY <1>1, <2>1, <2>2, <3>2, <4>2, CountedQuiet
      <4>4. ph # "calling" /\ pg # "calling" /\ pg # "over" /\ G \in SUBSET F
        BY <2>2, <3>2
      <4>5. Counted(pg, n, G, Coming \o r, C)
        BY <4>3, <4>4, CountedPhase
      <4>6. Synced(pg, k, Q \cup {m})
        BY <3>2 DEF Synced
      <4>7. QED
        BY <3>2, <4>1, <4>5, <4>6
    <3>3. CASE ph = "open" /\ pg = "open" /\ ~Marked(m) /\ pc # "finishing"
      <4>1. Calm("open", k, h, Q, T, C) /\ ~HasSyn(Q)
        BY <2>1, <3>3, CalmOpen
      <4>2. Clear({m}) /\ Clear({}) /\ T \cup {} = T
        BY <3>3 DEF Clear
      <4>3. Calm("open", k, h, Q \cup {m}, T, C)
        <5>1. Calm("open", k, h, Q \cup {m}, T \cup {}, C)
          BY <4>1, <4>2, CalmSent
        <5>2. QED
          BY <4>2, <5>1
      <4>4. ~HasFin(Q \cup h)
        BY <2>1, <3>3 DEF Calm, HasFin
      <4>5. F = {} /\ G = {}
        BY <2>2, <3>3, <4>4
      <4>6. Counted("open", k, {}, Coming \o r, C)
        BY <1>1, <2>1, <3>3, CountedFree
      <4>7. Synced(pg, k, Q \cup {m})
        BY <3>3 DEF Synced
      <4>8. QED
        BY <3>3, <4>1, <4>3, <4>5, <4>6, <4>7
    <3>4. QED
      BY <2>2, <3>1, <3>2, <3>3 DEF MaySend
  <2>4. Clear(Q) \/ Clear(ToSet(r))
    BY <1>1, <2>3 DEF Clear
  <2>5. Single(q \o r) /\ SynLast(q \o r)
    BY <1>1, <2>1, <2>3, <2>4, SingleSent, SynSentLast DEF Q
  <2>6. /\ Calm(pg, k, Taken', ToSet(net'["ncap"]), ToSet(net'["tim"]), ncap'.clones)
        /\ Counted(pg, k, G, Coming', ncap'.clones) /\ Synced(pg, k, ToSet(net'["ncap"]))
    BY <1>3, <1>4, <1>5, <1>8, <2>3 DEF Q, T, C, h
  <2>7. (Ways(Phased, client.snd_nxt, Finished))'
    BY <1>3, <2>1, <2>5, <2>6 DEF Ways, pg, k, G
  <2>8. QED
    BY <2>1, <2>2, <2>7
<1>10. CalmInv'
  BY <1>8, <1>9 DEF CalmInv
<1>11. QED
  BY <1>7, <1>8, <1>10 DEF PresenceInv

(* The TIM connects: what has been under way has come.                     *)
LEMMA DoConnectPresence ==
  ASSUME DeliveryInv, PresenceInv, NEW from, NEW to, DoConnect(from, to),
         \/ from = "start" /\ to = "connecting"
         \/ from = "collected" /\ to = "reconnecting" /\ Streams
  PROVE  PresenceInv'
<1> DEFINE n == Len(got) + 1
           o == Connect(Isn)
           s == o.socket
           m == Segment(Isn, 0, {"syn"}, Null)
<1>1. /\ Len(got) < Len(Isns) /\ pc = from /\ pc' = to /\ client' = s
      /\ net' = Transmit("ncap", o.sent)
      /\ UNCHANGED <<mode, connected, pos, ncap, turns, handled, faults>>
  BY DEF DoConnect, MoreIsns, loop
<1>2. Isn \in Nat
  <2>1. n \in DOMAIN Isns /\ \A k \in DOMAIN Isns : Isns[k] \in Nat
    BY <1>1, OneMoreDrawn, IsnsApart DEF DeliveryInv
  <2>2. QED
    BY <2>1 DEF Isn
<1>3. s \in TcpSockets /\ s.state = "SYN_SENT" /\ s.snd_nxt = Isn + 1 /\ o.sent = <<m>>
  BY <1>2, OutcomeFields DEF Connect, TcpSockets, States, Outcome
<1>4. m.flags = {"syn"} /\ m.data = Null /\ m.seq = Isn
  BY DEF Segment
<1> HIDE DEF o, s, m
<1>5. /\ client' # Null /\ client'.state = "SYN_SENT" /\ net' = Transmit("ncap", <<m>>)
      /\ m.seq + 1 = client'.snd_nxt
  BY <1>1, <1>3, <1>4, SocketIsNotNull
<1>6. /\ ToNcap(m) /\ InConnect(pc') /\ ~InConnect(pc) /\ pc' # "finishing" /\ "fin" \notin m.flags
  BY <1>1, <1>4 DEF ToNcap, InConnect
<1>7. ASSUME ThreadAt(pc, client, connected, pos, Streaming)
      PROVE  /\ ThreadAt(pc', client', connected', pos', Streaming)
             /\ MaySend(Phased, Phased', client.snd_nxt, client'.snd_nxt, m)
  <2>1. client = Null /\ pos = 0 /\ ~connected
    BY <1>1, <1>7 DEF ThreadAt, Streams, Full, Streaming, In
  <2>2. ThreadAt(pc', client', connected', pos', Streaming)
    BY <1>1, <1>5, <2>1 DEF ThreadAt, In, InConnect, FinIsOut
  <2>3. Over(client, pc, connected) /\ ~Over(client', pc', connected')
    BY <1>5, <1>6, <2>1 DEF Over, In
  <2>4. Phased = "over" /\ Phased' = "calling"
    BY <1>5, <1>6, <2>3, PhaseIs DEF Phased
  <2>5. QED
    BY <1>4, <1>5, <2>2, <2>4 DEF MaySend
<1>8. QED
  BY <1>1, <1>5, <1>6, <1>7, SendingPresence

(* The TIM makes its FIN, ...                                              *)
LEMMA DisconnectPresence ==
  ASSUME DeliveryInv, PresenceInv, Disconnect
  PROVE  PresenceInv'
<1>1. /\ UNCHANGED <<mode, pos, net, ncap, turns, handled, faults, client, connected>>
      /\ pc = "loop" /\ pc' = "finishing" /\ Streams /\ header' = Fin(client)
  BY DEF Disconnect, Go, loop
<1>2. Coming' = Coming /\ header'.seq = client.snd_nxt
  BY <1>1 DEF Coming, Fin, Segment
<1>3. Finished' \subseteq Finished \cup {client.snd_nxt}
  BY <1>1, <1>2 DEF Finished, Fins
<1>4. ASSUME ThreadAt(pc, client, connected, pos, Streaming)
      PROVE  /\ ThreadAt(pc', client', connected', pos', Streaming)
             /\ MayPass(Phased, Phased', client.snd_nxt, client'.snd_nxt) /\ Phased = "open"
  <2>1. In(client, {"ESTABLISHED"}) /\ Streaming /\ connected
    BY <1>1, <1>4 DEF ThreadAt, Streams, Full, Streaming, In, InConnect
  <2>2. ThreadAt(pc', client', connected', pos', Streaming)
    BY <1>1, <2>1 DEF ThreadAt, In, InConnect, FinIsOut
  <2>3. ~Over(client, pc, connected) /\ ~Over(client, pc', connected)
    BY <2>1 DEF Over, In
  <2>4. Phased = "open" /\ Phase(client, pc', connected) = "open"
    <3>1. ~InConnect(pc) /\ ~FinIsOut(pc) /\ ~InConnect(pc') /\ ~FinIsOut(pc')
      BY <1>1 DEF InConnect, FinIsOut
    <3>2. QED
      BY <2>3, <3>1, PhaseIs DEF Phased
  <2>5. Phased' = Phase(client, pc', connected)
    BY <1>1 DEF Phased
  <2>6. QED
    BY <1>1, <2>2, <2>4, <2>5 DEF MayPass
<1>5. QED
  BY <1>1, <1>3, <1>4, QuietPresence

(* ... and sends it: what has been under way has no mark.                  *)
LEMMA FinSentPresence ==
  ASSUME DeliveryInv, PresenceInv, FinSent
  PROVE  PresenceInv'
<1>1. /\ UNCHANGED <<mode, pos, ncap, turns, handled, faults, client, connected>>
      /\ pc = "finishing" /\ pc' = "finished" /\ net' = Transmit("ncap", <<header>>)
  BY DEF FinSent, loop
<1>2. client # Null /\ IsFin(header)
  <2>1. Holding /\ IsFin(header)
    BY <1>1 DEF Holding, InClose, DeliveryInv, SendingOK
  <2>2. QED
    BY <2>1, HeldIsNotNull
<1>3. client.snd_nxt \in Nat
  BY <1>2, ClientIsTyped DEF TcpSockets
<1>4. header.flags = {"fin", "ack"} /\ header.data = Null
  BY <1>2 DEF IsFin
<1>5. ToNcap(header)
  BY <1>4 DEF ToNcap
<1>6. ASSUME ThreadAt(pc, client, connected, pos, Streaming)
      PROVE  /\ ThreadAt(pc', client', connected', pos', Streaming)
             /\ MaySend(Phased, Phased', client.snd_nxt, client'.snd_nxt, header)
  <2>1. In(client, {"ESTABLISHED"}) /\ Streaming /\ connected
    BY <1>1, <1>6 DEF ThreadAt, In, InConnect
  <2>2. ThreadAt(pc', client', connected', pos', Streaming)
    BY <1>1, <2>1 DEF ThreadAt, In, InConnect, FinIsOut
  <2>3. ~Over(client, pc, connected) /\ ~Over(client, pc', connected)
    BY <2>1 DEF Over, In
  <2>4. Phased = "open" /\ Phase(client, pc', connected) = "leaving"
    <3>1. ~InConnect(pc) /\ ~FinIsOut(pc) /\ FinIsOut(pc')
      BY <1>1 DEF InConnect, FinIsOut
    <3>2. QED
      BY <2>3, <3>1, PhaseIs DEF Phased
  <2>5. Phased' = Phase(client, pc', connected)
    BY <1>1 DEF Phased
  <2>6. QED
    BY <1>1, <1>3, <1>4, <2>2, <2>4, <2>5 DEF MaySend
<1>7. QED
  BY <1>1, <1>5, <1>6, SendingPresence

(* Then it tests the state of the socket, ...                              *)
LEMMA CloseTestsPresence ==
  ASSUME DeliveryInv, PresenceInv, CloseTests
  PROVE  PresenceInv'
<1>1. /\ UNCHANGED <<mode, pos, net, ncap, turns, handled, faults>>
      /\ pc = "finished" /\ pc' = Tested(client.state)
      /\ client' = IF client.state = "SYN_SENT" THEN [client EXCEPT !.state = "CLOSED"] ELSE client
      /\ connected' = (connected /\ client.state # "SYN_SENT")
  BY DEF CloseTests, Go, loop
<1>2. Coming' = Coming /\ pc' # "finishing"
  BY <1>1 DEF Coming, Tested
<1>3. Finished' = Finished
  BY <1>1, <1>2 DEF Finished, Fins
<1>4. ASSUME ThreadAt(pc, client, connected, pos, Streaming)
      PROVE  /\ ThreadAt(pc', client', connected', pos', Streaming)
             /\ MayPass(Phased, Phased', client.snd_nxt, client'.snd_nxt)
  <2>1. In(client, {"ESTABLISHED", "CLOSE_WAIT", "CLOSED"}) /\ Streaming
    BY <1>1, <1>4 DEF ThreadAt, FinIsOut
  <2>2. client' = client /\ (connected' <=> connected) /\ pc' = Tested(client.state)
    BY <1>1, <2>1 DEF In
  <2>3. (connected <=> In(client, {"ESTABLISHED", "CLOSE_WAIT"})) /\ (In(client, {"CLOSED"}) => ~connected)
    BY <1>1, <1>4 DEF ThreadAt
  <2>4. \/ client.state = "ESTABLISHED" /\ pc' = "open"
        \/ client.state = "CLOSE_WAIT" /\ pc' = "halfOpen"
        \/ client.state = "CLOSED" /\ pc' = "disconnecting"
    BY <2>1, <2>2 DEF In, Tested
  <2>5. ThreadAt(pc', client', connected', pos', Streaming)
    <3>1. ThreadAt(pc', client, connected, pos, Streaming)
      BY <2>1, <2>3, <2>4 DEF ThreadAt, In, InConnect, FinIsOut
    <3>2. (connected' <=> connected) /\ pos' = pos /\ client' = client
      BY <1>1, <2>2
    <3>3. QED
      BY <3>1, <3>2 DEF ThreadAt
  <2>6. Phased' = Phased
    <3>1. /\ ~InConnect(pc) /\ FinIsOut(pc) /\ ~InConnect(pc') /\ FinIsOut(pc')
      BY <1>1, <2>4 DEF InConnect, FinIsOut
    <3>2. Over(client', pc', connected') <=> Over(client, pc, connected)
      BY <2>2, <3>1 DEF Over
    <3>3. QED
      BY <3>1, <3>2, PhaseIs DEF Phased
  <2>7. QED
    BY <2>2, <2>5, <2>6 DEF MayPass
<1>5. QED
  BY <1>1, <1>3, <1>4, QuietPresence

(* ... and sets it, over what a handler may have made of it.               *)
LEMMA CloseSetsPresence ==
  ASSUME DeliveryInv, PresenceInv, CloseSets
  PROVE  PresenceInv'
<1>1. PICK at \in {"open", "halfOpen"} :
        /\ UNCHANGED <<mode, pos, net, ncap, turns, handled, faults, connected>>
        /\ pc = at /\ pc' = "disconnecting"
        /\ client' = [client EXCEPT !.state = IF at = "open" THEN "FIN_WAIT1" ELSE "LAST_ACK"]
  BY DEF CloseSets, Go, loop
<1>2. Coming' = Coming
  BY <1>1 DEF Coming
<1>3. Finished' = Finished
  BY <1>1, <1>2 DEF Finished, Fins
<1>4. client # Null
  <2>1. Holding
    BY <1>1 DEF Holding, InClose
  <2>2. QED
    BY <2>1, HeldIsNotNull
<1>5. client \in TcpSockets
  BY <1>4, ClientIsTyped
<1>6. /\ client' \in TcpSockets /\ client'.snd_nxt = client.snd_nxt
      /\ client'.state = IF at = "open" THEN "FIN_WAIT1" ELSE "LAST_ACK"
  <2>1. {"FIN_WAIT1", "LAST_ACK"} \subseteq States
    BY DEF States
  <2>2. CASE at = "open"
    BY <1>1, <1>5, <2>1, <2>2, StateSet
  <2>3. CASE at = "halfOpen"
    BY <1>1, <1>5, <2>1, <2>3, StateSet
  <2>4. QED
    BY <2>2, <2>3
<1>7. client' # Null
  BY <1>6, SocketIsNotNull
<1>8. ASSUME ThreadAt(pc, client, connected, pos, Streaming)
      PROVE  /\ ThreadAt(pc', client', connected', pos', Streaming)
             /\ MayPass(Phased, Phased', client.snd_nxt, client'.snd_nxt)
  <2>1. Streaming /\ At(pc, client.state, connected) /\ pc \in {"open", "halfOpen"}
    <3>1. pc \in Places
      BY <1>1 DEF Places
    <3>2. QED
      BY <1>1, <1>4, <1>8, <3>1, ThreadStates DEF ThreadAt, FinIsOut
  <2>2. ThreadAt(pc', client', connected', pos', Streaming)
    <3>1. /\ pc' = "disconnecting" /\ client' # Null /\ client'.state \in {"FIN_WAIT1", "LAST_ACK"}
      BY <1>1, <1>6, <1>7
    <3>2. QED
      BY <2>1, <3>1, <1>1 DEF ThreadAt, In, InConnect, FinIsOut
  <2>3. ~InConnect(pc) /\ FinIsOut(pc) /\ ~InConnect(pc') /\ FinIsOut(pc')
    BY <1>1 DEF InConnect, FinIsOut
  <2>4. Over(client', pc', connected') <=> ~connected \/ at = "halfOpen"
    BY <1>1, <1>6, <1>7, <2>3 DEF Over, In
  <2>5. Over(client, pc, connected) <=> ~connected \/ client.state = "CLOSE_WAIT"
    BY <1>4, <2>1, <2>3 DEF Over, In, At
  <2>6. pc = "halfOpen" => Over(client, pc, connected)
    BY <2>1, <2>5 DEF At, InConnect, FinIsOut
  <2>7. \/ Phased = "over" /\ Phased' \in {"over", "leaving"}
        \/ Phased = "leaving" /\ Phased' = "leaving"
    <3>1. CASE Over(client, pc, connected)
      <4>1. Phased = "over"
        BY <3>1, PhaseIs DEF Phased
      <4>2. Phased' \in {"over", "leaving"}
        BY <2>3, PhaseIs DEF Phased
      <4>3. QED
        BY <4>1, <4>2
    <3>2. CASE ~Over(client, pc, connected)
      <4>1. ~Over(client', pc', connected')
        BY <1>1, <2>4, <2>5, <2>6, <3>2
      <4>2. QED
        BY <2>3, <3>2, <4>1, PhaseIs DEF Phased
    <3>3. QED
      BY <3>1, <3>2
  <2>8. QED
    BY <1>6, <2>2, <2>7 DEF MayPass
<1>9. QED
  BY <1>1, <1>3, <1>8, QuietPresence

(* The TIM sends a data set.                                               *)
LEMMA DataSetSentPresence ==
  ASSUME DeliveryInv, PresenceInv, DataSetSent
  PROVE  PresenceInv'
<1> DEFINE m == header
<1>1. /\ UNCHANGED <<mode, connected, pos, ncap, turns, handled, faults>>
      /\ pc = "sending" /\ pc' = "loop"
      /\ net' = Transmit("ncap", <<m>>)
      /\ \E from \in m.seq..client.snd_nxt : client' = Advance(client, from)
  BY DEF DataSetSent, loop
<1>2. PICK from \in m.seq..client.snd_nxt : client' = Advance(client, from)
  BY <1>1
<1>3. client # Null /\ Headed(m)
  BY <1>1, HeldIsNotNull DEF Holding, DeliveryInv, SendingOK
<1>4. client \in TcpSockets
  BY <1>3, ClientIsTyped
<1>5. from \in Nat /\ m.flags = {"ack"}
  BY <1>2, <1>3, <1>4 DEF Headed, TcpSockets
<1>6. client' \in TcpSockets /\ client'.state = client.state
  BY <1>2, <1>4, <1>5, AdvanceUses DEF Uses, Later
<1> HIDE DEF m
<1>7. client' # Null /\ ToNcap(m) /\ ~Marked(m) /\ "fin" \notin m.flags
  BY <1>5, <1>6, SocketIsNotNull DEF ToNcap, Marked
<1>8. ASSUME ThreadAt(pc, client, connected, pos, Streaming)
      PROVE  /\ ThreadAt(pc', client', connected', pos', Streaming)
             /\ MaySend(Phased, Phased', client.snd_nxt, client'.snd_nxt, m)
  <2>1. client.state = "ESTABLISHED" /\ pos = 0 /\ connected
    BY <1>1, <1>8 DEF ThreadAt, In
  <2>2. ThreadAt(pc', client', connected', pos', Streaming)
    BY <1>1, <1>6, <1>7, <2>1 DEF ThreadAt, In, InConnect, FinIsOut
  <2>3. /\ ~InConnect(pc) /\ ~FinIsOut(pc) /\ ~InConnect(pc') /\ ~FinIsOut(pc')
    BY <1>1 DEF InConnect, FinIsOut
  <2>4. ~Over(client, pc, connected) /\ ~Over(client', pc', connected')
    BY <1>1, <1>3, <1>6, <1>7, <2>1 DEF Over, In
  <2>5. Phased = "open" /\ Phased' = "open"
    BY <2>3, <2>4, PhaseIs DEF Phased
  <2>6. QED
    BY <1>1, <1>7, <2>2, <2>5 DEF MaySend
<1>9. QED
  BY <1>1, <1>7, <1>8, SendingPresence

(* Each step of the TIM's thread.                                          *)
LEMMA ThreadPresence ==
  ASSUME DeliveryInv, ReaderInv, PresenceInv, Thread
  PROVE  PresenceInv'
<1>1. ASSUME UNCHANGED <<net, turns, handled>>, pc # "finishing", pc' # "finishing"
      PROVE  Finished' = Finished
  <2>1. Coming' = Coming
    BY <1>1 DEF Coming
  <2>2. QED
    BY <1>1, <2>1 DEF Finished, Fins
<1>2. ASSUME Await("connecting", "connected") \/ Await("reconnecting", "reconnected")
      PROVE  PresenceInv'
  <2>1. /\ UNCHANGED <<net, ncap, turns, handled, faults, mode, client, connected, pos>>
        /\ connected
        /\ \/ pc = "connecting" /\ pc' = "connected"
           \/ pc = "reconnecting" /\ pc' = "reconnected"
    BY <1>2 DEF Await, Go, loop
  <2>2. ASSUME ThreadAt(pc, client, connected, pos, Streaming)
        PROVE  /\ ThreadAt(pc', client', connected', pos', Streaming)
               /\ MayPass(Phased, Phased', client.snd_nxt, client'.snd_nxt)
    <3>1. In(client, {"ESTABLISHED"}) /\ pos = 0
      BY <2>1, <2>2 DEF ThreadAt, In, InConnect
    <3>2. ThreadAt(pc', client', connected', pos', Streaming)
      BY <2>1, <3>1 DEF ThreadAt, In, InConnect, FinIsOut
    <3>3. ~Over(client, pc, connected) /\ ~Over(client', pc', connected')
      BY <2>1, <3>1 DEF Over, In
    <3>4. InConnect(pc) /\ ~InConnect(pc') /\ ~FinIsOut(pc')
      BY <2>1 DEF InConnect, FinIsOut
    <3>5. client.state = "ESTABLISHED"
      BY <3>1 DEF In
    <3>6. Phased = "open" /\ Phased' = "open"
      BY <3>3, <3>4, <3>5, PhaseIs DEF Phased
    <3>7. QED
      BY <2>1, <3>2, <3>6 DEF MayPass
  <2>3. Finished' = Finished
    BY <1>1, <2>1
  <2>4. QED
    BY <2>1, <2>2, <2>3, QuietPresence
<1>3. ASSUME Suspend \/ Collect \/ NotFull \/ SendDataSet
      PROVE  PresenceInv'
  <2>1. /\ UNCHANGED <<net, ncap, turns, handled, faults, mode, client, connected>>
        /\ \/ pc = "connected" /\ pc' = "suspended" /\ pos' = pos
           \/ pc = "collect" /\ pc' = "collected"
           \/ pc = "loop" /\ pc' = "collected" /\ ~Streams
           \/ pc = "collected" /\ pc' = "loop" /\ ~Full /\ pos' = pos
           \/ pc = "reconnected" /\ pc' = "sending" /\ pos' = pos
           \/ pc = "collected" /\ pc' = "sending" /\ Full /\ ~Streams /\ pos' = pos
    BY <1>3 DEF Suspend, Collect, NotFull, SendDataSet, Go, loop
  <2>2. mode.tim_im \in BOOLEAN /\ mode.polling \in BOOLEAN
    BY DEF DeliveryInv, ModeOK
  <2>3. ASSUME ThreadAt(pc, client, connected, pos, Streaming)
        PROVE  ThreadAt(pc', client', connected', pos', Streaming)
    BY <2>1, <2>2, <2>3 DEF ThreadAt, InConnect, FinIsOut, Streaming, Streams, Full
  <2>4. ~InConnect(pc) /\ ~InConnect(pc') /\ ~FinIsOut(pc) /\ ~FinIsOut(pc')
    BY <2>1 DEF InConnect, FinIsOut
  <2>5. Over(client', pc', connected') <=> Over(client, pc, connected)
    BY <2>1, <2>4 DEF Over
  <2>6. Phased' = Phased
    BY <2>4, <2>5, PhaseIs DEF Phased
  <2>7. MayPass(Phased, Phased', client.snd_nxt, client'.snd_nxt)
    BY <2>1, <2>6 DEF MayPass
  <2>8. Finished' = Finished
    BY <1>1, <2>1
  <2>9. QED
    BY <2>1, <2>3, <2>7, <2>8, QuietPresence
<1>4. ASSUME Disconnected
      PROVE  PresenceInv'
  <2>1. /\ UNCHANGED <<net, ncap, turns, handled, faults, mode, connected, pos>>
        /\ pc = "disconnecting" /\ pc' = "collect" /\ client' = Null /\ ~connected
    BY <1>4 DEF Disconnected, Go, loop
  <2>2. ASSUME ThreadAt(pc, client, connected, pos, Streaming)
        PROVE  /\ ThreadAt(pc', client', connected', pos', Streaming)
               /\ MayPass(Phased, Phased', client.snd_nxt, client'.snd_nxt)
    <3>1. Streaming /\ ~connected /\ client' = Null
      BY <2>1, <2>2 DEF ThreadAt, FinIsOut
    <3>2. ThreadAt(pc', client', connected', pos', Streaming)
      BY <2>1, <3>1 DEF ThreadAt, In, InConnect, FinIsOut
    <3>3. Over(client, pc, connected) /\ Over(client', pc', connected')
      BY <2>1 DEF Over, InConnect
    <3>4. Phased = "over" /\ Phased' = "over"
      BY <3>3, PhaseIs DEF Phased
    <3>5. QED
      BY <3>2, <3>4 DEF MayPass
  <2>3. Finished' = Finished
    BY <1>1, <2>1
  <2>4. QED
    BY <2>1, <2>2, <2>3, QuietPresence
<1>5. QED
  BY <1>2, <1>3, <1>4, DoConnectPresence, DisconnectPresence, FinSentPresence,
     CloseTestsPresence, CloseSetsPresence, DataSetSentPresence DEF Thread

-----------------------------------------------------------------------------
(* The steps of the NCAP                                                   *)

LEMMA NcapKeepsThread ==
  ASSUME PresenceInv, UNCHANGED <<tim, faults>>,
         faults = 0 => Len(turns') <= 1 /\ (Ways(Phased, client.snd_nxt, Finished))'
  PROVE  CalmInv'
<1>1. ThreadAt(pc, client, connected, pos, Streaming) =>
        ThreadAt(pc', client', connected', pos', Streaming')
  BY DEF tim, Streaming
<1>2. QED
  BY <1>1 DEF PresenceInv, CalmInv

(* It is in the same phase, and no FIN comes to those that there were.     *)
LEMMA NcapKeepsFins ==
  ASSUME UNCHANGED tim, ToSet(Coming') \subseteq ToSet(Coming)
  PROVE  UNCHANGED Phased /\ client'.snd_nxt = client.snd_nxt /\ Finished' \subseteq Finished
<1>1. UNCHANGED <<client, pc, connected, header>>
  BY DEF tim
<1>2. UNCHANGED Phased /\ client'.snd_nxt = client.snd_nxt
  BY <1>1 DEF Phased
<1>3. Finished' \subseteq Finished
  BY <1>1 DEF Finished, Fins
<1>4. QED
  BY <1>2, <1>3

(* The FIN that the NCAP takes is the last the TIM has sent, or the data   *)
(* that has its number follows.                                            *)
LEMMA FinFollowed ==
  ASSUME NEW ph, NEW n, NEW F, NEW w, NEW C, Counted(ph, n, F, w, C),
         NEW m, "fin" \in m.flags, m.seq \in F,
         NEW Q, \A j \in DOMAIN w : w[j] = m \/ w[j] \in Q,
         NEW i \in DOMAIN C, C[i].rcv_nxt = m.seq
  PROVE  Followed(m, n, Q)
<1>1. FinIsDue(m.seq, n, w, C)
  BY DEF Counted
<1>2. ~Missed(m.seq, w, C)
  BY DEF Missed
<1>3. CASE Ahead(m.seq, w)
  <2>1. PICK j \in DOMAIN w : DataAt(m.seq, w[j])
    BY <1>3 DEF Ahead
  <2>2. w[j] # m
    BY <2>1 DEF DataAt, Marked
  <2>3. QED
    BY <2>1, <2>2 DEF DataAt, Followed
<1>4. QED
  BY <1>1, <1>2, <1>3 DEF FinIsDue, Followed

(* It has its turn whether the TIM has a socket or not.                    *)
LEMMA CountedHandled ==
  ASSUME NEW ph, NEW n, ph = "over" \/ n \in Nat, NEW F \in SUBSET Nat,
         NEW U, NEW w \in Seq(U), NEW C,
         Counted(ph, n, F, w, C), w # << >>, Head(w).seq \in Nat, NEW D,
         \A i \in DOMAIN D : i \in DOMAIN C /\ Becomes(Head(w), C[i], D[i])
  PROVE  Counted(ph, n, F, Tail(w), D)
<1>1. CASE n \in Nat
  BY <1>1, CountedTaken
<1>2. CASE ph = "over"
  <2>1. 0 \in Nat /\ \A j, k : MayPass(ph, ph, j, k)
    BY <1>2 DEF MayPass
  <2>2. Counted(ph, 0, F, w, C)
    BY <2>1, CountedPassed
  <2>3. Counted(ph, 0, F, Tail(w), D)
    BY <2>1, <2>2, CountedTaken
  <2>4. QED
    BY <2>1, <2>3, CountedPassed
<1>3. QED
  BY <1>1, <1>2

LEMMA NumberIsNat ==
  ASSUME DeliveryInv
  PROVE  Phased = "over" \/ client.snd_nxt \in Nat
<1>1. CASE client = Null
  BY <1>1, PhaseIs DEF Over, Phased
<1>2. CASE client # Null
  BY <1>2, ClientIsTyped DEF TcpSockets
<1>3. QED
  BY <1>1, <1>2

(* A segment comes to the NCAP: its sockets will handle it.                *)
LEMMA NcapReceivePresence ==
  ASSUME DeliveryInv, PresenceInv, NcapReceive
  PROVE  PresenceInv'
<1> DEFINE C == ncap.clones
           D == ncap'.clones
           q == net["ncap"]
           t == net["tim"]
           m == Head(q)
           o == Accept(m, Isn)
           s == o.socket
           x == Segment(Isn, m.seq + 1, {"syn", "ack"}, Null)
           r == <<x>>
           Q == ToSet(q)
           R == ToSet(Tail(q))
           T == ToSet(t)
           U == Under("ncap", got, log)
           V == Under("tim", got, log)
           ph == Phased
           n == client.snd_nxt
           F == Finished
           G == Finished'
<1>1. /\ q # << >> /\ turns = << >>
      /\ \/ /\ Accepts(m)
            /\ ncap' = [ncap EXCEPT !.clones = Append(@, s)]
            /\ net' = Exchange("ncap", "tim", o.sent)
         \/ /\ ~Accepts(m)
            /\ net' = Exchange("ncap", "tim", << >>)
            /\ ncap' = ncap
      /\ handled' = m
      /\ turns' = [i \in DOMAIN D |-> D[i].snd_ini]
      /\ UNCHANGED <<tim, faults>>
  BY DEF NcapReceive
<1>2. /\ NetOK(net, got, log) /\ q \in Seq(U) /\ t \in Seq(V) /\ IsNcap(ncap)
  BY DEF DeliveryInv, NetOK, Nodes
<1>3. D \in Seq(TcpSockets)
  BY NcapReceiveKeeps DEF DeliveryInv, IsNcap
<1>4. /\ m \in Q /\ m \in U /\ Tail(q) \in Seq(U) /\ R \subseteq Q /\ <<m>> \o Tail(q) = q
      /\ Single(q) => Single(Tail(q)) /\ (Marked(m) => Clear(R)) /\ Q = R \cup {m}
      /\ Single(q) /\ SynLast(q) => SynLast(Tail(q)) /\ ("syn" \in m.flags => Tail(q) = << >>)
  <2>1. m \in Q /\ m \in U /\ R \subseteq Q
    BY <1>1, <1>2, FirstTaken
  <2>2. Single(q) => Single(Tail(q)) /\ (Marked(m) => Clear(R)) /\ Q = R \cup {m}
    BY <1>1, <1>2, SingleTaken
  <2>3. Single(q) /\ SynLast(q) => SynLast(Tail(q)) /\ ("syn" \in m.flags => Tail(q) = << >>)
    BY <1>1, <1>2, SingleTaken
  <2>4. <<m>> \o Tail(q) = q /\ Tail(q) \in Seq(U)
    BY <1>1, <1>2, HeadBack, HeadTailProperties
  <2>5. QED
    BY <2>1, <2>2, <2>3, <2>4
<1>5. ToNcap(m)
  BY <1>4 DEF PresenceInv, Polite
<1>6. /\ C \in Seq(TcpSockets) /\ DOMAIN C = 1..Len(C) /\ Len(C) \in Nat
      /\ \A i \in DOMAIN C : C[i].state \in {"SYN_RCVD", "ESTABLISHED", "LAST_ACK"}
  BY <1>2 DEF IsNcap, PresenceInv, Polite
<1>7. turns' = << >> <=> DOMAIN D = {}
  <2> HIDE DEF D
  <2>1. DOMAIN turns' = DOMAIN D /\ turns' = [i \in DOMAIN D |-> D[i].snd_ini]
    BY <1>1
  <2>2. DOMAIN << >> = {}
    OBVIOUS
  <2>3. ASSUME DOMAIN D = {} PROVE turns' = << >>
    BY <2>1, <2>3
  <2>4. QED
    BY <2>1, <2>2, <2>3
<1>8. Len(turns') = Len(D)
  <2> HIDE DEF D
  <2>1. DOMAIN D = 1..Len(D) /\ Len(D) \in Nat
    BY <1>3
  <2>2. turns' = [i \in 1..Len(D) |-> D[i].snd_ini]
    BY <1>1, <2>1
  <2>3. QED
    BY <2>1, <2>2
<1>9. ncap'.cache = ncap.cache
  BY <1>1, <1>2 DEF IsNcap, HasNcapFields
<1>10. /\ Taken = {} /\ Taken' = IF DOMAIN D = {} THEN {} ELSE {m}
       /\ Coming = q
  BY <1>1, <1>7 DEF Taken, Coming
<1>11. ASSUME faults = 0
       PROVE  /\ Single(q) /\ Single(t) /\ SynLast(q) /\ Len(C) <= 1
              /\ Calm(ph, n, {}, Q, T, C) /\ Counted(ph, n, F, q, C) /\ Synced(ph, n, Q)
  BY <1>10, <1>11 DEF PresenceInv, CalmInv, Ways, Calm
<1>12. net'["ncap"] = Tail(q)
  <2>1. net = [node \in Nodes |-> net[node]]
    BY <1>2 DEF NetOK
  <2>2. QED
    BY <1>1, <2>1 DEF Exchange, Nodes, q
<1>13. Coming' = IF DOMAIN D = {} THEN Tail(q) ELSE q
  <2>1. turns' = << >> => Coming' = Tail(q)
    BY <1>12 DEF Coming
  <2>2. turns' # << >> => Coming' = <<m>> \o Tail(q)
    BY <1>1, <1>12 DEF Coming
  <2>3. QED
    BY <1>4, <1>7, <2>1, <2>2
<1>14. UNCHANGED ph /\ client'.snd_nxt = n /\ G \subseteq F
  <2>1. ToSet(Coming') \subseteq ToSet(Coming)
    BY <1>4, <1>10, <1>13
  <2>2. QED
    BY <1>1, <2>1, NcapKeepsFins
<1> HIDE DEF C, D, q, t, m, o, Q, R, T, U, V, ph, n, F, G
<1>15. CASE Accepts(m) /\ ncap' = [ncap EXCEPT !.clones = Append(@, s)] /\ net' = Exchange("ncap", "tim", o.sent)
  <2>1. s.state = "SYN_RCVD" /\ s.rcv_nxt = m.seq + 1 /\ o.sent = r
    BY OutcomeFields DEF Accept, o
  <2>2. x.flags = {"syn", "ack"} /\ x.data = Null
    BY DEF Segment
  <2>3. D = Append(C, s)
    BY <1>2, <1>15 DEF IsNcap, HasNcapFields, C, D
  <2> HIDE DEF s, x
  <2>4. /\ Len(D) = Len(C) + 1 /\ DOMAIN D = 1..Len(C) + 1 /\ D[Len(C) + 1] = s
        /\ \A i \in DOMAIN C : i \in DOMAIN D /\ D[i] = C[i]
    BY <1>3, <1>6, <2>3
  <2>5. \A i \in DOMAIN D : i \in DOMAIN C \/ D[i] = s
    BY <1>6, <2>4
  <2>6. \A i \in DOMAIN D : D[i].state \in {"SYN_RCVD", "ESTABLISHED", "LAST_ACK"}
    BY <1>6, <2>1, <2>4, <2>5
  <2>7. Bonded(D) <=> Bonded(C)
    BY <2>1, <2>4, <2>5 DEF Bonded
  <2>8. r \in Seq({x}) /\ ToSet(r) = {x} /\ Single(r)
    BY DEF ToSet, Single
  <2> HIDE DEF r
  <2>9. net'["tim"] = t \o r
    <3>1. net = [node \in Nodes |-> net[node]]
      BY <1>2 DEF NetOK
    <3>2. QED
      BY <1>15, <2>1, <3>1 DEF Exchange, Nodes, t
  <2>10. ToSet(t \o r) = T \cup {x}
    BY <1>2, <2>8, SentIsUnderWay DEF T
  <2>11. Polite'
    <3>1. \A y \in ToSet(net'["tim"]) : y \in ToSet(net["tim"]) \/ ToTim(y)
      BY <2>2, <2>9, <2>10 DEF ToTim, ToNcap, T, t
    <3>2. \A y \in ToSet(net'["ncap"]) : y \in ToSet(net["ncap"])
      BY <1>4, <1>12 DEF q, Q, R
    <3>3. handled' \in ToSet(net["ncap"])
      BY <1>1, <1>4 DEF Q, q
    <3>4. QED
      BY <2>6, <3>1, <3>2, <3>3, PoliteKept DEF PresenceInv, D
  <2>12. Told'
    BY <1>1, <1>9, <2>7 DEF PresenceInv, Told, C, D
  <2>13. ASSUME faults = 0
         PROVE  Len(turns') <= 1 /\ (Ways(Phased, client.snd_nxt, Finished))'
    <3>1. "syn" \in m.flags /\ "fin" \notin m.flags
      BY <1>15 DEF Accepts
    <3>2. Tail(q) = << >> /\ R = {} /\ Q = {m}
      BY <1>4, <1>11, <2>13, <3>1 DEF R, ToSet
    <3>3. DOMAIN C = {}
      <4>1. HasSyn(Q)
        BY <3>1, <3>2 DEF HasSyn
      <4>2. Gone(Q \cup {}, C)
        BY <1>11, <2>13, <4>1 DEF Calm
      <4>3. QED
        BY <3>1, <3>2, <4>2 DEF Gone, Closing, Marked
    <3>4. Len(D) = 1 /\ DOMAIN D # {} /\ \A i \in DOMAIN D : D[i] = s
      BY <1>6, <2>1, <2>4, <2>5, <3>3
    <3>5. ph = "calling" /\ Clear(T) /\ Calm(ph, n, {m}, {}, T \cup {x}, D)
      <4>1. Calm(ph, n, {}, {m}, T, C)
        BY <1>11, <2>13, <3>2
      <4>2. Len(D) <= 1 /\ \A i \in DOMAIN D : D[i].state = "SYN_RCVD"
        BY <2>1, <3>4
      <4>3. QED
        BY <2>2, <3>1, <4>1, <4>2, CalmAccepts
    <3>6. Single(t \o r)
      BY <1>2, <1>11, <2>8, <2>13, <3>5, SingleSent DEF T
    <3>7. Single(Tail(q)) /\ SynLast(Tail(q))
      BY <1>4, <1>11, <2>13
    <3>8. Taken' = {m} /\ Coming' = q
      BY <1>10, <1>13, <3>4
    <3>9. Counted(ph, n, G, q, D)
      <4>1. Synced(ph, n, Q) /\ Counted(ph, n, F, q, C)
        BY <1>11, <2>13
      <4>2. s.rcv_nxt = n
        BY <2>1, <3>1, <3>2, <3>5, <4>1 DEF Synced
      <4>3. G = {}
        BY <1>14, <3>5, <4>1 DEF Counted
      <4>4. \A k \in DOMAIN q : q[k] \in Q
        BY DEF Q, ToSet
      <4>5. Dataless(q)
        BY <1>5, <3>1, <3>2, <4>4 DEF Dataless, ToNcap, Marked
      <4>6. QED
        BY <3>4, <3>5, <4>2, <4>3, <4>5 DEF Counted
    <3>10. Synced(ph, n, {})
      BY DEF Synced
    <3>11. /\ Single(net'["ncap"]) /\ Single(net'["tim"]) /\ SynLast(net'["ncap"])
           /\ Calm(ph, n, Taken', ToSet(net'["ncap"]), ToSet(net'["tim"]), ncap'.clones)
           /\ Counted(ph, n, G, Coming', ncap'.clones)
           /\ Synced(ph, n, ToSet(net'["ncap"]))
      BY <1>12, <2>9, <2>10, <3>2, <3>5, <3>6, <3>7, <3>8, <3>9, <3>10 DEF R, D
    <3>12. (Ways(Phased, client.snd_nxt, Finished))'
      BY <1>14, <3>11 DEF Ways, ph, n, G
    <3>13. QED
      BY <1>8, <3>4, <3>12
  <2>14. CalmInv'
    BY <1>1, <2>13, NcapKeepsThread
  <2>15. QED
    BY <2>11, <2>12, <2>14 DEF PresenceInv
<1>16. CASE ~Accepts(m) /\ ncap' = ncap /\ net' = Exchange("ncap", "tim", << >>)
  <2>1. D = C
    BY <1>16 DEF C, D
  <2>2. net'["tim"] = t
    <3>1. net = [node \in Nodes |-> net[node]]
      BY <1>2 DEF NetOK
    <3>2. net'["tim"] = t \o << >>
      BY <1>16, <3>1 DEF Exchange, Nodes, t
    <3>3. t \o << >> = t
      BY <1>2, ConcatEmptySeq
    <3>4. QED
      BY <3>2, <3>3
  <2>3. Polite'
    <3>1. \A y \in ToSet(net'["ncap"]) : y \in ToSet(net["ncap"])
      BY <1>4, <1>12 DEF q, Q, R
    <3>2. handled' \in ToSet(net["ncap"])
      BY <1>1, <1>4 DEF Q, q
    <3>3. net'["tim"] = net["tim"]
      BY <2>2 DEF t
    <3>4. QED
      BY <1>6, <2>1, <3>1, <3>2, <3>3, PoliteKept DEF PresenceInv, D
  <2>4. Told'
    BY <1>1, <1>9, <2>1 DEF PresenceInv, Told, C, D
  <2>5. ASSUME faults = 0
        PROVE  Len(turns') <= 1 /\ (Ways(Phased, client.snd_nxt, Finished))'
    <3> DEFINE h == IF DOMAIN D = {} THEN {} ELSE {m}
    <3>1. "syn" \notin m.flags
      <4>1. SUFFICES ASSUME "syn" \in m.flags PROVE FALSE
        OBVIOUS
      <4>2. "fin" \in m.flags
        BY <1>5, <1>16, <4>1 DEF Accepts, ToNcap
      <4>3. HasSyn(Q) /\ HasFin(Q)
        BY <1>4, <4>1, <4>2 DEF HasSyn, HasFin
      <4>4. ph = "calling" /\ ph = "leaving"
        BY <1>11, <2>5, <4>3 DEF Calm
      <4>5. QED
        BY <4>4
    <3>2. Q = R \cup {m} /\ (Marked(m) => Clear(R)) /\ Single(Tail(q)) /\ SynLast(Tail(q))
      BY <1>4, <1>11, <2>5
    <3>3. h = {m} \/ (h = {} /\ DOMAIN C = {})
      BY <2>1
    <3>4. Taken' = h
      BY <1>10
    <3> HIDE DEF h
    <3>5. Calm(ph, n, h, R, T, C)
      BY <1>11, <2>5, <3>1, <3>2, <3>3, CalmReceives
    <3>6. Counted(ph, n, G, Coming', C)
      <4>1. Counted(ph, n, G, q, C)
        BY <1>11, <1>14, <2>5 DEF Counted
      <4>2. CASE DOMAIN C # {}
        BY <1>13, <2>1, <4>1, <4>2
      <4>3. CASE DOMAIN C = {}
        <5>1. Coming' = Tail(q)
          BY <1>13, <2>1, <4>3
        <5>2. ph = "over" \/ n \in Nat
          BY NumberIsNat DEF ph, n
        <5>3. G \in SUBSET Nat
          BY <1>14, FinsAre DEF F
        <5>4. q # << >> /\ Head(q).seq \in Nat
          BY <1>1, <1>4 DEF Under, U, m, q
        <5>5. Counted(ph, n, G, Tail(q), C)
          BY <1>2, <4>1, <4>3, <5>2, <5>3, <5>4, CountedHandled
        <5>6. QED
          BY <5>1, <5>5
      <4>4. QED
        BY <4>2, <4>3
    <3>7. Synced(ph, n, R)
      BY <1>4, <1>11, <2>5 DEF Synced
    <3>8. /\ Single(net'["ncap"]) /\ Single(net'["tim"]) /\ SynLast(net'["ncap"])
          /\ Calm(ph, n, Taken', ToSet(net'["ncap"]), ToSet(net'["tim"]), ncap'.clones)
          /\ Counted(ph, n, G, Coming', ncap'.clones)
          /\ Synced(ph, n, ToSet(net'["ncap"]))
      BY <1>11, <1>12, <2>1, <2>2, <2>5, <3>2, <3>4, <3>5, <3>6, <3>7 DEF R, T, C, D
    <3>9. (Ways(Phased, client.snd_nxt, Finished))'
      BY <1>14, <3>8 DEF Ways, ph, n, G
    <3>10. QED
      BY <1>8, <1>11, <2>1, <2>5, <3>9
  <2>6. CalmInv'
    BY <1>1, <2>5, NcapKeepsThread
  <2>7. QED
    BY <2>3, <2>4, <2>6 DEF PresenceInv
<1>17. QED
  BY <1>1, <1>15, <1>16

(* A socket of the NCAP has its turn.                                      *)
LEMMA NcapTurn ==
  ASSUME DeliveryInv, ReaderInv, PresenceInv, NcapHandle
  PROVE  /\ turns # << >> /\ UNCHANGED <<tim, faults>>
         /\ turns' # << >> => handled' = handled
         /\ Len(turns) <= 1 => turns' = << >>
         /\ \E i, M, E :
              /\ i \in DOMAIN ncap.clones
              /\ TurnOutcome(handled, ncap.clones, i, ncap.cache, M)
              /\ ncap'.clones = M.clones /\ ncap'.cache = M.cache
              /\ M.out \in Seq(Replies(E)) /\ net' = Transmit("tim", M.out)
<1> DEFINE C == ncap.clones
           m == handled
           i == IndexOf(Head(turns))
           s == C[i]
           o == Handle(s, m)
           N == [ncap EXCEPT !.clones[i] = o.socket, !.out = o.sent]
           M == Called(N, i, m.data, o.calls)
           D == [C EXCEPT ![i] = o.socket]
<1>1. /\ turns # << >>
      /\ ncap' = [M EXCEPT !.out = << >>]
      /\ net' = Transmit("tim", M.out)
      /\ turns' = Tail(turns)
      /\ handled' = IF Len(turns) = 1 THEN Null ELSE m
      /\ UNCHANGED <<tim, faults>>
  BY DEF NcapHandle
<1>2. IsNcap(ncap) /\ ClonesOK(C, got) /\ TurnsOK(turns, m, C, got, log)
  BY DEF DeliveryInv
<1>3. m \in Under("ncap", got, log) /\ \E j \in DOMAIN C : C[j].snd_ini = Head(turns)
  BY <1>1, <1>2, TurnTaken
<1>4. C \in Seq(TcpSockets) /\ DOMAIN C = 1..Len(C) /\ Len(C) \in Nat
  BY <1>2 DEF IsNcap
<1>5. i \in 1..Len(C)
  BY <1>2, <1>3, IndexOfIs
<1>6. /\ s \in TcpSockets /\ s.state # "SYN_SENT"
      /\ s.state \in {"SYN_RCVD", "ESTABLISHED", "LAST_ACK"} /\ ToNcap(m)
  <2>1. ToNcap(m) /\ \A j \in DOMAIN C : C[j].state \in {"SYN_RCVD", "ESTABLISHED", "LAST_ACK"}
    BY <1>1 DEF PresenceInv, Polite
  <2>2. \A j \in DOMAIN C : C[j] \in TcpSockets /\ C[j].state # "SYN_SENT"
    BY <1>2, <1>4 DEF ClonesOK
  <2> HIDE DEF C, m, i
  <2>3. QED
    BY <1>4, <1>5, <2>1, <2>2
<1>7. HandledOK(s, m, o) /\ ConnectionOK(s, m, o) /\ NcapOutcome(s, m, o)
  <2>1. m \in Datagrams(DataOf(log))
    BY <1>3 DEF Under, Datagrams
  <2>2. HandledOK(s, m, o) /\ ConnectionOK(s, m, o)
    BY <1>6, <2>1, HandleOK, ConnectionHandled DEF Datagrams
  <2>3. NcapOutcome(s, m, o)
    BY <1>6, <2>1, NcapHandles
  <2>4. QED
    BY <2>2, <2>3
<1>8. "received" \in o.calls => m.data \in Messages
  BY <1>3, <1>7, UnderSpoken DEF HandledOK
<1>9. HasNcapFields(N) /\ N.clones = D /\ N.out = o.sent /\ N.cache = ncap.cache
      /\ N.nextId = ncap.nextId /\ N.retrievers = ncap.retrievers
  BY <1>2 DEF IsNcap, HasNcapFields
<1>10. /\ o.socket \in TcpSockets /\ o.sent \in Seq(Replies({Null}))
       /\ o.sent \in Seq(Acks(s.snd_nxt))
  BY <1>7 DEF HandledOK, ConnectionOK, Controls
<1> HIDE DEF i, o, N, m
<1>11. D \in Seq(TcpSockets) /\ Len(D) = Len(C)
  BY <1>4, <1>5, <1>10
<1> HIDE DEF D
<1>12. IsNcap(N) /\ IsReader(N) /\ i \in 1..Len(N.clones)
  BY <1>5, <1>9, <1>10, <1>11 DEF IsNcap, IsReader, ReaderInv
<1>13. Plain(N)
  <2>1. \A x \in ToSet(o.sent) : x \in Acks(s.snd_nxt)
    BY <1>10 DEF ToSet
  <2>2. QED
    BY <1>9, <2>1 DEF Plain, Acks
<1>14. \E E : M.out \in Seq(Replies(E))
  BY <1>12, CalledGoesOn
<1>15. HasNcapFields(M)
  <2>1. Leaves(N, M) => HasNcapFields(M)
    BY DEF Leaves, IsNcap
  <2>2. QED
    BY <1>12, <2>1, CalledKeeps
<1>16. TurnOutcome(m, C, i, N.cache, M)
  <2>1. M = Called(N, i, m.data, o.calls) /\ N.clones = [C EXCEPT ![i] = o.socket]
    BY <1>9 DEF D
  <2> HIDE DEF M, C
  <2>2. NcapOutcome(C[i], m, o)
    BY <1>7 DEF C
  <2>3. QED
    BY <1>4, <1>5, <1>8, <1>10, <1>12, <1>13, <2>1, <2>2, TurnMakes
<1> HIDE DEF M
<1>17. ncap'.clones = M.clones /\ ncap'.cache = M.cache
  BY <1>1, <1>15 DEF HasNcapFields
<1>18. /\ turns' # << >> => handled' = m
       /\ Len(turns) <= 1 => turns' = << >>
  <2> DEFINE r == Tail(turns)
  <2>1. r \in Seq(Nat) /\ Len(r) = Len(turns) - 1 /\ Len(turns) \in Nat /\ Len(turns) >= 1
    BY <1>1, <1>2, HeadTailProperties, LenProperties, EmptySeq DEF TurnsOK
  <2> HIDE DEF r
  <2>2. Len(turns) <= 1 => r = << >> /\ Len(turns) = 1
    BY <2>1, EmptySeq
  <2>3. turns' = r
    BY <1>1 DEF r
  <2>4. Len(turns) = 1 => r = << >>
    BY <2>1, <2>2
  <2>5. QED
    BY <1>1, <2>2, <2>3, <2>4
<1>19. i \in DOMAIN ncap.clones
  BY <1>4, <1>5
<1>20. TurnOutcome(handled, ncap.clones, i, ncap.cache, M)
  BY <1>9, <1>16 DEF m
<1>21. /\ turns # << >> /\ UNCHANGED <<tim, faults>>
       /\ turns' # << >> => handled' = handled
  BY <1>1, <1>18 DEF m
<1>22. QED
  BY <1>1, <1>14, <1>17, <1>18, <1>19, <1>20, <1>21

(* A turn leaves no socket in another state, ...                           *)
LEMMA TurnPolite ==
  ASSUME NEW C, NEW i \in DOMAIN C, NEW m, NEW A, NEW M, TurnOutcome(m, C, i, A, M),
         NEW S, {"ESTABLISHED", "LAST_ACK"} \subseteq S, \A j \in DOMAIN C : C[j].state \in S
  PROVE  \A j \in DOMAIN M.clones : M.clones[j].state \in S
<1> DEFINE D == M.clones
<1>1. CASE TurnStays(m, C, i, A, M)
  <2>1. DOMAIN D = DOMAIN C /\ \A j \in DOMAIN C : D[j].state = C[j].state
    BY <1>1 DEF TurnStays, Alike
  <2> HIDE DEF D
  <2>2. \A j \in DOMAIN D : D[j].state \in S
    BY <2>1
  <2>3. QED
    BY <2>2 DEF D
<1>2. ASSUME NEW x \in {"ESTABLISHED", "LAST_ACK"}, OnlyAt(i, x, C, D)
      PROVE  \A j \in DOMAIN D : D[j].state \in S
  BY <1>2 DEF OnlyAt
<1>3. CASE Fewer(C, D)
  BY <1>3 DEF Fewer
<1>4. QED
  BY <1>1, <1>2, <1>3 DEF TurnOutcome, TurnOpens, TurnEnds, TurnCloses

(* ... and what the subscribers have been told is so; calm, if there are   *)
(* no faults.                                                              *)
ToldOf(A, C, calm) ==
    A # << >> =>
        /\ A[1].connected => Bonded(C)
        /\ calm /\ Bonded(C) => A[1].connected

(* It is so after any turn.                                                *)
LEMMA TurnTold ==
  ASSUME NEW C, NEW i \in DOMAIN C, NEW m, NEW A, NEW M, TurnOutcome(m, C, i, A, M),
         Len(C) \in Nat, NEW calm, calm => Len(C) <= 1, ToldOf(A, C, calm)
  PROVE  ToldOf(M.cache, M.clones, calm)
<1> DEFINE D == M.clones
           B == M.cache
<1>1. CASE TurnStays(m, C, i, A, M)
  <2>1. B = A /\ DOMAIN D = DOMAIN C /\ \A j \in DOMAIN C : D[j].state = C[j].state
    BY <1>1 DEF TurnStays, Alike
  <2> HIDE DEF B, D
  <2>2. Bonded(D) <=> Bonded(C)
    BY <2>1 DEF Bonded
  <2>3. ToldOf(B, D, calm)
    BY <2>1, <2>2 DEF ToldOf
  <2>4. QED
    BY <2>3 DEF B, D
<1>2. CASE TurnOpens(m, C, i, A, M)
  <2>1. /\ DOMAIN D = DOMAIN C /\ D[i].state = "ESTABLISHED"
        /\ IsOpen(B) \/ (B = A /\ C[i].state = "ESTABLISHED")
    BY <1>2 DEF TurnOpens, OnlyAt
  <2> HIDE DEF B, D
  <2>2. Bonded(D) /\ (C[i].state = "ESTABLISHED" => Bonded(C))
    BY <2>1 DEF Bonded
  <2>3. ToldOf(B, D, calm)
    BY <2>1, <2>2 DEF ToldOf, IsOpen
  <2>4. QED
    BY <2>3 DEF B, D
<1>3. CASE TurnEnds(m, C, i, A, M)
  <2>1. /\ DOMAIN D = DOMAIN C /\ D[i].state = "LAST_ACK"
        /\ B = A /\ C[i].state = "ESTABLISHED"
    BY <1>3 DEF TurnEnds, OnlyAt
  <2> HIDE DEF B, D
  <2>2. Bonded(D) /\ Bonded(C)
    BY <2>1 DEF Bonded
  <2>3. ToldOf(B, D, calm)
    BY <2>1, <2>2 DEF ToldOf
  <2>4. QED
    BY <2>3 DEF B, D
<1>4. CASE TurnCloses(C, M)
  <2>1. /\ Len(D) = Len(C) - 1 /\ DOMAIN D = 1..Len(D) /\ IsClosed(B)
    BY <1>4 DEF TurnCloses, Fewer
  <2> HIDE DEF B, D
  <2>2. calm => DOMAIN D = {}
    BY <2>1
  <2>3. calm => ~Bonded(D)
    BY <2>2 DEF Bonded
  <2>4. ToldOf(B, D, calm)
    BY <2>1, <2>3 DEF ToldOf, IsClosed
  <2>5. QED
    BY <2>4 DEF B, D
<1>5. QED
  BY <1>1, <1>2, <1>3, <1>4 DEF TurnOutcome

(* Without faults there is one socket, and the segment is handled.         *)
LEMMA TurnBecomes ==
  ASSUME NEW C, Len(C) = 1, NEW i, DOMAIN C = {i}, NEW m, NEW A, NEW M,
         TurnOutcome(m, C, i, A, M)
  PROVE  \A j \in DOMAIN M.clones : j \in DOMAIN C /\ Becomes(m, C[j], M.clones[j])
<1> DEFINE D == M.clones
<1>1. CASE TurnStays(m, C, i, A, M)
  <2>1. Alike(C, D) /\ (Closing(m, C[i]) => C[i].state = "ESTABLISHED" /\ m.data = Null)
    BY <1>1 DEF TurnStays
  <2> HIDE DEF D
  <2>2. \A j \in DOMAIN D : j \in DOMAIN C /\ Becomes(m, C[j], D[j])
    BY <2>1 DEF Alike, Becomes
  <2>3. QED
    BY <2>2 DEF D
<1>2. CASE TurnOpens(m, C, i, A, M)
  <2>1. /\ OnlyAt(i, "ESTABLISHED", C, D)
        /\ \/ C[i].state = "SYN_RCVD" /\ D[i].rcv_nxt = C[i].rcv_nxt
           \/ D[i].rcv_nxt = m.seq + 1 /\ m.data # Null
    BY <1>2 DEF TurnOpens
  <2> HIDE DEF D
  <2>2. \A j \in DOMAIN D : j \in DOMAIN C /\ Becomes(m, C[j], D[j])
    BY <2>1 DEF OnlyAt, Becomes
  <2>3. QED
    BY <2>2 DEF D
<1>3. CASE TurnEnds(m, C, i, A, M)
  <2>1. OnlyAt(i, "LAST_ACK", C, D) /\ D[i].rcv_nxt = C[i].rcv_nxt /\ Marked(m)
    BY <1>3 DEF TurnEnds, Marked
  <2> HIDE DEF D
  <2>2. \A j \in DOMAIN D : j \in DOMAIN C /\ Becomes(m, C[j], D[j])
    BY <2>1 DEF OnlyAt, Becomes
  <2>3. QED
    BY <2>2 DEF D
<1>4. CASE TurnCloses(C, M)
  <2>1. Fewer(C, D)
    BY <1>4 DEF TurnCloses
  <2> HIDE DEF D
  <2>2. DOMAIN D = {}
    BY <2>1 DEF Fewer
  <2>3. QED
    BY <2>2 DEF D
<1>5. QED
  BY <1>1, <1>2, <1>3, <1>4 DEF TurnOutcome

LEMMA TurnCalm ==
  ASSUME NEW ph, NEW n, NEW m, NEW Q, NEW T, NEW C, Calm(ph, n, {m}, Q, T, C),
         Len(C) = 1, NEW i, DOMAIN C = {i}, NEW A, NEW M, TurnOutcome(m, C, i, A, M),
         "fin" \in m.flags /\ C[i].rcv_nxt = m.seq => Followed(m, n, Q)
  PROVE  /\ Calm(ph, n, {}, Q, T \cup ToSet(M.out), M.clones)
         /\ Clear(T) \/ Clear(ToSet(M.out))
<1> DEFINE D == M.clones
           R == ToSet(M.out)
<1>1. ~HasSyn(R) /\ Clear({}) /\ Q \cup {} = Q
  BY DEF Clear, HasSyn, TurnOutcome
<1>2. ASSUME Calm(ph, n, {}, Q, T, D), Plain(M)
      PROVE  Calm(ph, n, {}, Q, T \cup R, D) /\ Clear(R)
  <2>1. Clear(R)
    BY <1>2, PlainIs
  <2> HIDE DEF D, R
  <2>2. Calm(ph, n, {}, Q \cup {}, T \cup R, D)
    BY <1>1, <1>2, <2>1, CalmSent
  <2>3. QED
    BY <1>1, <2>1, <2>2
<1>3. CASE TurnStays(m, C, i, A, M)
  <2>1. /\ Alike(C, D) /\ Plain(M)
        /\ \A j \in DOMAIN C : C[j].state = "LAST_ACK" => ~Closing(m, C[j])
    BY <1>3 DEF TurnStays
  <2> HIDE DEF D
  <2>2. Calm(ph, n, {}, Q, T, C)
    BY <2>1, CalmHandled
  <2>3. Calm(ph, n, {}, Q, T, D)
    BY <2>1, <2>2, CalmAlike
  <2>4. QED
    BY <1>2, <2>1, <2>3 DEF D
<1>4. CASE TurnOpens(m, C, i, A, M)
  <2>1. OnlyAt(i, "ESTABLISHED", C, D) /\ Plain(M) /\ C[i].state # "LAST_ACK"
    BY <1>4 DEF TurnOpens
  <2> HIDE DEF D
  <2>2. Len(D) <= 1 /\ \A j \in DOMAIN D : D[j].state # "LAST_ACK"
    BY <2>1 DEF OnlyAt
  <2>3. i \in DOMAIN C
    OBVIOUS
  <2>4. Calm(ph, n, {}, Q, T, D)
    BY <2>1, <2>2, <2>3, CalmOpens
  <2>5. QED
    BY <1>2, <2>1, <2>4 DEF D
<1>5. CASE TurnEnds(m, C, i, A, M)
  <2>1. /\ OnlyAt(i, "LAST_ACK", C, D) /\ C[i].state # "LAST_ACK"
        /\ "fin" \in m.flags /\ D[i].rcv_nxt = m.seq /\ C[i].rcv_nxt = m.seq
    BY <1>5 DEF TurnEnds
  <2> HIDE DEF D, R
  <2>2. Len(D) <= 1 /\ \A j \in DOMAIN D : D[j].state = "LAST_ACK" /\ D[j].rcv_nxt = m.seq
    BY <2>1 DEF OnlyAt
  <2>3. i \in DOMAIN C
    OBVIOUS
  <2>4. Followed(m, n, Q)
    BY <2>1
  <2>5. Calm(ph, n, {}, Q, T \cup R, D) /\ Clear(T)
    BY <1>1, <2>1, <2>2, <2>3, <2>4, CalmEnds
  <2>6. QED
    BY <2>5 DEF D, R
<1>6. CASE TurnCloses(C, M)
  <2>1. Fewer(C, D) /\ Plain(M)
    BY <1>6 DEF TurnCloses
  <2> HIDE DEF D
  <2>2. Len(D) <= 1 /\ DOMAIN D = {}
    BY <2>1 DEF Fewer
  <2>3. Calm(ph, n, {}, Q, T, D)
    BY <2>2, CalmEmpty
  <2>4. QED
    BY <1>2, <2>1, <2>3 DEF D
<1>7. QED
  BY <1>3, <1>4, <1>5, <1>6 DEF TurnOutcome

(* The turn of a socket, with faults or without.                           *)
LEMMA NcapHandlePresence ==
  ASSUME DeliveryInv, ReaderInv, PresenceInv, NcapHandle
  PROVE  PresenceInv'
<1> DEFINE C == ncap.clones
           D == ncap'.clones
           A == ncap.cache
           t == net["tim"]
           q == net["ncap"]
           V == Under("tim", got, log)
<1>1. /\ turns # << >> /\ UNCHANGED <<tim, faults>>
      /\ turns' # << >> => handled' = handled
      /\ Len(turns) <= 1 => turns' = << >>
  BY NcapTurn
<1>2. PICK i, M, E :
        /\ i \in DOMAIN C
        /\ TurnOutcome(handled, C, i, A, M)
        /\ D = M.clones /\ ncap'.cache = M.cache
        /\ M.out \in Seq(Replies(E)) /\ net' = Transmit("tim", M.out)
  BY NcapTurn
<1> DEFINE r == M.out
           R == ToSet(r)
<1>3. /\ NetOK(net, got, log) /\ t \in Seq(V)
      /\ C \in Seq(TcpSockets) /\ DOMAIN C = 1..Len(C) /\ Len(C) \in Nat
  BY DEF DeliveryInv, NetOK, Nodes, IsNcap
<1>4. Single(r) /\ \A x \in R : ToTim(x)
  BY <1>2 DEF TurnOutcome
<1>5. net'["tim"] = t \o r /\ net'["ncap"] = q
  <2>1. net = [node \in Nodes |-> net[node]]
    BY <1>3 DEF NetOK
  <2> HIDE DEF r
  <2>2. net' = Transmit("tim", r)
    BY <1>2 DEF r
  <2>3. QED
    BY <2>1, <2>2 DEF Transmit, Nodes
<1>6. ToSet(t \o r) = ToSet(t) \cup R
  BY <1>2, <1>3, SentIsUnderWay
<1>7. PresenceInv
  OBVIOUS
<1> HIDE DEF C, D, A, t, q, V, r, R
<1>8. Polite'
  <2>1. \A j \in DOMAIN C : C[j].state \in {"SYN_RCVD", "ESTABLISHED", "LAST_ACK"}
    BY <1>7 DEF PresenceInv, Polite, C
  <2>2. \A j \in DOMAIN D : D[j].state \in {"SYN_RCVD", "ESTABLISHED", "LAST_ACK"}
    BY <1>2, <2>1, TurnPolite
  <2>3. \A x \in ToSet(net'["tim"]) : x \in ToSet(net["tim"]) \/ ToTim(x)
    BY <1>4, <1>5, <1>6 DEF t
  <2>4. net'["ncap"] = net["ncap"]
    BY <1>5 DEF q
  <2>5. QED
    BY <1>1, <1>7, <2>2, <2>3, <2>4, PoliteKept DEF PresenceInv, D
<1>9. Told'
  <2> DEFINE calm == faults = 0
  <2>1. calm => Len(C) <= 1
    BY <1>7 DEF PresenceInv, CalmInv, Ways, Calm, C
  <2>2. ToldOf(A, C, calm)
    BY <1>7 DEF PresenceInv, Told, ToldOf, A, C
  <2> HIDE DEF calm
  <2>3. ToldOf(M.cache, M.clones, calm)
    BY <1>2, <1>3, <2>1, <2>2, TurnTold
  <2>4. ToldOf(ncap'.cache, ncap'.clones, calm)
    BY <1>2, <2>3 DEF D
  <2>5. QED
    BY <1>1, <2>4 DEF Told, ToldOf, calm
<1>10. ASSUME faults = 0
       PROVE  Len(turns') <= 1 /\ (Ways(Phased, client.snd_nxt, Finished))'
  <2> DEFINE Q == ToSet(q)
             T == ToSet(t)
             w == Coming
             m == handled
             ph == Phased
             n == client.snd_nxt
             F == Finished
             G == Finished'
  <2>1. /\ Len(turns) <= 1 /\ Single(q) /\ Single(t) /\ SynLast(q)
        /\ Calm(ph, n, Taken, Q, T, C) /\ Counted(ph, n, F, w, C) /\ Synced(ph, n, Q)
    BY <1>7, <1>10 DEF PresenceInv, CalmInv, Ways, C, q, t
  <2>2. turns' = << >>
    BY <1>1, <2>1
  <2>3. Len(turns') <= 1
    BY <2>2
  <2>4. Taken = {m} /\ Taken' = {} /\ Coming' = q
    BY <1>1, <1>5, <2>2 DEF Taken, Coming
  <2>5. /\ w \in Seq(Under("ncap", got, log)) /\ w # << >> /\ Head(w) = m /\ Tail(w) = q
        /\ ToSet(w) = Q \cup {m} /\ m \in ToSet(w) /\ m.seq \in Nat
    <3>1. /\ w \in Seq(Under("ncap", got, log)) /\ w # << >> /\ Head(w) = m /\ Tail(w) = q
          /\ ToSet(w) = Q \cup Taken /\ \A y \in ToSet(w) : y.seq \in Nat
      BY <1>1, ComingIs DEF q
    <3>2. QED
      BY <2>4, <3>1
  <2>6. /\ UNCHANGED ph /\ client'.snd_nxt = n /\ G \subseteq F /\ F \in SUBSET Nat
        /\ "fin" \in m.flags => m.seq \in F
    <3>1. ToSet(Coming') \subseteq ToSet(Coming)
      BY <2>4, <2>5
    <3>2. "fin" \in m.flags => m.seq \in F
      BY <2>5 DEF Finished, Fins
    <3>3. F \in SUBSET Nat
      BY FinsAre
    <3>4. UNCHANGED ph /\ client'.snd_nxt = n /\ G \subseteq F
      BY <1>1, <3>1, NcapKeepsFins
    <3>5. QED
      BY <3>2, <3>3, <3>4
  <2>7. ph = "over" \/ n \in Nat
    BY NumberIsNat
  <2> HIDE DEF Q, T, w, m, ph, n, F, G
  <2>8. Calm(ph, n, {m}, Q, T, C)
    BY <2>1, <2>4
  <2>9. Len(C) = 1 /\ DOMAIN C = {i}
    BY <1>2, <1>3, <2>8 DEF Calm
  <2>10. TurnOutcome(m, C, i, A, M)
    BY <1>2 DEF m
  <2>11. \A j \in DOMAIN w : w[j] = m \/ w[j] \in Q
    BY <2>5 DEF ToSet
  <2>12. "fin" \in m.flags /\ C[i].rcv_nxt = m.seq => Followed(m, n, Q)
    BY <1>2, <2>1, <2>6, <2>11, FinFollowed
  <2>13. Calm(ph, n, {}, Q, T \cup ToSet(M.out), M.clones) /\ (Clear(T) \/ Clear(ToSet(M.out)))
    BY <2>8, <2>9, <2>10, <2>12, TurnCalm
  <2>14. Counted(ph, n, G, q, D)
    <3>1. \A j \in DOMAIN D : j \in DOMAIN C /\ Becomes(m, C[j], D[j])
      BY <1>2, <2>9, <2>10, TurnBecomes
    <3>2. \A j \in DOMAIN D : j \in DOMAIN C /\ Becomes(Head(w), C[j], D[j])
      BY <2>5, <3>1
    <3>3. Head(w).seq \in Nat
      BY <2>5
    <3>4. Counted(ph, n, F, Tail(w), D)
      BY <2>1, <2>5, <2>6, <2>7, <3>2, <3>3, CountedHandled
    <3>5. Counted(ph, n, F, q, D)
      BY <2>5, <3>4
    <3>6. QED
      BY <2>6, <3>5 DEF Counted
  <2>15. Single(t \o r)
    BY <1>2, <1>3, <1>4, <2>1, <2>13, SingleSent DEF r, T
  <2>16. /\ Single(net'["ncap"]) /\ Single(net'["tim"]) /\ SynLast(net'["ncap"])
         /\ Calm(ph, n, Taken', ToSet(net'["ncap"]), ToSet(net'["tim"]), ncap'.clones)
         /\ Counted(ph, n, G, Coming', ncap'.clones)
         /\ Synced(ph, n, ToSet(net'["ncap"]))
    BY <1>2, <1>5, <1>6, <2>1, <2>4, <2>13, <2>14, <2>15 DEF Q, T, R, r, D
  <2>17. (Ways(Phased, client.snd_nxt, Finished))'
    BY <2>6, <2>16 DEF Ways, ph, n, G
  <2>18. QED
    BY <2>3, <2>17
<1>11. CalmInv'
  BY <1>1, <1>7, <1>10, NcapKeepsThread
<1>12. QED
  BY <1>8, <1>9, <1>11 DEF PresenceInv

(* A request by SIP makes its header, and sends it.                        *)
LEMMA AskingPresence ==
  ASSUME DeliveryInv, ReaderInv, PresenceInv, Ask \/ AskSend
  PROVE  PresenceInv'
<1>1. CASE Ask
  <2>1. /\ UNCHANGED <<net, turns, handled, faults, tim>>
        /\ ncap' = [ncap EXCEPT !.nextId = (@ + 1) % TransIds]
    BY <1>1 DEF Ask, loop
  <2>2. ncap'.clones = ncap.clones /\ ncap'.cache = ncap.cache
    BY <2>1 DEF DeliveryInv, IsNcap, HasNcapFields
  <2>3. Polite' /\ Told'
    BY <2>1, <2>2 DEF PresenceInv, Polite, Told
  <2>4. faults = 0 => Len(turns') <= 1 /\ (Ways(Phased, client.snd_nxt, Finished))'
    <3>1. UNCHANGED <<Taken, Coming, Phased, client, pc, header>>
      BY <2>1 DEF Taken, Coming, Phased, tim
    <3>2. Finished' = Finished
      BY <3>1 DEF Finished
    <3>3. QED
      BY <2>1, <2>2, <3>1, <3>2 DEF PresenceInv, CalmInv, Ways
  <2>5. CalmInv'
    BY <2>1, <2>4, NcapKeepsThread
  <2>6. QED
    BY <2>3, <2>5 DEF PresenceInv
<1>2. CASE AskSend
  <2> DEFINE C == ncap.clones
             D == ncap'.clones
             i == IndexOf(asking.isn)
             m == asking.segment
             r == <<m>>
             t == net["tim"]
             q == net["ncap"]
             V == Under("tim", got, log)
  <2>1. /\ asking # Null
        /\ IF i = 0 THEN ncap' = ncap
           ELSE \E from \in m.seq..C[i].snd_nxt : ncap' = [ncap EXCEPT !.clones[i] = Advance(@, from)]
        /\ net' = Transmit("tim", r)
        /\ UNCHANGED <<tim, turns, handled, faults>>
    BY <1>2 DEF AskSend, loop
  <2>2. /\ IsNcap(ncap) /\ ClonesOK(C, got) /\ Headed(m)
        /\ NetOK(net, got, log) /\ t \in Seq(V)
    BY <2>1 DEF DeliveryInv, SendingOK, NetOK, Nodes
  <2>3. C \in Seq(TcpSockets) /\ DOMAIN C = 1..Len(C)
    BY <2>2 DEF IsNcap
  <2>4. i = 0 \/ i \in 1..Len(C)
    BY <2>2, IndexOfIs
  <2>5. /\ r \in Seq({m}) /\ ToSet(r) = {m} /\ Single(r)
        /\ m.flags = {"ack"} /\ m.seq \in Nat
    BY <2>2 DEF ToSet, Single, Headed
  <2>6. ToTim(m) /\ Clear({m}) /\ Clear({})
    BY <2>5 DEF ToTim, ToNcap, Clear, Marked
  <2> HIDE DEF i, m, r
  <2>7. Alike(C, D) /\ ncap'.cache = ncap.cache
    <3>1. CASE i = 0
      <4>1. D = C /\ ncap'.cache = ncap.cache
        BY <2>1, <3>1
      <4> HIDE DEF C, D
      <4>2. QED
        BY <4>1 DEF Alike
    <3>2. CASE i # 0
      <4>1. PICK from \in m.seq..C[i].snd_nxt : ncap' = [ncap EXCEPT !.clones[i] = Advance(@, from)]
        BY <2>1, <3>2
      <4>2. i \in DOMAIN C /\ C[i] \in TcpSockets
        BY <2>3, <2>4, <3>2
      <4>3. from \in Nat
        BY <2>5, <4>1, <4>2 DEF TcpSockets
      <4> DEFINE s == Advance(C[i], from)
      <4>4. s.state = C[i].state /\ s.rcv_nxt = C[i].rcv_nxt
        BY <4>2, <4>3, AdvanceUses DEF Uses, Later
      <4>5. ncap' = [ncap EXCEPT !.clones[i] = s]
        BY <4>1
      <4> HIDE DEF s
      <4>6. ncap'.clones = [C EXCEPT ![i] = s] /\ ncap'.cache = ncap.cache
        BY <2>2, <4>5 DEF IsNcap, HasNcapFields
      <4>7. DOMAIN D = DOMAIN C /\ Len(D) = Len(C) /\ D[i] = s /\ \A j \in DOMAIN C \ {i} : D[j] = C[j]
        BY <2>3, <4>2, <4>6
      <4> HIDE DEF C, D
      <4>8. Alike(C, D)
        BY <4>4, <4>7 DEF Alike
      <4>9. QED
        BY <4>6, <4>8
    <3>3. QED
      BY <3>1, <3>2
  <2>8. net'["tim"] = t \o r /\ net'["ncap"] = q
    <3>1. net = [node \in Nodes |-> net[node]]
      BY <2>2 DEF NetOK
    <3>2. QED
      BY <2>1, <3>1 DEF Transmit, Nodes
  <2>9. ToSet(t \o r) = ToSet(t) \cup {m}
    BY <2>2, <2>5, SentIsUnderWay
  <2>10. PresenceInv /\ UNCHANGED <<Taken, Coming, Phased, Finished>> /\ client' = client
    <3>1. UNCHANGED <<Taken, Coming, Phased, client, pc, header>>
      BY <2>1, <2>8 DEF Taken, Coming, Phased, tim, q
    <3>2. Finished' = Finished
      BY <3>1 DEF Finished
    <3>3. QED
      BY <3>1, <3>2
  <2> HIDE DEF C, D, t, q, V
  <2>11. /\ Bonded(D) <=> Bonded(C)
         /\ DOMAIN D = DOMAIN C /\ \A j \in DOMAIN C : D[j].state = C[j].state
    BY <2>7 DEF Alike, Bonded
  <2>12. Polite'
    <3>1. \A j \in DOMAIN D : D[j].state \in {"SYN_RCVD", "ESTABLISHED", "LAST_ACK"}
      BY <2>10, <2>11 DEF PresenceInv, Polite, C
    <3>2. \A x \in ToSet(net'["tim"]) : x \in ToSet(net["tim"]) \/ ToTim(x)
      BY <2>6, <2>8, <2>9 DEF t
    <3>3. net'["ncap"] = net["ncap"]
      BY <2>8 DEF q
    <3>4. QED
      BY <2>1, <2>10, <3>1, <3>2, <3>3, PoliteKept DEF PresenceInv, D
  <2>13. Told'
    BY <2>1, <2>7, <2>10, <2>11 DEF PresenceInv, Told, C, D
  <2>14. ASSUME faults = 0
         PROVE  Len(turns') <= 1 /\ (Ways(Phased, client.snd_nxt, Finished))'
    <3> DEFINE Q == ToSet(q)
               T == ToSet(t)
               h == Taken
               ph == Phased
               n == client.snd_nxt
               F == Finished
               w == Coming
    <3>1. /\ Len(turns) <= 1 /\ Single(q) /\ Single(t) /\ SynLast(q)
          /\ Calm(ph, n, h, Q, T, C) /\ Counted(ph, n, F, w, C) /\ Synced(ph, n, Q)
      BY <2>10, <2>14 DEF PresenceInv, CalmInv, Ways, C, q, t
    <3> HIDE DEF Q, T, h, ph, n, F, w
    <3>2. Calm(ph, n, h, Q, T, D)
      BY <2>7, <3>1, CalmAlike
    <3>3. Calm(ph, n, h, Q \cup {}, T \cup {m}, D)
      BY <2>6, <3>2, CalmSent
    <3>4. Q \cup {} = Q
      OBVIOUS
    <3>5. Counted(ph, n, F, w, D)
      <4>1. \A f : FinIsDue(f, n, w, C) => FinIsDue(f, n, w, D)
        BY <2>7 DEF FinIsDue, Missed, Alike
      <4>2. \A j \in DOMAIN C : AckFirst(w, C[j]) => AckFirst(w, D[j])
        BY <2>7 DEF AckFirst, Closing, Alike
      <4>3. QED
        BY <2>7, <3>1, <4>1, <4>2 DEF Counted, Alike
    <3>6. Single(t \o r)
      BY <2>2, <2>5, <2>6, <3>1, SingleSent
    <3>7. /\ Single(net'["ncap"]) /\ Single(net'["tim"]) /\ SynLast(net'["ncap"])
          /\ Calm(ph, n, Taken', ToSet(net'["ncap"]), ToSet(net'["tim"]), ncap'.clones)
          /\ Counted(ph, n, F, Coming', ncap'.clones)
          /\ Synced(ph, n, ToSet(net'["ncap"]))
      BY <2>8, <2>9, <2>10, <3>1, <3>3, <3>4, <3>5, <3>6 DEF Q, T, h, w, D
    <3>8. (Ways(Phased, client.snd_nxt, Finished))'
      BY <2>10, <3>7 DEF Ways, ph, n, F
    <3>9. QED
      BY <2>1, <3>1, <3>8
  <2>15. CalmInv'
    BY <2>1, <2>10, <2>14, NcapKeepsThread
  <2>16. QED
    BY <2>12, <2>13, <2>15 DEF PresenceInv
<1>3. QED
  BY <1>1, <1>2

(* A fault: there is no calm any more.                                     *)
LEMMA FaultPresence ==
  ASSUME DeliveryInv, PresenceInv, faults \in Nat, Fault
  PROVE  PresenceInv'
<1>1. /\ UNCHANGED <<ncap, turns, handled>> /\ faults' = faults + 1
      /\ \/ UNCHANGED net
         \/ \E node \in Nodes : Lose(node) \/ Duplicate(node) \/ Delay(node)
  BY DEF Fault, Restart, loop
<1>2. faults' # 0
  BY <1>1
<1>3. CalmInv' /\ Told'
  BY <1>1, <1>2 DEF PresenceInv, CalmInv, Told
<1>4. \A node \in Nodes : ToSet(net'[node]) \subseteq ToSet(net[node])
  <2>1. CASE UNCHANGED net
    BY <2>1
  <2>2. CASE \E node \in Nodes : Lose(node) \/ Duplicate(node) \/ Delay(node)
    BY <2>2, NetworkFault
  <2>3. QED
    BY <1>1, <2>1, <2>2
<1>5. /\ ToSet(net'["tim"]) \subseteq ToSet(net["tim"])
      /\ ToSet(net'["ncap"]) \subseteq ToSet(net["ncap"])
  BY <1>4 DEF Nodes
<1>6. Polite'
  BY <1>1, <1>5, PoliteKept DEF PresenceInv, Polite
<1>7. QED
  BY <1>3, <1>6 DEF PresenceInv

-----------------------------------------------------------------------------
(* The theorem                                                             *)

(* At the start there is no socket.                                        *)
LEMMA PresenceInit == Init => PresenceInv
<1>1. SUFFICES ASSUME Init PROVE PresenceInv
  OBVIOUS
<1>2. /\ client = Null /\ pc = "start" /\ connected = FALSE /\ pos = 0
      /\ turns = << >> /\ ncap.clones = << >> /\ ncap.cache = << >>
      /\ net["ncap"] = << >> /\ net["tim"] = << >>
  BY <1>1 DEF Init, Nodes
<1>3. ToSet(<< >>) = {} /\ DOMAIN << >> = {} /\ Len(<< >>) = 0
  BY DEF ToSet
<1>4. Polite /\ Told
  BY <1>2, <1>3 DEF Polite, Told
<1>5. ThreadAt(pc, client, connected, pos, Streaming)
  BY <1>2 DEF ThreadAt, In, InConnect, FinIsOut
<1>6. Ways(Phased, client.snd_nxt, Finished)
  <2> DEFINE n == client.snd_nxt
  <2>1. Phased = "over"
    BY <1>2, PhaseIs DEF Phased, Over
  <2>2. Taken = {} /\ Coming = << >> /\ Finished = {}
    BY <1>2, <1>3 DEF Taken, Coming, Finished, Fins
  <2> HIDE DEF n
  <2>3. Calm("over", n, {}, {}, {}, << >>)
    BY <1>3 DEF Calm, Clear, HasSyn, HasFin, Gone
  <2>4. Counted("over", n, {}, << >>, << >>) /\ Synced("over", n, {})
    BY <1>3 DEF Counted, Synced
  <2>5. Ways("over", n, {})
    BY <1>2, <1>3, <2>2, <2>3, <2>4 DEF Ways, Single, SynLast
  <2>6. QED
    BY <2>1, <2>2, <2>5 DEF n
<1>7. QED
  BY <1>2, <1>3, <1>4, <1>5, <1>6 DEF PresenceInv, CalmInv

(* Every step keeps what the subscribers are told.                         *)
LEMMA PresenceNext ==
    DeliveryInv /\ ReaderInv /\ faults \in Nat /\ PresenceInv /\ [Next]_vars => PresenceInv'
<1>1. SUFFICES ASSUME DeliveryInv, ReaderInv, faults \in Nat, PresenceInv, [Next]_vars
               PROVE  PresenceInv'
  OBVIOUS
<1>2. CASE UNCHANGED vars
  <2>1. UNCHANGED <<net, ncap, turns, handled, faults, mode, pc, client, connected, pos, header>>
    BY <1>2 DEF vars, tim, loop
  <2>2. UNCHANGED <<Taken, Coming, Streaming, Phased>>
    BY <2>1 DEF Taken, Coming, Streaming, Phased
  <2>3. Finished' = Finished
    BY <2>1, <2>2 DEF Finished
  <2>4. Polite' /\ Told'
    BY <1>1, <2>1 DEF PresenceInv, Polite, Told
  <2>5. CalmInv'
    BY <1>1, <2>1, <2>2, <2>3 DEF PresenceInv, CalmInv, Ways
  <2>6. QED
    BY <2>4, <2>5 DEF PresenceInv
<1>3. QED
  BY <1>1, <1>2, TimReceivePresence, NcapReceivePresence, NcapHandlePresence, AskingPresence,
     ThreadPresence, FaultPresence DEF Next

(* The faults are counted.                                                 *)
LEMMA FaultsCounted == Spec => [](faults \in Nat)
<1>1. Init => faults \in Nat
  BY DEF Init
<1>2. faults \in Nat /\ [Next]_vars => (faults \in Nat)'
  <2>1. SUFFICES ASSUME faults \in Nat, [Next]_vars PROVE faults' \in {faults, faults + 1}
    OBVIOUS
  <2>2. CASE UNCHANGED vars
    BY <2>2 DEF vars
  <2>3. CASE Next
    BY <2>3 DEF Next, TimReceive, NcapReceive, NcapHandle, Ask, AskSend, Thread, DoConnect, Await,
       Go, Suspend, Disconnect, FinSent, CloseTests, CloseSets, Disconnected, Collect, NotFull,
       SendDataSet, DataSetSent, Fault
  <2>4. QED
    BY <2>1, <2>2, <2>3
<1>3. QED
  BY <1>1, <1>2, PTL DEF Spec

(* The invariant: no RST, no data with a FIN, one connection at a time     *)
(* while there are no faults, and the cache as the callbacks have set it.  *)
THEOREM PresenceInvHolds == Spec => []PresenceInv
BY PresenceInit, PresenceNext, DeliveryInvHolds, ReaderInvHolds, FaultsCounted, PTL DEF Spec

(* What the NCAP tells the subscribers of a TIM it knows: open only while  *)
(* it has a connection, whatever faults there are, and without faults      *)
(* whenever it has one.                                                    *)
THEOREM PresenceIsTrueHolds == Spec => []PresenceIsTrue
<1>1. PresenceInv => PresenceIsTrue
  <2>1. Bonded(ncap.clones) <=>
          {s \in ToSet(ncap.clones) : s.state \in {"ESTABLISHED", "LAST_ACK"}} # {}
    BY DEF Bonded, ToSet
  <2>2. QED
    BY <2>1 DEF PresenceInv, Told, PresenceIsTrue
<1>2. QED
  BY <1>1, PresenceInvHolds, PTL

=============================================================================
