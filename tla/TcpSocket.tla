----------------------------- MODULE TcpSocket -----------------------------
(* A TCP socket of EPOS (include/ip/tcp.h, src/abstraction/tcp.cc) as a    *)
(* value, and what its operations and the handler of each state make of    *)
(* it.  An Outcome is the socket afterwards, the segments it has sent, in  *)
(* order, and the callbacks it has made: connected(), received(),          *)
(* closing() and closed(), which the owner of the socket implements.       *)
(*                                                                         *)
(* A message stands for the bytes of one send() and takes one sequence     *)
(* number; it fits the window.  snd_una, snd_wnd and rcv_una decide        *)
(* nothing and are left out.  The timeout never fires (set_timeout() is    *)
(* empty): no segment is sent twice.                                       *)
EXTENDS Integers, Sequences

CONSTANT Null

States == {"SYN_SENT", "SYN_RCVD", "ESTABLISHED", "FIN_WAIT1", "FIN_WAIT2",
           "CLOSE_WAIT", "CLOSING", "LAST_ACK", "CLOSED"}
Flags  == {"syn", "ack", "fin", "rst"}
Calls  == {"connected", "received", "closing", "closed"}

Segment(seq, ack, flags, data) == [seq |-> seq, ack |-> ack, flags |-> flags, data |-> data]
Length(m) == IF m.data = Null THEN 0 ELSE 1

(* What the handlers send: nothing but sequence numbers and flags.         *)
Ack(s) == Segment(s.snd_nxt, s.rcv_nxt, {"ack"}, Null)
Fin(s) == Segment(s.snd_nxt, s.rcv_nxt, {"fin", "ack"}, Null)

Outcome(s, sent, calls) == [socket |-> s, sent |-> sent, calls |-> calls]
Ignored(s)              == Outcome(s, << >>, {})
Closed(s, sent)         == Outcome([s EXCEPT !.state = "CLOSED"], sent, {"closed"})

-----------------------------------------------------------------------------
(* The operations of the owner                                             *)

(* ClientSocket(): rcv_nxt is not written before the answer comes.         *)
Connect(isn) ==
    Outcome([state |-> "SYN_SENT", snd_ini |-> isn, snd_nxt |-> isn + 1,
             rcv_ini |-> 0, rcv_nxt |-> 0],
            <<Segment(isn, 0, {"syn"}, Null)>>, {})

(* The listening socket answers every SYN with a socket of its own.        *)
Accepts(m) == "syn" \in m.flags /\ m.flags \cap {"rst", "fin"} = {}

Accept(m, isn) ==
    Outcome([state |-> "SYN_RCVD", snd_ini |-> isn, snd_nxt |-> isn + 1,
             rcv_ini |-> m.seq, rcv_nxt |-> m.seq + 1],
            <<Segment(isn, m.seq + 1, {"syn", "ack"}, Null)>>, {})

(* send() makes its header and then advances snd_nxt, with no lock and in  *)
(* any state.  from is the value that += has read.                         *)
DataHeader(s) == Segment(s.snd_nxt, s.rcv_nxt - 1, {"ack"}, Null)
Advance(s, from) == [s EXCEPT !.snd_nxt = from + 1]

Send(s, data) ==
    Outcome(Advance(s, s.snd_nxt), <<[DataHeader(s) EXCEPT !.data = data]>>, {})

Close(s) ==
    CASE s.state = "ESTABLISHED" -> Outcome([s EXCEPT !.state = "FIN_WAIT1"], <<Fin(s)>>, {})
      [] s.state = "CLOSE_WAIT"  -> Outcome([s EXCEPT !.state = "LAST_ACK"], <<Fin(s)>>, {})
      [] s.state = "SYN_SENT"    -> Closed(s, <<Fin(s)>>)
      [] OTHER                   -> Outcome(s, <<Fin(s)>>, {})

-----------------------------------------------------------------------------
(* The handlers: what each state makes of a segment m                      *)

(* A fault: a segment that came before is taken again.                     *)
ExpectedOrOld(s, m) == m.seq <= s.rcv_nxt

Expected(s, m) == m.seq = s.rcv_nxt
Resets(m)      == m.flags \cap {"rst", "fin"} # {}

(* Faults: any old acknowledgement will do; an off-by-one.                 *)
AcksAnything(s, m)     == m.ack <= s.snd_nxt
AcksSynStrictly(s, m)  == s.snd_ini < m.ack /\ m.ack < s.snd_nxt

AcksSyn(s, m)  == s.snd_ini < m.ack /\ m.ack <= s.snd_nxt

SynSent(s, m) ==
    LET heard == [s EXCEPT !.rcv_nxt = m.seq + 1]
        established == [heard EXCEPT !.state = "ESTABLISHED", !.rcv_ini = m.seq]
    IN CASE Resets(m) \/ ("ack" \in m.flags /\ ~AcksSyn(s, m)) -> Closed(s, << >>)
         [] ~Resets(m) /\ {"ack", "syn"} \subseteq m.flags /\ AcksSyn(s, m) ->
              Outcome(established, <<Ack(established)>>, {"connected"})
         [] ~Resets(m) /\ "ack" \notin m.flags /\ "syn" \in m.flags ->
              Outcome([heard EXCEPT !.state = "SYN_RCVD", !.snd_ini = m.seq], << >>, {})
         [] OTHER -> Ignored(s)

SynRcvd(s, m) ==
    CASE Resets(m) -> Closed(s, << >>)
      [] ~Resets(m) /\ "ack" \in m.flags ->
           Outcome([s EXCEPT !.state = "ESTABLISHED"], << >>, {"connected"})
      [] OTHER -> Ignored(s)

(* A fault: the data is not counted.                                       *)
EstablishedUncounted(s, m) ==
    CASE "rst" \in m.flags -> Closed(s, << >>)
      [] "rst" \notin m.flags /\ "fin" \in m.flags ->
           Outcome([s EXCEPT !.state = "CLOSE_WAIT"], <<Ack(s)>>, {"closing"})
      [] OTHER -> Outcome(s, << >>, IF m.data = Null THEN {} ELSE {"received"})

(* The data goes up once; then the FIN, if there is one.                   *)
Established(s, m) ==
    LET taken == [s EXCEPT !.rcv_nxt = @ + Length(m)]
        fin   == "fin" \in m.flags
    IN IF "rst" \in m.flags THEN Closed(s, << >>)
       ELSE Outcome(IF fin THEN [taken EXCEPT !.state = "CLOSE_WAIT"] ELSE taken,
                    (IF m.data = Null THEN << >> ELSE <<Ack(s)>>)
                        \o (IF fin THEN <<Ack(taken)>> ELSE << >>),
                    (IF m.data = Null THEN {} ELSE {"received"})
                        \cup (IF fin THEN {"closing"} ELSE {}))

(* Data is counted here and not given to the owner.                        *)
FinWait1(s, m) ==
    LET waiting == [s EXCEPT !.state = "FIN_WAIT2", !.rcv_nxt = m.seq + Length(m)]
    IN CASE "ack" \in m.flags /\ "fin" \notin m.flags -> Outcome(waiting, <<Ack(waiting)>>, {})
         [] "ack" \in m.flags /\ "fin" \in m.flags    -> Closed(s, <<Ack(s)>>)
         [] "ack" \notin m.flags /\ "fin" \in m.flags ->
              Outcome([s EXCEPT !.state = "CLOSING"], <<Ack(s)>>, {})
         [] OTHER -> Ignored(s)

(* ... and here it is not even counted.                                    *)
FinWait2(s, m) == IF "fin" \in m.flags THEN Closed(s, <<Ack(s)>>) ELSE Ignored(s)

CloseWait(s, m) ==
    IF "rst" \in m.flags \/ m.data # Null THEN Closed(s, << >>) ELSE Ignored(s)

LastAck(s, m) == IF "ack" \in m.flags THEN Closed(s, << >>) ELSE Ignored(s)

(* The handler of the socket's state.  All but SYN_SENT ignore a segment   *)
(* that is not the next one.  EPOS sends no RST and enters no TIME_WAIT.   *)
Handle(s, m) ==
    CASE s.state = "SYN_SENT" -> SynSent(s, m)
      [] s.state = "CLOSED" \/ (s.state # "SYN_SENT" /\ ~Expected(s, m)) -> Ignored(s)
      [] s.state = "SYN_RCVD"    /\ Expected(s, m) -> SynRcvd(s, m)
      [] s.state = "ESTABLISHED" /\ Expected(s, m) -> Established(s, m)
      [] s.state = "FIN_WAIT1"   /\ Expected(s, m) -> FinWait1(s, m)
      [] s.state = "FIN_WAIT2"   /\ Expected(s, m) -> FinWait2(s, m)
      [] s.state = "CLOSE_WAIT"  /\ Expected(s, m) -> CloseWait(s, m)
      [] s.state \in {"CLOSING", "LAST_ACK"} /\ Expected(s, m) -> LastAck(s, m)

=============================================================================
