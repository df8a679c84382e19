----------------------------- MODULE Ieee1451 ------------------------------
(* An IEEE 1451 network of EPOS: a transducer module (TIM, ieee1451_tim.cc *)
(* and ieee1451_tim_temperature_sensor.cc) that connects to its network    *)
(* node (NCAP, ieee1451_ncap.cc and ieee1451_ncap_application.cc) over the *)
(* sockets of TcpSocket.                                                   *)
(*                                                                         *)
(* In each node one thread, IP's, makes all calls of the sockets' handlers:*)
(* a segment is handled in one action per socket.  The TIM's execute()     *)
(* runs in another thread, and so do the requests that reach the NCAP by   *)
(* SIP: the send() of these is two steps and the sensor's close() is four, *)
(* between which handlers run.                                             *)
EXTENDS TcpSocket, FiniteSets, SequencesExt

CONSTANTS
    Teds,         \* the <<channel, TEDS>> a retriever reads, in order
    TransIds,     \* the transaction numbers: 2^16
    DataSetSize,  \* DATASET_SIZE
    Modes,        \* the pairs of tim_im and polling a sensor is constructed with
    Isns,         \* the initial sequence numbers, as they are drawn
    MaxDrawn,     \* how many are drawn, after which no connect() comes
    MaxSent,      \* messages of a TIM connection, before the sensor stops
    MaxAsked,     \* requests that reach the NCAP by SIP
    MaxFaults     \* segments lost, duplicated or delayed, and TIM restarts

Sockets == [state : States, snd_ini : Nat, snd_nxt : Nat, rcv_ini : Nat, rcv_nxt : Nat]

(* Random initial numbers are assumed to differ; a null pointer is no      *)
(* socket.                                                                 *)
ASSUME IeeeAssumption ==
    /\ Null \notin Sockets
    /\ Teds \in Seq(Nat \X Nat) /\ Teds # << >>
    /\ {TransIds, DataSetSize} \subseteq Nat \ {0} /\ TransIds > 1
    /\ Isns \in Seq(Nat) /\ IsInjective(Isns)
    /\ Modes \subseteq [tim_im : BOOLEAN, polling : BOOLEAN]
    /\ {MaxDrawn, MaxSent, MaxAsked, MaxFaults} \subseteq Nat

VARIABLES
    mode,       \* tim_im, the sensor sends its full data sets; polling, it stays connected
    pc,         \* where the sensor's thread is
    connected,  \* IEEE1451dot5_TIM::connected
    client,     \* IEEE1451dot5_TIM::socket
    pos,        \* IEEE1451TemperatureSensor::pos
    header,     \* the header of the data set, or the FIN, that is being sent
    ncap,       \* the NCAP: sockets, retrievers, cache, idGenerator
    handled,    \* the segment that the NCAP's sockets are handling, ...
    turns,      \* ... and those that still have to, by snd_ini
    asking,     \* the read-data-set command that a SIP thread is sending
    net,        \* the segments under way, by their receiver
    asked,      \* how many requests have come by SIP
    faults,     \* how many faults there have been
    log,        \* history: the data segments sent
    got         \* history: for each initial number, what the socket's received() got

tim  == <<mode, pc, connected, client, pos, header>>
loop == <<handled, turns>>
vars == <<tim, ncap, loop, asking, net, asked, faults, log, got>>

Nodes == {"tim", "ncap"}

-----------------------------------------------------------------------------
(* Messages: IEEE1451_Packet with a Command or a reply                     *)

Message(id, kind, teds) == [transId |-> id, kind |-> kind, teds |-> teds]

Unasked == 0

Kinds == {"readTeds", "readSet", "operate", "teds", "set"}
Messages == [transId : 0..TransIds - 1, kind : Kinds, teds : ToSet(Teds) \cup {Null}]

(* A segment without data holds no message.                                *)
ASSUME MessageAssumption == Null \notin Messages

(* The initial sequence numbers: one more is drawn.                        *)
MoreIsns    == Len(got) < Len(Isns)
Isn         == Isns[Len(got) + 1]
Drawn(isn)  == CHOOSE n \in DOMAIN Isns : Isns[n] = isn

-----------------------------------------------------------------------------
(* The network and the histories                                           *)

Transmit(to, segments) == [net EXCEPT ![to] = @ \o segments]

Exchange(at, to, segments) == [net EXCEPT ![at] = Tail(@), ![to] = @ \o segments]

Logged(segments) ==
    log \cup {[seq |-> m.seq, data |-> m.data] : m \in {n \in ToSet(segments) : n.data # Null}}

Given(s, m) ==
    IF "received" \in Handle(s, m).calls
    THEN [got EXCEPT ![Drawn(s.snd_ini)] = Append(@, [seq |-> m.seq, data |-> m.data])]
    ELSE got

-----------------------------------------------------------------------------
(* The NCAP.  ncap.out holds the segments an action has sent so far.       *)

(* dot5 sendMessage(): getSocket() takes the first socket of the address,  *)
(* whatever its state; without one the message is dropped.                 *)
SendMessage(N, msg) ==
    IF N.clones = << >> THEN N
    ELSE LET o == Send(N.clones[1], msg)
         IN [N EXCEPT !.clones[1] = o.socket, !.out = @ \o o.sent]

(* dot0 sendCommand(): the counter is truncated to 16 bits.                *)
SendCommand(N, kind, teds) ==
    [SendMessage(N, Message(N.nextId, kind, teds)) EXCEPT !.nextId = (@ + 1) % TransIds]

(* TEDSRetriever::execute(), but for the end of the retrieval.             *)
Execute(N, i) ==
    [SendCommand(N, "readTeds", Teds[N.retrievers[i].step])
        EXCEPT !.retrievers[i].lastTransId = N.nextId]

Operate(N) == [SendCommand(N, "operate", Null) EXCEPT !.cache[1].connected = TRUE]

ReportTimConnected(N) ==
    IF N.cache # << >> THEN Operate(N)
    ELSE LET started == [N EXCEPT !.retrievers =
                            Append(@, [step |-> 1, lastTransId |-> 0, teds |-> << >>])]
         IN Execute(started, Len(started.retrievers))

(* A fault: the subscribers are told, and the cache is not.                *)
ReportNothing(N) == N

ReportTimDisconnected(N) ==
    IF N.cache = << >> THEN N ELSE [N EXCEPT !.cache[1].connected = FALSE]

UpdateTIMCompleted(N, i) ==
    ReportTimConnected(
        [N EXCEPT !.cache = Append(@, [connected |-> FALSE, teds |-> N.retrievers[i].teds]),
                  !.retrievers = RemoveAt(@, i)])

(* A fault: an off-by-one ends the retrieval before the last TEDS.         *)
ProcessShort(N, i, msg) ==
    LET read == [N EXCEPT !.retrievers[i].teds = Append(@, msg.teds),
                          !.retrievers[i].step = @ + 1]
    IN IF read.retrievers[i].step < Len(Teds) THEN Execute(read, i)
       ELSE UpdateTIMCompleted(read, i)

(* TEDSRetriever::process()                                                *)
Process(N, i, msg) ==
    LET read == [N EXCEPT !.retrievers[i].teds = Append(@, msg.teds),
                          !.retrievers[i].step = @ + 1]
    IN IF read.retrievers[i].step <= Len(Teds) THEN Execute(read, i)
       ELSE UpdateTIMCompleted(read, i)

(* getRetriever()                                                          *)
Awaits(r, msg) == r.lastTransId = msg.transId

(* A message with transaction 0 comes from the TIM unasked; a reply that   *)
(* no retriever awaits is taken for a data set, and read.                  *)
ReceiveReply(N, msg) ==
    LET i == SelectInSeq(N.retrievers, LAMBDA r : Awaits(r, msg))
    IN IF msg.transId = Unasked \/ i = 0 THEN N ELSE Process(N, i, msg)

IndexOf(isn) == SelectInSeq(ncap.clones, LAMBDA s : s.snd_ini = isn)

(* TCP::notify() goes through the sockets in the order they were made, the *)
(* listening one first.  A new one takes part, and ignores its own SYN.    *)
NcapReceive ==
    /\ net["ncap"] # << >> /\ turns = << >>
    /\ \E m \in {Head(net["ncap"])} : \E o \in {Accept(m, Isn)} :
          \/ /\ Accepts(m) /\ MoreIsns
             /\ ncap' = [ncap EXCEPT !.clones = Append(@, o.socket)]
             /\ net' = Exchange("ncap", "tim", o.sent)
             /\ got' = Append(got, << >>)
          \/ /\ ~Accepts(m)
             /\ net' = Exchange("ncap", "tim", << >>)
             /\ UNCHANGED <<ncap, got>>
    /\ handled' = Head(net["ncap"])
    /\ turns' = [i \in DOMAIN ncap'.clones |-> ncap'.clones[i].snd_ini]
    /\ UNCHANGED <<tim, asking, asked, faults, log>>

(* The callbacks of MyServerSocket, after the i-th socket has changed.     *)
(* EPOS sends no data with a FIN, so one segment makes one of them.        *)
Called(N, i, data, calls) ==
    CASE "connected" \in calls -> ReportTimConnected(N)
      [] "received" \in calls  -> ReceiveReply(N, data)
      [] "closing" \in calls   ->
           [N EXCEPT !.clones[i] = Close(@).socket, !.out = @ \o Close(N.clones[i]).sent]
      [] "closed" \in calls    -> [ReportTimDisconnected(N) EXCEPT !.clones = RemoveAt(@, i)]
      [] OTHER                 -> N

(* A turn of the loop: update() of one socket.  That a socket deletes      *)
(* itself in closed() does not end the loop: the pointer to the next one   *)
(* is read from the deleted object, which nothing has overwritten yet.     *)
NcapHandle ==
    /\ turns # << >>
    /\ \E i \in {IndexOf(Head(turns))} : \E o \in {Handle(ncap.clones[i], handled)} :
       \E N \in {[ncap EXCEPT !.clones[i] = o.socket, !.out = o.sent]} :
       \E M \in {Called(N, i, handled.data, o.calls)} :
          /\ ncap' = [M EXCEPT !.out = << >>]
          /\ net' = Transmit("tim", M.out)
          /\ log' = Logged(M.out)
          /\ got' = Given(ncap.clones[i], handled)
    /\ turns' = Tail(turns)
    /\ handled' = IF Len(turns) = 1 THEN Null ELSE handled
    /\ UNCHANGED <<tim, asking, asked, faults>>

(* messageCallback() asks for a data set: createCommand(), getSocket() and *)
(* the header of send(), ...                                               *)
Ask ==
    /\ asking = Null /\ asked < MaxAsked
    /\ ncap.cache # << >> /\ ncap.clones # << >>
    /\ asking' = [isn |-> ncap.clones[1].snd_ini,
                  segment |-> [DataHeader(ncap.clones[1])
                                 EXCEPT !.data = Message(ncap.nextId, "readSet", Null)]]
    /\ ncap' = [ncap EXCEPT !.nextId = (@ + 1) % TransIds]
    /\ asked' = asked + 1
    /\ UNCHANGED <<tim, loop, net, faults, log, got>>

(* ... and the rest of send().  The load of snd_nxt may have come at any   *)
(* moment in between; the socket may have been deleted.                    *)
AskSend ==
    /\ asking # Null
    /\ LET i == IndexOf(asking.isn)
       IN IF i = 0 THEN UNCHANGED ncap
          ELSE \E from \in asking.segment.seq..ncap.clones[i].snd_nxt :
                  ncap' = [ncap EXCEPT !.clones[i] = Advance(@, from)]
    /\ net' = Transmit("tim", <<asking.segment>>)
    /\ log' = Logged(<<asking.segment>>)
    /\ asking' = Null
    /\ UNCHANGED <<tim, loop, asked, faults, got>>

-----------------------------------------------------------------------------
(* The TIM                                                                 *)

(* receiveMessage() of dot0 and of the transducer: the reply to a command. *)
Reply(msg) == Message(msg.transId, IF msg.kind = "readTeds" THEN "teds" ELSE "set", msg.teds)

(* MyClientSocket::received() drops what comes before connected().         *)
Heard(o) == "received" \in o.calls /\ connected

Answer(o, m) ==
    IF Heard(o) /\ m.data.kind \in {"readTeds", "readSet"}
    THEN LET answer == Send(o.socket, Reply(m.data))
         IN [answer EXCEPT !.sent = o.sent \o @]
    ELSE o

(* start() resumes the thread, which does nothing unless it is suspended.  *)
Start(at) == IF at = "suspended" THEN "loop" ELSE at

TimReceive ==
    /\ net["tim"] # << >>
    /\ UNCHANGED <<mode, pos, header, ncap, loop, asking, asked, faults>>
    /\ \/ /\ client = Null
          /\ net' = Exchange("tim", "ncap", << >>)
          /\ UNCHANGED <<client, connected, pc, log, got>>
       \/ /\ client # Null
          /\ \E m \in {Head(net["tim"])} : \E o \in {Handle(client, m)} :
             \E answer \in {Answer(o, m)} :
               /\ client' = answer.socket
               /\ net' = Exchange("tim", "ncap", answer.sent)
               /\ log' = Logged(answer.sent)
               /\ connected' = ((connected \/ "connected" \in o.calls) /\ "closed" \notin o.calls)
               /\ pc' = IF Heard(o) /\ m.data.kind = "operate" THEN Start(pc) ELSE pc
               /\ got' = Given(client, m)

Full    == mode.tim_im /\ pos = 0
Streams == Full /\ ~mode.polling

(* connect(): a new socket; then the thread polls until it is connected.   *)
DoConnect(from, to) ==
    /\ pc = from /\ Len(got) < MaxDrawn /\ MoreIsns
    /\ pc' = to
    /\ client' = Connect(Isn).socket
    /\ got' = Append(got, << >>)
    /\ net' = Transmit("ncap", Connect(Isn).sent)
    /\ UNCHANGED <<mode, connected, pos, header, ncap, loop, asking, asked, faults, log>>

Go(from, to) ==
    /\ pc = from /\ pc' = to
    /\ UNCHANGED <<ncap, loop, asking, net, asked, faults, log, got>>

Await(from, to) ==
    /\ connected
    /\ Go(from, to)
    /\ UNCHANGED <<mode, connected, client, pos, header>>

(* execute(), before the loop: the thread suspends itself until start().   *)
Suspend ==
    /\ Go("connected", "suspended")
    /\ UNCHANGED <<mode, connected, client, pos, header>>

(* disconnect(): close() makes its FIN, ...                                *)
Disconnect ==
    /\ Streams
    /\ Go("loop", "finishing")
    /\ header' = Fin(client)
    /\ UNCHANGED <<mode, connected, client, pos>>

(* ... sends it, ...                                                       *)
FinSent ==
    /\ pc = "finishing" /\ pc' = "finished"
    /\ net' = Transmit("ncap", <<header>>)
    /\ header' = Null
    /\ UNCHANGED <<mode, connected, client, pos, ncap, loop, asking, asked, faults, log, got>>

(* ... tests the state only then, ...                                      *)
Tested(state) ==
    CASE state = "ESTABLISHED" -> "open"
      [] state = "CLOSE_WAIT"  -> "halfOpen"
      [] OTHER                 -> "disconnecting"

CloseTests ==
    /\ Go("finished", Tested(client.state))
    /\ client' = IF client.state = "SYN_SENT" THEN [client EXCEPT !.state = "CLOSED"] ELSE client
    /\ connected' = (connected /\ client.state # "SYN_SENT")
    /\ UNCHANGED <<mode, pos, header>>

(* ... and sets it, over what a handler may have set in between.           *)
CloseSets ==
    \E at \in {"open", "halfOpen"} :
        /\ Go(at, "disconnecting")
        /\ client' = [client EXCEPT !.state = IF at = "open" THEN "FIN_WAIT1" ELSE "LAST_ACK"]
        /\ UNCHANGED <<mode, connected, pos, header>>

(* It polls until it is closed, and deletes the socket.                    *)
Disconnected ==
    /\ ~connected
    /\ Go("disconnecting", "collect")
    /\ client' = Null
    /\ UNCHANGED <<mode, connected, pos, header>>

(* A fault: the position is not taken modulo the size of the buffer.       *)
CollectOn ==
    /\ \/ Go("collect", "collected")
       \/ ~Streams /\ Go("loop", "collected")
    /\ pos' = pos + 1
    /\ UNCHANGED <<mode, connected, client, header>>

(* Takes a sample and waits for the interval.                              *)
Collect ==
    /\ \/ Go("collect", "collected")
       \/ ~Streams /\ Go("loop", "collected")
    /\ pos' = (pos + 1) % DataSetSize
    /\ UNCHANGED <<mode, connected, client, header>>

(* sendDataSet(): the header of send(), ...                                *)
SendDataSet ==
    /\ Full
    /\ \/ Go("reconnected", "sending")
       \/ ~Streams /\ Go("collected", "sending")
    /\ client.snd_nxt - client.snd_ini <= MaxSent
    /\ header' = [DataHeader(client) EXCEPT !.data = Message(Unasked, "set", Null)]
    /\ UNCHANGED <<mode, connected, client, pos>>

(* ... and the rest of it.                                                 *)
DataSetSent ==
    /\ pc = "sending"
    /\ \E from \in header.seq..client.snd_nxt : client' = Advance(client, from)
    /\ net' = Transmit("ncap", <<header>>)
    /\ log' = Logged(<<header>>)
    /\ pc' = "loop" /\ header' = Null
    /\ UNCHANGED <<mode, connected, pos, ncap, loop, asking, asked, faults, got>>

NotFull ==
    /\ ~Full
    /\ Go("collected", "loop")
    /\ UNCHANGED <<mode, connected, client, pos, header>>

Thread ==
    \/ DoConnect("start", "connecting")
    \/ Await("connecting", "connected")
    \/ Suspend
    \/ Disconnect \/ FinSent \/ CloseTests \/ CloseSets \/ Disconnected
    \/ Collect \/ NotFull
    \/ Streams /\ DoConnect("collected", "reconnecting")
    \/ Await("reconnecting", "reconnected")
    \/ SendDataSet \/ DataSetSent

-----------------------------------------------------------------------------
(* The faults of the network and of the TIM                                *)

Lose(node) == \E i \in DOMAIN net[node] : net' = [net EXCEPT ![node] = RemoveAt(@, i)]

Duplicate(node) ==
    \E i \in DOMAIN net[node] : net' = [net EXCEPT ![node] = Append(@, @[i])]

Delay(node) ==
    \E i \in DOMAIN net[node] :
        /\ i < Len(net[node])
        /\ net' = [net EXCEPT ![node] = Append(RemoveAt(@, i), @[i])]

(* The TIM loses all it knows; its thread starts anew.                     *)
Restart ==
    /\ pc # "start" /\ pc' = "start"
    /\ connected' = FALSE /\ client' = Null /\ pos' = 0 /\ header' = Null
    /\ UNCHANGED <<mode, net>>

Fault ==
    /\ faults < MaxFaults /\ faults' = faults + 1
    /\ \/ Restart
       \/ /\ \E node \in Nodes : Lose(node) \/ Duplicate(node) \/ Delay(node)
          /\ UNCHANGED tim
    /\ UNCHANGED <<ncap, loop, asking, asked, log, got>>

Init ==
    /\ mode \in Modes
    /\ pc = "start" /\ connected = FALSE /\ client = Null /\ pos = 0 /\ header = Null
    /\ ncap = [clones |-> << >>, retrievers |-> << >>, cache |-> << >>, nextId |-> 1, out |-> << >>]
    /\ handled = Null /\ turns = << >> /\ asking = Null
    /\ net = [node \in Nodes |-> << >>]
    /\ asked = 0 /\ faults = 0
    /\ log = {} /\ got = << >>

Next == TimReceive \/ NcapReceive \/ NcapHandle \/ Ask \/ AskSend \/ Thread \/ Fault

Spec == Init /\ [][Next]_vars

(* The network delivers, IP's threads handle what it delivers, and the     *)
(* thread of the sensor and those of SIP go on when they can.              *)
FairSpec ==
    /\ Spec
    /\ WF_vars(TimReceive) /\ WF_vars(NcapReceive) /\ WF_vars(NcapHandle)
    /\ WF_vars(Thread) /\ WF_vars(AskSend)

-----------------------------------------------------------------------------
(* Properties                                                              *)

Segments == [seq : Int, ack : Int, flags : SUBSET Flags, data : Messages \cup {Null}]

TypeOK ==
    /\ mode \in Modes
    /\ pc \in {"start", "connecting", "connected", "suspended", "loop", "finishing",
               "finished", "open", "halfOpen", "disconnecting", "collect", "collected",
               "reconnecting", "reconnected", "sending"}
    /\ connected \in BOOLEAN
    /\ client \in Sockets \cup {Null}
    /\ pos \in 0..DataSetSize - 1
    /\ header \in Segments \cup {Null}
    /\ \A s \in ToSet(ncap.clones) : s \in Sockets
    /\ ncap.out = << >> /\ ncap.nextId \in 0..TransIds - 1
    /\ \A r \in ToSet(ncap.retrievers) : r.step \in 1..Len(Teds)
    /\ \A node \in Nodes : \A m \in ToSet(net[node]) : m \in Segments

(* What a socket gives to its owner is, message by message and from the    *)
(* first one on, what a single connection of the other side has sent at    *)
(* that place: nothing twice, nothing out of order, nothing skipped and    *)
(* nothing of an earlier connection, whatever the network does.            *)
DeliversInOrder ==
    \A n \in DOMAIN got : \A i \in DOMAIN got[n] :
        /\ got[n][i] \in log
        /\ got[n][i].seq = got[n][1].seq + i - 1
        /\ got[n][1].seq - 1 \in {Isns[k] : k \in DOMAIN got}

(* A TIM that has its connection, and has sent no FIN, has a peer: the     *)
(* NCAP keeps a socket that was made for this very connection, and each    *)
(* knows the other's number.                                               *)
FinOut == pc \in {"finished", "open", "halfOpen", "disconnecting"}

EstablishedHasPeer ==
    client # Null /\ client.state = "ESTABLISHED" /\ ~FinOut =>
        \E s \in ToSet(ncap.clones) :
            /\ s.rcv_ini = client.snd_ini /\ s.snd_ini = client.rcv_ini
            /\ s.state \in {"SYN_RCVD", "ESTABLISHED"}

(* What the NCAP tells the subscribers of a TIM it knows: open only while  *)
(* it has a connection, and without faults whenever it has one.            *)
PresenceIsTrue ==
    LET connections == {s \in ToSet(ncap.clones) : s.state \in {"ESTABLISHED", "LAST_ACK"}}
    IN ncap.cache # << >> =>
        /\ ncap.cache[1].connected => connections # {}
        /\ faults = 0 /\ connections # {} => ncap.cache[1].connected

(* A retriever files each TEDS under what it asked for, and the cache has  *)
(* all of them: no reply is taken for another one.                         *)
TedsAsAsked ==
    /\ \A r \in ToSet(ncap.retrievers) : r.teds = SubSeq(Teds, 1, r.step - 1)
    /\ \A c \in ToSet(ncap.cache) : c.teds = Teds

(* Unless a segment is lost or late, a TIM restarts or a request by SIP    *)
(* sends at the same time, connect() returns, ...                          *)
Disturbed == faults > 0 \/ asked > 0

Connects ==
    pc \in {"connecting", "reconnecting"} ~> pc \notin {"connecting", "reconnecting"} \/ Disturbed

(* ... and the NCAP reads all TEDS of a TIM that connects.                 *)
TedsRetrieved == ncap.retrievers # << >> ~> ncap.cache # << >> \/ Disturbed

(* Streaming: a data set that is full reaches the NCAP.                    *)
DataSetsArrive ==
    \A n \in 1..MaxDrawn, i \in 1..MaxSent + 1 :
        LET d == [seq |-> Isns[n] + i, data |-> Message(Unasked, "set", Null)]
        IN d \in log /\ faults = 0 ~> faults > 0 \/ \E k \in DOMAIN got : d \in ToSet(got[k])

=============================================================================
