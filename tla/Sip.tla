-------------------------------- MODULE Sip --------------------------------
(* SIP user agents of EPOS (SipUserAgent) that call one another, or that   *)
(* another phone calls, over UDP, which loses, duplicates, delays and      *)
(* reorders messages.                                                      *)
(*                                                                         *)
(* Three threads enter an agent without a lock: the application's, the one *)
(* that receives (sip_manager.cc) and the alarms' handler.  A request is   *)
(* sent first, its timers start one by one afterwards.  A message that is  *)
(* received and the call of a timer are one action each, unless they meet  *)
(* at one transaction: there the message is first matched and then handled,*)
(* and the callback first tests the state and then acts.  No message need  *)
(* ever arrive: one that stays in net for ever is lost.                    *)
EXTENDS SipUserAgent, FiniteSets

CONSTANTS
    Networks,    \* the EPOS agents of a network, and how many messages it delivers once more
    Phone,       \* the peer that is no EPOS agent
    MaxRequests, \* how many requests the applications and the phone make
    MaxNames,    \* names drawn for calls, branches and tags, then no request is handled
    MaxRejected  \* how many answers of the phone are not the usual 200

ASSUME SipAssumption ==
    /\ \A N \in Networks : IsFiniteSet(N.agents) /\ Phone \notin N.agents /\ N.extra \in Nat
    /\ {MaxRequests, MaxNames, MaxRejected} \subseteq Nat

VARIABLES
    ua,         \* the EPOS agents
    starting,   \* for each, the transactions whose first timers the application is about to start
    hearing,    \* the message that the receiving thread has matched
    ringing,    \* the timer whose callback has tested the state
    net,        \* the messages under way
    fresh,      \* how many names of calls, branches and tags are in use
    requests, rejected,  \* what has been spent of the bounds
    extra,      \* how many messages may still be delivered once more
    accepted,   \* history: the sessions <<agent, call, tag>> that a called agent has begun
    sessions    \* history: how many sessions the application of an agent believes to have

amid   == <<starting, hearing, ringing>>
spent  == <<requests, extra, rejected>>
vars   == <<ua, amid, net, fresh, spent, accepted, sessions>>

Agents == DOMAIN ua
Peers  == Agents \cup {Phone}

-----------------------------------------------------------------------------
(* Agent a becomes U: its messages go out, its application hears of it.    *)

Count(told, event) == Len(SelectSeq(told, LAMBDA e : e.event = event))

Becomes(a, U, undelivered) ==
    /\ ua' = [ua EXCEPT ![a] = [U EXCEPT !.out = {}, !.told = << >>]]
    /\ net' = undelivered \cup U.out
    /\ sessions' = [sessions EXCEPT ![a] = @ + Count(U.told, "SESSION_INITIATED")
                                             - Count(U.told, "SESSION_TERMINATED")]

(* The history shared also marks a kind when two threads have been at one  *)
(* of its transactions at once, here those in I.                           *)
Mark(U, I) == [U EXCEPT !.shared = @ \cup {U.transactions[i].kind : i \in I}]

Alarms(U) == Set(U) \cup U.forgotten

-----------------------------------------------------------------------------
(* The application                                                         *)

Ask(a, m) ==
    /\ requests < MaxRequests /\ requests' = requests + 1
    /\ Becomes(a, Send(ua[a], m), net)
    /\ starting' = [starting EXCEPT ![a] = @ \cup {[owner |-> m.branch, timers |-> FirstTimers(m)]}]
    /\ fresh' = fresh + 1
    /\ UNCHANGED <<hearing, ringing, extra, rejected, accepted>>

(* The next timer starts, whatever has become of the transaction.          *)
Start(a, j) ==
    /\ starting' = [starting EXCEPT
           ![a] = (@ \ {j}) \cup (IF Len(j.timers) = 1 THEN {}
                                  ELSE {[j EXCEPT !.timers = Tail(j.timers)]})]
    /\ UNCHANGED <<hearing, ringing, fresh, spent, accepted>>
    /\ Becomes(a, StartFirst(ua[a], Head(j.timers), j.owner), net)

(* createInvite(): one session with a peer is enough.                      *)
Invite(a, peer) ==
    /\ DialogWith(ua[a], peer, "INVITE") = 0
    /\ Ask(a, Request("INVITE", a, peer, fresh, fresh, Null, "plain"))

Message(a, peer) == Ask(a, Request("MESSAGE", a, peer, fresh, fresh, Null, "plain"))

Bye(a, peer) ==
    \E i \in {DialogWith(ua[a], peer, "INVITE")} \ {0} : Ask(a, Within(ua[a], i, "BYE", a, fresh))

Notify(a, peer) ==
    \E i \in {DialogWith(ua[a], peer, "SUBSCRIBE")} \ {0} :
        ua[a].active /\ Ask(a, Within(ua[a], i, "NOTIFY", a, fresh))

-----------------------------------------------------------------------------
(* receiveMessageThread()                                                  *)

(* A message may arrive once more.                                         *)
Deliver(m, rest) ==
    \/ rest = net \ {m} /\ UNCHANGED extra
    \/ rest = net /\ extra > 0 /\ extra' = extra - 1

(* The sessions of U in which it was called.                               *)
Begun(a, U) ==
    {<<a, d.call, d.tag>> : d \in {e \in ToSet(U.dialogs) \ ToSet(ua[a].dialogs) : e.type = "INVITE"}}

(* A request may begin a transaction, and a dialog unless it names one; a  *)
(* response may lead to a BYE.                                             *)
Names(a, m, U) ==
    LET begins == m.status = 0 /\ m.method # "ACK" /\ Matching(ua[a], m) = {}
    IN CASE begins /\ m.tag = Null -> 2
         [] begins /\ m.tag # Null -> 1
         [] OTHER -> IF fresh \in DOMAIN U.transactions THEN 1 ELSE 0

(* The transactions whose first timers are not all started.                *)
Starting(a) == {j.owner : j \in starting[a]}

(* A transaction that has been found and is gone by now is undefined: the  *)
(* model does not go past it.  What the handlers stop and start in a row is*)
(* one step: a callback in between does what one before or after does, or  *)
(* ends the transaction.                                                   *)
Receive(a, m) ==
    /\ m.to = a
    /\ hearing[a] # Null => hearing[a] = [message |-> m, found |-> Matching(ua[a], m)]
    /\ hearing' = [hearing EXCEPT ![a] = Null]
    /\ UNCHANGED <<starting, ringing, requests, rejected>>
    /\ \E O \in {Mark(ua[a], Matching(ua[a], m) \cap Starting(a))} :
       \E U \in {IF m.status = 0 THEN ReceiveRequest(O, m, fresh, fresh + 1)
                 ELSE ReceiveResponse(O, m, fresh)} :
          /\ fresh' = fresh + Names(a, m, U)
          /\ hearing[a] = Null => fresh' <= MaxNames + 1
          /\ accepted' = IF m.status = 0 THEN accepted \cup Begun(a, U) ELSE accepted
          /\ \E rest \in {net, net \ {m}} : Deliver(m, rest) /\ Becomes(a, U, rest)

-----------------------------------------------------------------------------
(* Alarms                                                                  *)

Quiet(U, e) ==
    IF e \in U.forgotten THEN [U EXCEPT !.forgotten = @ \ {e}] ELSE StopTimers(U, {e.timer})

(* The callback of a transaction that is gone, now or when it acts, is     *)
(* undefined as well.                                                      *)
GoOff(a, e) ==
    /\ e.left = 0 /\ e.owner \in DOMAIN ua[a].transactions
    /\ hearing[a] = Null /\ ringing[a] = Null
    /\ Becomes(a, Expire(Quiet(ua[a], e), e.timer, e.owner, ua[a].transactions[e.owner].state), net)
    /\ UNCHANGED <<amid, fresh, spent, accepted>>

(* It falls into the reception of m: that has matched the transaction, the *)
(* callback has tested the state, and they go on in any order.             *)
Meet(a, e, m) ==
    /\ e.left = 0 /\ m.to = a /\ e.owner \in Matching(ua[a], m)
    /\ hearing[a] = Null /\ ringing[a] = Null
    /\ hearing' = [hearing EXCEPT ![a] = [message |-> m, found |-> Matching(ua[a], m)]]
    /\ ringing' = [ringing EXCEPT ![a] = [timer |-> e.timer, owner |-> e.owner,
                                          state |-> ua[a].transactions[e.owner].state]]
    /\ Becomes(a, Mark(Quiet(ua[a], e), {e.owner}), net)
    /\ UNCHANGED <<starting, fresh, spent, accepted>>

Ring(a) ==
    /\ ringing[a] # Null /\ ringing[a].owner \in DOMAIN ua[a].transactions
    /\ ringing' = [ringing EXCEPT ![a] = Null]
    /\ UNCHANGED <<starting, hearing, fresh, spent, accepted>>
    /\ Becomes(a, Expire(ua[a], ringing[a].timer, ringing[a].owner, ringing[a].state), net)

Sooner(e) == [e EXCEPT !.left = @ - 1]

Later(U) ==
    [U EXCEPT !.alarm = [t \in DOMAIN @ |-> IF @[t] = Null THEN Null ELSE Sooner(@[t])],
              !.forgotten = {Sooner(e) : e \in @}]

(* Nothing that has begun takes as long as a tick.  A timer A beyond the   *)
(* timeout has lost its B: it doubles for ever, and the model stops the    *)
(* clock.                                                                  *)
Tick ==
    /\ \A a \in Agents : starting[a] = {} /\ hearing[a] = Null /\ ringing[a] = Null
    /\ \A a \in Agents : ua[a].value["A"] <= Timeout
    /\ UNION {Alarms(ua[a]) : a \in Agents} # {}
    /\ \A a \in Agents : \A e \in Alarms(ua[a]) : e.left > 0
    /\ ua' = [a \in Agents |-> Later(ua[a])]
    /\ UNCHANGED <<amid, net, fresh, spent, accepted, sessions>>

-----------------------------------------------------------------------------
(* The phone                                                               *)

PhoneSends(m) ==
    /\ requests < MaxRequests /\ requests' = requests + 1
    /\ net' = net \cup {m} /\ fresh' = fresh + 1
    /\ UNCHANGED <<ua, amid, extra, rejected, accepted, sessions>>

PhoneCalls(a, method, option) ==
    PhoneSends(Request(method, Phone, a, fresh, fresh, Null, option))

(* It ends a session or a subscription, in the dialog of an answer.        *)
PhoneEnds(r) ==
    /\ r.to = Phone /\ r.status = 200
    /\ \/ /\ r.method = "INVITE"
          /\ PhoneSends(Request("BYE", Phone, r.from, fresh, r.call, r.tag, "plain"))
       \/ /\ r.method = "SUBSCRIBE"
          /\ PhoneSends(Request("SUBSCRIBE", Phone, r.from, fresh, r.call, r.tag, "expire"))

(* It answers, with any status (481 where a dialog is named) and a tag     *)
(* named after the request, and acknowledges what is no 200.               *)
PhoneAnswers(m, status) ==
    /\ m.to = Phone
    /\ rejected' = IF status = 200 THEN rejected ELSE rejected + 1
    /\ rejected' <= MaxRejected
    /\ \/ /\ m.status = 0 /\ m.method # "ACK" /\ (status = 481 => m.tag # Null)
          /\ net' = (net \ {m}) \cup {Response(m, status, m.branch)}
       \/ /\ m.status >= 300 /\ m.method = "INVITE" /\ status = 200
          /\ net' = (net \ {m}) \cup {Request("ACK", Phone, m.from, m.branch, m.call, m.tag, "plain")}
    /\ UNCHANGED <<ua, amid, fresh, requests, extra, accepted, sessions>>

Statuses == {180, 200, 404, 481}
Options  == {<<"INVITE", "plain">>, <<"INVITE", "require">>, <<"SUBSCRIBE", "plain">>,
             <<"SUBSCRIBE", "otherEvent">>}

-----------------------------------------------------------------------------
Init ==
    /\ \E N \in Networks : ua = [a \in N.agents |-> NewAgent] /\ extra = N.extra
    /\ net = {} /\ fresh = 1 /\ requests = 0 /\ rejected = 0
    /\ starting = [a \in Agents |-> {}]
    /\ hearing = [a \in Agents |-> Null] /\ ringing = [a \in Agents |-> Null]
    /\ accepted = {} /\ sessions = [a \in Agents |-> 0]

(* An agent without a peer calls the phone.                                *)
Others(a) == IF Agents = {a} THEN {Phone} ELSE Agents \ {a}

Application ==
    \E a \in Agents : \E peer \in Others(a) :
        Invite(a, peer) \/ Message(a, peer) \/ Bye(a, peer) \/ Notify(a, peer)

PhoneActs ==
    /\ Cardinality(Agents) = 1
    /\ \/ \E a \in Agents, o \in Options : PhoneCalls(a, o[1], o[2])
       \/ \E m \in net : PhoneEnds(m)
       \/ \E m \in net, status \in Statuses : PhoneAnswers(m, status)

Alarmed == \E a \in Agents : \E e \in Alarms(ua[a]) : GoOff(a, e)

(* What has begun goes on.                                                 *)
GoesOn ==
    \E a \in Agents :
        \/ \E j \in starting[a] : Start(a, j)
        \/ Ring(a)
        \/ hearing[a] # Null /\ Receive(a, hearing[a].message)

(* What the machine does by itself.                                        *)
Proceeds == Tick \/ Alarmed \/ GoesOn

Next ==
    \/ Application \/ PhoneActs
    \/ \E a \in Agents, m \in net : Receive(a, m) \/ (\E e \in Alarms(ua[a]) : Meet(a, e, m))
    \/ Proceeds

Spec == Init /\ [][Next]_vars

(* The threads run, the timer ticks, its alarms are served.  Once is enough*)
(* for all three: a tick waits for what has begun and for due alarms.      *)
FairSpec == Spec /\ WF_vars(Proceeds)

-----------------------------------------------------------------------------
(* Properties                                                              *)

States == {"Calling", "Trying", "Proceeding", "Completed", "Confirmed"}

TypeOK ==
    /\ \A a \in Agents : \A i \in DOMAIN ua[a].transactions :
          LET t == ua[a].transactions[i]
          IN /\ t.kind \in DOMAIN Timers /\ t.request.method \in Methods
             /\ t.state \in States
    /\ \A a \in Agents : ua[a].out = {} /\ ua[a].told = << >>
    /\ \A a \in Agents : \A d \in ToSet(ua[a].dialogs) :
          /\ d.type \in {"INVITE", "SUBSCRIBE"} /\ d.peer \in Peers
          /\ d.call \in 1..fresh /\ d.tag \in 1..fresh
    /\ \A a \in Agents : \A j \in starting[a] :
          j.owner \in 1..fresh /\ j.timers \in {<<"A", "B">>, <<"B">>, <<"E", "F">>, <<"F">>}
    /\ \A a \in Agents : hearing[a] # Null => hearing[a].message \in net
    /\ \A a \in Agents : ringing[a] # Null => ringing[a].state \in States
    /\ \A m \in net : m.from \in Peers /\ m.to \in Peers /\ m.method \in Methods
    /\ \A a \in Agents : \A e \in Alarms(ua[a]) : e.left \in Nat

(* The timers of a transaction, by its state.                              *)
Runs(t) ==
    CASE t.kind = "CI" /\ t.state = "Calling"   -> {"A", "B"}
      [] t.kind = "CI" /\ t.state = "Completed" -> {"D"}
      [] t.kind = "CN" /\ t.state \in {"Trying", "Proceeding"} -> {"E", "F"}
      [] t.kind = "CN" /\ t.state = "Completed" -> {"K"}
      [] t.kind = "SI" /\ t.state = "Completed" -> {"G", "H"}
      [] t.kind = "SI" /\ t.state = "Confirmed" -> {"I"}
      [] t.kind = "SN" /\ t.state = "Completed" -> {"J"}
      [] OTHER -> {}

(* The timers that are about to start.                                     *)
Awaited(a) == UNION {ToSet(j.timers) \X {j.owner} : j \in starting[a]}

(* As long as neither two transactions of a kind nor two threads at one of *)
(* them have overlapped, the alarms that are set or about to be set are    *)
(* those that the transaction needs in its state: none calls a transaction *)
(* that is gone, and none that it needs is missing.                        *)
TimersFollowState ==
    \A a \in Agents : \A kind \in DOMAIN Timers \ ua[a].shared :
        {p \in {<<e.timer, e.owner>> : e \in Alarms(ua[a])} \cup Awaited(a) : p[1] \in Timers[kind]} =
        UNION {Runs(ua[a].transactions[i]) \X {i} : i \in OfKind(ua[a], kind)}

(* The INVITE goes out again after T1, 2 T1, 4 T1, ..., and never else:    *)
(* the k-th one 2^(k-1) - 1 times T1 after the first, as timer B tells.    *)
Doublings[k \in Nat] == IF k = 0 THEN 0 ELSE 2 * Doublings[k - 1] + 1

BacksOff ==
    \A a \in Agents : "CI" \notin ua[a].shared =>
        \A i \in OfKind(ua[a], "CI") :
            ua[a].transactions[i].state = "Calling" /\ ua[a].alarm["B"] # Null =>
            LET tries   == ua[a].transactions[i].tries
                elapsed == Timeout - ua[a].alarm["B"].left
            IN Timer1 * Doublings[tries - 1] <= elapsed /\ elapsed <= Timer1 * Doublings[tries]

(* A session is one the called agent has begun, with that very call and    *)
(* tag, ...                                                                *)
NoPhantomSession ==
    \A a \in Agents : \A d \in ToSet(ua[a].dialogs) :
        d.type = "INVITE" /\ d.peer \in Agents =>
            {<<a, d.call, d.tag>>, <<d.peer, d.call, d.tag>>} \cap accepted # {}

(* ... and a call makes one session, however often its INVITE arrives.     *)
OneSessionPerCall ==
    \A a \in Agents : \A i, j \in DOMAIN ua[a].dialogs :
        ua[a].dialogs[i].call = ua[a].dialogs[j].call => i = j

(* Whatever the network does, every transaction that waits for a timer     *)
(* ends, or goes on without one (an INVITE whose first answer is a 1xx),   *)
(* as long as no slot is shared: when the applications ask for no more,    *)
(* none waits in the end.                                                  *)
Waiting ==
    /\ \A a \in Agents : ua[a].shared = {}
    /\ \E a \in Agents : \E i \in DOMAIN ua[a].transactions : Runs(ua[a].transactions[i]) # {}

TransactionsEnd == []<>~Waiting

(* What the application believes: sessions initiated and not terminated.   *)
SessionsAsTold ==
    \A a \in Agents :
        sessions[a] = Cardinality({d \in ToSet(ua[a].dialogs) : d.type = "INVITE"})

=============================================================================
