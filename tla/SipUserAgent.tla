---------------------------- MODULE SipUserAgent ----------------------------
(* A SIP user agent of EPOS as a value U (sip_user_agent.cc), with its     *)
(* transactions (sip_transactions.cc), dialogs and timers, and what the    *)
(* messages, the alarms and the application make of it.  U.out holds the   *)
(* messages it has sent so far, U.told what it has told the application.   *)
(*                                                                         *)
(* Each timer of an agent has one slot: its transactions share it.  An     *)
(* alarm that is overwritten there still goes off (forgotten).             *)
(* A dialog or a call is known by the call and the tag of the agent that   *)
(* was called; the caller's tag goes with the call, the branch is its      *)
(* transaction's.  The application code sends no provisional response.     *)
EXTENDS Integers, Sequences, SequencesExt, Functions

CONSTANTS
    Null,
    Timer1, Timer2, Timer4, Timer32s,   \* SIP_TIMER_1, ...
    Timeout                             \* SIP_TIMER_1 * 64

ASSUME TimerAssumption == {Timer1, Timer2, Timer4, Timer32s, Timeout} \subseteq Nat \ {0}

(* Null is no alarm.                                                       *)
ASSUME NullAssumption == Null \notin [owner : Nat, left : Nat]

Methods == {"INVITE", "ACK", "BYE", "MESSAGE", "NOTIFY", "SUBSCRIBE"}

(* The kinds of transactions, and the timers that a destructor stops:      *)
(* client and server, of INVITE and of other requests.                     *)
Timers == [CI |-> {"A", "B", "D"}, CN |-> {"E", "F", "K"},
           SI |-> {"G", "H", "I"}, SN |-> {"J"}]

(* getTimerValue() reads the values of these.                              *)
Doubled == {"A", "E", "G"}

Request(method, from, to, id, call, tag, option) ==
    [method |-> method, status |-> 0, from |-> from, to |-> to,
     branch |-> id, call |-> call, tag |-> tag, option |-> option]

(* A fault: a response whose tag is left out.                              *)
ResponseUntagged(m, status, tag) ==
    [m EXCEPT !.status = status, !.from = m.to, !.to = m.from, !.option = "plain"]

(* createResponse(): tag is a new one, for a request that has none.        *)
Response(m, status, tag) ==
    [m EXCEPT !.status = status, !.from = m.to, !.to = m.from,
              !.tag = IF @ = Null THEN tag ELSE @, !.option = "plain"]

NewAgent ==
    [transactions |-> << >>, dialogs |-> << >>, active |-> FALSE,
     value |-> [t \in Doubled |-> 0],
     alarm |-> [t \in UNION {Timers[k] : k \in DOMAIN Timers} |-> Null],
     forgotten |-> {}, shared |-> {}, out |-> {}, told |-> << >>]

Sent(U, m)   == [U EXCEPT !.out = @ \cup {m}]
Tell(U, event, peer) == [U EXCEPT !.told = Append(@, [event |-> event, peer |-> peer])]

-----------------------------------------------------------------------------
(* Timers                                                                  *)

(* The alarms of the slots.                                                *)
Set(U) == {[timer |-> t, owner |-> U.alarm[t].owner, left |-> U.alarm[t].left] :
             t \in {u \in DOMAIN U.alarm : U.alarm[u] # Null}}

StopTimers(U, T) == [U EXCEPT !.alarm = [t \in DOMAIN @ |-> IF t \in T THEN Null ELSE @[t]]]

(* A fault: the value is not remembered, and does not double.              *)
StartTimerUndoubled(U, t, ticks, id) ==
    [U EXCEPT !.alarm[t] = [owner |-> id, left |-> ticks],
              !.forgotten = @ \cup {e \in Set(U) : e.timer = t}]

(* setTimerValue() and startTimer(): what was in the slot is overwritten.  *)
StartTimer(U, t, ticks, id) ==
    [U EXCEPT !.alarm[t] = [owner |-> id, left |-> ticks],
              !.forgotten = @ \cup {e \in Set(U) : e.timer = t},
              !.value = IF t \in Doubled THEN [@ EXCEPT ![t] = ticks] ELSE @]

AtMost(n, limit) == IF n < limit THEN n ELSE limit

-----------------------------------------------------------------------------
(* Transactions                                                            *)

OfKind(U, kind) == {i \in DOMAIN U.transactions : U.transactions[i].kind = kind}

(* addTransaction(); the history shared marks a kind whose timers serve two*)
(* at once, here two transactions.                                         *)
AddTransaction(U, id, kind, m) ==
    [U EXCEPT !.transactions =
                  [i \in DOMAIN @ \cup {id} |->
                     IF i = id THEN [kind |-> kind, state |-> "Idle", request |-> m,
                                     last |-> Null, tries |-> 0]
                     ELSE @[i]],
              !.shared = IF OfKind(U, kind) = {} THEN @ ELSE @ \cup {kind}]

(* clear(): the destructor stops the timers of the kind.                   *)
Clear(U, id) ==
    [StopTimers(U, Timers[U.transactions[id].kind]) EXCEPT
        !.transactions = Restrict(@, DOMAIN @ \ {id})]

Enter(U, id, state) == [U EXCEPT !.transactions[id].state = state]

(* The history tries counts how often an INVITE has gone out.              *)
Resend(U, id) ==
    [Sent(U, U.transactions[id].request) EXCEPT
        !.transactions[id].tries = IF U.transactions[id].kind = "CI" THEN @ + 1 ELSE @]

Again(U, id) ==
    IF U.transactions[id].last = Null THEN U ELSE Sent(U, U.transactions[id].last)

(* matchingTransaction(): by branch and method, an ACK by its INVITE.      *)
ClientMatches(t, m) ==
    t.kind \in {"CI", "CN"} /\ m.status # 0 /\ t.request.branch = m.branch
    /\ m.method = t.request.method

ServerMatches(t, m) ==
    t.kind \in {"SI", "SN"} /\ m.status = 0 /\ t.request.branch = m.branch
    /\ (m.method = t.request.method \/ (m.method = "ACK" /\ t.kind = "SI"))

Matching(U, m) ==
    {i \in DOMAIN U.transactions : \/ ClientMatches(U.transactions[i], m)
                                   \/ ServerMatches(U.transactions[i], m)}

(* UserAgentClient::sendRequest() up to the message, ...                   *)
SendInvite(U, m) ==
    Resend(Enter(AddTransaction(U, m.branch, "CI", m), m.branch, "Calling"), m.branch)

SendNonInvite(U, m) ==
    Resend(Enter(AddTransaction(U, m.branch, "CN", m), m.branch, "Trying"), m.branch)

Send(U, m) == IF m.method = "INVITE" THEN SendInvite(U, m) ELSE SendNonInvite(U, m)

(* ... the timers that it starts after the message, one by one, ...        *)
FirstTimers(m) == IF m.method = "INVITE" THEN <<"A", "B">> ELSE <<"E", "F">>

StartFirst(U, t, id) == StartTimer(U, t, IF t \in Doubled THEN Timer1 ELSE Timeout, id)

(* ... and the whole of it.                                                *)
SendRequest(U, m) ==
    StartFirst(StartFirst(Send(U, m), FirstTimers(m)[1], m.branch), FirstTimers(m)[2], m.branch)

-----------------------------------------------------------------------------
(* Dialogs                                                                 *)

DialogType(method) == IF method \in {"ACK", "BYE", "INVITE"} THEN "INVITE" ELSE "SUBSCRIBE"

(* A fault: a message without a tag is of no dialog.                       *)
DialogOfTag(U, m) ==
    SelectInSeq(U.dialogs, LAMBDA d : /\ d.type = DialogType(m.method) /\ d.call = m.call
                                      /\ m.tag = d.tag)

(* matchingDialog(): a message without a tag matches by its call.          *)
DialogOf(U, m) ==
    SelectInSeq(U.dialogs, LAMBDA d : /\ d.type = DialogType(m.method) /\ d.call = m.call
                                      /\ m.tag \in {Null, d.tag})

DialogWith(U, peer, type) ==
    SelectInSeq(U.dialogs, LAMBDA d : d.type = type /\ d.peer = peer)

AddDialog(U, method, peer, call, tag) ==
    [U EXCEPT !.dialogs = Append(@, [type |-> method, peer |-> peer, call |-> call, tag |-> tag])]

RemoveDialog(U, i, event) ==
    [Tell(U, event, U.dialogs[i].peer) EXCEPT !.dialogs = RemoveAt(@, i)]

CreateDialog(U, method, peer, call, tag) ==
    Tell(AddDialog([U EXCEPT !.active = @ \/ method = "SUBSCRIBE"], method, peer, call, tag),
         IF method = "SUBSCRIBE" THEN "SUBSCRIPTION_INITIATED" ELSE "SESSION_INITIATED", peer)

(* createRequest() within the i-th dialog.                                 *)
Within(U, i, method, me, id) ==
    Request(method, me, U.dialogs[i].peer, id, U.dialogs[i].call, U.dialogs[i].tag, "plain")

-----------------------------------------------------------------------------
(* UserAgentClient: the final responses.  A response that a timer makes up *)
(* (408) has no headers: it matches no dialog and changes nothing.         *)

(* A fault: whatever is accepted begins a session.                         *)
UacReceive2xxAny(U, r, d) ==
    IF d = 0 THEN CreateDialog(U, "INVITE", r.from, r.call, r.tag)
    ELSE RemoveDialog(U, d, "SESSION_TERMINATED")

(* The ACK of a 2xx has a branch of its own, that no transaction has: it   *)
(* reaches none, and is left out.                                          *)
UacReceive2xx(U, r, d) ==
    CASE r.method = "INVITE" /\ d = 0 -> CreateDialog(U, "INVITE", r.from, r.call, r.tag)
      [] r.method = "BYE" /\ d # 0    -> RemoveDialog(U, d, "SESSION_TERMINATED")
      [] OTHER                        -> U

(* Any other failure hangs up: the BYE goes to the first session with the  *)
(* peer, if there is one.                                                  *)
HangUp(U, me, peer, id) ==
    LET i == DialogWith(U, peer, "INVITE")
    IN IF i = 0 THEN U ELSE SendRequest(U, Within(U, i, "BYE", me, id))

UacReceive3xx6xx(U, r, d, id) ==
    IF d = 0 THEN U
    ELSE LET told == IF r.status \in {408, 481} \/ r.method = "BYE" THEN U
                     ELSE HangUp(U, r.to, U.dialogs[d].peer, id)
         IN RemoveDialog(told, d, "SESSION_TERMINATED")

UacReceive(U, r, id) ==
    CASE r.status \in 200..299 -> UacReceive2xx(U, r, DialogOf(U, r))
      [] r.status \in 300..699 -> UacReceive3xx6xx(U, r, DialogOf(U, r), id)
      [] OTHER                 -> U

(* SipTransactionClientInvite                                              *)
SendAck(U, i, r) ==
    Sent(U, [U.transactions[i].request EXCEPT !.method = "ACK", !.tag = r.tag])

ClientInviteReceive(U, i, r, id) ==
    LET state    == U.transactions[i].state
        unhurried == IF state = "Calling" THEN StopTimers(U, {"A", "B"}) ELSE U
        rejected == StartTimer(SendAck(Enter(U, i, "Completed"), i, r), "D", Timer32s, i)
        quiet    == IF state = "Calling" THEN StopTimers(rejected, {"A", "B"}) ELSE rejected
    IN CASE state \in {"Calling", "Proceeding"} /\ r.status \in 100..199 ->
              UacReceive(Enter(unhurried, i, "Proceeding"), r, id)
         [] state \in {"Calling", "Proceeding"} /\ r.status \in 200..299 ->
              Clear(UacReceive(unhurried, r, id), i)
         [] state \in {"Calling", "Proceeding"} /\ r.status \in 300..699 ->
              UacReceive(quiet, r, id)
         [] state = "Completed" /\ r.status \in 300..699 -> SendAck(U, i, r)
         [] OTHER -> U

(* Faults: the timers of the request run on, and a 1xx stops its timeout.  *)
ClientNonInviteHasty(U, i, r, id) ==
    IF U.transactions[i].state \in {"Trying", "Proceeding"} /\ r.status >= 200
    THEN UacReceive(StartTimer(Enter(U, i, "Completed"), "K", Timer4, i), r, id) ELSE U

ClientNonInvitePatient(U, i, r, id) ==
    IF U.transactions[i].state # "Trying" THEN U
    ELSE IF r.status < 200 THEN StopTimers(Enter(U, i, "Proceeding"), {"F"})
    ELSE UacReceive(StartTimer(StopTimers(Enter(U, i, "Completed"), {"E", "F"}), "K", Timer4, i), r, id)

(* SipTransactionClientNonInvite                                           *)
ClientNonInviteReceive(U, i, r, id) ==
    LET final == StopTimers(StartTimer(Enter(U, i, "Completed"), "K", Timer4, i), {"E", "F"})
    IN CASE U.transactions[i].state \notin {"Trying", "Proceeding"} -> U
         [] U.transactions[i].state \in {"Trying", "Proceeding"} /\ r.status \in 100..199 ->
              Enter(U, i, "Proceeding")
         [] U.transactions[i].state \in {"Trying", "Proceeding"} /\ r.status \in 200..699 ->
              UacReceive(final, r, id)

ReceiveResponse(U, r, id) ==
    IF Matching(U, r) = {} THEN U
    ELSE LET i == CHOOSE j \in Matching(U, r) : TRUE
         IN IF U.transactions[i].kind = "CI" THEN ClientInviteReceive(U, i, r, id)
            ELSE ClientNonInviteReceive(U, i, r, id)

-----------------------------------------------------------------------------
(* UserAgentServer                                                         *)

(* send2xx() and send3xx6xx(): an INVITE that is accepted is done with.    *)
SendInviteResponse(U, i, r) ==
    LET last == [Enter(Sent(U, r), i, "Completed") EXCEPT !.transactions[i].last = r]
    IN IF r.status \in 200..299 THEN Clear(Sent(U, r), i)
       ELSE StartTimer(StartTimer(last, "G", Timer1, i), "H", Timeout, i)

(* send2xx6xx()                                                            *)
SendNonInviteResponse(U, i, r) ==
    StartTimer([Enter(Sent(U, r), i, "Completed") EXCEPT !.transactions[i].last = r], "J", Timeout, i)

(* sendResponse()                                                          *)
SendResponse(U, i, r) ==
    IF r.method = "INVITE" THEN SendInviteResponse(U, i, r) ELSE SendNonInviteResponse(U, i, r)

UasReceiveBye(U, m, i, d, tag) ==
    IF d = 0 THEN SendResponse(U, i, Response(m, 481, tag))
    ELSE RemoveDialog(SendResponse(U, i, Response(m, 200, tag)), d, "SESSION_TERMINATED")

(* An INVITE within a session gets no answer.                              *)
UasReceiveInvite(U, m, i, d, tag) ==
    IF d # 0 THEN U
    ELSE SendResponse(CreateDialog(U, "INVITE", m.from, m.call, tag), i, Response(m, 200, tag))

(* Nothing checks that it is the presence event again: there is only one.  *)
UasReceiveSubscribe(U, m, i, d, tag) ==
    LET fresh    == IF d = 0 /\ m.option # "expire"
                    THEN CreateDialog(U, "SUBSCRIBE", m.from, m.call, tag) ELSE U
        accepted == SendResponse(fresh, i, Response(m, 200, tag))
    IN CASE m.option = "otherEvent" -> SendResponse(U, i, Response(m, 489, tag))
         [] m.option = "expire" /\ d # 0 ->
              [RemoveDialog(accepted, d, "SUBSCRIPTION_TERMINATED") EXCEPT !.active = FALSE]
         [] OTHER -> accepted

UasReceive(U, m, i, tag) ==
    LET d == DialogOf(U, m)
    IN CASE m.option = "require" -> SendResponse(U, i, Response(m, 420, tag))
         [] m.option # "require" /\ d = 0 /\ m.tag # Null -> SendResponse(U, i, Response(m, 481, tag))
         [] m.option # "require" /\ (d # 0 \/ m.tag = Null) ->
              CASE m.method = "BYE"       -> UasReceiveBye(U, m, i, d, tag)
                [] m.method = "INVITE"    -> UasReceiveInvite(U, m, i, d, tag)
                [] m.method = "SUBSCRIBE" -> UasReceiveSubscribe(U, m, i, d, tag)
                [] m.method = "MESSAGE"   ->
                     Tell(SendResponse(U, i, Response(m, 200, tag)), "MESSAGE_RECEIVED", m.from)
                [] m.method = "NOTIFY"    -> U

(* receiveAck()                                                            *)
ReceiveAck(U, i) ==
    IF U.transactions[i].state # "Completed" THEN U
    ELSE StopTimers(StartTimer(Enter(U, i, "Confirmed"), "I", Timer4, i), {"G", "H"})

(* receiveInvite() and receiveRequest() once more                          *)
ReceiveAgain(U, i) ==
    IF U.transactions[i].state \in {"Proceeding", "Completed"} THEN Again(U, i) ELSE U

(* id names the new transaction and tag the new dialog, if there are any.  *)
ReceiveRequest(U, m, id, tag) ==
    LET kind == IF m.method = "INVITE" THEN "SI" ELSE "SN"
        new  == Enter(AddTransaction(U, id, kind, m), id, IF kind = "SI" THEN "Proceeding" ELSE "Trying")
        matching == CHOOSE j \in Matching(U, m) : TRUE
    IN CASE Matching(U, m) # {} /\ m.method = "ACK" -> ReceiveAck(U, matching)
         [] Matching(U, m) # {} /\ m.method # "ACK" -> ReceiveAgain(U, matching)
         [] Matching(U, m) = {} /\ m.method = "ACK" -> U
         [] Matching(U, m) = {} /\ m.method # "ACK" -> UasReceive(new, m, id, tag)

-----------------------------------------------------------------------------
(* The timers go off.  A timer of retransmission starts again, any other   *)
(* ends the transaction; a client has then a 408, which changes nothing.   *)
(* The state is the one that the callback has tested.                      *)

ClientInviteExpires(U, t, i, state) ==
    CASE t = "A" /\ state = "Calling" -> Resend(StartTimer(U, t, 2 * U.value[t], i), i)
      [] \/ t = "B" /\ state = "Calling"
         \/ t = "D" /\ state = "Completed" -> Clear(U, i)
      [] OTHER -> U

ClientNonInviteExpires(U, t, i, state) ==
    CASE t = "E" /\ state = "Trying" ->
           Resend(StartTimer(U, t, AtMost(2 * U.value[t], Timer2), i), i)
      [] t = "E" /\ state = "Proceeding" -> Resend(StartTimer(U, t, Timer2, i), i)
      [] \/ t = "F" /\ state \in {"Trying", "Proceeding"}
         \/ t = "K" /\ state = "Completed" -> Clear(U, i)
      [] OTHER -> U

ServerInviteExpires(U, t, i, state) ==
    CASE t = "G" /\ state = "Completed" ->
           Again(StartTimer(U, t, AtMost(2 * U.value[t], Timer2), i), i)
      [] \/ t = "H" /\ state = "Completed"
         \/ t = "I" /\ state = "Confirmed" -> Clear(U, i)
      [] OTHER -> U

ServerNonInviteExpires(U, i, state) == IF state = "Completed" THEN Clear(U, i) ELSE U

(* Alarm t of transaction i.                                               *)
Expire(U, t, i, state) ==
    CASE t \in Timers["CI"] -> ClientInviteExpires(U, t, i, state)
      [] t \in Timers["CN"] -> ClientNonInviteExpires(U, t, i, state)
      [] t \in Timers["SI"] -> ServerInviteExpires(U, t, i, state)
      [] t \in Timers["SN"] -> ServerNonInviteExpires(U, i, state)

=============================================================================
