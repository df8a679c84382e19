----------------------------- MODULE SipProofs -----------------------------
(***************************************************************************)
(* What holds of the SIP agents of any network, with any number of calls *)
(* and any loss, repetition and reordering of their messages: the types, *)
(* that no session is made up and none is doubled, that the alarms of an *)
(* agent are those that its transactions ask for, and the times at which *)
(* it repeats an INVITE.                                                 *)
(*                                                                       *)
(* Each operation of SipUserAgent is taken apart twice.  The first part  *)
(* shows that it keeps an agent in order (AgentOK) in a world of agents, *)
(* names, calls and sessions begun; the second that it leaves the alarms *)
(* to the transactions (Settled), from within an operation that is about *)
(* one transaction (Unsettled).  The third part puts the agents on the   *)
(* network: the world is a history that every state has and each step    *)
(* continues (SipInv).                                                   *)
(***************************************************************************)
EXTENDS Sip, SequenceLemmas, TLAPS

Types == {"INVITE", "SUBSCRIBE"}

(* What a request asks for besides its method.                           *)
RequestOptions == {"plain", "require", "otherEvent", "expire"}

Fields == {"transactions", "dialogs", "active", "value", "alarm", "forgotten", "shared",
           "out", "told"}

Shape(U) == U = [f \in Fields |-> U[f]]

(* U and V differ in no dialog, transaction or message.                  *)
Alike(V, U) ==
    V.transactions = U.transactions /\ V.dialogs = U.dialogs /\ V.out = U.out

(* The transactions f with transaction id being t.                       *)
With(f, id, t) == [i \in DOMAIN f \cup {id} |-> IF i = id THEN t ELSE f[i]]

(* A transaction that has sent and received nothing but its request.     *)
NewTransaction(kind, state, m) ==
    [kind |-> kind, state |-> state, request |-> m, last |-> Null, tries |-> 0]

(* What each operation on an agent leaves of its fields: a model of an   *)
(* agent is a record, and these lemmas are all that the rest needs of how*)
(* it is written.                                                        *)
LEMMA EnterFields ==
  ASSUME NEW U, Shape(U), NEW i \in DOMAIN U.transactions, NEW s
  PROVE  /\ Shape(Enter(U, i, s))
         /\ Enter(U, i, s).dialogs = U.dialogs /\ Enter(U, i, s).out = U.out
         /\ Enter(U, i, s).alarm = U.alarm /\ Enter(U, i, s).forgotten = U.forgotten
         /\ Enter(U, i, s).value = U.value /\ Enter(U, i, s).shared = U.shared
         /\ Enter(U, i, s).transactions =
              [U.transactions EXCEPT ![i] = [U.transactions[i] EXCEPT !.state = s]]
BY DEF Enter, Shape, Fields

(* The slots f without the timers T.                                     *)
Silenced(f, T) == [t \in DOMAIN f |-> IF t \in T THEN Null ELSE f[t]]

LEMMA StopTimersFields ==
  ASSUME NEW U, Shape(U), NEW T
  PROVE  LET V == StopTimers(U, T)
         IN /\ Shape(V) /\ V.dialogs = U.dialogs /\ V.out = U.out
            /\ V.transactions = U.transactions /\ V.forgotten = U.forgotten
            /\ V.value = U.value /\ V.shared = U.shared
            /\ V.alarm = Silenced(U.alarm, T)
BY DEF StopTimers, Shape, Fields, Silenced

(* The alarms that lose the slot of timer t.                             *)
Overwritten(U, t) == {e \in Set(U) : e.timer = t}

(* The slots f with timer t set for transaction id.                      *)
Armed(f, t, id, ticks) == [f EXCEPT ![t] = [owner |-> id, left |-> ticks]]

LEMMA StartTimerFields ==
  ASSUME NEW U, Shape(U), NEW t, NEW ticks, NEW id
  PROVE  LET V == StartTimer(U, t, ticks, id)
         IN /\ Shape(V) /\ V.dialogs = U.dialogs /\ V.out = U.out
            /\ V.transactions = U.transactions
            /\ V.forgotten = U.forgotten \cup Overwritten(U, t)
            /\ V.shared = U.shared
            /\ V.alarm = Armed(U.alarm, t, id, ticks)
BY DEF StartTimer, Shape, Fields, Overwritten, Armed

(* setTimerValue() keeps the value of a timer that doubles.              *)
LEMMA StartTimerValue ==
  ASSUME NEW U, Shape(U), NEW t, NEW ticks, NEW id
  PROVE  /\ t \in Doubled => StartTimer(U, t, ticks, id).value = [U.value EXCEPT ![t] = ticks]
         /\ t \notin Doubled => StartTimer(U, t, ticks, id).value = U.value
BY DEF StartTimer, Shape, Fields

LEMMA AddTransactionFields ==
  ASSUME NEW U, Shape(U), NEW id, NEW kind, NEW m
  PROVE  LET V == AddTransaction(U, id, kind, m)
         IN /\ Shape(V) /\ V.dialogs = U.dialogs /\ V.out = U.out
            /\ V.alarm = U.alarm /\ V.forgotten = U.forgotten /\ V.value = U.value
            /\ V.transactions = With(U.transactions, id, NewTransaction(kind, "Idle", m))
BY DEF AddTransaction, Shape, Fields, With, NewTransaction

(* A kind of transactions is shared from the second one that lives.      *)
LEMMA AddTransactionShared ==
  ASSUME NEW U, Shape(U), NEW id, NEW kind, NEW m
  PROVE  /\ U.shared \subseteq AddTransaction(U, id, kind, m).shared
         /\ AddTransaction(U, id, kind, m).shared \subseteq U.shared \cup {kind}
         /\ kind \notin AddTransaction(U, id, kind, m).shared => OfKind(U, kind) = {}
BY DEF AddTransaction, Shape, Fields

LEMMA ClearFields ==
  ASSUME NEW U, Shape(U), NEW i
  PROVE  LET V == Clear(U, i)
         IN /\ Shape(V) /\ V.dialogs = U.dialogs /\ V.out = U.out
            /\ V.forgotten = U.forgotten /\ V.value = U.value /\ V.shared = U.shared
            /\ V.alarm = StopTimers(U, Timers[U.transactions[i].kind]).alarm
            /\ V.transactions = [j \in DOMAIN U.transactions \ {i} |-> U.transactions[j]]
<1> DEFINE S == StopTimers(U, Timers[U.transactions[i].kind])
           V == Clear(U, i)
<1>1. /\ Shape(S) /\ S.dialogs = U.dialogs /\ S.out = U.out
      /\ S.transactions = U.transactions /\ S.forgotten = U.forgotten
      /\ S.value = U.value /\ S.shared = U.shared
  BY StopTimersFields
<1> HIDE DEF S
<1>2. V = [S EXCEPT !.transactions = [j \in DOMAIN S.transactions \ {i} |-> S.transactions[j]]]
  BY Zenon DEF Clear, Restrict, S
<1>3. /\ Shape(V) /\ V.dialogs = S.dialogs /\ V.out = S.out /\ V.alarm = S.alarm
      /\ V.forgotten = S.forgotten /\ V.value = S.value /\ V.shared = S.shared
      /\ V.transactions = [j \in DOMAIN S.transactions \ {i} |-> S.transactions[j]]
  BY <1>1, <1>2 DEF Shape, Fields
<1> HIDE DEF V
<1>4. V.transactions = [j \in DOMAIN U.transactions \ {i} |-> U.transactions[j]]
  BY <1>1, <1>3
<1>5. QED
  BY <1>1, <1>3, <1>4 DEF S, V

(* An INVITE that goes out once more is counted.                         *)
Tried(t) == [t EXCEPT !.tries = IF t.kind = "CI" THEN t.tries + 1 ELSE t.tries]

LEMMA ResendFields ==
  ASSUME NEW U, Shape(U), NEW i \in DOMAIN U.transactions
  PROVE  LET V == Resend(U, i)
             t == U.transactions[i]
         IN /\ Shape(V) /\ V.dialogs = U.dialogs /\ V.out = U.out \cup {t.request}
            /\ V.alarm = U.alarm /\ V.forgotten = U.forgotten /\ V.value = U.value
            /\ V.shared = U.shared
            /\ V.transactions = With(U.transactions, i, Tried(t))
BY DEF Resend, Sent, Shape, Fields, With, Tried

LEMMA SentFields ==
  ASSUME NEW U, Shape(U), NEW m
  PROVE  LET V == Sent(U, m)
         IN /\ Shape(V) /\ V.dialogs = U.dialogs /\ V.out = U.out \cup {m}
            /\ V.alarm = U.alarm /\ V.forgotten = U.forgotten /\ V.value = U.value
            /\ V.shared = U.shared /\ V.transactions = U.transactions
BY DEF Sent, Shape, Fields

LEMMA RemoveDialogFields ==
  ASSUME NEW U, Shape(U), NEW k, NEW event
  PROVE  LET V == RemoveDialog(U, k, event)
         IN /\ Shape(V) /\ V.dialogs = RemoveAt(U.dialogs, k) /\ V.out = U.out
            /\ V.alarm = U.alarm /\ V.forgotten = U.forgotten /\ V.value = U.value
            /\ V.shared = U.shared /\ V.transactions = U.transactions
BY DEF RemoveDialog, Tell, Shape, Fields

LEMMA CreateDialogFields ==
  ASSUME NEW U, Shape(U), NEW type, NEW peer, NEW call, NEW tag
  PROVE  LET V == CreateDialog(U, type, peer, call, tag)
         IN /\ Shape(V) /\ V.out = U.out
            /\ V.dialogs = Append(U.dialogs, [type |-> type, peer |-> peer, call |-> call, tag |-> tag])
            /\ V.transactions = U.transactions
BY DEF CreateDialog, AddDialog, Tell, Shape, Fields

LEMMA CreateDialogTimers ==
  ASSUME NEW U, Shape(U), NEW type, NEW peer, NEW call, NEW tag
  PROVE  LET V == CreateDialog(U, type, peer, call, tag)
         IN /\ Shape(V) /\ V.transactions = U.transactions
            /\ V.alarm = U.alarm /\ V.forgotten = U.forgotten /\ V.value = U.value
            /\ V.shared = U.shared
BY DEF CreateDialog, AddDialog, Tell, Shape, Fields

LEMMA TellFields ==
  ASSUME NEW U, Shape(U), NEW event, NEW peer
  PROVE  LET V == Tell(U, event, peer)
         IN /\ Shape(V) /\ V.dialogs = U.dialogs /\ V.out = U.out
            /\ V.alarm = U.alarm /\ V.forgotten = U.forgotten /\ V.value = U.value
            /\ V.shared = U.shared /\ V.transactions = U.transactions
BY DEF Tell, Shape, Fields

-----------------------------------------------------------------------------
(* What the agents, the messages and the names of a network agree on     *)

Messages(W) ==
    [method : Methods, status : {0} \cup 100..699, from : W.peers, to : W.peers,
     branch : 1..W.names, call : 1..W.names, tag : 1..W.names \cup {Null}, option : RequestOptions]

MessageOK(W, m) ==
    /\ m \in Messages(W)
    /\ m.status # 0 => m.tag \in 1..W.names
    /\ W.origin[m.call].type = DialogType(m.method)
    /\ m.method = "INVITE" =>
         /\ m.branch = m.call
         /\ m.status = 0 => /\ m.from = W.origin[m.call].caller
                            /\ m.to = W.origin[m.call].called
                            /\ m.from # m.to
         /\ m.status \in 200..299 /\ m.from \in W.agents => <<m.from, m.call, m.tag>> \in W.begun

Transactions(W) ==
    [kind : DOMAIN Timers, state : States, request : Messages(W),
     last : Messages(W) \cup {Null}, tries : Nat]

TransactionOK(W, a, i, t) ==
    /\ i \in 1..W.names
    /\ t \in Transactions(W)
    /\ MessageOK(W, t.request) /\ t.request.status = 0 /\ t.request.method # "ACK"
    /\ t.last # Null => MessageOK(W, t.last) /\ (t.last.method = "INVITE" => t.last.status >= 300)
    /\ t.kind \in {"CI", "CN"} => t.request.branch = i /\ t.request.from = a
    /\ t.kind \in {"CI", "SI"} <=> t.request.method = "INVITE"

Dialogs(W, a) ==
    {d \in [type : Types, peer : W.peers, call : 1..W.names, tag : 1..W.names] :
        /\ W.origin[d.call].type = d.type
        /\ d.type = "INVITE" /\ d.peer \in W.agents =>
             {<<a, d.call, d.tag>>, <<d.peer, d.call, d.tag>>} \cap W.begun # {}}

DistinctCalls(D) == \A i, j \in DOMAIN D : D[i].call = D[j].call => i = j

Calling(U) ==
    {i \in DOMAIN U.transactions : /\ U.transactions[i].kind = "CI"
                                   /\ U.transactions[i].state \in {"Calling", "Proceeding"}}

AgentOK(W, a, U, x) ==
    /\ Shape(U)
    /\ U.transactions = [i \in DOMAIN U.transactions |-> U.transactions[i]]
    /\ \A i \in DOMAIN U.transactions : TransactionOK(W, a, i, U.transactions[i])
    /\ U.dialogs \in Seq(Dialogs(W, a)) /\ DistinctCalls(U.dialogs)
    /\ \A m \in U.out : MessageOK(W, m)
    /\ \A i \in Calling(U) \ {x} : \A k \in DOMAIN U.dialogs : U.dialogs[k].call # i

(* How the operations keep an agent in order.                            *)
LEMMA AlikeOK ==
  ASSUME NEW W, NEW a, NEW U, NEW x, AgentOK(W, a, U, x), NEW V, Shape(V), Alike(V, U)
  PROVE  AgentOK(W, a, V, x)
BY DEF AgentOK, Alike, Calling

(* A transaction goes to another state; none goes back to awaiting the   *)
(* answer to its INVITE.                                                 *)
LEMMA EnterOK ==
  ASSUME NEW W, NEW a, NEW U, NEW x, AgentOK(W, a, U, x),
         NEW i \in DOMAIN U.transactions, NEW s \in States,
         \/ s \notin {"Calling", "Proceeding"} \/ U.transactions[i].kind # "CI"
         \/ i \in Calling(U)
  PROVE  AgentOK(W, a, Enter(U, i, s), x)
<1> DEFINE V == Enter(U, i, s)
<1>1. /\ Shape(V) /\ V.dialogs = U.dialogs /\ V.out = U.out
      /\ V.transactions = [U.transactions EXCEPT ![i] = [U.transactions[i] EXCEPT !.state = s]]
  BY EnterFields DEF AgentOK
<1> HIDE DEF V
<1> DEFINE t == U.transactions[i]
           n == [t EXCEPT !.state = s]
<1>2. TransactionOK(W, a, i, t)
  BY DEF AgentOK
<1>3. TransactionOK(W, a, i, n) /\ n.kind = t.kind /\ n.state = s
  <2> HIDE DEF t
  <2> QED
    BY <1>2 DEF TransactionOK, Transactions
<1> HIDE DEF n
<1>4. ASSUME NEW j \in DOMAIN V.transactions
      PROVE  /\ j \in DOMAIN U.transactions
             /\ V.transactions[j] = IF j = i THEN n ELSE U.transactions[j]
             /\ TransactionOK(W, a, j, V.transactions[j])
  BY <1>1, <1>3 DEF AgentOK, n
<1>5. Calling(V) \subseteq Calling(U)
  BY <1>1, <1>4, <1>3 DEF Calling
<1>6. V.transactions = [j \in DOMAIN V.transactions |-> V.transactions[j]]
  BY <1>1
<1>7. QED
  BY <1>1, <1>4, <1>5, <1>6 DEF AgentOK, V

(* A transaction is destroyed; if it was x that had its answer, nothing  *)
(* is left to except.                                                    *)
LEMMA ClearOK ==
  ASSUME NEW W, NEW a, NEW U, NEW x, AgentOK(W, a, U, x), NEW i
  PROVE  AgentOK(W, a, Clear(U, i), x) /\ (x = i => AgentOK(W, a, Clear(U, i), 0))
<1> DEFINE V == Clear(U, i)
<1>1. /\ Shape(V) /\ V.dialogs = U.dialogs /\ V.out = U.out
      /\ V.transactions = [j \in DOMAIN U.transactions \ {i} |-> U.transactions[j]]
  BY ClearFields, ZenonT(60) DEF AgentOK
<1> HIDE DEF V
<1>2. Calling(V) \subseteq Calling(U) \ {i}
  BY <1>1 DEF Calling
<1>3. QED
  BY <1>1, <1>2 DEF AgentOK, V

LEMMA ResendOK ==
  ASSUME NEW W, NEW a, NEW U, NEW x, AgentOK(W, a, U, x), NEW i \in DOMAIN U.transactions
  PROVE  AgentOK(W, a, Resend(U, i), x)
<1> DEFINE V == Resend(U, i)
           t == U.transactions[i]
           n == Tried(t)
<1>1. /\ Shape(V) /\ V.dialogs = U.dialogs /\ V.out = U.out \cup {t.request}
      /\ V.transactions = [U.transactions EXCEPT ![i] = n]
  <2>1. Shape(U) /\ U.transactions = [j \in DOMAIN U.transactions |-> U.transactions[j]]
    BY DEF AgentOK
  <2>2. /\ Shape(V) /\ V.dialogs = U.dialogs /\ V.out = U.out \cup {t.request}
        /\ V.transactions = With(U.transactions, i, n)
    BY <2>1, ResendFields
  <2> HIDE DEF V, n, t
  <2>3. V.transactions = [U.transactions EXCEPT ![i] = n]
    BY <2>1, <2>2 DEF With
  <2>4. QED
    BY <2>2, <2>3
<1>2. TransactionOK(W, a, i, t)
  BY DEF AgentOK
<1>3. /\ TransactionOK(W, a, i, n) /\ n.kind = t.kind /\ n.state = t.state
  <2> HIDE DEF t
  <2> QED
    BY <1>2 DEF TransactionOK, Transactions, Tried
<1> HIDE DEF V, n
<1>4. Calling(V) = Calling(U)
  BY <1>1, <1>3 DEF Calling
<1>5. /\ V.transactions = [j \in DOMAIN V.transactions |-> V.transactions[j]]
      /\ \A j \in DOMAIN V.transactions : TransactionOK(W, a, j, V.transactions[j])
  BY <1>1, <1>3 DEF AgentOK
<1>6. \A m \in V.out : MessageOK(W, m)
  BY <1>1, <1>2 DEF AgentOK, TransactionOK
<1>7. QED
  BY <1>1, <1>4, <1>5, <1>6 DEF AgentOK, V

LEMMA SentOK ==
  ASSUME NEW W, NEW a, NEW U, NEW x, AgentOK(W, a, U, x), NEW m, MessageOK(W, m)
  PROVE  AgentOK(W, a, Sent(U, m), x)
<1> DEFINE V == Sent(U, m)
<1>1. /\ Shape(V) /\ V.dialogs = U.dialogs /\ V.out = U.out \cup {m}
      /\ V.transactions = U.transactions
  BY SentFields DEF AgentOK
<1> HIDE DEF V
<1>2. QED
  BY <1>1 DEF AgentOK, Calling, V

(* The other dialogs keep their calls.                                   *)
LEMMA RemoveDialogOK ==
  ASSUME NEW W, NEW a, NEW U, NEW x, AgentOK(W, a, U, x),
         NEW k \in 1..Len(U.dialogs), NEW event
  PROVE  AgentOK(W, a, RemoveDialog(U, k, event), x)
<1> DEFINE V == RemoveDialog(U, k, event)
<1>1. /\ Shape(V) /\ V.dialogs = RemoveAt(U.dialogs, k) /\ V.out = U.out
      /\ V.transactions = U.transactions
  BY RemoveDialogFields DEF AgentOK
<1> HIDE DEF V
<1>2. U.dialogs \in Seq(Dialogs(W, a)) /\ Len(U.dialogs) \in Nat
  BY DEF AgentOK
<1>3. /\ V.dialogs \in Seq(Dialogs(W, a)) /\ Len(V.dialogs) = Len(U.dialogs) - 1
      /\ \A i \in 1..Len(U.dialogs)-1 : V.dialogs[i] = IF i < k THEN U.dialogs[i] ELSE U.dialogs[i+1]
  BY <1>1, <1>2, RemoveAtElements
<1>4. DOMAIN V.dialogs = 1..Len(U.dialogs)-1 /\ DOMAIN U.dialogs = 1..Len(U.dialogs)
  BY <1>2, <1>3
<1> DEFINE p(i) == IF i < k THEN i ELSE i + 1
<1>5. \A i \in DOMAIN V.dialogs : p(i) \in DOMAIN U.dialogs /\ V.dialogs[i] = U.dialogs[p(i)]
  BY <1>2, <1>3, <1>4
<1>6. \A i, j \in DOMAIN V.dialogs : p(i) = p(j) => i = j
  BY <1>2, <1>4
<1> HIDE DEF p
<1>7. DistinctCalls(V.dialogs)
  BY <1>5, <1>6 DEF AgentOK, DistinctCalls
<1>8. ASSUME NEW i \in Calling(V) \ {x}, NEW j \in DOMAIN V.dialogs
      PROVE  V.dialogs[j].call # i
  BY <1>1, <1>5 DEF AgentOK, Calling
<1>9. QED
  BY <1>1, <1>3, <1>7, <1>8 DEF AgentOK, V

(* A dialog begins, of a call that no other has, and that no INVITE under*)
(* way has but x.                                                        *)
LEMMA CreateDialogOK ==
  ASSUME NEW W, NEW a, NEW U, NEW x, AgentOK(W, a, U, x),
         NEW type, NEW peer, NEW call, NEW tag,
         [type |-> type, peer |-> peer, call |-> call, tag |-> tag] \in Dialogs(W, a),
         \A k \in DOMAIN U.dialogs : U.dialogs[k].call # call,
         call \notin Calling(U) \ {x}
  PROVE  AgentOK(W, a, CreateDialog(U, type, peer, call, tag), x)
<1> DEFINE V == CreateDialog(U, type, peer, call, tag)
           d == [type |-> type, peer |-> peer, call |-> call, tag |-> tag]
<1>1. /\ Shape(V) /\ V.dialogs = Append(U.dialogs, d) /\ V.out = U.out
      /\ V.transactions = U.transactions
  BY CreateDialogFields DEF AgentOK
<1>2. d.call = call /\ d \in Dialogs(W, a)
  OBVIOUS
<1> HIDE DEF V, d
<1>3. U.dialogs \in Seq(Dialogs(W, a)) /\ Len(U.dialogs) \in Nat
  BY DEF AgentOK
<1>4. /\ V.dialogs \in Seq(Dialogs(W, a)) /\ DOMAIN V.dialogs = 1..Len(U.dialogs)+1
      /\ DOMAIN U.dialogs = 1..Len(U.dialogs)
      /\ \A i \in 1..Len(U.dialogs) : V.dialogs[i] = U.dialogs[i]
      /\ V.dialogs[Len(U.dialogs)+1] = d
  BY <1>1, <1>2, <1>3
<1>5. DistinctCalls(V.dialogs)
  <2>1. \A i \in 1..Len(U.dialogs) : V.dialogs[i].call # d.call
    BY <1>2, <1>4
  <2>2. ASSUME NEW i \in DOMAIN V.dialogs, NEW j \in DOMAIN V.dialogs,
               V.dialogs[i].call = V.dialogs[j].call
        PROVE  i = j
    <3>1. CASE i \in 1..Len(U.dialogs) /\ j \in 1..Len(U.dialogs)
      BY <2>2, <3>1, <1>4 DEF AgentOK, DistinctCalls
    <3>2. CASE i \notin 1..Len(U.dialogs) \/ j \notin 1..Len(U.dialogs)
      BY <2>1, <2>2, <3>2, <1>3, <1>4, SMTT(20)
    <3>3. QED
      BY <3>1, <3>2
  <2>3. QED
    BY <2>2 DEF DistinctCalls
<1>6. ASSUME NEW i \in Calling(V) \ {x}, NEW j \in DOMAIN V.dialogs
      PROVE  V.dialogs[j].call # i
  BY <1>1, <1>2, <1>3, <1>4 DEF AgentOK, Calling
<1>7. QED
  BY <1>1, <1>4, <1>5, <1>6 DEF AgentOK, V

LEMMA StartTimerOK ==
  ASSUME NEW W, NEW a, NEW U, NEW x, AgentOK(W, a, U, x), NEW t, NEW ticks, NEW id
  PROVE  AgentOK(W, a, StartTimer(U, t, ticks, id), x)
<1>1. Shape(U)
  BY DEF AgentOK
<1>2. Shape(StartTimer(U, t, ticks, id)) /\ Alike(StartTimer(U, t, ticks, id), U)
  BY <1>1, StartTimerFields DEF Alike
<1>3. QED
  BY <1>2, AlikeOK

LEMMA StopTimersOK ==
  ASSUME NEW W, NEW a, NEW U, NEW x, AgentOK(W, a, U, x), NEW T
  PROVE  AgentOK(W, a, StopTimers(U, T), x)
<1>1. Shape(U)
  BY DEF AgentOK
<1>2. Shape(StopTimers(U, T)) /\ Alike(StopTimers(U, T), U)
  BY <1>1, StopTimersFields DEF Alike
<1>3. QED
  BY <1>2, AlikeOK

LEMMA TellOK ==
  ASSUME NEW W, NEW a, NEW U, NEW x, AgentOK(W, a, U, x), NEW event, NEW peer
  PROVE  AgentOK(W, a, Tell(U, event, peer), x)
<1>1. Shape(U)
  BY DEF AgentOK
<1>2. Shape(Tell(U, event, peer)) /\ Alike(Tell(U, event, peer), U)
  BY <1>1, TellFields DEF Alike
<1>3. QED
  BY <1>2, AlikeOK

Began(U, id, kind, m, state) == Enter(AddTransaction(U, id, kind, m), id, state)

(* A new transaction in its first state.                                 *)
LEMMA BeganFields ==
  ASSUME NEW U, Shape(U), NEW id, NEW kind, NEW m, NEW state
  PROVE  LET V == Began(U, id, kind, m, state)
         IN /\ Shape(V) /\ V.dialogs = U.dialogs /\ V.out = U.out
            /\ V.alarm = U.alarm /\ V.forgotten = U.forgotten /\ V.value = U.value
            /\ V.transactions = With(U.transactions, id, NewTransaction(kind, state, m))
<1> DEFINE A == AddTransaction(U, id, kind, m)
           V == Began(U, id, kind, m, state)
           n == NewTransaction(kind, "Idle", m)
<1>1. /\ Shape(A) /\ A.dialogs = U.dialogs /\ A.out = U.out
      /\ A.alarm = U.alarm /\ A.forgotten = U.forgotten /\ A.value = U.value
      /\ A.transactions = With(U.transactions, id, n)
  BY AddTransactionFields
<1>2. V = Enter(A, id, state)
  BY DEF Began
<1> HIDE DEF A, V, n
<1>3. id \in DOMAIN A.transactions /\ A.transactions[id] = n
  BY <1>1 DEF With
<1>4. /\ Shape(V) /\ V.dialogs = A.dialogs /\ V.out = A.out /\ V.alarm = A.alarm
      /\ V.forgotten = A.forgotten /\ V.value = A.value
      /\ V.transactions =
            [A.transactions EXCEPT ![id] = [A.transactions[id] EXCEPT !.state = state]]
  BY <1>1, <1>2, <1>3, EnterFields
<1>5. [n EXCEPT !.state = state] = NewTransaction(kind, state, m)
  BY DEF n, NewTransaction
<1>6. V.transactions = With(U.transactions, id, [n EXCEPT !.state = state])
  BY <1>1, <1>3, <1>4 DEF With
<1>7. /\ Shape(V) /\ V.dialogs = U.dialogs /\ V.out = U.out
      /\ V.alarm = U.alarm /\ V.forgotten = U.forgotten /\ V.value = U.value
  BY <1>1, <1>4
<1>8. V.transactions = With(U.transactions, id, NewTransaction(kind, state, m))
  BY <1>5, <1>6
<1>9. QED
  BY <1>7, <1>8 DEF V

LEMMA BeganShared ==
  ASSUME NEW U, Shape(U), NEW id, NEW kind, NEW m, NEW state
  PROVE  /\ U.shared \subseteq Began(U, id, kind, m, state).shared
         /\ Began(U, id, kind, m, state).shared \subseteq U.shared \cup {kind}
         /\ kind \notin Began(U, id, kind, m, state).shared => OfKind(U, kind) = {}
<1> DEFINE A == AddTransaction(U, id, kind, m)
           n == NewTransaction(kind, "Idle", m)
<1>1. Shape(A) /\ A.transactions = With(U.transactions, id, n)
  BY AddTransactionFields
<1>2. /\ U.shared \subseteq A.shared /\ A.shared \subseteq U.shared \cup {kind}
      /\ kind \notin A.shared => OfKind(U, kind) = {}
  BY AddTransactionShared
<1> HIDE DEF A, n
<1>3. Shape(A) /\ id \in DOMAIN A.transactions
  BY <1>1 DEF With
<1>4. Enter(A, id, state).shared = A.shared
  BY <1>3, EnterFields, ZenonT(60)
<1>5. QED
  BY <1>2, <1>4 DEF Began, A

LEMMA BeganOK ==
  ASSUME NEW W, NEW a, NEW U, NEW x, AgentOK(W, a, U, x),
         NEW id \in 1..W.names, id \notin DOMAIN U.transactions,
         NEW kind \in DOMAIN Timers, NEW state \in States,
         NEW m, MessageOK(W, m), m.status = 0, m.method # "ACK",
         kind \in {"CI", "CN"} => m.branch = id /\ m.from = a,
         kind \in {"CI", "SI"} <=> m.method = "INVITE",
         kind = "CI" => \A k \in DOMAIN U.dialogs : U.dialogs[k].call # id
  PROVE  /\ AgentOK(W, a, Began(U, id, kind, m, state), x)
         /\ DOMAIN Began(U, id, kind, m, state).transactions = DOMAIN U.transactions \cup {id}
<1> DEFINE V == Began(U, id, kind, m, state)
           n == NewTransaction(kind, state, m)
<1>1. Shape(U)
  BY DEF AgentOK
<1>2. /\ Shape(V) /\ V.dialogs = U.dialogs /\ V.out = U.out
      /\ V.transactions = With(U.transactions, id, n)
  BY <1>1, BeganFields
<1>3. /\ Shape(V) /\ V.dialogs = U.dialogs /\ V.out = U.out
      /\ V.transactions =
            [i \in DOMAIN U.transactions \cup {id} |-> IF i = id THEN n ELSE U.transactions[i]]
  <2> HIDE DEF V, n
  <2> QED
    BY <1>2 DEF With
<1>4. n \in Transactions(W)
  BY DEF Transactions, MessageOK, NewTransaction
<1>5. TransactionOK(W, a, id, n) /\ n.kind = kind /\ n.state = state
  BY <1>4 DEF TransactionOK, NewTransaction
<1> HIDE DEF V, n
<1>6. Calling(V) \subseteq Calling(U) \cup {id} /\ (kind # "CI" => id \notin Calling(V))
  BY <1>3, <1>5 DEF Calling
<1>7. /\ V.transactions = [j \in DOMAIN V.transactions |-> V.transactions[j]]
      /\ \A j \in DOMAIN V.transactions : TransactionOK(W, a, j, V.transactions[j])
  BY <1>3, <1>5 DEF AgentOK
<1>8. \A i \in Calling(V) \ {x} : \A k \in DOMAIN V.dialogs : V.dialogs[k].call # i
  BY <1>3, <1>6 DEF AgentOK
<1>9. AgentOK(W, a, V, x)
  BY <1>3, <1>7, <1>8 DEF AgentOK
<1>10. QED
  BY <1>3, <1>9 DEF V

(* The transaction that sendRequest() begins, of its kind and first state. *)
Opened(U, m) ==
    IF m.method = "INVITE" THEN Began(U, m.branch, "CI", m, "Calling")
    ELSE Began(U, m.branch, "CN", m, "Trying")

LEMMA SendIs ==
  ASSUME NEW U, NEW m
  PROVE  Send(U, m) = Resend(Opened(U, m), m.branch)
BY DEF Send, SendInvite, SendNonInvite, Opened, Began

(* UserAgentClient::sendRequest() up to the message: the name of the     *)
(* branch is new, and so is the call of an INVITE.                       *)
LEMMA SendOK ==
  ASSUME NEW W, NEW a, NEW U, NEW x, AgentOK(W, a, U, x),
         NEW m, MessageOK(W, m), m.status = 0, m.method # "ACK", m.from = a,
         m.branch \notin DOMAIN U.transactions,
         m.method = "INVITE" => \A k \in DOMAIN U.dialogs : U.dialogs[k].call # m.branch
  PROVE  AgentOK(W, a, Send(U, m), x)
<1> DEFINE id == m.branch
           B == Opened(U, m)
<1>1. id \in 1..W.names
  BY DEF MessageOK, Messages
<1>2. AgentOK(W, a, B, x) /\ DOMAIN B.transactions = DOMAIN U.transactions \cup {id}
  <2>1. CASE m.method = "INVITE"
    <3>1. "CI" \in DOMAIN Timers /\ "Calling" \in States
      BY DEF Timers, States
    <3> DEFINE V == Began(U, id, "CI", m, "Calling")
    <3>2. B = V
      BY <2>1 DEF Opened
    <3> HIDE DEF B, V
    <3>3. AgentOK(W, a, V, x) /\ DOMAIN V.transactions = DOMAIN U.transactions \cup {id}
      BY <1>1, <2>1, <3>1, BeganOK DEF V
    <3>4. QED
      BY <3>2, <3>3
  <2>2. CASE m.method # "INVITE"
    <3>1. "CN" \in DOMAIN Timers /\ "Trying" \in States
      BY DEF Timers, States
    <3> DEFINE V == Began(U, id, "CN", m, "Trying")
    <3>2. B = V
      BY <2>2 DEF Opened
    <3> HIDE DEF B, V
    <3>3. AgentOK(W, a, V, x) /\ DOMAIN V.transactions = DOMAIN U.transactions \cup {id}
      BY <1>1, <2>2, <3>1, BeganOK DEF V
    <3>4. QED
      BY <3>2, <3>3
  <2>3. QED
    BY <2>1, <2>2
<1> HIDE DEF B
<1>3. AgentOK(W, a, Resend(B, id), x)
  BY <1>2, ResendOK
<1>4. QED
  BY <1>3, SendIs DEF B

LEMMA StartFirstOK ==
  ASSUME NEW W, NEW a, NEW U, NEW x, AgentOK(W, a, U, x), NEW t, NEW id
  PROVE  AgentOK(W, a, StartFirst(U, t, id), x)
BY StartTimerOK DEF StartFirst

(* ... and the whole of it.                                              *)
LEMMA SendRequestOK ==
  ASSUME NEW W, NEW a, NEW U, NEW x, AgentOK(W, a, U, x),
         NEW m, MessageOK(W, m), m.status = 0, m.method # "ACK", m.from = a,
         m.branch \notin DOMAIN U.transactions,
         m.method = "INVITE" => \A k \in DOMAIN U.dialogs : U.dialogs[k].call # m.branch
  PROVE  AgentOK(W, a, SendRequest(U, m), x)
<1> DEFINE S == Send(U, m)
           t == FirstTimers(m)
<1>1. AgentOK(W, a, S, x)
  BY SendOK
<1> HIDE DEF S, t
<1>2. AgentOK(W, a, StartFirst(S, t[1], m.branch), x)
  BY <1>1, StartFirstOK
<1>3. AgentOK(W, a, StartFirst(StartFirst(S, t[1], m.branch), t[2], m.branch), x)
  BY <1>2, StartFirstOK
<1>4. QED
  BY <1>3 DEF SendRequest, S, t

(* The first place of a list that passes a test.                         *)
LEMMA MinOfNaturals ==
  ASSUME NEW I \in SUBSET Nat, I # {}
  PROVE  Min(I) \in I
BY LeastNatural DEF Min

(* matchingDialog() and dialogWith() find a dialog as asked for, or none.*)
LEMMA DialogOfIs ==
  ASSUME NEW U, NEW m, NEW D, U.dialogs \in Seq(D)
  PROVE  /\ DialogOf(U, m) \in 0..Len(U.dialogs)
         /\ DialogOf(U, m) # 0 => U.dialogs[DialogOf(U, m)].call = m.call
         /\ DialogOf(U, m) = 0 /\ m.tag = Null =>
              \A k \in DOMAIN U.dialogs :
                 U.dialogs[k].type = DialogType(m.method) => U.dialogs[k].call # m.call
<1> DEFINE L == U.dialogs
           I == {k \in 1..Len(L) : /\ L[k].type = DialogType(m.method) /\ L[k].call = m.call
                                   /\ m.tag \in {Null, L[k].tag}}
<1>1. DialogOf(U, m) = IF I # {} THEN Min(I) ELSE 0
  BY DEF DialogOf, SelectInSeq
<1>2. I \in SUBSET Nat /\ DOMAIN L = 1..Len(L) /\ Len(L) \in Nat
  OBVIOUS
<1>3. I # {} => Min(I) \in I
  <2> HIDE DEF I
  <2> QED
    BY <1>2, MinOfNaturals
<1>4. \A k \in I : k \in 1..Len(L) /\ k # 0 /\ L[k].call = m.call
  BY <1>2
<1>5. I = {} /\ m.tag = Null =>
        \A k \in 1..Len(L) : L[k].type = DialogType(m.method) => L[k].call # m.call
  OBVIOUS
<1> HIDE DEF I
<1>6. DialogOf(U, m) \in I \/ (DialogOf(U, m) = 0 /\ I = {})
  BY <1>1, <1>3
<1>7. Len(L) \in Nat /\ DOMAIN L = 1..Len(L)
  BY <1>2
<1>8. QED
  BY <1>4, <1>5, <1>6, <1>7

LEMMA DialogWithIs ==
  ASSUME NEW U, NEW peer, NEW type, NEW D, U.dialogs \in Seq(D)
  PROVE  /\ DialogWith(U, peer, type) \in 0..Len(U.dialogs)
         /\ DialogWith(U, peer, type) # 0 =>
              /\ U.dialogs[DialogWith(U, peer, type)].type = type
              /\ U.dialogs[DialogWith(U, peer, type)].peer = peer
<1> DEFINE L == U.dialogs
           I == {k \in 1..Len(L) : L[k].type = type /\ L[k].peer = peer}
<1>1. DialogWith(U, peer, type) = IF I # {} THEN Min(I) ELSE 0
  BY DEF DialogWith, SelectInSeq
<1>2. I \in SUBSET Nat /\ DOMAIN L = 1..Len(L) /\ Len(L) \in Nat
  OBVIOUS
<1>3. I # {} => Min(I) \in I
  <2> HIDE DEF I
  <2> QED
    BY <1>2, MinOfNaturals
<1>4. QED
  BY <1>1, <1>2, <1>3

(* Messages                                                              *)

(* The classes of responses.                                             *)
LEMMA FinalClasses ==
  ASSUME NEW s
  PROVE  /\ s \in 200..699 <=> s \in 200..299 \/ s \in 300..699
         /\ s \in {0} \cup 100..699 /\ s # 0 => s \in 100..199 \/ s \in 200..699
OBVIOUS

MessageFields == {"method", "status", "from", "to", "branch", "call", "tag", "option"}

(* What it is to be a message, field by field.                           *)
LEMMA MessageIs ==
  ASSUME NEW W, NEW m
  PROVE  m \in Messages(W) <=>
           /\ m = [f \in MessageFields |-> m[f]]
           /\ m.method \in Methods /\ m.status \in {0} \cup 100..699
           /\ m.from \in W.peers /\ m.to \in W.peers
           /\ m.branch \in 1..W.names /\ m.call \in 1..W.names
           /\ m.tag \in 1..W.names \cup {Null} /\ m.option \in RequestOptions
<1>1. ASSUME m \in Messages(W)
      PROVE  /\ m = [f \in MessageFields |-> m[f]]
             /\ m.method \in Methods /\ m.status \in {0} \cup 100..699
             /\ m.from \in W.peers /\ m.to \in W.peers
             /\ m.branch \in 1..W.names /\ m.call \in 1..W.names
             /\ m.tag \in 1..W.names \cup {Null} /\ m.option \in RequestOptions
  BY <1>1 DEF Messages, MessageFields
<1>2. ASSUME m = [f \in MessageFields |-> m[f]],
             m.method \in Methods, m.status \in {0} \cup 100..699,
             m.from \in W.peers, m.to \in W.peers,
             m.branch \in 1..W.names, m.call \in 1..W.names,
             m.tag \in 1..W.names \cup {Null}, m.option \in RequestOptions
      PROVE  m \in Messages(W)
  BY <1>2 DEF Messages, MessageFields
<1>3. QED
  BY <1>1, <1>2

(* The tag of a response to m.                                           *)
Tagged(m, tag) == IF m.tag = Null THEN tag ELSE m.tag

Accepts(m, status) == m.method = "INVITE" /\ status \in 200..299

Begins(W, m, tag) == <<m.to, m.call, tag>> \in W.begun

(* createResponse()                                                      *)
LEMMA ResponseFields ==
  ASSUME NEW W, NEW m, m \in Messages(W), NEW status, NEW tag
  PROVE  Response(m, status, tag).status = status /\ Response(m, status, tag).method = m.method
<1>1. m = [f \in MessageFields |-> m[f]]
  BY MessageIs
<1>2. QED
  BY <1>1 DEF Response, MessageFields

(* A response agrees with the world, if the session that it accepts has  *)
(* begun there.                                                          *)
LEMMA ResponseOK ==
  ASSUME NEW W, NEW m, MessageOK(W, m), m.status = 0, NEW status \in 100..699, NEW tag,
         m.tag = Null => tag \in 1..W.names,
         Accepts(m, status) /\ m.to \in W.agents => Begins(W, m, Tagged(m, tag))
  PROVE  MessageOK(W, Response(m, status, tag))
<1> DEFINE r == Response(m, status, tag)
           g == Tagged(m, tag)
<1>1. m \in Messages(W)
  BY DEF MessageOK
<1>2. g \in 1..W.names
  BY <1>1 DEF Messages, Tagged
<1>3. /\ r.method = m.method /\ r.status = status /\ r.from = m.to /\ r.to = m.from
      /\ r.branch = m.branch /\ r.call = m.call /\ r.tag = g
  BY <1>1 DEF Response, Messages, Tagged
<1>4. r \in Messages(W)
  <2>1. m = [f \in MessageFields |-> m[f]]
    BY <1>1, MessageIs
  <2>2. r = [f \in MessageFields |-> r[f]] /\ r.option = "plain"
    BY <2>1 DEF Response, MessageFields
  <2> HIDE DEF r, g
  <2>3. QED
    BY <1>1, <1>2, <1>3, <2>2, MessageIs DEF RequestOptions
<1> HIDE DEF r
<1>5. status # 0 /\ status \notin {0}
  OBVIOUS
<1>6. MessageOK(W, r)
  BY <1>2, <1>3, <1>4, <1>5 DEF MessageOK, Begins, Accepts
<1>7. QED
  BY <1>3, <1>6 DEF r

(* A request within a dialog belongs to the call of the dialog.          *)
LEMMA WithinOK ==
  ASSUME NEW W, NEW a \in W.peers, NEW U, U.dialogs \in Seq(Dialogs(W, a)),
         NEW k \in 1..Len(U.dialogs), NEW id \in 1..W.names,
         NEW method \in Methods \ {"INVITE"}, DialogType(method) = U.dialogs[k].type
  PROVE  /\ MessageOK(W, Within(U, k, method, a, id))
         /\ Within(U, k, method, a, id).branch = id /\ Within(U, k, method, a, id).from = a
         /\ Within(U, k, method, a, id).status = 0 /\ Within(U, k, method, a, id).method = method
<1> DEFINE m == Within(U, k, method, a, id)
           d == U.dialogs[k]
<1>1. d \in Dialogs(W, a)
  OBVIOUS
<1>2. m = [method |-> method, status |-> 0, from |-> a, to |-> d.peer,
           branch |-> id, call |-> d.call, tag |-> d.tag, option |-> "plain"]
  BY DEF Within, Request
<1> HIDE DEF m, d
<1>3. m \in Messages(W)
  BY <1>1, <1>2 DEF Messages, Dialogs, RequestOptions
<1>4. W.origin[m.call].type = DialogType(m.method)
  BY <1>1, <1>2 DEF Dialogs, d
<1>5. QED
  BY <1>2, <1>3, <1>4 DEF MessageOK, m

(* The ACK of an INVITE belongs to its call.                             *)
LEMMA AckOK ==
  ASSUME NEW W, NEW m, MessageOK(W, m), m.status = 0, m.method = "INVITE",
         NEW tag \in 1..W.names
  PROVE  MessageOK(W, [m EXCEPT !.method = "ACK", !.tag = tag])
<1> DEFINE n == [m EXCEPT !.method = "ACK", !.tag = tag]
<1>1. m \in Messages(W)
  BY DEF MessageOK
<1>2. /\ n = [f \in MessageFields |-> n[f]]
      /\ n.method = "ACK" /\ n.status = m.status /\ n.from = m.from /\ n.to = m.to
      /\ n.branch = m.branch /\ n.call = m.call /\ n.tag = tag /\ n.option = m.option
  <2>1. m = [f \in MessageFields |-> m[f]]
    BY <1>1, MessageIs
  <2>2. QED
    BY <2>1 DEF MessageFields
<1> HIDE DEF n
<1>3. n \in Messages(W)
  BY <1>1, <1>2, MessageIs DEF Methods
<1>4. W.origin[n.call].type = DialogType(n.method)
  BY <1>2 DEF MessageOK, DialogType
<1>5. MessageOK(W, n)
  BY <1>2, <1>3, <1>4 DEF MessageOK
<1>6. QED
  BY <1>5 DEF n

(* A response leaves a transaction completed, or gone                    *)

(* The response that answers a request once more.                        *)
LEMMA LastFields ==
  ASSUME NEW U, Shape(U), NEW i \in DOMAIN U.transactions, NEW r
  PROVE  LET V == [U EXCEPT !.transactions[i].last = r]
         IN /\ Shape(V) /\ V.dialogs = U.dialogs /\ V.out = U.out
            /\ V.alarm = U.alarm /\ V.forgotten = U.forgotten /\ V.value = U.value
            /\ V.shared = U.shared
            /\ V.transactions =
                 [U.transactions EXCEPT ![i] = [U.transactions[i] EXCEPT !.last = r]]
BY DEF Shape, Fields

LEMMA LastOK ==
  ASSUME NEW W, NEW a, NEW U, NEW x, AgentOK(W, a, U, x), NEW i \in DOMAIN U.transactions,
         NEW r, MessageOK(W, r), r.method = "INVITE" => r.status >= 300
  PROVE  AgentOK(W, a, [U EXCEPT !.transactions[i].last = r], x)
<1> DEFINE V == [U EXCEPT !.transactions[i].last = r]
           t == U.transactions[i]
           n == [t EXCEPT !.last = r]
<1>1. Shape(U) /\ TransactionOK(W, a, i, t)
  BY DEF AgentOK
<1>2. /\ Shape(V) /\ V.dialogs = U.dialogs /\ V.out = U.out
      /\ V.transactions = [U.transactions EXCEPT ![i] = n]
  BY <1>1, LastFields
<1>3. TransactionOK(W, a, i, n) /\ n.kind = t.kind /\ n.state = t.state
  <2> HIDE DEF t
  <2> QED
    BY <1>1 DEF TransactionOK, Transactions, MessageOK
<1> HIDE DEF V, n
<1>4. Calling(V) = Calling(U)
  BY <1>2, <1>3 DEF Calling
<1>5. /\ V.transactions = [j \in DOMAIN V.transactions |-> V.transactions[j]]
      /\ \A j \in DOMAIN V.transactions : TransactionOK(W, a, j, V.transactions[j])
  BY <1>2, <1>3 DEF AgentOK
<1>6. AgentOK(W, a, V, x)
  BY <1>2, <1>4, <1>5 DEF AgentOK
<1>7. QED
  BY <1>6 DEF V

(* The first steps of a response.                                        *)
Completed(t, r) == [t EXCEPT !.state = "Completed", !.last = r]

Answered(U, i, r) == [Enter(Sent(U, r), i, "Completed") EXCEPT !.transactions[i].last = r]

(* A request has its final response.                                     *)
LEMMA AnsweredFields ==
  ASSUME NEW U, Shape(U), NEW i \in DOMAIN U.transactions, NEW r
  PROVE  LET V == Answered(U, i, r)
         IN /\ Shape(V) /\ V.dialogs = U.dialogs
            /\ V.alarm = U.alarm /\ V.forgotten = U.forgotten /\ V.value = U.value
            /\ V.shared = U.shared
            /\ V.transactions = With(U.transactions, i, Completed(U.transactions[i], r))
<1> DEFINE S == Sent(U, r)
           E == Enter(S, i, "Completed")
           V == [E EXCEPT !.transactions[i].last = r]
<1>1. /\ Shape(S) /\ S.dialogs = U.dialogs /\ S.alarm = U.alarm /\ S.forgotten = U.forgotten
      /\ S.value = U.value /\ S.shared = U.shared /\ S.transactions = U.transactions
  BY SentFields
<1> HIDE DEF S
<1>2. /\ Shape(E) /\ E.dialogs = S.dialogs /\ E.alarm = S.alarm /\ E.forgotten = S.forgotten
      /\ E.value = S.value /\ E.shared = S.shared
      /\ E.transactions = [S.transactions EXCEPT ![i] = [S.transactions[i] EXCEPT !.state = "Completed"]]
  BY <1>1, EnterFields
<1> HIDE DEF E
<1>3. i \in DOMAIN E.transactions
  BY <1>1, <1>2
<1>4. /\ Shape(V) /\ V.dialogs = E.dialogs /\ V.alarm = E.alarm /\ V.forgotten = E.forgotten
      /\ V.value = E.value /\ V.shared = E.shared
      /\ V.transactions = [E.transactions EXCEPT ![i] = [E.transactions[i] EXCEPT !.last = r]]
  BY <1>2, <1>3, LastFields
<1> HIDE DEF V
<1>5. V.transactions = With(U.transactions, i, Completed(U.transactions[i], r))
  <2> DEFINE t == U.transactions[i]
             n == [t EXCEPT !.state = "Completed"]
  <2>1. E.transactions = [U.transactions EXCEPT ![i] = n]
    BY <1>1, <1>2
  <2>2. [n EXCEPT !.last = r] = Completed(t, r)
    BY DEF Completed
  <2> HIDE DEF n
  <2>3. V.transactions = [U.transactions EXCEPT ![i] = [n EXCEPT !.last = r]]
    BY <2>1, <1>1, <1>4
  <2>4. QED
    BY <2>2, <2>3 DEF With
<1>6. /\ Shape(V) /\ V.dialogs = U.dialogs
      /\ V.alarm = U.alarm /\ V.forgotten = U.forgotten /\ V.value = U.value
      /\ V.shared = U.shared
  BY <1>1, <1>2, <1>4
<1>7. QED
  BY <1>5, <1>6 DEF V, E, S, Answered

LEMMA AnsweredOK ==
  ASSUME NEW W, NEW a, NEW U, NEW x, AgentOK(W, a, U, x), NEW i \in DOMAIN U.transactions,
         NEW r, MessageOK(W, r), r.method = "INVITE" => r.status >= 300
  PROVE  AgentOK(W, a, Answered(U, i, r), x)
<1> DEFINE S == Sent(U, r)
           E == Enter(S, i, "Completed")
<1>1. Shape(U) /\ Shape(S) /\ S.transactions = U.transactions
  BY SentFields DEF AgentOK
<1>2. AgentOK(W, a, S, x)
  BY SentOK
<1>3. i \in DOMAIN S.transactions /\ "Completed" \in States
  BY <1>1 DEF States
<1> HIDE DEF S
<1>4. AgentOK(W, a, E, x)
  BY <1>2, <1>3, EnterOK
<1>5. i \in DOMAIN E.transactions
  <2>1. E.transactions = [S.transactions EXCEPT ![i] = [S.transactions[i] EXCEPT !.state = "Completed"]]
    BY <1>1, <1>3, EnterFields
  <2> HIDE DEF E
  <2>2. QED
    BY <2>1, <1>3
<1> HIDE DEF E
<1>6. QED
  BY <1>4, <1>5, LastOK DEF E, S, Answered

(* sendResponse() changes no dialog.                                     *)
LEMMA SendResponseFields ==
  ASSUME NEW U, Shape(U), NEW i \in DOMAIN U.transactions, NEW r
  PROVE  Shape(SendResponse(U, i, r)) /\ SendResponse(U, i, r).dialogs = U.dialogs
<1> DEFINE L == Answered(U, i, r)
           S == Sent(U, r)
           G == StartTimer(L, "G", Timer1, i)
           H == StartTimer(G, "H", Timeout, i)
           J == StartTimer(L, "J", Timeout, i)
           V == SendResponse(U, i, r)
<1>1. V \in {Clear(S, i), H, J}
  BY DEF SendResponse, SendInviteResponse, SendNonInviteResponse, Answered
<1>2. Shape(S) /\ S.dialogs = U.dialogs
  BY SentFields
<1>3. Shape(L) /\ L.dialogs = U.dialogs
  BY AnsweredFields
<1> HIDE DEF L, S, V
<1>4. Shape(Clear(S, i)) /\ Clear(S, i).dialogs = U.dialogs
  BY <1>2, ClearFields
<1>5. Shape(G) /\ G.dialogs = U.dialogs /\ Shape(J) /\ J.dialogs = U.dialogs
  BY <1>3, StartTimerFields
<1> HIDE DEF G, J
<1>6. Shape(H) /\ H.dialogs = U.dialogs
  BY <1>5, StartTimerFields
<1> HIDE DEF H
<1>7. QED
  BY <1>1, <1>4, <1>5, <1>6 DEF V

(* A 2xx to an INVITE is not kept: what is kept may go out again, and    *)
(* never begins a session.                                               *)
LEMMA SendResponseOK ==
  ASSUME NEW W, NEW a, NEW U, NEW x, AgentOK(W, a, U, x), NEW i \in DOMAIN U.transactions,
         NEW r, MessageOK(W, r), r.status \in 200..699
  PROVE  AgentOK(W, a, SendResponse(U, i, r), x)
<1> DEFINE L == Answered(U, i, r)
           S == Sent(U, r)
           G == StartTimer(L, "G", Timer1, i)
           H == StartTimer(G, "H", Timeout, i)
           J == StartTimer(L, "J", Timeout, i)
           V == SendResponse(U, i, r)
<1>1. CASE r.method = "INVITE" /\ r.status \in 200..299
  <2>1. V = Clear(S, i)
    BY <1>1 DEF SendResponse, SendInviteResponse
  <2>2. AgentOK(W, a, S, x)
    BY SentOK
  <2> HIDE DEF S
  <2>3. AgentOK(W, a, Clear(S, i), x)
    BY <2>2, ClearOK
  <2>4. QED
    BY <2>1, <2>3
<1>2. CASE r.method # "INVITE" \/ r.status \notin 200..299
  <2>1. V \in {H, J}
    BY <1>2 DEF SendResponse, SendInviteResponse, SendNonInviteResponse, Answered
  <2>2. r.method = "INVITE" => r.status >= 300
    BY <1>2
  <2>3. AgentOK(W, a, L, x)
    BY <2>2, AnsweredOK
  <2> HIDE DEF L, V
  <2>4. AgentOK(W, a, G, x) /\ AgentOK(W, a, J, x)
    BY <2>3, StartTimerOK
  <2> HIDE DEF G, J
  <2>5. AgentOK(W, a, H, x)
    BY <2>4, StartTimerOK
  <2> HIDE DEF H
  <2>6. QED
    BY <2>1, <2>4, <2>5 DEF V
<1>3. QED
  BY <1>1, <1>2

-----------------------------------------------------------------------------
(* What an agent receives                                                *)

(* Who called, when the agent awaits the answer to an INVITE.            *)
LEMMA CallingIs ==
  ASSUME NEW W, NEW a, NEW U, NEW x, AgentOK(W, a, U, x), NEW i \in Calling(U)
  PROVE  W.origin[i].type = "INVITE" /\ W.origin[i].called # a
<1>1. TransactionOK(W, a, i, U.transactions[i]) /\ U.transactions[i].kind = "CI"
  BY DEF AgentOK, Calling
<1>2. QED
  BY <1>1 DEF TransactionOK, MessageOK, DialogType

(* An agent that finds no dialog for a request without a tag has none of *)
(* that call.                                                            *)
LEMMA NoDialogIs ==
  ASSUME NEW W, NEW a, NEW U, NEW x, AgentOK(W, a, U, x), NEW m, MessageOK(W, m),
         DialogOf(U, m) = 0, m.tag = Null
  PROVE  \A k \in DOMAIN U.dialogs : U.dialogs[k].call # m.call
<1>1. U.dialogs \in Seq(Dialogs(W, a))
  BY DEF AgentOK
<1>2. ASSUME NEW k \in DOMAIN U.dialogs
      PROVE  W.origin[U.dialogs[k].call].type = U.dialogs[k].type
  <2>1. U.dialogs[k] \in Dialogs(W, a)
    BY <1>1
  <2>2. QED
    BY <2>1 DEF Dialogs
<1>3. \A k \in DOMAIN U.dialogs :
         U.dialogs[k].type = DialogType(m.method) => U.dialogs[k].call # m.call
  BY <1>1, DialogOfIs
<1>4. W.origin[m.call].type = DialogType(m.method)
  BY DEF MessageOK
<1>5. QED
  BY <1>2, <1>3, <1>4

(* The world that a request to agent a, as a new transaction, is heard in. *)
Hears(W, a, m, tag) ==
    /\ MessageOK(W, m) /\ m.status = 0 /\ m.to = a
    /\ m.tag = Null => tag \in 1..W.names

(* The sessions begun between U and V are known.                         *)
Known(W, a, U, V) ==
    \A d \in ToSet(V.dialogs) \ ToSet(U.dialogs) :
        d.type = "INVITE" => <<a, d.call, d.tag>> \in W.begun

(* A response that begins nothing.                                       *)
LEMMA AnswersOK ==
  ASSUME NEW W, NEW a, NEW U, NEW x, AgentOK(W, a, U, x), NEW i \in DOMAIN U.transactions,
         NEW m, NEW tag, Hears(W, a, m, tag), NEW status \in 200..699,
         ~Accepts(m, status)
  PROVE  LET V == SendResponse(U, i, Response(m, status, tag))
         IN AgentOK(W, a, V, x) /\ V.dialogs = U.dialogs
<1> DEFINE r == Response(m, status, tag)
           V == SendResponse(U, i, r)
<1>1. status \in 100..699
  OBVIOUS
<1>2. MessageOK(W, m) /\ m.status = 0 /\ (m.tag = Null => tag \in 1..W.names)
  BY DEF Hears
<1>3. MessageOK(W, r)
  BY <1>1, <1>2, ResponseOK, ZenonT(60)
<1>4. r.status = status
  BY <1>2, ResponseFields DEF MessageOK
<1> HIDE DEF r
<1>5. AgentOK(W, a, V, x)
  BY <1>3, <1>4, SendResponseOK
<1>6. V.dialogs = U.dialogs
  <2>1. Shape(U)
    BY DEF AgentOK
  <2>2. QED
    BY <2>1, SendResponseFields
<1>7. QED
  BY <1>5, <1>6 DEF r

(* receiveBye()                                                          *)
LEMMA UasReceiveByeOK ==
  ASSUME NEW W, NEW a, NEW U, NEW x, AgentOK(W, a, U, x), NEW i \in DOMAIN U.transactions,
         NEW m, NEW tag, Hears(W, a, m, tag), m.method # "INVITE",
         NEW d \in 0..Len(U.dialogs)
  PROVE  AgentOK(W, a, UasReceiveBye(U, m, i, d, tag), x)
<1>1. 200 \in 200..699 /\ 481 \in 200..699 /\ ~Accepts(m, 200) /\ ~Accepts(m, 481)
  BY DEF Accepts
<1>2. CASE d = 0
  BY <1>1, <1>2, AnswersOK DEF UasReceiveBye
<1>3. CASE d # 0
  <2> DEFINE S == SendResponse(U, i, Response(m, 200, tag))
  <2>1. AgentOK(W, a, S, x) /\ S.dialogs = U.dialogs
    BY <1>1, AnswersOK
  <2> HIDE DEF S
  <2>2. d \in 1..Len(S.dialogs)
    BY <1>3, <2>1
  <2>3. AgentOK(W, a, RemoveDialog(S, d, "SESSION_TERMINATED"), x)
    BY <2>1, <2>2, RemoveDialogOK
  <2>4. QED
    BY <1>3, <2>3 DEF UasReceiveBye, S
<1>4. QED
  BY <1>2, <1>3

(* receiveInvite(): the session of the answer is one that has begun.     *)
LEMMA UasReceiveInviteOK ==
  ASSUME NEW W, NEW a, NEW U, AgentOK(W, a, U, 0), NEW i \in DOMAIN U.transactions,
         NEW m, NEW tag, Hears(W, a, m, tag), m.method = "INVITE",
         NEW d, d = DialogOf(U, m), d = 0 => m.tag = Null,
         Known(W, a, U, UasReceiveInvite(U, m, i, d, tag))
  PROVE  AgentOK(W, a, UasReceiveInvite(U, m, i, d, tag), 0)
<1>1. CASE d # 0
  BY <1>1 DEF UasReceiveInvite
<1>2. CASE d = 0
  <2> DEFINE C == CreateDialog(U, "INVITE", m.from, m.call, tag)
             r == Response(m, 200, tag)
             S == SendResponse(C, i, r)
             nd == [type |-> "INVITE", peer |-> m.from, call |-> m.call, tag |-> tag]
  <2>1. UasReceiveInvite(U, m, i, d, tag) = S
    BY <1>2 DEF UasReceiveInvite
  <2>2. Shape(U) /\ U.dialogs \in Seq(Dialogs(W, a))
    BY DEF AgentOK
  <2>3. Shape(C) /\ C.transactions = U.transactions /\ C.dialogs = Append(U.dialogs, nd)
    BY <2>2, CreateDialogFields
  <2>4. \A k \in DOMAIN U.dialogs : U.dialogs[k].call # m.call
    BY <1>2, NoDialogIs DEF Hears
  <2>5. m.call \notin Calling(U) \ {0}
    BY CallingIs DEF Hears, MessageOK
  <2>6. /\ m.tag = Null /\ tag \in 1..W.names /\ m \in Messages(W) /\ MessageOK(W, m)
        /\ W.origin[m.call].type = "INVITE" /\ m.status = 0 /\ m.to = a
    BY <1>2 DEF Hears, MessageOK, DialogType
  <2>7. S.dialogs = C.dialogs
    <3> HIDE DEF C, r
    <3> QED
      BY <2>3, SendResponseFields
  <2>8. <<a, m.call, tag>> \in W.begun
    <3>1. nd.call = m.call /\ nd.tag = tag /\ nd.type = "INVITE"
      OBVIOUS
    <3> HIDE DEF C, S, nd
    <3>2. nd \in ToSet(S.dialogs)
      BY <2>2, <2>3, <2>7 DEF ToSet
    <3>3. nd \notin ToSet(U.dialogs)
      BY <2>4, <3>1 DEF ToSet
    <3>4. QED
      BY <2>1, <3>1, <3>2, <3>3 DEF Known
  <2>9. nd \in Dialogs(W, a)
    <3>1. nd \in [type : Types, peer : W.peers, call : 1..W.names, tag : 1..W.names]
      BY <2>6, MessageIs DEF Types
    <3>2. nd.type = "INVITE" /\ nd.call = m.call /\ nd.tag = tag
      OBVIOUS
    <3> HIDE DEF nd
    <3>3. QED
      BY <2>6, <2>8, <3>1, <3>2 DEF Dialogs
  <2>10. AgentOK(W, a, C, 0)
    BY <2>4, <2>5, <2>9, CreateDialogOK
  <2>11. MessageOK(W, r) /\ r.status \in 200..699
    <3>1. 200 \in 100..699 /\ 200 \in 200..699 /\ Tagged(m, tag) = tag
      BY <2>6 DEF Tagged
    <3>2. Begins(W, m, Tagged(m, tag))
      BY <2>6, <2>8, <3>1 DEF Begins
    <3>3. MessageOK(W, r)
      BY <2>6, <3>1, <3>2, ResponseOK
    <3>4. r.status = 200
      BY <2>6, ResponseFields
    <3>5. QED
      BY <3>1, <3>3, <3>4
  <2> HIDE DEF r, C
  <2>12. AgentOK(W, a, S, 0)
    BY <2>3, <2>10, <2>11, SendResponseOK
  <2>13. QED
    BY <2>1, <2>12
<1>3. QED
  BY <1>1, <1>2

(* receiveSubscribe()                                                    *)
LEMMA UasReceiveSubscribeOK ==
  ASSUME NEW W, NEW a, NEW U, AgentOK(W, a, U, 0), NEW i \in DOMAIN U.transactions,
         NEW m, NEW tag, Hears(W, a, m, tag), m.method = "SUBSCRIBE",
         NEW d, d = DialogOf(U, m), d = 0 => m.tag = Null
  PROVE  AgentOK(W, a, UasReceiveSubscribe(U, m, i, d, tag), 0)
<1> DEFINE C == CreateDialog(U, "SUBSCRIBE", m.from, m.call, tag)
           F == IF d = 0 /\ m.option # "expire" THEN C ELSE U
           A == SendResponse(F, i, Response(m, 200, tag))
           R == RemoveDialog(A, d, "SUBSCRIPTION_TERMINATED")
           nd == [type |-> "SUBSCRIBE", peer |-> m.from, call |-> m.call, tag |-> tag]
<1>1. Shape(U) /\ U.dialogs \in Seq(Dialogs(W, a)) /\ 489 \in 200..699 /\ ~Accepts(m, 489)
  BY DEF AgentOK, Accepts
<1>2. AgentOK(W, a, SendResponse(U, i, Response(m, 489, tag)), 0)
  BY <1>1, AnswersOK
<1>3. /\ MessageOK(W, m) /\ m \in Messages(W) /\ m.status = 0
      /\ W.origin[m.call].type = "SUBSCRIBE"
  BY DEF Hears, MessageOK, DialogType
<1>4. ASSUME d = 0
      PROVE  AgentOK(W, a, C, 0) /\ C.transactions = U.transactions
  <2>1. \A k \in DOMAIN U.dialogs : U.dialogs[k].call # m.call
    BY <1>3, <1>4, NoDialogIs
  <2>2. m.call \notin Calling(U) \ {0}
    BY <1>3, CallingIs
  <2>3. nd \in Dialogs(W, a)
    <3>1. tag \in 1..W.names
      BY <1>4 DEF Hears
    <3>2. nd \in [type : Types, peer : W.peers, call : 1..W.names, tag : 1..W.names]
      BY <1>3, <3>1, MessageIs DEF Types
    <3>3. nd.type = "SUBSCRIBE" /\ nd.call = m.call
      OBVIOUS
    <3> HIDE DEF nd
    <3>4. QED
      BY <1>3, <3>2, <3>3 DEF Dialogs
  <2>4. QED
    BY <1>1, <2>1, <2>2, <2>3, CreateDialogOK, CreateDialogFields
<1>5. AgentOK(W, a, F, 0) /\ i \in DOMAIN F.transactions /\ (d # 0 => F = U)
  <2> HIDE DEF C
  <2> QED
    BY <1>4
<1> HIDE DEF F
<1>6. AgentOK(W, a, A, 0) /\ A.dialogs = F.dialogs
  <2>1. 200 \in 200..699 /\ ~Accepts(m, 200)
    BY DEF Accepts
  <2>2. QED
    BY <1>5, <2>1, AnswersOK
<1> HIDE DEF A
<1>7. ASSUME d # 0
      PROVE  AgentOK(W, a, [R EXCEPT !.active = FALSE], 0)
  <2>1. d \in 1..Len(A.dialogs)
    <3>1. d \in 0..Len(U.dialogs)
      BY <1>1, DialogOfIs
    <3>2. QED
      BY <1>5, <1>6, <1>7, <3>1
  <2>2. AgentOK(W, a, R, 0)
    BY <1>6, <2>1, RemoveDialogOK
  <2> HIDE DEF R
  <2>3. Shape(R)
    BY <2>2 DEF AgentOK
  <2>4. Shape([R EXCEPT !.active = FALSE]) /\ Alike([R EXCEPT !.active = FALSE], R)
    BY <2>3 DEF Shape, Fields, Alike
  <2>5. QED
    BY <2>2, <2>4, AlikeOK
<1> HIDE DEF R
<1>8. UasReceiveSubscribe(U, m, i, d, tag) \in
        {SendResponse(U, i, Response(m, 489, tag)), A}
        \cup (IF d # 0 THEN {[R EXCEPT !.active = FALSE]} ELSE {})
  BY DEF UasReceiveSubscribe, A, F, R
<1>9. QED
  BY <1>2, <1>6, <1>7, <1>8, ZenonT(60)

(* receiveRequest() of a new transaction.                                *)
LEMMA UasReceiveOK ==
  ASSUME NEW W, NEW a, NEW U, AgentOK(W, a, U, 0), NEW i \in DOMAIN U.transactions,
         NEW m, NEW tag, Hears(W, a, m, tag), m.method # "ACK",
         Known(W, a, U, UasReceive(U, m, i, tag))
  PROVE  AgentOK(W, a, UasReceive(U, m, i, tag), 0)
<1> DEFINE d == DialogOf(U, m)
           V == UasReceive(U, m, i, tag)
<1>1. /\ U.dialogs \in Seq(Dialogs(W, a)) /\ 200 \in 200..699
      /\ 420 \in 200..699 /\ 481 \in 200..699 /\ ~Accepts(m, 420) /\ ~Accepts(m, 481)
  BY DEF AgentOK, Accepts
<1>2. d \in 0..Len(U.dialogs)
  BY <1>1, DialogOfIs, ZenonT(60)
<1>3. m.method \in Methods
  BY MessageIs DEF Hears, MessageOK
<1>4. CASE m.option = "require"
  <2>1. V = SendResponse(U, i, Response(m, 420, tag))
    BY <1>4 DEF UasReceive
  <2>2. QED
    BY <2>1, <1>1, AnswersOK
<1>5. CASE m.option # "require" /\ d = 0 /\ m.tag # Null
  <2>1. V = SendResponse(U, i, Response(m, 481, tag))
    BY <1>5 DEF UasReceive
  <2>2. QED
    BY <2>1, <1>1, AnswersOK
<1>6. CASE m.option # "require" /\ (d # 0 \/ m.tag = Null)
  <2> HIDE DEF V
  <2>1. CASE m.method = "BYE"
    <3>1. V = UasReceiveBye(U, m, i, d, tag)
      BY <1>6, <2>1 DEF UasReceive, V
    <3>2. QED
      BY <1>2, <2>1, <3>1, UasReceiveByeOK DEF V
  <2>2. CASE m.method = "INVITE"
    <3>1. V = UasReceiveInvite(U, m, i, d, tag)
      BY <1>6, <2>2 DEF UasReceive, V
    <3>2. QED
      BY <1>6, <2>2, <3>1, UasReceiveInviteOK DEF V
  <2>3. CASE m.method = "SUBSCRIBE"
    <3>1. V = UasReceiveSubscribe(U, m, i, d, tag)
      BY <1>6, <2>3 DEF UasReceive, V
    <3>2. QED
      BY <1>6, <2>3, <3>1, UasReceiveSubscribeOK DEF V
  <2>4. CASE m.method = "MESSAGE"
    <3> DEFINE A == SendResponse(U, i, Response(m, 200, tag))
    <3>1. V = Tell(A, "MESSAGE_RECEIVED", m.from)
      BY <1>6, <2>4 DEF UasReceive, V
    <3>2. 200 \in 200..699 /\ ~Accepts(m, 200)
      BY <2>4 DEF Accepts
    <3>3. AgentOK(W, a, A, 0)
      BY <3>2, AnswersOK
    <3> HIDE DEF A
    <3>4. QED
      BY <3>1, <3>3, TellOK DEF V
  <2>5. CASE m.method = "NOTIFY"
    <3>1. V = U
      BY <1>6, <2>5 DEF UasReceive, V
    <3>2. QED
      BY <3>1 DEF V
  <2>6. QED
    BY <1>3, <2>1, <2>2, <2>3, <2>4, <2>5 DEF Methods
<1>7. QED
  BY <1>4, <1>5, <1>6

(* The last response goes out again.                                     *)
LEMMA AgainOK ==
  ASSUME NEW W, NEW a, NEW U, NEW x, AgentOK(W, a, U, x), NEW i \in DOMAIN U.transactions
  PROVE  AgentOK(W, a, Again(U, i), x)
<1>1. TransactionOK(W, a, i, U.transactions[i])
  BY DEF AgentOK
<1>2. CASE U.transactions[i].last = Null
  BY <1>2 DEF Again
<1>3. CASE U.transactions[i].last # Null
  <2>1. MessageOK(W, U.transactions[i].last)
    BY <1>1, <1>3 DEF TransactionOK
  <2>2. Again(U, i) = Sent(U, U.transactions[i].last)
    BY <1>3 DEF Again
  <2>3. QED
    BY <2>1, <2>2, SentOK
<1>4. QED
  BY <1>2, <1>3

(* receiveAck()                                                          *)
LEMMA ReceiveAckOK ==
  ASSUME NEW W, NEW a, NEW U, NEW x, AgentOK(W, a, U, x), NEW i \in DOMAIN U.transactions
  PROVE  AgentOK(W, a, ReceiveAck(U, i), x)
<1> DEFINE E == Enter(U, i, "Confirmed")
           I == StartTimer(E, "I", Timer4, i)
<1>1. "Confirmed" \in States \ {"Calling", "Proceeding"}
  BY DEF States
<1>2. AgentOK(W, a, E, x)
  BY <1>1, EnterOK
<1> HIDE DEF E
<1>3. AgentOK(W, a, I, x)
  BY <1>2, StartTimerOK
<1> HIDE DEF I
<1>4. AgentOK(W, a, StopTimers(I, {"G", "H"}), x)
  BY <1>3, StopTimersOK
<1>5. ReceiveAck(U, i) \in {U, StopTimers(I, {"G", "H"})}
  BY DEF ReceiveAck, I, E
<1>6. QED
  BY <1>4, <1>5

(* id and tag are names when the request begins a transaction.           *)
LEMMA ReceiveRequestOK ==
  ASSUME NEW W, NEW a, NEW U, AgentOK(W, a, U, 0), NEW id, id \notin DOMAIN U.transactions,
         NEW m, NEW tag, MessageOK(W, m), m.status = 0, m.to = a,
         Matching(U, m) = {} /\ m.method # "ACK" =>
            id \in 1..W.names /\ (m.tag = Null => tag \in 1..W.names),
         Known(W, a, U, ReceiveRequest(U, m, id, tag))
  PROVE  AgentOK(W, a, ReceiveRequest(U, m, id, tag), 0)
<1> DEFINE V == ReceiveRequest(U, m, id, tag)
           matching == CHOOSE j \in Matching(U, m) : TRUE
           kind == IF m.method = "INVITE" THEN "SI" ELSE "SN"
           state == IF kind = "SI" THEN "Proceeding" ELSE "Trying"
           B == Began(U, id, kind, m, state)
<1>1. CASE Matching(U, m) # {}
  <2>1. matching \in DOMAIN U.transactions
    <3>1. Matching(U, m) \subseteq DOMAIN U.transactions
      BY DEF Matching
    <3>2. QED
      BY <1>1, <3>1
  <2>2. V \in {ReceiveAck(U, matching), U, Again(U, matching)}
    BY <1>1 DEF ReceiveRequest, ReceiveAgain
  <2> HIDE DEF matching
  <2>3. QED
    BY <2>1, <2>2, ReceiveAckOK, AgainOK
<1>2. CASE Matching(U, m) = {} /\ m.method = "ACK"
  BY <1>2 DEF ReceiveRequest
<1>3. CASE Matching(U, m) = {} /\ m.method # "ACK"
  <2>1. /\ kind \in DOMAIN Timers /\ state \in States /\ kind \notin {"CI", "CN"}
        /\ kind \in {"CI", "SI"} <=> m.method = "INVITE"
    BY DEF Timers, States
  <2>2. V = UasReceive(B, m, id, tag)
    BY <1>3 DEF ReceiveRequest, Began
  <2>3. Shape(U)
    BY DEF AgentOK
  <2> HIDE DEF kind, state, V
  <2>4. AgentOK(W, a, B, 0) /\ DOMAIN B.transactions = DOMAIN U.transactions \cup {id}
    BY <1>3, <2>1, BeganOK
  <2>5. B.dialogs = U.dialogs
    BY <2>3, BeganFields
  <2> HIDE DEF B
  <2>6. Known(W, a, B, UasReceive(B, m, id, tag))
    BY <2>2, <2>5 DEF Known, V
  <2>7. Hears(W, a, m, tag) /\ id \in DOMAIN B.transactions
    BY <1>3, <2>4 DEF Hears
  <2>8. QED
    BY <1>3, <2>2, <2>4, <2>6, <2>7, UasReceiveOK DEF V
<1>4. QED
  BY <1>1, <1>2, <1>3

(* Responses                                                             *)

(* A request begins a transaction, and no dialog.                        *)
LEMMA OpenedFields ==
  ASSUME NEW U, Shape(U), NEW m
  PROVE  LET V == Opened(U, m)
         IN /\ Shape(V) /\ V.dialogs = U.dialogs
            /\ DOMAIN V.transactions = DOMAIN U.transactions \cup {m.branch}
<1>1. ASSUME NEW kind, NEW state
      PROVE  LET V == Began(U, m.branch, kind, m, state)
             IN /\ Shape(V) /\ V.dialogs = U.dialogs
                /\ DOMAIN V.transactions = DOMAIN U.transactions \cup {m.branch}
  <2> DEFINE V == Began(U, m.branch, kind, m, state)
  <2>1. /\ Shape(V) /\ V.dialogs = U.dialogs
        /\ V.transactions = With(U.transactions, m.branch, NewTransaction(kind, state, m))
    BY BeganFields
  <2> HIDE DEF V
  <2>2. DOMAIN V.transactions = DOMAIN U.transactions \cup {m.branch}
    BY <2>1 DEF With
  <2>3. QED
    BY <2>1, <2>2 DEF V
<1>2. QED
  BY <1>1 DEF Opened

LEMMA SendFields ==
  ASSUME NEW U, Shape(U), NEW m
  PROVE  LET V == Send(U, m)
         IN /\ Shape(V) /\ V.dialogs = U.dialogs
            /\ DOMAIN V.transactions = DOMAIN U.transactions \cup {m.branch}
<1> DEFINE id == m.branch
           B == Opened(U, m)
           R == Resend(B, id)
<1>1. Shape(B) /\ B.dialogs = U.dialogs /\ DOMAIN B.transactions = DOMAIN U.transactions \cup {id}
  BY OpenedFields
<1> HIDE DEF B
<1>2. /\ Shape(R) /\ R.dialogs = B.dialogs
      /\ R.transactions = With(B.transactions, id, Tried(B.transactions[id]))
  BY <1>1, ResendFields
<1> HIDE DEF R
<1>3. DOMAIN R.transactions = DOMAIN B.transactions
  BY <1>1, <1>2 DEF With
<1>4. QED
  BY <1>1, <1>2, <1>3, SendIs DEF R, B

LEMMA StartFirstFields ==
  ASSUME NEW U, Shape(U), NEW t, NEW id
  PROVE  LET V == StartFirst(U, t, id)
         IN Shape(V) /\ V.dialogs = U.dialogs /\ V.transactions = U.transactions
BY StartTimerFields DEF StartFirst

LEMMA SendRequestFields ==
  ASSUME NEW U, Shape(U), NEW m
  PROVE  LET V == SendRequest(U, m)
         IN /\ Shape(V) /\ V.dialogs = U.dialogs
            /\ DOMAIN V.transactions = DOMAIN U.transactions \cup {m.branch}
<1> DEFINE S == Send(U, m)
           t == FirstTimers(m)
           A == StartFirst(S, t[1], m.branch)
           V == StartFirst(A, t[2], m.branch)
<1>1. /\ Shape(S) /\ S.dialogs = U.dialogs
      /\ DOMAIN S.transactions = DOMAIN U.transactions \cup {m.branch}
  BY SendFields
<1> HIDE DEF S, t
<1>2. Shape(A) /\ A.dialogs = S.dialogs /\ A.transactions = S.transactions
  BY <1>1, StartFirstFields
<1> HIDE DEF A
<1>3. Shape(V) /\ V.dialogs = A.dialogs /\ V.transactions = A.transactions
  BY <1>2, StartFirstFields
<1> HIDE DEF V
<1>4. /\ Shape(V) /\ V.dialogs = U.dialogs
      /\ DOMAIN V.transactions = DOMAIN U.transactions \cup {m.branch}
  BY <1>1, <1>2, <1>3
<1>5. QED
  BY <1>4 DEF SendRequest, V, A, S, t

(* The 2xx of an INVITE begins a session, of the call of its own         *)
(* transaction: no dialog has that call while the transaction awaits its *)
(* answer.                                                               *)
LEMMA UacReceive2xxOK ==
  ASSUME NEW W, NEW a, NEW U, NEW x, AgentOK(W, a, U, x),
         NEW r, MessageOK(W, r), r.status \in 200..299,
         r.method = "INVITE" => /\ \A k \in DOMAIN U.dialogs : U.dialogs[k].call # r.call
                                /\ r.call \notin Calling(U) \ {x}
  PROVE  AgentOK(W, a, UacReceive2xx(U, r, DialogOf(U, r)), x)
<1> DEFINE d == DialogOf(U, r)
           V == UacReceive2xx(U, r, d)
<1>1. d \in 0..Len(U.dialogs)
  <2>1. U.dialogs \in Seq(Dialogs(W, a))
    BY DEF AgentOK
  <2>2. QED
    BY <2>1, DialogOfIs
<1> SUFFICES AgentOK(W, a, V, x)
  OBVIOUS
<1> HIDE DEF d
<1>2. CASE r.method = "INVITE" /\ d = 0
  <2> DEFINE nd == [type |-> "INVITE", peer |-> r.from, call |-> r.call, tag |-> r.tag]
  <2>1. V = CreateDialog(U, "INVITE", r.from, r.call, r.tag)
    BY <1>2 DEF UacReceive2xx
  <2>2. /\ r \in Messages(W) /\ r.tag \in 1..W.names /\ W.origin[r.call].type = "INVITE"
        /\ r.from \in W.agents => <<r.from, r.call, r.tag>> \in W.begun
    BY <1>2 DEF MessageOK, DialogType
  <2>3. nd \in Dialogs(W, a)
    <3>1. nd \in [type : Types, peer : W.peers, call : 1..W.names, tag : 1..W.names]
      BY <2>2, MessageIs DEF Types
    <3>2. nd.type = "INVITE" /\ nd.call = r.call /\ nd.tag = r.tag /\ nd.peer = r.from
      OBVIOUS
    <3> HIDE DEF nd
    <3>3. QED
      BY <2>2, <3>1, <3>2 DEF Dialogs
  <2>4. QED
    BY <1>2, <2>1, <2>3, CreateDialogOK
<1>3. CASE r.method = "BYE" /\ d # 0
  <2>1. V = RemoveDialog(U, d, "SESSION_TERMINATED") /\ d \in 1..Len(U.dialogs)
    BY <1>1, <1>3 DEF UacReceive2xx
  <2>2. QED
    BY <2>1, RemoveDialogOK
<1>4. CASE ~(r.method = "INVITE" /\ d = 0) /\ ~(r.method = "BYE" /\ d # 0)
  <2>1. V = U
    BY <1>4 DEF UacReceive2xx
  <2>2. QED
    BY <2>1
<1>5. QED
  BY <1>2, <1>3, <1>4

(* A BYE goes to the first session with the peer, if there is one.       *)
LEMMA HangUpOK ==
  ASSUME NEW W, NEW a \in W.peers, NEW U, NEW x, AgentOK(W, a, U, x),
         NEW peer, NEW id, id \notin DOMAIN U.transactions,
         id \in DOMAIN HangUp(U, a, peer, id).transactions => id \in 1..W.names
  PROVE  AgentOK(W, a, HangUp(U, a, peer, id), x) /\ HangUp(U, a, peer, id).dialogs = U.dialogs
<1> DEFINE i == DialogWith(U, peer, "INVITE")
           m == Within(U, i, "BYE", a, id)
           V == HangUp(U, a, peer, id)
<1>1. Shape(U) /\ U.dialogs \in Seq(Dialogs(W, a))
  BY DEF AgentOK
<1>2. i \in 0..Len(U.dialogs) /\ (i # 0 => U.dialogs[i].type = "INVITE")
  BY <1>1, DialogWithIs
<1> HIDE DEF i
<1>3. CASE i = 0
  BY <1>3 DEF HangUp, i
<1>4. CASE i # 0
  <2>1. V = SendRequest(U, m) /\ m.branch = id
    BY <1>4 DEF HangUp, i, Within, Request
  <2> HIDE DEF V, m
  <2>2. V.dialogs = U.dialogs /\ id \in DOMAIN V.transactions
    <3>1. LET S == SendRequest(U, m)
          IN S.dialogs = U.dialogs /\ DOMAIN S.transactions = DOMAIN U.transactions \cup {m.branch}
      BY <1>1, SendRequestFields
    <3>2. QED
      BY <2>1, <3>1
  <2>3. id \in 1..W.names /\ i \in 1..Len(U.dialogs)
    BY <1>2, <1>4, <2>2 DEF V
  <2>4. "BYE" \in Methods \ {"INVITE"} /\ DialogType("BYE") = U.dialogs[i].type
    BY <1>2, <1>4 DEF Methods, DialogType
  <2>5. /\ MessageOK(W, m) /\ m.branch = id /\ m.from = a /\ m.status = 0 /\ m.method = "BYE"
    BY <1>1, <2>3, <2>4, WithinOK DEF m
  <2>6. AgentOK(W, a, SendRequest(U, m), x)
    BY <2>5, SendRequestOK
  <2>7. QED
    BY <2>1, <2>2, <2>6 DEF V
<1>5. QED
  BY <1>3, <1>4

(* A failure ends the dialog that it finds.                              *)
LEMMA UacReceive3xx6xxOK ==
  ASSUME NEW W, NEW a \in W.peers, NEW U, NEW x, AgentOK(W, a, U, x),
         NEW r, r.to = a, NEW d \in 0..Len(U.dialogs), NEW id, id \notin DOMAIN U.transactions,
         id \in DOMAIN UacReceive3xx6xx(U, r, d, id).transactions => id \in 1..W.names
  PROVE  AgentOK(W, a, UacReceive3xx6xx(U, r, d, id), x)
<1> DEFINE H == HangUp(U, a, U.dialogs[d].peer, id)
           V == UacReceive3xx6xx(U, r, d, id)
<1>1. CASE d = 0
  BY <1>1 DEF UacReceive3xx6xx
<1>2. CASE d # 0
  <2> DEFINE T == IF r.status \in {408, 481} \/ r.method = "BYE" THEN U ELSE H
  <2>1. V = RemoveDialog(T, d, "SESSION_TERMINATED")
    BY <1>2 DEF UacReceive3xx6xx
  <2>2. Shape(T)
    <3>1. Shape(U)
      BY DEF AgentOK
    <3>2. Shape(H)
      BY <3>1, SendRequestFields DEF HangUp
    <3>3. QED
      BY <3>1, <3>2
  <2>3. V.transactions = T.transactions
    <3> HIDE DEF T, V
    <3> QED
      BY <2>1, <2>2, RemoveDialogFields
  <2>4. AgentOK(W, a, T, x) /\ T.dialogs = U.dialogs
    <3> HIDE DEF H
    <3>1. CASE r.status \in {408, 481} \/ r.method = "BYE"
      BY <3>1
    <3>2. CASE ~(r.status \in {408, 481} \/ r.method = "BYE")
      <4>1. T = H
        BY <3>2
      <4> HIDE DEF T, V
      <4>2. id \in DOMAIN H.transactions => id \in 1..W.names
        BY <2>3, <4>1 DEF V
      <4>3. AgentOK(W, a, H, x) /\ H.dialogs = U.dialogs
        BY <4>2, HangUpOK DEF H
      <4>4. QED
        BY <4>1, <4>3
    <3>3. QED
      BY <3>1, <3>2
  <2> HIDE DEF T, V
  <2>5. d \in 1..Len(T.dialogs)
    BY <1>2, <2>4
  <2>6. AgentOK(W, a, V, x)
    BY <2>1, <2>4, <2>5, RemoveDialogOK
  <2>7. QED
    BY <2>6 DEF V
<1>3. QED
  BY <1>1, <1>2

(* A response to an INVITE: d is the dialog it finds.                    *)
LEMMA UacReceiveOK ==
  ASSUME NEW W, NEW a \in W.peers, NEW U, NEW x, AgentOK(W, a, U, x),
         NEW r, MessageOK(W, r), r.to = a, NEW id, id \notin DOMAIN U.transactions,
         r.status \in 200..299 /\ r.method = "INVITE" =>
            /\ \A k \in DOMAIN U.dialogs : U.dialogs[k].call # r.call
            /\ r.call \notin Calling(U) \ {x},
         id \in DOMAIN UacReceive(U, r, id).transactions => id \in 1..W.names
  PROVE  AgentOK(W, a, UacReceive(U, r, id), x)
<1> DEFINE V == UacReceive(U, r, id)
           d == DialogOf(U, r)
<1>1. d \in 0..Len(U.dialogs)
  <2>1. U.dialogs \in Seq(Dialogs(W, a))
    BY DEF AgentOK
  <2>2. QED
    BY <2>1, DialogOfIs
<1>2. CASE r.status \in 200..299
  <2>1. V = UacReceive2xx(U, r, d)
    <3>1. r.status < 300
      BY <1>2
    <3>2. r.status \notin 300..699
      BY <3>1
    <3>3. QED
      BY <1>2, <3>2 DEF UacReceive
  <2> HIDE DEF V
  <2>2. QED
    BY <1>2, <2>1, UacReceive2xxOK DEF V
<1>3. CASE r.status \in 300..699
  <2>1. V = UacReceive3xx6xx(U, r, d, id)
    BY <1>3 DEF UacReceive
  <2> HIDE DEF V, d
  <2>2. QED
    BY <1>1, <2>1, UacReceive3xx6xxOK DEF V
<1>4. CASE r.status \notin 200..299 /\ r.status \notin 300..699
  BY <1>4 DEF UacReceive
<1>5. QED
  BY <1>2, <1>3, <1>4

(* The ACK of a failure.                                                 *)
LEMMA SendAckOK ==
  ASSUME NEW W, NEW a, NEW U, NEW x, AgentOK(W, a, U, x), NEW i \in DOMAIN U.transactions,
         U.transactions[i].kind = "CI", NEW r, MessageOK(W, r), r.status # 0
  PROVE  AgentOK(W, a, SendAck(U, i, r), x)
<1> DEFINE q == U.transactions[i].request
           m == [q EXCEPT !.method = "ACK", !.tag = r.tag]
<1>1. TransactionOK(W, a, i, U.transactions[i])
  BY DEF AgentOK
<1>2. MessageOK(W, q) /\ q.status = 0 /\ q.method = "INVITE"
  BY <1>1 DEF TransactionOK
<1>3. r.tag \in 1..W.names
  BY DEF MessageOK
<1>4. MessageOK(W, m)
  <2> HIDE DEF q
  <2> QED
    BY <1>2, <1>3, AckOK
<1>5. SendAck(U, i, r) = Sent(U, m)
  BY DEF SendAck
<1> HIDE DEF m
<1>6. QED
  BY <1>4, <1>5, SentOK

(* Nothing was called by the name 0.                                     *)
LEMMA ExceptOK ==
  ASSUME NEW W, NEW a, NEW U, NEW x, AgentOK(W, a, U, 0)
  PROVE  AgentOK(W, a, U, x)
<1>1. Calling(U) \ {x} \subseteq Calling(U) \ {0}
  BY DEF AgentOK, TransactionOK, Calling
<1>2. QED
  BY <1>1 DEF AgentOK

(* The cases of SipTransactionClientInvite::receiveResponse().           *)
LEMMA ClientInviteReceiveIs ==
  ASSUME NEW U, NEW i, NEW r, NEW id, U.transactions[i].state \in {"Calling", "Proceeding"}
  PROVE  LET state == U.transactions[i].state
             N == IF state = "Calling" THEN StopTimers(U, {"A", "B"}) ELSE U
             D == StartTimer(SendAck(Enter(U, i, "Completed"), i, r), "D", Timer32s, i)
             Q == IF state = "Calling" THEN StopTimers(D, {"A", "B"}) ELSE D
             V == ClientInviteReceive(U, i, r, id)
         IN /\ r.status \in 100..199 => V = Enter(N, i, "Proceeding")
            /\ r.status \in 200..299 => V = Clear(UacReceive2xx(N, r, DialogOf(N, r)), i)
            /\ r.status \in 300..699 => V = UacReceive(Q, r, id)
<1> DEFINE state == U.transactions[i].state
           N == IF state = "Calling" THEN StopTimers(U, {"A", "B"}) ELSE U
           D == StartTimer(SendAck(Enter(U, i, "Completed"), i, r), "D", Timer32s, i)
           Q == IF state = "Calling" THEN StopTimers(D, {"A", "B"}) ELSE D
           V == ClientInviteReceive(U, i, r, id)
<1>1. ASSUME r.status \in 100..199
      PROVE  V = Enter(N, i, "Proceeding")
  <2>1. r.status < 200
    BY <1>1
  <2>2. r.status \notin 200..299 /\ r.status \notin 300..699
    BY <2>1
  <2>3. QED
    BY <1>1, <2>2 DEF ClientInviteReceive, UacReceive
<1>2. ASSUME r.status \in 200..299
      PROVE  V = Clear(UacReceive2xx(N, r, DialogOf(N, r)), i)
  <2>1. r.status \in Int /\ r.status < 300 /\ ~(r.status < 200)
    BY <1>2
  <2>2. r.status \notin 300..699 /\ r.status \notin 100..199
    BY <2>1
  <2>3. QED
    BY <1>2, <2>2 DEF ClientInviteReceive, UacReceive
<1>3. ASSUME r.status \in 300..699
      PROVE  V = UacReceive(Q, r, id)
  <2>1. r.status \in Int /\ ~(r.status < 300)
    BY <1>3
  <2>2. r.status \notin 100..199 /\ r.status \notin 200..299
    BY <2>1
  <2>3. QED
    BY <1>3, <2>2 DEF ClientInviteReceive
<1>4. QED
  BY <1>1, <1>2, <1>3

(* SipTransactionClientInvite::receiveResponse()                         *)
LEMMA ClientInviteReceiveOK ==
  ASSUME NEW W, NEW a \in W.peers, NEW U, AgentOK(W, a, U, 0),
         NEW i \in DOMAIN U.transactions, U.transactions[i].kind = "CI",
         NEW r, MessageOK(W, r), r.status # 0, r.to = a, r.method = "INVITE", r.branch = i,
         NEW id, id \notin DOMAIN U.transactions,
         id \in DOMAIN ClientInviteReceive(U, i, r, id).transactions => id \in 1..W.names
  PROVE  AgentOK(W, a, ClientInviteReceive(U, i, r, id), 0)
<1> DEFINE state == U.transactions[i].state
           N == IF state = "Calling" THEN StopTimers(U, {"A", "B"}) ELSE U
           C == Enter(U, i, "Completed")
           K == SendAck(C, i, r)
           R == StartTimer(K, "D", Timer32s, i)
           Q == IF state = "Calling" THEN StopTimers(R, {"A", "B"}) ELSE R
           V == ClientInviteReceive(U, i, r, id)
<1>1. Shape(U)
  BY DEF AgentOK
<1>2. AgentOK(W, a, N, 0) /\ N.transactions = U.transactions /\ N.dialogs = U.dialogs
  <2>1. LET S == StopTimers(U, {"A", "B"})
        IN AgentOK(W, a, S, 0) /\ S.transactions = U.transactions /\ S.dialogs = U.dialogs
    BY <1>1, StopTimersOK, StopTimersFields
  <2>2. QED
    BY <2>1
<1>3. r.call = i
  BY DEF MessageOK
<1>4. SUFFICES AgentOK(W, a, V, 0)
  OBVIOUS
<1>5. CASE state \in {"Calling", "Proceeding"} /\ r.status \in 100..199
  <2>1. V = Enter(N, i, "Proceeding")
    BY <1>5, ClientInviteReceiveIs
  <2>2. i \in Calling(N) /\ i \in DOMAIN N.transactions
    BY <1>2, <1>5 DEF Calling
  <2> HIDE DEF V, N
  <2>3. "Proceeding" \in States
    BY DEF States
  <2>4. QED
    BY <1>2, <2>1, <2>2, <2>3, EnterOK
<1>6. CASE state \in {"Calling", "Proceeding"} /\ r.status \in 200..299
  <2> DEFINE G == UacReceive2xx(N, r, DialogOf(N, r))
  <2>1. V = Clear(G, i)
    BY <1>6, ClientInviteReceiveIs
  <2>2. i \in Calling(U) /\ Calling(N) \ {i} = Calling(U) \ {i}
    BY <1>2, <1>6 DEF Calling
  <2>3. \A k \in DOMAIN N.dialogs : N.dialogs[k].call # r.call
    <3>1. i # 0
      BY DEF AgentOK, TransactionOK
    <3>2. QED
      BY <1>2, <1>3, <2>2, <3>1 DEF AgentOK
  <2> HIDE DEF V, N
  <2>4. AgentOK(W, a, N, i)
    BY <1>2, ExceptOK
  <2>5. AgentOK(W, a, G, i)
    BY <1>3, <1>6, <2>3, <2>4, UacReceive2xxOK
  <2> HIDE DEF G
  <2>6. QED
    BY <2>1, <2>5, ClearOK
<1>7. ASSUME r.status \in 300..699
      PROVE  AgentOK(W, a, Q, 0) /\ DOMAIN Q.transactions = DOMAIN U.transactions
  <2>1. "Completed" \in States \ {"Calling", "Proceeding"}
    BY DEF States
  <2>2. AgentOK(W, a, C, 0)
    BY <2>1, EnterOK
  <2>3. /\ Shape(C) /\ DOMAIN C.transactions = DOMAIN U.transactions
        /\ C.transactions[i].kind = "CI"
    <3>1. Shape(C) /\ C.transactions = [U.transactions EXCEPT ![i] = [U.transactions[i] EXCEPT !.state = "Completed"]]
      BY <1>1, EnterFields
    <3>2. TransactionOK(W, a, i, U.transactions[i])
      BY DEF AgentOK
    <3>3. [U.transactions[i] EXCEPT !.state = "Completed"].kind = "CI"
      BY <3>2 DEF TransactionOK, Transactions
    <3> HIDE DEF C
    <3>4. QED
      BY <3>1, <3>3
  <2> HIDE DEF C
  <2>4. AgentOK(W, a, K, 0)
    BY <2>2, <2>3, SendAckOK
  <2>5. Shape(K) /\ K.transactions = C.transactions
    BY <2>3, SentFields DEF SendAck
  <2> HIDE DEF K
  <2>6. AgentOK(W, a, R, 0) /\ Shape(R) /\ R.transactions = K.transactions
    BY <2>4, <2>5, StartTimerOK, StartTimerFields
  <2> HIDE DEF R
  <2>7. LET S == StopTimers(R, {"A", "B"})
        IN AgentOK(W, a, S, 0) /\ S.transactions = R.transactions
    BY <2>6, StopTimersOK, StopTimersFields
  <2>8. QED
    BY <2>3, <2>5, <2>6, <2>7
<1>8. CASE state \in {"Calling", "Proceeding"} /\ r.status \in 300..699
  <2>1. r.status \in Int /\ ~(r.status < 300)
    BY <1>8
  <2>2. r.status \notin 100..199 /\ r.status \notin 200..299
    BY <2>1
  <2>3. V = UacReceive(Q, r, id)
    BY <1>8, ClientInviteReceiveIs
  <2> HIDE DEF Q, V
  <2>4. id \in DOMAIN UacReceive(Q, r, id).transactions => id \in 1..W.names
    BY <2>3 DEF V
  <2>5. QED
    BY <1>7, <1>8, <2>2, <2>3, <2>4, UacReceiveOK
<1>9. CASE state = "Completed" /\ r.status \in 300..699
  <2>1. V = SendAck(U, i, r)
    BY <1>9 DEF ClientInviteReceive
  <2>2. QED
    BY <2>1, SendAckOK
<1>10. CASE /\ ~(state \in {"Calling", "Proceeding"} /\ r.status \in 100..199)
            /\ ~(state \in {"Calling", "Proceeding"} /\ r.status \in 200..299)
            /\ ~(state \in {"Calling", "Proceeding"} /\ r.status \in 300..699)
            /\ ~(state = "Completed" /\ r.status \in 300..699)
  <2>1. V = U
    BY <1>10 DEF ClientInviteReceive
  <2>2. QED
    BY <2>1
<1>11. QED
  BY <1>5, <1>6, <1>8, <1>9, <1>10

(* SipTransactionClientNonInvite::receiveResponse()                      *)
LEMMA ClientNonInviteReceiveOK ==
  ASSUME NEW W, NEW a \in W.peers, NEW U, AgentOK(W, a, U, 0),
         NEW i \in DOMAIN U.transactions, U.transactions[i].kind = "CN",
         NEW r, MessageOK(W, r), r.status # 0, r.to = a, r.method # "INVITE",
         NEW id, id \notin DOMAIN U.transactions,
         id \in DOMAIN ClientNonInviteReceive(U, i, r, id).transactions => id \in 1..W.names
  PROVE  AgentOK(W, a, ClientNonInviteReceive(U, i, r, id), 0)
<1> DEFINE state == U.transactions[i].state
           C == Enter(U, i, "Completed")
           K == StartTimer(C, "K", Timer4, i)
           F == StopTimers(K, {"E", "F"})
           V == ClientNonInviteReceive(U, i, r, id)
<1>1. Shape(U) /\ "Proceeding" \in States /\ "Completed" \in States \ {"Calling", "Proceeding"}
  BY DEF AgentOK, States
<1>2. AgentOK(W, a, F, 0) /\ DOMAIN F.transactions = DOMAIN U.transactions
  <2>1. AgentOK(W, a, C, 0)
    BY <1>1, EnterOK
  <2>2. Shape(C) /\ C.transactions = [U.transactions EXCEPT ![i] = [U.transactions[i] EXCEPT !.state = "Completed"]]
    BY <1>1, EnterFields
  <2> HIDE DEF C
  <2>3. DOMAIN C.transactions = DOMAIN U.transactions
    BY <2>2
  <2>4. AgentOK(W, a, K, 0) /\ Shape(K) /\ K.transactions = C.transactions
    BY <2>1, <2>2, StartTimerOK, StartTimerFields
  <2> HIDE DEF K
  <2>5. AgentOK(W, a, F, 0) /\ F.transactions = K.transactions
    BY <2>4, StopTimersOK, StopTimersFields
  <2> HIDE DEF F
  <2>6. QED
    BY <2>3, <2>4, <2>5
<1>3. r.status \in 100..199 \/ r.status \in 200..699
  <2>1. r.status \in {0} \cup 100..699
    BY MessageIs DEF MessageOK
  <2>2. QED
    BY <2>1, FinalClasses
<1>4. SUFFICES AgentOK(W, a, V, 0)
  OBVIOUS
<1>5. CASE state \notin {"Trying", "Proceeding"}
  <2>1. V = U
    BY <1>5 DEF ClientNonInviteReceive
  <2>2. QED
    BY <2>1
<1>6. CASE state \in {"Trying", "Proceeding"} /\ r.status \in 100..199
  <2>1. r.status < 200
    BY <1>6
  <2>2. r.status \notin 200..699
    BY <2>1
  <2>3. V = Enter(U, i, "Proceeding")
    BY <1>6, <2>2 DEF ClientNonInviteReceive
  <2> HIDE DEF V
  <2>4. QED
    BY <1>1, <2>3, EnterOK
<1>7. CASE state \in {"Trying", "Proceeding"} /\ r.status \in 200..699
  <2>1. r.status \in Int /\ ~(r.status < 200)
    BY <1>7
  <2>2. r.status \notin 100..199
    BY <2>1
  <2>3. V = UacReceive(F, r, id)
    BY <1>7, <2>2 DEF ClientNonInviteReceive
  <2> HIDE DEF F, V
  <2>4. id \in DOMAIN UacReceive(F, r, id).transactions => id \in 1..W.names
    BY <2>3 DEF V
  <2>5. QED
    BY <1>2, <2>3, <2>4, UacReceiveOK
<1>8. QED
  BY <1>3, <1>5, <1>6, <1>7

(* A response is handled by the transaction that it matches, if any.     *)
LEMMA ReceiveResponseOK ==
  ASSUME NEW W, NEW a \in W.peers, NEW U, AgentOK(W, a, U, 0),
         NEW r, MessageOK(W, r), r.status # 0, r.to = a,
         NEW id, id \notin DOMAIN U.transactions,
         id \in DOMAIN ReceiveResponse(U, r, id).transactions => id \in 1..W.names
  PROVE  AgentOK(W, a, ReceiveResponse(U, r, id), 0)
<1> DEFINE i == CHOOSE j \in Matching(U, r) : TRUE
           t == U.transactions[i]
           V == ReceiveResponse(U, r, id)
<1>1. SUFFICES AgentOK(W, a, V, 0)
  OBVIOUS
<1>2. CASE Matching(U, r) = {}
  <2>1. V = U
    BY <1>2 DEF ReceiveResponse
  <2>2. QED
    BY <2>1
<1>3. CASE Matching(U, r) # {}
  <2>1. i \in Matching(U, r)
    BY <1>3
  <2>2. V = IF t.kind = "CI" THEN ClientInviteReceive(U, i, r, id)
            ELSE ClientNonInviteReceive(U, i, r, id)
    BY <1>3 DEF ReceiveResponse
  <2> HIDE DEF i, V
  <2>3. i \in DOMAIN U.transactions /\ ClientMatches(t, r)
    BY <2>1 DEF Matching, ServerMatches
  <2>4. TransactionOK(W, a, i, t)
    BY <2>3 DEF AgentOK
  <2>5. /\ t.kind \in {"CI", "CN"} /\ r.branch = i
        /\ t.kind = "CI" <=> r.method = "INVITE"
    BY <2>3, <2>4 DEF TransactionOK, ClientMatches
  <2>6. CASE t.kind = "CI"
    <3>1. V = ClientInviteReceive(U, i, r, id)
      BY <2>2, <2>6
    <3>2. QED
      BY <2>3, <2>5, <2>6, <3>1, ClientInviteReceiveOK DEF V
  <2>7. CASE t.kind = "CN"
    <3>1. V = ClientNonInviteReceive(U, i, r, id)
      BY <2>2, <2>7
    <3>2. QED
      BY <2>3, <2>5, <2>7, <3>1, ClientNonInviteReceiveOK DEF V
  <2>8. QED
    BY <2>5, <2>6, <2>7
<1>4. QED
  BY <1>2, <1>3

-----------------------------------------------------------------------------
(* An alarm goes off                                                     *)

(* A timer goes off: no dialog changes.                                  *)
LEMMA ExpireOK ==
  ASSUME NEW W, NEW a, NEW U, NEW x, AgentOK(W, a, U, x), NEW i \in DOMAIN U.transactions, NEW t, NEW s
  PROVE  t \in UNION {Timers[k] : k \in DOMAIN Timers} => AgentOK(W, a, Expire(U, t, i, s), x)
<1>1. ASSUME NEW ticks
      PROVE  LET S == StartTimer(U, t, ticks, i)
             IN AgentOK(W, a, Resend(S, i), x) /\ AgentOK(W, a, Again(S, i), x)
  <2> DEFINE S == StartTimer(U, t, ticks, i)
  <2>1. Shape(U)
    BY DEF AgentOK
  <2>2. AgentOK(W, a, S, x) /\ S.transactions = U.transactions
    BY <2>1, StartTimerOK, StartTimerFields
  <2> HIDE DEF S
  <2>3. AgentOK(W, a, Resend(S, i), x) /\ AgentOK(W, a, Again(S, i), x)
    BY <2>2, ResendOK, AgainOK
  <2>4. QED
    BY <2>3 DEF S
<1>2. AgentOK(W, a, Clear(U, i), x)
  BY ClearOK
<1>3. AgentOK(W, a, ClientInviteExpires(U, t, i, s), x)
  BY <1>1, <1>2 DEF ClientInviteExpires
<1>4. AgentOK(W, a, ClientNonInviteExpires(U, t, i, s), x)
  BY <1>1, <1>2 DEF ClientNonInviteExpires
<1>5. AgentOK(W, a, ServerInviteExpires(U, t, i, s), x)
  BY <1>1, <1>2 DEF ServerInviteExpires
<1>6. AgentOK(W, a, ServerNonInviteExpires(U, i, s), x)
  BY <1>2 DEF ServerNonInviteExpires
<1>7. QED
  BY <1>3, <1>4, <1>5, <1>6 DEF Expire, Timers

(* The history of two threads at one transaction is none of the agent's. *)
LEMMA MarkFields ==
  ASSUME NEW U, Shape(U), NEW I
  PROVE  LET V == Mark(U, I)
         IN /\ Shape(V) /\ V.dialogs = U.dialogs /\ V.out = U.out /\ V.told = U.told
            /\ V.transactions = U.transactions /\ V.alarm = U.alarm
            /\ V.forgotten = U.forgotten /\ V.value = U.value
            /\ V.shared = U.shared \cup {U.transactions[i].kind : i \in I}
BY DEF Mark, Shape, Fields

LEMMA MarkOK ==
  ASSUME NEW W, NEW a, NEW U, NEW x, AgentOK(W, a, U, x), NEW I
  PROVE  AgentOK(W, a, Mark(U, I), x)
<1>1. Shape(U)
  BY DEF AgentOK
<1>2. Shape(Mark(U, I)) /\ Alike(Mark(U, I), U)
  BY <1>1, MarkFields DEF Alike
<1>3. QED
  BY <1>2, AlikeOK

-----------------------------------------------------------------------------
(* The timers                                                            *)

Kinds == DOMAIN Timers

AllTimers == UNION {Timers[k] : k \in Kinds}

(* What has begun at an agent and goes on: M.starts, the transactions    *)
(* whose first timers are not all started, of the kind that the timers   *)
(* tell, and M.calls, the callbacks that have tested the state.          *)
Starters(O) == [owner : O, timers : {<<"A", "B">>, <<"B">>, <<"E", "F">>, <<"F">>}]

KindOf(j) == IF j.timers \in {<<"A", "B">>, <<"B">>} THEN "CI" ELSE "CN"

StartsOf(M, k) == {j \in M.starts : KindOf(j) = k}

(* They belong to transactions that live, or have lived, under the names *)
(* O; a callback that goes on has met another thread.                    *)
WorksOK(O, M, U) ==
    /\ \A j \in M.starts :
          /\ j \in Starters(O)
          /\ j.owner \in DOMAIN U.transactions => U.transactions[j.owner].kind = KindOf(j)
    /\ \A c \in M.calls :
          /\ c \in [timer : AllTimers, owner : O, state : States]
          /\ c.owner \in DOMAIN U.transactions =>
                LET k == U.transactions[c.owner].kind IN k \in U.shared /\ c.timer \in Timers[k]

(* The transactions of V have the kinds that they had in U, if their     *)
(* names are in O.                                                       *)
Descends(O, V, U) ==
    /\ U.shared \subseteq V.shared
    /\ \A i \in DOMAIN V.transactions : i \in O =>
          i \in DOMAIN U.transactions /\ V.transactions[i].kind = U.transactions[i].kind

LEMMA WorksGoOn ==
  ASSUME NEW O, NEW M, NEW U, WorksOK(O, M, U), NEW P, O \subseteq P, NEW V, Descends(O, V, U)
  PROVE  WorksOK(P, M, V)
<1>1. ASSUME NEW j \in M.starts
      PROVE  /\ j \in Starters(P)
             /\ j.owner \in DOMAIN V.transactions => V.transactions[j.owner].kind = KindOf(j)
  <2>1. j \in Starters(O) /\ j.owner \in O
    BY DEF WorksOK, Starters
  <2>2. QED
    BY <2>1 DEF WorksOK, Descends, Starters
<1>2. ASSUME NEW c \in M.calls
      PROVE  /\ c \in [timer : AllTimers, owner : P, state : States]
             /\ c.owner \in DOMAIN V.transactions =>
                  LET k == V.transactions[c.owner].kind IN k \in V.shared /\ c.timer \in Timers[k]
  <2>1. c \in [timer : AllTimers, owner : O, state : States] /\ c.owner \in O
    BY DEF WorksOK
  <2>2. QED
    BY <2>1 DEF WorksOK, Descends
<1>3. QED
  BY <1>1, <1>2 DEF WorksOK

(* The alarms are those of timers of the transactions that live, or have *)
(* lived, under the names O.                                             *)
ClockOK(O, M, U) ==
    /\ Shape(U)
    /\ U.transactions = [i \in DOMAIN U.transactions |-> U.transactions[i]]
    /\ U.alarm = [t \in AllTimers |-> U.alarm[t]]
    /\ \A t \in AllTimers : U.alarm[t] # Null =>
          /\ U.alarm[t] \in [owner : O, left : Nat]
          /\ U.alarm[t].owner \in DOMAIN U.transactions =>
                t \in Timers[U.transactions[U.alarm[t].owner].kind]
    /\ \A e \in U.forgotten :
          /\ e \in [timer : AllTimers, owner : O, left : Nat]
          /\ e.owner \in DOMAIN U.transactions =>
                e.timer \in Timers[U.transactions[e.owner].kind]
    /\ U.value \in [Doubled -> Nat]
    /\ WorksOK(O, M, U)

(* Of the kind k only i lives, if any, and R are its timers that run.    *)
Holds(U, k, i, R) ==
    /\ OfKind(U, k) \subseteq {i}
    /\ \A e \in U.forgotten : e.timer \notin Timers[k]
    /\ \A t \in Timers[k] : /\ t \in R => U.alarm[t] # Null /\ U.alarm[t].owner = i
                            /\ t \notin R => U.alarm[t] = Null

(* The timers that the state of i asks for.                              *)
Due(U, k, i) == IF i \in OfKind(U, k) THEN Runs(U.transactions[i]) ELSE {}

(* An INVITE has gone out n times, the last one with v ticks to the next,  *)
(* of which x are left, and y of the timeout.                            *)
Beats(n, v, x, y) ==
    /\ n \in Nat \ {0} /\ v = Timer1 * (Doublings[n - 1] + 1) /\ x <= v
    /\ Timeout - y + x = Timer1 * Doublings[n]

(* f doubles as Doublings do, up to n.                                   *)
Doubles(n, f) == f[0] = 0 /\ \A j \in 1..n : f[j] = 2 * f[j - 1] + 1

LEMMA Before ==
  ASSUME NEW n \in Nat, NEW j \in 1..n
  PROVE  j - 1 \in 0..n /\ j \in 0..n /\ j - 1 \in Nat /\ j \in Nat
OBVIOUS

LEMMA DoublesExist ==
  ASSUME NEW n \in Nat
  PROVE  \E f \in [0..n -> Nat] : Doubles(n, f)
<1> DEFINE G(m) == \E f \in [0..m -> Nat] : Doubles(m, f)
           T == {m \in Nat : ~G(m)}
<1>1. G(0)
  <2> DEFINE z == [i \in 0..0 |-> 0]
  <2>1. z \in [0..0 -> Nat] /\ Doubles(0, z)
    BY DEF Doubles
  <2> HIDE DEF z
  <2>2. QED
    BY <2>1
<1>2. ASSUME NEW m \in Nat \ {0}, G(m - 1) PROVE G(m)
  <2>1. PICK f \in [0..m-1 -> Nat] : Doubles(m - 1, f)
    BY <1>2
  <2> DEFINE g == [i \in 0..m |-> IF i = m THEN 2 * f[m - 1] + 1 ELSE f[i]]
  <2>2. f[m - 1] \in Nat
    OBVIOUS
  <2>3. g \in [0..m -> Nat]
    BY <2>2
  <2>4. Doubles(m, g)
    <3>1. ASSUME NEW j \in 1..m PROVE g[j] = 2 * g[j - 1] + 1
      <4>1. j \in 0..m /\ j - 1 \in 0..m /\ j - 1 # m
        BY Before
      <4>2. g[j] = (IF j = m THEN 2 * f[m - 1] + 1 ELSE f[j]) /\ g[j - 1] = f[j - 1]
        BY <4>1
      <4>3. CASE j = m
        BY <4>2, <4>3
      <4>4. CASE j # m
        <5>1. j \in 1..m-1
          BY <4>4
        <5>2. QED
          BY <2>1, <4>2, <4>4, <5>1 DEF Doubles
      <4>5. QED
        BY <4>3, <4>4
    <3>2. g[0] = 0
      BY <2>1 DEF Doubles
    <3> HIDE DEF g
    <3>3. QED
      BY <3>1, <3>2 DEF Doubles
  <2> HIDE DEF g
  <2>5. QED
    BY <2>3, <2>4
<1> HIDE DEF G
<1>3. T = {}
  <2> SUFFICES ASSUME T # {} PROVE FALSE
    OBVIOUS
  <2>1. T \in SUBSET Nat
    OBVIOUS
  <2>2. PICK m \in T : \A l \in T : m <= l
    BY <2>1, LeastNatural
  <2>3. m \in Nat \ {0} /\ m - 1 \in Nat /\ m - 1 \notin T
    BY <1>1, <2>2
  <2>4. QED
    BY <1>2, <2>2, <2>3
<1>4. G(n)
  BY <1>3
<1>5. QED
  BY <1>4 DEF G

LEMMA DoublesUnique ==
  ASSUME NEW n \in Nat, NEW m \in Nat, n <= m, NEW f, Doubles(n, f), NEW g, Doubles(m, g)
  PROVE  \A j \in 0..n : f[j] = g[j]
<1> DEFINE T == {j \in 0..n : f[j] # g[j]}
<1> SUFFICES ASSUME T # {} PROVE FALSE
  OBVIOUS
<1>1. T \in SUBSET Nat
  OBVIOUS
<1>2. PICK j \in T : \A l \in T : j <= l
  BY <1>1, LeastNatural
<1>3. j \in 1..n /\ j \in 1..m /\ j - 1 \in 0..n /\ j - 1 \notin T
  BY <1>2 DEF Doubles
<1>4. f[j] = 2 * f[j - 1] + 1 /\ g[j] = 2 * g[j - 1] + 1
  BY <1>3 DEF Doubles
<1>5. QED
  BY <1>2, <1>3, <1>4

(* Doublings is what its recursion says.                                 *)
LEMMA DoublingsAre ==
  /\ \A n \in Nat : Doublings[n] \in Nat
  /\ Doublings[0] = 0
  /\ \A n \in Nat \ {0} : Doublings[n] = 2 * Doublings[n - 1] + 1
<1> DEFINE h(n) == CHOOSE f \in [0..n -> Nat] : Doubles(n, f)
           d == [n \in Nat |-> h(n)[n]]
           F(f) == [n \in Nat |-> IF n = 0 THEN 0 ELSE 2 * f[n - 1] + 1]
           u == CHOOSE f : f = F(f)
<1>1. ASSUME NEW n \in Nat PROVE h(n) \in [0..n -> Nat] /\ Doubles(n, h(n))
  BY DoublesExist
<1> HIDE DEF h
<1>2. ASSUME NEW n \in Nat PROVE d[n] = h(n)[n] /\ h(n)[n] \in Nat
  BY <1>1
<1> HIDE DEF d
<1>3. d[0] = 0
  BY <1>1, <1>2 DEF Doubles
<1>4. ASSUME NEW n \in Nat \ {0} PROVE d[n] = 2 * d[n - 1] + 1
  <2>1. n - 1 \in Nat /\ n - 1 <= n /\ n - 1 \in 0..(n - 1) /\ n \in 1..n
    OBVIOUS
  <2>2. Doubles(n - 1, h(n - 1)) /\ Doubles(n, h(n))
    BY <1>1, <2>1
  <2>3. h(n - 1)[n - 1] = h(n)[n - 1]
    BY <2>1, <2>2, DoublesUnique
  <2>4. h(n)[n] = 2 * h(n)[n - 1] + 1
    BY <2>1, <2>2 DEF Doubles
  <2>5. QED
    BY <1>2, <2>1, <2>3, <2>4
<1>5. d = F(d)
  <2>1. \A n \in Nat : d[n] = IF n = 0 THEN 0 ELSE 2 * d[n - 1] + 1
    BY <1>3, <1>4
  <2>2. QED
    BY <2>1 DEF d
<1>6. u = F(u)
  BY <1>5
<1>7. Doublings = u
  BY DEF Doublings
<1> HIDE DEF u
<1>8. \A n \in Nat : Doublings[n] = IF n = 0 THEN 0 ELSE 2 * Doublings[n - 1] + 1
  BY <1>6, <1>7
<1>9. \A n \in Nat : Doublings[n] \in Nat
  <2> DEFINE T == {n \in Nat : Doublings[n] \notin Nat}
  <2> SUFFICES ASSUME T # {} PROVE FALSE
    OBVIOUS
  <2>1. T \in SUBSET Nat
    OBVIOUS
  <2>2. PICK m \in T : \A l \in T : m <= l
    BY <2>1, LeastNatural
  <2>3. m \in Nat \ {0} /\ m - 1 \in Nat /\ m - 1 \notin T
    BY <1>8, <2>2
  <2>4. Doublings[m - 1] \in Nat /\ Doublings[m] = 2 * Doublings[m - 1] + 1
    BY <1>8, <2>3
  <2>5. QED
    BY <2>2, <2>4
<1>10. QED
  BY <1>8, <1>9

(* The first INVITE, and the one after the n-th.                         *)
LEMMA FirstBeat == Beats(1, Timer1, Timer1, Timeout)
<1>1. Doublings[0] = 0 /\ Doublings[1] = 1
  BY DoublingsAre
<1>2. Timer1 \in Nat /\ Timeout \in Nat
  BY TimerAssumption
<1>3. Timer1 * (0 + 1) = Timer1 /\ Timer1 * 1 = Timer1 /\ Timeout - Timeout + Timer1 = Timer1
  BY <1>2
<1>4. QED
  BY <1>1, <1>2, <1>3 DEF Beats

LEMMA NextBeat ==
  ASSUME NEW n, NEW v, NEW y \in Nat, Beats(n, v, 0, y)
  PROVE  Beats(n + 1, 2 * v, 2 * v, y)
<1> DEFINE d == Doublings[n - 1]
           e == Doublings[n]
<1>1. n \in Nat \ {0} /\ n - 1 \in Nat /\ n + 1 \in Nat \ {0} /\ (n + 1) - 1 = n
  BY DEF Beats
<1>2. d \in Nat /\ e \in Nat /\ e = 2 * d + 1 /\ Doublings[n + 1] = 2 * e + 1
  BY <1>1, DoublingsAre
<1>3. Timer1 \in Nat /\ Timeout \in Nat
  BY TimerAssumption
<1>4. v = Timer1 * (d + 1) /\ Timeout - y + 0 = Timer1 * e
  BY DEF Beats
<1> HIDE DEF d, e
<1>5. v \in Nat /\ 2 * v = Timer1 * (e + 1)
  BY <1>2, <1>3, <1>4
<1>6. Timeout - y + 2 * v = Timer1 * (2 * e + 1)
  BY <1>2, <1>3, <1>4, <1>5
<1>7. QED
  BY <1>1, <1>2, <1>5, <1>6 DEF Beats, e

(* A tick, and what it means for the time since the first INVITE.        *)
LEMMA BeatLater ==
  ASSUME NEW n, NEW v, NEW x \in Nat, NEW y \in Nat, Beats(n, v, x, y)
  PROVE  Beats(n, v, x - 1, y - 1)
<1>1. n \in Nat \ {0} /\ n - 1 \in Nat
  BY DEF Beats
<1>2. Doublings[n - 1] \in Nat /\ Doublings[n] \in Nat /\ Timer1 \in Nat /\ Timeout \in Nat
  BY <1>1, DoublingsAre, TimerAssumption
<1>3. v = Timer1 * (Doublings[n - 1] + 1) /\ x <= v /\ Timeout - y + x = Timer1 * Doublings[n]
  BY DEF Beats
<1>4. v \in Nat
  BY <1>2, <1>3
<1>5. x - 1 <= v /\ Timeout - (y - 1) + (x - 1) = Timeout - y + x
  BY <1>2, <1>3, <1>4
<1>6. QED
  BY <1>1, <1>3, <1>5 DEF Beats

LEMMA BeatElapsed ==
  ASSUME NEW n, NEW v, NEW x \in Nat, NEW y \in Nat, Beats(n, v, x, y)
  PROVE  Timer1 * Doublings[n - 1] <= Timeout - y /\ Timeout - y <= Timer1 * Doublings[n]
<1> DEFINE d == Doublings[n - 1]
           e == Doublings[n]
<1>1. n \in Nat \ {0} /\ n - 1 \in Nat
  BY DEF Beats
<1>2. d \in Nat /\ e \in Nat /\ e = 2 * d + 1
  BY <1>1, DoublingsAre
<1>3. v = Timer1 * (d + 1) /\ x <= v /\ Timeout - y + x = Timer1 * e
  BY DEF Beats
<1> HIDE DEF d, e
<1>4. Timer1 \in Nat /\ Timeout \in Nat
  BY TimerAssumption
<1>5. v \in Nat /\ Timer1 * e = Timer1 * d + v /\ Timer1 * d \in Nat
  BY <1>2, <1>3, <1>4
<1>6. Timer1 * d <= Timeout - y /\ Timeout - y <= Timer1 * e
  BY <1>3, <1>4, <1>5
<1>7. QED
  BY <1>6 DEF d, e

(* Transaction t repeats its INVITE.                                     *)
Rings(t) == t.kind = "CI" /\ t.state = "Calling"

(* ... as transaction i does when the next one is due in x ticks.        *)
RingsIn(U, i, x) == Beats(U.transactions[i].tries, U.value["A"], x, U.alarm["B"].left)

OnTime(U, i) == Rings(U.transactions[i]) => RingsIn(U, i, U.alarm["A"].left)

Paced(U, k) == \A i \in OfKind(U, k) : OnTime(U, i)

Complete(U, k) == (\E i : Holds(U, k, i, Due(U, k, i))) /\ Paced(U, k)

(* The first timers of transaction j.owner, of kind k, are still to      *)
(* start, but for those that have just started.                          *)
Opens(j, U, k) ==
    LET t == U.transactions[j.owner]
    IN /\ j.owner \in OfKind(U, k)
       /\ \/ /\ k = "CI" /\ t.state = "Calling" /\ t.tries = 1
             /\ \/ j.timers = <<"A", "B">> /\ Holds(U, k, j.owner, {})
                \/ /\ j.timers = <<"B">> /\ Holds(U, k, j.owner, {"A"})
                   /\ U.alarm["A"].left = Timer1 /\ U.value["A"] = Timer1
          \/ /\ k = "CN" /\ t.state = "Trying"
             /\ \/ j.timers = <<"E", "F">> /\ Holds(U, k, j.owner, {})
                \/ /\ j.timers = <<"F">> /\ Holds(U, k, j.owner, {"E"})
                   /\ U.alarm["E"].left = Timer1

Follows(M, U, k) ==
    \/ StartsOf(M, k) = {} /\ Complete(U, k)
    \/ \E j : StartsOf(M, k) = {j} /\ Opens(j, U, k)

Settled(O, M, U) == ClockOK(O, M, U) /\ \A k \in Kinds \ U.shared : Follows(M, U, k)

(* ... all but transaction i of kind k, of which the timers R run.       *)
Unsettled(O, M, U, k, i, R) ==
    /\ ClockOK(O, M, U)
    /\ \A j \in Kinds \ (U.shared \cup {k}) : Follows(M, U, j)
    /\ k \notin U.shared => StartsOf(M, k) = {} /\ Holds(U, k, i, R)

(* The timers, kind by kind.                                             *)
LEMMA TimersAre ==
  /\ Kinds = {"CI", "CN", "SI", "SN"}
  /\ AllTimers = {"A", "B", "D", "E", "F", "K", "G", "H", "I", "J"}
  /\ Timers["CI"] = {"A", "B", "D"} /\ Timers["CN"] = {"E", "F", "K"}
  /\ Timers["SI"] = {"G", "H", "I"} /\ Timers["SN"] = {"J"}
BY DEF Timers, Kinds, AllTimers

LEMMA KindsApart ==
  ASSUME NEW j \in Kinds, NEW k \in Kinds, NEW t, t \in Timers[j], t \in Timers[k]
  PROVE  j = k /\ t \in AllTimers
BY TimersAre

(* A transaction asks for timers of its own kind.                        *)
LEMMA RunsOfKind ==
  ASSUME NEW t, t.kind \in Kinds
  PROVE  Runs(t) \subseteq Timers[t.kind]
BY TimersAre DEF Runs

(* Nobody else is at the transactions I: their first timers are started. *)
Free(M, U, I) ==
    \A k \in Kinds \ U.shared : I \cap OfKind(U, k) # {} => StartsOf(M, k) = {}

(* An operation opens the kind of its transaction, changes it, and closes*)
(* it again when the timers are those of the state.                      *)
LEMMA OpenSettled ==
  ASSUME NEW O, NEW M, NEW U, Settled(O, M, U), NEW k \in Kinds, NEW i \in OfKind(U, k),
         NEW I, i \in I, Free(M, U, I)
  PROVE  Unsettled(O, M, U, k, i, Runs(U.transactions[i]))
<1>1. ASSUME k \notin U.shared
      PROVE  StartsOf(M, k) = {} /\ Holds(U, k, i, Runs(U.transactions[i]))
  <2>1. StartsOf(M, k) = {}
    BY <1>1 DEF Free
  <2>2. PICK j : Holds(U, k, j, Due(U, k, j))
    BY <1>1, <2>1 DEF Settled, Follows, Complete
  <2>3. j = i
    BY <2>2 DEF Holds
  <2>4. QED
    BY <2>1, <2>2, <2>3 DEF Due
<1>2. QED
  BY <1>1 DEF Settled, Unsettled

LEMMA CloseUnsettled ==
  ASSUME NEW O, NEW M, NEW U, NEW k \in Kinds, NEW i,
         Unsettled(O, M, U, k, i, Due(U, k, i)), k \notin U.shared => Paced(U, k)
  PROVE  Settled(O, M, U)
<1>1. ASSUME k \notin U.shared PROVE Follows(M, U, k)
  BY <1>1 DEF Unsettled, Follows, Complete
<1>2. QED
  BY <1>1 DEF Unsettled, Settled

(* V has the transactions of U of kind k, with their timers.             *)
Keeps(V, U, k) ==
    /\ OfKind(V, k) = OfKind(U, k)
    /\ \A i \in OfKind(U, k) : V.transactions[i] = U.transactions[i]
    /\ \A t \in Timers[k] : V.alarm[t] = U.alarm[t]
    /\ k = "CI" => V.value["A"] = U.value["A"]
    /\ \A e \in V.forgotten : e.timer \in Timers[k] => e \in U.forgotten

(* What touches neither the transactions nor the timers of a kind leaves *)
(* it as it was.                                                         *)
LEMMA CompleteKept ==
  ASSUME NEW U, NEW V, NEW k, Complete(U, k), Keeps(V, U, k)
  PROVE  Complete(V, k)
<1>1. PICK i : Holds(U, k, i, Due(U, k, i))
  BY DEF Complete
<1>2. Due(V, k, i) = Due(U, k, i)
  BY DEF Keeps, Due
<1>3. Holds(V, k, i, Due(U, k, i))
  BY <1>1 DEF Keeps, Holds
<1>4. ASSUME NEW j \in OfKind(V, k) PROVE OnTime(V, j)
  <2>1. j \in OfKind(U, k) /\ V.transactions[j] = U.transactions[j] /\ U.transactions[j].kind = k
    BY DEF Keeps, OfKind
  <2>2. CASE k = "CI"
    <3>1. V.value["A"] = U.value["A"] /\ V.alarm["A"] = U.alarm["A"] /\ V.alarm["B"] = U.alarm["B"]
      BY <2>2, TimersAre DEF Keeps
    <3>2. OnTime(U, j)
      BY <2>1 DEF Complete, Paced
    <3>3. QED
      BY <2>1, <3>1, <3>2 DEF OnTime, RingsIn
  <2>3. CASE k # "CI"
    BY <2>1, <2>3 DEF OnTime, Rings
  <2>4. QED
    BY <2>2, <2>3
<1>5. QED
  BY <1>2, <1>3, <1>4 DEF Complete, Paced

LEMMA OpensKept ==
  ASSUME NEW U, NEW V, NEW k, NEW j, Opens(j, U, k), Keeps(V, U, k)
  PROVE  Opens(j, V, k)
<1>1. j.owner \in OfKind(V, k) /\ V.transactions[j.owner] = U.transactions[j.owner]
  BY DEF Opens, Keeps
<1>2. ASSUME NEW R, Holds(U, k, j.owner, R) PROVE Holds(V, k, j.owner, R)
  BY <1>2 DEF Keeps, Holds
<1>3. /\ k = "CI" => V.alarm["A"] = U.alarm["A"] /\ V.value["A"] = U.value["A"]
      /\ k = "CN" => V.alarm["E"] = U.alarm["E"]
  BY TimersAre DEF Keeps
<1>4. QED
  BY <1>1, <1>2, <1>3 DEF Opens

LEMMA FollowsKept ==
  ASSUME NEW M, NEW U, NEW V, NEW k, Follows(M, U, k), Keeps(V, U, k)
  PROVE  Follows(M, V, k)
BY CompleteKept, OpensKept DEF Follows

(* U and V have the same timers, and the same kinds of transactions.     *)
SameTimers(V, U) ==
    /\ Shape(V) /\ V.alarm = U.alarm /\ V.forgotten = U.forgotten
    /\ V.value = U.value /\ V.shared = U.shared
    /\ V.transactions = [i \in DOMAIN V.transactions |-> V.transactions[i]]
    /\ DOMAIN V.transactions = DOMAIN U.transactions
    /\ \A i \in DOMAIN U.transactions : V.transactions[i].kind = U.transactions[i].kind

(* Other messages, dialogs and states move no alarm.                     *)
LEMMA ClockSame ==
  ASSUME NEW O, NEW M, NEW U, ClockOK(O, M, U), NEW V, SameTimers(V, U)
  PROVE  ClockOK(O, M, V)
<1>1. Descends(O, V, U)
  BY DEF Descends, SameTimers
<1>2. WorksOK(O, M, V)
  BY <1>1, WorksGoOn DEF ClockOK
<1>3. QED
  BY <1>2 DEF ClockOK, SameTimers

(* i, of kind k, is the only transaction of another state.               *)
LEMMA UnsettledSame ==
  ASSUME NEW O, NEW M, NEW U, NEW k, NEW i, NEW R, Unsettled(O, M, U, k, i, R),
         NEW V, SameTimers(V, U),
         \A j \in DOMAIN U.transactions : U.transactions[j].kind # k =>
            V.transactions[j] = U.transactions[j]
  PROVE  Unsettled(O, M, V, k, i, R)
<1>1. ClockOK(O, M, V)
  BY ClockSame DEF Unsettled
<1>2. ASSUME NEW j \in Kinds \ (V.shared \cup {k}) PROVE Follows(M, V, j)
  <2>1. Keeps(V, U, j)
    BY DEF Keeps, SameTimers, OfKind
  <2>2. Follows(M, U, j)
    BY DEF Unsettled, SameTimers
  <2>3. QED
    BY <2>1, <2>2, FollowsKept
<1>3. k \notin V.shared => StartsOf(M, k) = {} /\ Holds(V, k, i, R)
  BY DEF Unsettled, SameTimers, Holds, OfKind
<1>4. QED
  BY <1>1, <1>2, <1>3 DEF Unsettled

LEMMA SettledSame ==
  ASSUME NEW O, NEW M, NEW U, Settled(O, M, U), NEW V, SameTimers(V, U),
         \A j \in DOMAIN U.transactions : V.transactions[j] = U.transactions[j]
  PROVE  Settled(O, M, V)
<1>1. ClockOK(O, M, V)
  BY ClockSame DEF Settled
<1>2. ASSUME NEW j \in Kinds \ V.shared PROVE Follows(M, V, j)
  <2>1. Keeps(V, U, j)
    BY DEF Keeps, SameTimers, OfKind
  <2>2. Follows(M, U, j)
    BY DEF Settled, SameTimers
  <2>3. QED
    BY <2>1, <2>2, FollowsKept
<1>3. QED
  BY <1>1, <1>2 DEF Settled

(* The primitives                                                        *)

LEMMA UnsettledShape ==
  ASSUME NEW O, NEW M, NEW U, NEW k, NEW i, NEW R, Unsettled(O, M, U, k, i, R)
  PROVE  Shape(U)
BY DEF Unsettled, ClockOK

(* How the operations change the timers of the transaction they are      *)
(* about.                                                                *)
LEMMA StopTimersUnsettled ==
  ASSUME NEW O, NEW M, NEW U, NEW k \in Kinds, NEW i, NEW R, Unsettled(O, M, U, k, i, R),
         NEW T, T \subseteq Timers[k]
  PROVE  Unsettled(O, M, StopTimers(U, T), k, i, R \ T)
<1> DEFINE V == StopTimers(U, T)
<1>1. ClockOK(O, M, U) /\ Shape(U)
  BY DEF Unsettled, ClockOK
<1>2. /\ Shape(V) /\ V.transactions = U.transactions /\ V.forgotten = U.forgotten
      /\ V.value = U.value /\ V.shared = U.shared /\ V.alarm = Silenced(U.alarm, T)
  BY <1>1, StopTimersFields
<1> HIDE DEF V
<1>3. /\ DOMAIN V.alarm = AllTimers
      /\ \A t \in AllTimers : V.alarm[t] = IF t \in T THEN Null ELSE U.alarm[t]
      /\ V.alarm = [t \in AllTimers |-> V.alarm[t]]
  <2>1. DOMAIN U.alarm = AllTimers
    BY <1>1 DEF ClockOK
  <2>2. V.alarm = [t \in AllTimers |-> IF t \in T THEN Null ELSE U.alarm[t]]
    BY <1>2, <2>1 DEF Silenced
  <2>3. QED
    BY <2>2
<1>4. ClockOK(O, M, V)
  <2>1. Descends(O, V, U)
    BY <1>2 DEF Descends
  <2>2. WorksOK(O, M, V)
    BY <1>1, <2>1, WorksGoOn DEF ClockOK
  <2>3. QED
    BY <1>1, <1>2, <1>3, <2>2, ZenonT(60) DEF ClockOK
<1>5. ASSUME NEW j \in Kinds \ (V.shared \cup {k}) PROVE Follows(M, V, j)
  <2>1. \A t \in Timers[j] : t \in AllTimers /\ t \notin T
    BY KindsApart DEF AllTimers
  <2>2. Keeps(V, U, j)
    BY <1>2, <1>3, <2>1 DEF Keeps, OfKind
  <2>3. Follows(M, U, j)
    BY <1>2 DEF Unsettled
  <2>4. QED
    BY <2>2, <2>3, FollowsKept
<1>6. k \notin V.shared => Holds(V, k, i, R \ T)
  <2>1. \A t \in Timers[k] : t \in AllTimers
    BY DEF AllTimers
  <2>2. QED
    BY <1>2, <1>3, <2>1 DEF Unsettled, Holds, OfKind
<1>7. QED
  BY <1>2, <1>4, <1>5, <1>6 DEF Unsettled, V

(* Timer t runs besides R.                                               *)
Besides(R, t) == R \cup {t}

LEMMA StartTimerClock ==
  ASSUME NEW O, NEW M, NEW U, ClockOK(O, M, U), NEW t \in AllTimers, NEW ticks \in Nat,
         NEW i \in O, O \subseteq Nat, i \in DOMAIN U.transactions => t \in Timers[U.transactions[i].kind]
  PROVE  ClockOK(O, M, StartTimer(U, t, ticks, i))
<1> DEFINE V == StartTimer(U, t, ticks, i)
           n == [owner |-> i, left |-> ticks]
           Z == Overwritten(U, t)
<1>1. ClockOK(O, M, U) /\ Shape(U)
  BY DEF ClockOK
<1>2. /\ Shape(V) /\ V.transactions = U.transactions /\ V.forgotten = U.forgotten \cup Z
      /\ V.shared = U.shared /\ V.alarm = Armed(U.alarm, t, i, ticks)
  BY <1>1, StartTimerFields
<1>3. V.value \in [Doubled -> Nat]
  <2>1. /\ t \in Doubled => V.value = [U.value EXCEPT ![t] = ticks]
        /\ t \notin Doubled => V.value = U.value
    BY <1>1, StartTimerValue
  <2> HIDE DEF V
  <2>2. U.value \in [Doubled -> Nat]
    BY <1>1 DEF ClockOK
  <2>3. QED
    BY <2>1, <2>2
<1>4. ASSUME NEW e \in Z
      PROVE  /\ e = [timer |-> t, owner |-> U.alarm[t].owner, left |-> U.alarm[t].left]
             /\ U.alarm[t] # Null
  BY DEF Overwritten, Set
<1> HIDE DEF V, Z
<1>5. DOMAIN U.alarm = AllTimers
  BY <1>1 DEF ClockOK
<1>6. /\ V.alarm = [u \in AllTimers |-> V.alarm[u]]
      /\ \A u \in AllTimers : V.alarm[u] = IF u = t THEN n ELSE U.alarm[u]
  <2>1. V.alarm = [U.alarm EXCEPT ![t] = n]
    BY <1>2 DEF Armed
  <2>2. QED
    BY <2>1, <1>5
<1>7. n.owner = i /\ n \in [owner : O, left : Nat]
  OBVIOUS
<1> HIDE DEF n
<1>8. ASSUME NEW e \in Z
      PROVE  /\ e \in [timer : AllTimers, owner : O, left : Nat]
             /\ e.owner \in DOMAIN U.transactions => e.timer \in Timers[U.transactions[e.owner].kind]
  BY <1>1, <1>5, <1>4 DEF ClockOK
<1>9. ClockOK(O, M, V)
  <2>1. Descends(O, V, U)
    BY <1>2 DEF Descends
  <2>2. WorksOK(O, M, V)
    BY <1>1, <2>1, WorksGoOn DEF ClockOK
  <2>3. QED
    BY <1>1, <1>2, <1>3, <1>5, <1>6, <1>7, <1>8, <2>2, ZenonT(60) DEF ClockOK
<1>10. QED
  BY <1>9 DEF V

(* The timers of the other kinds are as they were, ...                   *)
LEMMA StartTimerKeeps ==
  ASSUME NEW O, NEW M, NEW U, ClockOK(O, M, U), NEW k \in Kinds, NEW t \in Timers[k],
         NEW ticks, NEW i, NEW j \in Kinds \ {k}
  PROVE  Keeps(StartTimer(U, t, ticks, i), U, j)
<1> DEFINE V == StartTimer(U, t, ticks, i)
           Z == Overwritten(U, t)
<1>1. Shape(U) /\ DOMAIN U.alarm = AllTimers /\ U.value \in [Doubled -> Nat]
  BY DEF ClockOK
<1>2. /\ V.transactions = U.transactions /\ V.forgotten = U.forgotten \cup Z
      /\ V.alarm = Armed(U.alarm, t, i, ticks)
  BY <1>1, StartTimerFields
<1>3. t # "A" => V.value["A"] = U.value["A"]
  <2>1. /\ t \in Doubled => V.value = [U.value EXCEPT ![t] = ticks]
        /\ t \notin Doubled => V.value = U.value
    BY <1>1, StartTimerValue
  <2> HIDE DEF V
  <2>2. QED
    BY <1>1, <2>1 DEF Doubled
<1>4. ASSUME NEW e \in Z PROVE e.timer = t
  BY DEF Overwritten
<1> HIDE DEF V, Z
<1>5. \A u \in Timers[j] : u \in AllTimers /\ u # t
  BY KindsApart DEF AllTimers
<1>6. \A u \in Timers[j] : V.alarm[u] = U.alarm[u]
  BY <1>1, <1>2, <1>5 DEF Armed
<1>7. j = "CI" => V.value["A"] = U.value["A"]
  BY <1>3, <1>5, TimersAre
<1>8. Keeps(V, U, j)
  BY <1>2, <1>4, <1>5, <1>6, <1>7 DEF Keeps, OfKind
<1>9. QED
  BY <1>8 DEF V

(* ... and of its own kind t runs besides those that did.                *)
LEMMA StartTimerHolds ==
  ASSUME NEW O, O \subseteq Nat, NEW M, NEW U, ClockOK(O, M, U), NEW k \in Kinds, NEW t \in Timers[k],
         NEW ticks \in Nat, NEW i \in O, NEW R, t \notin R, Holds(U, k, i, R)
  PROVE  Holds(StartTimer(U, t, ticks, i), k, i, Besides(R, t))
<1> DEFINE V == StartTimer(U, t, ticks, i)
           n == [owner |-> i, left |-> ticks]
           Z == Overwritten(U, t)
<1>1. Shape(U) /\ DOMAIN U.alarm = AllTimers
  BY DEF ClockOK
<1>2. /\ V.transactions = U.transactions /\ V.forgotten = U.forgotten \cup Z
      /\ V.alarm = Armed(U.alarm, t, i, ticks)
  BY <1>1, StartTimerFields
<1>3. Z = {}
  <2>1. U.alarm[t] = Null
    BY DEF Holds
  <2>2. QED
    BY <2>1 DEF Overwritten, Set
<1> HIDE DEF V, Z
<1>4. n # Null /\ n.owner = i
  <2>1. n \in [owner : Nat, left : Nat] /\ n.owner = i
    OBVIOUS
  <2> HIDE DEF n
  <2>2. QED
    BY <2>1, NullAssumption
<1>5. \A u \in Timers[k] : V.alarm[u] = IF u = t THEN n ELSE U.alarm[u]
  <2>1. \A u \in Timers[k] : u \in AllTimers
    BY DEF AllTimers
  <2>2. QED
    BY <1>1, <1>2, <2>1 DEF Armed
<1> HIDE DEF n
<1>6. Holds(V, k, i, Besides(R, t))
  BY <1>2, <1>3, <1>4, <1>5 DEF Holds, OfKind, Besides
<1>7. QED
  BY <1>6 DEF V

LEMMA StartTimerUnsettled ==
  ASSUME NEW O, NEW M, NEW U, NEW k \in Kinds, NEW i, NEW R, Unsettled(O, M, U, k, i, R),
         NEW t \in Timers[k], t \notin R, NEW ticks \in Nat,
         i \in OfKind(U, k), i \in O, O \subseteq Nat
  PROVE  Unsettled(O, M, StartTimer(U, t, ticks, i), k, i, Besides(R, t))
<1> DEFINE V == StartTimer(U, t, ticks, i)
<1>1. ClockOK(O, M, U) /\ Shape(U)
  BY DEF Unsettled, ClockOK
<1>2. V.shared = U.shared
  BY <1>1, StartTimerFields
<1>3. U.transactions[i].kind = k /\ i \in DOMAIN U.transactions /\ t \in AllTimers
  BY DEF OfKind, AllTimers
<1>4. ClockOK(O, M, V)
  BY <1>1, <1>3, StartTimerClock
<1>5. ASSUME NEW j \in Kinds \ (V.shared \cup {k}) PROVE Follows(M, V, j)
  <2>1. Keeps(V, U, j)
    BY <1>1, StartTimerKeeps
  <2> HIDE DEF V
  <2>2. Follows(M, U, j)
    BY <1>2 DEF Unsettled
  <2>3. QED
    BY <2>1, <2>2, FollowsKept
<1>6. ASSUME k \notin V.shared PROVE StartsOf(M, k) = {} /\ Holds(V, k, i, Besides(R, t))
  <2>1. StartsOf(M, k) = {} /\ Holds(U, k, i, R)
    BY <1>2, <1>6 DEF Unsettled
  <2>2. QED
    BY <1>1, <2>1, StartTimerHolds
<1> HIDE DEF V
<1>7. QED
  BY <1>2, <1>4, <1>5, <1>6 DEF Unsettled, V

(* Transaction t in another state.                                       *)
InState(t, s) == [t EXCEPT !.state = s]

(* Another state asks for other timers.                                  *)
LEMMA EnterUnsettled ==
  ASSUME NEW O, NEW M, NEW U, NEW k, NEW i, NEW R, Unsettled(O, M, U, k, i, R),
         i \in OfKind(U, k), NEW s, InState(U.transactions[i], s).kind = k
  PROVE  Unsettled(O, M, Enter(U, i, s), k, i, R)
<1> DEFINE V == Enter(U, i, s)
           t == InState(U.transactions[i], s)
<1>1. Shape(U) /\ i \in DOMAIN U.transactions /\ U.transactions[i].kind = k
  BY DEF Unsettled, ClockOK, OfKind
<1>2. /\ Shape(V) /\ V.alarm = U.alarm /\ V.forgotten = U.forgotten /\ V.value = U.value
      /\ V.shared = U.shared /\ V.transactions = [U.transactions EXCEPT ![i] = t]
  BY <1>1, EnterFields DEF InState
<1> HIDE DEF V, t
<1>3. SameTimers(V, U)
  BY <1>1, <1>2 DEF SameTimers, t
<1>4. \A j \in DOMAIN U.transactions : j # i => V.transactions[j] = U.transactions[j]
  BY <1>2
<1>5. Unsettled(O, M, V, k, i, R)
  BY <1>1, <1>3, <1>4, UnsettledSame
<1>6. QED
  BY <1>5 DEF V

LEMMA EnterIs ==
  ASSUME NEW U, Shape(U), NEW k, NEW i \in OfKind(U, k), NEW s, NEW t,
         t = InState(U.transactions[i], s), t.kind = k
  PROVE  i \in OfKind(Enter(U, i, s), k) /\ Enter(U, i, s).transactions[i] = t
<1>1. i \in DOMAIN U.transactions
  BY DEF OfKind
<1>2. Enter(U, i, s).transactions = [U.transactions EXCEPT ![i] = t]
  BY <1>1, EnterFields DEF InState
<1>3. QED
  BY <1>1, <1>2 DEF OfKind

(* What is sent, told or agreed upon moves no timer.                     *)
LEMMA AlikeUnsettled ==
  ASSUME NEW O, NEW M, NEW U, NEW k, NEW i, NEW R, Unsettled(O, M, U, k, i, R),
         NEW V, Shape(V), V.alarm = U.alarm, V.forgotten = U.forgotten, V.value = U.value,
         V.shared = U.shared, V.transactions = U.transactions
  PROVE  Unsettled(O, M, V, k, i, R)
<1>1. SameTimers(V, U)
  BY DEF Unsettled, ClockOK, SameTimers
<1>2. QED
  BY <1>1, UnsettledSame

LEMMA AlikeSettled ==
  ASSUME NEW O, NEW M, NEW U, Settled(O, M, U),
         NEW V, Shape(V), V.alarm = U.alarm, V.forgotten = U.forgotten, V.value = U.value,
         V.shared = U.shared, V.transactions = U.transactions
  PROVE  Settled(O, M, V)
<1>1. SameTimers(V, U)
  BY DEF Settled, ClockOK, SameTimers
<1>2. QED
  BY <1>1, SettledSame

(* The destructor stops every timer of the kind: whatever ran, none is   *)
(* left.                                                                 *)
LEMMA ClearSettled ==
  ASSUME NEW O, NEW M, NEW U, NEW k \in Kinds, NEW i, NEW R, Unsettled(O, M, U, k, i, R),
         i \in OfKind(U, k)
  PROVE  Settled(O, M, Clear(U, i))
<1> DEFINE S == StopTimers(U, Timers[k])
           V == Clear(U, i)
<1>1. Shape(U) /\ i \in DOMAIN U.transactions /\ U.transactions[i].kind = k
  BY DEF Unsettled, ClockOK, OfKind
<1>2. Unsettled(O, M, S, k, i, R \ Timers[k])
  BY StopTimersUnsettled
<1>3. S.transactions = U.transactions /\ S.forgotten = U.forgotten /\ S.value = U.value /\ S.shared = U.shared
  BY <1>1, StopTimersFields
<1>4. /\ Shape(V) /\ V.forgotten = U.forgotten /\ V.value = U.value /\ V.shared = U.shared
      /\ V.alarm = S.alarm
      /\ V.transactions = [j \in DOMAIN U.transactions \ {i} |-> U.transactions[j]]
  BY <1>1, ClearFields
<1> HIDE DEF S, V
<1>5. /\ DOMAIN V.transactions = DOMAIN U.transactions \ {i}
      /\ V.transactions = [j \in DOMAIN V.transactions |-> V.transactions[j]]
      /\ \A j \in DOMAIN V.transactions : V.transactions[j] = S.transactions[j]
  BY <1>3, <1>4
<1>6. ClockOK(O, M, V)
  <2>1. ClockOK(O, M, S)
    BY <1>2 DEF Unsettled
  <2>2. ASSUME NEW t \in AllTimers, V.alarm[t] # Null
        PROVE  /\ V.alarm[t] \in [owner : O, left : Nat]
               /\ V.alarm[t].owner \in DOMAIN V.transactions
                    => t \in Timers[V.transactions[V.alarm[t].owner].kind]
    BY <1>3, <1>4, <1>5, <2>1, <2>2 DEF ClockOK
  <2>3. ASSUME NEW e \in V.forgotten
        PROVE  /\ e \in [timer : AllTimers, owner : O, left : Nat]
               /\ e.owner \in DOMAIN V.transactions
                    => e.timer \in Timers[V.transactions[e.owner].kind]
    BY <1>3, <1>4, <1>5, <2>1 DEF ClockOK
  <2>4. /\ V.alarm = [t \in AllTimers |-> V.alarm[t]]
        /\ V.value \in [Doubled -> Nat]
    BY <1>3, <1>4, <2>1 DEF ClockOK
  <2>5. Descends(O, V, S)
    BY <1>3, <1>4, <1>5 DEF Descends
  <2>6. WorksOK(O, M, V)
    BY <2>1, <2>5, WorksGoOn DEF ClockOK
  <2>7. QED
    BY <1>4, <1>5, <2>2, <2>3, <2>4, <2>6 DEF ClockOK
<1>7. ASSUME NEW j \in Kinds \ V.shared PROVE Follows(M, V, j)
  <2>1. CASE j # k
    <3>1. OfKind(V, j) = OfKind(S, j)
      BY <1>1, <1>3, <1>5, <2>1 DEF OfKind
    <3>2. Keeps(V, S, j)
      BY <1>3, <1>4, <1>5, <3>1 DEF Keeps, OfKind
    <3>3. Follows(M, S, j)
      BY <1>2, <1>3, <1>4, <2>1 DEF Unsettled
    <3>4. QED
      BY <3>2, <3>3, FollowsKept
  <2>2. CASE j = k
    <3>1. StartsOf(M, k) = {} /\ Holds(S, k, i, R \ Timers[k])
      BY <1>2, <1>3, <1>4, <2>2 DEF Unsettled
    <3>2. Due(V, k, i) = {}
      BY <1>5 DEF Due, OfKind
    <3>3. Holds(V, k, i, {}) /\ OfKind(V, k) = {}
      BY <1>3, <1>4, <1>5, <3>1 DEF Holds, OfKind
    <3>4. Complete(V, k)
      BY <3>2, <3>3 DEF Complete, Paced
    <3>5. QED
      BY <2>2, <3>1, <3>4 DEF Follows
  <2>3. QED
    BY <2>1, <2>2
<1>8. QED
  BY <1>6, <1>7 DEF Settled, V

(* Of a kind that is not shared a new transaction is the only one, and no*)
(* timer of it runs.                                                     *)
LEMMA BeganUnsettled ==
  ASSUME NEW O, NEW M, NEW U, Settled(O, M, U), NEW id, id \notin O, id \notin DOMAIN U.transactions,
         NEW k \in Kinds, NEW m, NEW s
  PROVE  LET V == Began(U, id, k, m, s)
         IN /\ Unsettled(O \cup {id}, M, V, k, id, {})
            /\ id \in OfKind(V, k) /\ V.transactions[id] = NewTransaction(k, s, m)
<1> DEFINE V == Began(U, id, k, m, s)
           n == NewTransaction(k, s, m)
<1>1. ClockOK(O, M, U) /\ Shape(U)
  BY DEF Settled, ClockOK
<1>2. /\ Shape(V) /\ V.alarm = U.alarm /\ V.forgotten = U.forgotten /\ V.value = U.value
      /\ V.transactions = With(U.transactions, id, n)
  BY <1>1, BeganFields
<1>3. /\ U.shared \subseteq V.shared /\ V.shared \subseteq U.shared \cup {k}
      /\ k \notin V.shared => OfKind(U, k) = {}
  BY <1>1, BeganShared
<1>4. n.kind = k
  BY DEF NewTransaction
<1> HIDE DEF V, n
<1>5. /\ DOMAIN V.transactions = DOMAIN U.transactions \cup {id}
      /\ V.transactions = [j \in DOMAIN V.transactions |-> V.transactions[j]]
      /\ \A j \in DOMAIN U.transactions : V.transactions[j] = U.transactions[j]
      /\ V.transactions[id] = n
  BY <1>2 DEF With
<1>6. ClockOK(O \cup {id}, M, V)
  <2>1. Descends(O, V, U)
    BY <1>3, <1>5 DEF Descends
  <2>2. WorksOK(O \cup {id}, M, V)
    BY <1>1, <2>1, WorksGoOn DEF ClockOK
  <2>3. QED
    BY <1>1, <1>2, <1>5, <2>2 DEF ClockOK
<1>7. ASSUME NEW j \in Kinds \ (V.shared \cup {k}) PROVE Follows(M, V, j)
  <2>1. OfKind(V, j) = OfKind(U, j)
    BY <1>4, <1>5 DEF OfKind
  <2>2. Keeps(V, U, j)
    BY <1>2, <1>5, <2>1 DEF Keeps, OfKind
  <2>3. Follows(M, U, j)
    BY <1>3 DEF Settled
  <2>4. QED
    BY <2>2, <2>3, FollowsKept
<1>8. ASSUME k \notin V.shared PROVE StartsOf(M, k) = {} /\ Holds(V, k, id, {})
  <2>1. OfKind(U, k) = {} /\ k \notin U.shared
    BY <1>3, <1>8
  <2>2. PICK i : StartsOf(M, k) = {} /\ Holds(U, k, i, Due(U, k, i))
    BY <2>1 DEF Settled, Follows, Complete, Opens
  <2>3. Due(U, k, i) = {}
    BY <2>1 DEF Due
  <2>4. OfKind(V, k) \subseteq {id}
    BY <1>5, <2>1 DEF OfKind
  <2>5. QED
    BY <1>2, <2>2, <2>3, <2>4 DEF Holds
<1>9. id \in OfKind(V, k)
  BY <1>4, <1>5 DEF OfKind
<1>10. QED
  BY <1>5, <1>6, <1>7, <1>8, <1>9 DEF Unsettled, V, n

LEMMA CloseOfKind ==
  ASSUME NEW O, NEW M, NEW U, NEW k \in Kinds, NEW i \in OfKind(U, k), NEW R, Unsettled(O, M, U, k, i, R),
         k \in U.shared \/ (R = Runs(U.transactions[i]) /\ OnTime(U, i))
  PROVE  Settled(O, M, U)
<1>1. Unsettled(O, M, U, k, i, Runs(U.transactions[i]))
  BY DEF Unsettled
<1>2. Due(U, k, i) = Runs(U.transactions[i])
  BY DEF Due
<1>3. k \notin U.shared => Paced(U, k)
  BY DEF Unsettled, Holds, Paced
<1>4. QED
  BY <1>1, <1>2, <1>3, CloseUnsettled

(* A transaction that repeats no INVITE is on time.                      *)
LEMMA Unhurried ==
  ASSUME NEW U, NEW i, NEW t, t = U.transactions[i], t.kind # "CI" \/ t.state # "Calling"
  PROVE  OnTime(U, i)
BY DEF OnTime, Rings

LEMMA ResendUnsettled ==
  ASSUME NEW O, NEW M, NEW U, NEW k, NEW i \in OfKind(U, k), NEW R, Unsettled(O, M, U, k, i, R),
         NEW t, t = Tried(U.transactions[i]), t.kind = k
  PROVE  LET V == Resend(U, i)
         IN /\ Unsettled(O, M, V, k, i, R) /\ i \in OfKind(V, k) /\ V.transactions[i] = t
            /\ V.shared = U.shared
<1> DEFINE V == Resend(U, i)
<1>1. Shape(U) /\ i \in DOMAIN U.transactions /\ U.transactions[i].kind = k
  BY DEF Unsettled, ClockOK, OfKind
<1>2. /\ Shape(V) /\ V.alarm = U.alarm /\ V.forgotten = U.forgotten /\ V.value = U.value
      /\ V.shared = U.shared /\ V.transactions = With(U.transactions, i, t)
  BY <1>1, ResendFields
<1> HIDE DEF V
<1>3. /\ DOMAIN V.transactions = DOMAIN U.transactions
      /\ V.transactions = [j \in DOMAIN V.transactions |-> V.transactions[j]]
      /\ V.transactions[i] = t
      /\ \A j \in DOMAIN U.transactions : j # i => V.transactions[j] = U.transactions[j]
  BY <1>1, <1>2 DEF With
<1>4. SameTimers(V, U)
  BY <1>1, <1>2, <1>3 DEF SameTimers
<1>5. Unsettled(O, M, V, k, i, R)
  BY <1>1, <1>3, <1>4, UnsettledSame
<1>6. QED
  BY <1>1, <1>2, <1>3, <1>5 DEF OfKind, V

(* The timers that the states ask for, kind by kind.                     *)
LEMMA RunsIs ==
  ASSUME NEW t
  PROVE  /\ t.kind = "CI" => Runs(t) = IF t.state = "Calling" THEN {"A", "B"}
                                       ELSE IF t.state = "Completed" THEN {"D"} ELSE {}
         /\ t.kind = "CN" => Runs(t) = IF t.state \in {"Trying", "Proceeding"} THEN {"E", "F"}
                                       ELSE IF t.state = "Completed" THEN {"K"} ELSE {}
         /\ t.kind = "SI" => Runs(t) = IF t.state = "Completed" THEN {"G", "H"}
                                       ELSE IF t.state = "Confirmed" THEN {"I"} ELSE {}
         /\ t.kind = "SN" => Runs(t) = IF t.state = "Completed" THEN {"J"} ELSE {}
BY DEF Runs

LEMMA RunsServerInvite ==
  ASSUME NEW t, t.kind = "SI"
  PROVE  Runs(t) = IF t.state = "Completed" THEN {"G", "H"}
                   ELSE IF t.state = "Confirmed" THEN {"I"} ELSE {}
BY RunsIs

LEMMA RunsServerNonInvite ==
  ASSUME NEW t, t.kind = "SN"
  PROVE  Runs(t) = IF t.state = "Completed" THEN {"J"} ELSE {}
BY RunsIs

LEMMA NewTried ==
  ASSUME NEW k, NEW s, NEW m
  PROVE  LET t == Tried(NewTransaction(k, s, m))
         IN t.kind = k /\ t.state = s /\ (k = "CI" => t.tries = 1)
BY DEF Tried, NewTransaction

(* A client starts two timers with its request.                          *)
LEMMA StartTwoTimers ==
  ASSUME NEW O, NEW M, O \subseteq Nat, NEW U, NEW k \in Kinds, NEW i \in OfKind(U, k), i \in O,
         NEW R, Unsettled(O, M, U, k, i, R),
         NEW t \in Timers[k], NEW u \in Timers[k], t # u, t \notin R, u \notin R,
         NEW x \in Nat, NEW y \in Nat
  PROVE  LET V == StartTimer(StartTimer(U, t, x, i), u, y, i)
         IN Unsettled(O, M, V, k, i, Besides(Besides(R, t), u))
<1> DEFINE A == StartTimer(U, t, x, i)
           V == StartTimer(A, u, y, i)
           S == Besides(R, t)
<1>1. Unsettled(O, M, A, k, i, S)
  BY StartTimerUnsettled
<1>2. Shape(A) /\ A.transactions = U.transactions /\ A.shared = U.shared
  BY UnsettledShape, StartTimerFields
<1>3. Unsettled(O, M, A, k, i, S) /\ Shape(A) /\ A.transactions = U.transactions /\ A.shared = U.shared
  BY <1>1, <1>2
<1>4. i \in OfKind(A, k) /\ u \notin S
  BY <1>3 DEF OfKind, Besides
<1> HIDE DEF A, S
<1>5. Unsettled(O, M, V, k, i, Besides(S, u))
  BY <1>3, <1>4, StartTimerUnsettled
<1>6. QED
  BY <1>5 DEF V, A, S

LEMMA StartTwoFields ==
  ASSUME NEW U, Shape(U), NEW i, NEW t, NEW u, NEW x, NEW y
  PROVE  LET V == StartTimer(StartTimer(U, t, x, i), u, y, i)
         IN Shape(V) /\ V.transactions = U.transactions /\ V.shared = U.shared
<1> DEFINE A == StartTimer(U, t, x, i)
           V == StartTimer(A, u, y, i)
<1>1. Shape(A) /\ A.transactions = U.transactions /\ A.shared = U.shared
  BY StartTimerFields
<1> HIDE DEF A
<1>2. Shape(V) /\ V.transactions = A.transactions /\ V.shared = A.shared
  BY <1>1, StartTimerFields
<1> HIDE DEF V
<1>3. Shape(V) /\ V.transactions = U.transactions /\ V.shared = U.shared
  BY <1>1, <1>2
<1>4. QED
  BY <1>3 DEF V, A

(* Timer A starts with its value, and B leaves it alone.                 *)
LEMMA StartedA ==
  ASSUME NEW O, NEW M, NEW U, ClockOK(O, M, U), NEW i, NEW x
  PROVE  LET V == StartTimer(U, "A", x, i)
         IN /\ Shape(V) /\ V.transactions = U.transactions /\ V.shared = U.shared
            /\ V.value["A"] = x /\ V.alarm["A"].left = x /\ V.alarm["B"] = U.alarm["B"]
            /\ DOMAIN V.alarm = AllTimers
<1> DEFINE V == StartTimer(U, "A", x, i)
<1>1. Shape(U) /\ DOMAIN U.alarm = AllTimers /\ DOMAIN U.value = Doubled
  BY DEF ClockOK
<1>2. /\ Shape(V) /\ V.transactions = U.transactions /\ V.shared = U.shared
      /\ V.alarm = Armed(U.alarm, "A", i, x)
  BY <1>1, StartTimerFields
<1>3. "A" \in Doubled /\ "A" \in AllTimers /\ "B" \in AllTimers
  BY TimersAre DEF Doubled
<1>4. V.value = [U.value EXCEPT !["A"] = x]
  BY <1>1, <1>3, StartTimerValue
<1> HIDE DEF V
<1>5. V.value["A"] = x
  BY <1>1, <1>3, <1>4
<1>6. V.alarm["A"].left = x /\ V.alarm["B"] = U.alarm["B"] /\ DOMAIN V.alarm = AllTimers
  BY <1>1, <1>2, <1>3 DEF Armed
<1>7. QED
  BY <1>2, <1>5, <1>6 DEF V

LEMMA StartedB ==
  ASSUME NEW U, Shape(U), DOMAIN U.alarm = AllTimers, NEW i, NEW y
  PROVE  LET V == StartTimer(U, "B", y, i)
         IN /\ V.transactions = U.transactions
            /\ V.value = U.value /\ V.alarm["A"] = U.alarm["A"] /\ V.alarm["B"].left = y
<1> DEFINE V == StartTimer(U, "B", y, i)
<1>1. V.transactions = U.transactions /\ V.alarm = Armed(U.alarm, "B", i, y)
  BY StartTimerFields
<1>2. "B" \notin Doubled /\ "A" \in AllTimers /\ "B" \in AllTimers
  BY TimersAre DEF Doubled
<1>3. V.value = U.value
  BY <1>2 DEF StartTimer, Shape, Fields
<1> HIDE DEF V
<1>4. V.alarm["A"] = U.alarm["A"] /\ V.alarm["B"].left = y
  BY <1>1, <1>2 DEF Armed
<1>5. QED
  BY <1>1, <1>3, <1>4 DEF V

(* The first INVITE is T1 before the second.                             *)
LEMMA FirstOnTime ==
  ASSUME NEW O, NEW M, NEW U, ClockOK(O, M, U), NEW i, U.transactions[i].tries = 1
  PROVE  OnTime(StartTimer(StartTimer(U, "A", Timer1, i), "B", Timeout, i), i)
<1> DEFINE A == StartTimer(U, "A", Timer1, i)
           V == StartTimer(A, "B", Timeout, i)
<1>1. /\ Shape(A) /\ A.transactions = U.transactions /\ DOMAIN A.alarm = AllTimers
      /\ A.value["A"] = Timer1 /\ A.alarm["A"].left = Timer1
  BY StartedA
<1> HIDE DEF A
<1>2. /\ V.transactions = A.transactions /\ V.value = A.value
      /\ V.alarm["A"] = A.alarm["A"] /\ V.alarm["B"].left = Timeout
  BY <1>1, StartedB
<1> HIDE DEF V
<1>3. RingsIn(V, i, V.alarm["A"].left)
  <2>1. Beats(1, Timer1, Timer1, Timeout)
    BY FirstBeat
  <2>2. QED
    BY <1>1, <1>2, <2>1 DEF RingsIn
<1>4. QED
  BY <1>3 DEF OnTime, V, A

Both(t, u) == {t, u}

(* A client begins a transaction with the timers t and u.                *)
Starts(U, id, k, m, s, t, u) ==
    StartTimer(StartTimer(Resend(Began(U, id, k, m, s), id), t, Timer1, id), u, Timeout, id)

LEMMA BeginsTimers ==
  ASSUME NEW O, NEW M, O \subseteq Nat, NEW U, Settled(O, M, U),
         NEW id \in Nat, id \notin O, id \notin DOMAIN U.transactions,
         NEW k \in Kinds, NEW s, NEW m, NEW t \in Timers[k], NEW u \in Timers[k], t # u,
         Both(t, u) = Runs(Tried(NewTransaction(k, s, m))),
         k = "CI" => t = "A" /\ u = "B"
  PROVE  Settled(O \cup {id}, M, Starts(U, id, k, m, s, t, u))
<1> DEFINE B == Began(U, id, k, m, s)
           R == Resend(B, id)
           V == StartTimer(StartTimer(R, t, Timer1, id), u, Timeout, id)
           P == O \cup {id}
           n == Tried(NewTransaction(k, s, m))
           none == {}
<1>1. /\ Unsettled(P, M, B, k, id, none) /\ id \in OfKind(B, k)
      /\ B.transactions[id] = NewTransaction(k, s, m)
  BY BeganUnsettled
<1>2. n.kind = k /\ (k = "CI" => n.tries = 1)
  BY NewTried
<1>3. /\ Timer1 \in Nat /\ Timeout \in Nat /\ P \subseteq Nat /\ id \in P
      /\ t \notin none /\ u \notin none
  BY TimerAssumption
<1> HIDE DEF B, P, none, n
<1>4. Unsettled(P, M, R, k, id, none) /\ id \in OfKind(R, k) /\ R.transactions[id] = n
  BY <1>1, <1>2, ResendUnsettled DEF n
<1> HIDE DEF R
<1>5. Unsettled(P, M, V, k, id, Besides(Besides(none, t), u))
  BY <1>3, <1>4, StartTwoTimers
<1>6. V.transactions = R.transactions
  BY <1>4, UnsettledShape, StartTwoFields
<1> HIDE DEF V
<1>7. id \in OfKind(V, k) /\ V.transactions[id] = n
  BY <1>4, <1>6 DEF OfKind
<1>8. Besides(Besides(none, t), u) = Both(t, u)
  BY DEF Besides, Both, none
<1>9. Unsettled(P, M, V, k, id, Both(t, u))
  BY <1>5, <1>8
<1>10. OnTime(V, id)
  <2>1. CASE k = "CI"
    <3>1. ClockOK(P, M, R)
      BY <1>4 DEF Unsettled
    <3>2. OnTime(StartTimer(StartTimer(R, "A", Timer1, id), "B", Timeout, id), id)
      BY <1>2, <1>4, <2>1, <3>1, FirstOnTime
    <3>3. QED
      BY <2>1, <3>2 DEF V
  <2>2. CASE k # "CI"
    BY <1>2, <1>7, <2>2, Unhurried
  <2>3. QED
    BY <2>1, <2>2
<1>11. Settled(P, M, V)
  BY <1>7, <1>9, <1>10, CloseOfKind DEF n
<1>12. QED
  BY <1>11 DEF V, R, B, P, Starts

LEMMA SendRequestIs ==
  ASSUME NEW U, NEW m
  PROVE  /\ m.method = "INVITE" =>
              SendRequest(U, m) = Starts(U, m.branch, "CI", m, "Calling", "A", "B")
         /\ m.method # "INVITE" =>
              SendRequest(U, m) = Starts(U, m.branch, "CN", m, "Trying", "E", "F")
<1> DEFINE id == m.branch
           t == FirstTimers(m)
<1>1. \A V : /\ StartFirst(V, "A", id) = StartTimer(V, "A", Timer1, id)
            /\ StartFirst(V, "B", id) = StartTimer(V, "B", Timeout, id)
            /\ StartFirst(V, "E", id) = StartTimer(V, "E", Timer1, id)
            /\ StartFirst(V, "F", id) = StartTimer(V, "F", Timeout, id)
  BY DEF StartFirst, Doubled
<1>2. SendRequest(U, m) = StartFirst(StartFirst(Send(U, m), t[1], id), t[2], id)
  BY DEF SendRequest
<1>3. ASSUME m.method = "INVITE"
      PROVE  SendRequest(U, m) = Starts(U, id, "CI", m, "Calling", "A", "B")
  <2>1. t[1] = "A" /\ t[2] = "B" /\ Send(U, m) = Resend(Began(U, id, "CI", m, "Calling"), id)
    BY <1>3, SendIs DEF FirstTimers, Opened
  <2> HIDE DEF t
  <2>2. QED
    BY <1>1, <1>2, <2>1 DEF Starts
<1>4. ASSUME m.method # "INVITE"
      PROVE  SendRequest(U, m) = Starts(U, id, "CN", m, "Trying", "E", "F")
  <2>1. t[1] = "E" /\ t[2] = "F" /\ Send(U, m) = Resend(Began(U, id, "CN", m, "Trying"), id)
    BY <1>4, SendIs DEF FirstTimers, Opened
  <2> HIDE DEF t
  <2>2. QED
    BY <1>1, <1>2, <2>1 DEF Starts
<1>5. QED
  BY <1>3, <1>4

(* UserAgentClient::sendRequest() starts the timers of the state that it *)
(* enters.                                                               *)
LEMMA SendRequestSettled ==
  ASSUME NEW O, NEW M, O \subseteq Nat, NEW U, Settled(O, M, U),
         NEW m, m.branch \in Nat, m.branch \notin O, m.branch \notin DOMAIN U.transactions
  PROVE  Settled(O \cup {m.branch}, M, SendRequest(U, m))
<1> DEFINE id == m.branch
<1>1. CASE m.method = "INVITE"
  <2> DEFINE n == Tried(NewTransaction("CI", "Calling", m))
  <2>1. n.kind = "CI" /\ n.state = "Calling"
    BY NewTried
  <2> HIDE DEF n
  <2>2. Both("A", "B") = Runs(n)
    BY <2>1, RunsIs DEF Both
  <2>3. "CI" \in Kinds /\ "A" \in Timers["CI"] /\ "B" \in Timers["CI"] /\ "A" # "B"
    BY TimersAre
  <2> DEFINE V == Starts(U, id, "CI", m, "Calling", "A", "B")
  <2>4. Settled(O \cup {id}, M, V)
    BY <2>2, <2>3, BeginsTimers DEF n
  <2>5. QED
    BY <1>1, <2>4, SendRequestIs DEF V
<1>2. CASE m.method # "INVITE"
  <2> DEFINE n == Tried(NewTransaction("CN", "Trying", m))
  <2>1. n.kind = "CN" /\ n.state = "Trying"
    BY NewTried
  <2> HIDE DEF n
  <2>2. Both("E", "F") = Runs(n)
    BY <2>1, RunsIs DEF Both
  <2>3. "CN" \in Kinds /\ "E" \in Timers["CN"] /\ "F" \in Timers["CN"] /\ "E" # "F"
    BY TimersAre
  <2> DEFINE V == Starts(U, id, "CN", m, "Trying", "E", "F")
  <2>4. Settled(O \cup {id}, M, V)
    BY <2>2, <2>3, BeginsTimers DEF n
  <2>5. QED
    BY <1>2, <2>4, SendRequestIs DEF V
<1>3. QED
  BY <1>1, <1>2

(* More names in use change nothing.                                     *)
LEMMA UnsettledNames ==
  ASSUME NEW O, NEW M, NEW P, O \subseteq P, NEW U, Settled(O, M, U)
  PROVE  Settled(P, M, U)
<1>1. [owner : O, left : Nat] \subseteq [owner : P, left : Nat]
  OBVIOUS
<1>2. [timer : AllTimers, owner : O, left : Nat] \subseteq [timer : AllTimers, owner : P, left : Nat]
  OBVIOUS
<1>3. WorksOK(P, M, U)
  <2>1. Descends(O, U, U)
    BY DEF Descends
  <2>2. QED
    BY <2>1, WorksGoOn DEF Settled, ClockOK
<1>4. ClockOK(P, M, U)
  BY <1>1, <1>2, <1>3 DEF Settled, ClockOK
<1>5. QED
  BY <1>4 DEF Settled

(* What moves no timer                                                   *)

LEMMA SettledShape ==
  ASSUME NEW O, NEW M, NEW U, Settled(O, M, U)
  PROVE  Shape(U)
BY DEF Settled, ClockOK

(* Dialogs and messages have no timers.                                  *)
LEMMA RemoveDialogSettled ==
  ASSUME NEW O, NEW M, NEW U, Settled(O, M, U), NEW d, NEW event
  PROVE  Settled(O, M, RemoveDialog(U, d, event))
<1> DEFINE V == RemoveDialog(U, d, event)
<1>1. /\ Shape(V) /\ V.alarm = U.alarm /\ V.forgotten = U.forgotten /\ V.value = U.value
      /\ V.shared = U.shared /\ V.transactions = U.transactions
  BY SettledShape, RemoveDialogFields
<1> HIDE DEF V
<1>2. Settled(O, M, V)
  BY <1>1, AlikeSettled
<1>3. QED
  BY <1>2 DEF V

LEMMA CreateDialogSettled ==
  ASSUME NEW O, NEW M, NEW U, Settled(O, M, U), NEW type, NEW peer, NEW call, NEW tag
  PROVE  Settled(O, M, CreateDialog(U, type, peer, call, tag))
<1> DEFINE V == CreateDialog(U, type, peer, call, tag)
<1>1. /\ Shape(V) /\ V.alarm = U.alarm /\ V.forgotten = U.forgotten /\ V.value = U.value
      /\ V.shared = U.shared /\ V.transactions = U.transactions
  BY SettledShape, CreateDialogTimers
<1> HIDE DEF V
<1>2. Settled(O, M, V)
  BY <1>1, AlikeSettled
<1>3. QED
  BY <1>2 DEF V

LEMMA SentSettled ==
  ASSUME NEW O, NEW M, NEW U, Settled(O, M, U), NEW m
  PROVE  Settled(O, M, Sent(U, m))
<1> DEFINE V == Sent(U, m)
<1>1. /\ Shape(V) /\ V.alarm = U.alarm /\ V.forgotten = U.forgotten /\ V.value = U.value
      /\ V.shared = U.shared /\ V.transactions = U.transactions
  BY SettledShape, SentFields
<1> HIDE DEF V
<1>2. Settled(O, M, V)
  BY <1>1, AlikeSettled
<1>3. QED
  BY <1>2 DEF V

LEMMA TellSettled ==
  ASSUME NEW O, NEW M, NEW U, Settled(O, M, U), NEW event, NEW peer
  PROVE  Settled(O, M, Tell(U, event, peer))
<1> DEFINE V == Tell(U, event, peer)
<1>1. /\ Shape(V) /\ V.alarm = U.alarm /\ V.forgotten = U.forgotten /\ V.value = U.value
      /\ V.shared = U.shared /\ V.transactions = U.transactions
  BY SettledShape, TellFields
<1> HIDE DEF V
<1>2. Settled(O, M, V)
  BY <1>1, AlikeSettled
<1>3. QED
  BY <1>2 DEF V

LEMMA SentUnsettled ==
  ASSUME NEW O, NEW M, NEW U, NEW k, NEW i, NEW R, Unsettled(O, M, U, k, i, R), NEW m
  PROVE  Unsettled(O, M, Sent(U, m), k, i, R)
<1> DEFINE V == Sent(U, m)
<1>1. /\ Shape(V) /\ V.alarm = U.alarm /\ V.forgotten = U.forgotten /\ V.value = U.value
      /\ V.shared = U.shared /\ V.transactions = U.transactions
  BY UnsettledShape, SentFields
<1> HIDE DEF V
<1>2. Unsettled(O, M, V, k, i, R)
  BY <1>1, AlikeUnsettled
<1>3. QED
  BY <1>2 DEF V

(* ... in the middle of an operation either.                             *)
LEMMA CreateDialogUnsettled ==
  ASSUME NEW O, NEW M, NEW U, NEW k, NEW i, NEW R, Unsettled(O, M, U, k, i, R),
         NEW type, NEW peer, NEW call, NEW tag
  PROVE  Unsettled(O, M, CreateDialog(U, type, peer, call, tag), k, i, R)
<1> DEFINE V == CreateDialog(U, type, peer, call, tag)
<1>1. /\ Shape(V) /\ V.alarm = U.alarm /\ V.forgotten = U.forgotten /\ V.value = U.value
      /\ V.shared = U.shared /\ V.transactions = U.transactions
  BY UnsettledShape, CreateDialogTimers
<1> HIDE DEF V
<1>2. Unsettled(O, M, V, k, i, R)
  BY <1>1, AlikeUnsettled
<1>3. QED
  BY <1>2 DEF V

(* The server's part                                                     *)

(* Transaction i of a server has not answered its request m.             *)
Asked(O, M, U, k, i, s, m) ==
    /\ Unsettled(O, M, U, k, i, {}) /\ i \in OfKind(U, k)
    /\ U.transactions[i] = NewTransaction(k, s, m) /\ s \notin {"Completed", "Confirmed"}
    /\ k \in {"SI", "SN"} /\ (k = "SI" <=> m.method = "INVITE")

LEMMA AskedSettled ==
  ASSUME NEW O, NEW M, NEW U, NEW k, NEW i, NEW s, NEW m, Asked(O, M, U, k, i, s, m)
  PROVE  Settled(O, M, U)
<1> DEFINE n == NewTransaction(k, s, m)
<1>1. n.kind = k /\ n.state = s
  BY DEF NewTransaction
<1>2. U.transactions[i] = n /\ k \in {"SI", "SN"} /\ k \in Kinds /\ i \in OfKind(U, k)
  BY TimersAre DEF Asked
<1> HIDE DEF n
<1>3. Runs(n) = {}
  BY <1>1, <1>2, RunsIs DEF Asked
<1>4. Unsettled(O, M, U, k, i, {})
  BY DEF Asked
<1>5. OnTime(U, i)
  BY <1>1, <1>2, Unhurried
<1>6. QED
  BY <1>2, <1>3, <1>4, <1>5, CloseOfKind

(* A response that is kept comes with its timers: G and H for an INVITE, *)
(* J for any other request.                                              *)
LEMMA AnsweredUnsettled ==
  ASSUME NEW O, NEW M, NEW U, NEW k, NEW i, NEW R, Unsettled(O, M, U, k, i, R), i \in OfKind(U, k),
         NEW r, Completed(U.transactions[i], r).kind = k
  PROVE  Unsettled(O, M, Answered(U, i, r), k, i, R)
<1> DEFINE V == Answered(U, i, r)
           n == Completed(U.transactions[i], r)
<1>1. i \in DOMAIN U.transactions /\ U.transactions[i].kind = k
  BY DEF OfKind
<1>2. /\ Shape(V) /\ V.alarm = U.alarm /\ V.forgotten = U.forgotten /\ V.value = U.value
      /\ V.shared = U.shared /\ V.transactions = With(U.transactions, i, n)
  BY <1>1, UnsettledShape, AnsweredFields
<1> HIDE DEF V, n
<1>3. /\ DOMAIN V.transactions = DOMAIN U.transactions
      /\ V.transactions = [j \in DOMAIN V.transactions |-> V.transactions[j]]
      /\ V.transactions[i] = n
      /\ \A j \in DOMAIN U.transactions : j # i => V.transactions[j] = U.transactions[j]
  BY <1>1, <1>2 DEF With
<1>4. SameTimers(V, U)
  BY <1>1, <1>2, <1>3 DEF SameTimers, n
<1>5. Unsettled(O, M, V, k, i, R)
  BY <1>1, <1>3, <1>4, UnsettledSame
<1>6. QED
  BY <1>5 DEF V

LEMMA AnsweredIs ==
  ASSUME NEW U, Shape(U), NEW k, NEW i \in OfKind(U, k), NEW r, NEW n,
         n = Completed(U.transactions[i], r), n.kind = k
  PROVE  i \in OfKind(Answered(U, i, r), k) /\ Answered(U, i, r).transactions[i] = n
<1> DEFINE V == Answered(U, i, r)
<1>1. i \in DOMAIN U.transactions
  BY DEF OfKind
<1>2. V.transactions = With(U.transactions, i, n)
  BY <1>1, AnsweredFields
<1> HIDE DEF V
<1>3. i \in DOMAIN V.transactions /\ V.transactions[i] = n
  BY <1>2 DEF With
<1>4. QED
  BY <1>3 DEF OfKind, V

(* sendResponse() starts the timers of Completed, or destroys the        *)
(* transaction.                                                          *)
LEMMA SendResponseSettled ==
  ASSUME NEW O, NEW M, O \subseteq Nat, NEW U, NEW k, NEW i \in O, NEW s, NEW m, Asked(O, M, U, k, i, s, m),
         NEW r, r.method = m.method
  PROVE  Settled(O, M, SendResponse(U, i, r))
<1> DEFINE L == Answered(U, i, r)
           S == Sent(U, r)
           H == StartTimer(StartTimer(L, "G", Timer1, i), "H", Timeout, i)
           J == StartTimer(L, "J", Timeout, i)
           V == SendResponse(U, i, r)
           n == Completed(U.transactions[i], r)
           none == {}
<1>1. /\ Shape(U) /\ i \in OfKind(U, k) /\ Unsettled(O, M, U, k, i, none)
      /\ k \in Kinds /\ k \in {"SI", "SN"} /\ (k = "SI" <=> r.method = "INVITE")
  BY UnsettledShape, TimersAre DEF Asked
<1>2. n.kind = k /\ n.state = "Completed"
  <2>1. U.transactions[i] = NewTransaction(k, s, m)
    BY DEF Asked
  <2>2. Completed(NewTransaction(k, s, m), r).kind = k /\ Completed(NewTransaction(k, s, m), r).state = "Completed"
    BY DEF Completed, NewTransaction
  <2>3. QED
    BY <2>1, <2>2
<1>3. Timer1 \in Nat /\ Timeout \in Nat
  BY TimerAssumption
<1> HIDE DEF n, none
<1>4. Unsettled(O, M, L, k, i, none)
  BY <1>1, <1>2, AnsweredUnsettled DEF n
<1>5. i \in OfKind(L, k) /\ L.transactions[i] = n
  BY <1>1, <1>2, AnsweredIs DEF n
<1> HIDE DEF L
<1>6. CASE k = "SI" /\ r.status \in 200..299
  <2>1. V = Clear(S, i)
    BY <1>1, <1>6 DEF SendResponse, SendInviteResponse
  <2>2. Unsettled(O, M, S, k, i, none) /\ S.transactions = U.transactions
    BY <1>1, SentUnsettled, SentFields
  <2> HIDE DEF S, V
  <2>3. i \in OfKind(S, k)
    BY <1>1, <2>2 DEF OfKind
  <2>4. Settled(O, M, Clear(S, i))
    BY <1>1, <2>2, <2>3, ClearSettled
  <2>5. QED
    BY <2>1, <2>4 DEF V
<1>7. CASE k = "SI" /\ r.status \notin 200..299
  <2>1. V = H
    BY <1>1, <1>7 DEF SendResponse, SendInviteResponse, Answered, L
  <2>2. "G" \in Timers[k] /\ "H" \in Timers[k] /\ "G" # "H" /\ "G" \notin none /\ "H" \notin none
    BY <1>7, TimersAre DEF none
  <2>3. Unsettled(O, M, H, k, i, Besides(Besides(none, "G"), "H"))
    BY <1>1, <1>3, <1>4, <1>5, <2>2, StartTwoTimers
  <2>4. H.transactions = L.transactions
    BY <1>4, UnsettledShape, StartTwoFields
  <2>5. Besides(Besides(none, "G"), "H") = Runs(n)
    BY <1>2, <1>7, RunsIs DEF Besides, none
  <2> HIDE DEF H, V
  <2>6. i \in OfKind(H, k) /\ H.transactions[i] = n
    BY <1>5, <2>4 DEF OfKind
  <2>7. OnTime(H, i)
    BY <1>2, <2>6, Unhurried
  <2>8. Settled(O, M, H)
    BY <1>1, <2>3, <2>5, <2>6, <2>7, CloseOfKind
  <2>9. QED
    BY <2>1, <2>8 DEF V
<1>8. CASE k = "SN"
  <2>1. V = J
    BY <1>1, <1>8 DEF SendResponse, SendNonInviteResponse, Answered, L
  <2>2. "J" \in Timers[k] /\ "J" \notin none
    BY <1>8, TimersAre DEF none
  <2>3. Unsettled(O, M, J, k, i, Besides(none, "J"))
    BY <1>1, <1>3, <1>4, <1>5, <2>2, StartTimerUnsettled
  <2>4. J.transactions = L.transactions
    BY <1>4, UnsettledShape, StartTimerFields
  <2>5. Besides(none, "J") = Runs(n)
    BY <1>2, <1>8, RunsIs DEF Besides, none
  <2> HIDE DEF J, V
  <2>6. i \in OfKind(J, k) /\ J.transactions[i] = n
    BY <1>5, <2>4 DEF OfKind
  <2>7. OnTime(J, i)
    BY <1>2, <2>6, Unhurried
  <2>8. Settled(O, M, J)
    BY <1>1, <2>3, <2>5, <2>6, <2>7, CloseOfKind
  <2>9. QED
    BY <2>1, <2>8 DEF V
<1>9. QED
  BY <1>1, <1>6, <1>7, <1>8

LEMMA CreateDialogAsked ==
  ASSUME NEW O, NEW M, NEW U, NEW k, NEW i, NEW s, NEW m, Asked(O, M, U, k, i, s, m),
         NEW type, NEW peer, NEW call, NEW tag
  PROVE  Asked(O, M, CreateDialog(U, type, peer, call, tag), k, i, s, m)
<1> DEFINE V == CreateDialog(U, type, peer, call, tag)
           none == {}
<1>1. Unsettled(O, M, U, k, i, none)
  BY DEF Asked
<1> HIDE DEF none
<1>2. V.transactions = U.transactions
  BY <1>1, UnsettledShape, CreateDialogTimers
<1>3. Unsettled(O, M, V, k, i, none)
  BY <1>1, CreateDialogUnsettled
<1> HIDE DEF V
<1>4. Asked(O, M, V, k, i, s, m)
  BY <1>2, <1>3 DEF Asked, OfKind, none
<1>5. QED
  BY <1>4 DEF V

(* What the server makes of a new request.                               *)
LEMMA UasReceiveSettled ==
  ASSUME NEW O, NEW M, O \subseteq Nat, NEW U, NEW k, NEW i \in O, NEW s,
         NEW W, NEW m, m \in Messages(W), m.method # "ACK", Asked(O, M, U, k, i, s, m), NEW tag
  PROVE  Settled(O, M, UasReceive(U, m, i, tag))
<1> DEFINE d == DialogOf(U, m)
           V == UasReceive(U, m, i, tag)
           S(C, status) == SendResponse(C, i, Response(m, status, tag))
           C(type) == CreateDialog(U, type, m.from, m.call, tag)
<1>1. ASSUME NEW A, Asked(O, M, A, k, i, s, m), NEW status
      PROVE  Settled(O, M, S(A, status))
  <2>1. Response(m, status, tag).method = m.method
    BY ResponseFields
  <2>2. QED
    BY <1>1, <2>1, SendResponseSettled
<1>2. \A type : Asked(O, M, C(type), k, i, s, m)
  BY CreateDialogAsked
<1>3. m.method \in Methods
  BY MessageIs
<1> HIDE DEF C, S
<1>4. \A status, type : Settled(O, M, S(U, status)) /\ Settled(O, M, S(C(type), status))
  BY <1>1, <1>2
<1>5. Settled(O, M, U)
  BY AskedSettled
<1>6. CASE m.option = "require" \/ (d = 0 /\ m.tag # Null)
  <2>1. V \in {S(U, 420), S(U, 481)}
    BY <1>6 DEF UasReceive, S
  <2>2. QED
    BY <2>1, <1>4
<1>7. CASE m.option # "require" /\ (d # 0 \/ m.tag = Null)
  <2> HIDE DEF V
  <2>1. CASE m.method = "BYE"
    <3>1. V \in {S(U, 481), RemoveDialog(S(U, 200), d, "SESSION_TERMINATED")}
      BY <1>7, <2>1 DEF UasReceive, UasReceiveBye, V, S
    <3>2. Settled(O, M, RemoveDialog(S(U, 200), d, "SESSION_TERMINATED"))
      BY <1>4, RemoveDialogSettled
    <3>3. QED
      BY <3>1, <3>2, <1>4 DEF V
  <2>2. CASE m.method = "INVITE"
    <3>1. V \in {U, S(C("INVITE"), 200)}
      BY <1>7, <2>2 DEF UasReceive, UasReceiveInvite, V, S, C
    <3>2. QED
      BY <3>1, <1>4, <1>5 DEF V
  <2>3. CASE m.method = "SUBSCRIBE"
    <3> DEFINE A == IF d = 0 /\ m.option # "expire" THEN S(C("SUBSCRIBE"), 200) ELSE S(U, 200)
               R == RemoveDialog(A, d, "SUBSCRIPTION_TERMINATED")
               N == [R EXCEPT !.active = FALSE]
    <3>1. V \in {S(U, 489), A, N}
      BY <1>7, <2>3 DEF UasReceive, UasReceiveSubscribe, V, S, C
    <3>2. Settled(O, M, A)
      BY <1>4
    <3> HIDE DEF A
    <3>3. Settled(O, M, R)
      BY <3>2, RemoveDialogSettled
    <3> HIDE DEF R
    <3>4. Shape(R)
      BY <3>3, SettledShape
    <3>5. /\ Shape(N) /\ N.alarm = R.alarm /\ N.forgotten = R.forgotten /\ N.value = R.value
          /\ N.shared = R.shared /\ N.transactions = R.transactions
      BY <3>4 DEF Shape, Fields
    <3> HIDE DEF N
    <3>6. Settled(O, M, N)
      BY <3>3, <3>5, AlikeSettled
    <3>7. QED
      BY <3>1, <3>2, <3>6, <1>4 DEF V
  <2>4. CASE m.method = "MESSAGE"
    <3>1. V = Tell(S(U, 200), "MESSAGE_RECEIVED", m.from)
      BY <1>7, <2>4 DEF UasReceive, V, S
    <3>2. QED
      BY <3>1, <1>4, TellSettled DEF V
  <2>5. CASE m.method = "NOTIFY"
    <3>1. V = U
      BY <1>7, <2>5 DEF UasReceive, V
    <3>2. QED
      BY <3>1, <1>5 DEF V
  <2>6. QED
    BY <1>3, <2>1, <2>2, <2>3, <2>4, <2>5 DEF Methods
<1>8. QED
  BY <1>6, <1>7

(* The receiver's part                                                   *)

LEMMA AgainSettled ==
  ASSUME NEW O, NEW M, NEW U, Settled(O, M, U), NEW i
  PROVE  Settled(O, M, Again(U, i))
BY SentSettled DEF Again

(* What becomes of the state of a transaction, and nothing else.         *)
LEMMA StateIs ==
  ASSUME NEW W, NEW a, NEW i, NEW t, TransactionOK(W, a, i, t), NEW s
  PROVE  InState(t, s).kind = t.kind /\ InState(t, s).state = s
BY DEF TransactionOK, Transactions, InState

(* receiveAck(): the timer of Confirmed starts before those of Completed *)
(* stop.                                                                 *)
LEMMA ReceiveAckSettled ==
  ASSUME NEW O, NEW M, O \subseteq Nat, NEW U, Settled(O, M, U), NEW i \in O, i \in OfKind(U, "SI"),
         NEW I, i \in I, Free(M, U, I),
         NEW W, NEW a, TransactionOK(W, a, i, U.transactions[i])
  PROVE  Settled(O, M, ReceiveAck(U, i))
<1> DEFINE k == "SI"
           t == U.transactions[i]
           n == InState(t, "Confirmed")
           R == Runs(t)
           E == Enter(U, i, "Confirmed")
           S == StartTimer(E, "I", Timer4, i)
           T == {"G", "H"}
           V == StopTimers(S, T)
<1>1. /\ k \in Kinds /\ t.kind = k /\ "I" \in Timers[k] /\ T \subseteq Timers[k]
      /\ Timer4 \in Nat
  BY TimersAre, TimerAssumption DEF OfKind
<1>2. CASE t.state # "Completed"
  BY <1>2 DEF ReceiveAck
<1>3. CASE t.state = "Completed"
  <2>1. R = {"G", "H"} /\ "I" \notin R
    BY <1>1, <1>3, RunsIs
  <2>2. n.kind = k /\ n.state = "Confirmed"
    BY <1>1, StateIs
  <2>3. Unsettled(O, M, U, k, i, R)
    BY <1>1, OpenSettled
  <2> HIDE DEF t, n, R
  <2>4. i \in OfKind(U, k)
    OBVIOUS
  <2>5. Unsettled(O, M, E, k, i, R)
    BY <2>4, <2>2, <2>3, EnterUnsettled DEF n, t
  <2>6. Shape(U)
    BY SettledShape
  <2>7. Unsettled(O, M, E, k, i, R) /\ i \in OfKind(E, k) /\ E.transactions[i] = n
    BY <2>4, <2>5, <2>6, <2>2, EnterIs DEF n, t
  <2> HIDE DEF E
  <2>8. Unsettled(O, M, S, k, i, Besides(R, "I"))
    BY <1>1, <2>1, <2>7, StartTimerUnsettled
  <2>9. Shape(S) /\ S.transactions = E.transactions
    BY <2>7, UnsettledShape, StartTimerFields
  <2> HIDE DEF S
  <2>10. Unsettled(O, M, V, k, i, Besides(R, "I") \ T)
    BY <1>1, <2>8, StopTimersUnsettled
  <2>11. V.transactions = S.transactions
    BY <2>9, StopTimersFields
  <2> HIDE DEF V
  <2>12. i \in OfKind(V, k) /\ V.transactions[i] = n
    BY <2>7, <2>9, <2>11 DEF OfKind
  <2>13. Besides(R, "I") \ T = Runs(n)
    BY <2>1, <2>2, RunsIs DEF Besides
  <2>14. OnTime(V, i)
    BY <2>2, <2>12, Unhurried
  <2>15. Settled(O, M, V)
    BY <1>1, <2>10, <2>12, <2>13, <2>14, CloseOfKind
  <2>16. QED
    BY <1>3, <2>15 DEF ReceiveAck, V, S, E, t
<1>4. QED
  BY <1>2, <1>3

(* A request, of a new transaction or once more.                         *)
LEMMA ReceiveRequestSettled ==
  ASSUME NEW O, NEW M, NEW P, O \subseteq P, P \subseteq Nat, NEW U, Settled(O, M, U),
         NEW W, NEW a, AgentOK(W, a, U, 0), DOMAIN U.transactions \subseteq O,
         NEW id \in Nat, id \notin O, NEW m, MessageOK(W, m), m.status = 0, NEW tag,
         Matching(U, m) = {} /\ m.method # "ACK" => id \in P, Free(M, U, Matching(U, m))
  PROVE  Settled(P, M, ReceiveRequest(U, m, id, tag))
<1> DEFINE V == ReceiveRequest(U, m, id, tag)
           i == CHOOSE j \in Matching(U, m) : TRUE
           k == IF m.method = "INVITE" THEN "SI" ELSE "SN"
           s == IF k = "SI" THEN "Proceeding" ELSE "Trying"
           B == Began(U, id, k, m, s)
           Q == O \cup {id}
<1>1. Settled(P, M, U)
  BY UnsettledNames
<1>2. CASE Matching(U, m) # {}
  <2>1. i \in Matching(U, m)
    BY <1>2
  <2>2. V \in {U, Again(U, i)} \/ (m.method = "ACK" /\ V = ReceiveAck(U, i))
    BY <1>2 DEF ReceiveRequest, ReceiveAgain
  <2> HIDE DEF i, V
  <2>3. i \in DOMAIN U.transactions /\ ServerMatches(U.transactions[i], m)
    BY <2>1 DEF Matching, ClientMatches
  <2>4. TransactionOK(W, a, i, U.transactions[i])
    BY <2>3 DEF AgentOK
  <2>5. m.method = "ACK" => i \in OfKind(U, "SI")
    BY <2>3, <2>4 DEF ServerMatches, OfKind, TransactionOK
  <2>6. i \in P
    BY <2>3
  <2>7. m.method = "ACK" => Settled(P, M, ReceiveAck(U, i))
    BY <1>1, <2>1, <2>4, <2>5, <2>6, ReceiveAckSettled
  <2>8. Settled(P, M, Again(U, i))
    BY <1>1, AgainSettled
  <2>9. QED
    BY <1>1, <2>2, <2>7, <2>8 DEF V
<1>3. CASE Matching(U, m) = {} /\ m.method = "ACK"
  BY <1>1, <1>3 DEF ReceiveRequest
<1>4. CASE Matching(U, m) = {} /\ m.method # "ACK"
  <2>1. /\ k \in Kinds /\ k \in {"SI", "SN"} /\ (k = "SI" <=> m.method = "INVITE")
        /\ s \notin {"Completed", "Confirmed"}
    BY TimersAre
  <2>2. V = UasReceive(B, m, id, tag)
    BY <1>4 DEF ReceiveRequest, Began
  <2>3. id \notin DOMAIN U.transactions /\ Q \subseteq Nat /\ Q \subseteq P /\ id \in Q
    <3>1. O \subseteq Nat /\ id \in P
      BY <1>4
    <3>2. QED
      BY <3>1
  <2> HIDE DEF k, s, V
  <2>4. /\ Unsettled(Q, M, B, k, id, {}) /\ id \in OfKind(B, k)
        /\ B.transactions[id] = NewTransaction(k, s, m)
    BY <2>1, <2>3, BeganUnsettled
  <2> HIDE DEF B, Q
  <2>5. Asked(Q, M, B, k, id, s, m)
    BY <2>1, <2>4 DEF Asked
  <2>6. m \in Messages(W)
    BY DEF MessageOK
  <2>7. Settled(Q, M, V)
    BY <1>4, <2>2, <2>3, <2>5, <2>6, UasReceiveSettled
  <2>8. QED
    BY <2>3, <2>7, UnsettledNames DEF V
<1>5. QED
  BY <1>2, <1>3, <1>4

(* The client's part                                                     *)

(* The names O, and id if U has a transaction of that name, are in P.    *)
NamesOK(O, P, U, id) ==
    O \subseteq P /\ P \subseteq Nat /\ (id \in DOMAIN U.transactions => id \in P)

(* The BYE that hangs up has timers of its own.                          *)
LEMMA HangUpSettled ==
  ASSUME NEW O, NEW M, NEW P, NEW U, Settled(O, M, U), NEW a, NEW peer,
         NEW id \in Nat, id \notin O, id \notin DOMAIN U.transactions,
         NamesOK(O, P, HangUp(U, a, peer, id), id)
  PROVE  Settled(P, M, HangUp(U, a, peer, id))
<1> DEFINE i == DialogWith(U, peer, "INVITE")
           m == Within(U, i, "BYE", a, id)
           V == HangUp(U, a, peer, id)
<1>1. O \subseteq P /\ P \subseteq Nat /\ O \subseteq Nat /\ (id \in DOMAIN V.transactions => id \in P)
  BY DEF NamesOK
<1>2. CASE i = 0
  BY <1>1, <1>2, UnsettledNames DEF HangUp
<1>3. CASE i # 0
  <2>1. V = SendRequest(U, m) /\ m.branch = id
    BY <1>3 DEF HangUp, Within, Request
  <2> HIDE DEF V, m, i
  <2>2. DOMAIN V.transactions = DOMAIN U.transactions \cup {m.branch}
    BY <2>1, SettledShape, SendRequestFields
  <2>3. Settled(O \cup {m.branch}, M, V)
    BY <1>1, <2>1, SendRequestSettled
  <2>4. O \cup {m.branch} \subseteq P
    BY <1>1, <2>1, <2>2
  <2>5. Settled(P, M, V)
    BY <2>3, <2>4, UnsettledNames
  <2>6. QED
    BY <2>5 DEF V
<1>4. QED
  BY <1>2, <1>3

LEMMA UacReceive3xx6xxSettled ==
  ASSUME NEW O, NEW M, NEW P, NEW U, Settled(O, M, U), NEW r, NEW d,
         NEW id \in Nat, id \notin O, id \notin DOMAIN U.transactions,
         NamesOK(O, P, UacReceive3xx6xx(U, r, d, id), id)
  PROVE  Settled(P, M, UacReceive3xx6xx(U, r, d, id))
<1> DEFINE H == HangUp(U, r.to, U.dialogs[d].peer, id)
           T == IF r.status \in {408, 481} \/ r.method = "BYE" THEN U ELSE H
           V == UacReceive3xx6xx(U, r, d, id)
<1>1. O \subseteq P /\ P \subseteq Nat
  BY DEF NamesOK
<1>2. Settled(P, M, U)
  BY <1>1, UnsettledNames
<1>3. CASE d = 0
  BY <1>2, <1>3 DEF UacReceive3xx6xx
<1>4. CASE d # 0
  <2>1. V = RemoveDialog(T, d, "SESSION_TERMINATED")
    BY <1>4 DEF UacReceive3xx6xx
  <2>2. Shape(T)
    <3>1. Shape(U)
      BY SettledShape
    <3>2. Shape(H)
      BY <3>1, SendRequestFields DEF HangUp
    <3>3. QED
      BY <3>1, <3>2
  <2>3. V.transactions = T.transactions
    <3> HIDE DEF T, V
    <3> QED
      BY <2>1, <2>2, RemoveDialogFields
  <2>4. Settled(P, M, T)
    <3>1. CASE T = U
      BY <1>2, <3>1
    <3>2. CASE T = H
      <4> HIDE DEF H, T, V
      <4>1. NamesOK(O, P, H, id)
        BY <2>3, <3>2 DEF NamesOK, V
      <4>2. Settled(P, M, H)
        BY <4>1, HangUpSettled DEF H
      <4>3. QED
        BY <3>2, <4>2
    <3>3. QED
      BY <3>1, <3>2
  <2> HIDE DEF T, V
  <2>5. Settled(P, M, V)
    BY <2>1, <2>4, RemoveDialogSettled
  <2>6. QED
    BY <2>5 DEF V
<1>5. QED
  BY <1>3, <1>4

LEMMA UacReceive2xxSettled ==
  ASSUME NEW O, NEW M, NEW U, Settled(O, M, U), NEW r, NEW d
  PROVE  Settled(O, M, UacReceive2xx(U, r, d))
<1>1. Settled(O, M, CreateDialog(U, "INVITE", r.from, r.call, r.tag))
  BY CreateDialogSettled
<1>2. Settled(O, M, RemoveDialog(U, d, "SESSION_TERMINATED"))
  BY RemoveDialogSettled
<1>3. UacReceive2xx(U, r, d) \in {CreateDialog(U, "INVITE", r.from, r.call, r.tag),
                                  RemoveDialog(U, d, "SESSION_TERMINATED"), U}
  BY DEF UacReceive2xx
<1>4. QED
  BY <1>1, <1>2, <1>3

LEMMA UacReceiveSettled ==
  ASSUME NEW O, NEW M, NEW P, NEW U, Settled(O, M, U), NEW r,
         NEW id \in Nat, id \notin O, id \notin DOMAIN U.transactions,
         NamesOK(O, P, UacReceive(U, r, id), id)
  PROVE  Settled(P, M, UacReceive(U, r, id))
<1> DEFINE d == DialogOf(U, r)
           X == UacReceive2xx(U, r, d)
           Y == UacReceive3xx6xx(U, r, d, id)
           V == UacReceive(U, r, id)
<1>1. O \subseteq P
  BY DEF NamesOK
<1>2. V \in {X, Y, U}
  BY DEF UacReceive
<1> HIDE DEF V, d
<1>3. Settled(P, M, U) /\ Settled(P, M, X)
  BY <1>1, UnsettledNames, UacReceive2xxSettled
<1>4. ASSUME V = Y PROVE Settled(P, M, Y)
  <2>1. NamesOK(O, P, Y, id)
    BY <1>4 DEF V
  <2>2. QED
    BY <2>1, UacReceive3xx6xxSettled
<1> HIDE DEF X, Y
<1>5. Settled(P, M, V)
  BY <1>2, <1>3, <1>4
<1>6. QED
  BY <1>5 DEF V

LEMMA SendAckFields ==
  ASSUME NEW U, Shape(U), NEW i, NEW r
  PROVE  LET V == SendAck(U, i, r)
         IN /\ Shape(V) /\ V.transactions = U.transactions /\ V.shared = U.shared
            /\ V.alarm = U.alarm /\ V.forgotten = U.forgotten /\ V.value = U.value
BY SentFields DEF SendAck

(* Transaction i becomes completed, with timer t and without T.          *)
CompletedWith(U, i, t, ticks, T) == StopTimers(StartTimer(U, t, ticks, i), T)

LEMMA CompletedSettled ==
  ASSUME NEW O, NEW M, O \subseteq Nat, NEW U, NEW k \in Kinds, NEW i \in O, i \in OfKind(U, k),
         NEW R, Unsettled(O, M, U, k, i, R), NEW t \in Timers[k], t \notin R, NEW ticks \in Nat,
         NEW T, T \subseteq Timers[k], R \subseteq T, t \notin T,
         Runs(U.transactions[i]) = Besides({}, t), U.transactions[i].state = "Completed"
  PROVE  Settled(O, M, CompletedWith(U, i, t, ticks, T))
<1> DEFINE S == StartTimer(U, t, ticks, i)
           V == StopTimers(S, T)
           A == Besides(R, t)
<1>1. Unsettled(O, M, S, k, i, A)
  BY StartTimerUnsettled
<1>2. Shape(S) /\ S.transactions = U.transactions
  BY UnsettledShape, StartTimerFields
<1> HIDE DEF S, A
<1>3. Unsettled(O, M, V, k, i, A \ T)
  BY <1>1, StopTimersUnsettled
<1>4. V.transactions = S.transactions
  BY <1>2, StopTimersFields
<1> HIDE DEF V
<1>5. A \ T = Runs(V.transactions[i]) /\ i \in OfKind(V, k)
  BY <1>2, <1>4 DEF A, Besides, OfKind
<1>6. OnTime(V, i)
  BY <1>2, <1>4, Unhurried
<1>7. Settled(O, M, V)
  BY <1>3, <1>5, <1>6, CloseOfKind
<1>8. QED
  BY <1>7 DEF V, S, CompletedWith

(* They stop A and B when the answer comes, and start D when it is a     *)
(* failure.                                                              *)
LEMMA ClientInviteReceiveSettled ==
  ASSUME NEW O, NEW M, NEW P, NEW U, Settled(O, M, U), NEW i \in O, i \in OfKind(U, "CI"),
         NEW I, i \in I, Free(M, U, I),
         NEW W, NEW a, TransactionOK(W, a, i, U.transactions[i]), NEW r,
         NEW id \in Nat, id \notin O, id \notin DOMAIN U.transactions,
         NamesOK(O, P, ClientInviteReceive(U, i, r, id), id)
  PROVE  Settled(P, M, ClientInviteReceive(U, i, r, id))
<1> DEFINE k == "CI"
           t == U.transactions[i]
           T == {"A", "B"}
           N == IF t.state = "Calling" THEN StopTimers(U, T) ELSE U
           C == Enter(U, i, "Completed")
           K == SendAck(C, i, r)
           D == StartTimer(K, "D", Timer32s, i)
           Q == IF t.state = "Calling" THEN StopTimers(D, T) ELSE D
           V == ClientInviteReceive(U, i, r, id)
           none == {}
<1>1. /\ O \subseteq P /\ O \subseteq Nat /\ Shape(U) /\ Timer32s \in Nat
      /\ k \in Kinds /\ t.kind = k /\ T \subseteq Timers[k] /\ "D" \in Timers[k] /\ "D" \notin T
      /\ i \in OfKind(U, k) /\ i \in DOMAIN U.transactions
  BY SettledShape, TimersAre, TimerAssumption DEF NamesOK, OfKind
<1>2. Settled(P, M, U)
  BY <1>1, UnsettledNames
<1>3. Unsettled(O, M, U, k, i, Runs(t))
  BY <1>1, OpenSettled
<1>4. Runs(t) = IF t.state = "Calling" THEN T ELSE IF t.state = "Completed" THEN {"D"} ELSE none
  BY <1>1, RunsIs
<1>5. ASSUME t.state \in {"Calling", "Proceeding"}
      PROVE  /\ r.status \in 100..199 => V = Enter(N, i, "Proceeding")
             /\ r.status \in 200..299 => V = Clear(UacReceive2xx(N, r, DialogOf(N, r)), i)
             /\ r.status \in 300..699 => V = UacReceive(Q, r, id)
  BY <1>5, ClientInviteReceiveIs
<1> HIDE DEF k, T, t, none
<1>6. ASSUME t.state \in {"Calling", "Proceeding"}
      PROVE  Unsettled(O, M, N, k, i, none) /\ Shape(N) /\ N.transactions = U.transactions
  <2>1. CASE t.state = "Calling"
    <3>1. Unsettled(O, M, StopTimers(U, T), k, i, T \ T)
      BY <1>1, <1>3, <1>4, <2>1, StopTimersUnsettled
    <3>2. Shape(StopTimers(U, T)) /\ StopTimers(U, T).transactions = U.transactions
      BY <1>1, StopTimersFields
    <3>3. T \ T = none
      BY DEF none
    <3>4. QED
      BY <2>1, <3>1, <3>2, <3>3
  <2>2. CASE t.state # "Calling"
    BY <1>1, <1>3, <1>4, <1>6, <2>2
  <2>3. QED
    BY <2>1, <2>2
<1>7. CASE t.state \in {"Calling", "Proceeding"} /\ r.status \in 100..199
  <2> DEFINE E == Enter(N, i, "Proceeding")
             n == InState(t, "Proceeding")
  <2>1. V = E
    BY <1>7, <1>5
  <2>2. Unsettled(O, M, N, k, i, none) /\ Shape(N) /\ N.transactions = U.transactions
    BY <1>6, <1>7
  <2>3. i \in OfKind(N, k) /\ N.transactions[i] = t
    BY <1>1, <2>2 DEF OfKind, t
  <2>4. n.kind = k /\ n.state = "Proceeding"
    BY <1>1, StateIs DEF t
  <2> HIDE DEF N, n, V
  <2>5. Unsettled(O, M, E, k, i, none)
    BY <2>2, <2>3, <2>4, EnterUnsettled DEF n
  <2>6. i \in OfKind(E, k) /\ E.transactions[i] = n
    BY <2>2, <2>3, <2>4, EnterIs DEF n
  <2> HIDE DEF E
  <2>7. none = Runs(n)
    BY <2>4, RunsIs DEF k, none
  <2>8. OnTime(E, i)
    BY <2>4, <2>6, Unhurried
  <2>9. Settled(O, M, E)
    BY <1>1, <2>5, <2>6, <2>7, <2>8, CloseOfKind
  <2>10. QED
    BY <1>1, <2>1, <2>9, UnsettledNames DEF V
<1>8. CASE t.state \in {"Calling", "Proceeding"} /\ r.status \in 200..299
  <2> DEFINE G == UacReceive2xx(N, r, DialogOf(N, r))
  <2>1. V = Clear(G, i)
    BY <1>8, <1>5
  <2>2. Unsettled(O, M, N, k, i, none) /\ Shape(N) /\ N.transactions = U.transactions
    BY <1>6, <1>8
  <2> HIDE DEF N, V
  <2>3. /\ Shape(G) /\ G.alarm = N.alarm /\ G.forgotten = N.forgotten /\ G.value = N.value
        /\ G.shared = N.shared /\ G.transactions = N.transactions
    BY <2>2, CreateDialogTimers, RemoveDialogFields DEF UacReceive2xx
  <2> HIDE DEF G
  <2>4. Unsettled(O, M, G, k, i, none)
    BY <2>2, <2>3, AlikeUnsettled
  <2>5. i \in OfKind(G, k)
    BY <1>1, <2>2, <2>3 DEF OfKind
  <2>6. Settled(O, M, Clear(G, i))
    BY <1>1, <2>4, <2>5, ClearSettled
  <2>7. QED
    BY <1>1, <2>1, <2>6, UnsettledNames DEF V
<1>9. CASE t.state \in {"Calling", "Proceeding"} /\ r.status \in 300..699
  <2> DEFINE n == InState(t, "Completed")
             R == Runs(t)
  <2>1. V = UacReceive(Q, r, id)
    BY <1>9, <1>5
  <2>2. n.kind = k /\ n.state = "Completed"
    BY <1>1, StateIs DEF t
  <2>3. R \subseteq T /\ "D" \notin R /\ (t.state # "Calling" => R = none)
    BY <1>4, <1>9 DEF T, none
  <2> HIDE DEF n, R, V
  <2>4. Unsettled(O, M, C, k, i, R)
    BY <1>1, <1>3, <2>2, EnterUnsettled DEF n, R, t
  <2>5. i \in OfKind(C, k) /\ C.transactions[i] = n
    BY <1>1, <2>2, EnterIs DEF n, t
  <2> HIDE DEF C
  <2>6. /\ Shape(K) /\ K.transactions = C.transactions /\ K.shared = C.shared
        /\ K.alarm = C.alarm /\ K.forgotten = C.forgotten /\ K.value = C.value
    BY <2>4, UnsettledShape, SendAckFields
  <2> HIDE DEF K
  <2>7. Unsettled(O, M, K, k, i, R)
    BY <2>4, <2>6, AlikeUnsettled
  <2>8. /\ i \in OfKind(K, k) /\ Runs(K.transactions[i]) = Besides({}, "D")
        /\ K.transactions[i].state = "Completed"
    <3>1. Runs(n) = {"D"}
      BY <2>2, RunsIs DEF k
    <3>2. QED
      BY <2>2, <2>5, <2>6, <3>1 DEF OfKind, Besides
  <2>9. Settled(O, M, Q) /\ DOMAIN Q.transactions = DOMAIN U.transactions
    <3>1. Settled(O, M, CompletedWith(K, i, "D", Timer32s, T))
      BY <1>1, <2>3, <2>7, <2>8, CompletedSettled
    <3>2. Shape(D) /\ D.transactions = K.transactions
      BY <2>6, StartTimerFields
    <3>3. StopTimers(D, T).transactions = K.transactions
      <4> HIDE DEF D
      <4> QED
        BY <3>2, StopTimersFields
    <3>4. ASSUME t.state # "Calling" PROVE Settled(O, M, D)
      <4>1. R = none
        BY <2>3, <3>4
      <4>2. Unsettled(O, M, D, k, i, Besides(R, "D"))
        BY <1>1, <2>3, <2>7, <2>8, StartTimerUnsettled
      <4> HIDE DEF D
      <4>3. i \in OfKind(D, k) /\ Besides(R, "D") = Runs(D.transactions[i])
        BY <2>8, <3>2, <4>1 DEF OfKind, none
      <4>4. OnTime(D, i)
        BY <2>8, <3>2, Unhurried
      <4>5. QED
        BY <1>1, <4>2, <4>3, <4>4, CloseOfKind
    <3>5. DOMAIN K.transactions = DOMAIN U.transactions
      <4>1. C.transactions = [U.transactions EXCEPT ![i] = n]
        BY <1>1, EnterFields DEF C, n, t, InState
      <4>2. QED
        BY <2>6, <4>1
    <3>6. CASE t.state = "Calling"
      BY <3>1, <3>3, <3>5, <3>6 DEF CompletedWith
    <3>7. CASE t.state # "Calling"
      BY <3>2, <3>4, <3>5, <3>7
    <3>8. QED
      BY <3>6, <3>7
  <2> HIDE DEF Q
  <2>10. NamesOK(O, P, UacReceive(Q, r, id), id)
    BY <2>1 DEF V
  <2>11. id \notin DOMAIN Q.transactions
    BY <2>9
  <2>12. QED
    BY <2>1, <2>9, <2>10, <2>11, UacReceiveSettled DEF V
<1>10. CASE t.state = "Completed" /\ r.status \in 300..699
  <2>1. V = SendAck(U, i, r)
    BY <1>10 DEF ClientInviteReceive, t
  <2>2. QED
    BY <1>2, <2>1, SentSettled DEF SendAck
<1>11. CASE /\ ~(t.state \in {"Calling", "Proceeding"} /\ r.status \in 100..199)
            /\ ~(t.state \in {"Calling", "Proceeding"} /\ r.status \in 200..299)
            /\ ~(t.state \in {"Calling", "Proceeding"} /\ r.status \in 300..699)
            /\ ~(t.state = "Completed" /\ r.status \in 300..699)
  <2>1. V = U
    BY <1>11 DEF ClientInviteReceive, t
  <2>2. QED
    BY <1>2, <2>1
<1>12. QED
  BY <1>7, <1>8, <1>9, <1>10, <1>11

(* The cases of SipTransactionClientNonInvite::receiveResponse().        *)
LEMMA ClientNonInviteReceiveIs ==
  ASSUME NEW U, NEW i, NEW r, NEW id, U.transactions[i].state \in {"Trying", "Proceeding"}
  PROVE  LET K == StartTimer(Enter(U, i, "Completed"), "K", Timer4, i)
             V == ClientNonInviteReceive(U, i, r, id)
         IN /\ r.status \in 100..199 => V = Enter(U, i, "Proceeding")
            /\ r.status \in 200..699 => V = UacReceive(StopTimers(K, {"E", "F"}), r, id)
<1> DEFINE K == StartTimer(Enter(U, i, "Completed"), "K", Timer4, i)
           V == ClientNonInviteReceive(U, i, r, id)
<1>1. ASSUME r.status \in 100..199
      PROVE  V = Enter(U, i, "Proceeding")
  <2>1. r.status < 200
    BY <1>1
  <2>2. r.status \notin 200..699
    BY <2>1
  <2>3. QED
    BY <1>1, <2>2 DEF ClientNonInviteReceive
<1>2. ASSUME r.status \in 200..699
      PROVE  V = UacReceive(StopTimers(K, {"E", "F"}), r, id)
  <2>1. r.status \in Int /\ ~(r.status < 200)
    BY <1>2
  <2>2. r.status \notin 100..199
    BY <2>1
  <2>3. QED
    BY <1>2, <2>2 DEF ClientNonInviteReceive
<1>3. QED
  BY <1>1, <1>2

(* A 1xx leaves E and F to run; a final response starts K and stops them.*)
LEMMA ClientNonInviteReceiveSettled ==
  ASSUME NEW O, NEW M, NEW P, NEW U, Settled(O, M, U), NEW i \in O, i \in OfKind(U, "CN"),
         NEW I, i \in I, Free(M, U, I),
         NEW W, NEW a, TransactionOK(W, a, i, U.transactions[i]),
         NEW r, MessageOK(W, r), r.status # 0,
         NEW id \in Nat, id \notin O, id \notin DOMAIN U.transactions,
         NamesOK(O, P, ClientNonInviteReceive(U, i, r, id), id)
  PROVE  Settled(P, M, ClientNonInviteReceive(U, i, r, id))
<1> DEFINE k == "CN"
           t == U.transactions[i]
           T == {"E", "F"}
           C == Enter(U, i, "Completed")
           K == StartTimer(C, "K", Timer4, i)
           F == StopTimers(K, T)
           V == ClientNonInviteReceive(U, i, r, id)
<1>1. /\ O \subseteq P /\ O \subseteq Nat /\ Shape(U) /\ Timer4 \in Nat
      /\ k \in Kinds /\ t.kind = k /\ T \subseteq Timers[k] /\ "K" \in Timers[k] /\ "K" \notin T
      /\ i \in OfKind(U, k) /\ i \in DOMAIN U.transactions
  BY SettledShape, TimersAre, TimerAssumption DEF NamesOK, OfKind
<1>2. Settled(P, M, U)
  BY <1>1, UnsettledNames
<1>3. Unsettled(O, M, U, k, i, Runs(t))
  BY <1>1, OpenSettled
<1>4. t.state \in {"Trying", "Proceeding"} => Runs(t) = T
  BY <1>1, RunsIs
<1>5. r.status \in 100..199 \/ r.status \in 200..699
  <2>1. r.status \in {0} \cup 100..699
    BY MessageIs DEF MessageOK
  <2>2. QED
    BY <2>1, FinalClasses
<1>6. ASSUME t.state \in {"Trying", "Proceeding"}
      PROVE  /\ r.status \in 100..199 => V = Enter(U, i, "Proceeding")
             /\ r.status \in 200..699 => V = UacReceive(F, r, id)
  BY <1>6, ClientNonInviteReceiveIs
<1>7. CASE t.state \notin {"Trying", "Proceeding"}
  <2>1. V = U
    BY <1>7 DEF ClientNonInviteReceive
  <2>2. QED
    BY <1>2, <2>1
<1> HIDE DEF k, T, t
<1>8. CASE t.state \in {"Trying", "Proceeding"} /\ r.status \in 100..199
  <2> DEFINE E == Enter(U, i, "Proceeding")
             n == InState(t, "Proceeding")
  <2>1. V = E
    BY <1>6, <1>8
  <2>2. n.kind = k /\ n.state = "Proceeding"
    BY <1>1, StateIs DEF t
  <2> HIDE DEF n, V
  <2>3. Unsettled(O, M, E, k, i, T)
    BY <1>1, <1>3, <1>4, <1>8, <2>2, EnterUnsettled DEF n, t
  <2>4. i \in OfKind(E, k) /\ E.transactions[i] = n
    BY <1>1, <2>2, EnterIs DEF n, t
  <2> HIDE DEF E
  <2>5. T = Runs(n)
    BY <2>2, RunsIs DEF k, T
  <2>6. OnTime(E, i)
    BY <2>2, <2>4, Unhurried
  <2>7. Settled(O, M, E)
    BY <1>1, <2>3, <2>4, <2>5, <2>6, CloseOfKind
  <2>8. QED
    BY <1>1, <2>1, <2>7, UnsettledNames DEF V
<1>9. CASE t.state \in {"Trying", "Proceeding"} /\ r.status \in 200..699
  <2> DEFINE n == InState(t, "Completed")
  <2>1. V = UacReceive(F, r, id)
    BY <1>6, <1>9
  <2>2. n.kind = k /\ n.state = "Completed"
    BY <1>1, StateIs DEF t
  <2> HIDE DEF n, V
  <2>3. Unsettled(O, M, C, k, i, T)
    BY <1>1, <1>3, <1>4, <1>9, <2>2, EnterUnsettled DEF n, t
  <2>4. i \in OfKind(C, k) /\ C.transactions[i] = n
    BY <1>1, <2>2, EnterIs DEF n, t
  <2>5. DOMAIN C.transactions = DOMAIN U.transactions
    <3>1. C.transactions = [U.transactions EXCEPT ![i] = n]
      BY <1>1, EnterFields DEF n, t, InState
    <3> HIDE DEF C
    <3>2. QED
      BY <3>1
  <2> HIDE DEF C
  <2>6. Runs(C.transactions[i]) = Besides({}, "K") /\ C.transactions[i].state = "Completed"
    BY <2>2, <2>4, RunsIs DEF k, Besides
  <2>7. Settled(O, M, CompletedWith(C, i, "K", Timer4, T))
    BY <1>1, <2>3, <2>4, <2>6, CompletedSettled
  <2>8. Shape(K) /\ K.transactions = C.transactions
    BY <2>3, UnsettledShape, StartTimerFields
  <2>9. Settled(O, M, F) /\ F.transactions = K.transactions
    <3>1. Settled(O, M, F)
      BY <2>7 DEF CompletedWith
    <3> HIDE DEF K
    <3>2. F.transactions = K.transactions
      BY <2>8, StopTimersFields
    <3>3. QED
      BY <3>1, <3>2
  <2> HIDE DEF F, K
  <2>10. NamesOK(O, P, UacReceive(F, r, id), id) /\ id \notin DOMAIN F.transactions
    BY <2>1, <2>5, <2>8, <2>9 DEF V
  <2>11. QED
    BY <2>1, <2>9, <2>10, UacReceiveSettled DEF V
<1>10. QED
  BY <1>5, <1>7, <1>8, <1>9

(* A response, of a transaction or of none.                              *)
LEMMA ReceiveResponseSettled ==
  ASSUME NEW O, NEW M, NEW P, NEW U, Settled(O, M, U), NEW W, NEW a, AgentOK(W, a, U, 0),
         DOMAIN U.transactions \subseteq O, NEW r, MessageOK(W, r), r.status # 0,
         Free(M, U, Matching(U, r)),
         NEW id \in Nat, id \notin O, NamesOK(O, P, ReceiveResponse(U, r, id), id)
  PROVE  Settled(P, M, ReceiveResponse(U, r, id))
<1> DEFINE i == CHOOSE j \in Matching(U, r) : TRUE
           t == U.transactions[i]
           V == ReceiveResponse(U, r, id)
<1>1. CASE Matching(U, r) = {}
  <2>1. V = U
    BY <1>1 DEF ReceiveResponse
  <2>2. QED
    BY <2>1, UnsettledNames DEF NamesOK
<1>2. CASE Matching(U, r) # {}
  <2>1. i \in Matching(U, r)
    BY <1>2
  <2>2. V = IF t.kind = "CI" THEN ClientInviteReceive(U, i, r, id)
            ELSE ClientNonInviteReceive(U, i, r, id)
    BY <1>2 DEF ReceiveResponse
  <2> HIDE DEF i, V
  <2>3. i \in DOMAIN U.transactions /\ t.kind \in {"CI", "CN"}
    BY <2>1 DEF Matching, ServerMatches, ClientMatches
  <2>4. TransactionOK(W, a, i, t)
    BY <2>3 DEF AgentOK
  <2>5. i \in O /\ id \notin DOMAIN U.transactions
    BY <2>3
  <2>6. CASE t.kind = "CI"
    <3>1. V = ClientInviteReceive(U, i, r, id) /\ i \in OfKind(U, "CI")
      BY <2>2, <2>3, <2>6 DEF OfKind
    <3>2. NamesOK(O, P, ClientInviteReceive(U, i, r, id), id)
      BY <3>1 DEF V
    <3>3. QED
      BY <2>1, <2>4, <2>5, <3>1, <3>2, ClientInviteReceiveSettled DEF V
  <2>7. CASE t.kind = "CN"
    <3>1. V = ClientNonInviteReceive(U, i, r, id) /\ i \in OfKind(U, "CN")
      BY <2>2, <2>3, <2>7 DEF OfKind
    <3>2. NamesOK(O, P, ClientNonInviteReceive(U, i, r, id), id)
      BY <3>1 DEF V
    <3>3. QED
      BY <2>1, <2>4, <2>5, <3>1, <3>2, ClientNonInviteReceiveSettled DEF V
  <2>8. QED
    BY <2>3, <2>6, <2>7
<1>3. QED
  BY <1>1, <1>2

(* An alarm goes off.                                                    *)
LEMMA ForgottenFields ==
  ASSUME NEW U, Shape(U), NEW F
  PROVE  LET V == [U EXCEPT !.forgotten = F]
         IN /\ Shape(V) /\ V.dialogs = U.dialogs /\ V.out = U.out /\ V.forgotten = F
            /\ V.alarm = U.alarm /\ V.value = U.value /\ V.shared = U.shared
            /\ V.transactions = U.transactions
BY DEF Shape, Fields

LEMMA QuietFields ==
  ASSUME NEW U, Shape(U), NEW e
  PROVE  LET V == Quiet(U, e)
         IN /\ Shape(V) /\ V.dialogs = U.dialogs /\ V.out = U.out /\ V.value = U.value
            /\ V.shared = U.shared /\ V.transactions = U.transactions
BY StopTimersFields, ForgottenFields DEF Quiet

(* An alarm that goes off calls a transaction of its own kind, and, where*)
(* no two transactions have lived at once, one whose state asks for it.  *)
LEMMA AlarmOfOwner ==
  ASSUME NEW O, NEW M, NEW U, Settled(O, M, U), NEW e \in Alarms(U), e.owner \in DOMAIN U.transactions,
         U.transactions[e.owner].kind \in Kinds, Free(M, U, {e.owner})
  PROVE  LET k == U.transactions[e.owner].kind
         IN /\ e.timer \in Timers[k]
            /\ k \in U.shared \/ (e \notin U.forgotten /\ e.timer \in Runs(U.transactions[e.owner]))
<1> DEFINE i == e.owner
           k == U.transactions[i].kind
           t == e.timer
<1>1. ClockOK(O, M, U) /\ i \in OfKind(U, k) /\ DOMAIN U.alarm = AllTimers
  BY DEF Settled, ClockOK, OfKind
<1>2. ASSUME e \notin U.forgotten
      PROVE  t \in AllTimers /\ U.alarm[t] # Null /\ U.alarm[t].owner = i
  BY <1>1, <1>2 DEF Alarms, Set
<1>3. t \in Timers[k]
  BY <1>1, <1>2 DEF ClockOK
<1>4. ASSUME k \notin U.shared
      PROVE  e \notin U.forgotten /\ t \in Runs(U.transactions[i])
  <2> HIDE DEF k
  <2>1. Unsettled(O, M, U, k, i, Runs(U.transactions[i]))
    BY <1>1, OpenSettled DEF k, i
  <2>2. Holds(U, k, i, Runs(U.transactions[i]))
    BY <1>4, <2>1 DEF Unsettled
  <2>3. QED
    BY <1>2, <1>3, <2>2 DEF Holds
<1>5. QED
  BY <1>3, <1>4

(* The alarm leaves its slot: its timer runs no more.                    *)
LEMMA QuietUnsettled ==
  ASSUME NEW O, NEW M, NEW U, Settled(O, M, U), NEW e \in Alarms(U), e.owner \in DOMAIN U.transactions,
         NEW k \in Kinds, U.transactions[e.owner].kind = k, Free(M, U, {e.owner})
  PROVE  Unsettled(O, M, Quiet(U, e), k, e.owner, Runs(U.transactions[e.owner]) \ {e.timer})
<1> DEFINE i == e.owner
           R == Runs(U.transactions[i])
           t == e.timer
           V == Quiet(U, e)
<1>1. ClockOK(O, M, U) /\ Shape(U) /\ i \in OfKind(U, k)
  BY DEF Settled, ClockOK, OfKind
<1>2. t \in Timers[k] /\ (k \in U.shared \/ e \notin U.forgotten)
  BY AlarmOfOwner
<1>3. Unsettled(O, M, U, k, i, R)
  BY <1>1, OpenSettled
<1>4. CASE e \in U.forgotten
  <2>1. V = [U EXCEPT !.forgotten = U.forgotten \ {e}]
    BY <1>4 DEF Quiet
  <2>2. /\ Shape(V) /\ V.alarm = U.alarm /\ V.forgotten = U.forgotten \ {e}
        /\ V.value = U.value /\ V.shared = U.shared /\ V.transactions = U.transactions
    BY <1>1, <2>1, ForgottenFields
  <2> HIDE DEF V
  <2>3. ClockOK(O, M, V)
    <3>1. Descends(O, V, U)
      BY <2>2 DEF Descends
    <3>2. WorksOK(O, M, V)
      BY <1>1, <3>1, WorksGoOn DEF ClockOK
    <3>3. QED
      BY <1>1, <2>2, <3>2 DEF ClockOK
  <2>4. ASSUME NEW j \in Kinds \ (V.shared \cup {k}) PROVE Follows(M, V, j)
    <3>1. Keeps(V, U, j)
      BY <2>2 DEF Keeps, OfKind
    <3>2. Follows(M, U, j)
      BY <2>2 DEF Settled
    <3>3. QED
      BY <3>1, <3>2, FollowsKept
  <2>5. k \in V.shared
    BY <1>2, <1>4, <2>2
  <2>6. QED
    BY <2>3, <2>4, <2>5 DEF Unsettled, V
<1>5. CASE e \notin U.forgotten
  <2>1. V = StopTimers(U, {t})
    BY <1>5 DEF Quiet
  <2> HIDE DEF V, R
  <2>2. {t} \subseteq Timers[k]
    BY <1>2
  <2>3. Unsettled(O, M, V, k, i, R \ {t})
    BY <1>3, <2>1, <2>2, StopTimersUnsettled
  <2>4. QED
    BY <2>3 DEF V, R
<1>6. QED
  BY <1>4, <1>5

(* A timer of retransmission starts again.                               *)
LEMMA RestartUnsettled ==
  ASSUME NEW O, NEW M, O \subseteq Nat, NEW U, NEW k \in Kinds, NEW i \in O, i \in OfKind(U, k),
         NEW R, NEW t \in R, t \in Timers[k], Unsettled(O, M, U, k, i, R \ {t}), NEW ticks \in Nat
  PROVE  Unsettled(O, M, StartTimer(U, t, ticks, i), k, i, R)
<1> DEFINE Q == R \ {t}
<1>1. t \notin Q /\ Besides(Q, t) = R
  BY DEF Besides
<1> HIDE DEF Q
<1>2. Unsettled(O, M, StartTimer(U, t, ticks, i), k, i, Besides(Q, t))
  BY <1>1, StartTimerUnsettled DEF Q
<1>3. QED
  BY <1>1, <1>2

LEMMA TriedIs ==
  ASSUME NEW W, NEW a, NEW i, NEW t, TransactionOK(W, a, i, t)
  PROVE  Tried(t).kind = t.kind /\ Tried(t).state = t.state
BY DEF TransactionOK, Transactions, Tried

LEMMA RunsSame ==
  ASSUME NEW t, NEW u, t.kind = u.kind, t.state = u.state
  PROVE  Runs(t) = Runs(u)
BY DEF Runs

LEMMA RestartSettled ==
  ASSUME NEW O, NEW M, O \subseteq Nat, NEW U, NEW k \in Kinds, k # "CI", NEW i \in O, i \in OfKind(U, k),
         NEW W, NEW a, TransactionOK(W, a, i, U.transactions[i]),
         NEW t \in Runs(U.transactions[i]), t \in Timers[k],
         Unsettled(O, M, U, k, i, Runs(U.transactions[i]) \ {t}), NEW ticks \in Nat
  PROVE  /\ Settled(O, M, StartTimer(U, t, ticks, i))
         /\ Settled(O, M, Resend(StartTimer(U, t, ticks, i), i))
<1> DEFINE q == U.transactions[i]
           R == Runs(q)
           S == StartTimer(U, t, ticks, i)
           V == Resend(S, i)
           n == Tried(q)
<1>1. Unsettled(O, M, S, k, i, R)
  BY RestartUnsettled
<1>2. Shape(S) /\ S.transactions = U.transactions
  BY UnsettledShape, StartTimerFields
<1>3. n.kind = k /\ Runs(n) = R
  <2>1. q.kind = k /\ n.kind = q.kind /\ n.state = q.state
    BY TriedIs DEF OfKind
  <2> HIDE DEF n
  <2>2. QED
    BY <2>1, RunsSame
<1> HIDE DEF S
<1>4. i \in OfKind(S, k) /\ S.transactions[i] = q /\ i \in DOMAIN S.transactions
  BY <1>2 DEF OfKind
<1>5. Settled(O, M, S)
  <2>1. OnTime(S, i)
    BY <1>4, Unhurried DEF OfKind
  <2>2. QED
    BY <1>1, <1>4, <2>1, CloseOfKind
<1> HIDE DEF q, n, R
<1>6. Unsettled(O, M, V, k, i, R)
  BY <1>1, <1>3, <1>4, ResendUnsettled DEF n
<1>7. V.transactions = With(S.transactions, i, n)
  BY <1>2, <1>4, ResendFields DEF n
<1> HIDE DEF V
<1>8. i \in OfKind(V, k) /\ V.transactions[i] = n
  BY <1>3, <1>7 DEF OfKind, With
<1>9. Settled(O, M, V)
  <2>1. OnTime(V, i)
    BY <1>3, <1>8, Unhurried
  <2>2. QED
    BY <1>3, <1>6, <1>8, <2>1, CloseOfKind
<1>10. QED
  BY <1>5, <1>9 DEF V, S

(* ... as timer A does, with twice its value, and the INVITE goes out.   *)
LEMMA RepeatSettled ==
  ASSUME NEW O, NEW M, O \subseteq Nat, NEW U, NEW i \in O, i \in OfKind(U, "CI"),
         NEW W, NEW a, TransactionOK(W, a, i, U.transactions[i]), Rings(U.transactions[i]),
         Unsettled(O, M, U, "CI", i, Runs(U.transactions[i]) \ {"A"}),
         "CI" \in U.shared \/ RingsIn(U, i, 0)
  PROVE  Settled(O, M, Resend(StartTimer(U, "A", 2 * U.value["A"], i), i))
<1> DEFINE k == "CI"
           q == U.transactions[i]
           R == Runs(q)
           v == U.value["A"]
           S == StartTimer(U, "A", 2 * v, i)
           V == Resend(S, i)
           n == Tried(q)
<1>1. ClockOK(O, M, U) /\ Shape(U) /\ i \in DOMAIN U.transactions /\ k \in Kinds
  BY UnsettledShape, TimersAre DEF Unsettled, OfKind
<1>2. 2 * v \in Nat
  <2>1. v \in Nat
    BY <1>1 DEF ClockOK, Doubled
  <2>2. QED
    BY <2>1
<1>3. R = {"A", "B"} /\ "A" \in R /\ "B" \in R \ {"A"} /\ "A" \in Timers[k] /\ "B" \in Timers[k]
  BY RunsIs, TimersAre DEF Rings
<1>4. /\ Shape(S) /\ S.transactions = U.transactions /\ S.shared = U.shared
      /\ S.value["A"] = 2 * v /\ S.alarm["A"].left = 2 * v /\ S.alarm["B"] = U.alarm["B"]
  BY <1>1, StartedA
<1>5. Unsettled(O, M, S, k, i, R)
  BY <1>1, <1>2, <1>3, RestartUnsettled
<1>6. n.kind = k /\ n.state = q.state /\ n.tries = q.tries + 1
  BY TriedIs DEF Rings, TransactionOK, Transactions, Tried
<1>7. Runs(n) = R /\ Rings(n)
  <2> HIDE DEF n
  <2>1. QED
    BY <1>6, RunsSame DEF Rings
<1> HIDE DEF S, n
<1>8. i \in OfKind(S, k) /\ S.transactions[i] = q /\ i \in DOMAIN S.transactions
  BY <1>4 DEF OfKind
<1>9. /\ V.alarm = S.alarm /\ V.value = S.value /\ V.shared = S.shared
      /\ V.transactions = With(S.transactions, i, n)
  BY <1>4, <1>8, ResendFields DEF n
<1>10. Unsettled(O, M, V, k, i, R)
  BY <1>5, <1>6, <1>8, ResendUnsettled DEF n
<1> HIDE DEF V
<1>11. i \in OfKind(V, k) /\ V.transactions[i] = n
  BY <1>6, <1>9 DEF OfKind, With
<1>12. ASSUME k \notin V.shared PROVE OnTime(V, i)
  <2>1. Beats(q.tries, v, 0, U.alarm["B"].left)
    BY <1>4, <1>9, <1>12 DEF RingsIn
  <2>2. U.alarm["B"].left \in Nat
    <3>1. U.alarm["B"] # Null
      BY <1>3, <1>4, <1>9, <1>12 DEF Unsettled, Holds
    <3>2. "B" \in AllTimers
      BY TimersAre
    <3>3. QED
      BY <1>1, <3>1, <3>2 DEF ClockOK
  <2>3. Beats(q.tries + 1, 2 * v, 2 * v, U.alarm["B"].left)
    BY <2>1, <2>2, NextBeat
  <2>4. RingsIn(V, i, V.alarm["A"].left)
    BY <1>4, <1>6, <1>9, <1>11, <2>3 DEF RingsIn
  <2>5. QED
    BY <2>4 DEF OnTime
<1>13. Settled(O, M, V)
  BY <1>1, <1>7, <1>10, <1>11, <1>12, CloseOfKind
<1>14. QED
  BY <1>13 DEF V, S

(* An INVITE goes out once more: the next one is twice as far away.      *)
Repeated(U, t, i, q) ==
    /\ t = "A" /\ Rings(q)
    /\ Expire(U, t, i, q.state) = Resend(StartTimer(U, "A", 2 * U.value["A"], i), i)

(* What is done to transaction i, of kind k, whose timer t has gone off, *)
(* when it was found to be q.                                            *)
Outcome(U, t, k, i, q) ==
    \/ \E ticks \in Nat : /\ t \in Runs(q) /\ k # "CI"
                          /\ \/ Expire(U, t, i, q.state) = Resend(StartTimer(U, t, ticks, i), i)
                             \/ Expire(U, t, i, q.state) = Again(StartTimer(U, t, ticks, i), i)
    \/ Repeated(U, t, i, q)
    \/ Expire(U, t, i, q.state) = Clear(U, i)
    \/ Expire(U, t, i, q.state) = U /\ t \notin Runs(q)

LEMMA ExpireIs ==
  ASSUME NEW U, NEW i, NEW t, NEW k \in Kinds, NEW q, q.kind = k, t \in Timers[k],
         \A u \in Doubled : U.value[u] \in Nat
  PROVE  Outcome(U, t, k, i, q)
<1> DEFINE v == U.value[t]
<1>1. t \in Doubled => 2 * v \in Nat /\ AtMost(2 * v, Timer2) \in Nat
  BY TimerAssumption DEF AtMost
<1>2. Timer2 \in Nat
  BY TimerAssumption
<1>3. CASE k = "CI"
  <2>1. t \in {"A", "B", "D"} /\ Expire(U, t, i, q.state) = ClientInviteExpires(U, t, i, q.state)
    BY <1>3, TimersAre DEF Expire
  <2>2. Runs(q) = IF q.state = "Calling" THEN {"A", "B"}
                  ELSE IF q.state = "Completed" THEN {"D"} ELSE {}
    BY <1>3, RunsIs
  <2>3. CASE t = "A" /\ q.state = "Calling"
    <3>1. Expire(U, t, i, q.state) = Resend(StartTimer(U, t, 2 * v, i), i)
      BY <2>1, <2>3 DEF ClientInviteExpires
    <3>2. Rings(q)
      BY <1>3, <2>3 DEF Rings
    <3>3. QED
      BY <2>3, <3>1, <3>2 DEF Repeated, Outcome
  <2>4. CASE (t = "B" /\ q.state = "Calling") \/ (t = "D" /\ q.state = "Completed")
    BY <2>1, <2>4 DEF Outcome, ClientInviteExpires
  <2>5. CASE /\ ~(t = "A" /\ q.state = "Calling")
             /\ ~((t = "B" /\ q.state = "Calling") \/ (t = "D" /\ q.state = "Completed"))
    BY <2>1, <2>2, <2>5 DEF Outcome, ClientInviteExpires
  <2>6. QED
    BY <2>3, <2>4, <2>5
<1>4. CASE k = "CN"
  <2>1. t \in {"E", "F", "K"} /\ Expire(U, t, i, q.state) = ClientNonInviteExpires(U, t, i, q.state)
    BY <1>4, TimersAre DEF Expire
  <2>2. Runs(q) = IF q.state \in {"Trying", "Proceeding"} THEN {"E", "F"}
                  ELSE IF q.state = "Completed" THEN {"K"} ELSE {}
    BY <1>4, RunsIs
  <2>3. CASE t = "E" /\ q.state = "Trying"
    <3>1. AtMost(2 * v, Timer2) \in Nat
      BY <1>1, <2>3 DEF Doubled
    <3>2. Expire(U, t, i, q.state) = Resend(StartTimer(U, t, AtMost(2 * v, Timer2), i), i)
      BY <2>1, <2>3 DEF ClientNonInviteExpires
    <3>3. QED
      BY <1>4, <2>2, <2>3, <3>1, <3>2 DEF Outcome
  <2>4. CASE t = "E" /\ q.state = "Proceeding"
    <3>1. Expire(U, t, i, q.state) = Resend(StartTimer(U, t, Timer2, i), i)
      BY <2>1, <2>4 DEF Outcome, ClientNonInviteExpires
    <3>2. QED
      BY <1>2, <1>4, <2>2, <2>4, <3>1 DEF Outcome
  <2>5. CASE (t = "F" /\ q.state \in {"Trying", "Proceeding"}) \/ (t = "K" /\ q.state = "Completed")
    BY <2>1, <2>5 DEF Outcome, ClientNonInviteExpires
  <2>6. CASE /\ ~(t = "E" /\ q.state \in {"Trying", "Proceeding"})
             /\ ~((t = "F" /\ q.state \in {"Trying", "Proceeding"}) \/ (t = "K" /\ q.state = "Completed"))
    BY <2>1, <2>2, <2>6 DEF Outcome, ClientNonInviteExpires
  <2>7. QED
    BY <2>3, <2>4, <2>5, <2>6
<1>5. CASE k = "SI"
  <2>1. t \in {"G", "H", "I"} /\ Expire(U, t, i, q.state) = ServerInviteExpires(U, t, i, q.state)
    BY <1>5, TimersAre DEF Expire
  <2>2. Runs(q) = IF q.state = "Completed" THEN {"G", "H"}
                  ELSE IF q.state = "Confirmed" THEN {"I"} ELSE {}
    BY <1>5, RunsServerInvite
  <2>3. CASE t = "G" /\ q.state = "Completed"
    <3>1. AtMost(2 * v, Timer2) \in Nat
      BY <1>1, <2>3 DEF Doubled
    <3>2. Expire(U, t, i, q.state) = Again(StartTimer(U, t, AtMost(2 * v, Timer2), i), i)
      BY <2>1, <2>3 DEF ServerInviteExpires
    <3>3. QED
      BY <1>5, <2>2, <2>3, <3>1, <3>2 DEF Outcome
  <2>4. CASE (t = "H" /\ q.state = "Completed") \/ (t = "I" /\ q.state = "Confirmed")
    BY <2>1, <2>4 DEF Outcome, ServerInviteExpires
  <2>5. CASE /\ ~(t = "G" /\ q.state = "Completed")
             /\ ~((t = "H" /\ q.state = "Completed") \/ (t = "I" /\ q.state = "Confirmed"))
    BY <2>1, <2>2, <2>5 DEF Outcome, ServerInviteExpires
  <2>6. QED
    BY <2>3, <2>4, <2>5
<1>6. CASE k = "SN"
  <2>1. t = "J" /\ Expire(U, t, i, q.state) = ServerNonInviteExpires(U, i, q.state)
    BY <1>6, TimersAre DEF Expire
  <2>2. Runs(q) = IF q.state = "Completed" THEN {"J"} ELSE {}
    BY <1>6, RunsServerNonInvite
  <2>3. QED
    BY <2>1, <2>2 DEF Outcome, ServerNonInviteExpires
<1>7. QED
  BY <1>3, <1>4, <1>5, <1>6, TimersAre

(* A timer that goes off starts again, or ends its transaction, which    *)
(* stops the others.                                                     *)
LEMMA ExpireSettled ==
  ASSUME NEW O, NEW M, O \subseteq Nat, NEW U, NEW k \in Kinds, NEW i \in O, i \in OfKind(U, k),
         NEW W, NEW a, TransactionOK(W, a, i, U.transactions[i]), NEW t \in Timers[k],
         Unsettled(O, M, U, k, i, Runs(U.transactions[i]) \ {t}),
         k \in U.shared \/ t \in Runs(U.transactions[i]),
         k = "CI" /\ t = "A" /\ Rings(U.transactions[i]) => k \in U.shared \/ RingsIn(U, i, 0)
  PROVE  Settled(O, M, Expire(U, t, i, U.transactions[i].state))
<1> DEFINE q == U.transactions[i]
           R == Runs(q) \ {t}
           V == Expire(U, t, i, q.state)
<1>1. q.kind = k /\ \A u \in Doubled : U.value[u] \in Nat
  BY DEF OfKind, Unsettled, ClockOK
<1> HIDE DEF q
<1>2. \/ \E ticks \in Nat : /\ t \in Runs(q) /\ k # "CI"
                           /\ \/ V = Resend(StartTimer(U, t, ticks, i), i)
                              \/ V = Again(StartTimer(U, t, ticks, i), i)
      \/ t = "A" /\ Rings(q) /\ V = Resend(StartTimer(U, "A", 2 * U.value["A"], i), i)
      \/ V = Clear(U, i)
      \/ V = U /\ t \notin Runs(q)
  <2> HIDE DEF R
  <2>1. \/ \E ticks \in Nat : /\ t \in Runs(q) /\ k # "CI"
                              /\ \/ V = Resend(StartTimer(U, t, ticks, i), i)
                                 \/ V = Again(StartTimer(U, t, ticks, i), i)
        \/ Repeated(U, t, i, q)
        \/ V = Clear(U, i)
        \/ V = U /\ t \notin Runs(q)
    <3>1. Outcome(U, t, k, i, q)
      BY <1>1, ExpireIs
    <3>2. QED
      BY <3>1 DEF Outcome
  <2>2. Repeated(U, t, i, q) =>
          t = "A" /\ Rings(q) /\ V = Resend(StartTimer(U, "A", 2 * U.value["A"], i), i)
    BY DEF Repeated
  <2> HIDE DEF V
  <2>3. QED
    BY <2>1, <2>2
<1> HIDE DEF V
<1> USE DEF q
<1>3. ASSUME NEW ticks \in Nat, t \in Runs(q), k # "CI",
             \/ V = Resend(StartTimer(U, t, ticks, i), i)
             \/ V = Again(StartTimer(U, t, ticks, i), i)
      PROVE  Settled(O, M, V)
  <2>1. /\ Settled(O, M, StartTimer(U, t, ticks, i))
        /\ Settled(O, M, Resend(StartTimer(U, t, ticks, i), i))
    BY <1>3, RestartSettled
  <2>2. Settled(O, M, Again(StartTimer(U, t, ticks, i), i))
    BY <2>1, AgainSettled
  <2>3. QED
    BY <1>3, <2>1, <2>2
<1>4. ASSUME V = Clear(U, i) PROVE Settled(O, M, V)
  <2> HIDE DEF R, q
  <2>1. Unsettled(O, M, U, k, i, R)
    BY DEF R, q
  <2>2. QED
    BY <1>4, <2>1, ClearSettled
<1>5. ASSUME V = U, t \notin Runs(q) PROVE Settled(O, M, V)
  BY <1>5, CloseOfKind
<1>6. ASSUME t = "A", Rings(q), V = Resend(StartTimer(U, "A", 2 * U.value["A"], i), i)
      PROVE  Settled(O, M, V)
  <2>1. k = "CI"
    BY <1>1, <1>6 DEF Rings
  <2>2. QED
    BY <1>6, <2>1, RepeatSettled
<1>7. QED
  BY <1>2, <1>3, <1>4, <1>5, <1>6 DEF V

-----------------------------------------------------------------------------
(* The threads of an agent                                               *)

(* What goes on at an agent may be told otherwise, as long as it starts  *)
(* the same timers.                                                      *)
LEMMA OtherWorks ==
  ASSUME NEW O, NEW M, NEW U, Settled(O, M, U), NEW L, L.starts = M.starts, WorksOK(O, L, U)
  PROVE  Settled(O, L, U)
<1>1. ClockOK(O, L, U)
  BY DEF Settled, ClockOK
<1>2. ASSUME NEW k \in Kinds \ U.shared PROVE Follows(L, U, k)
  <2>1. StartsOf(L, k) = StartsOf(M, k)
    BY DEF StartsOf
  <2>2. QED
    BY <2>1 DEF Settled, Follows
<1>3. QED
  BY <1>1, <1>2 DEF Settled

LEMMA FewerCalls ==
  ASSUME NEW O, NEW M, NEW U, Settled(O, M, U), NEW L, L.starts = M.starts, L.calls \subseteq M.calls
  PROVE  Settled(O, L, U)
<1>1. WorksOK(O, L, U)
  BY DEF Settled, ClockOK, WorksOK
<1>2. QED
  BY <1>1, OtherWorks

(* Marking a kind moves no timer of it, nor of another.                  *)
LEMMA MarkKeeps ==
  ASSUME NEW O, NEW M, NEW U, ClockOK(O, M, U), NEW I
  PROVE  ClockOK(O, M, Mark(U, I)) /\ \A k : Keeps(Mark(U, I), U, k)
<1> DEFINE V == Mark(U, I)
<1>1. /\ Shape(V) /\ V.transactions = U.transactions /\ V.alarm = U.alarm
      /\ V.forgotten = U.forgotten /\ V.value = U.value /\ U.shared \subseteq V.shared
  BY MarkFields DEF ClockOK
<1> HIDE DEF V
<1>2. Descends(O, V, U)
  BY <1>1 DEF Descends
<1>3. WorksOK(O, M, V)
  BY <1>2, WorksGoOn DEF ClockOK
<1>4. ClockOK(O, M, V)
  BY <1>1, <1>3 DEF ClockOK
<1>5. \A k : Keeps(V, U, k)
  BY <1>1 DEF Keeps, OfKind
<1>6. QED
  BY <1>4, <1>5 DEF V

LEMMA MarkSettled ==
  ASSUME NEW O, NEW M, NEW U, Settled(O, M, U), NEW I
  PROVE  Settled(O, M, Mark(U, I))
<1> DEFINE V == Mark(U, I)
<1>1. ClockOK(O, M, U) /\ ClockOK(O, M, V) /\ \A k : Keeps(V, U, k)
  BY MarkKeeps DEF Settled
<1>2. U.shared \subseteq V.shared
  BY <1>1, MarkFields DEF ClockOK
<1> HIDE DEF V
<1>3. ASSUME NEW k \in Kinds \ V.shared PROVE Follows(M, V, k)
  <2>1. Follows(M, U, k)
    BY <1>2 DEF Settled
  <2>2. QED
    BY <1>1, <2>1, FollowsKept
<1>4. QED
  BY <1>1, <1>3 DEF Settled, V

(* The kind of i is marked: of its timers nothing more is said.          *)
LEMMA MarkUnsettled ==
  ASSUME NEW O, NEW M, NEW U, NEW k, NEW i \in OfKind(U, k), NEW R, Unsettled(O, M, U, k, i, R)
  PROVE  Settled(O, M, Mark(U, {i}))
<1> DEFINE V == Mark(U, {i})
<1>1. ClockOK(O, M, V) /\ \A j : Keeps(V, U, j)
  BY MarkKeeps DEF Unsettled
<1>2. V.shared = U.shared \cup {U.transactions[j].kind : j \in {i}}
  BY UnsettledShape, MarkFields
<1>3. U.transactions[i].kind = k
  BY DEF OfKind
<1> HIDE DEF V
<1>4. ASSUME NEW j \in Kinds \ V.shared PROVE Follows(M, V, j)
  <2>1. j \in Kinds \ (U.shared \cup {k})
    BY <1>2, <1>3
  <2>2. Follows(M, U, j)
    BY <2>1 DEF Unsettled
  <2>3. QED
    BY <1>1, <2>2, FollowsKept
<1>5. QED
  BY <1>1, <1>4 DEF Settled, V

(* The timers of a marked kind are any.                                  *)
LEMMA SharedUnsettled ==
  ASSUME NEW O, NEW M, NEW U, Settled(O, M, U), NEW k \in U.shared, NEW i, NEW R
  PROVE  Unsettled(O, M, U, k, i, R)
BY DEF Settled, Unsettled

(* The transaction of a kind whose first timers are not all started is   *)
(* the only one.                                                         *)
LEMMA OneStarts ==
  ASSUME NEW O, NEW M, NEW U, Settled(O, M, U), NEW k \in Kinds \ U.shared, NEW j \in StartsOf(M, k)
  PROVE  /\ StartsOf(M, k) = {j} /\ Opens(j, U, k)
         /\ OfKind(U, k) = {j.owner}
<1>1. StartsOf(M, k) = {j} /\ Opens(j, U, k)
  BY DEF Settled, Follows
<1>2. j.owner \in OfKind(U, k) /\ OfKind(U, k) \subseteq {j.owner}
  BY <1>1 DEF Opens, Holds
<1>3. QED
  BY <1>1, <1>2

(* receiveMessageThread() marks the transactions I that it meets there:  *)
(* of the others nobody is starting a timer.                             *)
LEMMA MarkedFree ==
  ASSUME NEW O, NEW M, NEW U, Settled(O, M, U), NEW I
  PROVE  LET V == Mark(U, I \cap {j.owner : j \in M.starts})
         IN Settled(O, M, V) /\ Free(M, V, I)
<1> DEFINE J == I \cap {j.owner : j \in M.starts}
           V == Mark(U, J)
<1>1. Settled(O, M, V)
  BY MarkSettled
<1>2. V.transactions = U.transactions /\ V.shared = U.shared \cup {U.transactions[i].kind : i \in J}
  BY SettledShape, MarkFields
<1> HIDE DEF V, J
<1>3. ASSUME NEW k \in Kinds \ V.shared, I \cap OfKind(V, k) # {}, StartsOf(M, k) # {}
      PROVE  FALSE
  <2>1. PICK j \in StartsOf(M, k) : TRUE
    BY <1>3
  <2>2. PICK i \in I : i \in OfKind(U, k)
    BY <1>2, <1>3 DEF OfKind
  <2>3. i = j.owner
    BY <1>2, <2>1, <2>2, OneStarts
  <2>4. i \in J
    BY <2>1, <2>2, <2>3 DEF J, StartsOf
  <2>5. U.transactions[i].kind = k
    BY <2>2 DEF OfKind
  <2>6. k \in V.shared
    BY <1>2, <2>4, <2>5
  <2>7. QED
    BY <2>6
<1>4. Free(M, V, I)
  BY <1>3 DEF Free
<1>5. QED
  BY <1>1, <1>4 DEF V, J

(* An alarm that goes off calls none of them either: the timers that have*)
(* just started are not due.                                             *)
LEMMA DueFree ==
  ASSUME NEW O, NEW M, NEW U, Settled(O, M, U), NEW e \in Alarms(U), e.left = 0
  PROVE  Free(M, U, {e.owner})
<1>1. ASSUME NEW k \in Kinds \ U.shared, {e.owner} \cap OfKind(U, k) # {}, StartsOf(M, k) # {}
      PROVE  FALSE
  <2>1. PICK j \in StartsOf(M, k) : TRUE
    BY <1>1
  <2>2. Opens(j, U, k) /\ OfKind(U, k) = {j.owner}
    BY <2>1, OneStarts
  <2>3. e.owner = j.owner /\ e.owner \in DOMAIN U.transactions /\ U.transactions[e.owner].kind = k
    BY <1>1, <2>2 DEF OfKind
  <2>4. ClockOK(O, M, U) /\ DOMAIN U.alarm = AllTimers
    BY DEF Settled, ClockOK
  <2>5. ASSUME e \notin U.forgotten
        PROVE  /\ e.timer \in AllTimers /\ U.alarm[e.timer] # Null
               /\ U.alarm[e.timer].owner = e.owner /\ U.alarm[e.timer].left = 0
    BY <2>4, <2>5 DEF Alarms, Set
  <2>6. e.timer \in Timers[k]
    BY <2>3, <2>4, <2>5 DEF ClockOK
  <2>7. Timer1 # 0
    BY TimerAssumption
  <2>8. \/ Holds(U, k, j.owner, {})
        \/ Holds(U, k, j.owner, {"A"}) /\ U.alarm["A"].left = Timer1
        \/ Holds(U, k, j.owner, {"E"}) /\ U.alarm["E"].left = Timer1
    BY <2>2 DEF Opens
  <2>9. QED
    BY <2>5, <2>6, <2>7, <2>8 DEF Holds
<1>2. QED
  BY <1>1 DEF Free

(* A callback that meets the receiving thread goes on with what it has   *)
(* found: its kind is marked.                                            *)
CallOf(U, e) == [timer |-> e.timer, owner |-> e.owner, state |-> U.transactions[e.owner].state]

LEMMA MeetSettled ==
  ASSUME NEW O, NEW M, NEW U, Settled(O, M, U), NEW e \in Alarms(U), e.left = 0,
         e.owner \in DOMAIN U.transactions, e.owner \in O, U.transactions[e.owner].kind \in Kinds,
         U.transactions[e.owner].state \in States,
         NEW L, L.starts = M.starts, L.calls = {CallOf(U, e)}
  PROVE  Settled(O, L, Mark(Quiet(U, e), {e.owner}))
<1> DEFINE i == e.owner
           k == U.transactions[i].kind
           Q == Quiet(U, e)
           V == Mark(Q, {i})
           c == CallOf(U, e)
<1>1. Free(M, U, {i})
  BY DueFree
<1>2. e.timer \in Timers[k] /\ e.timer \in AllTimers
  BY <1>1, AlarmOfOwner, KindsApart
<1>3. Unsettled(O, M, Q, k, i, Runs(U.transactions[i]) \ {e.timer})
  BY <1>1, QuietUnsettled
<1>4. Shape(Q) /\ Q.transactions = U.transactions
  BY SettledShape, QuietFields
<1>5. c \in [timer : AllTimers, owner : O, state : States] /\ c.owner = i /\ c.timer = e.timer
  BY <1>2 DEF CallOf
<1> HIDE DEF Q, c
<1>6. i \in OfKind(Q, k)
  BY <1>4 DEF OfKind
<1>7. Settled(O, M, V)
  BY <1>3, <1>6, MarkUnsettled
<1>8. /\ V.transactions = U.transactions
      /\ V.shared = Q.shared \cup {Q.transactions[j].kind : j \in {i}}
  BY <1>4, MarkFields
<1> HIDE DEF V
<1>9. k \in V.shared
  BY <1>4, <1>8
<1>10. WorksOK(O, L, V)
  BY <1>2, <1>5, <1>7, <1>8, <1>9 DEF WorksOK, Settled, ClockOK, c
<1>11. Settled(O, L, V)
  BY <1>7, <1>10, OtherWorks
<1>12. QED
  BY <1>11 DEF V, Q

(* ... and whatever it does then, in whatever state it has found the     *)
(* transaction, the other kinds keep their timers.                       *)
LEMMA RingSettled ==
  ASSUME NEW O, NEW M, O \subseteq Nat, NEW U, Settled(O, M, U), NEW k \in Kinds, k \in U.shared,
         NEW i \in O, i \in OfKind(U, k), NEW W, NEW a, TransactionOK(W, a, i, U.transactions[i]),
         NEW t \in Timers[k], NEW s
  PROVE  Settled(O, M, Expire(U, t, i, s))
<1> DEFINE q == [kind |-> k, state |-> s]
           V == Expire(U, t, i, s)
           none == {}
<1>1. q.kind = k /\ q.state = s /\ (\A u \in Doubled : U.value[u] \in Nat)
  BY DEF Settled, ClockOK
<1> HIDE DEF q, none
<1>2. Outcome(U, t, k, i, q)
  BY <1>1, ExpireIs
<1>3. Unsettled(O, M, U, k, i, none)
  BY SharedUnsettled
<1>4. ASSUME NEW ticks \in Nat
      PROVE  /\ Settled(O, M, StartTimer(U, t, ticks, i))
             /\ Settled(O, M, Resend(StartTimer(U, t, ticks, i), i))
  <2> DEFINE S == StartTimer(U, t, ticks, i)
             T == Resend(S, i)
             n == Tried(S.transactions[i])
  <2>1. Unsettled(O, M, S, k, i, Besides(none, t))
    BY <1>3, StartTimerUnsettled DEF none
  <2>2. S.transactions = U.transactions /\ S.shared = U.shared
    BY SettledShape, StartTimerFields
  <2> HIDE DEF S
  <2>3. i \in OfKind(S, k) /\ k \in S.shared /\ n.kind = k
    BY <2>2, TriedIs DEF OfKind
  <2>4. Settled(O, M, S)
    BY <2>1, <2>3, CloseOfKind
  <2> HIDE DEF n
  <2>5. Unsettled(O, M, T, k, i, Besides(none, t)) /\ i \in OfKind(T, k) /\ T.shared = S.shared
    BY <2>1, <2>3, ResendUnsettled DEF n
  <2> HIDE DEF T
  <2>6. Settled(O, M, T)
    BY <2>3, <2>5, CloseOfKind
  <2>7. QED
    BY <2>4, <2>6 DEF T, S
<1>5. \A ticks \in Nat : Settled(O, M, Again(StartTimer(U, t, ticks, i), i))
  BY <1>4, AgainSettled
<1>6. Settled(O, M, Clear(U, i))
  BY <1>3, ClearSettled
<1>7. ASSUME Repeated(U, t, i, q) PROVE Settled(O, M, V)
  <2>1. t = "A" /\ V = Resend(StartTimer(U, "A", 2 * U.value["A"], i), i)
    BY <1>1, <1>7 DEF Repeated
  <2>2. U.value["A"] \in Nat
    BY <1>1 DEF Doubled
  <2>3. 2 * U.value["A"] \in Nat
    BY <2>2
  <2>4. QED
    BY <1>4, <2>1, <2>3
<1> HIDE DEF V
<1>8. QED
  BY <1>1, <1>2, <1>4, <1>5, <1>6, <1>7 DEF Outcome, V

(* The application starts the timers of its request, one by one.         *)

(* What is left of the transaction's first timers, but for the next.     *)
Rest(j) == IF Len(j.timers) = 1 THEN {} ELSE {[j EXCEPT !.timers = Tail(j.timers)]}

LEMMA RestIs ==
  ASSUME NEW O, NEW j \in Starters(O)
  PROVE  /\ j.timers = <<"A", "B">> => Head(j.timers) = "A" /\ KindOf(j) = "CI"
                                       /\ Rest(j) = {[owner |-> j.owner, timers |-> <<"B">>]}
         /\ j.timers = <<"B">> => Head(j.timers) = "B" /\ KindOf(j) = "CI" /\ Rest(j) = {}
         /\ j.timers = <<"E", "F">> => Head(j.timers) = "E" /\ KindOf(j) = "CN"
                                       /\ Rest(j) = {[owner |-> j.owner, timers |-> <<"F">>]}
         /\ j.timers = <<"F">> => Head(j.timers) = "F" /\ KindOf(j) = "CN" /\ Rest(j) = {}
<1>1. j = [owner |-> j.owner, timers |-> j.timers]
  BY DEF Starters
<1>2. /\ Len(<<"A", "B">>) = 2 /\ Tail(<<"A", "B">>) = <<"B">> /\ Len(<<"B">>) = 1
      /\ Len(<<"E", "F">>) = 2 /\ Tail(<<"E", "F">>) = <<"F">> /\ Len(<<"F">>) = 1
      /\ Head(<<"A", "B">>) = "A" /\ Head(<<"B">>) = "B"
      /\ Head(<<"E", "F">>) = "E" /\ Head(<<"F">>) = "F"
  OBVIOUS
<1>3. /\ <<"E", "F">> \notin {<<"A", "B">>, <<"B">>}
      /\ <<"F">> \notin {<<"A", "B">>, <<"B">>}
  OBVIOUS
<1>4. \A x : [j EXCEPT !.timers = x] = [owner |-> j.owner, timers |-> x]
  BY <1>1
<1>5. KindOf(j) = IF j.timers \in {<<"A", "B">>, <<"B">>} THEN "CI" ELSE "CN"
  BY DEF KindOf
<1>6. ASSUME j.timers = <<"A", "B">>
      PROVE  Rest(j) = {[owner |-> j.owner, timers |-> <<"B">>]} /\ KindOf(j) = "CI"
  <2>1. Len(j.timers) = 2 /\ Tail(j.timers) = <<"B">>
    BY <1>6
  <2>2. Len(j.timers) # 1 /\ [j EXCEPT !.timers = Tail(j.timers)] = [owner |-> j.owner, timers |-> <<"B">>]
    <3> DEFINE x == Tail(j.timers)
    <3>1. [j EXCEPT !.timers = x] = [owner |-> j.owner, timers |-> x]
      BY <1>4
    <3>2. x = <<"B">>
      BY <2>1
    <3> HIDE DEF x
    <3>3. [j EXCEPT !.timers = x] = [owner |-> j.owner, timers |-> <<"B">>]
      BY <3>1, <3>2
    <3>4. QED
      BY <2>1, <3>3 DEF x
  <2>3. KindOf(j) = "CI"
    BY <1>5, <1>6
  <2>4. QED
    BY <2>2, <2>3 DEF Rest
<1>7. ASSUME j.timers = <<"B">> PROVE Rest(j) = {} /\ KindOf(j) = "CI"
  <2>1. Len(j.timers) = 1
    BY <1>7
  <2>2. KindOf(j) = "CI"
    BY <1>5, <1>7
  <2>3. QED
    BY <2>1, <2>2 DEF Rest
<1>8. ASSUME j.timers = <<"E", "F">>
      PROVE  Rest(j) = {[owner |-> j.owner, timers |-> <<"F">>]} /\ KindOf(j) = "CN"
  <2>1. Len(j.timers) = 2 /\ Tail(j.timers) = <<"F">>
    BY <1>8
  <2>2. Len(j.timers) # 1 /\ [j EXCEPT !.timers = Tail(j.timers)] = [owner |-> j.owner, timers |-> <<"F">>]
    <3> DEFINE x == Tail(j.timers)
    <3>1. [j EXCEPT !.timers = x] = [owner |-> j.owner, timers |-> x]
      BY <1>4
    <3>2. x = <<"F">>
      BY <2>1
    <3> HIDE DEF x
    <3>3. [j EXCEPT !.timers = x] = [owner |-> j.owner, timers |-> <<"F">>]
      BY <3>1, <3>2
    <3>4. QED
      BY <2>1, <3>3 DEF x
  <2>3. KindOf(j) = "CN"
    BY <1>3, <1>5, <1>8
  <2>4. QED
    BY <2>2, <2>3 DEF Rest
<1>9. ASSUME j.timers = <<"F">> PROVE Rest(j) = {} /\ KindOf(j) = "CN"
  <2>1. Len(j.timers) = 1
    BY <1>9
  <2>2. KindOf(j) = "CN"
    BY <1>3, <1>5, <1>9
  <2>3. QED
    BY <2>1, <2>2 DEF Rest
<1>10. QED
  BY <1>2, <1>6, <1>7, <1>8, <1>9

(* The next timer and how long it runs.                                  *)
Ticks(t) == IF t \in Doubled THEN Timer1 ELSE Timeout

LEMMA HeadOfKind ==
  ASSUME NEW O, NEW j \in Starters(O)
  PROVE  /\ KindOf(j) \in Kinds /\ Head(j.timers) \in Timers[KindOf(j)]
         /\ Head(j.timers) \in AllTimers /\ Ticks(Head(j.timers)) \in Nat
         /\ \A r \in Rest(j) : r \in Starters(O) /\ r.owner = j.owner /\ KindOf(r) = KindOf(j)
<1>1. j.timers \in {<<"A", "B">>, <<"B">>, <<"E", "F">>, <<"F">>} /\ j.owner \in O
  BY DEF Starters
<1>2. \A t : Ticks(t) \in Nat
  BY TimerAssumption DEF Ticks
<1>3. \A r \in Rest(j) : /\ r.owner = j.owner /\ r = [owner |-> j.owner, timers |-> r.timers]
                         /\ \/ r.timers = <<"B">> /\ KindOf(j) = "CI"
                            \/ r.timers = <<"F">> /\ KindOf(j) = "CN"
  BY <1>1, RestIs
<1>4. \A r \in Rest(j) : r \in Starters(O) /\ KindOf(r) = KindOf(j)
  <2>1. <<"B">> # <<"F">> /\ <<"A", "B">> # <<"F">>
    OBVIOUS
  <2>2. QED
    BY <1>1, <1>3, <2>1 DEF Starters, KindOf
<1>5. KindOf(j) \in Kinds /\ Head(j.timers) \in Timers[KindOf(j)]
  BY <1>1, RestIs, TimersAre
<1>6. QED
  BY <1>2, <1>3, <1>4, <1>5, KindsApart

LEMMA StartFirstIs ==
  ASSUME NEW U, NEW t, NEW id
  PROVE  StartFirst(U, t, id) = StartTimer(U, t, Ticks(t), id)
BY DEF StartFirst, Ticks

(* Timer E starts with its value.                                        *)
LEMMA StartedE ==
  ASSUME NEW O, NEW M, NEW U, ClockOK(O, M, U), NEW i, NEW x
  PROVE  StartTimer(U, "E", x, i).alarm["E"].left = x
<1>1. Shape(U) /\ DOMAIN U.alarm = AllTimers /\ "E" \in AllTimers
  BY TimersAre DEF ClockOK
<1>2. StartTimer(U, "E", x, i).alarm = Armed(U.alarm, "E", i, x)
  BY <1>1, StartTimerFields
<1>3. QED
  BY <1>1, <1>2 DEF Armed

(* The first of them is followed by the second, ...                      *)
LEMMA FirstStarts ==
  ASSUME NEW O, O \subseteq Nat, NEW M, NEW U, ClockOK(O, M, U), NEW j \in Starters(O), NEW k,
         k = KindOf(j), Opens(j, U, k), j.timers \in {<<"A", "B">>, <<"E", "F">>}
  PROVE  \E r : Rest(j) = {r} /\ Opens(r, StartFirst(U, Head(j.timers), j.owner), k)
<1> DEFINE i == j.owner
           t == Head(j.timers)
           V == StartTimer(U, t, Ticks(t), i)
           none == {}
<1>1. k \in Kinds /\ t \in Timers[k] /\ Ticks(t) \in Nat /\ i \in O
  BY HeadOfKind DEF Starters
<1>2. V.transactions = U.transactions
  BY StartTimerFields DEF ClockOK
<1>3. Holds(U, k, i, none) /\ i \in OfKind(U, k)
  BY RestIs DEF Opens
<1>4. Holds(V, k, i, Besides(none, t))
  BY <1>1, <1>3, StartTimerHolds
<1>5. CASE j.timers = <<"A", "B">>
  <2> DEFINE r == [owner |-> i, timers |-> <<"B">>]
  <2>1. t = "A" /\ k = "CI" /\ Rest(j) = {r} /\ Ticks("A") = Timer1
    BY <1>5, RestIs DEF Ticks, Doubled
  <2>2. V.value["A"] = Timer1 /\ V.alarm["A"].left = Timer1
    BY <2>1, StartedA
  <2>3. U.transactions[i].state = "Calling" /\ U.transactions[i].tries = 1
    BY <2>1 DEF Opens
  <2>4. Besides(none, t) = {"A"} /\ r.owner = i /\ r.timers = <<"B">>
    BY <2>1 DEF Besides
  <2> HIDE DEF V, r, none, t
  <2>5. i \in OfKind(V, k)
    BY <1>2, <1>3 DEF OfKind
  <2>6. Opens(r, V, k)
    BY <1>2, <1>4, <2>1, <2>2, <2>3, <2>4, <2>5 DEF Opens
  <2>7. QED
    BY <2>1, <2>6, StartFirstIs DEF V, t
<1>6. CASE j.timers = <<"E", "F">>
  <2> DEFINE r == [owner |-> i, timers |-> <<"F">>]
  <2>1. t = "E" /\ k = "CN" /\ Rest(j) = {r} /\ Ticks("E") = Timer1
    BY <1>6, RestIs DEF Ticks, Doubled
  <2>2. V.alarm["E"].left = Timer1
    BY <2>1, StartedE
  <2>3. U.transactions[i].state = "Trying"
    BY <2>1 DEF Opens
  <2>4. Besides(none, t) = {"E"} /\ r.owner = i /\ r.timers = <<"F">>
    BY <2>1 DEF Besides
  <2> HIDE DEF V, r, none, t
  <2>5. i \in OfKind(V, k)
    BY <1>2, <1>3 DEF OfKind
  <2>6. Opens(r, V, k)
    BY <1>2, <1>4, <2>1, <2>2, <2>3, <2>4, <2>5 DEF Opens
  <2>7. QED
    BY <2>1, <2>6, StartFirstIs DEF V, t
<1>7. QED
  BY <1>5, <1>6

(* ... with which the timers are those of the state.                     *)
LEMMA SecondStarts ==
  ASSUME NEW O, O \subseteq Nat, NEW M, NEW U, ClockOK(O, M, U), NEW j \in Starters(O), NEW k,
         k = KindOf(j), Opens(j, U, k), j.timers \in {<<"B">>, <<"F">>}
  PROVE  Rest(j) = {} /\ Complete(StartFirst(U, Head(j.timers), j.owner), k)
<1> DEFINE i == j.owner
           t == Head(j.timers)
           V == StartTimer(U, t, Ticks(t), i)
           first == IF k = "CI" THEN {"A"} ELSE {"E"}
<1>1. k \in Kinds /\ t \in Timers[k] /\ Ticks(t) \in Nat /\ i \in O
  BY HeadOfKind DEF Starters
<1>2. V.transactions = U.transactions /\ DOMAIN U.alarm = AllTimers /\ Shape(U)
  BY StartTimerFields DEF ClockOK
<1>3. Rest(j) = {}
  BY RestIs
<1>4. \/ j.timers = <<"B">> /\ t = "B" /\ k = "CI" /\ Ticks(t) = Timeout
      \/ j.timers = <<"F">> /\ t = "F" /\ k = "CN"
  BY RestIs DEF Ticks, Doubled
<1>5. <<"B">> # <<"A", "B">> /\ <<"F">> # <<"E", "F">>
  <2>1. Len(<<"B">>) = 1 /\ Len(<<"A", "B">>) = 2 /\ Len(<<"F">>) = 1 /\ Len(<<"E", "F">>) = 2
    OBVIOUS
  <2>2. QED
    BY <2>1
<1>6. Holds(U, k, i, first) /\ i \in OfKind(U, k) /\ U.transactions[i].kind = k
  BY <1>4, <1>5 DEF Opens, OfKind
<1>7. Holds(V, k, i, Besides(first, t))
  BY <1>1, <1>4, <1>6, StartTimerHolds
<1>8. Besides(first, t) = Runs(U.transactions[i])
  BY <1>4, <1>6, RunsIs DEF Opens, Besides
<1>9. OnTime(V, i)
  <2>1. CASE k = "CI"
    <3>1. t = "B" /\ Ticks(t) = Timeout /\ j.timers = <<"B">>
      BY <1>4, <2>1
    <3>2. U.alarm["A"].left = Timer1 /\ U.value["A"] = Timer1 /\ U.transactions[i].tries = 1
      BY <1>5, <2>1, <3>1 DEF Opens
    <3>3. V.value = U.value /\ V.alarm["A"] = U.alarm["A"] /\ V.alarm["B"].left = Timeout
      BY <1>2, <3>1, StartedB
    <3> HIDE DEF V
    <3>4. RingsIn(V, i, V.alarm["A"].left)
      BY <1>2, <3>2, <3>3, FirstBeat DEF RingsIn
    <3>5. QED
      BY <3>4 DEF OnTime
  <2>2. CASE k # "CI"
    BY <1>2, <1>6, <2>2, Unhurried
  <2>3. QED
    BY <2>1, <2>2
<1> HIDE DEF V, first, t
<1>10. OfKind(V, k) = OfKind(U, k) /\ Due(V, k, i) = Runs(U.transactions[i])
  BY <1>2, <1>6 DEF OfKind, Due
<1>11. Paced(V, k)
  BY <1>6, <1>9, <1>10 DEF Paced, Holds
<1>12. Complete(V, k)
  BY <1>7, <1>8, <1>10, <1>11 DEF Complete
<1>13. QED
  BY <1>3, <1>12, StartFirstIs DEF V, t

LEMMA StartSettled ==
  ASSUME NEW O, O \subseteq Nat, NEW M, NEW U, Settled(O, M, U), NEW j \in M.starts,
         NEW L, L.calls = M.calls, L.starts = (M.starts \ {j}) \cup Rest(j)
  PROVE  Settled(O, L, StartFirst(U, Head(j.timers), j.owner))
<1> DEFINE i == j.owner
           t == Head(j.timers)
           k == KindOf(j)
           V == StartFirst(U, t, i)
<1>1. ClockOK(O, M, U) /\ Shape(U) /\ j \in Starters(O)
      /\ (i \in DOMAIN U.transactions => U.transactions[i].kind = k)
  BY DEF Settled, ClockOK, WorksOK
<1>2. /\ k \in Kinds /\ t \in Timers[k] /\ t \in AllTimers /\ Ticks(t) \in Nat /\ i \in O
      /\ \A r \in Rest(j) : r \in Starters(O) /\ r.owner = i /\ KindOf(r) = k
  BY <1>1, HeadOfKind DEF Starters
<1>3. V = StartTimer(U, t, Ticks(t), i)
  BY StartFirstIs
<1> HIDE DEF V, k, t
<1>4. V.transactions = U.transactions /\ V.shared = U.shared
  BY <1>1, <1>3, StartTimerFields
<1>5. ClockOK(O, M, V)
  BY <1>1, <1>2, <1>3, StartTimerClock
<1>6. WorksOK(O, L, V)
  <2>1. WorksOK(O, M, V)
    BY <1>5 DEF ClockOK
  <2>2. ASSUME NEW r \in L.starts
        PROVE  /\ r \in Starters(O)
               /\ r.owner \in DOMAIN V.transactions => V.transactions[r.owner].kind = KindOf(r)
    <3>1. CASE r \in M.starts
      BY <2>1, <3>1 DEF WorksOK
    <3>2. CASE r \in Rest(j)
      BY <1>1, <1>2, <1>4, <3>2
    <3>3. QED
      BY <3>1, <3>2
  <2>3. QED
    BY <2>1, <2>2 DEF WorksOK
<1>7. ClockOK(O, L, V)
  BY <1>5, <1>6 DEF ClockOK
<1>8. ASSUME NEW l \in Kinds \ V.shared, l # k PROVE Follows(L, V, l)
  <2>1. Keeps(V, U, l)
    BY <1>1, <1>2, <1>3, <1>8, StartTimerKeeps
  <2>2. Follows(M, V, l)
    BY <1>4, <2>1, FollowsKept DEF Settled
  <2>3. StartsOf(L, l) = StartsOf(M, l)
    BY <1>2, <1>8 DEF StartsOf, k
  <2>4. QED
    BY <2>2, <2>3 DEF Follows
<1>9. ASSUME k \notin V.shared PROVE Follows(L, V, k)
  <2>1. j \in StartsOf(M, k) /\ k \in Kinds \ U.shared
    BY <1>2, <1>4, <1>9 DEF StartsOf, k
  <2>2. StartsOf(M, k) = {j} /\ Opens(j, U, k)
    BY <2>1, OneStarts
  <2>3. StartsOf(L, k) = Rest(j)
    BY <1>2, <2>2 DEF StartsOf
  <2>4. CASE j.timers \in {<<"A", "B">>, <<"E", "F">>}
    <3>1. \E r : Rest(j) = {r} /\ Opens(r, V, k)
      BY <1>1, <2>2, <2>4, FirstStarts DEF V, t, k
    <3>2. QED
      BY <2>3, <3>1 DEF Follows
  <2>5. CASE j.timers \in {<<"B">>, <<"F">>}
    <3>1. Rest(j) = {} /\ Complete(V, k)
      BY <1>1, <2>2, <2>5, SecondStarts DEF V, t, k
    <3>2. QED
      BY <2>3, <3>1 DEF Follows
  <2>6. QED
    BY <1>1, <2>4, <2>5 DEF Starters
<1>10. QED
  BY <1>7, <1>8, <1>9 DEF Settled, V, t

(* UserAgentClient::sendRequest() up to the message: both timers are     *)
(* still to start.                                                       *)
LEMMA SendSettled ==
  ASSUME NEW O, O \subseteq Nat, NEW M, NEW U, Settled(O, M, U),
         NEW m, m.branch \notin O, m.branch \notin DOMAIN U.transactions,
         NEW L, L.calls = M.calls,
         L.starts = M.starts \cup {[owner |-> m.branch, timers |-> FirstTimers(m)]}
  PROVE  Settled(O \cup {m.branch}, L, Send(U, m))
<1> DEFINE id == m.branch
           P == O \cup {id}
           j == [owner |-> id, timers |-> FirstTimers(m)]
           k == IF m.method = "INVITE" THEN "CI" ELSE "CN"
           s == IF m.method = "INVITE" THEN "Calling" ELSE "Trying"
           B == Began(U, id, k, m, s)
           n == Tried(NewTransaction(k, s, m))
           V == Resend(B, id)
           none == {}
<1>1. k \in Kinds
  BY TimersAre
<1>2. Unsettled(P, M, B, k, id, none) /\ id \in OfKind(B, k) /\ B.transactions[id] = NewTransaction(k, s, m)
  BY <1>1, BeganUnsettled
<1>3. Send(U, m) = V
  BY SendIs DEF Opened
<1>4. n.kind = k /\ n.state = s /\ (k = "CI" => n.tries = 1)
  BY NewTried
<1>5. /\ j \in Starters(P) /\ KindOf(j) = k /\ j.owner = id
      /\ \/ k = "CI" /\ s = "Calling" /\ j.timers = <<"A", "B">>
         \/ k = "CN" /\ s = "Trying" /\ j.timers = <<"E", "F">>
  <2>1. <<"A", "B">> # <<"E", "F">> /\ <<"E", "F">> # <<"B">>
    OBVIOUS
  <2>2. QED
    BY <2>1 DEF Starters, KindOf, FirstTimers
<1> HIDE DEF B, n, none, P, j, k, s
<1>6. Unsettled(P, M, V, k, id, none) /\ id \in OfKind(V, k) /\ V.transactions[id] = n
  BY <1>2, <1>4, ResendUnsettled DEF n
<1> HIDE DEF V
<1>7. ClockOK(P, L, V)
  <2>1. ClockOK(P, M, V) /\ WorksOK(P, M, V)
    BY <1>6 DEF Unsettled, ClockOK
  <2>2. L.starts = M.starts \cup {j}
    BY DEF j
  <2>3. WorksOK(P, L, V)
    BY <1>4, <1>5, <1>6, <2>1, <2>2 DEF WorksOK
  <2>4. QED
    BY <2>1, <2>3 DEF ClockOK
<1>8. ASSUME NEW l \in Kinds \ V.shared, l # k PROVE Follows(L, V, l)
  <2>1. Follows(M, V, l)
    BY <1>6, <1>8 DEF Unsettled
  <2>2. StartsOf(L, l) = StartsOf(M, l)
    BY <1>5, <1>8 DEF StartsOf, j
  <2>3. QED
    BY <2>1, <2>2 DEF Follows
<1>9. ASSUME k \notin V.shared PROVE Follows(L, V, k)
  <2>1. StartsOf(M, k) = {} /\ Holds(V, k, id, none)
    BY <1>6, <1>9 DEF Unsettled
  <2>2. StartsOf(L, k) = {j}
    BY <1>5, <2>1 DEF StartsOf, j
  <2>3. Opens(j, V, k)
    BY <1>4, <1>5, <1>6, <2>1 DEF Opens, none
  <2>4. QED
    BY <2>2, <2>3 DEF Follows
<1>10. QED
  BY <1>3, <1>7, <1>8, <1>9 DEF Settled, P

-----------------------------------------------------------------------------
(* The network                                                           *)

(* A network of the agents A, with n names and the calls o, of which the *)
(* sessions b have begun.                                                *)
World(A, n, o, b) ==
    [agents |-> DOMAIN A, peers |-> DOMAIN A \cup {Phone}, names |-> n, origin |-> o, begun |-> b]

(* X is W with more names and sessions.                                  *)
Grows(W, X) ==
    /\ X.agents = W.agents /\ X.peers = W.peers
    /\ W.names \in Nat /\ X.names \in Nat /\ W.names <= X.names
    /\ W.begun \subseteq X.begun
    /\ \A c \in 1..W.names : X.origin[c] = W.origin[c]

(* What goes on at each agent.                                           *)
WorksOf(s, r) == [starts |-> s, calls |-> {r} \ {Null}]

Works == [b \in Agents |-> WorksOf(starting[b], ringing[b])]

AllOK(W, A, K, N) ==
    /\ \A a \in DOMAIN A : /\ AgentOK(W, a, A[a], 0) /\ Settled(1..W.names, K[a], A[a])
                           /\ A[a].out = {} /\ A[a].told = << >>
    /\ \A m \in N : MessageOK(W, m)

(* What agrees with a world agrees with a larger one.                    *)
LEMMA MessageGrows ==
  ASSUME NEW W, NEW X, Grows(W, X), NEW m, MessageOK(W, m)
  PROVE  MessageOK(X, m)
<1>1. \A c \in 1..W.names : c \in 1..X.names
  BY DEF Grows
<1>2. m \in Messages(W) /\ m.call \in 1..W.names
  BY MessageIs DEF MessageOK
<1>3. m \in Messages(X)
  BY <1>1, <1>2, MessageIs DEF Grows
<1>4. X.origin[m.call] = W.origin[m.call]
  BY <1>2 DEF Grows
<1>5. m.status # 0 => m.tag \in 1..X.names
  BY <1>1 DEF MessageOK
<1>6. m.from \in X.agents => m.from \in W.agents
  BY DEF Grows
<1>7. W.begun \subseteq X.begun
  BY DEF Grows
<1> HIDE DEF Grows
<1>8. QED
  BY <1>3, <1>4, <1>5, <1>6, <1>7 DEF MessageOK

LEMMA TransactionGrows ==
  ASSUME NEW W, NEW X, Grows(W, X), NEW a, NEW i, NEW t, TransactionOK(W, a, i, t)
  PROVE  TransactionOK(X, a, i, t)
<1>1. i \in 1..X.names
  BY DEF Grows, TransactionOK
<1>2. MessageOK(X, t.request) /\ (t.last # Null => MessageOK(X, t.last))
  BY MessageGrows DEF TransactionOK
<1>3. t.request \in Messages(X) /\ t.last \in Messages(X) \cup {Null}
  BY <1>2 DEF MessageOK
<1>4. t \in Transactions(X)
  <2>1. t \in Transactions(W)
    BY DEF TransactionOK
  <2>2. QED
    BY <1>3, <2>1 DEF Transactions
<1>5. QED
  BY <1>1, <1>2, <1>4 DEF TransactionOK

LEMMA DialogsGrow ==
  ASSUME NEW W, NEW X, Grows(W, X), NEW a
  PROVE  Dialogs(W, a) \subseteq Dialogs(X, a)
<1> SUFFICES ASSUME NEW d \in Dialogs(W, a) PROVE d \in Dialogs(X, a)
  OBVIOUS
<1>1. /\ d \in [type : Types, peer : W.peers, call : 1..W.names, tag : 1..W.names]
      /\ W.origin[d.call].type = d.type
      /\ d.type = "INVITE" /\ d.peer \in W.agents =>
           {<<a, d.call, d.tag>>, <<d.peer, d.call, d.tag>>} \cap W.begun # {}
  BY DEF Dialogs
<1>2. \A c \in 1..W.names : c \in 1..X.names
  BY DEF Grows
<1>3. d.call \in 1..W.names
  BY <1>1
<1>4. d \in [type : Types, peer : X.peers, call : 1..X.names, tag : 1..X.names]
  BY <1>1, <1>2 DEF Grows
<1>5. X.origin[d.call].type = d.type
  BY <1>1, <1>3 DEF Grows
<1>6. d.type = "INVITE" /\ d.peer \in X.agents =>
        {<<a, d.call, d.tag>>, <<d.peer, d.call, d.tag>>} \cap X.begun # {}
  BY <1>1 DEF Grows
<1>7. QED
  BY <1>4, <1>5, <1>6 DEF Dialogs

LEMMA AgentGrows ==
  ASSUME NEW W, NEW X, Grows(W, X), NEW a, NEW U, NEW x, AgentOK(W, a, U, x)
  PROVE  AgentOK(X, a, U, x)
<1>1. U.dialogs \in Seq(Dialogs(X, a))
  BY DialogsGrow DEF AgentOK
<1>2. \A i \in DOMAIN U.transactions : TransactionOK(X, a, i, U.transactions[i])
  BY TransactionGrows DEF AgentOK
<1>3. \A m \in U.out : MessageOK(X, m)
  BY MessageGrows DEF AgentOK
<1>4. QED
  BY <1>1, <1>2, <1>3 DEF AgentOK

(* A step of an agent                                                    *)

Emptied(U) == [U EXCEPT !.out = {}, !.told = << >>]

(* A step of an agent ends with its messages on their way.               *)
LEMMA EmptiedFields ==
  ASSUME NEW U, Shape(U)
  PROVE  LET V == Emptied(U)
         IN /\ Shape(V) /\ V.dialogs = U.dialogs /\ V.out = {} /\ V.told = << >>
            /\ V.alarm = U.alarm /\ V.forgotten = U.forgotten /\ V.value = U.value
            /\ V.shared = U.shared /\ V.transactions = U.transactions
BY DEF Emptied, Shape, Fields

LEMMA EmptiedOK ==
  ASSUME NEW W, NEW a, NEW U, NEW x, AgentOK(W, a, U, x)
  PROVE  AgentOK(W, a, Emptied(U), x)
<1> DEFINE V == Emptied(U)
<1>1. Shape(U)
  BY DEF AgentOK
<1>2. /\ Shape(V) /\ V.dialogs = U.dialogs /\ V.out = {} /\ V.transactions = U.transactions
  BY <1>1, EmptiedFields
<1> HIDE DEF V
<1>3. Calling(V) = Calling(U)
  BY <1>2 DEF Calling
<1>4. AgentOK(W, a, V, x)
  BY <1>2, <1>3 DEF AgentOK
<1>5. QED
  BY <1>4 DEF V

LEMMA EmptiedSettled ==
  ASSUME NEW O, NEW M, NEW U, Settled(O, M, U)
  PROVE  Settled(O, M, Emptied(U))
<1> DEFINE V == Emptied(U)
<1>1. /\ Shape(V) /\ V.alarm = U.alarm /\ V.forgotten = U.forgotten /\ V.value = U.value
      /\ V.shared = U.shared /\ V.transactions = U.transactions
  BY SettledShape, EmptiedFields
<1> HIDE DEF V
<1>2. Settled(O, M, V)
  BY <1>1, AlikeSettled
<1>3. QED
  BY <1>2 DEF V

LEMMA AllGrow ==
  ASSUME NEW W, NEW X, Grows(W, X), NEW A, NEW K, NEW N, AllOK(W, A, K, N)
  PROVE  AllOK(X, A, K, N)
<1>1. 1..W.names \subseteq 1..X.names
  BY DEF Grows
<1>2. \A a \in DOMAIN A : Settled(1..X.names, K[a], A[a])
  BY <1>1, UnsettledNames DEF AllOK
<1>3. \A a \in DOMAIN A : AgentOK(X, a, A[a], 0)
  BY AgentGrows DEF AllOK
<1>4. \A m \in N : MessageOK(X, m)
  BY MessageGrows DEF AllOK
<1>5. QED
  BY <1>2, <1>3, <1>4 DEF AllOK

LEMMA BecomesOK ==
  ASSUME NEW X, AllOK(X, ua, Works, net), NEW a \in Agents, ua = [b \in Agents |-> ua[b]],
         NEW U, AgentOK(X, a, U, 0), NEW M, Settled(1..X.names, M, U),
         NEW rest, rest \subseteq net, Becomes(a, U, rest)
  PROVE  /\ AllOK(X, ua', [Works EXCEPT ![a] = M], net')
         /\ DOMAIN ua' = DOMAIN ua /\ ua' = [b \in DOMAIN ua' |-> ua'[b]]
<1> DEFINE E == Emptied(U)
           K == [Works EXCEPT ![a] = M]
<1>1. ua' = [ua EXCEPT ![a] = E] /\ net' = rest \cup U.out
  BY DEF Becomes, Emptied
<1>2. AgentOK(X, a, E, 0) /\ Settled(1..X.names, M, E)
  BY EmptiedOK, EmptiedSettled
<1>3. E.out = {} /\ E.told = << >>
  BY EmptiedFields DEF AgentOK
<1>4. \A b \in Agents : K[b] = IF b = a THEN M ELSE Works[b]
  BY DEF Works
<1> HIDE DEF E, K
<1>5. DOMAIN ua' = DOMAIN ua /\ ua' = [b \in DOMAIN ua' |-> ua'[b]]
  BY <1>1 DEF Agents
<1>6. \A b \in DOMAIN ua' : ua'[b] = IF b = a THEN E ELSE ua[b]
  BY <1>1, <1>5 DEF Agents
<1>7. \A m \in net' : MessageOK(X, m)
  BY <1>1 DEF AllOK, AgentOK
<1>8. AllOK(X, ua', K, net')
  BY <1>2, <1>3, <1>4, <1>5, <1>6, <1>7 DEF AllOK, Agents
<1>9. QED
  BY <1>5, <1>8 DEF K

(* What the threads have begun; a message that has been matched has not  *)
(* been lost.                                                            *)
AmidOK ==
    /\ starting = [a \in Agents |-> starting[a]]
    /\ hearing = [a \in Agents |-> hearing[a]]
    /\ ringing = [a \in Agents |-> ringing[a]]
    /\ \A a \in Agents : hearing[a] # Null =>
          hearing[a].message \in net /\ hearing[a].message.to = a

(* What holds of every state: there is a history of the calls under which*)
(* the agents and the messages agree.                                    *)
SipInv ==
    /\ ua = [a \in Agents |-> ua[a]] /\ Phone \notin Agents
    /\ fresh \in Nat \ {0} /\ AmidOK
    /\ \E o : AllOK(World(ua, fresh - 1, o, accepted), ua, Works, net)

(* At agent a, and only there, something else goes on.                   *)
Moves(a, s, h, r) ==
    /\ starting' = [starting EXCEPT ![a] = s]
    /\ hearing' = [hearing EXCEPT ![a] = h]
    /\ ringing' = [ringing EXCEPT ![a] = r]

LEMMA StaysAt ==
  ASSUME AmidOK, NEW a \in Agents
  PROVE  /\ starting = [starting EXCEPT ![a] = starting[a]]
         /\ hearing = [hearing EXCEPT ![a] = hearing[a]]
         /\ ringing = [ringing EXCEPT ![a] = ringing[a]]
BY DEF AmidOK

LEMMA StaysMoves ==
  ASSUME AmidOK, NEW a \in Agents, UNCHANGED amid
  PROVE  Moves(a, starting[a], hearing[a], ringing[a])
BY StaysAt DEF Moves, amid

LEMMA MovesWorks ==
  ASSUME AmidOK, NEW a \in Agents, NEW s, NEW h, NEW r, Moves(a, s, h, r), Agents' = Agents,
         net \ net' \subseteq {m \in net : m.to = a},
         h # Null => h.message \in net' /\ h.message.to = a
  PROVE  AmidOK' /\ Works' = [Works EXCEPT ![a] = WorksOf(s, r)]
<1> DEFINE A == Agents
<1>1. /\ starting = [b \in A |-> starting[b]] /\ hearing = [b \in A |-> hearing[b]]
      /\ ringing = [b \in A |-> ringing[b]]
  BY DEF AmidOK
<1>2. /\ starting' = [starting EXCEPT ![a] = s] /\ hearing' = [hearing EXCEPT ![a] = h]
      /\ ringing' = [ringing EXCEPT ![a] = r]
  BY DEF Moves
<1>3. /\ starting' = [b \in A |-> IF b = a THEN s ELSE starting[b]]
      /\ hearing' = [b \in A |-> IF b = a THEN h ELSE hearing[b]]
      /\ ringing' = [b \in A |-> IF b = a THEN r ELSE ringing[b]]
  BY <1>1, <1>2
<1>4. /\ starting' = [b \in A |-> starting'[b]] /\ hearing' = [b \in A |-> hearing'[b]]
      /\ ringing' = [b \in A |-> ringing'[b]]
  BY <1>3
<1>5. ASSUME NEW b \in A, hearing'[b] # Null
      PROVE  hearing'[b].message \in net' /\ hearing'[b].message.to = b
  <2>1. CASE b = a
    BY <1>3, <1>5, <2>1
  <2>2. CASE b # a
    <3>1. hearing[b].message \in net /\ hearing[b].message.to = b
      BY <1>3, <1>5, <2>2 DEF AmidOK
    <3>2. QED
      BY <1>3, <2>2, <3>1
  <2>3. QED
    BY <2>1, <2>2
<1>6. AmidOK'
  BY <1>4, <1>5 DEF AmidOK
<1>7. Works' = [b \in A |-> WorksOf(starting'[b], ringing'[b])]
  BY DEF Works
<1>8. [Works EXCEPT ![a] = WorksOf(s, r)] =
        [b \in A |-> IF b = a THEN WorksOf(s, r) ELSE WorksOf(starting[b], ringing[b])]
  BY DEF Works
<1>9. \A b \in A : WorksOf(starting'[b], ringing'[b]) =
                    IF b = a THEN WorksOf(s, r) ELSE WorksOf(starting[b], ringing[b])
  BY <1>3
<1>10. Works' = [Works EXCEPT ![a] = WorksOf(s, r)]
  BY <1>7, <1>8, <1>9
<1>11. QED
  BY <1>6, <1>10

(* ... or nowhere.                                                       *)
LEMMA RestsWorks ==
  ASSUME AmidOK, UNCHANGED amid, Agents' = Agents, \A m \in net \ net' : m.to \notin Agents
  PROVE  AmidOK' /\ Works' = Works
<1>1. starting' = starting /\ hearing' = hearing /\ ringing' = ringing
  BY DEF amid
<1>2. Works' = Works
  BY <1>1 DEF Works
<1>3. \A a \in Agents : hearing'[a] # Null =>
         hearing'[a].message \in net' /\ hearing'[a].message.to = a
  BY <1>1 DEF AmidOK
<1>4. AmidOK'
  BY <1>1, <1>3 DEF AmidOK
<1>5. QED
  BY <1>2, <1>4

(* The n-th name is that of a new call.                                  *)
NewCall(o, n, type, caller, called) ==
    [c \in 1..n |-> IF c = n THEN [type |-> type, caller |-> caller, called |-> called] ELSE o[c]]

(* A request, field by field.                                            *)
LEMMA RequestIs ==
  ASSUME NEW method, NEW from, NEW to, NEW id, NEW call, NEW tag, NEW option
  PROVE  LET m == Request(method, from, to, id, call, tag, option)
         IN /\ m = [f \in MessageFields |-> m[f]]
            /\ m.method = method /\ m.status = 0 /\ m.from = from /\ m.to = to
            /\ m.branch = id /\ m.call = call /\ m.tag = tag /\ m.option = option
BY DEF Request, MessageFields

(* The first request of a call.                                          *)
LEMMA NewRequestOK ==
  ASSUME NEW W, W.names \in Nat \ {0}, NEW method \in Methods, NEW from \in W.peers,
         NEW to \in W.peers, from # to, NEW option \in RequestOptions,
         W.origin[W.names].type = DialogType(method),
         W.origin[W.names].caller = from, W.origin[W.names].called = to
  PROVE  MessageOK(W, Request(method, from, to, W.names, W.names, Null, option))
<1> DEFINE m == Request(method, from, to, W.names, W.names, Null, option)
<1>1. /\ m = [f \in MessageFields |-> m[f]]
      /\ m.method = method /\ m.status = 0 /\ m.from = from /\ m.to = to
      /\ m.branch = W.names /\ m.call = W.names /\ m.tag = Null /\ m.option = option
  BY RequestIs
<1> HIDE DEF m
<1>2. m \in Messages(W)
  BY <1>1, MessageIs
<1>3. m.status \notin 200..299
  BY <1>1
<1>4. MessageOK(W, m)
  BY <1>1, <1>2, <1>3 DEF MessageOK
<1>5. QED
  BY <1>4 DEF m

(* Larger worlds.                                                        *)
LEMMA WorldGrows ==
  ASSUME NEW A, NEW n \in Nat, NEW k \in Nat, n <= k, NEW o, NEW p, \A c \in 1..n : p[c] = o[c],
         NEW b, NEW d, b \subseteq d
  PROVE  Grows(World(A, n, o, b), World(A, k, p, d))
BY DEF Grows, World

(* The actions, one by one.                                              *)
LEMMA InvNext ==
  ASSUME SipInv, NEW p, AllOK(World(ua', fresh' - 1, p, accepted'), ua', Works', net'), AmidOK',
         DOMAIN ua' = DOMAIN ua, ua' = [b \in DOMAIN ua' |-> ua'[b]], fresh' \in Nat \ {0}
  PROVE  SipInv'
BY DEF SipInv, Agents

(* The agent a becomes U, in a world of as many names or more.           *)
LEMMA BecomesInv ==
  ASSUME SipInv, NEW o, AllOK(World(ua, fresh - 1, o, accepted), ua, Works, net),
         NEW p, \A c \in 1..(fresh - 1) : p[c] = o[c],
         fresh' \in Nat, fresh <= fresh', accepted \subseteq accepted',
         NEW a \in Agents, NEW s, NEW h, NEW r, Moves(a, s, h, r),
         NEW U, AgentOK(World(ua, fresh' - 1, p, accepted'), a, U, 0),
         Settled(1..(fresh' - 1), WorksOf(s, r), U),
         NEW rest, rest \subseteq net, Becomes(a, U, rest), \A m \in net \ rest : m.to = a,
         h # Null => h.message \in rest /\ h.message.to = a
  PROVE  SipInv'
<1> DEFINE W == World(ua, fresh - 1, o, accepted)
           X == World(ua, fresh' - 1, p, accepted')
<1>1. fresh \in Nat \ {0} /\ fresh' \in Nat \ {0} /\ ua = [b \in Agents |-> ua[b]] /\ AmidOK
  BY DEF SipInv
<1>2. Grows(W, X)
  <2>1. fresh - 1 \in Nat /\ fresh' - 1 \in Nat /\ fresh - 1 <= fresh' - 1
    BY <1>1
  <2>2. QED
    BY <2>1, WorldGrows
<1>3. X.names = fresh' - 1
  BY DEF World
<1> HIDE DEF X
<1>4. AllOK(X, ua, Works, net)
  BY <1>2, AllGrow
<1>5. AgentOK(X, a, U, 0) /\ Settled(1..X.names, WorksOf(s, r), U)
  BY <1>3 DEF X
<1>6. /\ AllOK(X, ua', [Works EXCEPT ![a] = WorksOf(s, r)], net')
      /\ DOMAIN ua' = DOMAIN ua /\ ua' = [b \in DOMAIN ua' |-> ua'[b]]
  BY <1>1, <1>4, <1>5, BecomesOK
<1>7. AmidOK' /\ Works' = [Works EXCEPT ![a] = WorksOf(s, r)]
  <2>1. Agents' = Agents
    BY <1>6 DEF Agents
  <2>2. rest \subseteq net'
    BY DEF Becomes
  <2>3. QED
    BY <1>1, <2>1, <2>2, MovesWorks
<1>8. X = World(ua', fresh' - 1, p, accepted')
  BY <1>6 DEF X, World
<1>9. AllOK(X, ua', Works', net')
  BY <1>6, <1>7
<1>10. QED
  BY <1>1, <1>6, <1>7, <1>8, <1>9, InvNext

(* What an agent is, when a history of the calls is given.               *)
LEMMA AgentsAre ==
  ASSUME SipInv, NEW o, AllOK(World(ua, fresh - 1, o, accepted), ua, Works, net), NEW a \in Agents
  PROVE  /\ AgentOK(World(ua, fresh - 1, o, accepted), a, ua[a], 0)
         /\ Settled(1..(fresh - 1), WorksOf(starting[a], ringing[a]), ua[a])
         /\ DOMAIN ua[a].transactions \subseteq 1..(fresh - 1) /\ 1..(fresh - 1) \subseteq Nat
<1> DEFINE W == World(ua, fresh - 1, o, accepted)
<1>1. W.names = fresh - 1 /\ Agents = DOMAIN ua /\ fresh \in Nat \ {0}
  BY DEF World, Agents, SipInv
<1>2. AgentOK(W, a, ua[a], 0) /\ Settled(1..(fresh - 1), Works[a], ua[a])
  BY <1>1 DEF AllOK
<1>3. Works[a] = WorksOf(starting[a], ringing[a])
  BY DEF Works
<1> HIDE DEF W
<1>4. DOMAIN ua[a].transactions \subseteq 1..(fresh - 1)
  BY <1>1, <1>2 DEF AgentOK, TransactionOK
<1>5. QED
  BY <1>1, <1>2, <1>3, <1>4 DEF W

(* An application asks for m, in a world of one name more.               *)
LEMMA AskOK ==
  ASSUME SipInv, NEW o, AllOK(World(ua, fresh - 1, o, accepted), ua, Works, net),
         NEW p, \A c \in 1..(fresh - 1) : p[c] = o[c],
         NEW a \in Agents, NEW m, MessageOK(World(ua, fresh, p, accepted), m),
         m.status = 0, m.method # "ACK", m.from = a, m.branch = fresh, Ask(a, m)
  PROVE  SipInv'
<1> DEFINE W == World(ua, fresh - 1, o, accepted)
           X == World(ua, fresh, p, accepted)
           U == Send(ua[a], m)
           O == 1..(fresh - 1)
           j == [owner |-> fresh, timers |-> FirstTimers(m)]
           M == WorksOf(starting[a], ringing[a])
           L == WorksOf(starting[a] \cup {j}, ringing[a])
<1>1. fresh \in Nat \ {0} /\ W.names = fresh - 1 /\ AmidOK
  BY DEF World, SipInv
<1>2. Grows(W, X)
  BY <1>1, WorldGrows
<1>3. /\ Becomes(a, U, net) /\ fresh' = fresh + 1 /\ accepted' = accepted
      /\ Moves(a, starting[a] \cup {j}, hearing[a], ringing[a])
  <2>1. hearing = [hearing EXCEPT ![a] = hearing[a]] /\ ringing = [ringing EXCEPT ![a] = ringing[a]]
    BY <1>1, StaysAt
  <2>2. QED
    BY <2>1 DEF Ask, Moves
<1>4. /\ AgentOK(W, a, ua[a], 0) /\ Settled(O, M, ua[a])
      /\ DOMAIN ua[a].transactions \subseteq O /\ O \subseteq Nat
  BY AgentsAre
<1>5. fresh \notin O /\ O \cup {fresh} = 1..fresh
  BY <1>1
<1> HIDE DEF W, X
<1>6. AgentOK(X, a, ua[a], 0)
  BY <1>2, <1>4, AgentGrows
<1>7. \A k \in DOMAIN ua[a].dialogs : ua[a].dialogs[k].call # fresh
  <2>1. ua[a].dialogs \in Seq(Dialogs(W, a))
    BY <1>4 DEF AgentOK
  <2>2. \A d \in Dialogs(W, a) : d.call \in 1..(fresh - 1)
    BY <1>1 DEF Dialogs
  <2>3. QED
    BY <1>5, <2>1, <2>2
<1>8. AgentOK(X, a, U, 0)
  BY <1>4, <1>5, <1>6, <1>7, SendOK DEF X
<1>9. Settled(O \cup {fresh}, L, U)
  <2>1. L.calls = M.calls /\ L.starts = M.starts \cup {j}
    BY DEF WorksOf
  <2> HIDE DEF O, M, L, U
  <2>2. Settled(O \cup {m.branch}, L, Send(ua[a], m))
    BY <1>4, <1>5, <2>1, SendSettled
  <2>3. QED
    BY <2>2 DEF U
<1> HIDE DEF U, j, O
<1>10. fresh' - 1 = fresh /\ fresh' \in Nat /\ fresh <= fresh' /\ accepted \subseteq accepted'
  BY <1>1, <1>3
<1>11. AgentOK(World(ua, fresh' - 1, p, accepted'), a, U, 0) /\ Settled(1..(fresh' - 1), L, U)
  BY <1>3, <1>5, <1>8, <1>9, <1>10 DEF X
<1>12. hearing[a] # Null => hearing[a].message \in net /\ hearing[a].message.to = a
  BY <1>1 DEF AmidOK
<1>13. QED
  BY <1>3, <1>10, <1>11, <1>12, BecomesInv

(* createInvite() begins a call to another.                              *)
LEMMA InviteOK ==
  ASSUME SipInv, NEW a \in Agents, NEW peer \in Others(a), Invite(a, peer)
  PROVE  SipInv'
<1>1. PICK o : AllOK(World(ua, fresh - 1, o, accepted), ua, Works, net)
  BY DEF SipInv
<1> DEFINE p == NewCall(o, fresh, "INVITE", a, peer)
           X == World(ua, fresh, p, accepted)
           m == Request("INVITE", a, peer, fresh, fresh, Null, "plain")
<1>2. fresh \in Nat \ {0} /\ ua = [b \in Agents |-> ua[b]] /\ a # peer /\ {a, peer} \subseteq Peers
  BY DEF SipInv, Others, Peers
<1>3. /\ p[fresh].type = "INVITE" /\ p[fresh].caller = a /\ p[fresh].called = peer
      /\ \A c \in 1..(fresh - 1) : p[c] = o[c]
  BY <1>2 DEF NewCall
<1> HIDE DEF p
<1>4. /\ X.names = fresh /\ X.peers = Peers /\ X.origin = p
  BY DEF World, Peers, Agents
<1> HIDE DEF X
<1>5. "INVITE" \in Methods /\ "plain" \in RequestOptions /\ DialogType("INVITE") = "INVITE"
  BY DEF Methods, RequestOptions, DialogType
<1>6. MessageOK(X, m)
  <2>1. MessageOK(X, Request("INVITE", a, peer, X.names, X.names, Null, "plain"))
    BY <1>2, <1>3, <1>4, <1>5, NewRequestOK
  <2>2. QED
    BY <1>4, <2>1
<1>7. m.status = 0 /\ m.method # "ACK" /\ m.from = a /\ m.branch = fresh
  BY DEF Request
<1>8. Ask(a, m)
  BY DEF Invite
<1> HIDE DEF m
<1>9. QED
  BY <1>1, <1>3, <1>6, <1>7, <1>8, AskOK DEF X

(* A MESSAGE has a call of its own, and begins nothing.                  *)
LEMMA AskMessageOK ==
  ASSUME SipInv, NEW a \in Agents, NEW peer \in Others(a), Message(a, peer)
  PROVE  SipInv'
<1>1. PICK o : AllOK(World(ua, fresh - 1, o, accepted), ua, Works, net)
  BY DEF SipInv
<1> DEFINE p == NewCall(o, fresh, "SUBSCRIBE", a, peer)
           X == World(ua, fresh, p, accepted)
           m == Request("MESSAGE", a, peer, fresh, fresh, Null, "plain")
<1>2. fresh \in Nat \ {0} /\ ua = [b \in Agents |-> ua[b]] /\ a # peer /\ {a, peer} \subseteq Peers
  BY DEF SipInv, Others, Peers
<1>3. /\ p[fresh].type = "SUBSCRIBE" /\ p[fresh].caller = a /\ p[fresh].called = peer
      /\ \A c \in 1..(fresh - 1) : p[c] = o[c]
  BY <1>2 DEF NewCall
<1> HIDE DEF p
<1>4. /\ X.names = fresh /\ X.peers = Peers /\ X.origin = p
  BY DEF World, Peers, Agents
<1> HIDE DEF X
<1>5. "MESSAGE" \in Methods /\ "plain" \in RequestOptions /\ DialogType("MESSAGE") = "SUBSCRIBE"
  BY DEF Methods, RequestOptions, DialogType
<1>6. MessageOK(X, m)
  <2>1. MessageOK(X, Request("MESSAGE", a, peer, X.names, X.names, Null, "plain"))
    BY <1>2, <1>3, <1>4, <1>5, NewRequestOK
  <2>2. QED
    BY <1>4, <2>1
<1>7. m.status = 0 /\ m.method # "ACK" /\ m.from = a /\ m.branch = fresh
  BY DEF Request
<1>8. Ask(a, m)
  BY DEF Message
<1> HIDE DEF m
<1>9. QED
  BY <1>1, <1>3, <1>6, <1>7, <1>8, AskOK DEF X

(* A dialog with the peer, if there is one.                              *)
LEMMA DialogWithFound ==
  ASSUME NEW W, NEW a, NEW U, NEW x, AgentOK(W, a, U, x), NEW peer, NEW type
  PROVE  DialogWith(U, peer, type) # 0 =>
           /\ DialogWith(U, peer, type) \in 1..Len(U.dialogs)
           /\ U.dialogs[DialogWith(U, peer, type)].type = type
<1> DEFINE L == U.dialogs
           I == {k \in 1..Len(L) : L[k].type = type /\ L[k].peer = peer}
<1>1. L \in Seq(Dialogs(W, a))
  BY DEF AgentOK
<1>2. DialogWith(U, peer, type) = IF I # {} THEN Min(I) ELSE 0
  <2>1. DOMAIN L = 1..Len(L)
    BY <1>1
  <2>2. QED
    BY <2>1 DEF DialogWith, SelectInSeq
<1>3. I \in SUBSET Nat /\ DOMAIN L = 1..Len(L) /\ Len(L) \in Nat
  BY <1>1
<1>4. I # {} => Min(I) \in I
  <2> HIDE DEF I
  <2> QED
    BY <1>3, MinOfNaturals
<1>5. QED
  BY <1>2, <1>4

(* A request within a dialog: it belongs to no new call.                 *)
LEMMA WithinDialogOK ==
  ASSUME SipInv, NEW a \in Agents, NEW peer,
         NEW method \in {"BYE", "NOTIFY"}, NEW i,
         i = DialogWith(ua[a], peer, DialogType(method)), i # 0,
         Ask(a, Within(ua[a], i, method, a, fresh))
  PROVE  SipInv'
<1>1. PICK o : AllOK(World(ua, fresh - 1, o, accepted), ua, Works, net)
  BY DEF SipInv
<1> DEFINE W == World(ua, fresh - 1, o, accepted)
           X == World(ua, fresh, o, accepted)
           m == Within(ua[a], i, method, a, fresh)
<1>2. fresh \in Nat \ {0} /\ ua = [b \in Agents |-> ua[b]] /\ a \in Peers
  BY DEF SipInv, Peers
<1>3. W.names = fresh - 1 /\ X.names = fresh /\ X.peers = Peers /\ Agents = DOMAIN ua
  BY DEF World, Agents, Peers
<1>4. Grows(W, X)
  BY <1>2, WorldGrows
<1> HIDE DEF X
<1>5. AgentOK(X, a, ua[a], 0)
  BY <1>1, <1>3, <1>4, AgentGrows DEF AllOK
<1>6. ua[a].dialogs \in Seq(Dialogs(X, a))
  BY <1>5 DEF AgentOK
<1>7. i \in 1..Len(ua[a].dialogs) /\ ua[a].dialogs[i].type = DialogType(method)
  BY <1>5, DialogWithFound
<1>8. method \in Methods \ {"INVITE"} /\ method # "ACK"
  BY DEF Methods
<1>9. fresh \in 1..X.names
  BY <1>2, <1>3
<1>10. MessageOK(X, m) /\ m.branch = fresh /\ m.from = a /\ m.status = 0 /\ m.method = method
  BY <1>2, <1>3, <1>6, <1>7, <1>8, <1>9, WithinOK
<1> HIDE DEF m
<1>11. Ask(a, m) /\ \A c \in 1..(fresh - 1) : o[c] = o[c]
  BY DEF m
<1>12. QED
  BY <1>1, <1>8, <1>10, <1>11, AskOK DEF X

(* A BYE and a NOTIFY are sent within a dialog.                          *)
LEMMA ByeOK ==
  ASSUME SipInv, NEW a \in Agents, NEW peer, Bye(a, peer)
  PROVE  SipInv'
<1>1. DialogType("BYE") = "INVITE"
  BY DEF DialogType
<1>2. QED
  BY <1>1, WithinDialogOK DEF Bye

LEMMA NotifyOK ==
  ASSUME SipInv, NEW a \in Agents, NEW peer, Notify(a, peer)
  PROVE  SipInv'
<1>1. DialogType("NOTIFY") = "SUBSCRIBE"
  BY DEF DialogType
<1>2. QED
  BY <1>1, WithinDialogOK DEF Notify

(* How many names a message takes.                                       *)
LEMMA NamesTaken ==
  ASSUME NEW a, NEW m, NEW U
  PROVE  Names(a, m, U) \in {0, 1, 2}
BY DEF Names

LEMMA NamesOfRequest ==
  ASSUME NEW a, NEW m, NEW U, m.status = 0, m.method # "ACK", Matching(ua[a], m) = {}
  PROVE  Names(a, m, U) >= 1 /\ (m.tag = Null => Names(a, m, U) = 2)
BY DEF Names

LEMMA NamesOfResponse ==
  ASSUME NEW a, NEW m, NEW U, m.status # 0, fresh \in DOMAIN U.transactions
  PROVE  Names(a, m, U) = 1
BY DEF Names

(* The names in use are those before the next one.                       *)
LEMMA EarlierNames ==
  ASSUME NEW n \in Nat \ {0}, NEW k \in Nat, n <= k
  PROVE  /\ n - 1 \in Nat /\ k - 1 \in Nat /\ n - 1 <= k - 1
         /\ 1..(n - 1) \subseteq 1..(k - 1) /\ 1..(k - 1) \subseteq Nat
         /\ n \notin 1..(n - 1)
OBVIOUS

(* receiveMessageThread(): a request takes names of its own, and what an *)
(* agent begins as the called one is written down.                       *)
LEMMA ReceiveOK ==
  ASSUME SipInv, NEW a \in Agents, NEW m \in net, Receive(a, m)
  PROVE  SipInv'
<1>1. PICK o : AllOK(World(ua, fresh - 1, o, accepted), ua, Works, net)
  BY DEF SipInv
<1> DEFINE W == World(ua, fresh - 1, o, accepted)
           X == World(ua, fresh' - 1, o, accepted')
           M == WorksOf(starting[a], ringing[a])
           I == Matching(ua[a], m)
           Q == Mark(ua[a], I \cap Starting(a))
           U == IF m.status = 0 THEN ReceiveRequest(Q, m, fresh, fresh + 1)
                ELSE ReceiveResponse(Q, m, fresh)
           O == 1..(fresh - 1)
           P == 1..(fresh' - 1)
<1>2. /\ m.to = a /\ fresh' = fresh + Names(a, m, U)
      /\ accepted' = IF m.status = 0 THEN accepted \cup Begun(a, U) ELSE accepted
      /\ UNCHANGED <<starting, ringing>> /\ hearing' = [hearing EXCEPT ![a] = Null]
  BY DEF Receive
<1>3. PICK rest \in {net, net \ {m}} : Becomes(a, U, rest)
  BY DEF Receive
<1>4. Names(a, m, U) \in {0, 1, 2}
  BY NamesTaken
<1>5. fresh \in Nat \ {0} /\ fresh' \in Nat /\ fresh <= fresh' /\ accepted \subseteq accepted'
  BY <1>2, <1>4 DEF SipInv
<1>6. /\ X.names = fresh' - 1 /\ X.begun = accepted' /\ W.names = fresh - 1
      /\ a \in X.peers /\ Agents = DOMAIN ua
  BY DEF World, Agents
<1>7. Grows(W, X)
  <2>1. fresh - 1 \in Nat /\ fresh' - 1 \in Nat /\ fresh - 1 <= fresh' - 1
    BY <1>5, EarlierNames
  <2>2. QED
    BY <1>5, <2>1, WorldGrows
<1>8. Moves(a, starting[a], Null, ringing[a])
  <2>1. starting = [starting EXCEPT ![a] = starting[a]] /\ ringing = [ringing EXCEPT ![a] = ringing[a]]
    BY StaysAt DEF SipInv
  <2>2. QED
    BY <1>2, <2>1 DEF Moves
<1>9. MessageOK(W, m) /\ rest \subseteq net /\ (\A n \in net \ rest : n.to = a)
  BY <1>1, <1>2 DEF AllOK
<1>10. /\ AgentOK(W, a, ua[a], 0) /\ Settled(O, M, ua[a])
       /\ DOMAIN ua[a].transactions \subseteq O
  BY <1>1, AgentsAre
<1> HIDE DEF W, X, O
<1>11. Q.transactions = ua[a].transactions /\ Q.dialogs = ua[a].dialogs
  <2>1. Shape(ua[a])
    BY <1>10 DEF AgentOK
  <2>2. QED
    BY <2>1, MarkFields
<1>12. Settled(O, M, Q) /\ Free(M, Q, I)
  <2>1. Starting(a) = {j.owner : j \in M.starts}
    BY DEF Starting, WorksOf
  <2> HIDE DEF M, I
  <2>2. QED
    BY <1>10, <2>1, MarkedFree
<1>13. AgentOK(W, a, Q, 0) /\ AgentOK(X, a, Q, 0) /\ MessageOK(X, m)
  <2>1. AgentOK(W, a, Q, 0)
    BY <1>10, MarkOK
  <2> HIDE DEF Q
  <2>2. QED
    BY <1>7, <1>9, <2>1, AgentGrows, MessageGrows
<1>14. I = Matching(Q, m)
  BY <1>11 DEF Matching
<1> HIDE DEF Q, I, M
<1>15. DOMAIN Q.transactions \subseteq O
  BY <1>10, <1>11
<1>16. O \subseteq P /\ P \subseteq Nat /\ fresh \in Nat /\ fresh \notin O
  BY <1>5, EarlierNames DEF O
<1>17. fresh \notin DOMAIN Q.transactions
  BY <1>15, <1>16
<1>18. ASSUME AgentOK(X, a, U, 0), Settled(P, M, U) PROVE SipInv'
  <2> HIDE DEF U
  <2>1. Null # Null => Null.message \in rest /\ Null.message.to = a
    OBVIOUS
  <2>2. QED
    BY <1>1, <1>3, <1>5, <1>8, <1>9, <1>18, <2>1, BecomesInv DEF X, M
<1>19. CASE m.status = 0
  <2>1. U = ReceiveRequest(Q, m, fresh, fresh + 1)
    BY <1>19
  <2> HIDE DEF U
  <2>2. I = {} /\ m.method # "ACK" =>
          /\ fresh \in 1..(fresh' - 1)
          /\ m.tag = Null => fresh + 1 \in 1..(fresh' - 1)
    <3> SUFFICES ASSUME I = {}, m.method # "ACK"
                 PROVE  /\ fresh \in 1..(fresh' - 1)
                        /\ m.tag = Null => fresh + 1 \in 1..(fresh' - 1)
      OBVIOUS
    <3>1. Names(a, m, U) >= 1 /\ (m.tag = Null => Names(a, m, U) = 2)
      BY <1>19, NamesOfRequest DEF I
    <3>2. QED
      BY <1>2, <1>4, <1>5, <3>1
  <2>3. Known(X, a, Q, U)
    <3>1. ASSUME NEW d \in ToSet(U.dialogs) \ ToSet(Q.dialogs), d.type = "INVITE"
          PROVE  <<a, d.call, d.tag>> \in Begun(a, U)
      BY <1>11, <3>1 DEF Begun
    <3>2. Begun(a, U) \subseteq X.begun
      BY <1>2, <1>6, <1>19
    <3>3. QED
      BY <3>1, <3>2 DEF Known
  <2>4. AgentOK(X, a, U, 0)
    BY <1>2, <1>6, <1>13, <1>14, <1>17, <1>19, <2>1, <2>2, <2>3, ReceiveRequestOK
  <2>5. Settled(P, M, U)
    BY <1>9, <1>12, <1>13, <1>14, <1>15, <1>16, <1>19, <2>1, <2>2, ReceiveRequestSettled
  <2>6. QED
    BY <1>18, <2>4, <2>5
<1>20. CASE m.status # 0
  <2>1. U = ReceiveResponse(Q, m, fresh)
    BY <1>20
  <2> HIDE DEF U
  <2>2. fresh \in DOMAIN U.transactions => fresh \in 1..(fresh' - 1)
    <3> SUFFICES ASSUME fresh \in DOMAIN U.transactions PROVE fresh \in 1..(fresh' - 1)
      OBVIOUS
    <3>1. Names(a, m, U) = 1
      BY <1>20, NamesOfResponse
    <3>2. QED
      BY <1>2, <1>5, <3>1
  <2>3. AgentOK(X, a, U, 0)
    BY <1>2, <1>6, <1>13, <1>17, <1>20, <2>1, <2>2, ReceiveResponseOK
  <2>4. NamesOK(O, P, U, fresh)
    BY <1>16, <2>2 DEF NamesOK
  <2>5. Settled(P, M, U)
    BY <1>9, <1>12, <1>13, <1>14, <1>15, <1>16, <1>20, <2>1, <2>4, ReceiveResponseSettled
  <2>6. QED
    BY <1>18, <2>3, <2>5
<1>21. QED
  BY <1>19, <1>20

(* An alarm, from its slot to what it does.                              *)
(* Timer A that goes off is due now.                                     *)
LEMMA DueOnTime ==
  ASSUME NEW O, NEW M, NEW U, Settled(O, M, U), NEW e \in Alarms(U), e.left = 0, e.timer = "A",
         e.owner \in DOMAIN U.transactions, Rings(U.transactions[e.owner]), "CI" \notin U.shared
  PROVE  RingsIn(Quiet(U, e), e.owner, 0)
<1> DEFINE i == e.owner
           Q == Quiet(U, e)
<1>1. Shape(U) /\ DOMAIN U.alarm = AllTimers /\ "CI" \in Kinds /\ i \in OfKind(U, "CI")
  BY TimersAre DEF Settled, ClockOK, OfKind, Rings
<1>2. e \notin U.forgotten
  <2>1. U.transactions[i].kind = "CI"
    BY DEF Rings
  <2>2. QED
    BY <1>1, <2>1, DueFree, AlarmOfOwner
<1>3. e \in Set(U)
  BY <1>2 DEF Alarms
<1>4. U.alarm["A"].left = 0
  BY <1>3 DEF Set
<1>5. RingsIn(U, i, 0)
  <2>1. Paced(U, "CI")
    <3>1. StartsOf(M, "CI") = {}
      BY <1>1, DueFree DEF Free
    <3>2. Follows(M, U, "CI")
      BY <1>1 DEF Settled
    <3>3. QED
      BY <3>1, <3>2 DEF Follows, Complete
  <2>2. OnTime(U, i)
    BY <1>1, <2>1 DEF Paced
  <2>3. QED
    BY <1>4, <2>2 DEF OnTime
<1>6. Q.transactions = U.transactions /\ Q.value = U.value
  BY <1>1, QuietFields
<1>7. Q.alarm["B"] = U.alarm["B"]
  <2>1. Q = StopTimers(U, {"A"})
    BY <1>2 DEF Quiet
  <2>2. Q.alarm = Silenced(U.alarm, {"A"})
    BY <1>1, <2>1, StopTimersFields
  <2> HIDE DEF Q
  <2>3. QED
    BY <1>1, <2>2, TimersAre DEF Silenced
<1> HIDE DEF Q
<1>8. RingsIn(Q, i, 0)
  BY <1>5, <1>6, <1>7 DEF RingsIn
<1>9. QED
  BY <1>8 DEF Q

LEMMA AlarmOK ==
  ASSUME NEW O, NEW M, O \subseteq Nat, NEW U, Settled(O, M, U), NEW W, NEW a, AgentOK(W, a, U, 0),
         DOMAIN U.transactions \subseteq O,
         NEW e \in Alarms(U), e.owner \in DOMAIN U.transactions, e.left = 0
  PROVE  LET V == Expire(Quiet(U, e), e.timer, e.owner, U.transactions[e.owner].state)
         IN AgentOK(W, a, V, 0) /\ Settled(O, M, V)
<1> DEFINE Q == Quiet(U, e)
           i == e.owner
           k == U.transactions[i].kind
<1>1. Shape(U) /\ TransactionOK(W, a, i, U.transactions[i])
  BY DEF AgentOK
<1>2. k \in Kinds
  BY <1>1 DEF TransactionOK, Transactions, Kinds
<1>3. Free(M, U, {i})
  BY DueFree
<1>4. e.timer \in Timers[k] /\ (k \in U.shared \/ e.timer \in Runs(U.transactions[i]))
  BY <1>2, <1>3, AlarmOfOwner
<1>5. Unsettled(O, M, Q, k, i, Runs(U.transactions[i]) \ {e.timer})
  BY <1>2, <1>3, QuietUnsettled
<1>6. /\ Shape(Q) /\ Q.dialogs = U.dialogs /\ Q.out = U.out /\ Q.shared = U.shared
      /\ Q.transactions = U.transactions
  BY <1>1, QuietFields
<1> HIDE DEF Q
<1>7. AgentOK(W, a, Q, 0)
  BY <1>6, AlikeOK DEF Alike
<1>8. e.timer \in UNION {Timers[j] : j \in DOMAIN Timers}
  BY <1>2, <1>4 DEF Kinds
<1>9. AgentOK(W, a, Expire(Q, e.timer, i, U.transactions[i].state), 0)
  BY <1>6, <1>7, <1>8, ExpireOK
<1>10. i \in OfKind(Q, k) /\ i \in O
  BY <1>6 DEF OfKind
<1>11. ASSUME k = "CI", e.timer = "A", Rings(U.transactions[i]), k \notin Q.shared
       PROVE  RingsIn(Q, i, 0)
  BY <1>6, <1>11, DueOnTime DEF Q
<1> HIDE DEF k, i
<1>12. Settled(O, M, Expire(Q, e.timer, i, Q.transactions[i].state))
  BY <1>1, <1>2, <1>4, <1>5, <1>6, <1>10, <1>11, ExpireSettled
<1>13. QED
  BY <1>6, <1>9, <1>12 DEF Q, i

LEMMA GoOffOK ==
  ASSUME SipInv, NEW a \in Agents, NEW e \in Alarms(ua[a]), GoOff(a, e)
  PROVE  SipInv'
<1>1. PICK o : AllOK(World(ua, fresh - 1, o, accepted), ua, Works, net)
  BY DEF SipInv
<1> DEFINE W == World(ua, fresh - 1, o, accepted)
           U == ua[a]
           M == WorksOf(starting[a], ringing[a])
           V == Expire(Quiet(U, e), e.timer, e.owner, U.transactions[e.owner].state)
           O == 1..(fresh - 1)
<1>2. /\ fresh' = fresh /\ accepted' = accepted /\ e.owner \in DOMAIN U.transactions
      /\ e.left = 0 /\ Becomes(a, V, net) /\ UNCHANGED amid
  BY DEF GoOff
<1>3. AgentOK(W, a, U, 0) /\ Settled(O, M, U) /\ DOMAIN U.transactions \subseteq O /\ O \subseteq Nat
  BY <1>1, AgentsAre
<1> HIDE DEF W, O, M
<1>4. AgentOK(W, a, V, 0) /\ Settled(O, M, V)
  BY <1>2, <1>3, AlarmOK
<1> HIDE DEF V
<1>5. AgentOK(World(ua, fresh' - 1, o, accepted'), a, V, 0) /\ Settled(1..(fresh' - 1), M, V)
  BY <1>2, <1>4 DEF W, O
<1>6. Moves(a, starting[a], hearing[a], ringing[a])
  BY <1>2, StaysMoves DEF SipInv
<1>7. hearing[a] # Null => hearing[a].message \in net /\ hearing[a].message.to = a
  BY DEF SipInv, AmidOK
<1>8. /\ fresh' \in Nat /\ fresh <= fresh' /\ accepted \subseteq accepted'
      /\ (\A c \in 1..(fresh - 1) : o[c] = o[c]) /\ \A m \in net \ net : m.to = a
  BY <1>2 DEF SipInv
<1>9. QED
  BY <1>1, <1>2, <1>5, <1>6, <1>7, <1>8, BecomesInv DEF M

(* It meets the message m at a transaction: the receiving thread has     *)
(* matched, the callback has tested.                                     *)
LEMMA MeetOK ==
  ASSUME SipInv, NEW a \in Agents, NEW m \in net, NEW e \in Alarms(ua[a]), Meet(a, e, m)
  PROVE  SipInv'
<1>1. PICK o : AllOK(World(ua, fresh - 1, o, accepted), ua, Works, net)
  BY DEF SipInv
<1> DEFINE W == World(ua, fresh - 1, o, accepted)
           U == ua[a]
           M == WorksOf(starting[a], ringing[a])
           c == CallOf(U, e)
           h == [message |-> m, found |-> Matching(U, m)]
           L == WorksOf(starting[a], c)
           V == Mark(Quiet(U, e), {e.owner})
           O == 1..(fresh - 1)
<1>2. /\ fresh' = fresh /\ accepted' = accepted /\ e.owner \in Matching(U, m)
      /\ e.left = 0 /\ m.to = a /\ Becomes(a, V, net) /\ starting' = starting
      /\ hearing' = [hearing EXCEPT ![a] = h] /\ ringing' = [ringing EXCEPT ![a] = c]
  BY DEF Meet, CallOf
<1>3. AgentOK(W, a, U, 0) /\ Settled(O, M, U) /\ DOMAIN U.transactions \subseteq O /\ O \subseteq Nat
  BY <1>1, AgentsAre
<1>4. h.message = m
  OBVIOUS
<1> HIDE DEF W, O, c, h
<1>5. e.owner \in DOMAIN U.transactions
  BY <1>2 DEF Matching
<1>6. U.transactions[e.owner].kind \in Kinds /\ U.transactions[e.owner].state \in States
  BY <1>3, <1>5 DEF AgentOK, TransactionOK, Transactions, Kinds
<1>7. AgentOK(W, a, V, 0)
  <2>1. Shape(U)
    BY <1>3 DEF AgentOK
  <2>2. Shape(Quiet(U, e)) /\ Alike(Quiet(U, e), U)
    BY <2>1, QuietFields DEF Alike
  <2>3. AgentOK(W, a, Quiet(U, e), 0)
    BY <1>3, <2>2, AlikeOK
  <2>4. QED
    BY <2>3, MarkOK
<1>8. Settled(O, L, V)
  <2> DEFINE K == [starts |-> M.starts, calls |-> {c}]
  <2>1. K.starts = M.starts /\ K.calls = {CallOf(U, e)}
    BY DEF c
  <2>2. L.starts = K.starts /\ L.calls \subseteq K.calls
    BY DEF WorksOf
  <2> HIDE DEF K, M, L
  <2>3. Settled(O, K, V)
    BY <1>2, <1>3, <1>5, <1>6, <2>1, MeetSettled
  <2> HIDE DEF V
  <2>4. QED
    BY <2>2, <2>3, FewerCalls
<1> HIDE DEF V
<1>9. AgentOK(World(ua, fresh' - 1, o, accepted'), a, V, 0) /\ Settled(1..(fresh' - 1), L, V)
  BY <1>2, <1>7, <1>8 DEF W, O
<1>10. Moves(a, starting[a], h, c)
  <2>1. starting = [starting EXCEPT ![a] = starting[a]]
    BY StaysAt DEF SipInv
  <2>2. QED
    BY <1>2, <2>1 DEF Moves
<1>11. h # Null => h.message \in net /\ h.message.to = a
  BY <1>2, <1>4
<1>12. /\ fresh' \in Nat /\ fresh <= fresh' /\ accepted \subseteq accepted'
       /\ (\A n \in 1..(fresh - 1) : o[n] = o[n]) /\ \A n \in net \ net : n.to = a
  BY <1>2 DEF SipInv
<1>13. QED
  BY <1>1, <1>2, <1>9, <1>10, <1>11, <1>12, BecomesInv

(* The callback goes on.                                                 *)
LEMMA RingOK ==
  ASSUME SipInv, NEW a \in Agents, Ring(a)
  PROVE  SipInv'
<1>1. PICK o : AllOK(World(ua, fresh - 1, o, accepted), ua, Works, net)
  BY DEF SipInv
<1> DEFINE W == World(ua, fresh - 1, o, accepted)
           U == ua[a]
           c == ringing[a]
           k == U.transactions[c.owner].kind
           M == WorksOf(starting[a], c)
           L == WorksOf(starting[a], Null)
           V == Expire(U, c.timer, c.owner, c.state)
           O == 1..(fresh - 1)
<1>2. /\ fresh' = fresh /\ accepted' = accepted /\ c # Null /\ c.owner \in DOMAIN U.transactions
      /\ Becomes(a, V, net) /\ starting' = starting /\ hearing' = hearing
      /\ ringing' = [ringing EXCEPT ![a] = Null]
  BY DEF Ring
<1>3. AgentOK(W, a, U, 0) /\ Settled(O, M, U) /\ DOMAIN U.transactions \subseteq O /\ O \subseteq Nat
  BY <1>1, AgentsAre
<1>4. c \in M.calls /\ L.starts = M.starts /\ L.calls \subseteq M.calls
  BY <1>2 DEF WorksOf
<1> HIDE DEF W, O, c, M, L
<1>5. WorksOK(O, M, U)
  BY <1>3 DEF Settled, ClockOK
<1>6. k \in U.shared /\ c.timer \in Timers[k]
  BY <1>2, <1>4, <1>5 DEF WorksOK
<1>7. TransactionOK(W, a, c.owner, U.transactions[c.owner])
  BY <1>2, <1>3 DEF AgentOK
<1>8. k \in Kinds
  BY <1>7 DEF TransactionOK, Transactions, Kinds
<1>9. AgentOK(W, a, V, 0)
  <2>1. c.timer \in UNION {Timers[j] : j \in DOMAIN Timers}
    BY <1>6, <1>8 DEF Kinds
  <2>2. QED
    BY <1>2, <1>3, <2>1, ExpireOK
<1>10. Settled(O, L, V)
  <2>1. c.owner \in OfKind(U, k) /\ c.owner \in O
    BY <1>2, <1>3 DEF OfKind
  <2> HIDE DEF k
  <2>2. Settled(O, M, V)
    BY <1>3, <1>6, <1>7, <1>8, <2>1, RingSettled
  <2> HIDE DEF V
  <2>3. QED
    BY <1>4, <2>2, FewerCalls
<1> HIDE DEF V
<1>11. AgentOK(World(ua, fresh' - 1, o, accepted'), a, V, 0) /\ Settled(1..(fresh' - 1), L, V)
  BY <1>2, <1>9, <1>10 DEF W, O
<1>12. Moves(a, starting[a], hearing[a], Null)
  <2>1. starting = [starting EXCEPT ![a] = starting[a]] /\ hearing = [hearing EXCEPT ![a] = hearing[a]]
    BY StaysAt DEF SipInv
  <2>2. QED
    BY <1>2, <2>1 DEF Moves
<1>13. hearing[a] # Null => hearing[a].message \in net /\ hearing[a].message.to = a
  BY DEF SipInv, AmidOK
<1>14. /\ fresh' \in Nat /\ fresh <= fresh' /\ accepted \subseteq accepted'
       /\ (\A n \in 1..(fresh - 1) : o[n] = o[n]) /\ \A n \in net \ net : n.to = a
  BY <1>2 DEF SipInv
<1>15. QED
  BY <1>1, <1>2, <1>11, <1>12, <1>13, <1>14, BecomesInv DEF L

(* The application starts the next timer of a request that it has sent.  *)
LEMMA StartOK ==
  ASSUME SipInv, NEW a \in Agents, NEW j \in starting[a], Start(a, j)
  PROVE  SipInv'
<1>1. PICK o : AllOK(World(ua, fresh - 1, o, accepted), ua, Works, net)
  BY DEF SipInv
<1> DEFINE W == World(ua, fresh - 1, o, accepted)
           U == ua[a]
           s == (starting[a] \ {j}) \cup Rest(j)
           M == WorksOf(starting[a], ringing[a])
           L == WorksOf(s, ringing[a])
           V == StartFirst(U, Head(j.timers), j.owner)
           O == 1..(fresh - 1)
<1>2. /\ fresh' = fresh /\ accepted' = accepted /\ Becomes(a, V, net)
      /\ hearing' = hearing /\ ringing' = ringing
      /\ starting' = [starting EXCEPT ![a] = s]
  BY DEF Start, Rest
<1>3. AgentOK(W, a, U, 0) /\ Settled(O, M, U) /\ O \subseteq Nat
  BY <1>1, AgentsAre
<1>4. j \in M.starts /\ L.calls = M.calls /\ L.starts = (M.starts \ {j}) \cup Rest(j)
  BY DEF WorksOf
<1> HIDE DEF W, O, M, L, s
<1>5. AgentOK(W, a, V, 0)
  BY <1>3, StartFirstOK
<1>6. Settled(O, L, V)
  BY <1>3, <1>4, StartSettled
<1> HIDE DEF V
<1>7. AgentOK(World(ua, fresh' - 1, o, accepted'), a, V, 0) /\ Settled(1..(fresh' - 1), L, V)
  BY <1>2, <1>5, <1>6 DEF W, O
<1>8. Moves(a, s, hearing[a], ringing[a])
  <2>1. hearing = [hearing EXCEPT ![a] = hearing[a]] /\ ringing = [ringing EXCEPT ![a] = ringing[a]]
    BY StaysAt DEF SipInv
  <2>2. QED
    BY <1>2, <2>1 DEF Moves
<1>9. hearing[a] # Null => hearing[a].message \in net /\ hearing[a].message.to = a
  BY DEF SipInv, AmidOK
<1>10. /\ fresh' \in Nat /\ fresh <= fresh' /\ accepted \subseteq accepted'
       /\ (\A n \in 1..(fresh - 1) : o[n] = o[n]) /\ \A n \in net \ net : n.to = a
  BY <1>2 DEF SipInv
<1>11. QED
  BY <1>1, <1>2, <1>7, <1>8, <1>9, <1>10, BecomesInv DEF L

(* The clock ticks                                                       *)

(* The slots f, and the alarms F that have none, one tick later.         *)
SlotsLater(f) == [t \in DOMAIN f |-> IF f[t] = Null THEN Null ELSE Sooner(f[t])]

OthersLater(F) == {Sooner(e) : e \in F}

(* A tick passes: the alarms come nearer, and none of them is due before.*)
LEMMA LaterFields ==
  ASSUME NEW U, Shape(U)
  PROVE  LET V == Later(U)
         IN /\ Shape(V) /\ V.dialogs = U.dialogs /\ V.out = U.out /\ V.told = U.told
            /\ V.value = U.value /\ V.shared = U.shared /\ V.transactions = U.transactions
            /\ V.alarm = SlotsLater(U.alarm) /\ V.forgotten = OthersLater(U.forgotten)
BY DEF Later, Shape, Fields, SlotsLater, OthersLater

LEMMA LaterSettled ==
  ASSUME NEW O, O \subseteq Nat, NEW M, NEW U, Settled(O, M, U), M.starts = {},
         \A e \in Alarms(U) : e.left > 0
  PROVE  Settled(O, M, Later(U))
<1> DEFINE V == Later(U)
<1>1. ClockOK(O, M, U) /\ Shape(U)
  BY DEF Settled, ClockOK
<1>2. /\ Shape(V) /\ V.value = U.value /\ V.shared = U.shared /\ V.transactions = U.transactions
      /\ V.alarm = SlotsLater(U.alarm) /\ V.forgotten = OthersLater(U.forgotten)
  BY <1>1, LaterFields
<1> HIDE DEF V
<1>3. DOMAIN U.alarm = AllTimers
  BY <1>1 DEF ClockOK
<1>4. /\ V.alarm = [t \in AllTimers |-> V.alarm[t]]
      /\ \A t \in AllTimers : V.alarm[t] = IF U.alarm[t] = Null THEN Null
                                        ELSE Sooner(U.alarm[t])
  BY <1>2, <1>3 DEF SlotsLater
<1>5. ASSUME NEW t \in AllTimers, U.alarm[t] # Null
      PROVE  /\ V.alarm[t] \in [owner : O, left : Nat] /\ V.alarm[t] # Null
             /\ V.alarm[t].owner = U.alarm[t].owner
  <2> DEFINE u == U.alarm[t]
             e == [timer |-> t, owner |-> u.owner, left |-> u.left]
  <2>1. u \in [owner : O, left : Nat]
    BY <1>1, <1>5 DEF ClockOK
  <2>2. e \in Alarms(U)
    BY <1>3, <1>5 DEF Alarms, Set
  <2>3. u.left > 0
    BY <2>2
  <2>4. V.alarm[t] = Sooner(u)
    BY <1>4, <1>5
  <2> HIDE DEF u
  <2>5. u.left - 1 \in Nat
    BY <2>1, <2>3
  <2>6. V.alarm[t] \in [owner : O, left : Nat] /\ V.alarm[t].owner = u.owner
    BY <2>1, <2>4, <2>5 DEF Sooner
  <2>7. V.alarm[t] \in [owner : Nat, left : Nat]
    BY <2>6
  <2>8. QED
    BY <2>6, <2>7, NullAssumption DEF u
<1>6. ASSUME NEW f \in V.forgotten
      PROVE  /\ f \in [timer : AllTimers, owner : O, left : Nat]
             /\ \E e \in U.forgotten : f.timer = e.timer /\ f.owner = e.owner
  <2>1. PICK e \in U.forgotten : f = Sooner(e)
    BY <1>2 DEF OthersLater
  <2>2. e \in [timer : AllTimers, owner : O, left : Nat]
    BY <1>1 DEF ClockOK
  <2>3. e.left > 0
    BY DEF Alarms
  <2>4. e.left - 1 \in Nat
    BY <2>2, <2>3
  <2>5. QED
    BY <2>1, <2>2, <2>4 DEF Sooner
<1>7. ClockOK(O, M, V)
  <2>1. \A t \in AllTimers : V.alarm[t] # Null =>
          /\ V.alarm[t] \in [owner : O, left : Nat]
          /\ V.alarm[t].owner \in DOMAIN V.transactions =>
                t \in Timers[V.transactions[V.alarm[t].owner].kind]
    BY <1>1, <1>2, <1>4, <1>5 DEF ClockOK
  <2>2. \A e \in V.forgotten :
          /\ e \in [timer : AllTimers, owner : O, left : Nat]
          /\ e.owner \in DOMAIN V.transactions => e.timer \in Timers[V.transactions[e.owner].kind]
    BY <1>1, <1>2, <1>6 DEF ClockOK
  <2>3. V.value \in [Doubled -> Nat] /\ V.transactions = [i \in DOMAIN V.transactions |-> V.transactions[i]]
    BY <1>1, <1>2 DEF ClockOK
  <2>4. WorksOK(O, M, V)
    <3>1. Descends(O, V, U)
      BY <1>2 DEF Descends
    <3>2. QED
      BY <1>1, <3>1, WorksGoOn DEF ClockOK
  <2>5. QED
    BY <1>2, <1>4, <2>1, <2>2, <2>3, <2>4 DEF ClockOK
<1>8. ASSUME NEW k \in Kinds \ V.shared PROVE Follows(M, V, k)
  <2> DEFINE none == {}
  <2>1. StartsOf(M, k) = none /\ Complete(U, k)
    <3>1. StartsOf(M, k) = none
      BY DEF StartsOf
    <3>2. Follows(M, U, k)
      BY <1>2 DEF Settled
    <3>3. QED
      BY <3>1, <3>2 DEF Follows
  <2>2. PICK i : Holds(U, k, i, Due(U, k, i))
    BY <2>1 DEF Complete
  <2>3. Due(V, k, i) = Due(U, k, i) /\ OfKind(V, k) = OfKind(U, k)
    BY <1>2 DEF Due, OfKind
  <2>4. \A t \in Timers[k] : t \in AllTimers
    BY DEF AllTimers
  <2>5. Holds(V, k, i, Due(U, k, i))
    BY <1>4, <1>5, <1>6, <2>2, <2>3, <2>4 DEF Holds
  <2>6. ASSUME NEW j \in OfKind(V, k) PROVE OnTime(V, j)
    <3>1. OnTime(U, j) /\ j \in OfKind(U, k)
      BY <2>3, <2>1 DEF Complete, Paced
    <3>2. ASSUME Rings(V.transactions[j]) PROVE RingsIn(V, j, V.alarm["A"].left)
      <4>1. Rings(U.transactions[j]) /\ k = "CI"
        BY <1>2, <3>1, <3>2 DEF OfKind, Rings
      <4>2. j = i /\ "A" \in Due(U, k, i) /\ "B" \in Due(U, k, i)
        BY <2>2, <3>1, <4>1, RunsIs DEF Holds, Due, Rings
      <4>3. /\ U.alarm["A"] # Null /\ U.alarm["B"] # Null
            /\ "A" \in AllTimers /\ "B" \in AllTimers
        BY <2>2, <4>1, <4>2, TimersAre DEF Holds
      <4>4. U.alarm["A"] \in [owner : O, left : Nat] /\ U.alarm["B"] \in [owner : O, left : Nat]
        BY <1>1, <4>3 DEF ClockOK
      <4>5. V.alarm["A"].left = U.alarm["A"].left - 1 /\ V.alarm["B"].left = U.alarm["B"].left - 1
        BY <1>4, <4>3, <4>4 DEF Sooner
      <4>6. Beats(U.transactions[j].tries, U.value["A"], U.alarm["A"].left, U.alarm["B"].left)
        BY <3>1, <4>1 DEF OnTime, RingsIn
      <4>7. Beats(U.transactions[j].tries, U.value["A"], U.alarm["A"].left - 1, U.alarm["B"].left - 1)
        BY <4>4, <4>6, BeatLater
      <4>8. QED
        BY <1>2, <4>5, <4>7 DEF RingsIn
    <3>3. QED
      BY <3>2 DEF OnTime
  <2>7. Complete(V, k)
    BY <2>3, <2>5, <2>6 DEF Complete, Paced
  <2>8. QED
    BY <2>7, <2>1 DEF Follows
<1>9. QED
  BY <1>7, <1>8 DEF Settled, V

LEMMA TickOK ==
  ASSUME SipInv, Tick
  PROVE  SipInv'
<1>1. PICK o : AllOK(World(ua, fresh - 1, o, accepted), ua, Works, net)
  BY DEF SipInv
<1> DEFINE W == World(ua, fresh - 1, o, accepted)
<1>2. /\ ua' = [a \in Agents |-> Later(ua[a])] /\ net' = net /\ fresh' = fresh
      /\ accepted' = accepted /\ UNCHANGED amid
      /\ \A a \in Agents : starting[a] = {} /\ \A e \in Alarms(ua[a]) : e.left > 0
  BY DEF Tick
<1>3. fresh \in Nat \ {0} /\ AmidOK
  BY DEF SipInv
<1>4. W.names = fresh - 1 /\ Agents = DOMAIN ua /\ DOMAIN ua' = DOMAIN ua
  BY <1>2 DEF World, Agents
<1>5. W = World(ua', fresh' - 1, o, accepted')
  BY <1>2, <1>4 DEF World
<1>6. AmidOK' /\ Works' = Works
  <2>1. Agents' = Agents /\ \A m \in net \ net' : m.to \notin Agents
    BY <1>2, <1>4 DEF Agents
  <2>2. QED
    BY <1>2, <1>3, <2>1, RestsWorks
<1> HIDE DEF W
<1>7. ASSUME NEW a \in Agents
      PROVE  /\ AgentOK(W, a, ua'[a], 0) /\ Settled(1..W.names, Works[a], ua'[a])
             /\ ua'[a].out = {} /\ ua'[a].told = << >>
  <2> DEFINE U == ua[a]
             V == Later(U)
  <2>1. /\ AgentOK(W, a, U, 0) /\ Settled(1..W.names, Works[a], U)
        /\ U.out = {} /\ U.told = << >>
    BY <1>1, <1>4 DEF AllOK, W
  <2>2. /\ Shape(V) /\ V.dialogs = U.dialogs /\ V.out = U.out /\ V.told = U.told
        /\ V.transactions = U.transactions
    BY <2>1, LaterFields DEF AgentOK
  <2>3. 1..W.names \subseteq Nat /\ Works[a].starts = {}
    BY <1>2, <1>3, <1>4 DEF Works, WorksOf
  <2>4. \A e \in Alarms(U) : e.left > 0
    BY <1>2
  <2> HIDE DEF U
  <2>5. Settled(1..W.names, Works[a], V)
    BY <2>1, <2>3, <2>4, LaterSettled
  <2> HIDE DEF V
  <2>6. AgentOK(W, a, V, 0)
    BY <2>1, <2>2, AlikeOK DEF Alike
  <2>7. ua'[a] = V
    BY <1>2 DEF U, V
  <2>8. QED
    BY <2>1, <2>2, <2>5, <2>6, <2>7
<1>8. \A m \in net' : MessageOK(W, m)
  BY <1>1, <1>2 DEF AllOK, W
<1>9. AllOK(W, ua', Works', net')
  BY <1>4, <1>6, <1>7, <1>8 DEF AllOK
<1>10. ua' = [b \in DOMAIN ua' |-> ua'[b]] /\ fresh' \in Nat \ {0}
  BY <1>2, <1>3
<1>11. QED
  BY <1>4, <1>5, <1>6, <1>9, <1>10, InvNext

(* What the phone sends agrees with the world as well: its requests begin*)
(* calls of its own, or belong to the dialogs of the answers it has had. *)
LEMMA PhoneSendsOK ==
  ASSUME SipInv, NEW o, AllOK(World(ua, fresh - 1, o, accepted), ua, Works, net),
         NEW p, \A c \in 1..(fresh - 1) : p[c] = o[c],
         NEW m, MessageOK(World(ua, fresh, p, accepted), m), PhoneSends(m)
  PROVE  SipInv'
<1> DEFINE W == World(ua, fresh - 1, o, accepted)
           X == World(ua, fresh, p, accepted)
<1>1. fresh \in Nat \ {0} /\ ua = [b \in Agents |-> ua[b]] /\ AmidOK
  BY DEF SipInv
<1>2. Grows(W, X)
  BY <1>1, WorldGrows
<1>3. /\ ua' = ua /\ net' = net \cup {m} /\ fresh' = fresh + 1 /\ accepted' = accepted
      /\ UNCHANGED amid
  BY DEF PhoneSends
<1>4. fresh' - 1 = fresh /\ fresh' \in Nat \ {0}
  BY <1>1, <1>3
<1>5. X = World(ua', fresh' - 1, p, accepted')
  BY <1>3, <1>4 DEF World
<1> HIDE DEF X
<1>6. AllOK(X, ua, Works, net)
  BY <1>2, AllGrow
<1>7. AmidOK' /\ Works' = Works
  <2>1. Agents' = Agents /\ \A n \in net \ net' : n.to \notin Agents
    BY <1>3 DEF Agents
  <2>2. QED
    BY <1>1, <1>3, <2>1, RestsWorks
<1>8. AllOK(X, ua', Works', net')
  BY <1>3, <1>6, <1>7 DEF AllOK, X
<1>9. DOMAIN ua' = DOMAIN ua /\ ua' = [b \in DOMAIN ua' |-> ua'[b]]
  BY <1>1, <1>3 DEF Agents
<1>10. QED
  BY <1>4, <1>5, <1>7, <1>8, <1>9, InvNext

LEMMA PhoneCallsOK ==
  ASSUME SipInv, NEW a \in Agents, NEW q \in Options, PhoneCalls(a, q[1], q[2])
  PROVE  SipInv'
<1>1. PICK o : AllOK(World(ua, fresh - 1, o, accepted), ua, Works, net)
  BY DEF SipInv
<1> DEFINE type == DialogType(q[1])
           p == NewCall(o, fresh, type, Phone, a)
           X == World(ua, fresh, p, accepted)
           m == Request(q[1], Phone, a, fresh, fresh, Null, q[2])
<1>2. fresh \in Nat \ {0} /\ a # Phone /\ {a, Phone} \subseteq Peers
  BY DEF SipInv, Peers
<1>3. /\ p[fresh].type = type /\ p[fresh].caller = Phone /\ p[fresh].called = a
      /\ \A c \in 1..(fresh - 1) : p[c] = o[c]
  <2> HIDE DEF type
  <2> QED
    BY <1>2 DEF NewCall
<1> HIDE DEF p
<1>4. /\ X.names = fresh /\ X.peers = Peers /\ X.origin = p
  BY DEF World, Peers, Agents
<1> HIDE DEF X
<1>5. q[1] \in Methods /\ q[2] \in RequestOptions
  BY DEF Methods, RequestOptions, Options
<1>6. MessageOK(X, m)
  <2>1. MessageOK(X, Request(q[1], Phone, a, X.names, X.names, Null, q[2]))
    BY <1>2, <1>3, <1>4, <1>5, NewRequestOK
  <2>2. QED
    BY <1>4, <2>1
<1>7. PhoneSends(m)
  BY DEF PhoneCalls
<1> HIDE DEF m
<1>8. QED
  BY <1>1, <1>3, <1>6, <1>7, PhoneSendsOK DEF X

LEMMA PhoneEndsOK ==
  ASSUME SipInv, NEW r \in net, PhoneEnds(r)
  PROVE  SipInv'
<1>1. PICK o : AllOK(World(ua, fresh - 1, o, accepted), ua, Works, net)
  BY DEF SipInv
<1> DEFINE W == World(ua, fresh - 1, o, accepted)
           X == World(ua, fresh, o, accepted)
<1>2. fresh \in Nat \ {0}
  BY DEF SipInv
<1>3. Grows(W, X) /\ MessageOK(W, r)
  BY <1>1, <1>2, WorldGrows DEF AllOK
<1>4. X.names = fresh /\ X.peers = Peers
  BY DEF World, Peers, Agents
<1> HIDE DEF W, X
<1>5. MessageOK(X, r)
  BY <1>3, MessageGrows
<1>6. /\ r.from \in Peers /\ r.call \in 1..fresh /\ r.tag \in 1..fresh
      /\ X.origin[r.call].type = DialogType(r.method) /\ r.to = Phone
  <2>1. r \in Messages(X)
    BY <1>5 DEF MessageOK
  <2>2. r.from \in Peers /\ r.call \in 1..fresh
    BY <1>4, <2>1, MessageIs
  <2>3. r.tag \in 1..fresh /\ X.origin[r.call].type = DialogType(r.method) /\ r.to = Phone
    BY <1>4, <1>5 DEF MessageOK, PhoneEnds
  <2>4. QED
    BY <2>2, <2>3
<1>7. ASSUME NEW method \in {"BYE", "SUBSCRIBE"}, DialogType(method) = DialogType(r.method),
             NEW option \in RequestOptions
      PROVE  MessageOK(X, Request(method, Phone, r.from, fresh, r.call, r.tag, option))
  <2> DEFINE m == Request(method, Phone, r.from, fresh, r.call, r.tag, option)
  <2>1. /\ m = [f \in MessageFields |-> m[f]]
        /\ m.method = method /\ m.status = 0 /\ m.from = Phone /\ m.to = r.from
        /\ m.branch = fresh /\ m.call = r.call /\ m.tag = r.tag /\ m.option = option
    BY RequestIs
  <2> HIDE DEF m
  <2>2. Phone \in Peers /\ method \in Methods /\ method # "INVITE" /\ fresh \in 1..fresh
    BY <1>2 DEF Peers, Methods
  <2>3. m \in Messages(X)
    BY <1>4, <1>6, <2>1, <2>2, MessageIs
  <2>4. MessageOK(X, m)
    BY <1>6, <1>7, <2>1, <2>2, <2>3 DEF MessageOK
  <2>5. QED
    BY <2>4 DEF m
<1>8. ASSUME NEW m, MessageOK(X, m), PhoneSends(m) PROVE SipInv'
  <2>1. \A c \in 1..(fresh - 1) : o[c] = o[c]
    OBVIOUS
  <2>2. QED
    BY <1>1, <1>8, <2>1, PhoneSendsOK DEF X
<1>9. DialogType("BYE") = DialogType("INVITE") /\ {"plain", "expire"} \subseteq RequestOptions
  BY DEF DialogType, RequestOptions
<1>10. CASE /\ r.method = "INVITE"
            /\ PhoneSends(Request("BYE", Phone, r.from, fresh, r.call, r.tag, "plain"))
  BY <1>7, <1>8, <1>9, <1>10
<1>11. CASE /\ r.method = "SUBSCRIBE"
            /\ PhoneSends(Request("SUBSCRIBE", Phone, r.from, fresh, r.call, r.tag, "expire"))
  BY <1>7, <1>8, <1>9, <1>11
<1>12. QED
  BY <1>10, <1>11 DEF PhoneEnds

(* A step of the network only.                                           *)
LEMMA NetworkInv ==
  ASSUME SipInv, NEW o, AllOK(World(ua, fresh - 1, o, accepted), ua, Works, net),
         NEW m, MessageOK(World(ua, fresh - 1, o, accepted), m),
         net' \subseteq net \cup {m}, \A n \in net \ net' : n.to \notin Agents,
         UNCHANGED <<ua, amid, fresh, accepted>>
  PROVE  SipInv'
<1>1. ua' = ua /\ fresh' = fresh /\ accepted' = accepted /\ UNCHANGED amid
  OBVIOUS
<1>2. AmidOK' /\ Works' = Works
  <2>1. Agents' = Agents
    BY <1>1 DEF Agents
  <2>2. QED
    BY <1>1, <2>1, RestsWorks DEF SipInv
<1>3. AllOK(World(ua, fresh - 1, o, accepted), ua, Works, net')
  BY DEF AllOK
<1>4. AllOK(World(ua', fresh' - 1, o, accepted'), ua', Works', net')
  BY <1>1, <1>2, <1>3
<1>5. DOMAIN ua' = DOMAIN ua /\ ua' = [b \in DOMAIN ua' |-> ua'[b]] /\ fresh' \in Nat \ {0}
  BY <1>1 DEF SipInv, Agents
<1>6. QED
  BY <1>2, <1>4, <1>5, InvNext

LEMMA PhoneAnswersOK ==
  ASSUME SipInv, NEW m \in net, NEW status \in Statuses, PhoneAnswers(m, status)
  PROVE  SipInv'
<1>1. PICK o : AllOK(World(ua, fresh - 1, o, accepted), ua, Works, net)
  BY DEF SipInv
<1> DEFINE W == World(ua, fresh - 1, o, accepted)
<1>2. MessageOK(W, m) /\ m \in Messages(W)
  BY <1>1 DEF AllOK, MessageOK
<1>3. W.agents = Agents /\ W.peers = Peers /\ Phone \in Peers /\ Phone \notin Agents
  BY DEF World, Agents, Peers, SipInv
<1> HIDE DEF W
<1>4. /\ status \in 100..699 /\ m.to = Phone /\ UNCHANGED <<ua, amid, fresh, accepted>>
      /\ \A n \in net \ net' : n.to \notin Agents
  <2>1. m.to = Phone /\ UNCHANGED <<ua, amid, fresh, accepted>> /\ net \ net' \subseteq {m}
    BY DEF PhoneAnswers
  <2>2. QED
    BY <1>3, <2>1 DEF Statuses
<1>5. CASE /\ m.status = 0 /\ m.method # "ACK"
           /\ net' = (net \ {m}) \cup {Response(m, status, m.branch)}
  <2>1. m.branch \in 1..W.names
    BY <1>2, MessageIs
  <2>2. MessageOK(W, Response(m, status, m.branch))
    BY <1>2, <1>3, <1>4, <1>5, <2>1, ResponseOK, ZenonT(60)
  <2>3. QED
    BY <1>1, <1>4, <1>5, <2>2, NetworkInv DEF W
<1>6. CASE /\ m.status >= 300 /\ m.method = "INVITE" /\ status = 200
           /\ net' = (net \ {m}) \cup
                      {Request("ACK", Phone, m.from, m.branch, m.call, m.tag, "plain")}
  <2> DEFINE n == Request("ACK", Phone, m.from, m.branch, m.call, m.tag, "plain")
  <2>1. /\ n = [f \in MessageFields |-> n[f]]
        /\ n.method = "ACK" /\ n.status = 0 /\ n.from = Phone /\ n.to = m.from
        /\ n.branch = m.branch /\ n.call = m.call /\ n.tag = m.tag /\ n.option = "plain"
    BY RequestIs
  <2>2. net' \subseteq net \cup {n}
    BY <1>6
  <2> HIDE DEF n
  <2>3. "ACK" \in Methods /\ "plain" \in RequestOptions /\ DialogType("ACK") = DialogType("INVITE")
    BY DEF Methods, RequestOptions, DialogType
  <2>4. n \in Messages(W)
    BY <1>2, <1>3, <2>1, <2>3, MessageIs
  <2>5. W.origin[n.call].type = DialogType(n.method)
    BY <1>2, <1>6, <2>1, <2>3 DEF MessageOK
  <2>6. MessageOK(W, n)
    BY <2>1, <2>4, <2>5 DEF MessageOK
  <2>7. QED
    BY <1>1, <1>4, <2>2, <2>6, NetworkInv DEF W
<1>7. QED
  BY <1>5, <1>6 DEF PhoneAnswers

(* At first there are no transactions, dialogs and alarms.               *)
LEMMA NewAgentFields ==
  LET U == NewAgent
  IN /\ Shape(U) /\ U.transactions = << >> /\ U.dialogs = << >> /\ U.out = {} /\ U.told = << >>
     /\ U.forgotten = {} /\ U.value = [t \in Doubled |-> 0] /\ U.alarm = [t \in AllTimers |-> Null]
BY DEF NewAgent, Shape, Fields, AllTimers, Kinds

LEMMA NewAgentOK ==
  ASSUME NEW W, NEW a, NEW O
  PROVE  AgentOK(W, a, NewAgent, 0) /\ Settled(O, WorksOf({}, Null), NewAgent)
<1> DEFINE U == NewAgent
           M == WorksOf({}, Null)
<1>1. /\ Shape(U) /\ U.transactions = << >> /\ U.dialogs = << >> /\ U.out = {} /\ U.told = << >>
      /\ U.forgotten = {} /\ U.value = [t \in Doubled |-> 0] /\ U.alarm = [t \in AllTimers |-> Null]
  BY NewAgentFields
<1> HIDE DEF U
<1>2. DOMAIN U.transactions = {} /\ U.transactions = [i \in DOMAIN U.transactions |-> U.transactions[i]]
  BY <1>1
<1>3. U.dialogs \in Seq(Dialogs(W, a)) /\ DOMAIN U.dialogs = {}
  BY <1>1
<1>4. AgentOK(W, a, U, 0)
  BY <1>1, <1>2, <1>3 DEF AgentOK, DistinctCalls, Calling
<1>5. ClockOK(O, M, U)
  <2>1. WorksOK(O, M, U)
    BY DEF WorksOK, WorksOf
  <2> HIDE DEF M
  <2>2. QED
    BY <1>1, <1>2, <2>1 DEF ClockOK
<1>6. ASSUME NEW k \in Kinds PROVE Follows(M, U, k)
  <2>1. OfKind(U, k) = {} /\ Due(U, k, 0) = {}
    BY <1>2 DEF OfKind, Due
  <2>2. \A t \in Timers[k] : U.alarm[t] = Null
    BY <1>1 DEF AllTimers
  <2>3. Holds(U, k, 0, Due(U, k, 0))
    BY <1>1, <2>1, <2>2 DEF Holds
  <2>4. StartsOf(M, k) = {}
    BY DEF StartsOf, WorksOf
  <2> HIDE DEF M
  <2>5. Complete(U, k)
    BY <2>1, <2>3 DEF Complete, Paced
  <2>6. QED
    BY <2>4, <2>5 DEF Follows
<1>7. QED
  BY <1>4, <1>5, <1>6 DEF Settled, U

LEMMA InitSip ==
  ASSUME Init
  PROVE  SipInv
<1>1. PICK N \in Networks : ua = [a \in N.agents |-> NewAgent]
  BY DEF Init
<1>2. Agents = N.agents /\ Phone \notin Agents /\ ua = [a \in Agents |-> ua[a]]
  BY <1>1, SipAssumption DEF Agents
<1> DEFINE W == World(ua, fresh - 1, 0, accepted)
<1>3. W.names = fresh - 1
  BY DEF World
<1> HIDE DEF W
<1>4. NewAgent.out = {} /\ NewAgent.told = << >>
  BY NewAgentFields
<1>5. /\ AmidOK /\ \A a \in Agents : Works[a] = WorksOf({}, Null)
  <2>1. /\ starting = [a \in Agents |-> {}]
        /\ hearing = [a \in Agents |-> Null] /\ ringing = [a \in Agents |-> Null]
    BY DEF Init
  <2>2. \A a \in Agents : starting[a] = {} /\ hearing[a] = Null /\ ringing[a] = Null
    BY <2>1
  <2>3. AmidOK
    BY <2>1, <2>2 DEF AmidOK
  <2>4. QED
    BY <2>2, <2>3 DEF Works
<1>6. AllOK(W, ua, Works, net)
  <2>1. ASSUME NEW a \in DOMAIN ua
        PROVE  /\ AgentOK(W, a, ua[a], 0) /\ Settled(1..W.names, Works[a], ua[a])
               /\ ua[a].out = {} /\ ua[a].told = << >>
    <3>1. ua[a] = NewAgent /\ Works[a] = WorksOf({}, Null)
      BY <1>1, <1>2, <1>5
    <3>2. QED
      BY <1>4, <3>1, NewAgentOK
  <2>2. net = {}
    BY DEF Init
  <2>3. QED
    BY <2>1, <2>2 DEF AllOK
<1>7. fresh \in Nat \ {0}
  BY DEF Init
<1>8. QED
  BY <1>2, <1>5, <1>6, <1>7 DEF SipInv, W

(* Every step keeps the invariant.                                       *)
LEMMA NextSip ==
  ASSUME SipInv, [Next]_vars
  PROVE  SipInv'
<1>1. ASSUME Application PROVE SipInv'
  <2>1. PICK a \in Agents :
           \E peer \in Others(a) :
              Invite(a, peer) \/ Message(a, peer) \/ Bye(a, peer) \/ Notify(a, peer)
    BY <1>1 DEF Application
  <2>2. PICK peer \in Others(a) :
           Invite(a, peer) \/ Message(a, peer) \/ Bye(a, peer) \/ Notify(a, peer)
    BY <2>1
  <2>3. QED
    BY <2>2, InviteOK, AskMessageOK, ByeOK, NotifyOK
<1>2. ASSUME PhoneActs PROVE SipInv'
  BY <1>2, PhoneCallsOK, PhoneEndsOK, PhoneAnswersOK DEF PhoneActs
<1>3. ASSUME NEW a \in Agents, NEW m \in net, Receive(a, m) PROVE SipInv'
  BY <1>3, ReceiveOK
<1>4. ASSUME NEW a \in Agents, NEW m \in net, NEW e \in Alarms(ua[a]), Meet(a, e, m) PROVE SipInv'
  BY <1>4, MeetOK
<1>5. ASSUME Proceeds PROVE SipInv'
  <2>1. ASSUME Alarmed PROVE SipInv'
    BY <2>1, GoOffOK DEF Alarmed
  <2>2. ASSUME Tick PROVE SipInv'
    BY <2>2, TickOK
  <2>3. ASSUME NEW a \in Agents, NEW j \in starting[a], Start(a, j) PROVE SipInv'
    BY <2>3, StartOK
  <2>4. ASSUME NEW a \in Agents, Ring(a) PROVE SipInv'
    BY <2>4, RingOK
  <2>5. ASSUME NEW a \in Agents, hearing[a] # Null, Receive(a, hearing[a].message) PROVE SipInv'
    <3>1. hearing[a].message \in net
      BY <2>5 DEF SipInv, AmidOK
    <3>2. QED
      BY <2>5, <3>1, ReceiveOK
  <2>6. QED
    BY <1>5, <2>1, <2>2, <2>3, <2>4, <2>5 DEF Proceeds, GoesOn
<1>6. ASSUME UNCHANGED vars PROVE SipInv'
  <2>1. /\ ua' = ua /\ net' = net /\ fresh' = fresh /\ accepted' = accepted
        /\ starting' = starting /\ hearing' = hearing /\ ringing' = ringing
    BY <1>6 DEF vars, amid
  <2>2. Works' = Works /\ Agents' = Agents
    BY <2>1 DEF Works, Agents
  <2>3. AmidOK' = AmidOK
    BY <2>1, <2>2 DEF AmidOK
  <2>4. QED
    BY <2>1, <2>2, <2>3 DEF SipInv
<1>7. QED
  BY <1>1, <1>2, <1>3, <1>4, <1>5, <1>6 DEF Next

(* The inductive invariant: the agents, the messages under way and the   *)
(* names agree on one history of the calls, and the alarms of each agent *)
(* are those its transactions ask for, or those of the first timers that *)
(* the application has started so far, in the kinds of which neither two *)
(* transactions nor two threads at one of them have overlapped.          *)
THEOREM SipInvariantHolds == Spec => []SipInv
<1>1. Init => SipInv
  BY InitSip
<1>2. SipInv /\ [Next]_vars => SipInv'
  BY NextSip
<1>3. QED
  BY <1>1, <1>2, PTL DEF Spec

(* What the invariant says of the agents.                                *)
LEMMA SipInvSays ==
  ASSUME SipInv
  PROVE  \E o : \A a \in Agents :
           LET W == World(ua, fresh - 1, o, accepted)
           IN /\ AgentOK(W, a, ua[a], 0)
              /\ Settled(1..(fresh - 1), WorksOf(starting[a], ringing[a]), ua[a])
<1>1. PICK o : AllOK(World(ua, fresh - 1, o, accepted), ua, Works, net)
  BY DEF SipInv
<1>2. QED
  BY <1>1, AgentsAre

(* An agent has a session with another only if one of the two, as the    *)
(* called one, has begun it with that very call and tag: whatever is     *)
(* lost, repeated or late, matchingDialog() and the 2xx of send2xx() make*)
(* up none.                                                              *)
THEOREM NoPhantomSessionHolds == Spec => []NoPhantomSession
<1>1. ASSUME SipInv PROVE NoPhantomSession
  <2>1. PICK o : \A a \in Agents :
           AgentOK(World(ua, fresh - 1, o, accepted), a, ua[a], 0)
    BY <1>1, SipInvSays
  <2> DEFINE W == World(ua, fresh - 1, o, accepted)
  <2>2. W.agents = Agents /\ W.begun = accepted
    BY DEF World, Agents
  <2> HIDE DEF W
  <2>3. ASSUME NEW a \in Agents, NEW d \in ToSet(ua[a].dialogs), d.type = "INVITE", d.peer \in Agents
        PROVE  {<<a, d.call, d.tag>>, <<d.peer, d.call, d.tag>>} \cap accepted # {}
    <3>1. ua[a].dialogs \in Seq(Dialogs(W, a))
      BY <2>1 DEF AgentOK, W
    <3>2. d \in Dialogs(W, a)
      BY <3>1 DEF ToSet
    <3>3. QED
      BY <2>2, <2>3, <3>2 DEF Dialogs
  <2>4. QED
    BY <2>3 DEF NoPhantomSession
<1>2. QED
  BY <1>1, SipInvariantHolds, PTL

(* No agent has two dialogs of one call: an INVITE that is received      *)
(* again, or whose 2xx is, begins no second session.                     *)
THEOREM OneSessionPerCallHolds == Spec => []OneSessionPerCall
<1>1. ASSUME SipInv PROVE OneSessionPerCall
  <2>1. \A a \in Agents : DistinctCalls(ua[a].dialogs)
    BY <1>1, SipInvSays DEF AgentOK
  <2>2. QED
    BY <2>1 DEF DistinctCalls, OneSessionPerCall
<1>2. QED
  BY <1>1, SipInvariantHolds, PTL

(* A timer of transaction x is set, ...                                  *)
Running(U, t, x) == \E e \in Alarms(U) : t = e.timer /\ x = e.owner

(* ... or about to be set.                                               *)
Pending(M, t, x) == \E j \in M.starts : t \in ToSet(j.timers) /\ x = j.owner

(* Of a kind with one transaction, R run.                                *)
LEMMA RunningIs ==
  ASSUME NEW O, NEW M, NEW U, ClockOK(O, M, U), NEW k \in Kinds, NEW i, NEW R,
         R \subseteq Timers[k], Holds(U, k, i, R), NEW t, NEW x
  PROVE  Running(U, t, x) /\ t \in Timers[k] <=> t \in R /\ x = i
<1>1. DOMAIN U.alarm = AllTimers
  BY DEF ClockOK
<1>2. ASSUME NEW e \in Alarms(U), e.timer \in Timers[k]
      PROVE  e.timer \in R /\ e.owner = i
  <2>1. e \in Set(U)
    BY <1>2 DEF Alarms, Holds
  <2>2. PICK u \in DOMAIN U.alarm : /\ U.alarm[u] # Null
                                    /\ e = [timer |-> u, owner |-> U.alarm[u].owner, left |-> U.alarm[u].left]
    BY <2>1 DEF Set
  <2>3. e.timer = u /\ e.owner = U.alarm[u].owner
    BY <2>2
  <2>4. QED
    BY <1>2, <2>2, <2>3 DEF Holds
<1>3. ASSUME t \in R PROVE \E e \in Alarms(U) : t = e.timer /\ i = e.owner
  <2>1. t \in Timers[k] /\ t \in AllTimers
    BY <1>3 DEF AllTimers
  <2>2. U.alarm[t] # Null /\ U.alarm[t].owner = i
    BY <1>3, <2>1 DEF Holds
  <2> DEFINE e == [timer |-> t, owner |-> U.alarm[t].owner, left |-> U.alarm[t].left]
  <2>3. e \in Alarms(U)
    BY <1>1, <2>1, <2>2 DEF Alarms, Set
  <2>4. e.timer = t /\ e.owner = i
    BY <2>2
  <2>5. QED
    BY <2>3, <2>4
<1>4. QED
  BY <1>2, <1>3 DEF Running

(* Timers that are about to start are of the kind of their transaction.  *)
LEMMA PendingIs ==
  ASSUME NEW O, NEW M, NEW U, ClockOK(O, M, U), NEW k \in Kinds, NEW t, NEW x
  PROVE  Pending(M, t, x) /\ t \in Timers[k] <=>
           \E j \in StartsOf(M, k) : t \in ToSet(j.timers) /\ x = j.owner
<1>1. ToSet(<<"B">>) = {"B"} /\ ToSet(<<"F">>) = {"F"}
  BY DEF ToSet
<1>2. ToSet(<<"A", "B">>) = {"A", "B"} /\ ToSet(<<"E", "F">>) = {"E", "F"}
  BY DEF ToSet
<1>3. ASSUME NEW j \in M.starts PROVE KindOf(j) \in Kinds /\ ToSet(j.timers) \subseteq Timers[KindOf(j)]
  <2>1. j \in Starters(O)
    BY DEF ClockOK, WorksOK
  <2>2. j.timers \in {<<"A", "B">>, <<"B">>, <<"E", "F">>, <<"F">>}
    BY <2>1 DEF Starters
  <2>3. /\ j.timers = <<"A", "B">> => KindOf(j) = "CI"
        /\ j.timers = <<"B">> => KindOf(j) = "CI"
        /\ j.timers = <<"E", "F">> => KindOf(j) = "CN"
        /\ j.timers = <<"F">> => KindOf(j) = "CN"
    BY <2>1, RestIs
  <2>4. QED
    BY <1>1, <1>2, <2>2, <2>3, TimersAre
<1>4. ASSUME NEW j \in M.starts, t \in ToSet(j.timers), t \in Timers[k] PROVE KindOf(j) = k
  BY <1>3, <1>4, KindsApart
<1>5. QED
  BY <1>3, <1>4 DEF Pending, StartsOf

(* Together they are those that the state asks for.                      *)
LEMMA TimersOfKind ==
  ASSUME NEW O, NEW M, NEW U, Settled(O, M, U), NEW k \in Kinds \ U.shared, NEW t, NEW x
  PROVE  (Running(U, t, x) \/ Pending(M, t, x)) /\ t \in Timers[k] <=>
           x \in OfKind(U, k) /\ t \in Runs(U.transactions[x])
<1>1. ClockOK(O, M, U) /\ Follows(M, U, k)
  BY DEF Settled
<1>2. Pending(M, t, x) /\ t \in Timers[k] <=>
        \E j \in StartsOf(M, k) : t \in ToSet(j.timers) /\ x = j.owner
  BY <1>1, PendingIs
<1>3. CASE StartsOf(M, k) = {} /\ Complete(U, k)
  <2>1. PICK i : Holds(U, k, i, Due(U, k, i))
    BY <1>3 DEF Complete
  <2>2. Due(U, k, i) \subseteq Timers[k]
    <3>1. i \in OfKind(U, k) => U.transactions[i].kind = k
      BY DEF OfKind
    <3>2. QED
      BY <3>1, RunsOfKind DEF Due
  <2>3. Running(U, t, x) /\ t \in Timers[k] <=> t \in Due(U, k, i) /\ x = i
    BY <1>1, <2>1, <2>2, RunningIs
  <2>4. x \in OfKind(U, k) /\ t \in Runs(U.transactions[x]) <=> t \in Due(U, k, i) /\ x = i
    BY <2>1 DEF Holds, Due
  <2>5. ~(Pending(M, t, x) /\ t \in Timers[k])
    BY <1>2, <1>3
  <2>6. QED
    BY <2>3, <2>4, <2>5
<1>4. ASSUME NEW j, StartsOf(M, k) = {j}, Opens(j, U, k)
      PROVE  (Running(U, t, x) \/ Pending(M, t, x)) /\ t \in Timers[k] <=>
               x \in OfKind(U, k) /\ t \in Runs(U.transactions[x])
  <2> DEFINE i == j.owner
             T == ToSet(j.timers)
  <2>1. ToSet(<<"B">>) = {"B"} /\ ToSet(<<"F">>) = {"F"}
    BY DEF ToSet
  <2>2. ToSet(<<"A", "B">>) = {"A", "B"} /\ ToSet(<<"E", "F">>) = {"E", "F"}
    BY DEF ToSet
  <2>3. i \in OfKind(U, k) /\ U.transactions[i].kind = k
    BY <1>4 DEF Opens, OfKind
  <2>4. \E R \in SUBSET Timers[k] : Holds(U, k, i, R) /\ R \cup T = Runs(U.transactions[i])
    <3>1. CASE k = "CI"
      <4>1. /\ Runs(U.transactions[i]) = {"A", "B"} /\ {"A"} \in SUBSET Timers[k]
            /\ {} \in SUBSET Timers[k]
        BY <1>4, <2>3, <3>1, RunsIs, TimersAre DEF Opens
      <4>2. CASE j.timers = <<"A", "B">> /\ Holds(U, k, i, {})
        <5>1. {} \cup T = Runs(U.transactions[i])
          BY <2>2, <4>1, <4>2
        <5>2. QED
          BY <4>1, <4>2, <5>1
      <4>3. CASE j.timers = <<"B">> /\ Holds(U, k, i, {"A"})
        <5>1. {"A"} \cup T = Runs(U.transactions[i])
          BY <2>1, <4>1, <4>3
        <5>2. QED
          BY <4>1, <4>3, <5>1
      <4>4. QED
        BY <1>4, <3>1, <4>2, <4>3 DEF Opens
    <3>2. CASE k # "CI"
      <4>1. k = "CN"
        BY <1>4, <3>2 DEF Opens
      <4>2. /\ Runs(U.transactions[i]) = {"E", "F"} /\ {"E"} \in SUBSET Timers[k]
            /\ {} \in SUBSET Timers[k]
        BY <1>4, <2>3, <3>2, <4>1, RunsIs, TimersAre DEF Opens
      <4>3. CASE j.timers = <<"E", "F">> /\ Holds(U, k, i, {})
        <5>1. {} \cup T = Runs(U.transactions[i])
          BY <2>2, <4>2, <4>3
        <5>2. QED
          BY <4>2, <4>3, <5>1
      <4>4. CASE j.timers = <<"F">> /\ Holds(U, k, i, {"E"})
        <5>1. {"E"} \cup T = Runs(U.transactions[i])
          BY <2>1, <4>2, <4>4
        <5>2. QED
          BY <4>2, <4>4, <5>1
      <4>5. QED
        BY <1>4, <3>2, <4>3, <4>4 DEF Opens
    <3>3. QED
      BY <3>1, <3>2
  <2>5. PICK R \in SUBSET Timers[k] : Holds(U, k, i, R) /\ R \cup T = Runs(U.transactions[i])
    BY <2>4
  <2>6. Running(U, t, x) /\ t \in Timers[k] <=> t \in R /\ x = i
    BY <1>1, <2>5, RunningIs
  <2>7. Pending(M, t, x) /\ t \in Timers[k] <=> t \in T /\ x = i
    BY <1>2, <1>4
  <2>8. x \in OfKind(U, k) <=> x = i
    BY <2>3, <2>5 DEF Holds
  <2> HIDE DEF T, i
  <2>9. QED
    BY <2>5, <2>6, <2>7, <2>8
<1>5. QED
  BY <1>1, <1>3, <1>4 DEF Follows

(* As long as neither two transactions of a kind nor two threads at one  *)
(* of them have overlapped, the alarms of an agent that are set, or that *)
(* sendRequest() is about to set, are exactly those that the states of   *)
(* its transactions ask for: none calls a transaction that clear() has   *)
(* destroyed, and none that the state needs is missing.                  *)
THEOREM TimersFollowStateHolds == Spec => []TimersFollowState
<1>1. ASSUME SipInv, NEW a \in Agents, NEW k \in Kinds \ ua[a].shared
      PROVE  {p \in {<<e.timer, e.owner>> : e \in Alarms(ua[a])} \cup Awaited(a) : p[1] \in Timers[k]} =
             UNION {Runs(ua[a].transactions[i]) \X {i} : i \in OfKind(ua[a], k)}
  <2> DEFINE U == ua[a]
             M == WorksOf(starting[a], ringing[a])
             set == {<<e.timer, e.owner>> : e \in Alarms(U)}
             asked == UNION {Runs(U.transactions[i]) \X {i} : i \in OfKind(U, k)}
  <2>1. Settled(1..(fresh - 1), M, U)
    BY <1>1, SipInvSays
  <2>2. M.starts = starting[a]
    BY DEF WorksOf
  <2>3. \A p : p \in set <=> \E t, x : p = <<t, x>> /\ Running(U, t, x)
    BY DEF Running
  <2>4. \A p : p \in Awaited(a) <=> \E t, x : p = <<t, x>> /\ Pending(M, t, x)
    BY <2>2 DEF Awaited, Pending
  <2>5. \A p : p \in asked <=>
           \E t, x : p = <<t, x>> /\ x \in OfKind(U, k) /\ t \in Runs(U.transactions[x])
    OBVIOUS
  <2>6. \A t, x : (Running(U, t, x) \/ Pending(M, t, x)) /\ t \in Timers[k] <=>
                    x \in OfKind(U, k) /\ t \in Runs(U.transactions[x])
    BY <2>1, TimersOfKind
  <2> HIDE DEF U, M, set, asked
  <2>7. \A t, x : <<t, x>>[1] = t
    OBVIOUS
  <2>8. \A p : p \in asked <=> (p \in set \/ p \in Awaited(a)) /\ p[1] \in Timers[k]
    BY <2>3, <2>4, <2>5, <2>6, <2>7
  <2>9. {p \in set \cup Awaited(a) : p[1] \in Timers[k]} = asked
    BY <2>8
  <2>10. QED
    BY <2>9 DEF set, asked, U
<1>2. SipInv => TimersFollowState
  BY <1>1 DEF TimersFollowState, Kinds
<1>3. QED
  BY <1>2, SipInvariantHolds, PTL

(* As long as neither two INVITEs of an agent nor two threads at one have*)
(* overlapped, the INVITE that goes out for the n-th time does so        *)
(* 2^(n-1) - 1 times T1 after the first, and the next one no later than  *)
(* 2^n - 1 times T1: handler() doubles timer A, and nothing else starts  *)
(* it again.                                                             *)
THEOREM BacksOffHolds == Spec => []BacksOff
<1>1. ASSUME NEW O, NEW M, NEW U, Settled(O, M, U), "CI" \notin U.shared, NEW i \in OfKind(U, "CI"),
             U.transactions[i].state = "Calling", U.alarm["B"] # Null
      PROVE  /\ Timer1 * Doublings[U.transactions[i].tries - 1] <= Timeout - U.alarm["B"].left
             /\ Timeout - U.alarm["B"].left <= Timer1 * Doublings[U.transactions[i].tries]
  <2>1. ClockOK(O, M, U) /\ Follows(M, U, "CI") /\ "B" \in Timers["CI"]
    BY <1>1, TimersAre DEF Settled
  <2>2. ASSUME NEW j, Opens(j, U, "CI") PROVE FALSE
    BY <1>1, <2>1, <2>2 DEF Opens, Holds
  <2>3. Complete(U, "CI")
    BY <2>1, <2>2 DEF Follows
  <2>4. PICK j : Holds(U, "CI", j, Due(U, "CI", j))
    BY <2>3 DEF Complete
  <2>5. Rings(U.transactions[i]) /\ j = i
    BY <1>1, <2>4 DEF Rings, OfKind, Holds
  <2>6. "A" \in Due(U, "CI", j) /\ "B" \in Due(U, "CI", j)
    BY <2>5, RunsIs DEF Due, Rings
  <2>7. U.alarm["A"] # Null /\ U.alarm["B"] # Null /\ "A" \in AllTimers /\ "B" \in AllTimers
    BY <2>4, <2>6, TimersAre DEF Holds
  <2>8. U.alarm["A"].left \in Nat /\ U.alarm["B"].left \in Nat
    BY <2>1, <2>7 DEF ClockOK
  <2>9. OnTime(U, i)
    BY <1>1, <2>3 DEF Complete, Paced
  <2>10. Beats(U.transactions[i].tries, U.value["A"], U.alarm["A"].left, U.alarm["B"].left)
    BY <2>5, <2>9 DEF OnTime, RingsIn
  <2>11. QED
    BY <2>8, <2>10, BeatElapsed
<1>2. ASSUME SipInv PROVE BacksOff
  <2>1. \A a \in Agents : Settled(1..(fresh - 1), WorksOf(starting[a], ringing[a]), ua[a])
    BY <1>2, SipInvSays
  <2>2. QED
    BY <1>1, <2>1 DEF BacksOff
<1>3. QED
  BY <1>2, SipInvariantHolds, PTL

(* The types of the transactions, the dialogs, the messages and the      *)
(* alarms; no alarm is ever due before its tick.                         *)
THEOREM SipTypeOKHolds == Spec => []TypeOK
<1>1. ASSUME SipInv PROVE TypeOK
  <2>1. PICK o : AllOK(World(ua, fresh - 1, o, accepted), ua, Works, net)
    BY <1>1 DEF SipInv
  <2> DEFINE W == World(ua, fresh - 1, o, accepted)
  <2>2. W.names = fresh - 1 /\ W.peers = Peers /\ Agents = DOMAIN ua
    BY DEF World, Agents, Peers
  <2>3. fresh \in Nat \ {0}
    BY <1>1 DEF SipInv
  <2>4. \A m \in net : MessageOK(W, m)
    BY <2>1 DEF AllOK
  <2>5. \A a \in Agents :
           /\ AgentOK(W, a, ua[a], 0) /\ ua[a].out = {} /\ ua[a].told = << >>
           /\ ClockOK(1..W.names, WorksOf(starting[a], ringing[a]), ua[a])
    <3>1. \A a \in Agents : Works[a] = WorksOf(starting[a], ringing[a])
      BY DEF Works
    <3>2. QED
      BY <2>1, <2>2, <3>1 DEF AllOK, Settled
  <2> HIDE DEF W
  <2>6. ASSUME NEW a \in Agents, NEW i \in DOMAIN ua[a].transactions
        PROVE  LET t == ua[a].transactions[i]
               IN /\ t.kind \in DOMAIN Timers /\ t.request.method \in Methods
                  /\ t.state \in States
    <3> DEFINE t == ua[a].transactions[i]
    <3>1. TransactionOK(W, a, i, t)
      BY <2>5 DEF AgentOK
    <3> HIDE DEF t
    <3>2. t \in Transactions(W) /\ t.request \in Messages(W)
      BY <3>1 DEF TransactionOK, MessageOK
    <3>3. t.request.method \in Methods
      BY <3>2, MessageIs
    <3>4. QED
      BY <3>2, <3>3 DEF Transactions, t
  <2>7. ASSUME NEW a \in Agents, NEW d \in ToSet(ua[a].dialogs)
        PROVE  /\ d.type \in {"INVITE", "SUBSCRIBE"} /\ d.peer \in Peers
               /\ d.call \in 1..fresh /\ d.tag \in 1..fresh
    <3>1. ua[a].dialogs \in Seq(Dialogs(W, a))
      BY <2>5 DEF AgentOK
    <3>2. d \in Dialogs(W, a)
      BY <3>1 DEF ToSet
    <3>3. d \in [type : Types, peer : W.peers, call : 1..W.names, tag : 1..W.names]
      BY <3>2 DEF Dialogs
    <3>4. QED
      BY <2>2, <2>3, <3>3 DEF Types
  <2>8. ASSUME NEW m \in net PROVE m.from \in Peers /\ m.to \in Peers /\ m.method \in Methods
    <3>1. m \in Messages(W)
      BY <2>4 DEF MessageOK
    <3>2. QED
      BY <2>2, <3>1, MessageIs
  <2>9. ASSUME NEW a \in Agents, NEW e \in Alarms(ua[a]) PROVE e.left \in Nat
    <3>1. CASE e \in ua[a].forgotten
      BY <2>5, <3>1 DEF ClockOK
    <3>2. CASE e \in Set(ua[a])
      <4>1. \A u \in DOMAIN ua[a].alarm : ua[a].alarm[u] # Null => ua[a].alarm[u].left \in Nat
        BY <2>5 DEF ClockOK
      <4>2. QED
        BY <3>2, <4>1 DEF Set
    <3>3. QED
      BY <3>1, <3>2 DEF Alarms
  <2>10. ASSUME NEW a \in Agents
         PROVE  WorksOK(1..W.names, WorksOf(starting[a], ringing[a]), ua[a])
    BY <2>5 DEF ClockOK
  <2>11. ASSUME NEW a \in Agents, NEW j \in starting[a]
         PROVE  /\ j.owner \in 1..fresh
                /\ j.timers \in {<<"A", "B">>, <<"B">>, <<"E", "F">>, <<"F">>}
    <3>1. j \in Starters(1..W.names)
      BY <2>10 DEF WorksOK, WorksOf
    <3>2. QED
      BY <2>2, <2>3, <3>1 DEF Starters
  <2>12. ASSUME NEW a \in Agents, ringing[a] # Null PROVE ringing[a].state \in States
    BY <2>10, <2>12 DEF WorksOK, WorksOf
  <2>13. \A a \in Agents : hearing[a] # Null => hearing[a].message \in net
    BY <1>1 DEF SipInv, AmidOK
  <2>14. QED
    BY <2>5, <2>6, <2>7, <2>8, <2>9, <2>11, <2>12, <2>13 DEF TypeOK
<1>2. QED
  BY <1>1, SipInvariantHolds, PTL

=============================================================================
