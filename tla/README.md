# EPOS: specifications of the kernel and of its protocols

TLA+ specifications of EPOS, the embedded operating system in this repository,
with TLC configurations that check them on small instances and TLAPS proofs of
theorems about them for every instance. Paths are relative to the repository.

## The system and its parts

EPOS is a library operating system in C++. An application is linked with the
kernel; on one processor (`Traits<Thread>::smp` is false) interrupts are the only
source of concurrency, and `Thread::lock()`, which disables them, the only lock.

| Part | State | Operations | Modules |
|---|---|---|---|
| Lists (`include/utility/list.h`) | links, ranks, the chosen element | insert, remove, choose, choose_another | `SchedulingList`, `SchedulingListProofs`, `SequenceLemmas` |
| Threads and scheduler (`thread.h`, `thread.cc`, `thread_init.cc`, `scheduler.h`) | state, rank, queue and joiner of each thread, ready list, thread count, contexts | create, delete, priority, join, pass, suspend, resume, yield, exit, sleep, wakeup, wakeup_all, time_slicer, idle | `Thread`, `ThreadProofs` |
| Synchronizers (`synchronizer.h`, `semaphore.h`, `mutex.h`, `condition.h`) | value, locked, wait queue | p, v, lock, unlock, wait, signal, broadcast, construction, destruction | `Synchronizers`, `SemaphorePool`, `TokenPool`, `SemaphoreProofs` |
| Alarms (`alarm.h`, `alarm.cc`, relative lists) | queue of requests, times left | create, delete, tick, call | `Alarm`, `AlarmClock`, `AlarmProofs` |
| TCP (`tcp.cc`, `ip/tcp.h`) | state and sequence numbers of each socket | connect, listen, send, close, a handler per state | `TcpSocket`, with `Ieee1451` |
| IEEE 1451 (`ieee1451_tim.cc`, `ieee1451_ncap.cc`, the temperature sensor, `ieee1451_ncap_application.cc`) | sensor thread and its buffer; sockets, retrievers and cache of the network node | connect, retrieve the TEDS, operate, stream, disconnect, restart | `Ieee1451`, `Ieee1451Proofs` |
| SIP transactions and user agent (`sip_transactions.cc`, `sip_user_agent.cc`, `sip_manager.cc`) | transactions, dialogs, a slot for each timer | invite, message, bye, notify, receive, ten timers | `SipUserAgent`, `Sip`, `SipProofs` |
| Periodic threads, `Alarm::delay()` | a semaphore, a handler, an alarm | wait_next, delay | not modelled |
| AES accelerator (`src/security`) | two singletons, a semaphore, device registers | cipher, decipher | not modelled |
| ARP and network (`arp.h`, `network.cc`) | table of entries, a condition each | arp, update, timeout | not modelled |
| Heap (`utility/heap.*`, the grouping list) | list of free elements, their total, the blocks in use | alloc, free, memory handed over at start-up | `Heap`, `HeapProofs` |
| C-MAC, ad-hoc routing, IP/UDP/ICMP/DHCP | protocol state machines, formatting | | not modelled |
| Mediators, boot, setup, tools | registers, instructions | | not modelled |

How they interact. An application thread calls the operations of threads and
synchronizers. A synchronizer is a wait queue plus a value: it disables
interrupts and calls `Thread::sleep()`, `wakeup()` or `wakeup_all()`, which moves
threads between its queue and the ready list and ends in `dispatch()`. The timer
interrupt calls `Alarm::handler()` and, when its count expires,
`Thread::time_slicer()`; an alarm's handler calls back a function, resumes a
thread or posts a semaphore, in whatever flow the interrupt borrowed. Segments
and datagrams arrive by interrupts too: IP hands a segment to every socket in
turn, whose handler answers at once and calls its owner back. A sensor (TIM) is
the client of such a socket and its network node (NCAP) the server; the node
also gets requests from other nodes by SIP, in another thread. A SIP user agent
is entered by the application, by the thread that receives datagrams and by the
alarms of its transactions.

What is hard. Every operation ends by switching flows in the middle of a
function, and what it reads before and after that point belongs to different
moments; the scheduler's `_chosen` pointer changes under `remove()`; a thread is
in one of several lists with a single list element; threads suspend, resume,
join and destroy one another in any order; a synchronizer is destroyed while
threads wait; ranks in the alarm queue are relative to whatever happens to
stand before. No segment of TCP is ever sent again, so one that is lost,
duplicated or late has to be survived; a sending thread and the interrupt that
answers on the same socket interleave inside `send()`; a module may restart while
its node still holds the old connection. The transactions of a SIP agent share
the slots of their timers, and every request and response may be lost, doubled
or overtaken. `PROJECT.json` lists these hazards at their lines.

What makes each part correct:

- Threads: what the scheduler believes runs is what the processor executes; a
  thread is in the ready list exactly when it may run and in a wait queue exactly
  when it waits; joins are paired; the count of threads is right; the best rank
  runs, and equals take turns.
- Synchronizers: a negative semaphore counts its waiting threads, tokens are
  neither lost nor made up, waiters are served in order, a mutex excludes.
- Alarms: none is early, none is lost, none is called more often than asked, and
  the relative queue is a list of countdowns.
- TCP and IEEE 1451: what a socket gives its owner is what one connection of the
  other side sent, in order and once; who is connected has a peer; the node knows
  which modules are there, and files what it reads under what it asked for.
- Heap: every byte it was given is in one block or in one free element, whatever
  is allocated and released in whatever order, and free neighbours are one element.
- SIP: a session is one that the called agent has accepted, and one call makes one;
  a transaction has the timers of its state, backs off, and ends.

## The modules

`SchedulingList` gives the lists as values: a list is the sequence of its
objects, a scheduling list a record of such a sequence and the chosen object.
Every operator translates one member function.

`Thread` has a variable for each field: `state`, `rank` (in `_link`), `waiting`,
`joining`, `scheduler`, `thread_count`, `queue` (one per synchronizer). Two
variables are the processor's: `cpu`, the flow that executes, and `context[t]`,
the flow saved in t's `_context`. `Dispatch(prev, next, ..)` is
`Thread::dispatch()`: when prev and next differ it saves the executing flow in
prev's context and loads next's. So "the running thread" of the scheduler and the
flow that executes are different things, and that they agree is a theorem.
`joinee` is what the flow's own stack holds, the join() it is in. `criterion`
is constant in a behaviour: the initial states cover every combination of the
members `preemptive` and `timed` that `scheduler.h` declares. Each operation is
one action, because it runs with interrupts disabled to its end; the loop of
`wakeup_all()` is a step per thread (`waking` names the queue, and blocks all
other actions), so that the states between its turns are checked too. `Unlinked`,
`Reranked` and the like name the parts of operations.

`Synchronizers` extends `Thread`: `P(s)` is `Sleep(s)` with the value decremented
or, with a token, a step that changes no thread. `inside` records whose lock()
or p() has returned and whose unlock() or v() has not been called, and `taken` counts
the tokens given out and not given back; the code keeps neither. `TokenPool`
says what a semaphore promises, without queue or scheduler, and `SemaphorePool`
maps any one semaphore of `Synchronizers` to it.

`Alarm` keeps the queue of requests with its relative ranks. `Tick` is the part of
`handler()` with interrupts disabled, `Call` the call that follows; `calling` counts
the calls under way, since further ticks may come before one is made. `age` counts
the ticks since an alarm was inserted, `asked` and `called` the calls. `AlarmClock`
is the same queue with absolute countdowns, and `Alarm` is shown to implement it.

`TcpSocket` has no state of its own: a socket is a record, and each operation and each
state's handler maps it, with a segment, to an `Outcome`: the socket afterwards, the
segments sent in order, and the callbacks made. `Handle` is the switch over the states.
`Ieee1451` puts two nodes on a network. `pc` is where the sensor's thread is;
`TimReceive` is the whole handling of a segment in the TIM, with the callbacks and the
reply. In the NCAP a segment is handled by one socket after the other (`NcapReceive`
starts, `NcapHandle` is one turn), because between turns nothing else handles segments
but threads do run. `ncap.out` collects what the turn sends. A handler is one action,
since it is IP's thread that runs it and the TIM's handlers and the sensor's thread
share nothing but the socket. What a thread does to a socket is cut where a handler may
come between: `Send` is two actions (`SendDataSet`/`DataSetSent`, `Ask`/`AskSend`), with
the load of `snd_nxt` anywhere in between, as compiled code has it; the sensor's
`close()` is four, for `tcp.cc:194` makes its FIN (`Disconnect`), sends it (`FinSent`),
tests the state only then (`CloseTests`) and sets it (`CloseSets`), without a lock.
Meanwhile the TIM is `ESTABLISHED` although the NCAP may have answered the FIN with its
own and be in `LAST_ACK`, or have deleted its socket; so `EstablishedHasPeer` speaks of
a TIM that has sent no FIN. An answer in that window is also where `disconnect()` comes
to wait for ever, without any fault of the network: the NCAP's FIN makes the TIM
`CLOSE_WAIT`, from which it goes to `LAST_ACK`, or to `FIN_WAIT1` if the state was
tested before, and nobody is left at the NCAP to answer. `log` and `got` are histories:
what was sent, what each socket gave to its owner. Initial sequence numbers are drawn at
random by the code; here they are the members of the sequence `Isns`, in that order and
all different. The runs give numbers 16 apart, more than a connection uses, so that a
number also tells the connection.

`SipUserAgent` has no state either: a user agent is a record `U` of transactions,
dialogs, timer slots, and what it sends and tells the application. Each handler maps it to another.
An alarm whose slot is overwritten is not stopped by anybody and still goes off:
`forgotten`. `shared` notes which kinds of transactions have overlapped (below),
`tries` how often an INVITE went out. `Sip` holds two agents, or one and
another phone (external: it answers as it likes), and a network that is a set: a
message that is never received is lost, `extra` counts those received twice.

Three threads enter an agent, none with a lock: the application's,
`receiveMessageThread()`, and whatever flow the alarms' handler borrows, with interrupts
enabled. `sendInvite()` and `sendRequest()` send the message first and start their two
timers afterwards (`sip_transactions.cc:84` and `:333`): `Ask` sends, and leaves the
transaction in `starting`; each `Start` sets one of its timers, whatever has become of
the transaction meanwhile. An answer handled in between may complete the transaction,
stop timers that do not run yet, or delete it: the timers start all the same, one of
them beside the D or K of a completed transaction, or for one that is gone. An alarm
goes off (`GoOff`) at any point of this. The callback of a timer first tests the state
and then acts, and a message is first matched with a transaction and then handled: where
the two meet at one transaction, both have only read, and go on in either order (`Meet`,
then `Ring` and `Receive` of the message in `hearing`). So a timer A that has seen
`Calling` goes off again after a 2xx, and a timer B that has seen it deletes the
transaction under the receiver. `Quiet` takes the alarm that goes off out of its slot:
it was asked for one time only.

What is taken whole, and why: the timers that one handler stops and starts in a row, for
a callback that comes between two of them has the effect of one that comes before or
after all, or ends the transaction; the requests and responses that a handler sends
itself, in the receiver's own thread, where no message is handled meanwhile; the updates
of the lists of transactions and dialogs, which a preemption in the middle would leave
half linked; and `createInvite()` and the like with their `sendRequest()`. The clock
(`Tick`) stands still until what has begun is over: no operation takes as long as a
tick, and all alarms that are due are served within one, in any order. (`Alarm` shows
that `handler()` serves one at a tick, so that of two due together one is a tick late;
SIP's timers are hundreds of ticks, and this drift is left out.) A transaction that is
gone when its alarm calls it, or when the thread that has found it goes on, is not
followed: the code then calls a method of freed memory. Nor is an alarm that goes off
between the two deletions of `stopTimer()` (`sip_user_agent.cc:1161`), which deletes the
handler before the alarm that calls it.

Two things break the bond between a transaction and its timers: two transactions of a
kind, which share the slots of their timers, and two threads at one transaction.
`shared` is the history of both, by kind (`AddTransaction`, `Mark`), and
`TimersFollowState`, `BacksOff` and `TransactionsEnd` are about kinds that are not in it
(`TransactionsEnd`, about behaviours in which none is). They say what the timers do when
nothing overlaps, and not what happens when it does: there TLC finds timers that nothing
stops and transactions that stay for ever.

`Heap` is the list of free elements, in its order, as pieces `[object, size]`; `blocks`
are the pieces in use, which the code knows from the word before each. A region handed
over at start-up is a `free()` of a block that was never allocated (`Give`). `Fits`,
`Cut` and `Merged` are the searches and the two updates of the grouping list. Each
operation is one step: `Heap_Wrapper<true>` holds its spin lock meanwhile, and the
wrapper that is used on one processor holds none, so the model supposes that no
other thread enters. A request that no element fits ends in `Machine::panic()` and is no
step. Requests are supposed not to wrap when the header is added (`heap.cc:26`).

In each module a definition that says "a fault" is not part of the specification:
it is a wrong version of the definition after it, used to see that the properties
notice.

### What callers must not do

The code accepts some calls and does not survive them: a second `join()` on a
thread, `suspend()` of a thread that waits, `resume()` of a thread that joins,
`delete` of either side of a pending join, `priority()` of a thread that is not
ready. `JoinReturnsAfterExit` therefore says nothing of a thread that is destroyed while another is
still in its join(). The constant `Allow` names those that an instance permits; the proofs and
the runs of the invariants take `Allow = {}`, the run `thread_priority` permits
one. Threads end outside locks and are not destroyed while they wait at a
semaphore (`EndsClean`), users of a guard call p() and then v(), and nobody
destroys an alarm whose call is under way.

## What the runs check

| Run | Checks | Bounds |
|---|---|---|
| `thread` | type invariant, lists, contexts, joins, count, order, preemption, join() | 5 threads (main, idle, 3 others), 1 wait queue, 2 ranks, 3 criteria |
| `thread_priority` | violated: priority() of the running thread | as `thread` |
| `sync` | counts, mutex waiters, order, refinement of `TokenPool` | 4 threads, a semaphore that handlers post too, a mutex, a condition, 2 ranks, Round_Robin, values up to 1 |
| `sync_live` | no ready thread starves, idle gives way, the machine reboots, a guard excludes and nobody waits at it for ever | 4 threads, a guard, 1 rank, 3 criteria |
| `mutex` | violated: mutual exclusion | 4 threads, a mutex and a guard, 2 ranks |
| `alarm` | ranks, calls, never early, refinement of `AlarmClock`, every alarm is served | 3 alarms, periods 0, 1 and 2, 2 times or for ever, 2 calls under way |
| `alarm_late` | violated: the period is kept | 2 alarms of period 2 |
| `ieee1451` | order of delivery, peers, presence, TEDS, connect() returns | 1 module that polls, 2 TEDS, 1 fault, 1 request by SIP, 4 connections |
| `ieee1451_stream` | violated: data sets arrive | 1 module that streams, no fault |
| `sip` | sessions, timers, back-off, transactions end | 2 agents and 1 duplicate, or 1 and a phone; 2 requests, 1 rejection |
| `sip_told` | violated: the application is told what ends | 1 agent and a phone |
| `heap` | pieces that hold their nodes, memory accounted for, neighbours merged | regions of 17, 6 and 3 words, the first two touching; requests of 1, 4 and 5; a node of 4, a header of 1 |

Why these bounds. Three threads besides main and idle are the least with a
runner, a joiner or waiter, and a thread that comes between them; two ranks and
the idle rank give a better, an equal and a worse thread; one queue is enough
for `Thread`, since a thread waits at one at a time, and two synchronizers are
used where their interplay matters. Three alarms are the least with one before
and one behind an insertion or removal. `MaxValue` stops v() at a value of one
(the run `sync`; two where a semaphore is a guard),
`MaxCalls` stops the timer while two calls of one alarm are under way, `MaxAge`
stops the count of an alarm's age at the longest period.
Threads, or alarms, that differ only by name are a symmetry set, in the runs of
safety properties only. Deadlock is an error in the run `heap`, which can always
release or allocate, and in the other runs not: the machine reboots, alarms run
out, and the protocols' inputs are bounded.

Two TEDS stand for the five that the node reads: a first, and a last whose reply
ends the retrieval. One fault of each kind at every point (a segment lost,
doubled or put behind the others, or a restart) meets every state of the
handshake and of the retrieval; the request by SIP competes with the handlers
for the socket. `MaxDrawn` bounds the connections, `MaxSent` what the sensor
sends on one, and transaction numbers go up to 32, which they do not reach. The timers of SIP
are scaled, with the timeout at four times T1, so that an INVITE goes out three
times before it. A request and an answer, two calls that cross, a call and the
BYE or MESSAGE beside it, and an INVITE that comes twice need two requests and
one duplicate. `MaxNames` bounds the branches, calls and tags drawn, `MaxRejected`
the answers of the phone that are no 200. A timer A that has lost its timer B
doubles for ever, and the clock stops there.

In the heap's 23 words fit up to five blocks, enough for a release with free memory on
either side, on both and on none, at the border of the regions, and for the exact fit
that takes an element off the list. A request of 1 is rounded up to a node, one of 4
must pass the smaller region by, because one word would be left of it, and one of 5
takes it whole; the third region is too small to be kept.

The five violations disagree with what the repository says of the code:
`priority()` offers dynamic priorities and cannot change the running thread's;
a mutex opened by unlock() and handed over at once admits two threads; an alarm
due with another one is late, and stays so; a streaming sensor that answers a
command at the wrong moment loses the data set or the reply; and the failure of a
NOTIFY is told as the end of a session.

### Fairness

`SyncFairSpec` is strongly fair to the time slicer, which is an interrupt that stays
pending while interrupts are disabled, and to the idle loop, which goes on whenever a
handler that borrowed it returns. The loop of `wakeup_all()` runs with interrupts
disabled, so weak fairness is enough. Application threads are not assumed to do
anything; that they do not stay inside a guard for ever is the hypothesis of
`GuardsServe`. `Alarm!FairSpec` lets the timer tick and the interrupted flows make their
calls. `Ieee1451!FairSpec` lets the network deliver what it has not lost, IP handle what
is delivered, and the sensor's and the SIP thread go on when they can; `Connects` and
`TedsRetrieved` promise nothing once a segment was lost, because the code sends none
again. `Sip!FairSpec` has only the clock, the alarms and what has begun (`Proceeds`: the
timers still to start, a callback and a reception that have met): the network and the
applications owe nothing, and every transaction that waits for a timer still ends.

## What is proved

`ThreadProofs` proves, for any finite set of threads, any queues, ranks and
criteria, from `ThreadAssumption` and `Allow = {}`, that `Spec` implies the invariants
that the run `thread` checks (`TypeOK`, `ReadyListed`, `RunningExecutes`, `WaitersQueued`,
`JoinersKnown`, `ListsSorted`, `RebootsWhenDone`) and its two action properties
(`PreemptsForRank`, `JoinReturnsAfterExit`).

None of them is inductive alone. `Inv` joins them with what they need: the idle thread
never leaves the ready list, so removal never empties it; the chosen thread is in the
list; `thread_count` is the number of threads that live; a join names threads that
exist. The proof follows the shape of the code. Each list operator has a lemma in
`SchedulingListProofs`, over those of `SequenceLemmas` (what it returns is in order,
holds what it should, and its chosen element is one of it). `DispatchFacts` says what a
switch does to states and contexts, `RescheduleFacts` adds the choice of the head. Then
there is a lemma for every operation, which shows that it keeps each part of `Inv`;
`StepKeeps` joins them and the theorems follow with one temporal step each.

`SemaphoreProofs` does the same for `Synchronizers`, from `SynchronizerAssumption`
and, for the refinement, `WatchedAssumption`. Every step of `SyncNext` is one of
`Thread!Next` or leaves the threads alone (`SynchronizersUseThreads`), so the invariant
of the threads is available. `SyncInv` adds, at each queue `q`, `At(q)`: the value counts
the waiting threads (`Counts`), the threads inside and the free tokens add up
(`Excludes`), a locked or awaited mutex has somebody inside (`Held`), nobody both
waits and is inside (`Outside`, without which a thread handed the token might not
add to those inside), and a destroyed synchronizer is empty or being emptied
(`Dead`, without which a new one might start with old waiters). `Arrives`,
`Departs` and `Drifts` say what a step can do to a queue, and `SameKeeps` disposes of
the synchronizers a step does not touch. `SemaphoreIsPoolHolds` is the refinement:
p() takes or blocks, v() grants or returns, destruction closes, the loop of
`wakeup_all()` releases, construction reopens, and all else is a stutter.

On the order of a queue, `SchedulingListProofs` has a relation, `Ahead(l, t, u)`, and what each list
operation does to it: an insertion puts an element behind all of its rank, a removal
changes nothing among the others. `FirstComeFirstServedHolds` follows step by step,
because a step does one of these to each queue (`QueueMoves`).

`AlarmProofs` proves all that the runs check of `Alarm` but its liveness, for any
alarms, periods and times, and without an assumption on the owners but the guard of
`Delete`. `CallsOK` strengthens `CalledAsAsked`: an alarm that does not exist has no
calls under way (or a new one in the same memory would get them), one in the queue has
times left and a period, and one asked for ever stays in the queue for ever. The ranks
need more: the request list is relative, each rank what an alarm waits beyond the one
before it. `CountsOK` says that no rank is negative and that the sum of the ranks up to
an alarm, `Countdown`, is the number of ticks it still has, of which `NeverEarly` and
`TypeOK` are consequences. What an insertion, a removal and a decrement of the head do
to the sums is proved by induction over the places of the list: the library's theorem of
induction cannot be used, but its argument can, with the least counterexample in place
of the induction step (`LeastNatural`). With the sums, each step of the list is one of
`AlarmClock`, where every alarm counts by itself (`RequestsCountDownHolds`).

`Ieee1451Proofs` proves `DeliversInOrder`, `TypeOK`, `PresenceIsTrue` and, on a premise
each, `TedsAsAsked` and `EstablishedHasPeer`, for any initial numbers that differ, any
list of TEDS that is not empty, and any number of connections, requests by SIP, restarts
and lost, repeated or late segments. `DeliveryInv` strengthens it: an established socket
expects the number after the last message it gave, or, if it has given none, the number
after another side's initial number (`Follows`); the sockets of the two nodes have
initial numbers of their own, so that one message is never given by two of them
(`ClonesOK`, `ClientOK`); a segment under way carries a message of the log, and a SYN
stands at an initial number (`Under`); the NCAP's turns name sockets that still exist
(`TurnsOK`), and the sensor's thread has a socket wherever it uses one (`Holding`).
`HandleOK` says what any handler makes of any segment, `Keeps` what the callbacks of the
NCAP may do to its sockets; then each action has a lemma. That the data is the data of
this connection, and not of another with the same numbers, is not in it: it holds in the
runs because their numbers do not overlap.

`ReaderInv` is the half of `TypeOK` that `DeliveryInv` leaves open (the sensor's thread,
the retrievers and the cache of the NCAP, the messages of the log), and is inductive
with it; `TypeOK` follows from the two. `TedsAsAsked` is about which reply a retriever
takes for its own. `AllInTurn` says why it is the right one: every message ever sent has
a number below the next one, so that no reply can bear a number before its command is
sent; and whatever bears the number that a retriever waits for is about the TEDS of its
step. The NCAP calls back from one operation into another (a reply starts the next
command, a closed connection drops its retriever), so each of its operations has a lemma
in terms of `Goes(N, P, D, I)`: if the retrievers `I` of `N` wait for their own, given
the messages `D`, then all of `P` do, given also what the operation has sent. The
premise of the theorem, `[](ncap.nextId # 0)`, says that the 16-bit counter of
`sendCommand()` has not come back to 0, and it is needed: with 2 or 3 numbers TLC finds
a repeated SYN that gives one module two sockets and two retrievers, and a reply that
each socket hears, the second time when its number is in use again; nothing else in it
tells the retriever that it is old. Of the constants it takes that there is a TEDS to
ask for and that there are two numbers or more (the code has 5 and 2^16).

`EstablishedHasPeer` relates both nodes to all that is under way between them. `PeerInv`
says, for each segment of the TIM, that its number is of one connection, and that a FIN
is not of a connection that the TIM has open (`OfTim`, where a TIM that has sent its FIN
has none open any more: `Own`); of a socket of the NCAP that can still receive, that it
expects a number of the connection it was made for (`Hears`); of a SYN-ACK on its way
that, if the TIM still waits for it, the socket that sent it is there (`Answers`). A
socket of the NCAP that a FIN ends is then none the TIM is connected to: their numbers
are of one connection (`OneConnection`), and the TIM has left that one, or is still
inside its `close()`, of which the property says nothing. The SYN-ACK of an earlier
connection is not taken for an answer, as it acknowledges a number below the one drawn
last. The premise, `[]Apart`, is that the TIM sends on no connection so much that its
next number gets to the initial number of another, and is needed: the code draws 32-bit
numbers at random and checks no distance, and with consecutive initial numbers TLC finds
a late segment of one connection that the next one takes. In the runs the numbers are 16
apart and `MaxSent` is less.

`PresenceIsTrue` ties the entry of the cache, which four callbacks set, to the sockets,
of which there may be several. `PresenceInv` has three parts. `Polite` holds whatever
the network does: nobody sends an RST or data with a FIN, and a socket of the NCAP is
opening, established or awaits the last acknowledgement; so a segment makes at most one
callback of a socket, and the callback that says the module has gone is made where the
socket leaves (`TurnOutcome`). That is enough for the first half of the property. The
second half, which a late SYN or a lost acknowledgement would break, is about behaviours
without a fault, and there the two sides take turns. `Phase` says what the TIM's
connection has come to: it calls, is open, has said that it leaves, or is over, since
the NCAP has said so too. `Calm` says, phase by phase, what is under way and which
socket the NCAP has: a SYN or a FIN is alone; a SYN only while the TIM calls, a FIN only
while it leaves; an old socket awaits an acknowledgement that is under way before the
SYN of the next connection; and so the NCAP never has two sockets (`Len(C) <= 1`), and
the callback of one cannot overwrite what another has told. A FIN that the NCAP never
takes would leave its socket there for the next connection to meet, so that a FIN's
number has to be followed too, from the step in which `close()` makes it to the turn in
which it is heard. It is the TIM's next number, unless the TIM has answered a command
between making and sending it: then that answer, which took the number, is under way
before it, or has not been taken, and then the FIN is not either, with the TIM in
`disconnect()` for ever (`FinIsDue`, `Counted`). The invariant needs to know besides
where the sensor's thread is and what its socket has become meanwhile (`ThreadAt`), that
a SYN is the last in its queue (`SynLast`, because a segment is handled only when those
before it have been) and bears the number before the TIM's next one (`Synced`), and that
at most one socket has a turn to come. That a segment without data carries no message is
`MessageAssumption`. `Told` is the property itself. A step of the thread that sends has
to show that it may (`MaySend`), one that does not that it stays in its phase
(`MayPass`); a fault ends the calm and leaves the rest.

`HeapProofs` proves all that the run `heap` checks, for any regions that do not overlap
and any sizes of requests, header and node (`HeapAssumption`). `HeapInv` joins the type
invariant with: the list repeats no element; the elements and the blocks lie apart and
cover exactly the bytes given; no element ends where another starts; the grouped size is
the number of free bytes. No invariant of the three does without the others: that the
searches find all there is to merge with, although they stop at the first match, needs
that no two elements start or end at one place; that a region handed over later overlaps
nothing needs that no piece reaches beyond what was given; and the total counts bytes
only if no byte is counted twice. `CutSplits` and `MergedJoins` say what the two updates
of the list do to the set of its elements; from there on the argument is about sets of
bytes.

`SipProofs` proves the five invariants of the run `sip`, for any networks, any number of
calls, names, requests and rejections, and any loss, repetition and reordering of
messages, from `TimerAssumption`, `NullAssumption` (no alarm is `Null`) and
`SipAssumption`. An invariant over messages, transactions and dialogs of several agents
needs something they agree about. That is a `World`: the agents, how many names are in
use, the sessions that have begun, and for each call who made it, to whom and of which
type. The last is no variable of the model: `SipInv` says that there is such a history
under which every agent and every message is in order, and each step continues it by at
most one call. `AgentOK` relates an agent to the world: each transaction has a request
of the world, each dialog is of a call of its type and, if it is a session with another
agent, one that either has begun as the called one; no two dialogs are of one call; and
no dialog is of a call whose INVITE still awaits its answer, without which a late 2xx
could begin the session of its call again. A message that accepts an INVITE is of a
session that has begun (`MessageOK`). `NoPhantomSession` and `OneSessionPerCall` follow
at once. `Settled` is the second half: the alarms belong to transactions of their
timer's kind, or to some that are gone, and of each kind in which neither two
transactions nor two threads have overlapped, the alarms are those of its transaction's
state, no more and no less, or, while `sendRequest()` is still starting timers, those
started so far (`Follows`, `Opens`). It does not hold in the middle of an operation,
which stops and starts timers one at a time; `Unsettled(O, M, U, k, i, R)` is what does:
transaction `i` of kind `k` has the timers `R`, whatever its state says. Each operation
opens its kind, changes state and timers, and closes it again. `TimersFollowState` and
the alarms' part of `TypeOK` follow from it. `BacksOff` needs one more conjunct,
`Paced`: while an INVITE is under way, the ticks that timer A and timer B have left, the
value that `handler()` doubles and the number of INVITEs sent fit one rhythm, so that
each tick moves all of them together and each ring of A starts the next beat exactly
where the last one ended. `Doublings`, the recursive function in which the property is
stated, is shown to exist by a least counterexample.

Only model-checked: liveness (TLAPS has no backend for fairness here), which is
`ReadyThreadsRun`, `IdleGivesWay`, `LastExitReboots`, `GuardsServe`, `AlarmsServed`, `Connects`,
`TedsRetrieved` and `TransactionsEnd`. Every invariant and every action property that
a passing run checks, and each refinement, is the conclusion of a theorem.

## Plan

Done, with proofs: lists, threads, synchronizers and alarms; TCP with IEEE 1451;
SIP; the heap. Worth doing next, in this order:

1. `Arp`: resolution, its tries and timeouts, over a condition and alarms.
2. `Delay`: `Alarm::delay()` and periodic threads, over `Synchronizers` and `Alarm`.
3. `Aes`: the singletons and the semaphore around the accelerator, over `TokenPool`.

## Not modelled

- Of the modelled parts: the spin lock and multiprocessor criteria
  (`Traits<Thread>::smp` is false); `Alarm::delay()`; TCP's checksum, window and
  timeouts (the window is stored and never consulted, `set_timeout()` is empty);
  the contents of TEDS, several transducers in a module; the servers' `send1xx()`
  and the clients' `transportError()`, which nothing calls, `SendRTP`, and the
  routes and targets of dialogs.
- Texts and headers: SIP parsing, IP, ICMP, UDP, the packets of IEEE 1451. They are
  sequential conversions, better tested than model-checked.
- Of the heap: an operation interrupted by another, and `calloc()`, which is `alloc()`
  (its `memset(addr, bytes, 0)` clears nothing: value and count are swapped).
- Other utilities, ARP, AES and periodic threads, which the plan names; DHCP, ad-hoc
  routing, and C-MAC, the medium access of the radios of the sensor nodes.
- Mediators, boot, setup and tools: registers, instructions and sequential start-up,
  the larger part of the lines of the repository. What the kernel relies on
  (interrupts disabled mean no interleaving; `tsl`, `finc` and `fdec` are atomic;
  `switch_context` saves one flow and loads another) is in the modules that use it.
