----------------------------- MODULE TokenPool -----------------------------
(***************************************************************************)
(* What a Semaphore promises, with neither queue nor scheduler: a pool of  *)
(* tokens and the threads blocked for one.  p() takes a token or blocks;   *)
(* v() gives its token to one blocked thread if there is one, and to the   *)
(* pool only otherwise, so a thread never blocks beside a free token and   *)
(* no token is lost or made up.  Destroying the semaphore lets every       *)
(* blocked thread go without a token.                                      *)
(***************************************************************************)
EXTENDS Integers

CONSTANTS Threads, Initial

VARIABLES
    open, tokens, blocked,
    taken     \* the tokens given out and not given back

pool == <<open, tokens, blocked, taken>>

Init ==
    /\ open = TRUE
    /\ tokens = Initial
    /\ blocked = {}
    /\ taken = 0

Take ==
    /\ open
    /\ blocked = {} /\ tokens > 0
    /\ tokens' = tokens - 1
    /\ taken' = taken + 1
    /\ UNCHANGED <<open, blocked>>

Block(t) ==
    /\ open
    /\ tokens = 0
    /\ t \notin blocked
    /\ blocked' = blocked \cup {t}
    /\ UNCHANGED <<open, tokens, taken>>

Grant(t) ==
    /\ open
    /\ t \in blocked
    /\ blocked' = blocked \ {t}
    /\ UNCHANGED <<open, tokens, taken>>

Return ==
    /\ open
    /\ blocked = {}
    /\ tokens' = tokens + 1
    /\ taken' = taken - 1
    /\ UNCHANGED <<open, blocked>>

Close ==
    /\ open
    /\ open' = FALSE
    /\ UNCHANGED <<tokens, blocked, taken>>

Release(t) ==
    /\ ~open
    /\ t \in blocked
    /\ blocked' = blocked \ {t}
    /\ UNCHANGED <<open, tokens, taken>>

Reopen ==
    /\ ~open
    /\ blocked = {}
    /\ open' = TRUE
    /\ tokens' = Initial
    /\ taken' = 0
    /\ UNCHANGED blocked

Next ==
    \/ Take \/ Return \/ Close \/ Reopen
    \/ \E t \in Threads : Block(t) \/ Grant(t) \/ Release(t)

Spec == Init /\ [][Next]_pool

=============================================================================
