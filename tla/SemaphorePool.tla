--------------------------- MODULE SemaphorePool ---------------------------
(***************************************************************************)
(* A semaphore of Synchronizers, any one of them, is a TokenPool: a        *)
(* positive _value counts its tokens, its queue holds the blocked threads. *)
(***************************************************************************)
EXTENDS Synchronizers

CONSTANT Watched   \* the semaphore

ASSUME WatchedAssumption == Watched \in Semaphores

Pool == INSTANCE TokenPool WITH
    Initial <- Initial[Watched],
    open    <- Watched \in alive,
    tokens  <- IF value[Watched] > 0 THEN value[Watched] ELSE 0,
    blocked <- ToSet(queue[Watched]),
    taken   <- taken[Watched]

(* Every p() and v() takes, blocks, grants or returns as the pool does:    *)
(* no token is lost or made up, and none is free while a thread waits.     *)
SemaphoreIsPool == Pool!Spec

=============================================================================
