------------------------------ MODULE PagePool ------------------------------
(***************************************************************************)
(* What a page allocator promises, with none of the way cOS's memory.c     *)
(* keeps the promise: there is a set of free pages, a request either takes *)
(* a run of consecutive pages that were all free or takes nothing, and a   *)
(* page that was taken is never taken again (alloc_pages has no inverse in *)
(* the program: page_clean is never called).                               *)
(***************************************************************************)
EXTENDS Integers

CONSTANT MaxRun   \* the longest run one request may ask for

VARIABLES
    free,    \* pages nobody owns
    taken    \* pages handed out to a caller

poolVars == <<free, taken>>

PoolInit ==
    /\ free \subseteq Nat
    /\ taken = {}

\* One request: a run of consecutive free pages changes owner.
Take(first, number) ==
    LET run == first .. (first + number - 1)
    IN  /\ run \subseteq free
        /\ free' = free \ run
        /\ taken' = taken \cup run

PoolNext == \E first \in free, number \in 1 .. MaxRun : Take(first, number)

PoolSpec == PoolInit /\ [][PoolNext]_poolVars
=============================================================================
