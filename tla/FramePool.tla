----------------------------- MODULE FramePool -----------------------------
(***************************************************************************)
(* What the page allocator promises its callers: a pool of page frames in  *)
(* which a run of 2^order frames is either free or held by exactly one     *)
(* caller.  Which run an allocation returns is left open.  Buddy.tla is    *)
(* shown to implement this specification.                                  *)
(***************************************************************************)
EXTENDS Integers

CONSTANTS Frames,   \* the frames of the mem-map
          Orders,   \* 0..MAX_ORDER-1
          Size      \* Size[o] = 2^o, the frames of a block of order o

VARIABLES free,     \* frames the pool owns
          held      \* runs <<base, order>> handed out and not yet returned

vars == <<free, held>>

Run(base, o) == base .. base + Size[o] - 1

HeldFrames == UNION {Run(h[1], h[2]) : h \in held}

Init == free = {} /\ held = {}

\* A run of free frames changes hands.
Alloc(base, o) ==
    /\ Run(base, o) \subseteq free
    /\ free' = free \ Run(base, o)
    /\ held' = held \cup {<<base, o>>}

\* A held run is returned, whole and with the order it was taken with.
Free(base, o) ==
    /\ <<base, o>> \in held
    /\ held' = held \ {<<base, o>>}
    /\ free' = free \cup Run(base, o)

\* The boot code gives the pool a run it did not own.
Donate(base, o) ==
    /\ Run(base, o) \subseteq Frames \ (free \cup HeldFrames)
    /\ free' = free \cup Run(base, o)
    /\ UNCHANGED held

Next ==
    \E base \in Frames, o \in Orders :
        Alloc(base, o) \/ Free(base, o) \/ Donate(base, o)

Spec == Init /\ [][Next]_vars
=============================================================================
