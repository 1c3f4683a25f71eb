---------------------------- MODULE Allocator ----------------------------
(***************************************************************************)
(* What the kernel's memory allocator promises its callers, with nothing   *)
(* of how kernel/Memory/heap.cpp keeps its promise: an allocation returns  *)
(* a pointer to size bytes of the arena that no other caller holds, and    *)
(* those bytes stay the caller's until it frees the pointer.  The promise  *)
(* is the same for malloc, malloc_align and malloc_boundry.                *)
(***************************************************************************)
EXTENDS Integers

CONSTANTS ArenaStart,  \* first address of the arena
          ArenaEnd     \* first address after the arena

VARIABLE live          \* pointers in callers' hands, with their sizes

Apart(p, n, q, m) == p + n <= q \/ q + m <= p

(* A caller gets n bytes at p; p is a new pointer, even when n is 0. *)
Allocate(p, n) ==
    /\ p \notin DOMAIN live
    /\ ArenaStart <= p
    /\ p + n <= ArenaEnd
    /\ \A q \in DOMAIN live : Apart(p, n, q, live[q])
    /\ live' = [q \in DOMAIN live \cup {p} |-> IF q = p THEN n ELSE live[q]]

Release(p) ==
    /\ p \in DOMAIN live
    /\ live' = [q \in DOMAIN live \ {p} |-> live[q]]

Init == live = [q \in {} |-> 0]

(* One caller takes or returns one region, of any size; a failed           *)
(* allocation is a stuttering step.                                        *)
Next ==
    \/ \E p \in DOMAIN live' : Allocate(p, live'[p])
    \/ \E p \in DOMAIN live : Release(p)

Spec == Init /\ [][Next]_live
==========================================================================
