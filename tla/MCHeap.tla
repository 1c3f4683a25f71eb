------------------------------ MODULE MCHeap ------------------------------
(* A heap of a few blocks, and calls of every kind: sizes that split a     *)
(* block and that take it whole, an alignment and a boundary wider than a  *)
(* block, and one call per error of malloc_boundry.                        *)
EXTENDS Heap

Call(kind, size, align, boundry) ==
    [kind |-> kind, size |-> size, align |-> align, boundry |-> boundry]

MCRequests == {
    Call("malloc", 0, 0, 0), Call("malloc", 17, 0, 0), Call("malloc", 80, 0, 0),
    Call("align", 8, 64, 0),
    Call("boundry", 24, 16, 64), 
    Call("boundry", 70, 8, 64),      \* error #4: wider than the boundary
    Call("boundry", 8, 0, 24),       \* error #2: not a power of two
    Call("boundry", 1000, 16, 64) }  \* error #1
===========================================================================
