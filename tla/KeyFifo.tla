------------------------------ MODULE KeyFifo ------------------------------
(***************************************************************************)
(* What the keyboard path promises the shell: the keys typed, in the order *)
(* they were typed, each once.  A key typed while Capacity keys wait is    *)
(* dropped; nothing else is lost, repeated or reordered.                   *)
(***************************************************************************)
EXTENDS Naturals, Sequences

CONSTANTS Keys,      \* the keys of the keyboard
          NoKey,     \* no key: nothing being typed, nothing read
          Capacity   \* how many keys can wait

VARIABLES typing,    \* the key going down, NoKey when there is none
          queue,     \* the keys waiting, oldest first
          last       \* what the last read returned

vars == <<typing, queue, last>>

Init == typing = NoKey /\ queue = <<>> /\ last = NoKey

Press(k) == /\ typing = NoKey
            /\ typing' = k
            /\ UNCHANGED <<queue, last>>

Enqueue == /\ typing # NoKey
           /\ Len(queue) < Capacity
           /\ queue' = Append(queue, typing)
           /\ typing' = NoKey
           /\ UNCHANGED last

Drop == /\ typing # NoKey
        /\ Len(queue) = Capacity
        /\ typing' = NoKey
        /\ UNCHANGED <<queue, last>>

Take == /\ queue # <<>>
        /\ last' = Head(queue)
        /\ queue' = Tail(queue)
        /\ UNCHANGED typing

TakeNothing == /\ queue = <<>>
               /\ last' = NoKey
               /\ UNCHANGED <<typing, queue>>

Next == (\E k \in Keys : Press(k)) \/ Enqueue \/ Drop \/ Take \/ TakeNothing

Spec == Init /\ [][Next]_vars
=============================================================================
