---------------------------- MODULE BoundedQueue ----------------------------
(***************************************************************************)
(* What the clients of RingBuffer/fifo.c rely on: a queue of at most Size   *)
(* bytes that delivers every byte once, unchanged and in the order it was   *)
(* put, and that a reset empties.  A put into a full queue and a get from   *)
(* an empty one change nothing.  EchoQueue and SharedQueue implement it    *)
(* with the cursors of the code, where the main loop and the timer          *)
(* interrupt work on one queue.                                             *)
(***************************************************************************)
EXTENDS Naturals, Sequences

CONSTANTS Size,     \* f->size
          Data,     \* the bytes
          NoByte    \* nothing was delivered yet

VARIABLES q,        \* the bytes that were put and not yet delivered
          out       \* the byte delivered last

Init == q = <<>> /\ out = NoByte

Put(x) == /\ Len(q) < Size
          /\ q' = Append(q, x)
          /\ UNCHANGED out

Get == /\ q # <<>>
       /\ out' = Head(q)
       /\ q' = Tail(q)

Reset == q' = <<>> /\ UNCHANGED out

Next == (\E x \in Data : Put(x)) \/ Get \/ Reset

Spec == Init /\ [][Next]_<<q, out>>
=============================================================================
