------------------------------ MODULE ByteQueue ------------------------------
(***************************************************************************)
(* What a stream buffer promises: the bytes put in come out once each, in  *)
(* order, and the size it reports is the number of bytes still inside.     *)
(* A byte is known by its position in the stream, so the bytes inside are  *)
(* those at the positions head .. tail - 1.                                *)
(***************************************************************************)
EXTENDS Integers

VARIABLES
  head,   (* number of bytes taken out so far *)
  tail,   (* number of bytes put in so far    *)
  size    (* the size the buffer reports      *)

vars == <<head, tail, size>>

Init == head = 0 /\ tail = 0 /\ size = 0

\* Some bytes are put in at the tail.
Put == /\ tail' >= tail
       /\ size' = size + (tail' - tail)
       /\ UNCHANGED head

\* Some of the bytes inside are taken out at the head.
Take == /\ head' >= head
        /\ head' - head <= size
        /\ size' = size - (head' - head)
        /\ UNCHANGED tail

Next == Put \/ Take

Spec == Init /\ [][Next]_vars

\* The size reported is the number of bytes put in and not yet taken out.
SizeExact == size = tail - head
=============================================================================
