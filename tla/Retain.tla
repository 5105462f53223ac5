------------------------------- MODULE Retain -------------------------------
(***************************************************************************)
(* What VecDeque::retain leaves of a queue, or a filter of a list: the      *)
(* elements that are in a set, in their order.                             *)
(***************************************************************************)
EXTENDS Naturals, Sequences

\* The same, of the first elements of the queue.
Retaining(queue, kept) ==
    LET retained[n \in 0..Len(queue)] ==
            IF n = 0 THEN <<>>
            ELSE IF queue[n] \in kept THEN Append(retained[n - 1], queue[n])
            ELSE retained[n - 1]
    IN retained

Retained(queue, kept) == Retaining(queue, kept)[Len(queue)]
=============================================================================
