----------------------------- MODULE BoundedFifo -----------------------------
(***************************************************************************)
(* What a bounded queue promises: elements leave in the order in which     *)
(* they entered, each once, and never more than Capacity wait.             *)
(***************************************************************************)
EXTENDS Integers, Sequences

CONSTANTS Elements, Capacity

VARIABLE waiting

Put(e) == /\ Len(waiting) < Capacity
          /\ waiting' = Append(waiting, e)

Get == /\ waiting # <<>>
       /\ waiting' = Tail(waiting)

FifoInit == waiting = <<>>
FifoNext == Get \/ \E e \in Elements : Put(e)

FifoSpec == FifoInit /\ [][FifoNext]_waiting
=============================================================================
