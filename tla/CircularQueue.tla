---------------------------- MODULE CircularQueue ----------------------------
(***************************************************************************)
(* The circular queue of include/CircularQueue.hpp, an array with a head    *)
(* and a tail that its functions are given, which begin at -1 as those of   *)
(* GPS.hpp do.  No code of the repository calls it.                         *)
(*                                                                         *)
(* Items are numbered as they are offered; 0 is what the array held before. *)
(***************************************************************************)
EXTENDS Integers, Sequences

CONSTANTS
    N,          \* places of the array
    MaxItems    \* bound on the items that are offered

ASSUME QueueAssumption == N \in Nat \ {0} /\ MaxItems \in Nat

VARIABLES
    t, head, tail,
    offered,    \* history: items that were offered
    kept        \* history: those that were taken in and not removed, in order

queueVars == <<t, head, tail, offered, kept>>

QueueInit ==
    /\ t = [i \in 0 .. N - 1 |-> 0] /\ head = -1 /\ tail = -1
    /\ offered = 0 /\ kept = <<>>

IsEmpty == head = tail
IsFull == (head + 1) % N = tail

\* A mutant of Enqueue: the first item does not set the tail.
EnqueueOnly ==
    /\ offered < MaxItems /\ offered' = offered + 1
    /\ IF IsFull THEN UNCHANGED <<t, head, kept>>
       ELSE /\ head' = (head + 1) % N
            /\ t' = [t EXCEPT ![head'] = offered']
            /\ kept' = Append(kept, offered')
    /\ tail' = tail

\* enqueue, which refuses an item that there is no place for.
Enqueue ==
    /\ offered < MaxItems /\ offered' = offered + 1
    /\ IF IsFull THEN UNCHANGED <<t, head, tail, kept>>
       ELSE /\ tail' = IF head = -1 THEN 0 ELSE tail
            /\ head' = (head + 1) % N
            /\ t' = [t EXCEPT ![head'] = offered']
            /\ kept' = Append(kept, offered')

\* dequeue, which takes a queue of one item for an empty one.
Dequeue ==
    /\ IF IsEmpty THEN UNCHANGED <<tail, kept>>
       ELSE tail' = (tail + 1) % N /\ kept' = Tail(kept)
    /\ UNCHANGED <<t, head, offered>>

QueueNext == Enqueue \/ Dequeue

QueueSpec == QueueInit /\ [][QueueNext]_queueVars

\* tokenise: always N of them, from the tail on.
Tokens == [j \in 1 .. N |-> t[(tail + j - 1) % N]]

(***************************************************************************)
(* Properties.                                                             *)
(***************************************************************************)
\* However often the ring has gone round, no item that was taken in is overwritten
\* or comes out of order, up to N fit, and one that was taken in last is kept.
KeepsInOrder ==
    /\ Len(kept) <= N
    /\ IsFull <=> Len(kept) = N
    /\ SubSeq(Tokens, 1, Len(kept)) = kept
    /\ kept # <<>> => t[head] = kept[Len(kept)]
    /\ kept = <<>> <=> head = -1
==============================================================================
