----------------------------- MODULE BoundedFifo -----------------------------
(***************************************************************************)
(* What a ring buffer promises: a queue of at most Capacity elements.  A   *)
(* put keeps as much of the front of its data as there is room for and     *)
(* reports how much that was; a get returns the oldest elements, as many   *)
(* as asked for if there are so many; a reset empties the queue.           *)
(***************************************************************************)
EXTENDS Naturals, Sequences

CONSTANTS
  Capacity,   \* the most the queue holds
  Bursts,     \* what a put may be given
  Requests    \* how much a get may ask for

VARIABLES
  queue,      \* the elements, oldest first
  returned,   \* what the last call returned: how many elements it moved
  copied      \* the elements the last get handed out

vars == <<queue, returned, copied>>

Smaller(a, b) == IF a <= b THEN a ELSE b

Init == queue = <<>> /\ returned = 0 /\ copied = <<>>

Put == \E s \in Bursts :
  LET n == Smaller(Len(s), Capacity - Len(queue))
  IN  /\ queue' = [i \in 1 .. Len(queue) + n |->
                     IF i <= Len(queue) THEN queue[i] ELSE s[i - Len(queue)]]
      /\ returned' = n
      /\ copied' = <<>>

Get == \E length \in Requests :
  LET n == Smaller(length, Len(queue))
  IN  /\ copied' = [i \in 1 .. n |-> queue[i]]
      /\ queue' = [i \in 1 .. Len(queue) - n |-> queue[i + n]]
      /\ returned' = n

Reset == queue' = <<>> /\ returned' = 0 /\ copied' = <<>>

Next == Put \/ Get \/ Reset
Spec == Init /\ [][Next]_vars
=============================================================================
