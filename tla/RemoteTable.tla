----------------------------- MODULE RemoteTable -----------------------------
(***************************************************************************)
(* What a master is promised, without frames, identifiers, buffers or      *)
(* timeouts: the tables of the slave, read and written from afar.          *)
(*                                                                         *)
(* A call may fail for any reason, and a call that failed may take effect  *)
(* later, once, but never after a call made after it.  A call that returns *)
(* success has taken effect, between the moment it was made and the moment *)
(* it returned, and returns what the tables held then.                     *)
(***************************************************************************)
EXTENDS Naturals, Sequences

CONSTANTS
  Calls,               \* what can be asked for
  TableNames,          \* the tables ...
  CellsOfTable,        \* ... and the cells of each
  Reply(_, _),         \* the reply a call gets from the tables as they are
  Effect(_, _),        \* the tables after a call
  Failed, Nothing      \* the result of a failed call; no call, no reply

VARIABLES
  tables,    \* the tables of the slave
  pending,   \* calls under way that have not taken effect, oldest first, each
             \* with the mark whether its caller is still waiting
  call,      \* the call being made, or Nothing
  reply,     \* its reply once it has taken effect, or Nothing
  result     \* how the last call ended; Failed until it has

vars == <<tables, pending, call, reply, result>>

Init ==
  /\ tables = [t \in TableNames |-> [c \in 0 .. CellsOfTable - 1 |-> 0]]
  /\ pending = <<>> /\ call = Nothing /\ reply = Nothing /\ result = Failed

\* A call is made; nobody waits for the older ones any more.
Make(c) ==
  /\ call = Nothing
  /\ call' = c
  /\ pending' = Append([i \in DOMAIN pending |-> [pending[i] EXCEPT !.awaited = FALSE]],
                       [call |-> c, awaited |-> TRUE])
  /\ result' = Failed
  /\ UNCHANGED <<tables, reply>>

\* The oldest call takes effect.
TakeEffect ==
  /\ pending # <<>>
  /\ LET p == Head(pending)
     IN  /\ reply' = IF p.awaited /\ call # Nothing THEN Reply(p.call, tables) ELSE reply
         /\ tables' = Effect(p.call, tables)
  /\ pending' = Tail(pending)
  /\ UNCHANGED <<call, result>>

\* A call, or the reply to it, is lost.
LoseCall  == pending # <<>> /\ pending' = Tail(pending) /\ UNCHANGED <<tables, call, reply, result>>
LoseReply == reply # Nothing /\ reply' = Nothing /\ UNCHANGED <<tables, pending, call, result>>

\* A call ends with its reply, ...
Succeed ==
  /\ call # Nothing /\ reply # Nothing
  /\ result' = reply
  /\ call' = Nothing /\ reply' = Nothing
  /\ UNCHANGED <<tables, pending>>

\* ... or fails, or is not even made.
Fail ==
  /\ result' = Failed
  /\ call' = Nothing /\ reply' = Nothing
  /\ UNCHANGED <<tables, pending>>

Next ==
  \/ \E c \in Calls : Make(c)
  \/ TakeEffect \/ LoseCall \/ LoseReply \/ Succeed \/ Fail

Spec == Init /\ [][Next]_vars
=============================================================================
