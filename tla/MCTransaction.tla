---------------------------- MODULE MCTransaction ----------------------------
(***************************************************************************)
(* Transaction with tables of two cells: the smallest in which a range can *)
(* lie inside a table, straddle its end, or start beyond it.               *)
(***************************************************************************)
EXTENDS Transaction

Ask(f, a, n)     == [function |-> f, addr |-> a, num |-> n, data |-> <<>>]
Put(f, a, cells) == [function |-> f, addr |-> a, num |-> Len(cells), data |-> cells]

Setting(core, tids, delays, losses, settles) ==
  [core |-> core, tids |-> tids, late |-> delays, lost |-> losses, settles |-> settles]

\* Late answers over TCP; late and lost frames on a serial line that is quiet
\* after the pause of the master.
MCSettings  == {Setting("tcp", 3, 2, 0, FALSE), Setting("rtu", 1, 1, 2, TRUE)}
\* One late answer over TCP, with the same pause.
LagSettings == {Setting("tcp", 3, 1, 0, TRUE)}

\* Nothing is late or lost.
QuietSettings == {Setting("rtu", 1, 0, 0, TRUE)}

MCValues       == {0, 1}
MCRefusalCodes == {0, -130}

\* Calls that lie inside a table: they succeed when nothing goes wrong.
InsideRequests ==
  {Ask(3, 0, 2), Put(16, 0, <<1, 0>>), Put(6, 1, <<1>>), Ask(1, 0, 2)}

\* Ranges that straddle the end or start beyond it, and a quantity too large.
MCRequests ==
  InsideRequests \cup
    {Ask(3, 1, 2), Put(16, 1, <<1, 1>>), Ask(1, 1, 2), Ask(3, 2, 1), Put(5, 2, <<0>>),
     Put(15, 0, <<0, 1>>), Ask(3, 0, 126)}
=============================================================================
