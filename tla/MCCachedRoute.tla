--------------------------- MODULE MCCachedRoute ---------------------------
(***************************************************************************)
(* An instance of CachedRoute for TLC: parameters a (1) and b (2) in both  *)
(* orders, with exchanged values, and a path that goes on with a colon and *)
(* a value of another request, whose key it has.                           *)
(***************************************************************************)
EXTENDS CachedRoute, TLC

Param(n, v) == [name |-> n, value |-> v]

MCTextRequests == {[path |-> <<"p", ":", "x">>, query |-> << >>]}

MCRequests ==
    MCTextRequests \cup
    {[path |-> <<"p">>, query |-> <<Param(2, <<":">>), Param(1, <<"x">>)>>],
     [path |-> <<"p">>, query |-> <<Param(1, <<":">>), Param(2, <<"x">>)>>]}

==============================================================================
