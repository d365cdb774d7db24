----------------------------- MODULE MCAlszWindow -----------------------------
(* Small teams and a matrix of two full windows and a partial one. *)
EXTENDS AlszWindow

\* schedule(static): contiguous chunks of about equal size, in thread order.
Static(team) ==
  [n \in 1..WindowSize |-> [tile \in 0..WindowSize-1 |->
     IF tile < n THEN team[1 + (tile * Len(team)) \div n] ELSE team[1]]]

MCSShare == Static(<<"s0", "s1">>)
MCRShare == Static(<<"r0", "r1">>)
=============================================================================
