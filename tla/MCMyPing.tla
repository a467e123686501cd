------------------------------- MODULE MCMyPing -------------------------------
(* MyPing with pings of one unit and routing packets of two, on each of    *)
(* the kinds of link.                                                      *)
EXTENDS MyPing

MCTxTime == [data |-> 1, routing |-> 2]
MCDelays == {1, 3}
MCLimits == {1, 3}
MCConfigs ==
  {[mode |-> "plain", pri |-> FALSE, front |-> TRUE],
   [mode |-> "dynamic", pri |-> TRUE, front |-> FALSE],
   [mode |-> "ordered", pri |-> FALSE, front |-> FALSE]}
===============================================================================
