------------------------------ MODULE MCGovernance ------------------------------
(* Governance on small instances: every parameter starts at 1 and            *)
(* autoInitialize wants 2.  One call and faults, or many calls and none: a   *)
(* call of three validators takes three blocks or more, so a cooldown of 5   *)
(* wants the next proposer, one of 10 a second round, and one that is        *)
(* lowered from 10 both before and after.                                    *)
EXTENDS Governance

MCTarget == [c \in Cids |-> 2]
MCLimit(before, after, asked, failing) ==
  [cooldown |-> <<before, after>>, calls |-> asked, faults |-> failing,
   ages |-> IF before > after THEN before ELSE after]
MCLimits == {MCLimit(1, 2, 1, 2), MCLimit(1, 5, 4, 0), MCLimit(10, 10, 4, 0), MCLimit(10, 1, 3, 0)}
MCDefault == [c \in Cids |-> 1]

==================================================================================
