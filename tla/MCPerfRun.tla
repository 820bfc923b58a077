--------------------------------- MODULE MCPerfRun ---------------------------------
(* Runs of the performance suite on a small chain: one that is about the   *)
(* readings of a tier, with calls that fail and a node that loses a block; *)
(* about searches; about lists of tiers and the artifacts; about runs one  *)
(* after the other with different numbers of senders; and flags that are   *)
(* refused.                                                                *)
EXTENDS PerfRun

Counts(s, a, c, b, d) == [sent |-> s, accepted |-> a, confirmed |-> c, backlog |-> b, drop |-> d]
Good == Counts(2, 2, 2, 0, 0)
Plain ==
  [mode |-> "tiers", list |-> <<1>>, base |-> 0, step |-> 0, target |-> 2, senders |-> {1},
   scope |-> "single", topology |-> "", rpcs |-> <<1>>, urls |-> <<>>, interval |-> 2,
   runs |-> 1, faults |-> 0, samples |-> 1, height |-> 1, drops |-> 0, slows |-> 0, steady |-> FALSE,
   drains |-> {Good}]

Readings ==
  {[Plain EXCEPT !.scope = "multi", !.urls = <<1, 0, 2, 1>>, !.samples = 2, !.height = 3,
                 !.faults = 1],
   [Plain EXCEPT !.topology = "multi", !.rpcs = <<1, 2>>, !.samples = 2, !.height = 3],
   [Plain EXCEPT !.samples = 4, !.height = 3, !.faults = 1, !.drops = 1],
   [Plain EXCEPT !.samples = 3, !.height = 4, !.interval = 4],
   [Plain EXCEPT !.samples = 20, !.slows = 2, !.height = 23, !.steady = TRUE]}
Searches ==
  {[Plain EXCEPT !.mode = "max", !.base = b, !.step = s, !.target = t, !.senders = {0},
                 !.height = 1, !.drains = {Good, Counts(2, 2, 1, 0, 0)}] :
     b \in 0..3, s \in 0..3, t \in 1..7}
Lists ==
  {[Plain EXCEPT !.list = l, !.faults = 1, !.slows = 1,
                 !.drains = {Good, Counts(0, 0, 0, 0, 0), Counts(2, 1, 2, 1, 1), Counts(2, 2, 1, 0, 1)}] :
     l \in {<<1, -1, 1>>, <<2, 1>>}}
Flagged ==
  {[Plain EXCEPT !.mode = "maximum"], [Plain EXCEPT !.list = <<1, 0>>],
   [Plain EXCEPT !.list = <<-1>>], [Plain EXCEPT !.scope = "all"],
   [Plain EXCEPT !.mode = "max", !.base = 2, !.target = 1, !.step = 1],
   [Plain EXCEPT !.scope = "multi", !.urls = <<0>>]}
Again ==
  {[Plain EXCEPT !.senders = {1, 2, 3}, !.runs = 3, !.height = 1,
                 !.drains = {Good, Counts(1, 0, 0, 0, 0)}],
   [Plain EXCEPT !.senders = {2}, !.runs = 2, !.faults = 1, !.height = 1]}
MCSetups == Readings \cup Searches \cup Lists \cup Flagged \cup Again

=================================================================================
