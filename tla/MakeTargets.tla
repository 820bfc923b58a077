------------------------------- MODULE MakeTargets -------------------------------
(***************************************************************************)
(* What the make targets do to the network, as the CI runner sees it: one  *)
(* step each.  Network has the scripts behind them, command by command.    *)
(*                                                                         *)
(* A network has data (the data directory and the runtime session exist),  *)
(* procs (the node processes are "down", "up" on the data, or "stray":     *)
(* all that run do so on data that was removed), and users (the tests that *)
(* ran on the chain of its data directories).                              *)
(***************************************************************************)

Commands == {"clean", "init", "run", "test", "stop"}

Down(n)  == [n EXCEPT !.procs = "down"]
Result(ok, n) == [ok |-> ok, net |-> n]

\* rm -rf of data/, whose failure is ignored.  The network is gone, nodes that
\* still run are stray; or a part is left: the session, the chain, the data
\* under nodes that run, each of them or none.
Cleared(n) ==
  [data : {FALSE, n.data}, users : {{}, n.users},
   procs : {n.procs, IF n.procs = "down" THEN "down" ELSE "stray"}]

\* What make stop leaves: pm2's own failures are swallowed, and nodes that are
\* not in the session are not looked for.
Halted(n) ==
  {n, Down(n)} \cup (IF n.procs = "up" THEN {[n EXCEPT !.procs = "stray"]} ELSE {})

\* make clean: failures of its make stop and of the removal are ignored.
CleanOutcomes(n) == {Result(TRUE, m) : m \in UNION {Cleared(k) : k \in Halted(n)}}

\* make init: removes data/ and generates it again, but not a chain that it finds.
\* The recipe ignores a failing generator, so it also succeeds on the session
\* that is left.
InitOutcomes(n) ==
  LET there == {[m EXCEPT !.data = TRUE] : m \in Cleared(n)}
  IN  {Result(TRUE, m) : m \in there} \cup {Result(FALSE, m) : m \in Cleared(n) \cup there}

\* make run: needs the runtime session; pm2 start restarts what already runs.
\* Nodes that do not stay up fail it, and some may exit while it fails without one.
RunOutcomes(n) ==
  IF n.data
  THEN {Result(TRUE, [n EXCEPT !.procs = "up"])}
         \cup {Result(FALSE, [n EXCEPT !.procs = p]) : p \in {"down", "up", "stray"}}
  ELSE {Result(FALSE, m) : m \in Halted(n)}

\* go test: no test passes without a node.
TestOutcomes(n) == IF n.procs = "down" THEN {} ELSE {Result(TRUE, n)}

StopOutcomes(n) == {Result(TRUE, m) : m \in Halted(n)}

\* A command that cannot be started fails and changes nothing.
Outcomes(c, n) ==
  {Result(FALSE, n)} \cup
  CASE c = "clean" -> CleanOutcomes(n)
    [] c = "init"  -> InitOutcomes(n)
    [] c = "run"   -> RunOutcomes(n)
    [] c = "test"  -> TestOutcomes(n)
    [] c = "stop"  -> StopOutcomes(n)

\* What a command that is killed half way leaves: make clean may have stopped
\* the nodes, all or those of the session, and not removed the data.
Interrupted(c, n) ==
  {n} \cup {o.net : o \in Outcomes(IF c = "clean" THEN "stop" ELSE c, n)}
      \cup {o.net : o \in Outcomes(c, n)}

==================================================================================
