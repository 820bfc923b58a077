---------------------------- MODULE MCSignerRotation ----------------------------
(* SignerRotation on small networks: mixed and pure ones with one validator, *)
(* two validators of which one runs reth and the environment of each is read *)
(* when the other starts, a chain long enough for rotations to meet, one     *)
(* node without pm2, the three that remain of four nodes, and nodes of which *)
(* the test has no RPC URL.                                                  *)
EXTENDS SignerRotation

Network(nn, validators, on, kinds, c, f, h) ==
  [nodes |-> nn, validators |-> validators, reth |-> on, known |-> 1..nn, single |-> FALSE,
   emits |-> TRUE, kinds |-> kinds, calls |-> c, faults |-> f, height |-> h]

MCNodes == {Network(2, {1}, on, {"prepare", "restartWith", "restart", "stop"}, 3, 1, 2) : on \in {{}, {1}}}
MCRetry == {Network(2, {1, 2}, on, {"prepare", "restartWith"}, 2, 1, 2) : on \in {{1, 2}, {2}}}
MCChain == {[Network(2, {1, 2}, {}, {"prepare", "coinbase"}, 2, 1, 4) EXCEPT !.emits = FALSE]}
MCSingle == {[Network(1, {1}, on, {"prepare", "activate", "coinbase"}, 3, 2, 4) EXCEPT !.single = TRUE]
               : on \in {{}, {1}}}
MCRemaining == {Network(4, {1}, {}, {"stop", "reconnect"}, 2, 2, 2),
                [Network(3, {1}, {}, {"stop", "reconnect"}, 2, 1, 2) EXCEPT !.known = {1, 2}]}
MCUnknown == {[Network(2, {1}, on, {"restartWith", "restart", "stop"}, 2, 1, 2) EXCEPT !.known = k]
                : on \in {{}, {1}}, k \in {{}, {1}, {2}}}
MCSetups == MCNodes \cup MCRetry \cup MCChain \cup MCSingle \cup MCRemaining \cup MCUnknown

=================================================================================
