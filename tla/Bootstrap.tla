-------------------------------- MODULE Bootstrap --------------------------------
(* How a test context comes up: NewCIContext dials the nodes one after the    *)
(* other, each again and again until it answers with the chain of the first   *)
(* one or its time is over, and then decides whether to initialise the system *)
(* contracts. The nodes are just being started: one comes up later, goes away *)
(* again, or belongs to another chain. Time is counted in units of the        *)
(* shortest backoff.                                                          *)
EXTENDS Integers, Sequences, FiniteSets

CONSTANTS
  InitTimeout,  \* for each node
  ProbeTime,    \* the longest time of one attempt
  MaxBackoff,   \* maxPollInterval
  Fleets,       \* the fork mode, its forks, and the chain of each node
  MaxFlips      \* bound: how often a node comes or goes

VARIABLES
  fleet,    \* the fork mode, the forks of the target, the chains of the nodes
  up,       \* the nodes that answer
  since,    \* per node: ticks since it came up or went away
  clients,  \* the chains the dialled nodes told, and which connections are open
  stage,    \* dial, probe (an attempt is under way), sleep, alive (are there blocks?),
            \* initialise, ready, failed
  spent,    \* ticks since the node at hand was dialled first
  backoff,  \* the next sleep
  alive,    \* the chain made a block when it was asked to
  flips     \* comings and goings so far

bootVars == <<fleet, up, since, clients, stage, spent, backoff, alive, flips>>

Nodes == DOMAIN fleet.chains
Dialled == Len(clients) + 1

Init ==
  /\ fleet \in Fleets
  /\ up \in SUBSET Nodes
  /\ since = [n \in Nodes |-> 0]
  /\ clients = <<>> /\ stage = "dial" /\ spent = 0 /\ backoff = 1
  /\ alive = FALSE /\ flips = 0

Passes(d) ==
  /\ spent' = spent + d
  /\ since' = [n \in Nodes |-> IF since[n] + d > InitTimeout + ProbeTime
                               THEN InitTimeout + ProbeTime ELSE since[n] + d]

Flip(n) ==
  /\ stage \in {"dial", "probe", "sleep"} /\ flips < MaxFlips
  /\ up' = (up \ {n}) \cup ({n} \ up)
  /\ since' = [since EXCEPT ![n] = 0]
  /\ flips' = flips + 1
  /\ UNCHANGED <<fleet, clients, stage, spent, backoff, alive>>

(* The first node tells the chain that the others have to be on. *)
RightChain(n) == \A i \in DOMAIN clients \cap {1} : fleet.chains[n] = clients[i].chain

(* Mutant of Answers: the chain of the others is not compared. *)
Answers_any(n) == n \in up

Answers(n) == n \in up /\ RightChain(n)

DialAnswered ==
  /\ stage \in {"dial", "probe"} /\ Answers(Dialled)
  /\ clients' = Append(clients, [chain |-> fleet.chains[Dialled], open |-> TRUE])
  /\ stage' = IF Dialled = Len(fleet.chains) THEN "alive" ELSE "dial"
  /\ spent' = 0 /\ backoff' = 1
  /\ UNCHANGED <<fleet, up, since, alive, flips>>

(* Mutant of CloseClients: the connections stay open. *)
CloseClients_none(list) == list

CloseClients(list) == [i \in DOMAIN list |-> [list[i] EXCEPT !.open = FALSE]]

DialUnanswered ==
  /\ stage = "dial" /\ ~Answers(Dialled)
  /\ stage' = "probe"
  /\ UNCHANGED <<fleet, up, since, clients, spent, backoff, alive, flips>>

(* The node may come up while an attempt waits for it, and be missed. Whether *)
(* the time is over is asked after the attempt, however long it took, and the *)
(* sleep ends with the time at the latest: one attempt comes after it.        *)
DialFails(d) ==
  /\ stage = "probe"
  /\ Passes(d)
  /\ IF spent + d >= InitTimeout
     THEN stage' = "failed" /\ clients' = CloseClients(clients)
     ELSE stage' = "sleep" /\ UNCHANGED clients
  /\ UNCHANGED <<fleet, up, backoff, alive, flips>>

Least(a, b) == IF a < b THEN a ELSE b

SleepBackoff ==
  /\ stage = "sleep"
  /\ Passes(Least(backoff, InitTimeout - spent))
  /\ backoff' = Least(2 * backoff, MaxBackoff)
  /\ stage' = "dial"
  /\ UNCHANGED <<fleet, up, clients, alive, flips>>

(* Mutant of ShouldAutoInitialize: an upgrade is taken for a chain with posa. *)
ShouldAutoInitialize_upgrade(mode, forks) ==
  CASE mode = "poa" -> FALSE
    [] mode = "smoke" -> "posa" \in forks
    [] mode \in {"posa", "upgrade"} -> TRUE

(* The system contracts are there when posa is in force from the start on; *)
(* a smoke target names all its forks.                                     *)
ShouldAutoInitialize(mode, forks) ==
  CASE mode \in {"poa", "upgrade"} -> FALSE
    [] mode = "smoke" -> "posa" \in forks
    [] mode = "posa" -> TRUE

(* Two waits for a block; when both are in vain the clients stay open. *)
BlocksComing(b) ==
  /\ stage = "alive"
  /\ alive' = b
  /\ stage' = IF ~b THEN "failed"
              ELSE IF ShouldAutoInitialize(fleet.mode, fleet.forks) THEN "initialise" ELSE "ready"
  /\ UNCHANGED <<fleet, up, since, clients, spent, backoff, flips>>

Next ==
  \/ \E n \in Nodes : Flip(n)
  \/ DialAnswered \/ DialUnanswered \/ SleepBackoff
  \/ \E d \in 0..ProbeTime : DialFails(d)
  \/ \E b \in BOOLEAN : BlocksComing(b)

Spec == Init /\ [][Next]_bootVars

--------------------------------------------------------------------------------
Open == {i \in DOMAIN clients : clients[i].open}

(* The context works on one chain with a connection to every node, or to none *)
(* if dialling failed. A node that is on the chain of the first one and       *)
(* answers since the time of one probe before its deadline is never given up. *)
(* The contracts are initialised in networks that have them from the start.   *)
BootTrue ==
  /\ \A i, j \in DOMAIN clients : clients[i].chain = clients[j].chain
  /\ stage \in {"alive", "initialise", "ready"} => Open = Nodes
  /\ stage = "failed" /\ Len(clients) < Len(fleet.chains) =>
       /\ Open = {}
       /\ RightChain(Dialled) /\ Dialled \in up => since[Dialled] <= ProbeTime
  /\ stage = "initialise" => fleet.posaFromStart
  /\ stage = "ready" => ~fleet.posaFromStart

================================================================================
