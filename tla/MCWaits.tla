--------------------------------- MODULE MCWaits ---------------------------------
(* One wait of a test at a time, on small chains: of Waits, on one or two    *)
(* nodes that may fail, on nodes that answer but are asked one after the     *)
(* other, on a steady chain, and on one that need not move; or of            *)
(* CanonicalSync.                                                            *)
EXTENDS Waits

CONSTANTS References, Branches, Stable, SyncHeight, MaxPolls  \* of CanonicalSync

ASSUME SyncAssumption ==
  References \in Nat /\ SyncHeight \in Nat \ {0} /\ MaxPolls \in Nat \ {0}

Flaking ==
  {[nodes |-> 1, kinds |-> {"progress", "height", "jail", "transition"}, epochs |-> {0, 3},
    goals |-> {4}, timeout |-> 3, stall |-> 2, flaky |-> TRUE, steady |-> FALSE,
    start |-> 2, height |-> 4, drops |-> 1]}
Lagging ==
  {[nodes |-> 2, kinds |-> {"orstall", "warmup", "jail"}, epochs |-> {3}, goals |-> {4},
    timeout |-> 4, stall |-> 3, flaky |-> FALSE, steady |-> FALSE,
    start |-> 1, height |-> 4, drops |-> 0]}
Moving ==
  {[nodes |-> 1, kinds |-> {"epoch"}, epochs |-> 0..5, goals |-> {4}, timeout |-> 12,
    stall |-> 4, flaky |-> FALSE, steady |-> TRUE, start |-> 5, height |-> 12, drops |-> 0]}
Failing ==
  {[nodes |-> 2, kinds |-> AllKinds, epochs |-> {2, 3}, goals |-> {2}, timeout |-> 2,
    stall |-> 2, flaky |-> TRUE, steady |-> FALSE, start |-> 1, height |-> 2, drops |-> 1]}
MCSetups == Flaking \cup Lagging \cup Moving \cup Failing

VARIABLES
  who,         \* the kind of wait
  chainOf, haveTarget, target, asked, matched, highestRef,
  haveMatchedStart, matchedStart, polls, verdict, behind

syncVars == <<chainOf, haveTarget, target, asked, matched, highestRef,
              haveMatchedStart, matchedStart, polls, verdict, behind>>

Sync ==
  INSTANCE CanonicalSync WITH MaxHeight <- SyncHeight, chain <- chainOf, res <- verdict

MCInit ==
  /\ Init /\ Sync!Init
  /\ \/ who = "waits" /\ chainOf = [n \in 0..References |-> <<>>]
     \/ who = "sync" /\ setup \in Moving /\ epoch = 0 /\ h = [n \in Nodes |-> 0]

MCNext ==
  \/ who = "waits" /\ Next /\ UNCHANGED <<who, syncVars>>
  \/ who = "sync" /\ Sync!Next /\ UNCHANGED <<who, vars>>

MCSpec ==
  /\ MCInit /\ [][MCNext]_<<who, vars, syncVars>>
  /\ WF_vars(who = "waits" /\ (Call \/ Round))
  /\ WF_syncVars(who = "sync" /\ Sync!Wait)

(* As in CanonicalSync: a wait that succeeds has not seen the validator    *)
(* behind since the first of its matches.                                  *)
NeverBehind == Sync!TypeOK /\ Sync!NeverBehind

(* Every wait that was begun returns (a steady chain would have to grow on *)
(* beyond the bound of its height).                                        *)
AllReturn == (who = "waits" /\ ~Steady => Returns) /\ (who = "sync" => Sync!Returns)

=================================================================================
