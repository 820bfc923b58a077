------------------------------- MODULE CI_proofs -------------------------------
(***************************************************************************)
(* Proofs about the CI runner, for every set of runs, groups and jobs and  *)
(* any number of crashes, and about the test context of the test processes *)
(* it starts, the funder's nonce and the test accounts, for every set of   *)
(* nodes, every number of attempts and every bound.  The two share nothing *)
(* but this module.                                                        *)
(***************************************************************************)
EXTENDS Runner, TestContext, FiniteSetTheorems, WellFoundedInduction, TLAPS

-----------------------------------------------------------------------------
(***************************************************************************)
(* The runner.                                                             *)
(***************************************************************************)

(***************************************************************************)
(* Every command maps a network to networks, and reports a Boolean.        *)
(***************************************************************************)
Reports == [ok : BOOLEAN, net : Networks]

LEMMA LeftAreNetworks ==
  ASSUME NEW n \in Networks
  PROVE  Halted(n) \subseteq Networks /\ Cleared(n) \subseteq Networks
BY DEF Halted, Cleared, Down, Networks

LEMMA OutcomesAreReports ==
  ASSUME NEW n \in Networks, NEW c \in Commands, NEW o \in Outcomes(c, n)
  PROVE  o \in Reports
<1>1. Halted(n) \subseteq Networks /\ Cleared(n) \subseteq Networks
  BY LeftAreNetworks
<1>2. /\ \A m \in Cleared(n) : [m EXCEPT !.data = TRUE] \in Networks
      /\ \A p \in {"down", "up", "stray"} : [n EXCEPT !.procs = p] \in Networks
  BY <1>1 DEF Networks
<1>3. \A ok \in BOOLEAN, m \in Networks : Result(ok, m) \in Reports
  BY DEF Result, Reports
<1>4. CleanOutcomes(n) \subseteq Reports
  <2>1. \A k \in Halted(n) : Cleared(k) \subseteq Networks
    BY <1>1, LeftAreNetworks
  <2> QED BY <1>3, <2>1 DEF CleanOutcomes
<1>5. InitOutcomes(n) \subseteq Reports
  <2> DEFINE there == {[m EXCEPT !.data = TRUE] : m \in Cleared(n)}
  <2>1. there \subseteq Networks
    BY <1>2
  <2>2. InitOutcomes(n) =
          {Result(TRUE, m) : m \in there} \cup {Result(FALSE, m) : m \in Cleared(n) \cup there}
    BY DEF InitOutcomes
  <2> HIDE DEF there
  <2> QED BY <1>1, <1>3, <2>1, <2>2
<1>6. RunOutcomes(n) \subseteq Reports
  BY <1>1, <1>2, <1>3 DEF RunOutcomes
<1>7. TestOutcomes(n) \subseteq Reports
  BY <1>3 DEF TestOutcomes
<1>8. StopOutcomes(n) \subseteq Reports
  BY <1>1, <1>3 DEF StopOutcomes
<1> QED
  BY <1>3, <1>4, <1>5, <1>6, <1>7, <1>8 DEF Outcomes, Commands

LEMMA InterruptedAreNetworks ==
  ASSUME NEW n \in Networks, NEW c \in Commands
  PROVE  Interrupted(c, n) \subseteq Networks
<1>1. \A d \in Commands : {o.net : o \in Outcomes(d, n)} \subseteq Networks
  BY OutcomesAreReports DEF Reports
<1>2. "stop" \in Commands
  BY DEF Commands
<1> QED BY <1>1, <1>2 DEF Interrupted

LEMMA EnterIsNetwork ==
  ASSUME NEW n \in Networks, NEW c, NEW w \in Runs \X (Nat \X Nat)
  PROVE  Enter(n, c, w) \in Networks
BY DEF Enter, Networks

-------------------------------------------------------------------------------
(***************************************************************************)
(* A run executes a command exactly where main does, and there one of the  *)
(* commands main executes; only a dead run may have none left.             *)
(***************************************************************************)
PlaceOK(p, s, a) ==
  /\ p = "setup" => s \in {"clean", "init", "run"} \/ (s = "none" /\ ~a)
  /\ p \in {"teardown", "closing"} => s = "stop" \/ (s = "none" /\ ~a)
  /\ p = "item" => s \in Commands \/ (s = "none" /\ ~a)
  /\ p \notin {"setup", "teardown", "closing", "item"} => s = "none"

Placed == \A r \in Runs : PlaceOK(pc[r], step[r], alive[r])

(***************************************************************************)
(* What the operators inside the actions of run r do to the types and to   *)
(* the places of the runs.                                                 *)
(***************************************************************************)
ItemTypes ==
  /\ pc \in [Runs -> PCs]
  /\ phase \in [Runs -> Nat \ {0}]
  /\ step \in [Runs -> Commands \cup {"none"}]
  /\ net \in Networks
  /\ failed \in [Runs -> BOOLEAN]
  /\ broke \in [Runs -> BOOLEAN]

Moves(r) ==
  /\ \A q \in Runs \ {r} : pc'[q] = pc[q] /\ step'[q] = step[q]
  /\ \A a \in BOOLEAN : PlaceOK(pc'[r], step'[r], a)

LEMMA FailItemMoves ==
  ASSUME TypeOK, NEW r \in Runs, NEW n \in Networks, NEW why \in BOOLEAN,
         FailItem(r, n, why)
  PROVE  ItemTypes' /\ Moves(r)
<1>1. pc' = [pc EXCEPT ![r] = "after"] /\ step' = [step EXCEPT ![r] = "none"]
  BY DEF FailItem
<1>2. Moves(r)
  BY <1>1 DEF TypeOK, Moves, PlaceOK
<1>3. ItemTypes'
  BY <1>1 DEF TypeOK, ItemTypes, FailItem, PCs
<1> QED BY <1>2, <1>3

LEMMA StartPhaseMoves ==
  ASSUME TypeOK, NEW r \in Runs, NEW p \in Nat \ {0}, NEW n \in Networks,
         StartPhase(r, p, n)
  PROVE  ItemTypes' /\ Moves(r)
<1> DEFINE first == IF SkipSetup(r) THEN "test" ELSE "clean"
           refused == Grouped(r) /\ LockNeeded(TRUE) /\ lock # NoRun
<1>1. CASE FailItem(r, n, ~refused)
  BY <1>1, FailItemMoves
<1>2. CASE /\ pc' = [pc EXCEPT ![r] = "item"]
           /\ phase' = [phase EXCEPT ![r] = p]
           /\ step' = [step EXCEPT ![r] = first]
           /\ net' = Enter(n, first, <<r, <<at[r], p>>>>)
           /\ UNCHANGED <<failed, broke>>
  <2>1. net' \in Networks
    BY <1>2, EnterIsNetwork DEF TypeOK
  <2>2. first \in Commands
    BY DEF Commands
  <2>3. ItemTypes'
    BY <1>2, <2>1, <2>2 DEF TypeOK, ItemTypes, PCs
  <2>4. Moves(r)
    BY <1>2, <2>2 DEF TypeOK, Moves, PlaceOK
  <2> QED BY <2>3, <2>4
<1> QED BY <1>1, <1>2 DEF StartPhase

LEMMA EndPhaseMoves ==
  ASSUME TypeOK, NEW r \in Runs, NEW n \in Networks, EndPhase(r, n)
  PROVE  /\ ItemTypes'
         /\ Moves(r)
         /\ at' \in [Runs -> Nat \ {0}]
         /\ passed' \in [Runs -> SUBSET (Nat \X Nat)]
<1>1. CASE FailItem(r, n, TRUE) /\ UNCHANGED <<at, passed>>
  BY <1>1, FailItemMoves DEF TypeOK
<1>2. ASSUME passed' = [passed EXCEPT ![r] = @ \cup {<<at[r], phase[r]>>}]
      PROVE  passed' \in [Runs -> SUBSET (Nat \X Nat)]
  BY <1>2 DEF TypeOK
<1>3. CASE /\ passed' = [passed EXCEPT ![r] = @ \cup {<<at[r], phase[r]>>}]
           /\ StartPhase(r, phase[r] + 1, n) /\ UNCHANGED at
  <2>1. phase[r] + 1 \in Nat \ {0}
    BY DEF TypeOK
  <2>2. ItemTypes' /\ Moves(r)
    BY <1>3, <2>1, StartPhaseMoves
  <2> QED BY <1>2, <1>3, <2>2 DEF TypeOK
<1>4. CASE /\ passed' = [passed EXCEPT ![r] = @ \cup {<<at[r], phase[r]>>}]
           /\ at' = [at EXCEPT ![r] = @ + 1]
           /\ pc' = [pc EXCEPT ![r] = "pick"]
           /\ step' = [step EXCEPT ![r] = "none"]
           /\ net' = n
           /\ UNCHANGED <<phase, failed, broke>>
  <2>1. ItemTypes'
    BY <1>4 DEF TypeOK, ItemTypes, PCs
  <2>2. Moves(r)
    BY <1>4 DEF TypeOK, Moves, PlaceOK
  <2>3. at' \in [Runs -> Nat \ {0}]
    BY <1>4 DEF TypeOK
  <2> QED BY <1>2, <1>4, <2>1, <2>2, <2>3
<1> QED BY <1>1, <1>3, <1>4 DEF EndPhase

-------------------------------------------------------------------------------
(* Type correctness and places: together they are inductive.               *)

LEMMA MovesPlaced ==
  ASSUME Placed, NEW r \in Runs, Moves(r), alive' = alive, TypeOK
  PROVE  Placed'
BY DEF Placed, Moves, TypeOK

LEMMA TypeInductive ==
  ASSUME RunnerAssumption, TypeOK, Placed, [Next]_vars
  PROVE  TypeOK' /\ Placed'
<1> USE DEF histVars
<1>0. CASE UNCHANGED vars
  BY <1>0 DEF vars, runVars, TypeOK, Placed
<1>1. ASSUME NEW r \in Runs, Acquire(r)
      PROVE  TypeOK' /\ Placed'
  <2>1. TypeOK'
    BY <1>1 DEF Acquire, TypeOK, PCs
  <2>2. Placed'
    BY <1>1 DEF Acquire, Placed, PlaceOK, TypeOK
  <2> QED BY <2>1, <2>2
<1>2. ASSUME NEW r \in Runs, Refuse(r)
      PROVE  TypeOK' /\ Placed'
  BY <1>2 DEF Refuse, TypeOK, PCs, Placed, PlaceOK
<1>3. ASSUME NEW r \in Runs, Abort(r)
      PROVE  TypeOK' /\ Placed'
  BY <1>3 DEF Abort, TypeOK, PCs, Placed, PlaceOK
<1>4. ASSUME NEW r \in Runs, LeaveLoop(r)
      PROVE  TypeOK' /\ Placed'
  BY <1>4 DEF LeaveLoop, TypeOK, PCs, Placed, PlaceOK
<1>5. ASSUME NEW r \in Runs, Pick(r)
      PROVE  TypeOK' /\ Placed'
  <2>1. CASE StartPhase(r, 1, net)
    <3>1. ItemTypes' /\ Moves(r)
      BY <2>1, StartPhaseMoves DEF TypeOK
    <3>2. Placed'
      BY <1>5, <3>1, MovesPlaced DEF Pick
    <3> QED BY <1>5, <3>1, <3>2 DEF Pick, TypeOK, ItemTypes
  <2>2. CASE ~StartPhase(r, 1, net)
    <3>1. PICK p \in {"setup", "teardown"}, c \in {"clean", "stop"} :
            /\ p = "setup" <=> c = "clean"
            /\ pc' = [pc EXCEPT ![r] = p]
            /\ step' = [step EXCEPT ![r] = c]
            /\ UNCHANGED <<phase, failed, net, broke>>
      BY <1>5, <2>2 DEF Pick
    <3>2. Placed'
      BY <1>5, <3>1 DEF Pick, Placed, PlaceOK, TypeOK
    <3> QED BY <1>5, <3>1, <3>2 DEF Pick, TypeOK, PCs, Commands
  <2> QED BY <2>1, <2>2
<1>6. ASSUME NEW r \in Runs, Setup(r)
      PROVE  TypeOK' /\ Placed'
  <2>0. step[r] \in {"clean", "init", "run"} /\ step[r] \in Commands
    BY <1>6 DEF Setup, Placed, PlaceOK, Commands
  <2>1. PICK o \in Outcomes(step[r], net) :
          \/ /\ o.ok /\ step[r] # "run"
             /\ step' = [step EXCEPT ![r] = NextCommand[@]]
             /\ net' = o.net
             /\ UNCHANGED <<pc, phase, ready, failed, broke>>
          \/ /\ o.ok /\ step[r] = "run"
             /\ ready' = [ready EXCEPT ![r] = TRUE]
             /\ StartPhase(r, 1, o.net)
          \/ /\ ~o.ok
             /\ FailItem(r, o.net, TRUE)
             /\ UNCHANGED ready
    BY <1>6 DEF Setup
  <2>2. o.net \in Networks
    BY <2>0, OutcomesAreReports DEF Reports, TypeOK
  <2>3. UNCHANGED <<alive, job, at, exit, lock, crashes, passed, kept>> /\ tainted' \in BOOLEAN
    BY <1>6 DEF Setup, TypeOK
  <2>4. CASE StartPhase(r, 1, o.net) /\ ready' = [ready EXCEPT ![r] = TRUE]
    <3>1. ItemTypes' /\ Moves(r)
      BY <2>2, <2>4, StartPhaseMoves
    <3>2. Placed'
      BY <2>3, <3>1, MovesPlaced
    <3> QED BY <2>3, <2>4, <3>1, <3>2 DEF TypeOK, ItemTypes
  <2>5. CASE FailItem(r, o.net, TRUE) /\ UNCHANGED ready
    <3>1. ItemTypes' /\ Moves(r)
      BY <2>2, <2>5, FailItemMoves
    <3>2. Placed'
      BY <2>3, <3>1, MovesPlaced
    <3> QED BY <2>3, <2>5, <3>1, <3>2 DEF TypeOK, ItemTypes
  <2>6. CASE /\ step[r] # "run"
             /\ step' = [step EXCEPT ![r] = NextCommand[@]]
             /\ net' = o.net
             /\ UNCHANGED <<pc, phase, ready, failed, broke>>
    <3>1. NextCommand[step[r]] \in {"init", "run"}
      BY <2>0, <2>6 DEF NextCommand
    <3>2. Placed'
      BY <1>6, <2>3, <2>6, <3>1 DEF Setup, Placed, PlaceOK, TypeOK
    <3> QED BY <2>2, <2>3, <2>6, <3>1, <3>2 DEF TypeOK, Commands
  <2> QED BY <2>1, <2>4, <2>5, <2>6
<1>7. ASSUME NEW r \in Runs, Teardown(r)
      PROVE  TypeOK' /\ Placed'
  <2>1. PICK o \in Outcomes("stop", net) :
          /\ kept' = [kept EXCEPT ![r] = o.net.procs # "down"]
          /\ \/ o.ok /\ StartPhase(r, 1, o.net)
             \/ ~o.ok /\ FailItem(r, o.net, TRUE)
    BY <1>7 DEF Teardown
  <2>2. o.net \in Networks
    BY OutcomesAreReports DEF Reports, TypeOK, Commands
  <2>3. /\ UNCHANGED <<alive, job, at, exit, lock, crashes, passed, tainted>>
        /\ ready' = [ready EXCEPT ![r] = FALSE]
    BY <1>7 DEF Teardown
  <2>4. ItemTypes' /\ Moves(r)
    <3>1. CASE StartPhase(r, 1, o.net)
      BY <2>2, <3>1, StartPhaseMoves
    <3>2. CASE FailItem(r, o.net, TRUE)
      BY <2>2, <3>2, FailItemMoves
    <3> QED BY <2>1, <3>1, <3>2
  <2>5. Placed'
    BY <2>3, <2>4, MovesPlaced
  <2> QED BY <2>1, <2>3, <2>4, <2>5 DEF TypeOK, ItemTypes
<1>8. ASSUME NEW r \in Runs, ItemStep(r)
      PROVE  TypeOK' /\ Placed'
  <2>0. step[r] \in Commands
    BY <1>8 DEF ItemStep, TypeOK
  <2>1. PICK o \in Outcomes(step[r], net) :
       \/ /\ o.ok /\ step[r] \in {"clean", "init", "run"}
          /\ LET c == NextCommand[step[r]]
             IN  /\ step' = [step EXCEPT ![r] = c]
                 /\ net' = Enter(o.net, c, <<r, <<at[r], phase[r]>>>>)
          /\ UNCHANGED <<pc, at, phase, failed, broke, passed, kept>>
       \/ /\ o.ok /\ step[r] = "test" /\ ~SkipSetup(r)
          /\ step' = [step EXCEPT ![r] = "stop"]
          /\ net' = o.net
          /\ UNCHANGED <<pc, at, phase, failed, broke, passed, kept>>
       \/ /\ o.ok /\ step[r] = "test" /\ SkipSetup(r)
          /\ EndPhase(r, o.net)
          /\ UNCHANGED kept
       \/ /\ step[r] = "stop"
          /\ EndPhase(r, o.net)
          /\ kept' = [kept EXCEPT ![r] = o.net.procs # "down"]
       \/ /\ FailItem(r, o.net, TRUE)
          /\ UNCHANGED <<at, passed, kept>>
    BY <1>8 DEF ItemStep
  <2>2. o.net \in Networks
    BY <2>0, OutcomesAreReports DEF Reports, TypeOK
  <2>3. /\ UNCHANGED <<alive, job, ready, exit, lock, crashes>> /\ tainted' \in BOOLEAN
        /\ pc[r] = "item"
    BY <1>8 DEF ItemStep, TypeOK
  <2>4. ASSUME NEW c \in Commands, NEW m \in Networks,
               step' = [step EXCEPT ![r] = c], net' = m,
               UNCHANGED <<pc, at, phase, failed, broke, passed, kept>>
        PROVE  TypeOK' /\ Placed'
    <3>1. Placed'
      BY <2>3, <2>4 DEF Placed, PlaceOK, TypeOK
    <3> QED BY <2>3, <2>4, <3>1 DEF TypeOK
  <2>5. ASSUME EndPhase(r, o.net), kept' \in [Runs -> BOOLEAN]
        PROVE  TypeOK' /\ Placed'
    <3>1. /\ ItemTypes' /\ Moves(r)
          /\ at' \in [Runs -> Nat \ {0}]
          /\ passed' \in [Runs -> SUBSET (Nat \X Nat)]
      BY <2>2, <2>5, EndPhaseMoves
    <3>2. Placed'
      BY <2>3, <3>1, MovesPlaced
    <3> QED BY <2>3, <2>5, <3>1, <3>2 DEF TypeOK, ItemTypes
  <2>6. CASE FailItem(r, o.net, TRUE) /\ UNCHANGED <<at, passed, kept>>
    <3>1. ItemTypes' /\ Moves(r)
      BY <2>2, <2>6, FailItemMoves
    <3>2. Placed'
      BY <2>3, <3>1, MovesPlaced
    <3> QED BY <2>3, <2>6, <3>1, <3>2 DEF TypeOK, ItemTypes
  <2>7. CASE /\ step[r] \in {"clean", "init", "run"}
             /\ step' = [step EXCEPT ![r] = NextCommand[step[r]]]
             /\ net' = Enter(o.net, NextCommand[step[r]], <<r, <<at[r], phase[r]>>>>)
             /\ UNCHANGED <<pc, at, phase, failed, broke, passed, kept>>
    <3>1. NextCommand[step[r]] \in Commands
      BY <2>7 DEF NextCommand, Commands
    <3>2. Enter(o.net, NextCommand[step[r]], <<r, <<at[r], phase[r]>>>>) \in Networks
      BY <2>2, EnterIsNetwork DEF TypeOK
    <3> QED BY <2>4, <2>7, <3>1, <3>2
  <2>8. CASE /\ step' = [step EXCEPT ![r] = "stop"]
             /\ net' = o.net
             /\ UNCHANGED <<pc, at, phase, failed, broke, passed, kept>>
    BY <2>2, <2>4, <2>8 DEF Commands
  <2>9. /\ UNCHANGED kept => kept' \in [Runs -> BOOLEAN]
        /\ kept' = [kept EXCEPT ![r] = o.net.procs # "down"] => kept' \in [Runs -> BOOLEAN]
    BY DEF TypeOK
  <2> QED BY <2>1, <2>5, <2>6, <2>7, <2>8, <2>9
<1>9. ASSUME NEW r \in Runs, AfterLoop(r)
      PROVE  TypeOK' /\ Placed'
  <2>1. UNCHANGED <<alive, job, at, phase, ready, failed, exit, lock, net, crashes, histVars>>
    BY <1>9 DEF AfterLoop
  <2>2. CASE pc' = [pc EXCEPT ![r] = "closing"] /\ step' = [step EXCEPT ![r] = "stop"]
    <3>1. TypeOK'
      BY <2>1, <2>2 DEF TypeOK, PCs, Commands
    <3>2. Placed'
      BY <2>1, <2>2 DEF TypeOK, Placed, PlaceOK
    <3> QED BY <3>1, <3>2
  <2>3. CASE pc' = [pc EXCEPT ![r] = "finish"] /\ UNCHANGED step
    <3>1. TypeOK'
      BY <2>1, <2>3 DEF TypeOK, PCs
    <3>2. pc[r] = "after"
      BY <1>9 DEF AfterLoop
    <3>3. Placed'
      BY <2>1, <2>3, <3>2 DEF TypeOK, Placed, PlaceOK
    <3> QED BY <3>1, <3>3
  <2> QED BY <1>9, <2>2, <2>3 DEF AfterLoop
<1>10. ASSUME NEW r \in Runs, Closing(r)
       PROVE  TypeOK' /\ Placed'
  <2>1. PICK o \in Outcomes("stop", net) :
          /\ net' = o.net
          /\ kept' = [kept EXCEPT ![r] = o.net.procs # "down"]
          /\ failed' = [failed EXCEPT ![r] = @ \/ ~o.ok]
          /\ broke' = [broke EXCEPT ![r] = @ \/ ~o.ok]
    BY <1>10 DEF Closing
  <2>2. o.net \in Networks
    BY OutcomesAreReports DEF Reports, TypeOK, Commands
  <2>3. failed' \in [Runs -> BOOLEAN] /\ broke' \in [Runs -> BOOLEAN]
    BY <2>1 DEF TypeOK
  <2>4. Placed'
    BY <1>10 DEF Closing, TypeOK, Placed, PlaceOK
  <2> QED BY <1>10, <2>1, <2>2, <2>3, <2>4 DEF Closing, TypeOK, PCs
<1>11. ASSUME NEW r \in Runs, Report(r)
       PROVE  TypeOK' /\ Placed'
  <2>1. broke' \in [Runs -> BOOLEAN]
    BY <1>11 DEF Report, TypeOK
  <2>2. Placed'
    BY <1>11 DEF Report, TypeOK, Placed, PlaceOK
  <2> QED BY <1>11, <2>1, <2>2 DEF Report, TypeOK, PCs
<1>12. ASSUME NEW r \in Runs, OrphanCommand(r)
       PROVE  TypeOK' /\ Placed'
  <2>1. step[r] \in Commands
    BY <1>12 DEF OrphanCommand, Orphan, TypeOK
  <2>2. PICK o \in Outcomes(step[r], net) : net' = o.net
    BY <1>12 DEF OrphanCommand
  <2>3. net' \in Networks
    BY <2>1, <2>2, OutcomesAreReports DEF Reports, TypeOK
  <2>4. Placed'
    BY <1>12 DEF OrphanCommand, Orphan, TypeOK, Placed, PlaceOK
  <2> QED BY <1>12, <2>3, <2>4 DEF OrphanCommand, TypeOK
<1>13. ASSUME NEW r \in Runs, Crash(r)
       PROVE  TypeOK' /\ Placed'
  <2>1. crashes' \in 0..MaxCrashes
    BY <1>13 DEF Crash, Die, TypeOK, RunnerAssumption
  <2>2. Placed'
    BY <1>13 DEF Crash, Die, TypeOK, Placed, PlaceOK
  <2> QED BY <1>13, <2>1, <2>2 DEF Crash, Die, TypeOK
<1>14. ASSUME NEW r \in Runs, Interrupt(r)
       PROVE  TypeOK' /\ Placed'
  <2>1. crashes' \in 0..MaxCrashes
    BY <1>14 DEF Interrupt, Die, TypeOK, RunnerAssumption
  <2>2. Placed'
    BY <1>14 DEF Interrupt, Die, TypeOK, Placed, PlaceOK
  <2>3. net' \in Networks
    <3>1. CASE step[r] = "none"
      BY <1>14, <3>1 DEF Interrupt, TypeOK
    <3>2. CASE step[r] # "none"
      <4>1. step[r] \in Commands
        BY <3>2 DEF TypeOK
      <4>2. Interrupted(step[r], net) \subseteq Networks
        BY <4>1, InterruptedAreNetworks DEF TypeOK
      <4> QED BY <1>14, <3>2, <4>2 DEF Interrupt
    <3> QED BY <3>1, <3>2
  <2> QED BY <1>14, <2>1, <2>2, <2>3 DEF Interrupt, Die, TypeOK
<1> QED
  BY <1>0, <1>1, <1>2, <1>3, <1>4, <1>5, <1>6, <1>7, <1>8, <1>9, <1>10, <1>11,
     <1>12, <1>13, <1>14 DEF Next, Advance

(***************************************************************************)
(* The runner's variables keep their types, and a live run executes a      *)
(* command exactly where main waits for one.                               *)
(***************************************************************************)
THEOREM TypeCorrect == Spec => []TypeOK /\ []Placed
<1>1. ASSUME Init PROVE TypeOK /\ Placed
  <2>1. net \in Networks
    BY <1>1 DEF Init, Networks
  <2>2. 0 \in 0..MaxCrashes
    BY RunnerAssumption DEF RunnerAssumption
  <2>3. /\ at \in [Runs -> Nat \ {0}] /\ phase \in [Runs -> Nat \ {0}]
        /\ exit \in [Runs -> {-1, 0, 1}]
    BY <1>1 DEF Init
  <2>4. /\ pc \in [Runs -> PCs] /\ step \in [Runs -> Commands \cup {"none"}]
        /\ job \in [Runs -> Jobs \cup {NoJob}] /\ lock \in Runs \cup {NoRun}
    BY <1>1 DEF Init, PCs
  <2>5. /\ alive \in [Runs -> BOOLEAN] /\ ready \in [Runs -> BOOLEAN]
        /\ failed \in [Runs -> BOOLEAN] /\ broke \in [Runs -> BOOLEAN]
        /\ kept \in [Runs -> BOOLEAN] /\ tainted \in BOOLEAN
        /\ passed \in [Runs -> SUBSET (Nat \X Nat)]
    BY <1>1 DEF Init
  <2>6. crashes \in 0..MaxCrashes
    BY <1>1, <2>2 DEF Init
  <2>7. TypeOK
    BY <2>1, <2>3, <2>4, <2>5, <2>6 DEF TypeOK
  <2>8. Placed
    BY <1>1 DEF Init, Placed, PlaceOK
  <2> QED BY <2>7, <2>8
<1>2. TypeOK /\ Placed /\ [Next]_vars => TypeOK' /\ Placed'
  BY RunnerAssumption, TypeInductive
<1> QED BY <1>1, <1>2, PTL DEF Spec

-------------------------------------------------------------------------------
(* One run at a time.                                                      *)

\* What a step of another run leaves alone.
Kept(q) ==
  /\ pc'[q] = pc[q] /\ step'[q] = step[q] /\ phase'[q] = phase[q]
  /\ failed'[q] = failed[q] /\ broke'[q] = broke[q]

LEMMA OthersKept ==
  ASSUME TypeOK, NEW r \in Runs,
         Pick(r) \/ Setup(r) \/ Teardown(r) \/ ItemStep(r),
         NEW q \in Runs \ {r}
  PROVE  Kept(q) /\ at'[q] = at[q] /\ passed'[q] = passed[q]
<1> USE DEF TypeOK
<1>1. ASSUME NEW n, NEW why, FailItem(r, n, why)
      PROVE  Kept(q)
  BY <1>1 DEF FailItem, Kept
<1>2. ASSUME NEW p, NEW n, StartPhase(r, p, n)
      PROVE  Kept(q)
  BY <1>1, <1>2 DEF StartPhase, Kept
<1>3. ASSUME NEW n, EndPhase(r, n)
      PROVE  Kept(q) /\ at'[q] = at[q] /\ passed'[q] = passed[q]
  <2>1. CASE FailItem(r, n, TRUE) /\ UNCHANGED <<at, passed>>
    BY <1>1, <2>1
  <2>2. CASE /\ passed' = [passed EXCEPT ![r] = @ \cup {<<at[r], phase[r]>>}]
             /\ StartPhase(r, phase[r] + 1, n) /\ UNCHANGED at
    BY <1>2, <2>2
  <2>3. CASE /\ passed' = [passed EXCEPT ![r] = @ \cup {<<at[r], phase[r]>>}]
             /\ at' = [at EXCEPT ![r] = @ + 1]
             /\ pc' = [pc EXCEPT ![r] = "pick"]
             /\ step' = [step EXCEPT ![r] = "none"]
             /\ UNCHANGED <<phase, failed, broke>>
    BY <2>3 DEF Kept
  <2> QED BY <1>3, <2>1, <2>2, <2>3 DEF EndPhase
<1>4. CASE Pick(r)
  BY <1>2, <1>4 DEF Pick, Kept
<1>5. CASE Setup(r)
  BY <1>1, <1>2, <1>5 DEF Setup, Kept
<1>6. CASE Teardown(r)
  BY <1>1, <1>2, <1>6 DEF Teardown
<1>7. CASE ItemStep(r)
  BY <1>1, <1>3, <1>7 DEF ItemStep, Kept
<1> QED BY <1>4, <1>5, <1>6, <1>7

LEMMA KeepsLock ==
  ASSUME OneRun, NEW r \in Runs, lock' = lock, alive' = alive,
         \A q \in Runs \ {r} : pc'[q] = pc[q],
         alive[r] => Live(r)
  PROVE  OneRun'
BY DEF OneRun, Live

LEMMA OneRunInductive ==
  ASSUME RunnerAssumption, TypeOK, OneRun, [Next]_vars
  PROVE  OneRun'
<1>0. CASE UNCHANGED vars
  BY <1>0 DEF vars, runVars, OneRun, Live
<1>1. ASSUME NEW r \in Runs, Acquire(r)
      PROVE  OneRun'
  <2>1. lock = NoRun /\ lock' = r /\ alive' = alive
    BY <1>1 DEF Acquire, LockNeeded
  <2>2. \A q \in Runs : ~Live(q)
    BY <2>1 DEF OneRun, RunnerAssumption
  <2>3. \A q \in Runs \ {r} : pc'[q] = pc[q]
    BY <1>1 DEF Acquire, TypeOK
  <2> QED BY <2>1, <2>2, <2>3 DEF OneRun, Live
<1>2. ASSUME NEW r \in Runs, Refuse(r)
      PROVE  OneRun'
  BY <1>2 DEF Refuse, OneRun, Live, TypeOK
<1>3. ASSUME NEW r \in Runs, Abort(r) \/ Report(r)
      PROVE  OneRun'
  <2>1. alive[r] /\ pc[r] \in {"pick", "finish"} /\ alive' = alive
        /\ pc' = [pc EXCEPT ![r] = "ended"]
    BY <1>3 DEF Abort, Report
  <2>2. \A q \in Runs : Live(q) => q = r
    BY <2>1 DEF OneRun, Live
  <2> QED BY <2>1, <2>2 DEF OneRun, Live, TypeOK
<1>4. ASSUME NEW r \in Runs, LeaveLoop(r) \/ AfterLoop(r) \/ Closing(r)
      PROVE  OneRun'
  <2>1. lock' = lock /\ alive' = alive /\ Live(r)
    BY <1>4 DEF LeaveLoop, AfterLoop, Closing, Live
  <2>2. \A q \in Runs \ {r} : pc'[q] = pc[q]
    BY <1>4 DEF LeaveLoop, AfterLoop, Closing, TypeOK
  <2> QED BY <2>1, <2>2, KeepsLock
<1>5. ASSUME NEW r \in Runs, Pick(r) \/ Setup(r) \/ Teardown(r) \/ ItemStep(r)
      PROVE  OneRun'
  <2>1. lock' = lock /\ alive' = alive /\ (alive[r] => Live(r))
    BY <1>5 DEF Pick, Setup, Teardown, ItemStep, Live
  <2>2. \A q \in Runs \ {r} : pc'[q] = pc[q]
    BY <1>5, OthersKept DEF Kept
  <2> QED BY <2>1, <2>2, KeepsLock
<1>6. ASSUME NEW r \in Runs, OrphanCommand(r)
      PROVE  OneRun'
  BY <1>6 DEF OrphanCommand, OneRun, Live
<1>7. ASSUME NEW r \in Runs, Die(r)
      PROVE  OneRun'
  BY <1>7 DEF Die, OneRun, Live, TypeOK
<1> QED
  BY <1>0, <1>1, <1>2, <1>3, <1>4, <1>5, <1>6, <1>7
     DEF Next, Advance, Crash, Interrupt

(***************************************************************************)
(* Mutual exclusion: whatever the runs and however many of them die, at    *)
(* most one live run is between acquireRunLock and its exit.               *)
(***************************************************************************)
THEOREM RunsExclusive == Spec => []OneRun
<1>1. Init => OneRun
  BY DEF Init, OneRun, Live
<1>2. TypeOK /\ OneRun /\ [Next]_vars => OneRun'
  BY RunnerAssumption, OneRunInductive
<1> QED BY <1>1, <1>2, TypeCorrect, PTL DEF Spec

-------------------------------------------------------------------------------
(* The network under a test.                                               *)

\* A step of another run changes the network only if that run is live or has
\* left something running.
LEMMA ChangedByBusy ==
  ASSUME TypeOK, NEW q \in Runs, ~Live(q), ~Orphan(q),
         \/ Acquire(q) \/ Refuse(q) \/ Advance(q) \/ Crash(q) \/ Interrupt(q)
  PROVE  net' = net
<1>1. ASSUME Pick(q) \/ Setup(q) \/ Teardown(q) \/ Closing(q) \/ Interrupt(q)
      PROVE  FALSE
  BY <1>1 DEF Pick, Setup, Teardown, Closing, Interrupt, Die, Live
<1>2. ASSUME ItemStep(q) PROVE FALSE
  BY <1>2 DEF ItemStep, Live, Orphan, TypeOK
<1>3. ASSUME OrphanCommand(q) PROVE FALSE
  BY <1>3 DEF OrphanCommand
<1>4. ASSUME Acquire(q) \/ Refuse(q) \/ Abort(q) \/ LeaveLoop(q) \/ AfterLoop(q)
               \/ Report(q) \/ Crash(q)
      PROVE  net' = net
  BY <1>4 DEF Acquire, Refuse, Abort, LeaveLoop, AfterLoop, Report, Crash
<1> QED BY <1>1, <1>2, <1>3, <1>4 DEF Advance

\* The step of a run that ends its test moves the run on, and no other.
LEMMA TestEnds ==
  ASSUME TypeOK, Placed, NEW r \in Runs, Live(r), step[r] = "test",
         \/ Acquire(r) \/ Refuse(r) \/ Advance(r) \/ Crash(r) \/ Interrupt(r)
  PROVE  \/ net' = net
         \/ /\ <<step, at, phase, alive>>' # <<step, at, phase, alive>>
            /\ \A q \in Runs \ {r} : step'[q] = step[q]
<1>1. pc[r] = "item"
  BY DEF Placed, PlaceOK
<1>2. CASE ItemStep(r)
  <2>1. \A q \in Runs \ {r} : step'[q] = step[q]
    BY <1>2, OthersKept DEF Kept
  <2>2. ASSUME NEW n, NEW why, FailItem(r, n, why) PROVE step' # step
    BY <2>2 DEF FailItem, TypeOK
  <2>3. ASSUME NEW n, EndPhase(r, n)
        PROVE  step' # step \/ at' # at \/ phase' # phase
    <3>1. CASE FailItem(r, n, TRUE)
      BY <2>2, <3>1
    <3>2. CASE StartPhase(r, phase[r] + 1, n)
      <4>1. CASE phase' = [phase EXCEPT ![r] = phase[r] + 1]
        BY <4>1 DEF TypeOK
      <4> QED BY <2>2, <3>2, <4>1 DEF StartPhase
    <3>3. CASE at' = [at EXCEPT ![r] = @ + 1]
      BY <3>3 DEF TypeOK
    <3> QED BY <2>3, <3>1, <3>2, <3>3 DEF EndPhase
  <2>4. step' # step \/ at' # at \/ phase' # phase
    <3>1. PICK o \in Outcomes(step[r], net) :
            \/ step' = [step EXCEPT ![r] = "stop"]
            \/ EndPhase(r, o.net)
            \/ FailItem(r, o.net, TRUE)
      BY <1>2 DEF ItemStep
    <3>2. CASE step' = [step EXCEPT ![r] = "stop"]
      BY <3>2 DEF TypeOK
    <3> QED BY <2>2, <2>3, <3>1, <3>2
  <2> QED BY <2>1, <2>4
<1>3. CASE Interrupt(r)
  BY <1>3 DEF Interrupt, Die, TypeOK, Live
<1>4. CASE Crash(r) \/ Acquire(r) \/ Refuse(r)
  BY <1>4 DEF Crash, Acquire, Refuse
<1>5. ASSUME \/ Abort(r) \/ LeaveLoop(r) \/ Pick(r) \/ Setup(r) \/ Teardown(r)
             \/ AfterLoop(r) \/ Closing(r) \/ Report(r) \/ OrphanCommand(r)
      PROVE  FALSE
  BY <1>1, <1>5 DEF Abort, LeaveLoop, Pick, Setup, Teardown, AfterLoop, Closing,
     Report, OrphanCommand, Orphan, Live
<1> QED BY <1>2, <1>3, <1>4, <1>5 DEF Advance

(***************************************************************************)
(* While a run's test is going on, the network changes only by a step of   *)
(* that run, as long as no commands of a dead run are going on.            *)
(***************************************************************************)
THEOREM TestUndisturbed == Spec => NetworkStable
<1> DEFINE Stable(r) ==
      (Live(r) /\ step[r] = "test" /\ ~ \E q \in Runs : Orphan(q)) =>
          \/ net' = net
          \/ <<step, at, phase, alive>>' # <<step, at, phase, alive>>
             /\ \A q \in Runs \ {r} : step'[q] = step[q]
<1>1. ASSUME TypeOK, Placed, OneRun, Next, NEW r \in Runs PROVE Stable(r)
  <2> SUFFICES ASSUME Live(r), step[r] = "test", ~ \E q \in Runs : Orphan(q)
               PROVE  \/ net' = net
                      \/ /\ <<step, at, phase, alive>>' # <<step, at, phase, alive>>
                         /\ \A q \in Runs \ {r} : step'[q] = step[q]
    OBVIOUS
  <2>1. PICK q \in Runs :
          Acquire(q) \/ Refuse(q) \/ Advance(q) \/ Crash(q) \/ Interrupt(q)
    BY <1>1 DEF Next
  <2>2. CASE q = r
    BY <1>1, <2>1, <2>2, TestEnds
  <2>3. CASE q # r
    <3>1. ~Live(q) /\ ~Orphan(q)
      BY <1>1, <2>3 DEF OneRun
    <3> QED BY <1>1, <2>1, <3>1, ChangedByBusy
  <2> QED BY <2>2, <2>3
<1>2. TypeOK /\ Placed /\ OneRun /\ [Next]_vars => [\A r \in Runs : Stable(r)]_vars
  BY <1>1
<1> QED
  BY <1>2, TypeCorrect, RunsExclusive, PTL DEF Spec, NetworkStable

-------------------------------------------------------------------------------
(***************************************************************************)
(* Isolation.  Shape is what a run knows of the network wherever main is:  *)
(* a private network is empty from make clean to make run and then has the *)
(* run's own test, a shared one is up and has tests of the run's shared    *)
(* groups only.  It holds for the one run that is busy: a run that is live *)
(* or whose commands go on after it died.                                  *)
(***************************************************************************)
Busy(r) == Live(r) \/ Orphan(r)
Own(r)  == <<r, <<at[r], phase[r]>>>>

AllShared(r, n) == n.procs = "up" /\ \A v \in n.users : v[1] = r /\ Sharing(v)

Compatible(U) ==
  \A v, w \in U : \/ v = w
                  \/ Attached(v) \/ Attached(w)
                  \/ v[1] = w[1] /\ Sharing(v) /\ Sharing(w)

Shape(r) ==
  /\ pc[r] = "setup" =>
       UseShared(r) /\ ~ready[r] /\ (step[r] = "run" => net.users = {})
  /\ pc[r] = "teardown" => ~UseShared(r)
  /\ pc[r] = "pick" /\ ready[r] => AllShared(r, net)
  /\ pc[r] = "item" =>
       /\ ready[r] <=> UseShared(r)
       /\ SkipSetup(r) => step[r] = "test"
       /\ UseShared(r) => AllShared(r, net) /\ Own(r) \in net.users
       /\ ~SkipSetup(r) /\ step[r] = "run" => net.users = {}
       /\ ~SkipSetup(r) /\ step[r] = "test" => net.procs = "up" /\ net.users = {Own(r)}

\* A run that has not started has no shared network and no test on the chain.
Fresh ==
  /\ \A r \in Runs : pc[r] = "idle" => ~ready[r]
  /\ \A v \in net.users : pc[v[1]] # "idle"

\* As long as no run started while commands of a dead one were going on, or on
\* the chain of other tests.
Isolated ==
  ~tainted =>
    /\ \A q, r \in Runs : Busy(q) /\ Busy(r) => q = r
    /\ Compatible(net.users)
    /\ \A r \in Runs : Busy(r) => Shape(r)

\* What the commands do to the tests on the chain.
LEMMA CommandsAndUsers ==
  ASSUME NEW n \in Networks, NEW c \in Commands, NEW o \in Outcomes(c, n)
  PROVE  /\ o.net.users \in {n.users, {}}
         /\ c = "run" /\ o.ok => o.net.procs = "up" /\ o.net.users = n.users
         /\ c = "test" => o.net = n
<1>1. \A m \in Halted(n) : m.users = n.users
  BY DEF Halted, Down, Networks
<1>2. \A q \in {"down", "up", "stray"} :
        [n EXCEPT !.procs = q].users = n.users /\ [n EXCEPT !.procs = q].procs = q
  BY DEF Networks
<1>3. CASE o = Result(FALSE, n)
  BY <1>3 DEF Result
<1>4. CASE c = "clean" /\ o \in CleanOutcomes(n)
  <2>1. \E k \in Halted(n) : o.net \in Cleared(k)
    BY <1>4 DEF CleanOutcomes, Result
  <2> QED BY <1>1, <1>4, <2>1 DEF Cleared
<1>5. CASE c = "init" /\ o \in InitOutcomes(n)
  <2>1. \E m \in Cleared(n) : o.net \in {m, [m EXCEPT !.data = TRUE]}
    <3> DEFINE there == {[m EXCEPT !.data = TRUE] : m \in Cleared(n)}
    <3>1. o \in {Result(TRUE, m) : m \in there} \cup {Result(FALSE, m) : m \in Cleared(n) \cup there}
      BY <1>5 DEF InitOutcomes
    <3>2. o.net \in Cleared(n) \cup there
      <4> HIDE DEF there
      <4> QED BY <3>1 DEF Result
    <3> QED BY <3>2
  <2>2. \A m \in Cleared(n) : m.users \in {n.users, {}} /\ [m EXCEPT !.data = TRUE].users = m.users
    BY DEF Cleared
  <2> QED BY <1>5, <2>1, <2>2
<1>6. CASE c = "run" /\ o \in RunOutcomes(n)
  <2>1. \/ o = Result(TRUE, [n EXCEPT !.procs = "up"])
        \/ \E q \in {"down", "up", "stray"} : o = Result(FALSE, [n EXCEPT !.procs = q])
        \/ \E m \in Halted(n) : o = Result(FALSE, m)
    BY <1>6 DEF RunOutcomes
  <2>2. \/ ~o.ok /\ \E q \in {"down", "up", "stray"} : o.net = [n EXCEPT !.procs = q]
        \/ ~o.ok /\ o.net \in Halted(n)
        \/ o.net = [n EXCEPT !.procs = "up"]
    BY <2>1 DEF Result
  <2> QED BY <1>1, <1>2, <1>6, <2>2
<1>7. CASE c = "test" /\ o \in TestOutcomes(n)
  BY <1>7 DEF TestOutcomes, Result
<1>8. CASE c = "stop" /\ o \in StopOutcomes(n)
  <2>1. o.net \in Halted(n)
    BY <1>8 DEF StopOutcomes, Result
  <2> QED BY <1>1, <1>8, <2>1
<1> QED BY <1>3, <1>4, <1>5, <1>6, <1>7, <1>8 DEF Outcomes, Commands

LEMMA InterruptedUsers ==
  ASSUME NEW n \in Networks, NEW c \in Commands, NEW m \in Interrupted(c, n)
  PROVE  m.users \in {n.users, {}}
<1>1. \A d \in Commands : \A o \in Outcomes(d, n) : o.net.users \in {n.users, {}}
  BY CommandsAndUsers
<1>2. "stop" \in Commands
  BY DEF Commands
<1> QED BY <1>1, <1>2 DEF Interrupted

\* Fewer tests are compatible when more are, whoever changes what else.
LEMMA FewerCompatible ==
  ASSUME job' = job, Compatible(net.users), net'.users \in {net.users, {}}
  PROVE  Compatible(net.users)'
BY DEF Compatible, Attached, Sharing

\* What a phase finds when it starts on network n.
LEMMA StartPhaseShape ==
  ASSUME TypeOK, NEW r \in Runs, NEW p \in Nat \ {0}, NEW n \in Networks,
         StartPhase(r, p, n),
         job' = job, at' = at, alive' = alive, ready'[r] <=> UseShared(r),
         UseShared(r) => AllShared(r, n), Compatible(n.users)
  PROVE  Compatible(net.users)' /\ (Busy(r)' => Shape(r)')
<1> DEFINE first == IF SkipSetup(r) THEN "test" ELSE "clean"
           w == <<r, <<at[r], p>>>>
<1>0. /\ UseShared(r)' = UseShared(r) /\ SkipSetup(r)' = SkipSetup(r)
      /\ \A v : Sharing(v)' = Sharing(v) /\ Attached(v)' = Attached(v)
  BY DEF UseShared, SkipSetup, Grouped, Sharing, Attached
<1>1. ASSUME NEW why, FailItem(r, n, why) PROVE Compatible(net.users)' /\ Shape(r)'
  <2>1. pc'[r] = "after" /\ net' = n
    BY <1>1 DEF FailItem, TypeOK
  <2> QED BY <1>0, <2>1 DEF Shape, Compatible
<1>3. CASE /\ pc' = [pc EXCEPT ![r] = "item"]
           /\ phase' = [phase EXCEPT ![r] = p]
           /\ step' = [step EXCEPT ![r] = first]
           /\ net' = Enter(n, first, w)
  <2>1. pc'[r] = "item" /\ step'[r] = first /\ Own(r)' = w
    BY <1>3 DEF TypeOK, Own
  <2>2. CASE ~SkipSetup(r)
    <3>1. net' = n /\ ~UseShared(r)
      BY <1>3, <2>2 DEF Enter, SkipSetup
    <3> QED BY <1>0, <2>1, <2>2, <3>1 DEF Shape, Compatible
  <2>3. CASE UseShared(r)
    <3>1. net' = [n EXCEPT !.users = @ \cup {w}]
      BY <1>3, <2>3 DEF Enter, SkipSetup, AllShared
    <3>2. Sharing(w) /\ w[1] = r
      BY <2>3 DEF Sharing, UseShared, Grouped
    <3>3. net'.procs = "up" /\ net'.users = n.users \cup {w}
      BY <2>3, <3>1 DEF AllShared, Networks
    <3>4. \A v \in net'.users : v[1] = r /\ Sharing(v)
      BY <2>3, <3>2, <3>3 DEF AllShared
    <3>5. AllShared(r, net)' /\ Compatible(net.users)'
      BY <1>0, <3>3, <3>4 DEF AllShared, Compatible
    <3>6. SkipSetup(r)
      BY <2>3 DEF SkipSetup
    <3> QED BY <1>0, <2>1, <2>3, <3>3, <3>5, <3>6 DEF Shape
  <2>4. CASE SkipSetup(r) /\ ~UseShared(r)
    <3>1. Attached(w)
      BY <2>4 DEF SkipSetup, Attached
    <3>2. net'.users \subseteq n.users \cup {w}
      BY <1>3 DEF Enter, Networks
    <3>3. Compatible(net.users)'
      BY <1>0, <3>1, <3>2 DEF Compatible
    <3> QED BY <1>0, <2>1, <2>4, <3>3 DEF Shape
  <2> QED BY <2>2, <2>3, <2>4
<1> QED BY <1>1, <1>3 DEF StartPhase

\* What is left when the tests of a phase have passed.
LEMMA EndPhaseShape ==
  ASSUME TypeOK, NEW r \in Runs, NEW n \in Networks, EndPhase(r, n),
         job' = job, alive' = alive, ready' = ready, ready[r] <=> UseShared(r),
         UseShared(r) => AllShared(r, n), Compatible(n.users)
  PROVE  Compatible(net.users)' /\ (Busy(r)' => Shape(r)')
<1>0. \A v : Sharing(v)' = Sharing(v) /\ Attached(v)' = Attached(v)
  BY DEF Sharing, Attached
<1>1. CASE FailItem(r, n, TRUE)
  <2>1. pc'[r] = "after" /\ net' = n
    BY <1>1 DEF FailItem, TypeOK
  <2> QED BY <1>0, <2>1 DEF Shape, Compatible
<1>2. CASE StartPhase(r, phase[r] + 1, n) /\ UNCHANGED at
  <2>1. phase[r] + 1 \in Nat \ {0}
    BY DEF TypeOK
  <2> QED BY <1>2, <2>1, StartPhaseShape
<1>3. CASE pc' = [pc EXCEPT ![r] = "pick"] /\ net' = n
  <2>1. pc'[r] = "pick"
    BY <1>3 DEF TypeOK
  <2> QED BY <1>0, <1>3, <2>1 DEF Shape, Compatible, AllShared
<1> QED BY <1>1, <1>2, <1>3 DEF EndPhase

\* Only a busy run takes a step after it has started, and it moves no other.
LEMMA StepIsBusy ==
  ASSUME TypeOK, NEW r \in Runs, Advance(r) \/ Crash(r) \/ Interrupt(r)
  PROVE  /\ Busy(r) /\ job' = job /\ (tainted => tainted')
         /\ \A q \in Runs \ {r} : Busy(q)' = Busy(q)
<1>1. CASE Pick(r) \/ Setup(r) \/ Teardown(r) \/ ItemStep(r)
  <2>1. \A q \in Runs \ {r} : pc'[q] = pc[q] /\ step'[q] = step[q]
    BY <1>1, OthersKept DEF Kept
  <2>2. alive' = alive /\ job' = job /\ (tainted => tainted')
    <3>1. CASE Pick(r)
      BY <3>1 DEF Pick
    <3>4. CASE Teardown(r)
      BY <3>4 DEF Teardown
    <3>2. CASE Setup(r)
      <4>1. tainted => tainted'
        <5>1. \E o \in Outcomes(step[r], net) : tainted' = (tainted \/ Soiled(step[r], o))
          BY <3>2 DEF Setup
        <5> QED BY <5>1
      <4> QED BY <3>2, <4>1 DEF Setup
    <3>3. CASE ItemStep(r)
      <4>1. tainted => tainted'
        <5>1. \E o \in Outcomes(step[r], net) : tainted' = (tainted \/ Soiled(step[r], o))
          BY <3>3 DEF ItemStep
        <5> QED BY <5>1
      <4> QED BY <3>3, <4>1 DEF ItemStep
    <3> QED BY <1>1, <3>1, <3>2, <3>3, <3>4
  <2>3. Busy(r)
    BY <1>1 DEF Pick, Setup, Teardown, ItemStep, Busy, Live, Orphan
  <2> QED BY <2>1, <2>2, <2>3 DEF Busy, Live, Orphan
<1>2. CASE Abort(r) \/ LeaveLoop(r) \/ AfterLoop(r) \/ Closing(r) \/ Report(r)
             \/ OrphanCommand(r)
  <2>1. \A q \in Runs \ {r} : pc'[q] = pc[q] /\ step'[q] = step[q]
    BY <1>2 DEF Abort, LeaveLoop, AfterLoop, Closing, Report, OrphanCommand, TypeOK
  <2>2. alive' = alive /\ job' = job /\ tainted' = tainted
    BY <1>2 DEF Abort, LeaveLoop, AfterLoop, Closing, Report, OrphanCommand, histVars
  <2>3. Busy(r)
    BY <1>2 DEF Abort, LeaveLoop, AfterLoop, Closing, Report, OrphanCommand, Busy, Live
  <2> QED BY <2>1, <2>2, <2>3 DEF Busy, Live, Orphan
<1>3. CASE Crash(r) \/ Interrupt(r)
  BY <1>3 DEF Crash, Interrupt, Die, Busy, Live, Orphan, TypeOK, histVars
<1> QED BY <1>1, <1>2, <1>3 DEF Advance

\* Every step of a busy run keeps what it knows of the network.
LEMMA ShapeKept ==
  ASSUME TypeOK, Placed, NEW r \in Runs, Advance(r) \/ Crash(r) \/ Interrupt(r),
         Shape(r), Compatible(net.users), ~tainted'
  PROVE  Compatible(net.users)' /\ (Busy(r)' => Shape(r)')
<1>0. job' = job /\ UseShared(r) \in BOOLEAN /\ ready[r] \in BOOLEAN
      /\ (UseShared(r) => SkipSetup(r))
  BY StepIsBusy DEF UseShared, SkipSetup, TypeOK, Grouped
<1>1. ASSUME net' = net PROVE Compatible(net.users)'
  BY <1>0, <1>1, FewerCompatible
<1>2. ASSUME UNCHANGED <<pc, at, phase, step, ready, net>> PROVE Shape(r)'
  BY <1>0, <1>2 DEF Shape, UseShared, SkipSetup, Grouped, AllShared, Sharing, Own
<1>3. CASE Abort(r) \/ LeaveLoop(r) \/ AfterLoop(r) \/ Report(r)
  <2>1. net' = net /\ pc'[r] \in {"ended", "after", "closing", "finish"}
    BY <1>3 DEF Abort, LeaveLoop, AfterLoop, Report, TypeOK
  <2> QED BY <1>1, <2>1 DEF Shape
<1>4. CASE Pick(r)
  <2>1. job' = job /\ at' = at /\ alive' = alive /\ ready' = ready
    BY <1>4 DEF Pick
  <2>2. CASE UseShared(r) /\ ~ready[r] /\ pc' = [pc EXCEPT ![r] = "setup"]
             /\ step' = [step EXCEPT ![r] = "clean"] /\ net' = net
    <3>1. pc'[r] = "setup" /\ step'[r] = "clean"
      BY <2>2 DEF TypeOK
    <3> QED BY <1>1, <2>1, <2>2, <3>1 DEF Shape, UseShared, Grouped
  <2>3. CASE ~UseShared(r) /\ pc' = [pc EXCEPT ![r] = "teardown"] /\ net' = net
    <3>1. pc'[r] = "teardown"
      BY <2>3 DEF TypeOK
    <3> QED BY <1>1, <2>1, <2>3, <3>1 DEF Shape, UseShared, Grouped
  <2>4. CASE (UseShared(r) <=> ready[r]) /\ StartPhase(r, 1, net)
    <3>1. UseShared(r) => AllShared(r, net)
      BY <1>4, <2>4 DEF Shape, Pick
    <3> QED BY <2>1, <2>4, <3>1, StartPhaseShape DEF TypeOK
  <2> QED BY <1>4, <2>2, <2>3, <2>4 DEF Pick
<1>5. CASE Setup(r)
  <2>1. job' = job /\ at' = at /\ alive' = alive /\ pc[r] = "setup" /\ alive[r]
        /\ step[r] \in {"clean", "init", "run"} /\ step[r] \in Commands
    BY <1>5 DEF Setup, Placed, PlaceOK, Commands
  <2>2. UseShared(r) /\ ~ready[r] /\ (step[r] = "run" => net.users = {})
    BY <2>1 DEF Shape
  <2>3. PICK o \in Outcomes(step[r], net) :
          /\ ~Soiled(step[r], o)
          /\ \/ /\ o.ok /\ step[r] # "run"
                /\ step' = [step EXCEPT ![r] = NextCommand[@]]
                /\ net' = o.net
                /\ UNCHANGED <<pc, phase, ready, failed, broke>>
             \/ /\ o.ok /\ step[r] = "run"
                /\ ready' = [ready EXCEPT ![r] = TRUE]
                /\ StartPhase(r, 1, o.net)
             \/ /\ ~o.ok
                /\ FailItem(r, o.net, TRUE)
                /\ UNCHANGED ready
    BY <1>5 DEF Setup
  <2>4. /\ o.net \in Networks /\ o.net.users \in {net.users, {}}
        /\ step[r] = "run" /\ o.ok => o.net.procs = "up" /\ o.net.users = net.users
    BY <2>1, OutcomesAreReports, CommandsAndUsers DEF Reports, TypeOK
  <2>5. CASE /\ o.ok /\ step[r] # "run" /\ net' = o.net
             /\ step' = [step EXCEPT ![r] = NextCommand[@]]
             /\ UNCHANGED <<pc, ready>>
    <3>1. step'[r] = "run" => step[r] = "init"
      BY <2>1, <2>5 DEF NextCommand, TypeOK
    <3>2. step'[r] = "run" => net'.users = {}
      BY <2>3, <2>5, <3>1 DEF Soiled
    <3>3. Compatible(net.users)'
      BY <2>1, <2>4, <2>5, FewerCompatible
    <3> QED BY <2>1, <2>2, <2>5, <3>2, <3>3 DEF Shape, UseShared, Grouped
  <2>6. CASE /\ o.ok /\ step[r] = "run"
             /\ ready' = [ready EXCEPT ![r] = TRUE]
             /\ StartPhase(r, 1, o.net)
    <3>1. ready'[r] = TRUE
      BY <2>6 DEF TypeOK
    <3>2. AllShared(r, o.net) /\ Compatible(o.net.users)
      BY <2>2, <2>4, <2>6 DEF AllShared, Compatible
    <3> QED BY <2>1, <2>2, <2>4, <2>6, <3>1, <3>2, StartPhaseShape
  <2>7. CASE FailItem(r, o.net, TRUE)
    <3>1. pc'[r] = "after" /\ net' = o.net
      BY <2>7 DEF FailItem, TypeOK
    <3> QED BY <2>1, <2>4, <3>1, FewerCompatible DEF Shape
  <2> QED BY <2>3, <2>5, <2>6, <2>7
<1>6. CASE Teardown(r)
  <2>1. job' = job /\ at' = at /\ alive' = alive /\ pc[r] = "teardown" /\ ready'[r] = FALSE
    BY <1>6 DEF Teardown, TypeOK
  <2>2. ~UseShared(r)
    BY <2>1 DEF Shape
  <2>3. PICK o \in Outcomes("stop", net) : StartPhase(r, 1, o.net) \/ FailItem(r, o.net, TRUE)
    BY <1>6 DEF Teardown
  <2>4. o.net \in Networks /\ o.net.users \in {net.users, {}}
    BY OutcomesAreReports, CommandsAndUsers DEF Reports, TypeOK, Commands
  <2>5. CASE StartPhase(r, 1, o.net)
    <3>1. Compatible(o.net.users)
      BY <2>4 DEF Compatible
    <3> QED BY <2>1, <2>2, <2>4, <2>5, <3>1, StartPhaseShape
  <2>6. CASE FailItem(r, o.net, TRUE)
    <3>1. pc'[r] = "after" /\ net' = o.net
      BY <2>6 DEF FailItem, TypeOK
    <3> QED BY <2>1, <2>4, <3>1, FewerCompatible DEF Shape
  <2> QED BY <2>3, <2>5, <2>6
<1>7. CASE ItemStep(r)
  <2>1. /\ job' = job /\ alive' = alive /\ ready' = ready /\ pc[r] = "item"
        /\ step[r] \in Commands
    BY <1>7 DEF ItemStep, Placed, PlaceOK
  <2>2. /\ ready[r] <=> UseShared(r)
        /\ SkipSetup(r) => step[r] = "test"
        /\ UseShared(r) => AllShared(r, net)
        /\ ~SkipSetup(r) /\ step[r] = "run" => net.users = {}
    BY <2>1 DEF Shape
  <2>3. PICK o \in Outcomes(step[r], net) :
          /\ ~Soiled(step[r], o)
          /\ \/ /\ o.ok /\ step[r] \in {"clean", "init", "run"}
                /\ step' = [step EXCEPT ![r] = NextCommand[step[r]]]
                /\ net' = Enter(o.net, NextCommand[step[r]], Own(r))
                /\ UNCHANGED <<pc, at, phase>>
             \/ /\ step[r] = "test" /\ ~SkipSetup(r)
                /\ step' = [step EXCEPT ![r] = "stop"]
                /\ net' = o.net
                /\ UNCHANGED <<pc, at, phase>>
             \/ ((step[r] = "test" /\ SkipSetup(r)) \/ step[r] = "stop") /\ EndPhase(r, o.net)
             \/ FailItem(r, o.net, TRUE) /\ UNCHANGED at
    BY <1>7 DEF ItemStep, Own
  <2>4. /\ o.net \in Networks /\ o.net.users \in {net.users, {}}
        /\ step[r] = "run" /\ o.ok => o.net.procs = "up" /\ o.net.users = net.users
        /\ step[r] = "test" => o.net = net
    BY <2>1, OutcomesAreReports, CommandsAndUsers DEF Reports, TypeOK
  <2>5. CASE /\ o.ok /\ step[r] \in {"clean", "init", "run"}
             /\ step' = [step EXCEPT ![r] = NextCommand[step[r]]]
             /\ net' = Enter(o.net, NextCommand[step[r]], Own(r))
             /\ UNCHANGED <<pc, at, phase>>
    <3>1. ~SkipSetup(r) /\ ~UseShared(r) /\ (step[r] \in {"init", "run"} => o.net.users = {})
      BY <1>0, <2>2, <2>3, <2>4, <2>5 DEF Soiled
    <3>2. /\ pc'[r] = "item" /\ step'[r] = NextCommand[step[r]] /\ Own(r)' = Own(r)
          /\ UseShared(r)' = UseShared(r) /\ SkipSetup(r)' = SkipSetup(r)
      BY <2>1, <2>5 DEF Own, UseShared, SkipSetup, Grouped, TypeOK
    <3>3. CASE step[r] = "run"
      <4>1. step'[r] = "test" /\ net' = Enter(o.net, "test", Own(r))
        BY <2>5, <3>2, <3>3 DEF NextCommand
      <4>2. net' = [o.net EXCEPT !.users = @ \cup {Own(r)}]
        BY <2>4, <2>5, <3>3, <4>1 DEF Enter
      <4>3. net'.procs = "up" /\ net'.users = {Own(r)}
        BY <2>4, <2>5, <3>1, <3>3, <4>2 DEF Networks
      <4>4. Shape(r)'
        BY <2>1, <2>2, <3>1, <3>2, <4>1, <4>3 DEF Shape
      <4> QED BY <4>3, <4>4 DEF Compatible
    <3>4. CASE step[r] \in {"clean", "init"}
      <4>1. /\ step'[r] \in {"init", "run"} /\ (step'[r] = "run" => step[r] = "init")
            /\ net' = o.net
        BY <2>5, <3>2, <3>4 DEF NextCommand, Enter
      <4>2. Shape(r)'
        BY <2>1, <2>2, <3>1, <3>2, <4>1 DEF Shape
      <4> QED BY <2>1, <2>4, <4>1, <4>2, FewerCompatible
    <3> QED BY <2>5, <3>3, <3>4
  <2>6. CASE /\ step[r] = "test" /\ ~SkipSetup(r)
             /\ step' = [step EXCEPT ![r] = "stop"]
             /\ net' = o.net
             /\ UNCHANGED <<pc, at, phase>>
    <3>1. /\ pc'[r] = "item" /\ step'[r] = "stop" /\ net' = net /\ ~UseShared(r)
          /\ UseShared(r)' = UseShared(r) /\ SkipSetup(r)' = SkipSetup(r)
      BY <1>0, <2>1, <2>4, <2>6 DEF UseShared, SkipSetup, Grouped, TypeOK
    <3> QED BY <1>1, <2>1, <2>2, <2>6, <3>1 DEF Shape
  <2>7. CASE /\ (step[r] = "test" /\ SkipSetup(r)) \/ step[r] = "stop"
             /\ EndPhase(r, o.net)
    <3>1. UseShared(r) => AllShared(r, o.net)
      BY <1>0, <2>2, <2>4, <2>7
    <3>2. Compatible(o.net.users)
      BY <2>4 DEF Compatible
    <3> QED BY <2>1, <2>2, <2>4, <2>7, <3>1, <3>2, EndPhaseShape
  <2>8. CASE FailItem(r, o.net, TRUE)
    <3>1. pc'[r] = "after" /\ net' = o.net
      BY <2>8 DEF FailItem, TypeOK
    <3> QED BY <2>1, <2>4, <3>1, FewerCompatible DEF Shape
  <2> QED BY <2>3, <2>5, <2>6, <2>7, <2>8
<1>8. CASE Closing(r)
  <2>1. job' = job /\ pc'[r] = "finish"
    BY <1>8 DEF Closing, TypeOK
  <2>2. net'.users \in {net.users, {}}
    BY <1>8, CommandsAndUsers DEF Closing, TypeOK, Commands
  <2> QED BY <2>1, <2>2, FewerCompatible DEF Shape
<1>9. CASE OrphanCommand(r)
  <2>1. job' = job /\ ~Busy(r)'
    BY <1>9 DEF OrphanCommand, Orphan, Busy, Live, TypeOK
  <2>2. net'.users \in {net.users, {}}
    BY <1>9, CommandsAndUsers DEF OrphanCommand, Orphan, TypeOK
  <2> QED BY <2>1, <2>2, FewerCompatible
<1>10. CASE Crash(r)
  BY <1>1, <1>2, <1>10 DEF Crash, Die
<1>11. CASE Interrupt(r)
  <2>1. job' = job /\ ~Busy(r)'
    BY <1>11 DEF Interrupt, Die, Orphan, Busy, Live, TypeOK
  <2>2. net'.users \in {net.users, {}}
    BY <1>11, InterruptedUsers DEF Interrupt, TypeOK
  <2> QED BY <2>1, <2>2, FewerCompatible
<1> QED BY <1>3, <1>4, <1>5, <1>6, <1>7, <1>8, <1>9, <1>10, <1>11 DEF Advance

\* A step of a run brings no test but its own to the chain, and never leads back
\* to where main has not started.
Brings(r, n) == pc'[r] # "idle" /\ \A v \in net'.users : v \in n.users \/ v[1] = r

LEMMA StepBrings ==
  ASSUME TypeOK, Placed, NEW r \in Runs, Advance(r) \/ Crash(r) \/ Interrupt(r)
  PROVE  Brings(r, net) /\ \A q \in Runs \ {r} : pc'[q] = pc[q] /\ ready'[q] = ready[q]
<1>1. ASSUME NEW n, NEW why, FailItem(r, n, why) PROVE Brings(r, n)
  BY <1>1 DEF FailItem, Brings, TypeOK
<1>2. ASSUME NEW n \in Networks, NEW c, NEW w, w[1] = r
      PROVE  \A v \in Enter(n, c, w).users : v \in n.users \/ v[1] = r
  BY <1>2 DEF Enter, Networks
<1>3. ASSUME NEW n \in Networks, NEW p, StartPhase(r, p, n) PROVE Brings(r, n)
  <2> DEFINE first == IF SkipSetup(r) THEN "test" ELSE "clean"
  <2>1. CASE /\ pc' = [pc EXCEPT ![r] = "item"]
             /\ net' = Enter(n, first, <<r, <<at[r], p>>>>)
    <3>1. \A v \in net'.users : v \in n.users \/ v[1] = r
      BY <1>2, <2>1
    <3> QED BY <2>1, <3>1 DEF Brings, TypeOK
  <2> QED BY <1>1, <1>3, <2>1 DEF StartPhase
<1>4. ASSUME NEW n \in Networks, EndPhase(r, n) PROVE Brings(r, n)
  <2>1. CASE pc' = [pc EXCEPT ![r] = "pick"] /\ net' = n
    BY <2>1 DEF Brings, TypeOK
  <2> QED BY <1>1, <1>3, <1>4, <2>1 DEF EndPhase
<1>5. ASSUME NEW n \in Networks, n.users \in {net.users, {}}, Brings(r, n)
      PROVE  Brings(r, net)
  BY <1>5 DEF Brings
<1>6. \A c \in Commands : \A o \in Outcomes(c, net) :
        o.net \in Networks /\ o.net.users \in {net.users, {}}
  BY OutcomesAreReports, CommandsAndUsers DEF Reports, TypeOK
<1>7. "stop" \in Commands /\ net \in Networks
  BY DEF Commands, TypeOK
<1>8. CASE Pick(r)
  <2>1. Brings(r, net)
    BY <1>3, <1>7, <1>8 DEF Pick, Brings, TypeOK
  <2> QED BY <1>8, <2>1, OthersKept DEF Kept, Pick
<1>9. CASE Setup(r)
  <2>1. pc[r] = "setup" /\ step[r] \in Commands
    BY <1>9 DEF Setup, Placed, PlaceOK, Commands
  <2>2. PICK o \in Outcomes(step[r], net) :
          \/ net' = o.net /\ UNCHANGED pc
          \/ StartPhase(r, 1, o.net)
          \/ FailItem(r, o.net, TRUE)
    BY <1>9 DEF Setup
  <2>3. Brings(r, o.net)
    BY <1>1, <1>3, <1>6, <2>1, <2>2 DEF Brings
  <2>4. \A q \in Runs \ {r} : ready'[q] = ready[q]
    BY <1>9 DEF Setup, TypeOK
  <2> QED BY <1>5, <1>6, <1>9, <2>1, <2>3, <2>4, OthersKept DEF Kept
<1>10. CASE Teardown(r)
  <2>1. PICK o \in Outcomes("stop", net) : StartPhase(r, 1, o.net) \/ FailItem(r, o.net, TRUE)
    BY <1>10 DEF Teardown
  <2>2. Brings(r, o.net)
    BY <1>1, <1>3, <1>6, <1>7, <2>1
  <2>3. \A q \in Runs \ {r} : ready'[q] = ready[q]
    BY <1>10 DEF Teardown, TypeOK
  <2> QED BY <1>5, <1>6, <1>7, <1>10, <2>2, <2>3, OthersKept DEF Kept
<1>11. CASE ItemStep(r)
  <2>1. pc[r] = "item" /\ step[r] \in Commands /\ ready' = ready
    BY <1>11 DEF ItemStep, Placed, PlaceOK
  <2>2. PICK o \in Outcomes(step[r], net) :
          \/ net' = Enter(o.net, NextCommand[step[r]], Own(r)) /\ UNCHANGED pc
          \/ net' = o.net /\ UNCHANGED pc
          \/ EndPhase(r, o.net)
          \/ FailItem(r, o.net, TRUE)
    BY <1>11 DEF ItemStep, Own
  <2>3. Own(r)[1] = r
    BY DEF Own
  <2>4. Brings(r, o.net)
    <3>1. o.net \in Networks
      BY <1>6, <2>1
    <3>2. CASE net' = Enter(o.net, NextCommand[step[r]], Own(r)) /\ UNCHANGED pc
      <4>1. \A v \in Enter(o.net, NextCommand[step[r]], Own(r)).users : v \in o.net.users \/ v[1] = r
        BY <1>2, <2>3, <3>1
      <4> QED BY <2>1, <3>2, <4>1 DEF Brings
    <3>3. CASE net' = o.net /\ UNCHANGED pc
      BY <2>1, <3>3 DEF Brings
    <3> QED BY <1>1, <1>4, <2>2, <3>1, <3>2, <3>3
  <2> QED BY <1>5, <1>6, <1>11, <2>1, <2>4, OthersKept DEF Kept
<1>12. CASE Closing(r) \/ OrphanCommand(r)
  <2>1. net'.users \in {net.users, {}}
    BY <1>6, <1>7, <1>12 DEF Closing, OrphanCommand, Orphan, TypeOK
  <2>2. pc'[r] # "idle" /\ \A q \in Runs \ {r} : pc'[q] = pc[q] /\ ready'[q] = ready[q]
    BY <1>12 DEF Closing, OrphanCommand, Orphan, Placed, PlaceOK, TypeOK
  <2> QED BY <2>1, <2>2 DEF Brings
<1>13. CASE Abort(r) \/ LeaveLoop(r) \/ AfterLoop(r) \/ Report(r) \/ Crash(r)
  BY <1>13 DEF Abort, LeaveLoop, AfterLoop, Report, Crash, Die, Live, Brings, TypeOK
<1>14. CASE Interrupt(r)
  <2>1. net'.users \in {net.users, {}}
    BY <1>14, InterruptedUsers DEF Interrupt, TypeOK
  <2> QED BY <1>14, <2>1 DEF Interrupt, Die, Live, Brings
<1> QED BY <1>8, <1>9, <1>10, <1>11, <1>12, <1>13, <1>14 DEF Advance

LEMMA FreshInductive ==
  ASSUME TypeOK, Placed, Fresh, [Next]_vars
  PROVE  Fresh'
<1>0. net.users \subseteq Runs \X (Nat \X Nat)
  BY DEF TypeOK, Networks
<1>1. CASE UNCHANGED vars
  BY <1>1 DEF vars, runVars, Fresh
<1>2. ASSUME NEW r \in Runs, Acquire(r) \/ Refuse(r) PROVE Fresh'
  <2>1. pc'[r] # "idle" /\ ready' = ready /\ net' = net
        /\ \A q \in Runs \ {r} : pc'[q] = pc[q]
    BY <1>2 DEF Acquire, Refuse, TypeOK
  <2> QED BY <1>0, <2>1 DEF Fresh
<1>3. ASSUME NEW r \in Runs, Advance(r) \/ Crash(r) \/ Interrupt(r) PROVE Fresh'
  <2>1. Brings(r, net) /\ \A q \in Runs \ {r} : pc'[q] = pc[q] /\ ready'[q] = ready[q]
    BY <1>3, StepBrings
  <2> QED BY <1>0, <2>1 DEF Fresh, Brings
<1> QED BY <1>1, <1>2, <1>3 DEF Next

LEMMA IsolatedInductive ==
  ASSUME RunnerAssumption, TypeOK, Placed, OneRun, Fresh, Isolated, [Next]_vars
  PROVE  Isolated'
<1> SUFFICES ASSUME ~tainted'
             PROVE  /\ \A q, r \in Runs : Busy(q)' /\ Busy(r)' => q = r
                    /\ Compatible(net.users)'
                    /\ \A r \in Runs : Busy(r)' => Shape(r)'
  BY DEF Isolated
<1>0. net.users \subseteq Runs \X (Nat \X Nat)
  BY DEF TypeOK, Networks
<1>1. CASE UNCHANGED vars
  BY <1>1 DEF vars, runVars, histVars, Isolated, Busy, Live, Orphan, Compatible, Attached,
              Sharing, Shape, AllShared, Own, UseShared, SkipSetup, Grouped
<1>2. ASSUME NEW r \in Runs, Acquire(r)
      PROVE  /\ \A p, q \in Runs : Busy(p)' /\ Busy(q)' => p = q
             /\ Compatible(net.users)'
             /\ \A q \in Runs : Busy(q)' => Shape(q)'
  <2>1. /\ ~tainted /\ \A q \in Runs : ~Orphan(q)
        /\ lock = NoRun /\ pc[r] = "idle" /\ net' = net /\ pc'[r] = "pick" /\ ready'[r] = ready[r]
        /\ \A q \in Runs \ {r} : pc'[q] = pc[q] /\ step'[q] = step[q] /\ alive'[q] = alive[q]
        /\ \A q \in Runs \ {r} : job'[q] = job[q]
    BY <1>2 DEF Acquire, LockNeeded, TypeOK
  <2>2. \A q \in Runs : ~Live(q)
    BY <2>1 DEF OneRun, RunnerAssumption
  <2>3. \A q \in Runs : Busy(q)' => q = r
    BY <2>1, <2>2 DEF Busy, Live, Orphan
  <2>4. \A v \in net.users : v[1] \in Runs \ {r}
    BY <1>0, <2>1 DEF Fresh
  <2>5. \A v \in net.users : Attached(v)' = Attached(v) /\ Sharing(v)' = Sharing(v)
    BY <2>1, <2>4 DEF Attached, Sharing
  <2>6. Compatible(net.users)'
    BY <2>1, <2>5 DEF Compatible, Isolated
  <2>7. Shape(r)'
    BY <2>1 DEF Shape, Fresh
  <2> QED BY <2>3, <2>6, <2>7
<1>3. ASSUME NEW r \in Runs, Refuse(r)
      PROVE  /\ \A p, q \in Runs : Busy(p)' /\ Busy(q)' => p = q
             /\ Compatible(net.users)'
             /\ \A q \in Runs : Busy(q)' => Shape(q)'
  <2>1. /\ ~tainted /\ net' = net /\ job' = job /\ ~Busy(r)'
        /\ step[r] = "none" /\ pc[r] = "idle"
        /\ UNCHANGED <<alive, at, phase, step, ready>>
        /\ \A q \in Runs \ {r} : pc'[q] = pc[q]
    BY <1>3 DEF Refuse, histVars, Placed, PlaceOK, Busy, Live, Orphan, TypeOK
  <2>2. \A q \in Runs \ {r} : Busy(q)' = Busy(q) /\ Shape(q)' = Shape(q)
    BY <2>1 DEF Busy, Live, Orphan, Shape, AllShared, Sharing, Own, UseShared, SkipSetup, Grouped
  <2>3. Compatible(net.users)'
    BY <2>1, FewerCompatible DEF Isolated
  <2> QED BY <2>1, <2>2, <2>3 DEF Isolated
<1>4. ASSUME NEW r \in Runs, Advance(r) \/ Crash(r) \/ Interrupt(r)
      PROVE  /\ \A p, q \in Runs : Busy(p)' /\ Busy(q)' => p = q
             /\ Compatible(net.users)'
             /\ \A q \in Runs : Busy(q)' => Shape(q)'
  <2>1. /\ Busy(r) /\ ~tainted
        /\ \A q \in Runs \ {r} : Busy(q)' = Busy(q)
    BY <1>4, StepIsBusy
  <2>2. \A q \in Runs \ {r} : ~Busy(q)'
    BY <2>1 DEF Isolated
  <2>3. Compatible(net.users)' /\ (Busy(r)' => Shape(r)')
    BY <1>4, <2>1, ShapeKept DEF Isolated
  <2> QED BY <2>2, <2>3
<1> QED BY <1>1, <1>2, <1>3, <1>4 DEF Next

LEMMA IsolatedHolds == Spec => []Isolated
<1>1. ASSUME Init PROVE Fresh /\ Isolated
  <2>1. net.users = {} /\ \A r \in Runs : pc[r] = "idle" /\ alive[r] /\ ready[r] = FALSE
    BY <1>1 DEF Init
  <2> QED BY <2>1 DEF Fresh, Isolated, Compatible, Busy, Live, Orphan
<1>2. TypeOK /\ Placed /\ Fresh /\ [Next]_vars => Fresh'
  BY FreshInductive
<1>3. TypeOK /\ Placed /\ OneRun /\ Fresh /\ Isolated /\ [Next]_vars => Isolated'
  BY RunnerAssumption, IsolatedInductive
<1> QED BY <1>1, <1>2, <1>3, TypeCorrect, RunsExclusive, PTL DEF Spec

(***************************************************************************)
(* Isolation of the runs: a test has its network up and shares its chain   *)
(* only with the state-compatible groups of its own run (and with tests    *)
(* that were told to use whatever is there), unless commands of a dead run *)
(* interfered or a chain with tests on it could not be removed.            *)
(***************************************************************************)
THEOREM TestIsIsolated == Spec => []OwnNetwork
<1>1. ASSUME TypeOK, Placed, Isolated PROVE OwnNetwork
  <2> SUFFICES ASSUME ~tainted PROVE OwnNetwork
    BY DEF OwnNetwork
  <2>1. ASSUME NEW r \in Runs, Live(r), step[r] = "test", job[r].mode # "attach"
        PROVE  net.procs = "up" /\ Own(r) \in net.users
    <3>1. pc[r] = "item" /\ Shape(r)
      BY <1>1, <2>1 DEF Isolated, Busy, Placed, PlaceOK
    <3> QED BY <2>1, <3>1 DEF Shape, SkipSetup, AllShared
  <2>2. Compatible(net.users)
    BY <1>1 DEF Isolated
  <2> QED BY <2>1, <2>2 DEF OwnNetwork, Compatible, Own
<1> QED BY <1>1, TypeCorrect, IsolatedHolds, PTL

-------------------------------------------------------------------------------
(***************************************************************************)
(* What a run leaves running.  Between two items without a shared network, *)
(* and after the loop, the last make stop has been the last command to     *)
(* touch the network.                                                      *)
(***************************************************************************)
Settled(r) == pc[r] = "finish" \/ (pc[r] \in {"pick", "after"} /\ ~ready[r])

Stopped(r) ==
  Settled(r) /\ job[r].mode # "attach" /\ ~failed[r] /\ passed[r] # {} /\ ~kept[r]
    => net.procs = "down"

\* A run has no exit code before its end and nothing passed before its start.
Unjudged ==
  \A r \in Runs : /\ pc[r] \notin {"ended", "refused"} => exit[r] = -1
                  /\ pc[r] = "idle" => passed[r] = {}

StoppedWhenSettled == ~tainted => \A r \in Runs : Live(r) => Stopped(r)

LEMMA UnjudgedInductive ==
  ASSUME TypeOK, Placed, Unjudged, [Next]_vars
  PROVE  Unjudged'
<1>1. CASE UNCHANGED vars
  BY <1>1 DEF vars, runVars, histVars, Unjudged
<1>2. ASSUME NEW r \in Runs, Acquire(r) \/ Refuse(r) PROVE Unjudged'
  BY <1>2 DEF Acquire, Refuse, histVars, Unjudged, TypeOK
<1>3. ASSUME NEW r \in Runs, Advance(r) \/ Crash(r) \/ Interrupt(r) PROVE Unjudged'
  <2>1. pc'[r] # "idle" /\ \A q \in Runs \ {r} : pc'[q] = pc[q]
    BY <1>3, StepBrings DEF Brings
  <2>2. \A q \in Runs \ {r} : passed'[q] = passed[q]
    <3>1. CASE Pick(r) \/ Setup(r) \/ Teardown(r) \/ ItemStep(r)
      BY <3>1, OthersKept
    <3>2. CASE ~(Pick(r) \/ Setup(r) \/ Teardown(r) \/ ItemStep(r))
      BY <1>3, <3>2 DEF Advance, Abort, LeaveLoop, AfterLoop, Closing, Report, OrphanCommand,
                        Crash, Interrupt, Die, histVars
    <3> QED BY <3>1, <3>2
  <2>3. \A q \in Runs \ {r} : exit'[q] = exit[q]
    BY <1>3 DEF Advance, Abort, LeaveLoop, Pick, Setup, Teardown, ItemStep, AfterLoop, Closing,
                Report, OrphanCommand, Crash, Interrupt, Die, TypeOK
  <2>4. pc'[r] \notin {"ended", "refused"} => exit'[r] = exit[r]
    BY <1>3 DEF Advance, Abort, LeaveLoop, Pick, Setup, Teardown, ItemStep, AfterLoop, Closing,
                Report, OrphanCommand, Crash, Interrupt, Die, TypeOK
  <2>5. pc[r] \notin {"ended", "refused"} \/ pc'[r] = pc[r]
    BY <1>3, StepIsBusy DEF Busy, Live, Orphan, Placed, PlaceOK
  <2> QED BY <2>1, <2>2, <2>3, <2>4, <2>5 DEF Unjudged
<1> QED BY <1>1, <1>2, <1>3 DEF Next

LEMMA StoppedKept ==
  ASSUME TypeOK, Placed, NEW r \in Runs, Advance(r) \/ Crash(r) \/ Interrupt(r),
         Live(r)', Shape(r), Stopped(r)
  PROVE  Stopped(r)'
<1>0. job' = job
  BY StepIsBusy
<1>1. ASSUME NEW n, FailItem(r, n, TRUE) PROVE Stopped(r)'
  BY <1>1 DEF FailItem, Stopped, TypeOK
<1>2. ASSUME NEW n, NEW p, StartPhase(r, p, n) PROVE Stopped(r)'
  <2>1. CASE pc' = [pc EXCEPT ![r] = "item"]
    BY <2>1 DEF Stopped, Settled, TypeOK
  <2> QED BY <1>1, <1>2, <2>1 DEF StartPhase, LockNeeded
<1>3. CASE Pick(r)
  <2>1. CASE pc' = [pc EXCEPT ![r] = "setup"] \/ pc' = [pc EXCEPT ![r] = "teardown"]
    BY <2>1 DEF Stopped, Settled, TypeOK
  <2> QED BY <1>2, <1>3, <2>1 DEF Pick
<1>4. CASE Setup(r)
  <2>1. CASE pc' = pc
    BY <1>4, <2>1 DEF Setup, Stopped, Settled
  <2> QED BY <1>1, <1>2, <1>4, <2>1 DEF Setup
<1>5. CASE Teardown(r)
  BY <1>1, <1>2, <1>5 DEF Teardown
<1>6. CASE ItemStep(r)
  <2>1. pc[r] = "item" /\ ready' = ready /\ (ready[r] <=> UseShared(r))
    BY <1>6 DEF ItemStep, Shape
  <2>2. PICK o \in Outcomes(step[r], net) :
          \/ pc' = pc
          \/ step[r] = "test" /\ SkipSetup(r) /\ EndPhase(r, o.net)
          \/ EndPhase(r, o.net) /\ kept' = [kept EXCEPT ![r] = o.net.procs # "down"]
          \/ FailItem(r, o.net, TRUE)
    BY <1>6 DEF ItemStep
  <2>3. CASE pc' = pc
    BY <2>1, <2>3 DEF Stopped, Settled
  <2>4. CASE SkipSetup(r)
    <3>1. CASE pc' = [pc EXCEPT ![r] = "pick"]
      BY <1>0, <2>1, <2>4, <3>1 DEF SkipSetup, Stopped, Settled, TypeOK
    <3> QED BY <1>1, <1>2, <2>2, <2>3, <2>4, <3>1 DEF EndPhase
  <2>5. CASE EndPhase(r, o.net) /\ kept' = [kept EXCEPT ![r] = o.net.procs # "down"]
    <3>1. CASE net' = o.net
      BY <2>5, <3>1 DEF Stopped, TypeOK
    <3> QED BY <1>1, <1>2, <2>5, <3>1 DEF EndPhase
  <2> QED BY <1>1, <2>2, <2>3, <2>4, <2>5
<1>7. CASE LeaveLoop(r)
  BY <1>7 DEF LeaveLoop, histVars, Stopped, Settled, TypeOK
<1>8. CASE AfterLoop(r)
  <2>1. CASE ready[r]
    BY <1>8, <2>1 DEF AfterLoop, MustTearDown, Stopped, Settled, TypeOK
  <2>2. CASE ~ready[r]
    BY <1>8, <2>2 DEF AfterLoop, MustTearDown, histVars, Stopped, Settled, TypeOK
  <2> QED BY <2>1, <2>2
<1>9. CASE Closing(r)
  BY <1>9 DEF Closing, Stopped, TypeOK
<1>10. ASSUME Abort(r) \/ Report(r) \/ OrphanCommand(r) \/ Crash(r) \/ Interrupt(r)
       PROVE  FALSE
  BY <1>10 DEF Abort, Report, OrphanCommand, Orphan, Crash, Interrupt, Die, Live, TypeOK
<1> QED BY <1>3, <1>4, <1>5, <1>6, <1>7, <1>8, <1>9, <1>10 DEF Advance

LEMMA StoppedInductive ==
  ASSUME TypeOK, Placed, Isolated, Unjudged, StoppedWhenSettled, [Next]_vars
  PROVE  StoppedWhenSettled'
<1> SUFFICES ASSUME ~tainted', NEW q \in Runs, Live(q)'
             PROVE  Stopped(q)'
  BY DEF StoppedWhenSettled
<1>1. CASE UNCHANGED vars
  BY <1>1 DEF vars, runVars, histVars, StoppedWhenSettled, Live, Stopped, Settled
<1>2. ASSUME NEW r \in Runs, Acquire(r) PROVE Stopped(q)'
  <2>1. CASE q = r
    BY <1>2, <2>1 DEF Acquire, Unjudged, Stopped
  <2>2. CASE q # r
    <3>1. /\ ~tainted /\ pc'[q] = pc[q] /\ job'[q] = job[q]
          /\ UNCHANGED <<alive, ready, failed, passed, kept, net>>
      BY <1>2, <2>2 DEF Acquire, TypeOK
    <3> QED BY <3>1 DEF StoppedWhenSettled, Live, Stopped, Settled
  <2> QED BY <2>1, <2>2
<1>3. ASSUME NEW r \in Runs, Refuse(r) PROVE Stopped(q)'
  <2>1. ~tainted /\ q # r /\ pc'[q] = pc[q]
        /\ UNCHANGED <<alive, job, ready, failed, passed, kept, net>>
    BY <1>3 DEF Refuse, histVars, Live, TypeOK
  <2> QED BY <2>1 DEF StoppedWhenSettled, Live, Stopped, Settled
<1>4. ASSUME NEW r \in Runs, Advance(r) \/ Crash(r) \/ Interrupt(r) PROVE Stopped(q)'
  <2>1. Busy(r) /\ ~tainted /\ \A p \in Runs \ {r} : Busy(p)' = Busy(p)
    BY <1>4, StepIsBusy
  <2>2. q = r
    BY <2>1 DEF Isolated, Busy
  <2>3. Live(r)
    BY <1>4, <2>2 DEF Live, Advance, Abort, LeaveLoop, Pick, Setup, Teardown, ItemStep, AfterLoop,
                      Closing, Report, OrphanCommand, Orphan, Crash, Interrupt, Die
  <2> QED BY <1>4, <2>1, <2>2, <2>3, StoppedKept DEF Isolated, Busy, StoppedWhenSettled
<1> QED BY <1>1, <1>2, <1>3, <1>4 DEF Next

(***************************************************************************)
(* A run that ends well has stopped the network it started, shared or not, *)
(* as far as make stop does what it reports.                               *)
(***************************************************************************)
THEOREM EndsStopped == Spec => NetworkStopped
<1>1. ASSUME Init PROVE Unjudged /\ StoppedWhenSettled
  BY <1>1 DEF Init, Unjudged, StoppedWhenSettled, Live
<1>2. TypeOK /\ Placed /\ Unjudged /\ [Next]_vars => Unjudged'
  BY UnjudgedInductive
<1>3. TypeOK /\ Placed /\ Isolated /\ Unjudged /\ StoppedWhenSettled /\ [Next]_vars
        => StoppedWhenSettled'
  BY StoppedInductive
<1> DEFINE Ends(r) == (pc[r] = "finish" /\ exit'[r] = 0 /\ passed[r] # {} /\ ~kept[r]
                         /\ ~tainted /\ job[r].mode # "attach") => net.procs = "down"
<1>4. ASSUME TypeOK, Unjudged, StoppedWhenSettled, Next, NEW r \in Runs PROVE Ends(r)
  <2> SUFFICES ASSUME pc[r] = "finish", exit'[r] = 0, passed[r] # {}, ~kept[r], ~tainted,
                      job[r].mode # "attach"
               PROVE  net.procs = "down"
    OBVIOUS
  <2>1. exit[r] = -1
    BY <1>4 DEF Unjudged
  <2>2. PICK q \in Runs :
          Acquire(q) \/ Refuse(q) \/ Advance(q) \/ Crash(q) \/ Interrupt(q)
    BY <1>4 DEF Next
  <2>3. Report(r)
    <3>1. exit'[r] # exit[r]
      BY <2>1
    <3>2. Refuse(q) \/ Abort(q) \/ Report(q)
      BY <2>2, <3>1 DEF Acquire, Advance, LeaveLoop, Pick, Setup, Teardown, ItemStep, AfterLoop,
                        Closing, OrphanCommand, Crash, Interrupt, Die
    <3>3. q = r
      BY <1>4, <3>1, <3>2 DEF Refuse, Abort, Report, TypeOK
    <3>4. ~Refuse(r) /\ ~Abort(r)
      BY DEF Refuse, Abort
    <3> QED BY <3>2, <3>3, <3>4
  <2>4. ~failed[r] /\ Live(r)
    <3>1. PICK trouble \in BOOLEAN :
            exit' = [exit EXCEPT ![r] = IF failed[r] \/ trouble THEN 1 ELSE 0]
      BY <2>3 DEF Report
    <3>2. exit'[r] = IF failed[r] \/ trouble THEN 1 ELSE 0
      BY <1>4, <3>1 DEF TypeOK
    <3>3. alive[r]
      BY <2>3 DEF Report
    <3> QED BY <3>2, <3>3 DEF Live
  <2>5. Stopped(r)
    BY <1>4, <2>4 DEF StoppedWhenSettled
  <2>6. Settled(r)
    BY DEF Settled
  <2> QED BY <2>4, <2>5, <2>6 DEF Stopped
<1>5. TypeOK /\ Unjudged /\ StoppedWhenSettled /\ [Next]_vars => [\A r \in Runs : Ends(r)]_vars
  BY <1>4
<1> QED
  BY <1>1, <1>2, <1>3, <1>5, TypeCorrect, IsolatedHolds, PTL DEF Spec, NetworkStopped

-------------------------------------------------------------------------------
(***************************************************************************)
(* The verdict.  Tally is what VerdictExact rests on while a run is under  *)
(* way: hadFailure is TRUE exactly when something broke, every phase       *)
(* before the loop's position has passed, and the loop is left early only  *)
(* with a failure.                                                         *)
(***************************************************************************)
ItemPhases(r, i) == IF Grouped(r) THEN Phases[job[r].items[i]] ELSE 1

Tally(r) ==
  /\ pc[r] = "idle" => at[r] = 1
  /\ pc[r] # "ended" => failed[r] = broke[r]
  /\ \A i \in 1..(at[r] - 1) : \A p \in 1..ItemPhases(r, i) : <<i, p>> \in passed[r]
  /\ pc[r] = "item" => \A p \in 1..(phase[r] - 1) : <<at[r], p>> \in passed[r]
  /\ pc[r] \in {"setup", "teardown", "item"} => at[r] <= Len(job[r].items)
  /\ pc[r] \in {"after", "closing", "finish"} =>
       failed[r] \/ at[r] > Len(job[r].items)
  /\ pc[r] = "ended" =>
       /\ exit[r] = 0 => ~broke[r] /\ at[r] > Len(job[r].items)
       /\ exit[r] = 1 => broke[r]

Tallied == \A r \in Runs : Tally(r)

LEMMA TallyKept ==
  ASSUME NEW q, Tally(q), Kept(q), at'[q] = at[q], passed'[q] = passed[q],
         job'[q] = job[q], exit'[q] = exit[q]
  PROVE  Tally(q)'
BY DEF Tally, Kept, ItemPhases, Grouped

LEMMA FailItemTally ==
  ASSUME TypeOK, NEW r \in Runs, Tally(r), pc[r] # "ended", NEW n, FailItem(r, n, TRUE),
         at'[r] = at[r], passed'[r] = passed[r], job'[r] = job[r]
  PROVE  Tally(r)'
<1>1. /\ pc'[r] = "after" /\ failed'[r] = TRUE /\ broke'[r] = TRUE
  BY DEF FailItem, TypeOK
<1> QED BY <1>1 DEF Tally, ItemPhases, Grouped

LEMMA StartPhaseTally ==
  ASSUME TypeOK, NEW r \in Runs, Tally(r), pc[r] # "ended",
         NEW p \in Nat \ {0}, NEW n, StartPhase(r, p, n),
         at'[r] = at[r], job'[r] = job[r], passed[r] \subseteq passed'[r],
         at[r] <= Len(job[r].items),
         \A k \in 1..(p - 1) : <<at[r], k>> \in passed'[r]
  PROVE  Tally(r)'
<1>1. CASE FailItem(r, n, TRUE)
  <2>1. /\ pc'[r] = "after" /\ failed'[r] = TRUE /\ broke'[r] = TRUE
    BY <1>1 DEF FailItem, TypeOK
  <2> QED BY <2>1 DEF Tally, ItemPhases, Grouped
<1>2. CASE /\ pc' = [pc EXCEPT ![r] = "item"]
           /\ phase' = [phase EXCEPT ![r] = p]
           /\ UNCHANGED <<failed, broke>>
  <2>1. pc'[r] = "item" /\ phase'[r] = p /\ failed'[r] = failed[r] /\ broke'[r] = broke[r]
    BY <1>2 DEF TypeOK
  <2> QED BY <2>1 DEF Tally, ItemPhases, Grouped
<1> QED BY <1>1, <1>2 DEF StartPhase, LockNeeded

\* The first phase of an item: there is none before it.
LEMMA FirstPhaseTally ==
  ASSUME TypeOK, NEW r \in Runs, Tally(r), pc[r] # "ended",
         NEW n, StartPhase(r, 1, n), at'[r] = at[r], job'[r] = job[r],
         passed' = passed, at[r] <= Len(job[r].items)
  PROVE  Tally(r)'
<1>1. \A k \in 1..(1 - 1) : <<at[r], k>> \in passed'[r]
  OBVIOUS
<1>2. passed[r] \subseteq passed'[r]
  OBVIOUS
<1>3. 1 \in Nat \ {0}
  OBVIOUS
<1> QED BY <1>1, <1>2, <1>3, StartPhaseTally

LEMMA EndPhaseTally ==
  ASSUME RunnerAssumption, TypeOK, NEW r \in Runs, Tally(r), pc[r] = "item",
         NEW n, EndPhase(r, n), job'[r] = job[r]
  PROVE  Tally(r)'
<1>1. CASE FailItem(r, n, TRUE) /\ UNCHANGED <<at, passed>>
  BY <1>1, FailItemTally
<1>2. ASSUME passed' = [passed EXCEPT ![r] = @ \cup {<<at[r], phase[r]>>}]
      PROVE  passed'[r] = passed[r] \cup {<<at[r], phase[r]>>}
  BY <1>2 DEF TypeOK
<1>3. \A k \in 1..(phase[r] - 1) : <<at[r], k>> \in passed[r]
  BY DEF Tally
<1>4. CASE /\ passed' = [passed EXCEPT ![r] = @ \cup {<<at[r], phase[r]>>}]
           /\ StartPhase(r, phase[r] + 1, n) /\ UNCHANGED at
  <2>1. \A k \in 1..((phase[r] + 1) - 1) : <<at[r], k>> \in passed'[r]
    BY <1>2, <1>3, <1>4 DEF TypeOK
  <2>2. phase[r] + 1 \in Nat \ {0}
    BY DEF TypeOK
  <2>3. at[r] <= Len(job[r].items)
    BY DEF Tally
  <2> QED BY <1>2, <1>4, <2>1, <2>2, <2>3, StartPhaseTally
<1>5. CASE /\ passed' = [passed EXCEPT ![r] = @ \cup {<<at[r], phase[r]>>}]
           /\ ~(phase[r] < LastPhase(r))
           /\ at' = [at EXCEPT ![r] = @ + 1]
           /\ pc' = [pc EXCEPT ![r] = "pick"]
           /\ UNCHANGED <<phase, failed, broke>>
  <2>1. /\ pc'[r] = "pick" /\ at'[r] = at[r] + 1
        /\ failed'[r] = failed[r] /\ broke'[r] = broke[r]
    BY <1>5 DEF TypeOK
  <2>2. LastPhase(r) = ItemPhases(r, at[r]) /\ LastPhase(r) \in Nat
    <3>1. at[r] \in 1..Len(job[r].items) /\ job[r].items \in Seq(Items)
      BY RunnerAssumption DEF Tally, TypeOK, NoJob, RunnerAssumption
    <3>2. job[r].items[at[r]] \in Items
      BY <3>1
    <3> QED BY <3>2, RunnerAssumption DEF LastPhase, ItemPhases, RunnerAssumption
  <2>3. ASSUME NEW p \in 1..LastPhase(r) PROVE <<at[r], p>> \in passed'[r]
    <3>1. CASE p = phase[r]
      BY <1>2, <1>5, <3>1
    <3>2. CASE p # phase[r]
      <4>1. p \in 1..(phase[r] - 1)
        BY <1>5, <2>2, <3>2 DEF TypeOK
      <4> QED BY <1>2, <1>3, <1>5, <4>1
    <3> QED BY <3>1, <3>2
  <2>4. ASSUME NEW i \in 1..(at'[r] - 1), NEW p \in 1..ItemPhases(r, i)
        PROVE  <<i, p>> \in passed'[r]
    <3>1. CASE i = at[r]
      BY <2>2, <2>3, <3>1
    <3>2. CASE i # at[r]
      <4>1. i \in 1..(at[r] - 1)
        BY <2>1, <3>2 DEF TypeOK
      <4>2. <<i, p>> \in passed[r]
        BY <4>1 DEF Tally
      <4> QED BY <1>2, <1>5, <4>2
    <3> QED BY <3>1, <3>2
  <2>5. \A i : ItemPhases(r, i)' = ItemPhases(r, i)
    BY DEF ItemPhases, Grouped
  <2> QED BY <2>1, <2>4, <2>5 DEF Tally
<1> QED BY <1>1, <1>4, <1>5 DEF EndPhase

LEMMA TallyInductive ==
  ASSUME RunnerAssumption, TypeOK, Placed, Tallied, [Next]_vars
  PROVE  Tallied'
<1> USE DEF histVars
<1>0. CASE UNCHANGED vars
  BY <1>0 DEF vars, runVars, Tallied, Tally, ItemPhases, Grouped
<1>1. ASSUME NEW r \in Runs, Tally(r)',
             \A q \in Runs \ {r} :
               /\ Kept(q) /\ at'[q] = at[q] /\ passed'[q] = passed[q]
               /\ job'[q] = job[q] /\ exit'[q] = exit[q]
      PROVE  Tallied'
  BY <1>1, TallyKept DEF Tallied
<1>2. ASSUME NEW r \in Runs, Acquire(r)
      PROVE  Tallied'
  <2>1. /\ pc[r] = "idle" /\ pc'[r] = "pick" /\ UNCHANGED <<at, passed, failed, broke>>
        /\ at[r] = 1
    BY <1>2 DEF Acquire, TypeOK, Tallied, Tally
  <2>2. Tally(r)'
    BY <2>1 DEF Tallied, Tally
  <2> QED BY <1>1, <1>2, <2>2 DEF Acquire, TypeOK, Kept
<1>3. ASSUME NEW r \in Runs, Refuse(r)
      PROVE  Tallied'
  <2>1. pc[r] = "idle" /\ pc'[r] = "refused"
        /\ UNCHANGED <<at, passed, failed, broke, job>>
    BY <1>3 DEF Refuse, TypeOK
  <2>2. Tally(r)'
    BY <2>1 DEF Tallied, Tally, ItemPhases, Grouped
  <2> QED BY <1>1, <1>3, <2>2 DEF Refuse, TypeOK, Kept
<1>4. ASSUME NEW r \in Runs, Abort(r)
      PROVE  Tallied'
  <2>1. pc'[r] = "ended" /\ exit'[r] = 1 /\ broke'[r] = TRUE
        /\ UNCHANGED <<at, passed, job>>
    BY <1>4 DEF Abort, TypeOK
  <2>2. Tally(r)'
    BY <2>1 DEF Tallied, Tally, ItemPhases, Grouped
  <2> QED BY <1>1, <1>4, <2>2 DEF Abort, TypeOK, Kept
<1>5. ASSUME NEW r \in Runs, LeaveLoop(r)
      PROVE  Tallied'
  <2>1. pc'[r] = "after" /\ pc[r] = "pick" /\ at[r] > Len(job[r].items)
        /\ UNCHANGED <<at, passed, failed, broke, job>>
    BY <1>5 DEF LeaveLoop, TypeOK
  <2>2. Tally(r)'
    BY <2>1 DEF Tallied, Tally, ItemPhases, Grouped
  <2> QED BY <1>1, <1>5, <2>2 DEF LeaveLoop, TypeOK, Kept
<1>6. ASSUME NEW r \in Runs, Pick(r)
      PROVE  Tallied'
  <2>0. at[r] <= Len(job[r].items) /\ pc[r] = "pick"
        /\ UNCHANGED <<job, at, passed, exit>>
    BY <1>6 DEF Pick
  <2>1. CASE StartPhase(r, 1, net)
    <3>1. Tally(r) /\ pc[r] # "ended" /\ at'[r] = at[r] /\ job'[r] = job[r]
          /\ passed' = passed
      BY <2>0 DEF Tallied
    <3>2. Tally(r)'
      BY <2>0, <2>1, <3>1, FirstPhaseTally
    <3> QED BY <1>1, <1>6, <2>0, <3>2, OthersKept
  <2>2. CASE ~StartPhase(r, 1, net)
    <3>1. pc'[r] \in {"setup", "teardown"} /\ UNCHANGED <<failed, broke>>
      BY <1>6, <2>2 DEF Pick, TypeOK
    <3>2. Tally(r)'
      BY <2>0, <3>1 DEF Tallied, Tally, ItemPhases, Grouped
    <3> QED BY <1>1, <1>6, <2>0, <3>2, OthersKept
  <2> QED BY <2>1, <2>2
<1>7. ASSUME NEW r \in Runs, Setup(r)
      PROVE  Tallied'
  <2>0. pc[r] = "setup" /\ UNCHANGED <<job, at, passed, exit>>
        /\ at[r] <= Len(job[r].items)
    BY <1>7 DEF Setup, Tallied, Tally
  <2>1. PICK o \in Outcomes(step[r], net) :
          \/ UNCHANGED <<pc, phase, failed, broke>>
          \/ StartPhase(r, 1, o.net)
          \/ FailItem(r, o.net, TRUE)
    BY <1>7 DEF Setup
  <2>2. CASE UNCHANGED <<pc, phase, failed, broke>>
    BY <2>0, <2>2 DEF Tallied, Tally, ItemPhases, Grouped
  <2>3. CASE StartPhase(r, 1, o.net)
    <3>1. Tally(r) /\ pc[r] # "ended" /\ at'[r] = at[r] /\ job'[r] = job[r]
          /\ passed' = passed
      BY <2>0 DEF Tallied
    <3>2. Tally(r)'
      BY <2>0, <2>3, <3>1, FirstPhaseTally
    <3> QED BY <1>1, <1>7, <2>0, <3>2, OthersKept
  <2>4. CASE FailItem(r, o.net, TRUE)
    <3>1. Tally(r)'
      BY <2>0, <2>4, FailItemTally DEF Tallied
    <3> QED BY <1>1, <1>7, <2>0, <3>1, OthersKept
  <2> QED BY <2>1, <2>2, <2>3, <2>4
<1>8. ASSUME NEW r \in Runs, Teardown(r)
      PROVE  Tallied'
  <2>0. pc[r] = "teardown" /\ UNCHANGED <<job, at, passed, exit>>
        /\ at[r] <= Len(job[r].items)
    BY <1>8 DEF Teardown, Tallied, Tally
  <2>1. PICK o \in Outcomes("stop", net) :
          StartPhase(r, 1, o.net) \/ FailItem(r, o.net, TRUE)
    BY <1>8 DEF Teardown
  <2>2. CASE StartPhase(r, 1, o.net)
    <3>1. Tally(r) /\ pc[r] # "ended" /\ at'[r] = at[r] /\ job'[r] = job[r]
          /\ passed' = passed
      BY <2>0 DEF Tallied
    <3>2. Tally(r)'
      BY <2>0, <2>2, <3>1, FirstPhaseTally
    <3> QED BY <1>1, <1>8, <2>0, <3>2, OthersKept
  <2>3. CASE FailItem(r, o.net, TRUE)
    <3>1. Tally(r)'
      BY <2>0, <2>3, FailItemTally DEF Tallied
    <3> QED BY <1>1, <1>8, <2>0, <3>1, OthersKept
  <2> QED BY <2>1, <2>2, <2>3
<1>9. ASSUME NEW r \in Runs, ItemStep(r)
      PROVE  Tallied'
  <2>0. pc[r] = "item" /\ UNCHANGED <<job, exit>>
    BY <1>9 DEF ItemStep
  <2>1. PICK o \in Outcomes(step[r], net) :
          \/ UNCHANGED <<pc, at, phase, failed, broke, passed>>
          \/ EndPhase(r, o.net)
          \/ FailItem(r, o.net, TRUE) /\ UNCHANGED <<at, passed>>
    BY <1>9 DEF ItemStep
  <2>2. CASE UNCHANGED <<pc, at, phase, failed, broke, passed>>
    BY <2>0, <2>2 DEF Tallied, Tally, ItemPhases, Grouped
  <2>3. CASE EndPhase(r, o.net)
    <3>1. Tally(r)'
      BY <2>0, <2>3, EndPhaseTally DEF Tallied
    <3> QED BY <1>1, <1>9, <2>0, <3>1, OthersKept
  <2>4. CASE FailItem(r, o.net, TRUE) /\ UNCHANGED <<at, passed>>
    <3>1. Tally(r)'
      BY <2>0, <2>4, FailItemTally DEF Tallied
    <3> QED BY <1>1, <1>9, <2>0, <3>1, OthersKept
  <2> QED BY <2>1, <2>2, <2>3, <2>4
<1>10. ASSUME NEW r \in Runs, AfterLoop(r)
       PROVE  Tallied'
  <2>1. pc[r] = "after" /\ pc'[r] \in {"closing", "finish"}
        /\ UNCHANGED <<at, passed, failed, broke, job, exit, phase>>
    BY <1>10 DEF AfterLoop, TypeOK
  <2>2. Tally(r)'
    BY <2>1 DEF Tallied, Tally, ItemPhases, Grouped
  <2> QED BY <1>1, <1>10, <2>1, <2>2 DEF AfterLoop, TypeOK, Kept
<1>11. ASSUME NEW r \in Runs, Closing(r)
       PROVE  Tallied'
  <2>1. PICK o \in Outcomes("stop", net) :
          /\ failed' = [failed EXCEPT ![r] = @ \/ ~o.ok]
          /\ broke' = [broke EXCEPT ![r] = @ \/ ~o.ok]
    BY <1>11 DEF Closing
  <2>2. /\ failed'[r] = (failed[r] \/ ~o.ok) /\ broke'[r] = (broke[r] \/ ~o.ok)
        /\ pc[r] = "closing" /\ pc'[r] = "finish"
        /\ UNCHANGED <<at, passed, job, exit, phase>>
    BY <1>11, <2>1 DEF Closing, TypeOK
  <2>3. Tally(r)'
    BY <2>2 DEF Tallied, Tally, ItemPhases, Grouped
  <2> QED BY <1>1, <1>11, <2>1, <2>2, <2>3 DEF Closing, TypeOK, Kept
<1>12. ASSUME NEW r \in Runs, Report(r)
       PROVE  Tallied'
  <2>1. PICK trouble \in BOOLEAN :
          /\ exit' = [exit EXCEPT ![r] = IF failed[r] \/ trouble THEN 1 ELSE 0]
          /\ broke' = [broke EXCEPT ![r] = @ \/ trouble]
    BY <1>12 DEF Report
  <2>2. /\ exit'[r] = (IF failed[r] \/ trouble THEN 1 ELSE 0)
        /\ broke'[r] = (broke[r] \/ trouble)
        /\ pc[r] = "finish" /\ pc'[r] = "ended"
        /\ UNCHANGED <<at, passed, job, failed, phase, step>>
    BY <1>12, <2>1 DEF Report, TypeOK
  <2>3. failed[r] = broke[r] /\ (failed[r] \/ at[r] > Len(job[r].items))
    BY <2>2 DEF Tallied, Tally
  <2>4. /\ exit'[r] = 0 => ~broke'[r] /\ at'[r] > Len(job'[r].items)
        /\ exit'[r] = 1 => broke'[r]
    <3>1. CASE failed[r] \/ trouble
      <4>1. exit'[r] = 1
        BY <2>2, <3>1
      <4>2. broke'[r]
        BY <2>2, <2>3, <3>1, Zenon
      <4> QED BY <4>1, <4>2
    <3>2. CASE ~(failed[r] \/ trouble)
      BY <2>2, <2>3, <3>2
    <3> QED BY <3>1, <3>2
  <2>5. Tally(r)'
    BY <2>2, <2>4 DEF Tallied, Tally, ItemPhases, Grouped
  <2> QED BY <1>1, <1>12, <2>1, <2>2, <2>5 DEF Report, TypeOK, Kept
<1>13. ASSUME NEW r \in Runs, OrphanCommand(r) \/ Die(r)
       PROVE  Tallied'
  <2>1. UNCHANGED <<pc, job, at, phase, failed, exit, passed, broke>>
    BY <1>13 DEF OrphanCommand, Die
  <2> QED BY <2>1 DEF Tallied, Tally, ItemPhases, Grouped
<1> QED
  BY <1>0, <1>2, <1>3, <1>4, <1>5, <1>6, <1>7, <1>8, <1>9, <1>10, <1>11, <1>12,
     <1>13 DEF Next, Advance, Crash, Interrupt

(***************************************************************************)
(* The exit code of ci.go is the verdict: 0 exactly when every phase of    *)
(* every requested group or test has passed and nothing else went wrong.   *)
(***************************************************************************)
THEOREM ExitIsVerdict == Spec => []VerdictExact
<1>1. ASSUME Init PROVE Tallied
  <2>1. ASSUME NEW r \in Runs PROVE Tally(r)
    <3>1. pc[r] = "idle" /\ at[r] = 1 /\ failed[r] = FALSE /\ broke[r] = FALSE
      BY <1>1 DEF Init
    <3>2. 1..(at[r] - 1) = {}
      BY <3>1
    <3> QED BY <3>1, <3>2 DEF Tally
  <2> QED BY <2>1 DEF Tallied
<1>2. TypeOK /\ Placed /\ Tallied /\ [Next]_vars => Tallied'
  BY RunnerAssumption, TallyInductive
<1>3. ASSUME TypeOK, Tallied PROVE VerdictExact
  <2> SUFFICES ASSUME NEW r \in Runs, pc[r] = "ended", exit[r] = 0,
                      NEW i \in 1..Len(job[r].items), NEW p \in 1..ItemPhases(r, i)
               PROVE  <<i, p>> \in passed[r]
    BY <1>3 DEF VerdictExact, Tallied, Tally, AllPassed, ItemPhases
  <2>1. i \in 1..(at[r] - 1)
    <3>1. at[r] > Len(job[r].items)
      BY <1>3 DEF Tallied, Tally
    <3>2. Len(job[r].items) \in Nat
      BY <1>3, RunnerAssumption DEF TypeOK, NoJob, RunnerAssumption
    <3> QED BY <1>3, <3>1, <3>2 DEF TypeOK
  <2> QED BY <1>3, <2>1 DEF Tallied, Tally
<1> QED BY <1>1, <1>2, <1>3, TypeCorrect, PTL DEF Spec

-----------------------------------------------------------------------------
(***************************************************************************)
(* The test context.                                                       *)
(***************************************************************************)

(***************************************************************************)
(* Every set of naturals has a least element, and a greatest one when it   *)
(* is bounded.  Both follow from the order of the naturals being well      *)
(* founded.                                                                *)
(***************************************************************************)
LEMMA LeastNatural ==
  ASSUME NEW T, T \subseteq Nat, T # {}
  PROVE  \E x \in T : \A y \in T : x <= y
<1> DEFINE R == {p \in Nat \X Nat : p[1] < p[2]}
<1>1. IsWellFoundedOn(R, Nat)
  BY NatLessThanWellFounded, Zenon DEF OpToRel
<1>2. PICK x \in T : \A y \in T : <<y, x>> \notin R
  <2> HIDE DEF R
  <2> QED
    BY <1>1, WFMin, Zenon
<1>3. ASSUME NEW y \in T
      PROVE  x <= y
  <2>1. x \in Nat /\ y \in Nat
    OBVIOUS
  <2>2. <<y, x>> \in Nat \X Nat
    BY <2>1
  <2>3. ~ (y < x)
    BY <1>2, <2>1, <2>2, Zenon
  <2> QED
    BY <2>1, <2>3
<1> QED
  BY <1>3

LEMMA GreatestNatural ==
  ASSUME NEW T, T \subseteq Nat, T # {}, NEW b \in Nat, \A y \in T : y <= b
  PROVE  \E x \in T : \A y \in T : y <= x
<1> DEFINE B == {c \in Nat : \A y \in T : y <= c}
<1>1. PICK m \in B : \A c \in B : m <= c
  <2>1. B \subseteq Nat /\ b \in B
    OBVIOUS
  <2> HIDE DEF B
  <2> QED
    BY <2>1, LeastNatural
<1>2. m \in T
  <2> SUFFICES ASSUME m \notin T
               PROVE  FALSE
    OBVIOUS
  <2>1. m \in Nat /\ \A y \in T : y <= m
    OBVIOUS
  <2>2. \A y \in T : y \in Nat /\ y <= m - 1
    BY <2>1
  <2>3. PICK y \in T : TRUE
    OBVIOUS
  <2>4. m - 1 \in Nat
    BY <2>1, <2>2, <2>3
  <2>5. m - 1 \in B
    BY <2>2, <2>4
  <2>6. m <= m - 1
    BY <2>5, <1>1
  <2> QED
    BY <2>1, <2>6
<1> QED
  BY <1>1, <1>2

-------------------------------------------------------------------------------
(***************************************************************************)
(* The nonces below k are on the chain or in the pool of the primary.      *)
(***************************************************************************)
Covered(k) == Len(chain)..(k - 1) \subseteq Nonces(pool[Primary])

\* Transactions sit on the chain at their nonce, and pools hold later ones.
InOrder ==
  /\ \A n \in DOMAIN chain : chain[n].nonce = n - 1
  /\ Len(chain) <= MaxNonce
  /\ \A i \in Nodes : \A t \in pool[i] : t.nonce >= Len(chain)

\* Where a call is, there is an account it works for, the last one numbered.
CallOK ==
  /\ place # "off" => contexts >= 1
  /\ index <= MaxNonce + creations
  /\ place \in Creating => account = index /\ account >= 1
  /\ place = "mining" => landed
  /\ place \notin Creating => ~landed

\* The primary knows every nonce that another node knows, and every nonce below
\* one that it knows.
Shared == \A i \in Nodes : Nonces(pool[i]) \subseteq Nonces(pool[Primary])
Closed == \A n \in Nonces(pool[Primary]) : Covered(n)

\* While no transaction is lost that is so, and no sender is ahead of it.
Gapless ==
  losses = 0 =>
    /\ Shared /\ Closed
    /\ place = "send" => Covered(tx.nonce)
    /\ place = "mining" => Covered(tx.nonce + 1)

\* A good day: the index runs behind the funder's nonce.
Good == unsent = 0 /\ ~blind /\ losses = 0

\* The nonce about to be sent is the primary's next one; no index is ahead of
\* the nonces, an account in the making by one until its payment is taken; and
\* the accounts given so far are behind the index, or behind the nonce that the
\* next context will seed its index from.
NextNonce ==
  place = "send" => tx.nonce >= Len(chain) /\ tx.nonce \notin Nonces(pool[Primary])
IndexBehind ==
  /\ place = "idle" => Covered(index)
  /\ place \in Creating => Covered(index - 1) /\ (landed => Covered(index))
GivenBehind ==
  \A g \in given :
    /\ place \in {"off", "boot"} => Covered(g[2])
    /\ place = "idle" => g[2] <= index
    /\ place \in Creating => g[2] < index

Behind ==
  Good => NextNonce /\ IndexBehind /\ GivenBehind /\ AccountsUnique

-------------------------------------------------------------------------------
(***************************************************************************)
(* What PendingNonceAt answers and RefreshNonce makes of the answers.      *)
(***************************************************************************)
LEMMA PendingNonceIs ==
  ASSUME ContextTypeOK, InOrder, NEW i \in Nodes
  PROVE  /\ PendingNonce(i) \in Len(chain)..MaxNonce
         /\ PendingNonce(i) \notin Nonces(pool[i])
         /\ Len(chain)..(PendingNonce(i) - 1) \subseteq Nonces(pool[i])
<1> USE ContextAssumption
<1> DEFINE T == {n \in Len(chain)..MaxNonce : n \notin Nonces(pool[i])}
<1>1. Len(chain) \in Nat /\ Len(chain) <= MaxNonce /\ MaxNonce \in Nat
  BY DEF ContextTypeOK, InOrder
<1>2. MaxNonce \notin Nonces(pool[i])
  <2>1. \A t \in pool[i] : t \in Tx
    BY DEF ContextTypeOK
  <2>2. \A t \in pool[i] : t.nonce < MaxNonce
    BY <2>1, <1>1 DEF Tx
  <2> QED
    BY <2>2, <1>1 DEF Nonces
<1>3. T \subseteq Nat /\ MaxNonce \in T
  BY <1>1, <1>2
<1>4. PICK n \in T : \A m \in T : n <= m
  <2> HIDE DEF T
  <2> QED
    BY <1>3, LeastNatural
<1>5. n \in Len(chain)..MaxNonce /\ n \notin Nonces(pool[i])
  OBVIOUS
<1>6. ASSUME NEW m \in Len(chain)..(n - 1)
      PROVE  m \in Nonces(pool[i])
  <2>1. m \in Len(chain)..MaxNonce /\ ~ (n <= m)
    BY <1>1, <1>5
  <2> QED
    BY <2>1, <1>4
<1> QED
  BY <1>5, <1>6 DEF PendingNonce

LEMMA MaxPendingIs ==
  ASSUME ContextTypeOK, InOrder, NEW S \in SUBSET Nodes
  PROVE  /\ MaxPending(S) \in 0..MaxNonce
         /\ MaxPending(S) = 0 \/ \E i \in S : MaxPending(S) = PendingNonce(i)
         /\ \A i \in S : PendingNonce(i) <= MaxPending(S)
<1> DEFINE T == {0} \cup {PendingNonce(i) : i \in S}
<1>1. MaxNonce \in Nat /\ Len(chain) \in Nat
  BY ContextAssumption DEF ContextTypeOK
<1>2. \A i \in S : PendingNonce(i) \in Len(chain)..MaxNonce
  BY PendingNonceIs
<1>3. T \subseteq Nat /\ T # {} /\ \A y \in T : y <= MaxNonce
  BY <1>1, <1>2
<1>4. \E x \in T : \A y \in T : y <= x
  <2> HIDE DEF T
  <2> QED
    BY <1>1, <1>3, GreatestNatural
<1>5. Largest(T) \in T /\ \A y \in T : y <= Largest(T)
  <2> HIDE DEF T
  <2> QED
    BY <1>4 DEF Largest
<1>6. MaxPending(S) = Largest(T)
  BY DEF MaxPending
<1>7. \A i \in S : PendingNonce(i) <= MaxPending(S)
  BY <1>5, <1>6
<1>8. MaxPending(S) = 0 \/ \E i \in S : MaxPending(S) = PendingNonce(i)
  BY <1>5, <1>6, Zenon
<1>9. MaxPending(S) \in 0..MaxNonce
  <2>1. MaxPending(S) \in T
    BY <1>5, <1>6
  <2>2. MaxPending(S) \in Nat /\ MaxPending(S) <= MaxNonce
    <3> HIDE DEF T
    <3> QED
      BY <2>1, <1>3, Zenon
  <2> QED
    BY <2>2, <1>1
<1> QED
  BY <1>7, <1>8, <1>9

(***************************************************************************)
(* What comes with a question to all nodes.                                *)
(***************************************************************************)
LEMMA AnsweringCounts ==
  ASSUME ContextTypeOK, NEW S \in SUBSET Nodes, Answering(S)
  PROVE  troubles' \in Nat
<1>1. Cardinality(Nodes \ S) \in Nat
  BY ContextAssumption, FS_Subset, FS_CardinalityType
<1> QED
  BY <1>1 DEF Answering, Trouble, ContextTypeOK

LEMMA RefreshIs ==
  ASSUME ContextTypeOK, InOrder, Refresh
  PROVE  cached' \in 0..MaxNonce /\ troubles' \in Nat
BY MaxPendingIs, AnsweringCounts DEF Refresh, Refreshed

-------------------------------------------------------------------------------
(***************************************************************************)
(* Types, the order of the nonces and the place of the account.            *)
(***************************************************************************)
Static == ContextTypeOK /\ InOrder /\ CallOK

LEMMA PutStatic ==
  ASSUME Static, NEW t \in Tx, t.nonce >= Len(chain), Put(t), UNCHANGED chain
  PROVE  /\ pool' \in [Nodes -> SUBSET Tx]
         /\ chain' \in Seq(Tx)
         /\ InOrder'
<1>1. pool \in [Nodes -> SUBSET Tx] /\ Primary \in Nodes
  BY ContextAssumption DEF Static, ContextTypeOK
<1>2. pool' = [pool EXCEPT ![Primary] = {u \in @ : u.nonce # t.nonce} \cup {t}]
  BY DEF Put
<1>3. pool' \in [Nodes -> SUBSET Tx]
  BY <1>1, <1>2
<1>4. \A i \in Nodes : pool'[i] \subseteq pool[i] \cup {t}
  BY <1>1, <1>2
<1>5. \A i \in Nodes : \A u \in pool'[i] : u.nonce >= Len(chain)
  BY <1>4 DEF Static, InOrder
<1> QED
  BY <1>3, <1>5 DEF Static, InOrder, ContextTypeOK

LEMMA SignedIsTx ==
  ASSUME NEW n \in 0..(MaxNonce - 1), NEW a \in {Funder} \cup Accounts,
         NEW k \in 0..(Attempts - 1)
  PROVE  Signed(n, a, k) \in Tx /\ Signed(n, a, k).nonce = n
BY ContextAssumption DEF Signed, Tx

LEMMA NoTxIsTx == NoTx \in Tx
BY SignedIsTx, ContextAssumption DEF NoTx

LEMMA DummyStatic ==
  ASSUME Static, DummyTaken \/ DummyGivenUp
  PROVE  /\ pool' \in [Nodes -> SUBSET Tx] /\ chain' \in Seq(Tx) /\ InOrder'
         /\ cached' \in {Unknown} \cup 0..MaxNonce
         /\ dummies' \in Nat /\ troubles' \in Nat /\ losses' \in Nat
<1> USE ContextAssumption DEF Static
<1>1. CASE DummyTaken
  <2> DEFINE n == PendingNonce(Primary)
  <2>1. n \in Len(chain)..MaxNonce /\ n < MaxNonce /\ Len(chain) \in Nat
    BY <1>1, PendingNonceIs DEF DummyTaken, ContextTypeOK
  <2>2. Signed(n, Funder, 0) \in Tx /\ Signed(n, Funder, 0).nonce = n
    BY <2>1, SignedIsTx
  <2>3. pool' \in [Nodes -> SUBSET Tx] /\ chain' \in Seq(Tx) /\ InOrder'
    BY <1>1, <2>1, <2>2, PutStatic DEF DummyTaken
  <2>4. cached' \in {Unknown} \cup 0..MaxNonce
    BY <1>1, <2>1 DEF DummyTaken, ContextTypeOK
  <2>5. dummies' \in Nat /\ troubles' \in Nat /\ losses' \in Nat
    BY <1>1 DEF DummyTaken, Trouble, ContextTypeOK
  <2> QED
    BY <2>3, <2>4, <2>5
<1>2. CASE DummyGivenUp
  BY <1>2 DEF DummyGivenUp, Trouble, ContextTypeOK, InOrder, node
<1> QED
  BY <1>1, <1>2

\* What is left of a call after an attempt or with its end.
CallTypes ==
  /\ place' \in {"idle", "take"}
  /\ account' \in {Funder} \cup Accounts
  /\ attempt' \in 0..(Attempts - 1) /\ tx' \in Tx
  /\ landed' \in BOOLEAN /\ unsent' \in Nat
  /\ place' = "take" => account' = account
  /\ place' = "idle" => ~landed'

LEMMA FailTypes ==
  ASSUME ContextTypeOK, NEW sent, Fail(sent)
  PROVE  CallTypes
<1>1. place' = "idle" /\ account' = Funder /\ attempt' = 0 /\ tx' = NoTx
  BY DEF Fail, Return
<1>2. landed' = FALSE /\ (unsent' = unsent \/ unsent' = unsent + 1)
  BY DEF Fail
<1>3. unsent' \in Nat
  BY <1>2 DEF ContextTypeOK
<1>4. attempt' \in 0..(Attempts - 1)
  BY <1>1, ContextAssumption
<1> QED
  BY <1>1, <1>2, <1>3, <1>4, NoTxIsTx DEF CallTypes

LEMMA RetryTypes ==
  ASSUME ContextTypeOK, Retry
  PROVE  CallTypes
<1>1. CASE attempt + 1 < Attempts /\ attempt' = attempt + 1 /\ place' = "take"
           /\ tx' = NoTx /\ UNCHANGED <<account, landed, unsent>>
  BY <1>1, NoTxIsTx, ContextAssumption DEF ContextTypeOK, CallTypes
<1>2. CASE Fail(landed)
  BY <1>2, FailTypes
<1> QED
  BY <1>1, <1>2 DEF Retry

LEMMA StaticInductive ==
  ASSUME Static, [ContextNext]_contextVars
  PROVE  Static'
<1> USE ContextAssumption DEF Static
<1>1. CASE Boot
  <2>1. pool' \in [Nodes -> SUBSET Tx] /\ chain' \in Seq(Tx) /\ InOrder'
        /\ cached' \in {Unknown} \cup 0..MaxNonce
        /\ dummies' \in Nat /\ troubles' \in Nat /\ losses' \in Nat
    BY <1>1, DummyStatic DEF Boot
  <2>2. place' = "boot" /\ contexts' \in 0..MaxContexts /\ contexts' >= 1
    BY <1>1 DEF Boot, ContextTypeOK
  <2>3. UNCHANGED <<index, account, attempt, tx, landed, unsent, blind, late,
                    creations, asked, given>>
    BY <1>1 DEF Boot, call, seen
  <2>4. ~landed
    BY <1>1 DEF Boot, CallOK, Creating
  <2>5. ContextTypeOK'
    BY <2>1, <2>2, <2>3 DEF ContextTypeOK, Places
  <2>6. CallOK'
    BY <2>2, <2>3, <2>4 DEF CallOK, Creating
  <2> QED
    BY <2>1, <2>5, <2>6
<1>2. CASE Seed
  <2>1. PICK S \in SUBSET Nodes :
          /\ Answering(S) /\ index' = MaxPending(S)
          /\ blind' = (blind \/ Primary \notin S)
    BY <1>2 DEF Seed, SeedIndex
  <2>2. index' \in 0..MaxNonce /\ troubles' \in Nat
    BY <2>1, MaxPendingIs, AnsweringCounts
  <2>3. blind' \in BOOLEAN
    BY <2>1 DEF ContextTypeOK
  <2>4. place = "boot" /\ place' = "idle"
        /\ UNCHANGED <<chain, pool, cached, account, attempt, tx, contexts,
                       creations, asked, given, dummies, losses, landed,
                       unsent, late>>
    BY <1>2 DEF Seed, node, call, tallies
  <2>5. ContextTypeOK'
    BY <2>2, <2>3, <2>4 DEF ContextTypeOK, Places
  <2>6. CallOK' /\ InOrder'
    BY <2>2, <2>4 DEF CallOK, InOrder, ContextTypeOK, Creating
  <2> QED
    BY <2>5, <2>6
<1>3. CASE Exit
  <2>1. place' = "off" /\ cached' = Unknown /\ index' = 0 /\ place \notin Creating
        /\ UNCHANGED <<chain, pool, account, attempt, tx, contexts, creations,
                       asked, given, dummies, troubles, losses, landed, unsent,
                       blind, late>>
    BY <1>3 DEF Exit, node, call, tallies, env, seen, Creating
  <2>2. ContextTypeOK'
    BY <2>1 DEF ContextTypeOK, Places
  <2>3. CallOK' /\ InOrder'
    BY <2>1 DEF CallOK, InOrder, ContextTypeOK, Creating
  <2> QED
    BY <2>2, <2>3
<1>4. CASE Poke
  <2>1. pool' \in [Nodes -> SUBSET Tx] /\ chain' \in Seq(Tx) /\ InOrder'
        /\ cached' \in {Unknown} \cup 0..MaxNonce
        /\ dummies' \in Nat /\ troubles' \in Nat /\ losses' \in Nat
    BY <1>4, DummyStatic DEF Poke
  <2>2. UNCHANGED <<place, index, account, attempt, tx, contexts, creations, asked,
                    given, landed, unsent, blind, late>>
    BY <1>4 DEF Poke, call, tallies, seen
  <2>3. ContextTypeOK' /\ CallOK'
    BY <2>1, <2>2 DEF ContextTypeOK, CallOK
  <2> QED
    BY <2>1, <2>3
<1>5. CASE Create
  <2>1. /\ place = "idle" /\ place' = "take" /\ creations < MaxCreations
        /\ creations' = creations + 1
        /\ account' = index + 1 /\ index' = index + 1
        /\ asked' = [asked EXCEPT ![index + 1] = @ + 1]
    BY <1>5 DEF Create
  <2>2. UNCHANGED <<chain, pool, cached, attempt, tx, contexts, given, dummies,
                    troubles, losses, landed, unsent, blind, late>>
    BY <1>5 DEF Create, node, env, seen
  <2>3. index + 1 \in Accounts /\ index' <= MaxNonce + creations'
        /\ creations' \in 0..MaxCreations
    BY <2>1 DEF CallOK, ContextTypeOK, Accounts
  <2>4. asked' \in [Accounts -> Nat]
    BY <2>1, <2>3 DEF ContextTypeOK
  <2>5. ContextTypeOK'
    BY <2>1, <2>2, <2>3, <2>4 DEF ContextTypeOK, Places, Accounts
  <2>6. CallOK' /\ InOrder'
    BY <2>1, <2>2, <2>3 DEF CallOK, InOrder, ContextTypeOK, Creating
  <2> QED
    BY <2>5, <2>6
<1>6. CASE Take
  <2>1. PICK S \in SUBSET Nodes :
          /\ Answering(S) /\ MaxPending(S) < MaxNonce
          /\ cached' = MaxPending(S) + 1
          /\ tx' = Signed(MaxPending(S), account, attempt)
          /\ blind' = (blind \/ Primary \notin S)
    BY <1>6 DEF Take, Refreshed
  <2>2. MaxPending(S) \in 0..(MaxNonce - 1) /\ troubles' \in Nat
    BY <2>1, MaxPendingIs, AnsweringCounts
  <2>3. cached' \in 0..MaxNonce /\ tx' \in Tx /\ blind' \in BOOLEAN
    <3>1. account \in {Funder} \cup Accounts /\ attempt \in 0..(Attempts - 1)
      BY DEF ContextTypeOK
    <3>2. tx' \in Tx
      BY <2>1, <2>2, <3>1, SignedIsTx
    <3>3. cached' \in 0..MaxNonce
      BY <2>1, <2>2
    <3>4. blind' \in BOOLEAN
      BY <2>1 DEF ContextTypeOK
    <3> QED
      BY <3>2, <3>3, <3>4
  <2>4. place = "take" /\ place' = "send"
        /\ UNCHANGED <<chain, pool, index, account, attempt, contexts,
                       creations, asked, given, dummies, losses, landed,
                       unsent, late>>
    BY <1>6 DEF Take, node, tallies
  <2>5. ContextTypeOK'
    BY <2>2, <2>3, <2>4 DEF ContextTypeOK, Places
  <2>6. CallOK' /\ InOrder'
    BY <2>4 DEF CallOK, InOrder, Creating
  <2> QED
    BY <2>5, <2>6
<1>7. CASE TakeFails
  <2>1. CallTypes /\ troubles' \in Nat
    BY <1>7, RetryTypes DEF TakeFails, Trouble, ContextTypeOK
  <2>2. place = "take"
        /\ UNCHANGED <<chain, pool, cached, index, contexts, creations, asked,
                       given, dummies, losses, blind, late>>
    BY <1>7 DEF TakeFails, node, tallies
  <2>3. ContextTypeOK'
    BY <2>1, <2>2 DEF ContextTypeOK, CallTypes, Places
  <2>4. CallOK' /\ InOrder'
    BY <2>1, <2>2 DEF CallOK, CallTypes, InOrder, Creating
  <2> QED
    BY <2>3, <2>4
<1>8. CASE Accepted
  <2>1. place = "send" /\ place' = "mining" /\ landed' = TRUE /\ Put(tx)
        /\ tx.nonce >= Len(chain)
        /\ UNCHANGED <<chain, cached, index, account, attempt, tx, contexts,
                       creations, asked, given, dummies, troubles, losses,
                       unsent, blind, late>>
    BY <1>8 DEF Accepted, Acceptable, call, tallies, env
  <2>2. pool' \in [Nodes -> SUBSET Tx] /\ chain' \in Seq(Tx) /\ InOrder'
    BY <2>1, PutStatic DEF ContextTypeOK
  <2>3. ContextTypeOK'
    BY <2>1, <2>2 DEF ContextTypeOK, Places
  <2>4. CallOK'
    BY <2>1 DEF CallOK, Creating
  <2> QED
    BY <2>2, <2>3, <2>4
<1>9. CASE Refused
  <2>1. CallTypes /\ cached' \in 0..MaxNonce /\ troubles' \in Nat
    BY <1>9, RetryTypes, RefreshIs DEF Refused
  <2>2. place = "send"
        /\ UNCHANGED <<chain, pool, index, contexts, creations, asked, given,
                       dummies, losses, blind, late>>
    BY <1>9 DEF Refused, node, tallies
  <2>3. ContextTypeOK'
    BY <2>1, <2>2 DEF ContextTypeOK, CallTypes, Places
  <2>4. CallOK' /\ InOrder'
    BY <2>1, <2>2 DEF CallOK, CallTypes, InOrder, Creating
  <2> QED
    BY <2>3, <2>4
<1>10. CASE SendFails
  <2>1. CallTypes /\ troubles' \in Nat
    <3>1. Fail(landed) \/ Fail(TRUE)
      BY <1>10 DEF SendFails
    <3>2. CallTypes
      BY <3>1, FailTypes
    <3>3. troubles' \in Nat
      BY <1>10 DEF SendFails, Trouble, ContextTypeOK
    <3> QED
      BY <3>2, <3>3
  <2>2. place = "send"
        /\ UNCHANGED <<chain, cached, index, contexts, creations, asked, given,
                       dummies, losses, blind, late>>
    BY <1>10 DEF SendFails, node, tallies
  <2>3. pool' \in [Nodes -> SUBSET Tx] /\ chain' \in Seq(Tx) /\ InOrder'
    <3>1. CASE UNCHANGED node
      BY <3>1 DEF node, ContextTypeOK, InOrder
    <3>2. CASE Acceptable /\ Put(tx) /\ UNCHANGED chain
      BY <3>2, PutStatic DEF Acceptable, ContextTypeOK
    <3> QED
      BY <1>10, <3>1, <3>2 DEF SendFails
  <2>4. ContextTypeOK'
    BY <2>1, <2>2, <2>3 DEF ContextTypeOK, CallTypes, Places
  <2>5. CallOK'
    BY <2>1, <2>2 DEF CallOK, CallTypes, Creating
  <2> QED
    BY <2>3, <2>4, <2>5
<1>11. CASE Confirm
  <2>1. place = "mining" /\ place' = "idle" /\ account' = Funder /\ attempt' = 0
        /\ tx' = NoTx /\ landed' = FALSE
        /\ given' = given \cup {<<contexts, account>>}
        /\ UNCHANGED <<chain, pool, cached, index, contexts, creations, asked,
                       dummies, troubles, losses, unsent, blind, late>>
    BY <1>11 DEF Confirm, Return, node, env
  <2>2. contexts \in 1..MaxContexts /\ account \in Accounts
    BY <2>1 DEF ContextTypeOK, CallOK, Creating, Funder
  <2>3. ContextTypeOK'
    <3>1. given' \subseteq (1..MaxContexts) \X Accounts
      BY <2>1, <2>2 DEF ContextTypeOK
    <3>2. attempt' \in 0..(Attempts - 1)
      BY <2>1
    <3>3. tx' \in Tx /\ place' \in Places
          /\ account' \in {Funder} \cup Accounts /\ landed' \in BOOLEAN
      <4> HIDE DEF Static
      <4> QED
        BY <2>1, NoTxIsTx DEF Places
    <3> QED
      BY <2>1, <3>1, <3>2, <3>3 DEF ContextTypeOK
  <2>4. CallOK' /\ InOrder'
    BY <2>1 DEF CallOK, InOrder, Creating
  <2> QED
    BY <2>3, <2>4
<1>12. CASE Timeout
  <2>1. CallTypes /\ cached' \in 0..MaxNonce /\ troubles' \in Nat
    BY <1>12, RetryTypes, RefreshIs DEF Timeout
  <2>2. place = "mining" /\ late' = [late EXCEPT ![account] = @ + 1]
        /\ UNCHANGED <<chain, pool, index, contexts, creations, asked, given,
                       dummies, losses, blind>>
    BY <1>12 DEF Timeout, node, tallies
  <2>3. account \in Accounts
    BY <2>2 DEF ContextTypeOK, CallOK, Creating, Funder
  <2>4. late' \in [Accounts -> Nat]
    BY <2>2, <2>3 DEF ContextTypeOK
  <2>5. ContextTypeOK'
    BY <2>1, <2>2, <2>4 DEF ContextTypeOK, CallTypes, Places
  <2>6. CallOK' /\ InOrder'
    BY <2>1, <2>2 DEF CallOK, CallTypes, InOrder, Creating
  <2> QED
    BY <2>5, <2>6
<1>13. CASE Mine
  <2>0. PICK i \in Nodes : \E t \in pool[i] :
          t.nonce = Len(chain) /\ chain' = Append(chain, t)
    BY <1>13 DEF Mine
  <2>1. PICK t \in pool[i] : t.nonce = Len(chain) /\ chain' = Append(chain, t)
    BY <2>0
  <2>2. pool' = [j \in Nodes |-> {u \in pool[j] : u.nonce > Len(chain)}]
        /\ UNCHANGED <<place, cached, index, account, attempt, tx, contexts,
                       creations, asked, given, dummies, troubles, losses,
                       landed, unsent, blind, late>>
    BY <1>13 DEF Mine, call, tallies, env, seen
  <2>3. t \in Tx /\ chain \in Seq(Tx)
    BY <2>1 DEF ContextTypeOK
  <2>4. chain' \in Seq(Tx) /\ Len(chain') = Len(chain) + 1
        /\ \A n \in 1..Len(chain) : chain'[n] = chain[n]
        /\ chain'[Len(chain) + 1] = t
    BY <2>1, <2>3
  <2>5. pool' \in [Nodes -> SUBSET Tx]
    BY <2>2 DEF ContextTypeOK
  <2>6. t.nonce \in 0..(MaxNonce - 1) /\ Len(chain) \in Nat
    BY <2>3 DEF Tx
  <2>7. \A n \in DOMAIN chain' : chain'[n].nonce = n - 1
    <3>1. DOMAIN chain' = 1..(Len(chain) + 1) /\ DOMAIN chain = 1..Len(chain)
      BY <2>3, <2>4
    <3> QED
      BY <2>1, <2>4, <2>6, <3>1 DEF InOrder
  <2>8. \A j \in Nodes : \A u \in pool'[j] : u.nonce >= Len(chain')
    <3> SUFFICES ASSUME NEW j \in Nodes, NEW u \in pool'[j]
                 PROVE  u.nonce >= Len(chain')
      OBVIOUS
    <3>1. u \in pool[j] /\ u.nonce > Len(chain)
      BY <2>2
    <3>2. u.nonce \in Nat
      BY <3>1 DEF ContextTypeOK, Tx
    <3> QED
      BY <2>4, <2>6, <3>1, <3>2
  <2>9. InOrder'
    BY <2>1, <2>4, <2>6, <2>7, <2>8 DEF InOrder
  <2>10. ContextTypeOK' /\ CallOK'
    BY <2>2, <2>4, <2>5 DEF ContextTypeOK, CallOK
  <2> QED
    BY <2>9, <2>10
<1>14. CASE Gossip
  <2>0. PICK i \in Nodes, j \in Nodes : \E t \in pool[i] :
          pool' = [pool EXCEPT ![j] = @ \cup {t}]
    BY <1>14 DEF Gossip
  <2>1. PICK t \in pool[i] : pool' = [pool EXCEPT ![j] = @ \cup {t}]
    BY <2>0
  <2>2. UNCHANGED <<chain, place, cached, index, account, attempt, tx, contexts,
                    creations, asked, given, dummies, troubles, losses,
                    landed, unsent, blind, late>>
    BY <1>14 DEF Gossip, call, tallies, env, seen
  <2>3. t \in Tx /\ t.nonce >= Len(chain)
    BY DEF ContextTypeOK, InOrder
  <2>4. pool' \in [Nodes -> SUBSET Tx]
    BY <2>1, <2>3 DEF ContextTypeOK
  <2>5. InOrder'
    <3>1. \A k \in Nodes : pool'[k] \subseteq pool[k] \cup {t}
      BY <2>1 DEF ContextTypeOK
    <3> QED
      BY <2>2, <2>3, <3>1 DEF InOrder
  <2>6. ContextTypeOK' /\ CallOK'
    BY <2>2, <2>4 DEF ContextTypeOK, CallOK
  <2> QED
    BY <2>5, <2>6
<1>15. CASE Lose
  <2>1. PICK i \in Nodes : \E t \in pool[i] : pool' = [pool EXCEPT ![i] = @ \ {t}]
    BY <1>15 DEF Lose
  <2>2. troubles' \in Nat /\ losses' \in Nat
        /\ UNCHANGED <<chain, place, cached, index, account, attempt, tx, contexts,
                       creations, asked, given, dummies, landed, unsent, blind,
                       late>>
    BY <1>15 DEF Lose, Trouble, call, tallies, seen, ContextTypeOK
  <2>3. pool' \in [Nodes -> SUBSET Tx] /\ \A k \in Nodes : pool'[k] \subseteq pool[k]
    BY <2>1 DEF ContextTypeOK
  <2>4. ContextTypeOK' /\ CallOK' /\ InOrder'
    BY <2>2, <2>3 DEF ContextTypeOK, CallOK, InOrder
  <2> QED
    BY <2>4
<1>16. CASE UNCHANGED contextVars
  BY <1>16 DEF contextVars, node, call, tallies, env, seen, ContextTypeOK, InOrder, CallOK
<1> QED
  BY <1>1, <1>2, <1>3, <1>4, <1>5, <1>6, <1>7, <1>8, <1>9, <1>10, <1>11, <1>12,
     <1>13, <1>14, <1>15, <1>16 DEF ContextNext, Caller

LEMMA StaticInitially == ContextInit => Static
<1> SUFFICES ASSUME ContextInit
             PROVE  Static
  OBVIOUS
<1>1. ContextTypeOK
  <2>1. chain \in Seq(Tx) /\ pool \in [Nodes -> SUBSET Tx]
    BY DEF ContextInit
  <2>2. asked \in [Accounts -> Nat] /\ late \in [Accounts -> Nat]
    BY DEF ContextInit
  <2>3. index \in 0..(MaxNonce + MaxCreations) /\ attempt \in 0..(Attempts - 1)
        /\ contexts \in 0..MaxContexts /\ creations \in 0..MaxCreations
    BY ContextAssumption DEF ContextInit
  <2>4. tx \in Tx
    BY NoTxIsTx DEF ContextInit
  <2>5. /\ place \in Places /\ cached \in {Unknown} \cup 0..MaxNonce
        /\ account \in {Funder} \cup Accounts /\ given = {}
        /\ landed \in BOOLEAN /\ blind \in BOOLEAN
        /\ dummies \in Nat /\ troubles \in Nat /\ losses \in Nat /\ unsent \in Nat
    BY DEF ContextInit, Places
  <2> QED
    BY <2>1, <2>2, <2>3, <2>4, <2>5 DEF ContextTypeOK
<1>2. InOrder /\ CallOK
  BY ContextAssumption DEF ContextInit, InOrder, CallOK, Creating
<1> QED
  BY <1>1, <1>2 DEF Static

(***************************************************************************)
(* The state of the context and of the nodes is what the code and a chain  *)
(* can hold: nonces in order, no more accounts than calls, attempts within *)
(* the limit.                                                              *)
(***************************************************************************)
THEOREM ContextTypeCorrect == ContextSpec => []ContextTypeOK
<1>1. ContextInit => Static
  BY StaticInitially
<1>2. Static /\ [ContextNext]_contextVars => Static'
  BY StaticInductive
<1>3. Static => ContextTypeOK
  BY DEF Static
<1> QED
  BY <1>1, <1>2, <1>3, PTL DEF ContextSpec

-------------------------------------------------------------------------------
(***************************************************************************)
(* What is known of the funder's nonces only grows.                        *)
(***************************************************************************)
Grown ==
  /\ Len(chain) <= Len(chain')
  /\ \A n \in Nonces(pool[Primary]) :
       n >= Len(chain') => n \in Nonces(pool'[Primary])

LEMMA StillCovered ==
  ASSUME Static, Static', Grown, NEW k \in Int, Covered(k)
  PROVE  Covered(k)'
<1>1. Len(chain) \in Nat /\ Len(chain') \in Nat
  <2>1. chain \in Seq(Tx)
    BY Zenon DEF Static, ContextTypeOK
  <2>2. chain' \in Seq(Tx)
    BY Zenon DEF Static, ContextTypeOK
  <2> HIDE DEF Covered
  <2> QED
    BY <2>1, <2>2
<1> SUFFICES ASSUME NEW n \in Len(chain')..(k - 1)
             PROVE  n \in Nonces(pool'[Primary])
  BY <1>1 DEF Covered, Nonces
<1>2. n \in Len(chain)..(k - 1) /\ n >= Len(chain')
  BY <1>1 DEF Grown
<1> QED
  BY <1>2 DEF Covered, Grown

Pools == Shared /\ Closed

LEMMA PutPools ==
  ASSUME Static, Static', Pools, NEW t \in Tx, Covered(t.nonce), Put(t),
         UNCHANGED chain
  PROVE  /\ Grown /\ Pools'
         /\ Nonces(pool'[Primary]) = Nonces(pool[Primary]) \cup {t.nonce}
<1>1. pool \in [Nodes -> SUBSET Tx] /\ Primary \in Nodes
  BY ContextAssumption DEF Static, ContextTypeOK
<1>2. pool' = [pool EXCEPT ![Primary] = {u \in @ : u.nonce # t.nonce} \cup {t}]
  BY DEF Put
<1>3. pool'[Primary] = {u \in pool[Primary] : u.nonce # t.nonce} \cup {t}
  BY <1>1, <1>2
<1>4. Nonces(pool'[Primary]) = Nonces(pool[Primary]) \cup {t.nonce}
  BY <1>3 DEF Nonces
<1>5. \A i \in Nodes \ {Primary} : pool'[i] = pool[i]
  BY <1>1, <1>2
<1>6. Grown
  BY <1>4 DEF Grown, Static, ContextTypeOK
<1>7. Shared'
  <2> SUFFICES ASSUME NEW i \in Nodes, NEW n \in Nonces(pool'[i])
               PROVE  n \in Nonces(pool'[Primary])
    BY DEF Shared, Nonces
  <2> QED
    BY <1>4, <1>5 DEF Pools, Shared
<1>8. Closed'
  <2> SUFFICES ASSUME NEW n \in Nonces(pool'[Primary])
               PROVE  Covered(n)'
    BY DEF Closed, Covered, Nonces
  <2>1. n \in Int
    <3>1. pool' \in [Nodes -> SUBSET Tx]
      BY DEF Static, ContextTypeOK
    <3>2. pool'[Primary] \subseteq Tx
      BY <1>1, <3>1
    <3> QED
      BY <3>2 DEF Nonces, Tx
  <2>2. Covered(n)
    BY <1>4 DEF Pools, Closed
  <2> QED
    BY <1>6, <2>1, <2>2, StillCovered
<1> QED
  BY <1>4, <1>6, <1>7, <1>8 DEF Pools

LEMMA MinePools ==
  ASSUME Static, Static', Pools, Mine
  PROVE  Grown /\ Pools'
<1>1. pool \in [Nodes -> SUBSET Tx] /\ Primary \in Nodes
  BY ContextAssumption DEF Static, ContextTypeOK
<1>2. pool' = [i \in Nodes |-> {t \in pool[i] : t.nonce > Len(chain)}]
  BY DEF Mine
<1>3. Len(chain) \in Nat /\ Len(chain') = Len(chain) + 1
  <2>1. PICK i \in Nodes : \E t \in pool[i] : chain' = Append(chain, t)
    BY DEF Mine
  <2>2. PICK t \in pool[i] : chain' = Append(chain, t)
    BY <2>1
  <2>3. t \in Tx /\ chain \in Seq(Tx)
    BY DEF Static, ContextTypeOK
  <2> QED
    BY <2>2, <2>3
<1>4. \A i \in Nodes : \A u \in pool[i] : u.nonce \in Int
  BY <1>1 DEF Tx
<1>5. \A i \in Nodes :
        Nonces(pool'[i]) = {n \in Nonces(pool[i]) : n > Len(chain)}
  BY <1>2 DEF Nonces
<1>6. \A i \in Nodes : \A n \in Nonces(pool[i]) : n \in Int
  BY <1>4 DEF Nonces
<1>7. Grown
  BY <1>1, <1>3, <1>5, <1>6 DEF Grown
<1>8. Shared'
  <2> SUFFICES ASSUME NEW i \in Nodes, NEW n \in Nonces(pool'[i])
               PROVE  n \in Nonces(pool'[Primary])
    BY DEF Shared, Nonces
  <2> QED
    BY <1>1, <1>5 DEF Pools, Shared
<1>9. Closed'
  <2> SUFFICES ASSUME NEW n \in Nonces(pool'[Primary])
               PROVE  Covered(n)'
    BY DEF Closed, Covered, Nonces
  <2>1. n \in Int /\ Covered(n)
    BY <1>1, <1>5, <1>6 DEF Pools, Closed
  <2> QED
    BY <1>7, <2>1, StillCovered
<1> QED
  BY <1>7, <1>8, <1>9 DEF Pools

LEMMA GossipPools ==
  ASSUME Static, Static', Pools, Gossip
  PROVE  Grown /\ Pools'
<1>1. pool \in [Nodes -> SUBSET Tx] /\ Primary \in Nodes
  BY ContextAssumption DEF Static, ContextTypeOK
<1>2. PICK i \in Nodes, j \in Nodes : \E t \in pool[i] :
        pool' = [pool EXCEPT ![j] = @ \cup {t}]
  BY DEF Gossip
<1>3. PICK t \in pool[i] : pool' = [pool EXCEPT ![j] = @ \cup {t}]
  BY <1>2
<1>4. t.nonce \in Nonces(pool[Primary]) /\ UNCHANGED chain
  BY DEF Pools, Shared, Nonces, Gossip
<1>5. \A k \in Nodes : /\ Nonces(pool[k]) \subseteq Nonces(pool'[k])
                       /\ Nonces(pool'[k]) \subseteq Nonces(pool[k]) \cup {t.nonce}
  BY <1>1, <1>3 DEF Nonces
<1>6. Nonces(pool'[Primary]) = Nonces(pool[Primary])
  BY <1>1, <1>4, <1>5
<1>7. Grown
  BY <1>4, <1>6 DEF Grown, Static, ContextTypeOK
<1>8. Shared'
  <2> SUFFICES ASSUME NEW k \in Nodes, NEW n \in Nonces(pool'[k])
               PROVE  n \in Nonces(pool'[Primary])
    BY DEF Shared, Nonces
  <2> QED
    BY <1>4, <1>5, <1>6 DEF Pools, Shared
<1>9. Closed'
  BY <1>4, <1>6 DEF Pools, Closed, Covered, Nonces
<1> QED
  BY <1>7, <1>8, <1>9 DEF Pools

LEMMA SamePools ==
  ASSUME Static, Pools, UNCHANGED node
  PROVE  Grown /\ Pools'
<1>1. chain' = chain /\ pool' = pool
  BY DEF node
<1>2. Grown
  BY <1>1 DEF Grown, Static, ContextTypeOK
<1>3. Shared'
  BY <1>1 DEF Pools, Shared, Nonces
<1>4. Closed'
  BY <1>1 DEF Pools, Closed, Covered, Nonces
<1> QED
  BY <1>2, <1>3, <1>4 DEF Pools

LEMMA DummyPools ==
  ASSUME Static, Static', Pools, DummyTaken \/ DummyGivenUp
  PROVE  Grown /\ Pools'
<1>1. CASE DummyTaken
  <2> DEFINE n == PendingNonce(Primary)
  <2>1. n \in Len(chain)..MaxNonce /\ n < MaxNonce /\ Len(chain) \in Nat
        /\ Covered(n)
    <3>1. n < MaxNonce
      BY <1>1 DEF DummyTaken
    <3>2. n \in Len(chain)..MaxNonce /\ Len(chain)..(n - 1) \subseteq Nonces(pool[Primary])
      BY PendingNonceIs, ContextAssumption DEF Static
    <3>3. Len(chain) \in Nat
      BY DEF Static, ContextTypeOK
    <3> HIDE DEF n
    <3> QED
      BY <3>1, <3>2, <3>3 DEF Covered
  <2>2. Signed(n, Funder, 0) \in Tx /\ Signed(n, Funder, 0).nonce = n
    BY <2>1, SignedIsTx, ContextAssumption
  <2>3. Put(Signed(n, Funder, 0)) /\ UNCHANGED chain
    BY <1>1 DEF DummyTaken
  <2> HIDE DEF n
  <2> QED
    BY <2>1, <2>2, <2>3, PutPools
<1>2. CASE DummyGivenUp
  BY <1>2, SamePools DEF DummyGivenUp
<1> QED
  BY <1>1, <1>2

LEMMA PoolsKept ==
  ASSUME Static, Static', Gapless, losses' = 0, [ContextNext]_contextVars
  PROVE  losses = 0 /\ Pools /\ Grown /\ Pools'
<1>1. losses = 0
  <2>1. losses' = losses \/ losses' = losses + 1
    <3>1. Lose => losses' = losses + 1
      BY DEF Lose
    <3>2. DummyTaken \/ DummyGivenUp => losses' = losses
      BY DEF DummyTaken, DummyGivenUp
    <3>3. Boot \/ Poke => losses' = losses
      BY <3>2 DEF Boot, Poke
    <3>4. Seed \/ Exit \/ Create \/ Mine \/ Gossip \/ UNCHANGED contextVars => losses' = losses
      BY DEF Seed, Exit, Create, Mine, Gossip, contextVars, env
    <3>5. Caller => losses' = losses
      BY DEF Caller, Take, TakeFails, Accepted, Refused, SendFails, Confirm,
             Timeout, env
    <3> QED
      BY <3>1, <3>3, <3>4, <3>5 DEF ContextNext
  <2> QED
    BY <2>1 DEF Static, ContextTypeOK
<1>2. Pools
  BY <1>1 DEF Gapless, Pools
<1> SUFFICES Grown /\ Pools'
  BY <1>1, <1>2
<1>3. CASE Boot \/ Poke
  BY <1>2, <1>3, DummyPools DEF Boot, Poke
<1>4. CASE Accepted \/ (SendFails /\ ~UNCHANGED node)
  <2>1. place = "send" /\ Put(tx) /\ UNCHANGED chain
    BY <1>4 DEF Accepted, SendFails
  <2>2. tx \in Tx /\ Covered(tx.nonce)
    BY <1>1, <2>1 DEF Gapless, Static, ContextTypeOK
  <2> QED
    BY <1>2, <2>1, <2>2, PutPools
<1>5. CASE Mine
  BY <1>2, <1>5, MinePools
<1>6. CASE Gossip
  BY <1>2, <1>6, GossipPools
<1>7. CASE UNCHANGED node
  BY <1>2, <1>7, SamePools
<1>8. CASE Lose
  BY <1>1, <1>8 DEF Lose
<1>9. Seed \/ Exit \/ Create \/ Take \/ TakeFails \/ Refused \/ Confirm
      \/ Timeout \/ UNCHANGED contextVars => UNCHANGED node
  BY DEF Seed, Exit, Create, Take, TakeFails, Refused, Confirm, Timeout, contextVars
<1> QED
  BY <1>1, <1>2, <1>3, <1>4, <1>5, <1>6, <1>7, <1>8, <1>9 DEF ContextNext, Caller

\* A nonce that answers suggest is covered, and free when the primary answered.
LEMMA SuggestedNonce ==
  ASSUME Static, Pools, NEW S \in SUBSET Nodes
  PROVE  /\ MaxPending(S) \in Nat /\ Covered(MaxPending(S))
         /\ Primary \in S => /\ MaxPending(S) >= Len(chain)
                             /\ MaxPending(S) \notin Nonces(pool[Primary])
<1> DEFINE n == MaxPending(S)
           q == PendingNonce(Primary)
<1>1. n \in Nat /\ Len(chain) \in Nat /\ Primary \in Nodes
  BY MaxPendingIs, ContextAssumption DEF Static, ContextTypeOK
<1>2. Covered(n)
  <2>1. CASE n = 0
    BY <1>1, <2>1 DEF Covered
  <2>2. CASE \E i \in S : n = PendingNonce(i)
    BY <2>2, PendingNonceIs DEF Static, Covered, Pools, Shared
  <2> QED
    BY <2>1, <2>2, MaxPendingIs DEF Static
<1>3. ASSUME Primary \in S
      PROVE  n >= Len(chain) /\ n \notin Nonces(pool[Primary])
  <2>1. q \in Nat /\ q >= Len(chain) /\ q \notin Nonces(pool[Primary]) /\ q <= n
    BY <1>1, <1>3, PendingNonceIs, MaxPendingIs, ContextAssumption DEF Static
  <2>2. ASSUME n \in Nonces(pool[Primary])
        PROVE  FALSE
    <3>1. Covered(n) /\ q # n
      BY <2>1, <2>2 DEF Pools, Closed
    <3>2. q \in Len(chain)..(n - 1)
      BY <1>1, <2>1, <3>1
    <3> QED
      BY <2>1, <3>1, <3>2 DEF Covered
  <2> QED
    BY <1>1, <2>1, <2>2
<1> QED
  BY <1>1, <1>2, <1>3

\* Which steps move a sender.
LEMMA SenderMoves ==
  ASSUME Static, [ContextNext]_contextVars
  PROVE  \/ Take \/ Accepted
         \/ place' \notin {"send", "mining"}
         \/ place' = place /\ tx' = tx
<1>1. TakeFails \/ Refused \/ Timeout => place' \notin {"send", "mining"}
  BY DEF TakeFails, Refused, Timeout, Retry, Fail, Return
<1>2. SendFails \/ Confirm => place' \notin {"send", "mining"}
  BY DEF SendFails, Confirm, Fail, Return
<1>3. Boot \/ Seed \/ Exit \/ Create => place' \notin {"send", "mining"}
  BY DEF Boot, Seed, Exit, Create
<1>4. Poke \/ Mine \/ Gossip \/ Lose \/ UNCHANGED contextVars => place' = place /\ tx' = tx
  BY DEF Poke, Mine, Gossip, Lose, contextVars, call
<1> QED
  BY <1>1, <1>2, <1>3, <1>4 DEF ContextNext, Caller

LEMMA GaplessInductive ==
  ASSUME Static, Static', Gapless, [ContextNext]_contextVars
  PROVE  Gapless'
<1> SUFFICES ASSUME losses' = 0
             PROVE  Gapless'
  BY DEF Gapless
<1>1. losses = 0 /\ Pools /\ Grown /\ Pools'
  BY PoolsKept
<1>2. tx \in Tx /\ tx.nonce \in Nat /\ tx'.nonce \in Nat
  BY DEF Static, ContextTypeOK, Tx
<1>3. CASE Take
  <2>1. PICK S \in SUBSET Nodes : tx' = Signed(MaxPending(S), account, attempt)
    BY <1>3 DEF Take, Refreshed
  <2>2. tx'.nonce = MaxPending(S)
    BY <2>1 DEF Signed
  <2>3. Covered(tx'.nonce)
    BY <1>1, <2>2, SuggestedNonce
  <2>4. Covered(tx.nonce)'
    BY <1>3, <2>3 DEF Take, node, Covered, Nonces
  <2>5. place' = "send"
    BY <1>3 DEF Take
  <2> QED
    BY <1>1, <2>4, <2>5 DEF Gapless, Pools
<1>4. CASE Accepted
  <2>1. place = "send" /\ place' = "mining" /\ tx' = tx /\ Put(tx) /\ UNCHANGED chain
    BY <1>4 DEF Accepted, call
  <2>2. Covered(tx.nonce)
    BY <1>1, <2>1 DEF Gapless
  <2>3. Nonces(pool'[Primary]) = Nonces(pool[Primary]) \cup {tx.nonce}
    BY <1>1, <1>2, <2>1, <2>2, PutPools
  <2>4. Covered(tx.nonce + 1)'
    <3>2. Len(chain)..(tx.nonce - 1) \subseteq Nonces(pool'[Primary])
      BY <2>2, <2>3, Zenon DEF Covered
    <3>3. tx.nonce \in Nonces(pool'[Primary])
      BY <2>3
    <3>4. ASSUME NEW n \in Len(chain')..((tx'.nonce + 1) - 1)
          PROVE  n \in Nonces(pool'[Primary])
      <4>1. Len(chain) \in Nat /\ chain' = chain /\ tx' = tx
        <5>1. chain \in Seq(Tx)
          BY Zenon DEF Static, ContextTypeOK
        <5> QED
          BY <2>1, <5>1
      <4>2. n \in Len(chain)..(tx.nonce - 1) \/ n = tx.nonce
        BY <1>2, <4>1
      <4> QED
        BY <3>2, <3>3, <4>2
    <3>5. Len(chain')..((tx'.nonce + 1) - 1) \subseteq Nonces(pool'[Primary])
      BY <3>4
    <3> QED
      BY <3>5, Zenon DEF Covered, Nonces
  <2> QED
    BY <1>1, <2>1, <2>4 DEF Gapless, Pools
<1>5. CASE place' \notin {"send", "mining"}
  BY <1>1, <1>5 DEF Gapless, Pools
<1>6. CASE place' = place /\ tx' = tx
  <2>1. ASSUME place = "send"
        PROVE  Covered(tx.nonce)'
    <3>1. Covered(tx.nonce) /\ tx.nonce \in Int
      BY <1>1, <1>2, <2>1 DEF Gapless
    <3>2. \A m \in Int : Covered(m) => Len(chain')..(m - 1) \subseteq Nonces(pool'[Primary])
      BY <1>1, StillCovered DEF Covered, Nonces
    <3> QED
      BY <1>6, <3>1, <3>2 DEF Covered, Nonces
  <2>2. ASSUME place = "mining"
        PROVE  Covered(tx.nonce + 1)'
    <3>1. Covered(tx.nonce + 1) /\ tx.nonce + 1 \in Int
      <4>1. Covered(tx.nonce + 1)
        BY <1>1, <2>2 DEF Gapless
      <4> QED
        BY <1>2, <4>1
    <3>2. \A m \in Int : Covered(m) => Len(chain')..(m - 1) \subseteq Nonces(pool'[Primary])
      BY <1>1, StillCovered DEF Covered, Nonces
    <3>3. Len(chain')..((tx.nonce + 1) - 1) \subseteq Nonces(pool'[Primary])
      BY <3>1, <3>2
    <3>4. Len(chain')..((tx'.nonce + 1) - 1) \subseteq Nonces(pool'[Primary])
      BY <1>6, <3>3
    <3> QED
      BY <3>4, Zenon DEF Covered, Nonces
  <2> QED
    BY <1>1, <1>6, <2>1, <2>2 DEF Gapless, Pools
<1> QED
  BY <1>3, <1>4, <1>5, <1>6, SenderMoves

LEMMA GaplessInitially == ContextInit => Gapless
BY ContextAssumption DEF ContextInit, Gapless, Shared, Closed, Covered, Nonces

(***************************************************************************)
(* A payment that a test waits for is never parked behind a free nonce,    *)
(* unless a pool lost a transaction.                                       *)
(***************************************************************************)
THEOREM NeverParked == ContextSpec => []NoGap
<1>1. ContextInit => Static /\ Gapless
  BY StaticInitially, GaplessInitially
<1>2. Static /\ Gapless /\ [ContextNext]_contextVars => (Static /\ Gapless)'
  BY StaticInductive, GaplessInductive
<1>3. Static /\ Gapless => NoGap
  BY DEF Static, ContextTypeOK, Tx, Gapless, Covered, NoGap
<1> QED
  BY <1>1, <1>2, <1>3, PTL DEF ContextSpec

-------------------------------------------------------------------------------
(***************************************************************************)
(* The accounts are unique on good days.                                   *)
(***************************************************************************)
LEMMA GoodBefore ==
  ASSUME Static, Static', Gapless, Good', [ContextNext]_contextVars
  PROVE  Good /\ losses = 0 /\ Pools /\ Grown /\ Pools'
<1>1. losses' = 0 /\ unsent' = 0 /\ ~blind'
  BY DEF Good
<1>2. losses = 0 /\ Pools /\ Grown /\ Pools'
  BY <1>1, PoolsKept
<1>3. unsent = 0
  <2>1. Retry => unsent' = unsent \/ unsent' = unsent + 1
    BY DEF Retry, Fail
  <2>2. TakeFails \/ Refused \/ Timeout \/ SendFails => unsent' = unsent \/ unsent' = unsent + 1
    BY <2>1 DEF TakeFails, Refused, Timeout, SendFails, Fail
  <2>3. Boot \/ Seed \/ Exit \/ Poke \/ Create \/ Take \/ Accepted \/ Confirm
        \/ Mine \/ Gossip \/ Lose \/ UNCHANGED contextVars => unsent' = unsent
    BY DEF Boot, Seed, Exit, Poke, Create, Take, Accepted, Confirm, Mine,
           Gossip, Lose, contextVars, seen
  <2>4. unsent' = unsent \/ unsent' = unsent + 1
    BY <2>2, <2>3 DEF ContextNext, Caller
  <2> QED
    BY <1>1, <2>4 DEF Static, ContextTypeOK
<1>4. ~blind
  <2>1. Take \/ Seed => (blind => blind')
    BY DEF Take, Seed, Static, ContextTypeOK
  <2>2. Boot \/ Exit \/ Poke \/ Create \/ TakeFails \/ Accepted \/ Refused
        \/ SendFails \/ Confirm \/ Timeout \/ Mine \/ Gossip \/ Lose
        \/ UNCHANGED contextVars => blind' = blind
    BY DEF Boot, Exit, Poke, Create, TakeFails, Accepted, Refused, SendFails,
           Confirm, Timeout, Mine, Gossip, Lose, contextVars, seen
  <2> QED
    BY <1>1, <2>1, <2>2 DEF ContextNext, Caller
<1> QED
  BY <1>2, <1>3, <1>4 DEF Good

\* Nobody takes the nonce that is about to be sent.
LEMMA NextNonceKept ==
  ASSUME Static, Static', Pools, NextNonce, place = "send", tx' = tx,
         Mine \/ Gossip \/ UNCHANGED node
  PROVE  NextNonce'
<1>1. tx.nonce >= Len(chain) /\ tx.nonce \notin Nonces(pool[Primary])
  BY DEF NextNonce
<1>2. pool \in [Nodes -> SUBSET Tx] /\ Primary \in Nodes /\ Len(chain) \in Nat
      /\ tx.nonce \in Nat
  BY ContextAssumption DEF Static, ContextTypeOK, Tx
<1>3. CASE Mine
  <2>1. PICK i \in Nodes : \E t \in pool[i] :
          t.nonce = Len(chain) /\ chain' = Append(chain, t)
    BY <1>3 DEF Mine
  <2>2. PICK t \in pool[i] : t.nonce = Len(chain) /\ chain' = Append(chain, t)
    BY <2>1
  <2>3. Len(chain) \in Nonces(pool[Primary])
    BY <2>2 DEF Pools, Shared, Nonces
  <2>4. chain \in Seq(Tx) /\ t \in Tx
    BY DEF Static, ContextTypeOK
  <2>5. Len(chain') = Len(chain) + 1
    BY <2>2, <2>4
  <2>6. tx.nonce >= Len(chain')
    BY <1>1, <1>2, <2>3, <2>5
  <2>7. Nonces(pool'[Primary]) \subseteq Nonces(pool[Primary])
    BY <1>2, <1>3 DEF Mine, Nonces
  <2> QED
    BY <1>1, <2>6, <2>7 DEF NextNonce, Nonces
<1>4. CASE Gossip
  <2>1. PICK i \in Nodes, j \in Nodes : \E t \in pool[i] :
          t.nonce \notin Nonces(pool[j]) /\ pool' = [pool EXCEPT ![j] = @ \cup {t}]
    BY <1>4 DEF Gossip
  <2>2. PICK t \in pool[i] :
          t.nonce \notin Nonces(pool[j]) /\ pool' = [pool EXCEPT ![j] = @ \cup {t}]
    BY <2>1
  <2>3. j # Primary
    BY <2>2 DEF Pools, Shared, Nonces
  <2>4. pool'[Primary] = pool[Primary] /\ chain' = chain
    BY <1>2, <1>4, <2>2, <2>3 DEF Gossip
  <2> QED
    BY <1>1, <2>4 DEF NextNonce, Nonces
<1>5. CASE UNCHANGED node
  BY <1>1, <1>5 DEF node, NextNonce, Nonces
<1> QED
  BY <1>3, <1>4, <1>5

\* The end of an attempt, or of a call that fails after a payment was taken.
LEMMA CallEnds ==
  ASSUME Good, Good', ContextTypeOK, Fail(landed) \/ Retry
  PROVE  \/ place' = "take" /\ landed' = landed
         \/ place' = "idle" /\ landed
<1>1. unsent = 0 /\ unsent' = 0
  BY DEF Good
<1>2. Fail(landed) => place' = "idle" /\ landed
  BY <1>1 DEF Fail, Return
<1> QED
  BY <1>2 DEF Retry

LEMMA BehindInductive ==
  ASSUME Static, Static', Gapless, Gapless', Behind, [ContextNext]_contextVars
  PROVE  Behind'
<1> SUFFICES ASSUME Good'
             PROVE  NextNonce' /\ IndexBehind' /\ GivenBehind' /\ AccountsUnique'
  BY DEF Behind, AccountsUnique
<1> DEFINE Known(m) == Len(chain')..(m - 1) \subseteq Nonces(pool'[Primary])
<1>1. Good /\ losses = 0 /\ Pools /\ Grown /\ Pools'
  BY GoodBefore
<1>2. NextNonce /\ IndexBehind /\ GivenBehind /\ AccountsUnique
  BY <1>1 DEF Behind
<1>3. \A m \in Int : Covered(m) => Known(m)
  BY <1>1, StillCovered DEF Covered, Nonces
<1>4. /\ index \in Nat /\ index' \in Nat /\ Len(chain) \in Nat
      /\ \A g \in given : g[1] \in Nat /\ g[2] \in Nat
  <2>1. index \in Nat /\ Len(chain) \in Nat
    BY DEF Static, ContextTypeOK
  <2>2. index' \in Nat
    BY DEF Static, ContextTypeOK
  <2>3. given \subseteq (1..MaxContexts) \X Accounts
    BY DEF Static, ContextTypeOK
  <2> QED
    BY <2>1, <2>2, <2>3 DEF Accounts
<1> HIDE DEF Known
<1>5. CASE Boot
  <2>1. place = "off" /\ place' = "boot" /\ given' = given
    BY <1>5 DEF Boot
  <2>2. \A g \in given : Known(g[2])
    BY <1>2, <1>3, <1>4, <2>1 DEF GivenBehind
  <2>3. GivenBehind'
    BY <2>1, <2>2 DEF GivenBehind, Covered, Nonces, Known, Creating
  <2> QED
    BY <1>2, <2>1, <2>3 DEF NextNonce, IndexBehind, AccountsUnique, Creating
<1>6. CASE Seed
  <2>1. PICK S \in SUBSET Nodes :
          index' = MaxPending(S) /\ blind' = (blind \/ Primary \notin S)
    BY <1>6 DEF Seed, SeedIndex
  <2>2. place = "boot" /\ place' = "idle" /\ given' = given /\ UNCHANGED <<chain, pool>>
    BY <1>6 DEF Seed, node, tallies
  <2>3. Primary \in S
    BY <2>1 DEF Good
  <2>4. /\ Covered(index') /\ index' >= Len(chain)
        /\ index' \notin Nonces(pool[Primary])
    BY <1>1, <2>1, <2>3, SuggestedNonce
  <2>5. ASSUME NEW g \in given
        PROVE  g[2] <= index'
    <3>1. Covered(g[2])
      BY <1>2, <2>2 DEF GivenBehind
    <3>2. index' \notin Len(chain)..(g[2] - 1)
      BY <2>4, <3>1 DEF Covered
    <3> QED
      BY <1>4, <2>4, <3>2
  <2>6. GivenBehind'
    BY <2>2, <2>5 DEF GivenBehind, Creating
  <2>7. Known(index')
    BY <1>3, <1>4, <2>4
  <2>8. IndexBehind'
    BY <2>2, <2>7 DEF IndexBehind, Covered, Nonces, Known, Creating
  <2> QED
    BY <1>2, <2>2, <2>6, <2>8 DEF NextNonce, AccountsUnique
<1>7. CASE Exit
  <2>1. place \in {"boot", "idle"} /\ place' = "off" /\ given' = given
    BY <1>7 DEF Exit, tallies
  <2>2. ASSUME NEW g \in given
        PROVE  Known(g[2])
    <3>1. CASE place = "boot"
      BY <1>2, <1>3, <1>4, <3>1 DEF GivenBehind
    <3>2. CASE place = "idle"
      <4>1. Covered(index) /\ g[2] <= index
        BY <1>2, <3>2 DEF GivenBehind, IndexBehind
      <4>2. Covered(g[2])
        BY <1>4, <4>1 DEF Covered
      <4> QED
        BY <1>3, <1>4, <4>2
    <3> QED
      BY <2>1, <3>1, <3>2
  <2>3. GivenBehind'
    BY <2>1, <2>2 DEF GivenBehind, Covered, Nonces, Known, Creating
  <2> QED
    BY <1>2, <2>1, <2>3 DEF NextNonce, IndexBehind, AccountsUnique, Creating
<1>8. CASE Poke \/ Mine \/ Gossip \/ UNCHANGED contextVars
  <2>1. place' = place /\ index' = index /\ tx' = tx /\ landed' = landed /\ given' = given
    BY <1>8 DEF Poke, Mine, Gossip, contextVars, call, tallies, seen
  <2>2. Covered(index) => Known(index)
    BY <1>3, <1>4
  <2>3. Covered(index - 1) => Known(index - 1)
    BY <1>3, <1>4
  <2>4. \A g \in given : Covered(g[2]) => Known(g[2])
    BY <1>3, <1>4
  <2>5. IndexBehind'
    BY <1>2, <2>1, <2>2, <2>3 DEF IndexBehind, Covered, Nonces, Known, Creating
  <2>6. GivenBehind'
    BY <1>2, <2>1, <2>4 DEF GivenBehind, Covered, Nonces, Known, Creating
  <2>7. NextNonce'
    <3>1. CASE place = "send"
      <4>1. Mine \/ Gossip \/ UNCHANGED node
        BY <1>8, <3>1 DEF Poke, contextVars
      <4> QED
        BY <1>1, <1>2, <2>1, <3>1, <4>1, NextNonceKept
    <3> QED
      BY <2>1, <3>1 DEF NextNonce
  <2> QED
    BY <1>2, <2>1, <2>5, <2>6, <2>7 DEF AccountsUnique
<1>9. CASE Create
  <2>1. /\ place = "idle" /\ place' = "take" /\ index' = index + 1
        /\ given' = given /\ landed' = landed
    BY <1>9 DEF Create, seen
  <2>2. ~landed
    BY <2>1 DEF Static, CallOK, Creating
  <2>3. Known(index) /\ index' - 1 = index
    BY <1>2, <1>3, <1>4, <2>1 DEF IndexBehind
  <2>4. Known(index' - 1)
    BY <2>3
  <2>5. IndexBehind'
    BY <2>1, <2>2, <2>4 DEF IndexBehind, Covered, Nonces, Known, Creating
  <2>6. \A g \in given : g[2] < index'
    BY <1>2, <1>4, <2>1 DEF GivenBehind
  <2>7. GivenBehind'
    BY <2>1, <2>6 DEF GivenBehind, Creating
  <2> QED
    BY <1>2, <2>1, <2>5, <2>7 DEF NextNonce, AccountsUnique
<1>10. CASE Take
  <2>1. PICK S \in SUBSET Nodes :
          /\ tx' = Signed(MaxPending(S), account, attempt)
          /\ blind' = (blind \/ Primary \notin S)
    BY <1>10 DEF Take, Refreshed
  <2>2. /\ place = "take" /\ place' = "send" /\ index' = index /\ landed' = landed
        /\ given' = given /\ UNCHANGED <<chain, pool>>
    BY <1>10 DEF Take, node, tallies
  <2>3. tx'.nonce = MaxPending(S) /\ Primary \in S
    BY <2>1 DEF Signed, Good
  <2>4. NextNonce'
    BY <1>1, <2>2, <2>3, SuggestedNonce DEF NextNonce, Nonces
  <2>5. IndexBehind' /\ GivenBehind'
    BY <1>2, <2>2 DEF IndexBehind, GivenBehind, Covered, Nonces, Creating
  <2> QED
    BY <1>2, <2>2, <2>4, <2>5 DEF AccountsUnique
\* A payment that the primary takes covers the index.
<1>11. ASSUME place = "send", Put(tx), UNCHANGED <<chain, index>>
       PROVE  Known(index)
  <2>1. tx \in Tx /\ tx.nonce \in Nat /\ Covered(tx.nonce)
    BY <1>1, <1>11 DEF Static, ContextTypeOK, Tx, Gapless
  <2>2. Nonces(pool'[Primary]) = Nonces(pool[Primary]) \cup {tx.nonce}
    BY <1>1, <1>11, <2>1, PutPools
  <2>3. Covered(index - 1) /\ tx.nonce >= Len(chain)
        /\ tx.nonce \notin Nonces(pool[Primary])
    BY <1>2, <1>11 DEF IndexBehind, NextNonce, Creating
  <2>4. tx.nonce >= index - 1
    <3>1. tx.nonce \notin Len(chain)..((index - 1) - 1)
      BY <2>3 DEF Covered
    <3> QED
      BY <1>4, <2>1, <2>3, <3>1
  <2>5. ASSUME NEW n \in Len(chain)..(index - 1)
        PROVE  n \in Nonces(pool'[Primary])
    <3>1. n \in Len(chain)..(tx.nonce - 1) \/ n = tx.nonce
      BY <1>4, <2>1, <2>4
    <3> QED
      BY <2>1, <2>2, <3>1 DEF Covered
  <2> QED
    BY <1>11, <2>5 DEF Known
<1>12. CASE Accepted
  <2>1. /\ place = "send" /\ place' = "mining" /\ Put(tx) /\ index' = index
        /\ given' = given /\ UNCHANGED chain
    BY <1>12 DEF Accepted, tallies
  <2>2. Known(index)
    BY <1>11, <2>1
  <2>3. Covered(index - 1) => Known(index - 1)
    BY <1>3, <1>4
  <2>4. IndexBehind'
    BY <1>2, <2>1, <2>2, <2>3 DEF IndexBehind, Covered, Nonces, Known, Creating
  <2>5. GivenBehind'
    BY <1>2, <2>1 DEF GivenBehind, Creating
  <2> QED
    BY <1>2, <2>1, <2>4, <2>5 DEF NextNonce, AccountsUnique
<1>13. CASE TakeFails \/ Refused \/ Timeout \/ (SendFails /\ Fail(landed))
  <2>1. /\ place \in Creating /\ index' = index /\ given' = given
        /\ Fail(landed) \/ Retry
    BY <1>13 DEF TakeFails, Refused, Timeout, SendFails, tallies, Creating
  <2>2. \/ place' = "take" /\ landed' = landed
        \/ place' = "idle" /\ landed
    BY <1>1, <2>1, CallEnds DEF Static
  <2>3. Covered(index) => Known(index)
    BY <1>3, <1>4
  <2>4. Covered(index - 1) => Known(index - 1)
    BY <1>3, <1>4
  <2>5. IndexBehind'
    BY <1>2, <2>1, <2>2, <2>3, <2>4 DEF IndexBehind, Covered, Nonces, Known, Creating
  <2>6. \A g \in given : g[2] < index /\ g[2] <= index
    BY <1>2, <1>4, <2>1 DEF GivenBehind
  <2>7. GivenBehind'
    BY <2>1, <2>2, <2>6 DEF GivenBehind, Creating
  <2> QED
    BY <1>2, <2>1, <2>2, <2>5, <2>7 DEF NextNonce, AccountsUnique
<1>14. CASE SendFails /\ ~Fail(landed)
  <2>1. /\ place = "send" /\ place' = "idle" /\ Put(tx) /\ index' = index
        /\ given' = given /\ UNCHANGED chain
    BY <1>14 DEF SendFails, Fail, Return, tallies
  <2>2. Known(index)
    BY <1>11, <2>1
  <2>3. IndexBehind'
    BY <2>1, <2>2 DEF IndexBehind, Covered, Nonces, Known, Creating
  <2>4. \A g \in given : g[2] <= index
    BY <1>2, <1>4, <2>1 DEF GivenBehind, Creating
  <2>5. GivenBehind'
    BY <2>1, <2>4 DEF GivenBehind, Creating
  <2> QED
    BY <1>2, <2>1, <2>3, <2>5 DEF NextNonce, AccountsUnique
<1>15. CASE Confirm
  <2>1. /\ place = "mining" /\ place' = "idle" /\ index' = index
        /\ given' = given \cup {<<contexts, account>>}
    BY <1>15 DEF Confirm, Return
  <2>2. account = index /\ landed
    BY <2>1 DEF Static, CallOK, Creating
  <2>3. Known(index)
    BY <1>2, <1>3, <1>4, <2>1, <2>2 DEF IndexBehind, Creating
  <2>4. IndexBehind'
    BY <2>1, <2>3 DEF IndexBehind, Covered, Nonces, Known, Creating
  <2>5. \A g \in given : g[2] < index
    BY <1>2, <2>1 DEF GivenBehind, Creating
  <2>6. GivenBehind'
    <3>1. \A g \in given' : g[2] <= index
      BY <1>4, <2>1, <2>2, <2>5
    <3> QED
      BY <2>1, <3>1 DEF GivenBehind, Creating
  <2>7. AccountsUnique'
    <3> SUFFICES ASSUME NEW g \in given', NEW h \in given', g[2] = h[2]
                 PROVE  g[1] = h[1]
      BY DEF AccountsUnique
    <3>1. CASE g \in given /\ h \in given
      BY <1>2, <3>1 DEF AccountsUnique
    <3>2. CASE g = <<contexts, account>> /\ h = <<contexts, account>>
      BY <3>2
    <3>3. ASSUME NEW x \in given
          PROVE  x[2] # account
      BY <1>4, <2>2, <2>5
    <3> QED
      BY <2>1, <3>1, <3>2, <3>3
  <2> QED
    BY <2>1, <2>4, <2>6, <2>7 DEF NextNonce
<1>16. CASE Lose
  BY <1>1, <1>16 DEF Lose, Good
<1> QED
  BY <1>5, <1>6, <1>7, <1>8, <1>9, <1>10, <1>12, <1>13, <1>14, <1>15, <1>16
     DEF ContextNext, Caller

LEMMA BehindInitially == ContextInit => Behind
BY DEF ContextInit, Behind, NextNonce, IndexBehind, GivenBehind, AccountsUnique, Creating

(***************************************************************************)
(* Contexts that share a chain give their tests different accounts, as     *)
(* long as no call fails before it has sent a payment, the primary answers *)
(* and no pool loses a transaction.                                        *)
(***************************************************************************)
THEOREM UniqueOnGoodDays == ContextSpec => []UniqueWhenSeeded
<1> DEFINE IInv == Static /\ Gapless /\ Behind
<1>1. ContextInit => IInv
  BY StaticInitially, GaplessInitially, BehindInitially
<1>2. IInv /\ [ContextNext]_contextVars => IInv'
  BY StaticInductive, GaplessInductive, BehindInductive
<1>3. IInv => UniqueWhenSeeded
  BY DEF Behind, Good, UniqueWhenSeeded
<1> QED
  BY <1>1, <1>2, <1>3, PTL DEF ContextSpec

-------------------------------------------------------------------------------
(***************************************************************************)
(* Accounts are paid once.  A claim is a place on the chain that an        *)
(* account's payment has or, out of some node's pool, may still get; there *)
(* is one at most for every call and every wait that timed out, and one    *)
(* call or wait is kept for a payment that is yet to be sent.              *)
(***************************************************************************)
Claims(a) ==
  {n \in 1..MaxNonce :
     \/ n \in DOMAIN chain /\ chain[n].to = a
     \/ \E i \in Nodes : \E t \in pool[i] : t.nonce + 1 = n /\ t.to = a}

Sending(a) == IF account = a /\ place \in {"take", "send"} THEN 1 ELSE 0

Ledger ==
  /\ place \in {"send", "mining"} => tx.to = account
  /\ \A g \in given : Payments(g[2]) # {}
  /\ \A a \in Accounts : Cardinality(Claims(a)) + Sending(a) <= asked[a] + late[a]

LEMMA ClaimsCount ==
  ASSUME NEW a
  PROVE  /\ IsFiniteSet(Claims(a)) /\ Cardinality(Claims(a)) \in Nat
         /\ IsFiniteSet(Claims(a)') /\ Cardinality(Claims(a)') \in Nat
<1>1. IsFiniteSet(1..MaxNonce)
  BY ContextAssumption, FS_Interval
<1>2. Claims(a) \subseteq 1..MaxNonce /\ Claims(a)' \subseteq 1..MaxNonce
  BY DEF Claims
<1> QED BY <1>1, <1>2, FS_Subset, FS_CardinalityType

\* Claims are only lost, but for that of a transaction that a node takes.
Claimed(t) ==
  \A a \in Accounts :
    Cardinality(Claims(a)') <= Cardinality(Claims(a)) + (IF t.to = a THEN 1 ELSE 0)

LEMMA PoolsClaim ==
  ASSUME Static, NEW t, chain' = chain,
         \A i \in Nodes : \A u \in pool'[i] : u = t \/ \E j \in Nodes : u \in pool[j]
  PROVE  Claimed(t)
<1> SUFFICES ASSUME NEW a \in Accounts
             PROVE  Cardinality(Claims(a)') <= Cardinality(Claims(a)) + (IF t.to = a THEN 1 ELSE 0)
  BY DEF Claimed
<1>1. Claims(a)' \subseteq Claims(a) \cup (IF t.to = a THEN {t.nonce + 1} ELSE {})
  BY DEF Claims
<1>2. IsFiniteSet(Claims(a)) /\ Cardinality(Claims(a)) \in Nat /\ Cardinality(Claims(a)') \in Nat
  BY ClaimsCount
<1>3. CASE t.to = a
  <2>1. IsFiniteSet(Claims(a) \cup {t.nonce + 1})
        /\ Cardinality(Claims(a) \cup {t.nonce + 1}) \in {Cardinality(Claims(a)), Cardinality(Claims(a)) + 1}
    BY <1>2, FS_AddElement
  <2>2. Cardinality(Claims(a)') <= Cardinality(Claims(a) \cup {t.nonce + 1})
    BY <1>1, <1>3, <2>1, FS_Subset
  <2> QED BY <1>2, <1>3, <2>1, <2>2
<1>4. CASE t.to # a
  <2>1. Cardinality(Claims(a)') <= Cardinality(Claims(a))
    BY <1>1, <1>2, <1>4, FS_Subset
  <2> QED BY <1>2, <1>4, <2>1
<1> QED BY <1>3, <1>4

LEMMA MineClaims ==
  ASSUME Static, Mine
  PROVE  /\ \A a \in Accounts : Cardinality(Claims(a)') <= Cardinality(Claims(a))
         /\ \A a : Payments(a) \subseteq Payments(a)'
<1>1. PICK i \in Nodes : \E t \in pool[i] : t.nonce = Len(chain) /\ chain' = Append(chain, t)
  BY DEF Mine
<1>2. PICK t \in pool[i] : t.nonce = Len(chain) /\ chain' = Append(chain, t)
  BY <1>1
<1>3. chain \in Seq(Tx) /\ t \in Tx /\ Len(chain) \in Nat
  BY DEF Static, ContextTypeOK
<1>4. /\ DOMAIN chain' = 1..(Len(chain) + 1) /\ DOMAIN chain = 1..Len(chain)
      /\ \A n \in DOMAIN chain : chain'[n] = chain[n]
      /\ chain'[Len(chain) + 1] = t
  BY <1>2, <1>3
<1>5. \A j \in Nodes : pool'[j] \subseteq pool[j]
  BY DEF Mine
<1>6. ASSUME NEW a \in Accounts PROVE Cardinality(Claims(a)') <= Cardinality(Claims(a))
  <2>1. Claims(a)' \subseteq Claims(a)
    <3> SUFFICES ASSUME NEW n \in Claims(a)' PROVE n \in Claims(a)
      OBVIOUS
    <3>1. n \in 1..MaxNonce
      BY DEF Claims
    <3>2. CASE n \in DOMAIN chain' /\ chain'[n].to = a
      <4>1. CASE n \in DOMAIN chain
        BY <1>4, <3>1, <3>2, <4>1 DEF Claims
      <4>2. CASE n = Len(chain) + 1
        BY <1>2, <1>4, <3>1, <3>2, <4>2 DEF Claims
      <4> QED BY <1>3, <1>4, <3>2, <4>1, <4>2
    <3>3. CASE \E j \in Nodes : \E u \in pool'[j] : u.nonce + 1 = n /\ u.to = a
      BY <1>5, <3>1, <3>3 DEF Claims
    <3> QED BY <3>2, <3>3 DEF Claims
  <2> QED BY <2>1, ClaimsCount, FS_Subset
<1>7. \A a : Payments(a) \subseteq Payments(a)'
  BY <1>3, <1>4 DEF Payments
<1> QED BY <1>6, <1>7

LEMMA LedgerInductive ==
  ASSUME Static, Static', Ledger, [ContextNext]_contextVars
  PROVE  Ledger'
<1>0. /\ \A a \in Accounts : Cardinality(Claims(a)) \in Nat /\ Cardinality(Claims(a)') \in Nat
      /\ \A a \in Accounts : asked[a] \in Nat /\ late[a] \in Nat
      /\ \A a \in Accounts : Sending(a) \in {0, 1} /\ Sending(a)' \in {0, 1}
      /\ \A a \in Accounts : Cardinality(Claims(a)) + Sending(a) <= asked[a] + late[a]
  BY ClaimsCount DEF Static, ContextTypeOK, Sending, Ledger
<1>1. ASSUME UNCHANGED node
      PROVE  /\ \A a \in Accounts : Cardinality(Claims(a)') <= Cardinality(Claims(a))
             /\ \A a : Payments(a)' = Payments(a)
  <2>1. \A a : Claims(a)' = Claims(a)
    BY <1>1 DEF node, Claims
  <2> QED BY <1>0, <1>1, <2>1 DEF node, Payments
<1>2. ASSUME NEW t, Put(t), UNCHANGED chain
      PROVE  Claimed(t) /\ \A a : Payments(a)' = Payments(a)
  <2>1. pool \in [Nodes -> SUBSET Tx]
    BY DEF Static, ContextTypeOK
  <2>2. \A i \in Nodes : \A u \in pool'[i] : u = t \/ u \in pool[i]
    BY <1>2, <2>1 DEF Put
  <2>3. Claimed(t)
    BY <1>2, <2>2, PoolsClaim
  <2> QED BY <1>2, <2>3 DEF Payments
<1>3. ASSUME DummyTaken \/ DummyGivenUp
      PROVE  /\ \A a \in Accounts : Cardinality(Claims(a)') <= Cardinality(Claims(a))
             /\ \A a : Payments(a)' = Payments(a)
  <2>1. CASE DummyTaken
    <3> DEFINE d == Signed(PendingNonce(Primary), Funder, 0)
    <3>1. Put(d) /\ UNCHANGED chain
      BY <2>1 DEF DummyTaken
    <3>2. Claimed(d) /\ \A a : Payments(a)' = Payments(a)
      BY <1>2, <3>1
    <3>3. \A a \in Accounts : d.to # a
      BY DEF Signed, Accounts, Funder
    <3> HIDE DEF d
    <3> QED BY <1>0, <3>2, <3>3 DEF Claimed
  <2>2. CASE DummyGivenUp
    BY <1>1, <2>2 DEF DummyGivenUp
  <2> QED BY <1>3, <2>1, <2>2
\* Nobody is paid by a step that sends no payment.
<1>4. ASSUME \A a \in Accounts : Cardinality(Claims(a)') <= Cardinality(Claims(a)),
             \A a \in Accounts :
               asked'[a] + late'[a] - Sending(a)' >= asked[a] + late[a] - Sending(a)
      PROVE  \A a \in Accounts : Cardinality(Claims(a)') + Sending(a)' <= asked'[a] + late'[a]
  <2>1. \A a \in Accounts : asked'[a] \in Nat /\ late'[a] \in Nat
    BY DEF Static, ContextTypeOK
  <2> QED BY <1>0, <1>4, <2>1
<1>5. CASE Boot \/ Poke
  <2>1. /\ \A a \in Accounts : Cardinality(Claims(a)') <= Cardinality(Claims(a))
        /\ \A a : Payments(a)' = Payments(a)
    BY <1>3, <1>5 DEF Boot, Poke
  <2>2. /\ UNCHANGED <<account, tx, asked, late, given>>
        /\ place' = place \/ (place = "off" /\ place' = "boot")
    BY <1>5 DEF Boot, Poke, call, seen, tallies
  <2>3. \A a \in Accounts :
          asked'[a] + late'[a] - Sending(a)' >= asked[a] + late[a] - Sending(a)
    BY <1>0, <2>2 DEF Sending
  <2> QED BY <1>4, <2>1, <2>2, <2>3 DEF Ledger
<1>6. CASE Seed \/ Exit \/ UNCHANGED contextVars
  <2>1. /\ UNCHANGED node /\ UNCHANGED <<account, tx, asked, late, given>>
        /\ place' = place \/ (place' \notin {"take", "send", "mining"} /\ place \notin {"take", "send", "mining"})
    BY <1>6 DEF Seed, Exit, contextVars, call, seen, tallies
  <2>2. \A a \in Accounts :
          asked'[a] + late'[a] - Sending(a)' >= asked[a] + late[a] - Sending(a)
    BY <1>0, <2>1 DEF Sending
  <2> QED BY <1>1, <1>4, <2>1, <2>2 DEF Ledger
<1>7. CASE Create
  <2>1. /\ UNCHANGED node /\ UNCHANGED <<tx, late, given>> /\ place = "idle" /\ place' = "take"
        /\ account' = index + 1 /\ asked' = [asked EXCEPT ![index + 1] = @ + 1]
    BY <1>7 DEF Create, seen
  <2>2. \A a \in Accounts :
          asked'[a] + late'[a] - Sending(a)' >= asked[a] + late[a] - Sending(a)
    <3> SUFFICES ASSUME NEW a \in Accounts
                 PROVE  asked'[a] + late'[a] - Sending(a)' >= asked[a] + late[a] - Sending(a)
      OBVIOUS
    <3>1. asked \in [Accounts -> Nat]
      BY DEF Static, ContextTypeOK
    <3>2. Sending(a) = 0 /\ Sending(a)' = IF a = index + 1 THEN 1 ELSE 0
      BY <2>1 DEF Sending
    <3>3. asked'[a] = asked[a] + (IF a = index + 1 THEN 1 ELSE 0) /\ late'[a] = late[a]
      BY <1>0, <2>1, <3>1
    <3> QED BY <1>0, <3>2, <3>3
  <2> QED BY <1>1, <1>4, <2>1, <2>2 DEF Ledger
<1>8. CASE Take
  <2>1. /\ UNCHANGED node /\ UNCHANGED <<account, asked, late, given>>
        /\ place = "take" /\ place' = "send" /\ \E n : tx' = Signed(n, account, attempt)
    BY <1>8 DEF Take, tallies
  <2>2. tx'.to = account
    BY <2>1 DEF Signed
  <2>3. \A a \in Accounts :
          asked'[a] + late'[a] - Sending(a)' >= asked[a] + late[a] - Sending(a)
    BY <1>0, <2>1 DEF Sending
  <2> QED BY <1>1, <1>4, <2>1, <2>2, <2>3 DEF Ledger
\* The attempt ends: there is another one, or the call is over.
<1>9. ASSUME Retry \/ Fail(landed) \/ Fail(TRUE)
      PROVE  \/ place' = "take" /\ account' = account
             \/ place' = "idle"
  BY <1>9 DEF Retry, Fail, Return
<1>10. CASE TakeFails \/ Refused
  <2>1. /\ UNCHANGED node /\ UNCHANGED <<asked, late, given>>
        /\ place \in {"take", "send"} /\ Retry
    BY <1>10 DEF TakeFails, Refused, tallies
  <2>2. \A a \in Accounts :
          asked'[a] + late'[a] - Sending(a)' >= asked[a] + late[a] - Sending(a)
    BY <1>0, <1>9, <2>1 DEF Sending
  <2> QED BY <1>1, <1>4, <1>9, <2>1, <2>2 DEF Ledger
<1>11. CASE Timeout
  <2>1. /\ UNCHANGED node /\ UNCHANGED <<asked, given>>
        /\ place = "mining" /\ Retry /\ late' = [late EXCEPT ![account] = @ + 1]
    BY <1>11 DEF Timeout, tallies
  <2>2. \A a \in Accounts :
          asked'[a] + late'[a] - Sending(a)' >= asked[a] + late[a] - Sending(a)
    <3> SUFFICES ASSUME NEW a \in Accounts
                 PROVE  asked'[a] + late'[a] - Sending(a)' >= asked[a] + late[a] - Sending(a)
      OBVIOUS
    <3>1. late \in [Accounts -> Nat]
      BY DEF Static, ContextTypeOK
    <3>2. Sending(a) = 0 /\ (Sending(a)' = 0 \/ (Sending(a)' = 1 /\ a = account))
      BY <1>9, <2>1 DEF Sending
    <3>3. late'[a] = late[a] + (IF a = account THEN 1 ELSE 0) /\ asked'[a] = asked[a]
      BY <1>0, <2>1, <3>1
    <3> QED BY <1>0, <3>2, <3>3
  <2> QED BY <1>1, <1>4, <1>9, <2>1, <2>2 DEF Ledger
<1>12. CASE Confirm
  <2>1. /\ UNCHANGED node /\ UNCHANGED <<asked, late>> /\ place = "mining" /\ place' = "idle"
        /\ tx \in Mined /\ given' = given \cup {<<contexts, account>>}
    BY <1>12 DEF Confirm, Return
  <2>2. Payments(account) # {}
    BY <2>1 DEF Mined, Payments, Ledger
  <2>3. \A g \in given' : Payments(g[2])' # {}
    BY <1>1, <2>1, <2>2 DEF Ledger
  <2>4. \A a \in Accounts :
          asked'[a] + late'[a] - Sending(a)' >= asked[a] + late[a] - Sending(a)
    BY <1>0, <2>1 DEF Sending
  <2> QED BY <1>1, <1>4, <2>1, <2>3, <2>4 DEF Ledger
\* The claim of a payment that a node takes was kept for it.
<1>13. CASE Accepted \/ (SendFails /\ ~UNCHANGED node)
  <2>1. /\ Put(tx) /\ UNCHANGED chain /\ UNCHANGED <<asked, late, given>> /\ place = "send"
        /\ \/ place' = "mining" /\ account' = account /\ tx' = tx
           \/ place' = "idle"
    BY <1>9, <1>13 DEF Accepted, SendFails, call, tallies, Fail, Return
  <2>2. Claimed(tx) /\ (\A a : Payments(a)' = Payments(a)) /\ tx.to = account
    BY <1>2, <2>1 DEF Ledger
  <2>3. \A a \in Accounts : Cardinality(Claims(a)') <= Cardinality(Claims(a)) + Sending(a)
    BY <2>1, <2>2 DEF Claimed, Sending
  <2>4. \A a \in Accounts : Sending(a)' = 0
    BY <2>1 DEF Sending
  <2>5. \A a \in Accounts : Cardinality(Claims(a)') + Sending(a)' <= asked'[a] + late'[a]
    BY <1>0, <2>1, <2>3, <2>4
  <2> QED BY <2>1, <2>2, <2>5 DEF Ledger
<1>14. CASE SendFails /\ UNCHANGED node
  <2>1. UNCHANGED <<asked, late, given>> /\ place = "send" /\ place' = "idle"
    BY <1>14 DEF SendFails, tallies, Fail, Return
  <2>2. \A a \in Accounts :
          asked'[a] + late'[a] - Sending(a)' >= asked[a] + late[a] - Sending(a)
    BY <1>0, <2>1 DEF Sending
  <2> QED BY <1>1, <1>4, <1>14, <2>1, <2>2 DEF Ledger
<1>15. CASE Mine \/ Gossip \/ Lose
  <2>1. UNCHANGED <<place, account, tx, asked, late, given>>
    BY <1>15 DEF Mine, Gossip, Lose, call, tallies, seen
  <2>2. /\ \A a \in Accounts : Cardinality(Claims(a)') <= Cardinality(Claims(a))
        /\ \A a : Payments(a) \subseteq Payments(a)'
    <3>1. CASE Mine
      BY <3>1, MineClaims
    <3>2. CASE Gossip \/ Lose
      <4> DEFINE d == Signed(0, Funder, 0)
      <4>1. chain' = chain /\ \A i \in Nodes : \A u \in pool'[i] : \E j \in Nodes : u \in pool[j]
        <5>1. pool \in [Nodes -> SUBSET Tx]
          BY DEF Static, ContextTypeOK
        <5>2. CASE Gossip
          <6>1. PICK i \in Nodes, j \in Nodes : \E t \in pool[i] : pool' = [pool EXCEPT ![j] = @ \cup {t}]
            BY <5>2 DEF Gossip
          <6>2. PICK t \in pool[i] : pool' = [pool EXCEPT ![j] = @ \cup {t}]
            BY <6>1
          <6>3. \A k \in Nodes : \A u \in pool'[k] : u \in pool[k] \/ u \in pool[i]
            BY <5>1, <6>2
          <6> QED BY <5>2, <6>3 DEF Gossip
        <5>3. CASE Lose
          <6>1. PICK i \in Nodes : \E t \in pool[i] : pool' = [pool EXCEPT ![i] = @ \ {t}]
            BY <5>3 DEF Lose
          <6>2. PICK t \in pool[i] : pool' = [pool EXCEPT ![i] = @ \ {t}]
            BY <6>1
          <6>3. \A k \in Nodes : \A u \in pool'[k] : u \in pool[k]
            BY <5>1, <6>2
          <6> QED BY <5>3, <6>3 DEF Lose
        <5> QED BY <3>2, <5>2, <5>3
      <4>2. Claimed(d)
        BY <4>1, PoolsClaim
      <4>3. \A a \in Accounts : d.to # a
        BY DEF Signed, Accounts, Funder
      <4> HIDE DEF d
      <4> QED BY <1>0, <4>1, <4>2, <4>3 DEF Claimed, Payments
    <3> QED BY <1>15, <3>1, <3>2
  <2>3. \A a \in Accounts :
          asked'[a] + late'[a] - Sending(a)' >= asked[a] + late[a] - Sending(a)
    BY <1>0, <2>1 DEF Sending
  <2> QED BY <1>4, <2>1, <2>2, <2>3 DEF Ledger
<1> QED
  BY <1>5, <1>6, <1>7, <1>8, <1>10, <1>11, <1>12, <1>13, <1>14, <1>15 DEF ContextNext, Caller

(***************************************************************************)
(* An account that a test was given has been paid for, and again only by   *)
(* another call or after a wait for the payment timed out: what            *)
(* CreateAndFundAccount retries at once never hides a payment.             *)
(***************************************************************************)
THEOREM PaymentsAccounted == ContextSpec => []PaidOnce
<1>1. ASSUME ContextInit PROVE Ledger
  <2>1. \A a : Claims(a) = {}
    BY <1>1 DEF ContextInit, Claims
  <2>2. \A a \in Accounts : Sending(a) = 0 /\ asked[a] = 0 /\ late[a] = 0
    BY <1>1 DEF ContextInit, Sending
  <2>3. \A a \in Accounts : Cardinality(Claims(a)) = 0
    BY <2>1, FS_EmptySet
  <2> QED BY <1>1, <2>2, <2>3 DEF ContextInit, Ledger
<1>2. Static /\ Ledger /\ [ContextNext]_contextVars => Ledger'
  BY StaticInductive, LedgerInductive
<1>3. ASSUME Static, Ledger PROVE PaidOnce
  <2> SUFFICES ASSUME NEW a \in Accounts
               PROVE  /\ (\E c \in 1..MaxContexts : <<c, a>> \in given)
                           => Cardinality(Payments(a)) >= 1
                      /\ Cardinality(Payments(a)) <= asked[a] + late[a]
    BY DEF PaidOnce
  <2>1. Payments(a) \subseteq Claims(a)
    BY <1>3, ContextAssumption DEF Payments, Claims, Static, ContextTypeOK, InOrder
  <2>2. /\ IsFiniteSet(Claims(a)) /\ IsFiniteSet(Payments(a))
        /\ Cardinality(Payments(a)) <= Cardinality(Claims(a))
        /\ Cardinality(Claims(a)) \in Nat /\ Cardinality(Payments(a)) \in Nat
    BY <2>1, ClaimsCount, FS_Subset, FS_CardinalityType
  <2>3. Cardinality(Payments(a)) = 0 => Payments(a) = {}
    BY <2>2, FS_EmptySet
  <2>4. /\ Cardinality(Claims(a)) + Sending(a) <= asked[a] + late[a] /\ Sending(a) \in {0, 1}
        /\ asked[a] \in Nat /\ late[a] \in Nat
    BY <1>3 DEF Ledger, Sending, Static, ContextTypeOK
  <2>5. ASSUME NEW c \in 1..MaxContexts, <<c, a>> \in given PROVE Payments(a) # {}
    BY <1>3, <2>5 DEF Ledger
  <2>6. Cardinality(Payments(a)) <= asked[a] + late[a]
    BY <2>2, <2>4
  <2>7. Payments(a) # {} => Cardinality(Payments(a)) >= 1
    <3>1. Cardinality(Payments(a)) # 0 => Cardinality(Payments(a)) >= 1
      BY <2>2
    <3> QED BY <2>3, <3>1
  <2> QED BY <2>5, <2>6, <2>7
<1>4. ContextInit => Static
  BY StaticInitially
<1>5. Static /\ [ContextNext]_contextVars => Static'
  BY StaticInductive
<1> QED
  BY <1>1, <1>2, <1>3, <1>4, <1>5, PTL DEF ContextSpec

===============================================================================
