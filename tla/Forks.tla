---------------------------------- MODULE Forks ----------------------------------
(* Fork schedules, and the checks that a node shows what its forks bring. A   *)
(* run of the fork-capability suite starts a network in which the fork under  *)
(* test is not active yet (phase pre), runs every check on it, and does the   *)
(* same with the fork active (phase post). The fork and smoke tests ask a     *)
(* running network once, and in an upgrade network forks come while they ask. *)
(*                                                                            *)
(* A fork brings surfaces: fields, answers, precompiles, contracts. The node  *)
(* is faithful, or one surface is missing from it or is there too early. A    *)
(* check is the list of the calls it makes, each with the answers it wants.   *)
EXTENDS Integers, FiniteSets, SequencesExt, TLC

CONSTANTS
  Networks,    \* the networks: how they are started, and what is run on them
  MaxTime      \* the last moment of an upgrade network

VARIABLES
  net,      \* the network: how it was started, what is run, the node's flaw
  now,      \* the time of the latest block
  phase,    \* of the run: start, pre, post; ask for a single question
  checks,   \* the checks still to be made in the phase
  check,    \* the check going on, None if there is none
  asks,     \* the calls it still has to make
  failed,   \* the checks that failed, with their phases
  lost,     \* the checks a call of which was not answered
  crossed,  \* a fork came while the check was going on
  verdict,  \* of the run: going, passed, failed, or the schedule is refused
  faults    \* calls that may still get no answer

vars == <<net, now, phase, checks, check, asks, failed, lost, crossed, verdict, faults>>

None == "none"
ForkOrder == <<"shanghai", "cancun", "fixheader", "posa", "prague", "osaka", "bpo1", "bpo2">>
AllForks == ToSet(ForkOrder)
ForkOrderIndex(fork) == CHOOSE i \in DOMAIN ForkOrder : ForkOrder[i] = fork
Prefix(n) == {ForkOrder[i] : i \in 1..n}

--------------------------------------------------------------------------------
(* Schedules. A fork the genesis does not name and one that is active from the *)
(* first block both have time 0 in the configuration of the tests.             *)

Absent == -1
Upto(n, t) == [f \in AllForks |-> IF f \in Prefix(n) THEN t ELSE Absent]

(* The times set_fork_schedule writes; a time step is the 60 seconds that *)
(* separate two forks of a staggered upgrade.                             *)
Genesis(mode, target, start) ==
  CASE mode = "poa" -> Upto(0, 0)
    [] mode = "posa" -> Upto(4, 0)
    [] mode = "smoke" -> Upto(IF target = "poa" THEN 0 ELSE ForkOrderIndex(target), 0)
    [] mode = "upgrade" /\ target = "allSame" -> Upto(6, start)
    [] mode = "upgrade" /\ target = "allStaggered" ->
         [f \in AllForks |-> IF f \in Prefix(6) THEN start + ForkOrderIndex(f) - 1 ELSE Absent]
    [] mode = "upgrade" /\ target \in AllForks -> Upto(ForkOrderIndex(target), start)

(* The forks that a network may be started with. *)
ForkTargets ==
  ({"posa", "poa"} \X {None}) \cup ({"smoke"} \X (AllForks \cup {"poa"}))
    \cup ({"upgrade"} \X (AllForks \cup {"allSame", "allStaggered"}))

ScheduleOf(genesis) == [f \in AllForks |-> IF genesis[f] > 0 THEN genesis[f] ELSE 0]

(* The positions of the forks with a time. *)
UpgradeForkSchedulePhases(times) == {i \in DOMAIN ForkOrder : times[ForkOrder[i]] > 0}

(* Mutant of ValidateUpgradeForkSchedule: the order is not looked at. *)
ValidateUpgradeForkSchedule_gaps(mode, times) ==
  mode = "upgrade" => UpgradeForkSchedulePhases(times) # {}

(* Some fork has a time, no fork comes before the one in front of it, and    *)
(* none of the first six is missing between two that are there. For the last *)
(* two the gap is not looked for.                                            *)
ValidateUpgradeForkSchedule(mode, times) ==
  mode = "upgrade" =>
    LET phases == UpgradeForkSchedulePhases(times) IN
      /\ phases # {}
      /\ \A i, j \in phases :
           i < j /\ (\A k \in phases : k <= i \/ j <= k)
             => times[ForkOrder[i]] <= times[ForkOrder[j]]
      /\ \A i, j, k \in 1..6 : i < j /\ j < k =>
           ~(times[ForkOrder[i]] > 0 /\ times[ForkOrder[j]] <= 0 /\ times[ForkOrder[k]] > 0)

(* A smoke network tells by the name of its target, which lists the forks. *)
ForkIsActive(cfg, fork, timestamp) ==
  IF cfg.mode = "smoke"
  THEN cfg.target # "poa" /\ ForkOrderIndex(fork) <= ForkOrderIndex(cfg.target)
  ELSE cfg.times[fork] > 0 /\ timestamp >= cfg.times[fork]

--------------------------------------------------------------------------------
(* What is tested for which fork. *)

Cap(name, fork) == [name |-> name, fork |-> fork, deferred |-> FALSE]
Deferred(name, fork) == [name |-> name, fork |-> fork, deferred |-> TRUE]

DefaultRegistry == {
  Cap("push0_execution", "shanghai"), Cap("mcopy_execution", "cancun"),
  Cap("transient_storage_lifecycle", "cancun"), Cap("cancun_header_surface", "cancun"),
  Deferred("blob_tx_submission", "cancun"), Cap("fixheader_rpc_surface", "fixheader"),
  Cap("posa_contract_surface", "posa"), Cap("posa_proposal_wiring_surface", "posa"),
  Cap("posa_proposal_params_surface", "posa"), Cap("prague_rpc_surface", "prague"),
  Cap("prague_eth_config_precompile_surface", "prague"),
  Cap("prague_authorization_rpc_surface", "prague"), Cap("prague_setcode_tx", "prague"),
  Deferred("prague_capability_matrix", "prague"), Cap("bpo1_blob_schedule", "bpo1"),
  Cap("bpo1_eth_config_transition_surface", "bpo1"), Cap("bpo2_blob_schedule", "bpo2"),
  Cap("bpo2_eth_config_transition_surface", "bpo2"),
  Cap("osaka_engine_blob_api_transition", "osaka"),
  Cap("osaka_engine_getpayload_transition", "osaka"),
  Cap("osaka_eth_config_precompile_surface", "osaka"),
  Cap("osaka_modexp_gas_semantics", "osaka"), Cap("osaka_p256verify_precompile", "osaka"),
  Cap("osaka_tx_gas_cap", "osaka"), Deferred("osaka_capability_matrix", "osaka")}

FilterByFork(caps, fork) ==
  IF fork = "all" THEN caps
  ELSE {c \in caps : ForkOrderIndex(c.fork) <= ForkOrderIndex(fork)}

(* The checks of a suite. Those of the blob schedules belong to one fork. *)
OneForkOnly == {"bpo1_blob_schedule", "bpo1_eth_config_transition_surface",
                "bpo2_blob_schedule", "bpo2_eth_config_transition_surface"}

DefaultSuite(fork) ==
  {c \in FilterByFork(DefaultRegistry, fork) :
     ~c.deferred /\ (c.name \in OneForkOnly => c.fork = fork)}

(* Mutant of ExpectationForCapability: before the fork every check expects to *)
(* see nothing.                                                               *)
ExpectationForCapability_pre(selected, ph, minimum) == ph = "pre"

(* A surface is expected to be missing only before its own fork. *)
ExpectationForCapability(selected, ph, minimum) == ph = "pre" /\ selected = minimum

(* The networks of the two phases. *)
PhaseConfig(fork, ph) ==
  LET i == ForkOrderIndex(fork) IN
    IF ph = "post" THEN [mode |-> "smoke", target |-> fork]
    ELSE IF i = 1 THEN [mode |-> "poa", target |-> None]
    ELSE [mode |-> "smoke", target |-> ForkOrder[i - 1]]

--------------------------------------------------------------------------------
(* The node. *)

(* The surface and the fork that brings it. *)
BroughtBy ==
  [push0 |-> "shanghai", mcopy |-> "cancun", transient |-> "cancun", blobFields |-> "cancun",
   cancunBlobs |-> "cancun", beaconRoot |-> "fixheader", baseFee |-> "fixheader",
   contracts |-> "posa", wiring |-> "posa", params |-> "posa", requestsHash |-> "prague",
   bls |-> "prague", setCode |-> "prague", authList |-> "prague", pragueBlobs |-> "prague",
   blobsV3 |-> "osaka", payloadV5 |-> "osaka", p256listed |-> "osaka", p256 |-> "osaka",
   modexp |-> "osaka", gasCap |-> "osaka", bpo1Blobs |-> "bpo1", bpo2Blobs |-> "bpo2"]
Surfaces == DOMAIN BroughtBy

Started(fork) == net.genesis[fork] # Absent /\ now >= net.genesis[fork]

Shows(s) ==
  IF net.flaw.surface = s THEN net.flaw.early ELSE Started(BroughtBy[s])

YesNo(b) == IF b THEN "yes" ELSE "no"

(* What the node answers: the schedule of the blobs is the latest it knows, *)
(* forks to come are named by eth_config, the payload call of before Osaka  *)
(* ends with it, and a schedule is not shown where there are no blobs.      *)
Answer(what) ==
  CASE what = "blobs" ->
         IF Shows("bpo2Blobs") THEN "bpo2" ELSE IF Shows("bpo1Blobs") THEN "bpo1"
         ELSE IF Shows("pragueBlobs") THEN "prague"
         ELSE IF Shows("cancunBlobs") THEN "cancun" ELSE None
    [] what = "next" -> YesNo(\E f \in AllForks : net.genesis[f] > now)
    [] what = "payloadV4" -> YesNo(~Shows("payloadV5"))
    [] what \in {"deployed", "payloadBuilt", "blobsV2null", "modexpHigh"} -> "yes"
    [] OTHER -> YesNo(Shows(what))

Answers(want) == \A what \in DOMAIN want : Answer(what) = want[what]

(* A suite runs on a geth node. Questions are asked of networks that the *)
(* generator has written.                                                *)
ASSUME NetworksAssumption ==
  \A n \in Networks :
    /\ n \in [run : {"suite", "schedule", "ask"}, fork : AllForks \cup {None},
              mode : {"poa", "posa", "smoke", "upgrade"},
              target : AllForks \cup {"poa", "allSame", "allStaggered", None}, genesis : [AllForks -> Int],
              flaw : [surface : Surfaces \cup {None}, early : BOOLEAN],
              impl : {"geth", "reth"}, waits : BOOLEAN, generated : BOOLEAN, faults : Nat]
    /\ n.run = "suite" => n.fork # None /\ n.impl = "geth"
    /\ n.run = "ask" => n.generated
    /\ n.generated =>
         \E t \in ForkTargets :
           LET start == IF t[1] = "upgrade" THEN n.genesis[ForkOrder[1]] ELSE 1 IN
             /\ n.mode = t[1] /\ n.target = t[2] /\ start > 0
             /\ n.genesis = Genesis(n.mode, n.target, start)

--------------------------------------------------------------------------------
(* The checks: calls and the answers wanted. A surface call reads the latest *)
(* block and wants what the configuration says of its time.                  *)

Call(want) == [kind |-> "call", want |-> want]
Mismatch(want) == [kind |-> "mismatch", want |-> want]
SurfaceCall == [kind |-> "surface", want |-> <<>>]

(* The surface is there, or it is expected to be absent. *)
Sees(surface, absent) == Call([s \in {surface} |-> YesNo(~absent)])

(* The fields of the latest block. *)
BlockWanted(cfg, timestamp) ==
  [what \in {w \in {"blobFields", "beaconRoot", "requestsHash"} :
               ForkIsActive(cfg, BroughtBy[w], timestamp)} |-> "yes"]

(* Mutant of BlobsWanted: an Osaka network is expected to have no blobs. *)
BlobsWanted_osaka(cfg, timestamp) ==
  LET active(f) == ForkIsActive(cfg, f, timestamp) IN
    IF active("bpo2") THEN "bpo2" ELSE IF active("bpo1") THEN "bpo1"
    ELSE IF active("osaka") THEN None ELSE IF active("prague") THEN "prague"
    ELSE IF active("cancun") THEN "cancun" ELSE "unasked"

(* The blob schedule the block's time calls for: Osaka keeps that of Prague. *)
BlobsWanted(cfg, timestamp) ==
  LET active(f) == ForkIsActive(cfg, f, timestamp) IN
    IF active("bpo2") THEN "bpo2" ELSE IF active("bpo1") THEN "bpo1"
    ELSE IF active("osaka") \/ active("prague") THEN "prague"
    ELSE IF active("cancun") THEN "cancun" ELSE "unasked"

VerifyForkRPCSurface == <<SurfaceCall>>

VerifyEthConfigBlobSchedule(schedule) == Call([blobs |-> schedule])

(* The base fee of the latest block follows from its parent. *)
VerifyLatestBlockBaseFee == Sees("baseFee", FALSE)

CheckFixHeaderSurface == VerifyForkRPCSurface \o <<VerifyLatestBlockBaseFee>>

LatestBlockField(field, absent) == Sees(field, absent)

(* The block is read first; the surface is verified only after the fork. *)
HeaderSurface(field, absent, surface) ==
  <<LatestBlockField(field, absent)>> \o (IF absent THEN <<>> ELSE surface)

(* A contract is deployed, and called: its opcode runs, or it does not. *)
DeployRawContract == Call([deployed |-> "yes"])

Probe(opcode, absent) == <<DeployRawContract, Sees(opcode, absent)>>

(* It is called once more, to see that nothing was kept. *)
TransientStorage(absent) ==
  Probe("transient", absent) \o (IF absent THEN <<>> ELSE <<Sees("transient", FALSE)>>)

(* Before the fork any failure of the check is taken for the missing schedule. *)
CheckBPOBlobSchedule(fork, absent) ==
  IF absent THEN <<Mismatch([blobFields |-> "yes"]), Mismatch([blobs |-> fork])>>
  ELSE <<LatestBlockField("blobFields", FALSE), VerifyEthConfigBlobSchedule(fork)>>

CheckBPOEthConfigTransitionSurface(fork, absent) ==
  <<Call([next |-> "no", blobs |->
      IF ~absent THEN fork ELSE IF fork = "bpo1" THEN "prague" ELSE "bpo1"])>>

CheckPosaContractSurface(absent) == <<Sees("contracts", absent)>>

CheckPosaProposalWiringSurface(absent) ==
  CheckPosaContractSurface(absent) \o (IF absent THEN <<>> ELSE <<Sees("wiring", FALSE)>>)

CheckPosaProposalParamsSurface(absent) ==
  CheckPosaContractSurface(absent) \o (IF absent THEN <<>> ELSE <<Sees("params", FALSE)>>)

CheckPragueEthConfigPrecompileSurface(absent) == <<Sees("bls", absent)>>

(* The transaction is refused before Prague, and mined after it. *)
SetCodeSent(absent) == Sees("setCode", absent)

CheckPragueSetCodeTx(absent) ==
  <<SetCodeSent(absent)>> \o (IF absent THEN <<>> ELSE <<Sees("setCode", FALSE)>>)

CheckPragueAuthorizationRPCSurface(absent) ==
  <<SetCodeSent(absent)>> \o (IF absent THEN <<>> ELSE <<Sees("authList", FALSE)>>)

CheckOsakaEngineBlobAPITransition(absent) ==
  <<Call([blobsV2null |-> "yes"]), Sees("blobsV3", absent)>>

(* A payload is asked for on top of the latest block. *)
BuildEnginePayloadV3 == Call([payloadBuilt |-> "yes"])

CheckOsakaEngineGetPayloadTransition(absent) ==
  <<BuildEnginePayloadV3, Call([payloadV4 |-> YesNo(absent)]),
    Sees("payloadV5", absent)>>

CheckOsakaEthConfigPrecompileSurface(absent) == <<Sees("p256listed", absent)>>

(* 21300 gas are enough before Osaka and too little after it. *)
CheckOsakaModexpGasSemantics(absent) ==
  <<Sees("modexp", absent)>> \o
  (IF absent THEN <<>> ELSE <<Call([modexpHigh |-> "yes"])>>)

CheckOsakaP256Verify(absent) == <<Sees("p256", absent)>>

VerifyOsakaTxGasCap == <<Sees("gasCap", FALSE)>>
CheckOsakaTxGasCapInactive == <<Sees("gasCap", TRUE)>>

ChecksOf(name, absent) ==
  CASE name = "push0_execution" -> Probe("push0", absent)
    [] name = "mcopy_execution" -> Probe("mcopy", absent)
    [] name = "transient_storage_lifecycle" -> TransientStorage(absent)
    [] name = "cancun_header_surface" -> HeaderSurface("blobFields", absent, VerifyForkRPCSurface)
    [] name = "fixheader_rpc_surface" -> HeaderSurface("beaconRoot", absent, CheckFixHeaderSurface)
    [] name = "posa_contract_surface" -> CheckPosaContractSurface(absent)
    [] name = "posa_proposal_wiring_surface" -> CheckPosaProposalWiringSurface(absent)
    [] name = "posa_proposal_params_surface" -> CheckPosaProposalParamsSurface(absent)
    [] name = "prague_rpc_surface" -> HeaderSurface("requestsHash", absent, VerifyForkRPCSurface)
    [] name = "prague_eth_config_precompile_surface" -> CheckPragueEthConfigPrecompileSurface(absent)
    [] name = "prague_authorization_rpc_surface" -> CheckPragueAuthorizationRPCSurface(absent)
    [] name = "prague_setcode_tx" -> CheckPragueSetCodeTx(absent)
    [] name = "bpo1_blob_schedule" -> CheckBPOBlobSchedule("bpo1", absent)
    [] name = "bpo1_eth_config_transition_surface" ->
         CheckBPOEthConfigTransitionSurface("bpo1", absent)
    [] name = "bpo2_blob_schedule" -> CheckBPOBlobSchedule("bpo2", absent)
    [] name = "bpo2_eth_config_transition_surface" ->
         CheckBPOEthConfigTransitionSurface("bpo2", absent)
    [] name = "osaka_engine_blob_api_transition" -> CheckOsakaEngineBlobAPITransition(absent)
    [] name = "osaka_engine_getpayload_transition" -> CheckOsakaEngineGetPayloadTransition(absent)
    [] name = "osaka_eth_config_precompile_surface" -> CheckOsakaEthConfigPrecompileSurface(absent)
    [] name = "osaka_modexp_gas_semantics" -> CheckOsakaModexpGasSemantics(absent)
    [] name = "osaka_p256verify_precompile" -> CheckOsakaP256Verify(absent)
    [] name = "osaka_tx_gas_cap" ->
         IF absent THEN CheckOsakaTxGasCapInactive ELSE VerifyOsakaTxGasCap

--------------------------------------------------------------------------------
(* The runs. *)

Cfg == [mode |-> net.mode, target |-> net.target, times |-> ScheduleOf(net.genesis)]
Idle == verdict = "going" /\ check = None /\ checks = {}

Init ==
  /\ net \in Networks
  /\ now = 0 /\ phase = "start" /\ checks = {} /\ check = None /\ asks = <<>>
  /\ failed = {} /\ lost = {} /\ crossed = FALSE /\ verdict = "going"
  /\ faults = net.faults

vCheck == <<check, asks, failed, lost, crossed, faults>>

(* The network of a phase is set up anew. *)
StartPhase(ph) ==
  /\ Idle /\ net.run = "suite" /\ failed = {}
  /\ phase = (IF ph = "pre" THEN "start" ELSE "pre")
  /\ LET c == PhaseConfig(net.fork, ph) IN
       net' = [net EXCEPT !.mode = c.mode, !.target = c.target,
                          !.genesis = Genesis(c.mode, c.target, 0)]
  /\ phase' = ph
  /\ checks' = {c.name : c \in DefaultSuite(net.fork)}
  /\ now' = 1
  /\ UNCHANGED <<vCheck, verdict>>

(* A failed phase is the last one. *)
EndSuite ==
  /\ Idle /\ net.run = "suite"
  /\ phase = "post" \/ (phase = "pre" /\ failed # {})
  /\ verdict' = IF failed = {} THEN "passed" ELSE "failed"
  /\ UNCHANGED <<net, now, phase, checks, vCheck>>

(* The checks of a suite come one after the other, in a fixed order. *)
StartCheck ==
  /\ verdict = "going" /\ check = None /\ checks # {}
  /\ LET name == CHOOSE c \in checks : TRUE
         cap == CHOOSE c \in DefaultRegistry : c.name = name
     IN /\ check' = name /\ checks' = checks \ {name}
        /\ asks' = ChecksOf(name, ExpectationForCapability(net.fork, phase, cap.fork))
  /\ UNCHANGED <<net, now, phase, failed, lost, crossed, verdict, faults>>

(* The fork test refuses a schedule that does not hold together. *)
CheckSchedule ==
  /\ Idle /\ net.run # "suite" /\ phase = "start"
  /\ phase' = "ask"
  /\ verdict' = IF ~ValidateUpgradeForkSchedule(net.mode, Cfg.times) THEN "refused"
                ELSE IF net.run = "schedule" THEN "passed" ELSE "going"
  /\ UNCHANGED <<net, now, checks, vCheck>>

(* It asks when every fork has come, and then for the gas cap as well when *)
(* Osaka is among them; others may ask at any time.                        *)
AskSurface ==
  /\ Idle /\ phase = "ask"
  /\ net.waits => \A f \in AllForks : now >= Cfg.times[f]
  /\ check' = "surface"
  /\ asks' = VerifyForkRPCSurface \o
       (IF net.waits /\ net.impl = "geth" /\ Cfg.times["osaka"] > 0 THEN VerifyOsakaTxGasCap
        ELSE <<>>)
  /\ UNCHANGED <<net, now, phase, checks, failed, lost, crossed, verdict, faults>>

(* The network goes on while the calls are made. *)
Tick ==
  /\ verdict = "going" /\ net.run = "ask" /\ phase = "ask" /\ now < MaxTime
  /\ now' = now + 1
  /\ crossed' = (crossed \/ (check # None /\ \E f \in AllForks : net.genesis[f] = now + 1))
  /\ UNCHANGED <<net, phase, checks, check, asks, failed, lost, verdict, faults>>

EndCheck(ok) ==
  /\ check' = None /\ asks' = <<>>
  /\ failed' = IF ok THEN failed ELSE failed \cup {<<phase, check>>}
  /\ verdict' = IF phase # "ask" THEN "going" ELSE IF ok THEN "passed" ELSE "failed"

(* One call. A check fails with the first answer it does not want; the check   *)
(* that waits for a mismatch passes with it, and fails without one. A surface  *)
(* call on a geth node is followed by a second one, for the blob schedule.     *)
Ask ==
  /\ check # None
  /\ LET call == Head(asks)
         rest == Tail(asks)
         blobs == BlobsWanted(Cfg, now)
     IN \/ /\ call.kind = "call"
           /\ IF ~Answers(call.want) THEN EndCheck(FALSE)
              ELSE IF rest = <<>> THEN EndCheck(TRUE)
              ELSE asks' = rest /\ UNCHANGED <<check, failed, verdict>>
        \/ /\ call.kind = "mismatch"
           /\ IF ~Answers(call.want) THEN EndCheck(TRUE)
              ELSE IF rest = <<>> THEN EndCheck(FALSE)
              ELSE asks' = rest /\ UNCHANGED <<check, failed, verdict>>
        \/ /\ call.kind = "surface"
           /\ LET next == (IF net.impl = "geth" /\ blobs # "unasked"
                           THEN <<VerifyEthConfigBlobSchedule(blobs)>> ELSE <<>>) \o rest
              IN IF ~Answers(BlockWanted(Cfg, now)) THEN EndCheck(FALSE)
                 ELSE IF next = <<>> THEN EndCheck(TRUE)
                 ELSE asks' = next /\ UNCHANGED <<check, failed, verdict>>
  /\ UNCHANGED <<net, now, phase, checks, lost, crossed, faults>>

(* A call is not answered in time. *)
LoseCall ==
  /\ check # None /\ faults > 0
  /\ faults' = faults - 1
  /\ lost' = lost \cup {<<phase, check>>}
  /\ EndCheck(Head(asks).kind = "mismatch")
  /\ UNCHANGED <<net, now, phase, checks, crossed>>

Next ==
  \/ \E ph \in {"pre", "post"} : StartPhase(ph)
  \/ EndSuite \/ StartCheck \/ CheckSchedule \/ AskSurface \/ Tick \/ Ask \/ LoseCall

Spec == Init /\ [][Next]_vars

--------------------------------------------------------------------------------
(* Properties. *)

Over == verdict \in {"passed", "failed"}
Faithful == net.flaw.surface = None

(* An upgrade schedule is refused exactly when it has no fork, a fork before  *)
(* an earlier one of the list, or a hole among the first six; and none that   *)
(* the generator writes is refused.                                           *)
ScheduleExact ==
  phase = "ask" =>
    LET at(i) == Cfg.times[ForkOrder[i]]
        on == {i \in 1..8 : at(i) > 0}
        six == on \cap 1..6
        sound == /\ on # {}
                 /\ \A i, j \in on : i < j => at(i) <= at(j)
                 /\ \A i, j \in six : i..j \subseteq six
    IN  /\ (verdict = "refused") = (net.mode = "upgrade" /\ ~sound)
        /\ net.generated => verdict # "refused"

(* What no check of the suite of its fork sees when it comes too early. *)
SeenLate == {"cancunBlobs", "baseFee", "wiring", "params", "authList"}

(* A blob schedule of a later fork hides those before it. *)
Superseded(s, fork) ==
  \/ s = "cancunBlobs" /\ ForkOrderIndex(fork) > ForkOrderIndex("prague")
  \/ s = "pragueBlobs" /\ ForkOrderIndex(fork) > ForkOrderIndex("bpo1")

(* A suite, with every call answered, passes on a faithful node, and fails on *)
(* one that lacks what the fork under test or an earlier one brings, or has   *)
(* what the fork brings before it.                                            *)
SuiteFinds ==
  Over /\ net.run = "suite" /\ lost = {} =>
    LET s == net.flaw.surface IN
      /\ Faithful => verdict = "passed"
      /\ ~Faithful /\ net.flaw.early /\ BroughtBy[s] = net.fork /\ s \notin SeenLate
           => verdict = "failed"
      /\ ~Faithful /\ ~net.flaw.early /\ ~Superseded(s, net.fork)
           /\ ForkOrderIndex(BroughtBy[s]) <= ForkOrderIndex(net.fork)
           => verdict = "failed"

(* A check that got no answer has failed, except for the one that takes any *)
(* failure for the schedule that is not there yet.                          *)
LostFails ==
  \A c \in lost : c \in failed \/ (c[1] = "pre" /\ c[2] \in {"bpo1_blob_schedule", "bpo2_blob_schedule"})

(* The surface of a faithful node is found wanting only if a fork came while  *)
(* it was looked at, and so never by the fork test, which waits for the last  *)
(* one; a block field that is missing is found.                               *)
SurfaceExact ==
  Over /\ net.run = "ask" /\ lost = {} =>
    LET s == net.flaw.surface IN
      /\ verdict = "failed" /\ Faithful => crossed /\ ~net.waits
      /\ ~Faithful /\ ~net.flaw.early /\ ~crossed
           /\ s \in {"blobFields", "beaconRoot", "requestsHash"}
           /\ ForkIsActive(Cfg, BroughtBy[s], now)
           => verdict = "failed"

(* Schedules and checks tell the truth, as far as they look. *)
ForkChecksTrue == ScheduleExact /\ SuiteFinds /\ LostFails /\ SurfaceExact

================================================================================
