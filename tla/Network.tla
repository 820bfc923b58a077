--------------------------------- MODULE Network ---------------------------------
(***************************************************************************)
(* The scripts behind make clean, init, run and stop (Makefile,            *)
(* scripts/network/dispatch.sh and native.sh), one step of a script at a   *)
(* time, over the processes that pm2 keeps, while nodes fail, pm2's        *)
(* commands fail, and a make is killed.                                    *)
(*                                                                         *)
(* A layout is the list of the node processes that a configuration asks    *)
(* for, the first of the validators first.  The user may change the        *)
(* configuration between commands; the session file holds the one that the *)
(* last make init has seen.                                                *)
(***************************************************************************)
EXTENDS Integers, Sequences, FiniteSets, MakeTargets

CONSTANTS
  Layouts,     \* the layouts of the configurations, sequences of process names
  MaxFaults    \* bound: things that go wrong

Names == UNION {{l[i] : i \in DOMAIN l} : l \in Layouts}
NoSession == <<>>

VARIABLES
  config,      \* layout of the configuration
  session,     \* layout of the session file, NoSession without one
  env,         \* the environment file of the nodes exists
  used,        \* tests have run on the chain of the data directory
  proc,        \* per name: "none" or "stopped" in pm2, or running, on "current" or on "removed" data
  target,      \* the make target that is going on, or was the last
  at,          \* where its script is
  list,        \* the processes the script goes through
  pos,         \* the one it is at
  verdict,     \* "running", "ok", "failed", "killed"
  faults,      \* bound
  \* history
  before,      \* the network when the target was called
  messy        \* nodes may have been left running: by pm2, or by an init on top of them

vars == <<config, session, env, used, proc, target, at, list, pos, verdict, faults, before, messy>>

Running == {p \in Names : proc[p] \in {"current", "removed"}}

\* the network as MakeTargets sees it
Net ==
  [data |-> session # NoSession /\ env, users |-> IF used THEN {"test"} ELSE {},
   procs |-> IF \E p \in Names : proc[p] = "current" THEN "up"
             ELSE IF Running # {} THEN "stray" ELSE "down"]

Init ==
  /\ config \in Layouts /\ session = NoSession /\ env = FALSE /\ used = FALSE
  /\ proc = [p \in Names |-> "none"]
  /\ target = "stop" /\ at = "end" /\ list = <<>> /\ pos = 1 /\ verdict = "ok"
  /\ faults = MaxFaults
  /\ before = Net /\ messy = FALSE

Fault == faults > 0 /\ faults' = faults - 1

At(c, place) == verdict = "running" /\ target = c /\ at = place
Go(place) == at' = place /\ pos' = 1 /\ UNCHANGED verdict
Return(result) == at' = "end" /\ pos' = 1 /\ verdict' = result

\* rm -rf of the data directory; the data of nodes that run is gone under them
Delete(ps) ==
  proc' = [p \in Names |-> IF p \in ps /\ proc[p] = "current" THEN "removed" ELSE proc[p]]
RemoveData == Delete(Names) /\ env' = FALSE /\ used' = FALSE

\* Its failure is ignored: files of another owner stay, whichever they are.
RemoveSome ==
  /\ Fault
  /\ \E ps \in SUBSET Names : Delete(ps)
  /\ env' \in {FALSE, env} /\ used' \in {FALSE, used}

-----------------------------------------------------------------------------
\* Mutant of SourceFile: the processes are those of the configuration.
SourceFile_config == config

\* SOURCE_FILE: the session, if there is one
SourceFile == IF session = NoSession THEN config ELSE session

\* Tests may have run since the last one, on nodes that have their data.
Call(c) ==
  /\ verdict # "running"
  /\ target' = c /\ verdict' = "running"
  /\ at' = CASE c \in {"stop", "clean"} -> "stop" [] c = "init" -> "generate" [] c = "run" -> "check"
  /\ pos' = 1 /\ list' = <<>>
  /\ messy' = (messy \/ (c = "init" /\ Running # {}))
  /\ config' \in Layouts /\ used' \in {used, used \/ Net.procs = "up"}
  /\ UNCHANGED <<session, env, proc, faults>>
  /\ before' = Net'

Kill ==
  /\ verdict = "running" /\ Fault
  /\ Return("killed")
  /\ UNCHANGED <<config, session, env, used, proc, target, list, before, messy>>

-----------------------------------------------------------------------------
(* make stop, and make clean, which ignores how it ends.                   *)

Stopping(place) == \E c \in {"stop", "clean"} : At(c, place)
EndStop(result) == IF target = "clean" THEN Go("remove") ELSE Return(result)

\* a script, the ecosystem file or pm2 is not there
CannotStop ==
  /\ Stopping("stop") /\ Fault
  /\ EndStop("failed")
  /\ messy' = (messy \/ Running # {})
  /\ UNCHANGED <<config, session, env, used, proc, target, list, before>>

\* pm2_stop_known_graceful: a failure may leave some of them running
StopKnown ==
  /\ Stopping("stop")
  /\ list' = SourceFile
  /\ LET known == {SourceFile[k] : k \in DOMAIN SourceFile} \cap Running
     IN \E left \in SUBSET known :
          /\ IF left = {} THEN UNCHANGED faults ELSE Fault
          /\ proc' = [p \in Names |-> IF p \in known \ left THEN "stopped" ELSE proc[p]]
  /\ Go("delete")
  /\ UNCHANGED <<config, session, env, used, target, before, messy>>

\* pm2_delete_known, and then the waits, whose results are ignored
DeleteKnown ==
  /\ Stopping("delete") /\ pos <= Len(list)
  /\ \/ proc' = [proc EXCEPT ![list[pos]] = "none"] /\ UNCHANGED <<faults, messy>>
     \/ proc[list[pos]] # "none" /\ Fault /\ messy' = (messy \/ list[pos] \in Running)
        /\ UNCHANGED proc
  /\ pos' = pos + 1
  /\ UNCHANGED <<config, session, env, used, target, at, list, verdict, before>>

Deleted ==
  /\ Stopping("delete") /\ pos > Len(list)
  /\ EndStop("ok")
  /\ UNCHANGED <<config, session, env, used, proc, target, list, faults, before, messy>>

Remove ==
  /\ At("clean", "remove")
  /\ \/ RemoveData /\ session' = NoSession /\ UNCHANGED faults
     \/ RemoveSome /\ session' \in {NoSession, session}
  /\ Return("ok")
  /\ UNCHANGED <<config, target, list, before, messy>>

-----------------------------------------------------------------------------
(* make init: gen_network_config.sh, and whatever its end, init.           *)

Generate ==
  /\ At("init", "generate")
  /\ \/ RemoveData /\ session' = config /\ UNCHANGED faults
     \/ RemoveData /\ session' = NoSession /\ Fault
     \/ RemoveSome /\ session' \in {config, session, NoSession}
  /\ Go("pm2init")
  /\ UNCHANGED <<config, target, list, before, messy>>

\* pm2_init.sh writes the environment file, and may still fail after that
RunInit ==
  /\ At("init", "pm2init")
  /\ \/ session # NoSession /\ env' = TRUE /\ Return("ok") /\ UNCHANGED faults
     \/ session # NoSession /\ env' \in {env, TRUE} /\ Return("failed") /\ Fault
     \/ session = NoSession /\ Return("failed") /\ UNCHANGED <<env, faults>>
  /\ UNCHANGED <<config, session, used, proc, target, list, before, messy>>

-----------------------------------------------------------------------------
(* make run: up, then ready.                                               *)

\* a session and the environment file are required; the prechecks may fail
Check ==
  /\ At("run", "check")
  /\ \/ session # NoSession /\ env /\ list' = session /\ Go("start") /\ UNCHANGED faults
     \/ (session = NoSession \/ ~env)
        /\ Return("failed") /\ UNCHANGED <<list, faults>>
     \/ Return("failed") /\ Fault /\ UNCHANGED list
  /\ UNCHANGED <<config, session, env, used, proc, target, before, messy>>

\* pm2 start restarts a process that runs.  A node may exit at once.
StartNext ==
  /\ At("run", "start") /\ pos <= Len(list)
  /\ \/ proc' = [proc EXCEPT ![list[pos]] = "current"] /\ at' = "await" /\ UNCHANGED <<pos, verdict, faults>>
     \/ proc' = [proc EXCEPT ![list[pos]] = "stopped"] /\ at' = "await" /\ Fault /\ UNCHANGED <<pos, verdict>>
     \/ Return("failed") /\ Fault /\ UNCHANGED proc
  /\ UNCHANGED <<config, session, env, used, target, list, before, messy>>

Answers(p) == proc[p] \in {"current", "removed"}

\* wait_for_rpc_ready, on the port of the process; a wait may time out
AwaitRpc ==
  /\ At("run", "await")
  /\ \/ Answers(list[pos]) /\ at' = "start" /\ pos' = pos + 1 /\ UNCHANGED <<verdict, faults>>
     \/ ~Answers(list[pos]) /\ Return("failed") /\ UNCHANGED faults
     \/ Return("failed") /\ Fault
  /\ UNCHANGED <<config, session, env, used, proc, target, list, before, messy>>

\* pm2_wait_all_online
AllOnline ==
  /\ At("run", "start") /\ pos > Len(list)
  /\ IF \A k \in DOMAIN list : list[k] \in Running THEN Go("ready") ELSE Return("failed")
  /\ UNCHANGED <<config, session, env, used, proc, target, list, faults, before, messy>>

\* Mutant of ReadyNext: only the first validator is asked.
ReadyNext_first ==
  /\ At("run", "ready") /\ pos <= Len(list)
  /\ \/ Answers(list[1]) /\ pos' = Len(list) + 1 /\ UNCHANGED <<at, verdict, faults>>
     \/ ~Answers(list[1]) /\ Return("failed") /\ UNCHANGED faults
     \/ Return("failed") /\ Fault
  /\ UNCHANGED <<config, session, env, used, proc, target, list, before, messy>>

\* wait_for_all_rpcs_ready; the target ready asks them all once more
ReadyNext ==
  /\ At("run", "ready") /\ pos <= Len(list)
  /\ \/ Answers(list[pos]) /\ pos' = pos + 1 /\ UNCHANGED <<at, verdict, faults>>
     \/ ~Answers(list[pos]) /\ Return("failed") /\ UNCHANGED faults
     \/ Return("failed") /\ Fault
  /\ UNCHANGED <<config, session, env, used, proc, target, list, before, messy>>

AllReady ==
  /\ At("run", "ready") /\ pos > Len(list)
  /\ \/ Return("ok") /\ UNCHANGED faults
     \/ Return("failed") /\ Fault        \* reth: the validators do not converge
  /\ UNCHANGED <<config, session, env, used, proc, target, list, before, messy>>

\* A node exits and pm2 gives it up, while the network starts.
Dies(p) ==
  /\ verdict = "running" /\ target = "run" /\ proc[p] = "current"
  /\ at = "ready" => \E k \in pos..Len(list) : list[k] = p
  /\ Fault
  /\ proc' = [proc EXCEPT ![p] = "stopped"]
  /\ UNCHANGED <<config, session, env, used, target, at, list, pos, verdict, before, messy>>

-----------------------------------------------------------------------------
Next ==
  \/ \E c \in Commands \ {"test"} : Call(c)
  \/ Kill
  \/ CannotStop \/ StopKnown \/ DeleteKnown \/ Deleted \/ Remove
  \/ Generate \/ RunInit
  \/ Check \/ StartNext \/ AwaitRpc \/ AllOnline \/ ReadyNext \/ AllReady
  \/ \E p \in Names : Dies(p)

Spec == Init /\ [][Next]_vars

(* A target that returns, or is killed, has done what MakeTargets says of it,  *)
(* so the CI runner stands on it. After a run that succeeds, every node of the *)
(* session runs on its data. And unless pm2 left nodes running that it was     *)
(* told to stop, or make init was called on top of some, no node runs but      *)
(* those of the session, on its data, however often the layout has changed.    *)
NetworkTrue ==
  /\ verdict \in {"ok", "failed"} => Result(verdict = "ok", Net) \in Outcomes(target, before)
  /\ verdict = "killed" => Net \in Interrupted(target, before)
  /\ verdict = "ok" /\ target = "run" => \A k \in DOMAIN session : proc[session[k]] = "current"
  /\ ~messy => \A p \in Running : proc[p] = "current" /\ \E k \in DOMAIN session : session[k] = p

==================================================================================
