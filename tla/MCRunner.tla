------------------------------- MODULE MCRunner -------------------------------
(* Runner on small instances: a two-phase group that may share its network, *)
(* one-phase groups of both kinds, and tests with networks of their own.    *)
EXTENDS Runner, FiniteSets

CONSTANTS r1, r2,                \* the runs
          rewards, epoch, punish \* groups: rewards and epoch may share

MCRuns == {r1, r2}
MCItems == {rewards, epoch, punish}
MCShareable == {rewards, epoch}
MCPhases == [g \in MCItems |-> IF g = epoch THEN 2 ELSE 1]

Job(m, list, s) == [mode |-> m, items |-> list, shared |-> s]

\* Shared groups before, after and around one that does not share; private
\* networks only; tests; a test attached to what is there; nothing to do.
MCJobs ==
  {Job("groups", <<rewards, epoch>>, TRUE),
   Job("groups", <<rewards, punish>>, TRUE),
   Job("groups", <<punish, rewards>>, TRUE),
   Job("groups", <<epoch>>, FALSE),
   Job("groups", <<>>, TRUE),
   Job("tests", <<rewards, epoch>>, FALSE),
   Job("attach", <<rewards>>, FALSE)}

===============================================================================
