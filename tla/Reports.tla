--------------------------------- MODULE Reports ---------------------------------
(* What ci.go makes of the logs of a run: a go test process writes a log      *)
(* line by line, the log is read back when the process is gone, and its cases *)
(* end up in the report, the summary, the manifest and the exit code. In      *)
(* groups mode the process is make test-group, which starts further ci.go     *)
(* runs, one per phase, and the cases come from the summaries of these.       *)
(*                                                                            *)
(* Texts are abstracted to what tells them apart: a line has a kind, a case   *)
(* its name and its duration. What really happened is kept in real, which     *)
(* the code does not see.                                                     *)
EXTENDS Lists

CONSTANTS
  NoTest,   \* no test has run yet
  Parent,   \* the test each subtest is run by, a function
  Setups    \* the flags of the runs, and what they run

VARIABLES
  setup,    \* the flags of the run and what it runs
  pc,       \* where the run is
  outer,    \* the run that was asked for is at work, and not one inside a group
  todo,     \* the items still to be run
  queue,    \* the tests go test still has to run
  stack,    \* the tests that are running, the innermost last
  log,      \* the lines of the item's log
  real,     \* of the item: what ended, who said Deferred:, and what was hidden
  results,  \* the results of the steps, each with what really happened
  runs,     \* the finished runs inside a group
  book,     \* the report, summary and manifest that the run has left behind
  exit,     \* the exit code, Running before the end
  faults    \* faults still to come

vars == <<setup, pc, outer, todo, queue, stack, log, real, results, runs, book, exit, faults>>
vItem == <<queue, stack, log, real>>

Statuses == {"PASS", "FAIL", "SKIP", "DEFERRED"}
Untimed == -1
Case(t, d) == [name |-> t, dur |-> d]
EndLine(status, c) == [kind |-> "end", status |-> status, case |-> c]
NameLine(kind, t) == [kind |-> kind, status |-> "", case |-> Case(t, Untimed)]
LongLine == NameLine("long", NoTest)

(* Nothing has happened in the step that the code does not see. *)
Nothing == [ended |-> {}, said |-> {}, late |-> FALSE, cut |-> FALSE]

--------------------------------------------------------------------------------
(* The line reader. *)

Blank == [cur |-> NoTest, cand |-> {}, timed |-> <<>>, cut |-> FALSE,
          PASS |-> <<>>, FAIL |-> <<>>, SKIP |-> <<>>, DEFERRED |-> <<>>]

Listed(p, status, c) ==
  [p EXCEPT ![status] = Append(@, c),
            !.timed = IF c.dur = Untimed THEN @
                      ELSE Append(@, [name |-> c.name, dur |-> c.dur, status |-> status])]

(* Mutant of ReadStatus: the candidates are forgotten. *)
ReadStatus_skip(p, line) == line.status

(* A skipped case is a deferred one if a line with Deferred: came while it *)
(* was the test that ran last.                                             *)
ReadStatus(p, line) ==
  IF line.status = "SKIP" /\ line.case.dur # Untimed /\ line.case.name \in p.cand
  THEN "DEFERRED" ELSE line.status

(* bufio.Scanner gives up at a line above 64 KiB, and nobody asks why. The  *)
(* line with which an inner run shows a deferred case is not recognised.    *)
ReadLine(p, line) ==
  CASE p.cut -> p
    [] ~p.cut /\ line.kind = "long" -> [p EXCEPT !.cut = TRUE]
    [] ~p.cut /\ line.kind = "run" -> [p EXCEPT !.cur = line.case.name]
    [] ~p.cut /\ line.kind = "deferred" ->
         IF p.cur = NoTest THEN p ELSE [p EXCEPT !.cand = @ \cup {p.cur}]
    [] ~p.cut /\ line.kind = "end" ->
         IF line.status = "DEFERRED" THEN p ELSE Listed(p, ReadStatus(p, line), line.case)
    [] ~p.cut /\ line.kind = "summary" -> p

ParseTestOutput(lines) ==
  LET read[n \in 0..Len(lines)] == IF n = 0 THEN Blank ELSE ReadLine(read[n - 1], lines[n])
  IN  read[Len(lines)]

Untimeds(names) == [i \in DOMAIN names |-> Case(names[i], Untimed)]

(* Mutant of AttributeImplicitFailures: only what the log names. *)
AttributeImplicitFailures_none(status, fail, tests, pattern, fallback) == fail

(* A step that failed names at least one case. *)
AttributeImplicitFailures(status, fail, tests, pattern, fallback) ==
  IF status # "FAIL" \/ fail # <<>> THEN fail
  ELSE Untimeds(IF pattern # "" THEN <<pattern>>
                ELSE IF tests # <<>> THEN tests ELSE <<fallback>>)

(* The result of a step, and what the code does not see of it. *)
StepResult(item, status, lines, truth) ==
  LET p == ParseTestOutput(lines) IN
    [name |-> item.name, status |-> status, log |-> lines, timed |-> p.timed,
     PASS |-> p.PASS, SKIP |-> p.SKIP, DEFERRED |-> p.DEFERRED,
     FAIL |-> AttributeImplicitFailures(status, p.FAIL, item.given, item.pattern, item.name),
     group |-> FALSE, took |-> 0, logged |-> TRUE, real |-> truth]

--------------------------------------------------------------------------------
(* The end of a run: budgets, summary, manifest. *)

AddUp(ns) ==
  LET sum[n \in 0..Len(ns)] == IF n = 0 THEN 0 ELSE sum[n - 1] + ns[n] IN sum[Len(ns)]

Total(list, status) == AddUp([i \in DOMAIN list |-> Len(list[i][status])])

(* A test is slow from the threshold on, a group over its time from its own *)
(* threshold on; a threshold of 0 is none.                                  *)
SlowAlerts(list, flags) ==
  IF flags.slow = 0 THEN 0
  ELSE AddUp([i \in DOMAIN list |->
         Cardinality({j \in DOMAIN list[i].timed : list[i].timed[j].dur >= flags.slow})])

GroupAlerts(list, flags) ==
  Cardinality({i \in DOMAIN list :
                 list[i].group /\ flags.time > 0 /\ list[i].took >= flags.time})

(* What the report knows of the whole run. *)
WriteReport(list, flags) ==
  [totals |-> [s \in Statuses |-> Total(list, s)],
   slow |-> SlowAlerts(list, flags), groups |-> GroupAlerts(list, flags)]

(* Mutant of HadFailure: deferred tests are charged to the budget as well. *)
HadFailure_deferred(list, stats, flags) ==
  \/ \E i \in DOMAIN list : list[i].status # "PASS"
  \/ flags.slowFail /\ stats.slow > 0
  \/ flags.timeFail /\ stats.groups > 0
  \/ flags.maxSkips >= 0 /\ Total(list, "SKIP") + Total(list, "DEFERRED") > flags.maxSkips

HadFailure(list, stats, flags) ==
  \/ \E i \in DOMAIN list : list[i].status # "PASS"
  \/ flags.slowFail /\ stats.slow > 0
  \/ flags.timeFail /\ stats.groups > 0
  \/ flags.maxSkips >= 0 /\ Total(list, "SKIP") > flags.maxSkips

Count(r) == [s \in Statuses |-> Len(r[s])]

BuildRunSummary(list, stats, failed, pattern, given) ==
  [status |-> IF failed THEN "FAIL" ELSE "PASS", pattern |-> pattern, given |-> given,
   slow |-> stats.slow, groups |-> stats.groups,
   totals |-> [s \in Statuses |-> Total(list, s)],
   failedSteps |-> Cardinality({i \in DOMAIN list : list[i].status # "PASS"}),
   steps |-> [i \in DOMAIN list |->
     [name |-> list[i].name, status |-> list[i].status, log |-> list[i].log,
      count |-> Count(list[i])]]]

(* The manifest knows a step by its name: the last one of a name stays. *)
BuildRunManifest(list) ==
  [cases |-> UNION {ToSet(list[i][s]) : i \in DOMAIN list, s \in Statuses},
   stepStatus |-> [n \in {list[i].name : i \in DOMAIN list} |->
     list[Max({i \in DOMAIN list : list[i].name = n})].status]]

--------------------------------------------------------------------------------
(* A run inside a group, as the group step sees it. *)

FallbackBases(summary, step) ==
  (IF summary.pattern # "" THEN <<summary.pattern>> ELSE <<>>) \o summary.given \o <<step.name>>

(* Mutant of PadCaseList: the counts of the summary are not used. *)
PadCaseList_never(items, want, bases) == items

PadCaseList(items, want, bases) ==
  IF want <= Len(items) THEN items
  ELSE items \o [i \in 1..(want - Len(items)) |-> Case(bases[((i - 1) % Len(bases)) + 1], Untimed)]

(* The cases of one step of a summary: its log is read once more, and the *)
(* lists are filled up to the counts of the summary.                      *)
CasesFromStep(summary, step, gone) ==
  LET p == ParseTestOutput(IF gone THEN <<>> ELSE step.log)
      found == [p EXCEPT !.FAIL =
        AttributeImplicitFailures(step.status, @, summary.given, summary.pattern, step.name)]
  IN  [s \in Statuses \cup {"timed"} |->
         IF s = "timed" THEN p.timed
         ELSE PadCaseList(found[s], step.count[s], FallbackBases(summary, step))]

(* What a finished run prints: the cases of its steps and, when everything *)
(* was written, where the summary is.                                      *)
Printed(run) ==
  LET lines(r, s) == [j \in DOMAIN r[s] |-> EndLine(s, r[s][j])]
      step(r) == lines(r, "PASS") \o lines(r, "FAIL") \o lines(r, "SKIP") \o lines(r, "DEFERRED")
  IN  FlattenSeq([i \in DOMAIN run.results |-> step(run.results[i])])
        \o (IF run.announced THEN <<NameLine("summary", NoTest)>> ELSE <<>>)

GroupLog(list) ==
  FlattenSeq([i \in DOMAIN list |->
    (IF list[i].noisy THEN <<LongLine>> ELSE <<>>) \o Printed(list[i])])

(* The summaries the group step finds in its log: those before a long line. *)
ExtractSummaryPaths(list) ==
  {i \in DOMAIN list : list[i].announced /\ \A j \in 1..i : ~list[j].noisy}

(* A summary that cannot be read is left out, and so are all of them if all *)
(* are.                                                                     *)
CollectNestedSummaryCases(list, field) ==
  FlattenSeq([i \in DOMAIN list |->
    IF i \in ExtractSummaryPaths(list) /\ list[i].readable
    THEN FlattenSeq([j \in DOMAIN list[i].summary.steps |->
           CasesFromStep(list[i].summary, list[i].summary.steps[j], list[i].gone)[field]])
    ELSE <<>>])

GroupItem == [name |-> "group", given |-> <<>>, pattern |-> "", tests |-> <<>>]

GroupResult(list, status, d) ==
  LET own == [StepResult(GroupItem, status, GroupLog(list), Nothing) EXCEPT
                !.group = TRUE, !.took = d]
      nested == [s \in Statuses \cup {"timed"} |-> CollectNestedSummaryCases(list, s)]
  IN  IF ExtractSummaryPaths(list) = {} THEN own
      ELSE [own EXCEPT !.PASS = nested.PASS, !.SKIP = nested.SKIP,
              !.DEFERRED = nested.DEFERRED, !.timed = nested.timed,
              !.FAIL = AttributeImplicitFailures(status, nested.FAIL, <<>>, "", "group")]

--------------------------------------------------------------------------------
(* The run. *)

Running == -1
Flags == IF outer /\ setup.phases # <<>> THEN setup.outerFlags ELSE setup.flags
SubsOf(t) == {s \in DOMAIN Parent : Parent[s] = t}

Init ==
  /\ setup \in Setups
  /\ pc = "start" /\ outer = TRUE
  /\ todo = <<>> /\ queue = <<>> /\ stack = <<>> /\ log = <<>> /\ real = Nothing
  /\ results = <<>> /\ runs = <<>> /\ book = <<>> /\ exit = Running
  /\ faults = setup.faults

(* The fault budget pays for what the run cannot help. *)
Fault == faults > 0 /\ faults' = faults - 1

(* A limit that fails the run needs a threshold; two packages may not have a *)
(* test of one name when all tests are run; and there has to be something.   *)
BadFlags(flags) ==
  (flags.slowFail /\ flags.slow = 0) \/ (flags.timeFail /\ flags.time = 0)

DiscoverTestTargets(found) == {f \in found : f.pkg # "smoke" /\ f.name # "TestMain"}

Ambiguous(targets) == \E f, g \in targets : f.name = g.name /\ f.pkg # g.pkg

Single(t) == [name |-> t, given |-> <<t>>, pattern |-> "", tests |-> <<t>>]

Items ==
  IF setup.all THEN
    LET targets == SetToSeq(DiscoverTestTargets(setup.found)) IN
      [i \in DOMAIN targets |-> Single(targets[i].name)]
  ELSE setup.items

Refused ==
  BadFlags(Flags) \/
  (setup.all /\ (DiscoverTestTargets(setup.found) = {} \/
                 Ambiguous(DiscoverTestTargets(setup.found))))

Begin ==
  /\ pc = "start"
  /\ IF Refused
     THEN pc' = "done" /\ exit' = 1 /\ UNCHANGED <<todo, outer>>
     ELSE /\ pc' = "loop"
          /\ outer' = (setup.phases = <<>>)
          /\ todo' = IF setup.phases = <<>> THEN Items ELSE <<setup.phases[1]>>
          /\ UNCHANGED exit
  /\ UNCHANGED <<setup, vItem, results, runs, book, faults>>

(* The first failure ends the loop. *)
Finish(status, lines, truth) ==
  /\ results' = Append(results, StepResult(Head(todo), status, lines, truth))
  /\ IF status = "FAIL" THEN pc' = "report" /\ UNCHANGED todo
     ELSE pc' = "loop" /\ todo' = Tail(todo)
  /\ log' = <<>> /\ real' = Nothing /\ queue' = <<>> /\ stack' = <<>>
  /\ UNCHANGED <<setup, outer, runs, book, exit>>

(* The log file cannot be created: a failed step without a case. *)
CannotLog ==
  /\ pc = "loop" /\ todo # <<>>
  /\ Fault
  /\ results' = Append(results,
       [StepResult(Head(todo), "FAIL", <<>>, Nothing) EXCEPT !.logged = FALSE, !.FAIL = <<>>])
  /\ pc' = "report"
  /\ UNCHANGED <<setup, outer, todo, vItem, runs, book, exit>>

(* make clean, init or run fails: go test is not reached. *)
SetupFails ==
  /\ pc = "loop" /\ todo # <<>>
  /\ Fault
  /\ Finish("FAIL", <<>>, Nothing)

GoTest ==
  /\ pc = "loop" /\ todo # <<>>
  /\ pc' = "testing"
  /\ queue' = Head(todo).tests
  /\ UNCHANGED <<setup, outer, todo, stack, log, real, results, runs, book, exit, faults>>

Frame(t) == [test |-> t, ran |-> {}, out |-> <<>>, failed |-> FALSE]
Top == Last(stack)
Writes(lines) == log' = log \o lines
InTest == pc = "testing" /\ stack # <<>>
vRun == <<setup, pc, outer, todo, results, runs, book, exit>>

RunTest ==
  /\ pc = "testing" /\ stack = <<>> /\ queue # <<>>
  /\ stack' = <<Frame(Head(queue))>>
  /\ queue' = Tail(queue)
  /\ Writes(<<NameLine("run", Head(queue))>>)
  /\ UNCHANGED <<vRun, real, faults>>

RunSub(s) ==
  /\ InTest /\ Len(stack) = 1 /\ s \in SubsOf(Top.test) \ Top.ran
  /\ stack' = Append([stack EXCEPT ![1].ran = @ \cup {s}], Frame(s))
  /\ Writes(<<NameLine("run", s)>>)
  /\ UNCHANGED <<vRun, queue, real, faults>>

(* A test says Deferred: once at most. Its line is late when a subtest of its *)
(* own has run since it started.                                              *)
Say ==
  /\ InTest /\ Top.test \notin real.said
  /\ real' = [real EXCEPT !.said = @ \cup {Top.test}, !.late = @ \/ Top.ran # {}]
  /\ Writes(<<NameLine("deferred", NoTest)>>)
  /\ UNCHANGED <<vRun, queue, stack, faults>>

WriteLongLine ==
  /\ InTest /\ Fault
  /\ real' = [real EXCEPT !.cut = TRUE]
  /\ Writes(<<LongLine>>)
  /\ UNCHANGED <<vRun, queue, stack>>

Ended(t, status, d) ==
  real' = [real EXCEPT !.ended = @ \cup {[name |-> t, dur |-> d,
    status |-> IF status = "SKIP" /\ t \in real.said THEN "DEFERRED" ELSE status]}]

(* The line of a subtest that ended is held back until its parent ends, and *)
(* a parent fails with a subtest.                                           *)
EndSub(status) ==
  /\ InTest /\ Len(stack) = 2
  /\ stack' = <<[stack[1] EXCEPT
       !.out = Append(@, EndLine(status, Case(Top.test, setup.short))),
       !.failed = @ \/ status = "FAIL"]>>
  /\ Ended(Top.test, status, setup.short)
  /\ UNCHANGED <<vRun, queue, log, faults>>

EndTest(status, d) ==
  /\ InTest /\ Len(stack) = 1
  /\ Top.failed => status = "FAIL"
  /\ stack' = <<>>
  /\ Writes(<<EndLine(status, Case(Top.test, d))>> \o Top.out)
  /\ Ended(Top.test, status, d)
  /\ UNCHANGED <<vRun, queue, faults>>

(* The test binary dies, or the time of go test is over: what was running    *)
(* has no last line, lines held back are lost, and nothing runs after it.    *)
TestsDie ==
  /\ InTest /\ Fault
  /\ Finish("FAIL", log, [real EXCEPT !.cut = @ \/ stack[1].out # <<>>])

(* make stop follows, and its failure is ignored. *)
GoTestDone ==
  /\ pc = "testing" /\ stack = <<>> /\ queue = <<>>
  /\ Finish(IF \E c \in real.ended : c.status = "FAIL" THEN "FAIL" ELSE "PASS", log, real)
  /\ UNCHANGED faults

LoopDone ==
  /\ pc = "loop" /\ todo = <<>>
  /\ pc' = "report"
  /\ UNCHANGED <<setup, outer, todo, vItem, results, runs, book, exit, faults>>

Losses == {"none", "report", "summary", "manifest"}
Damages == {"none", "noisy", "gone", "unreadable"}

Damage(lost, harm) ==
  LET cost == Cardinality({1 : x \in {lost} \ {"none"}}) + Cardinality({2 : x \in {harm} \ {"none"}})
  IN  cost <= faults /\ faults' = faults - cost

(* A file of the run, as the set of what is in it: they are written one      *)
(* after the other, and the first that cannot be written ends the run.       *)
UpTo == [report |-> {"report"}, summary |-> {"report", "summary"},
         manifest |-> {"report", "summary", "manifest"}]
File(name, lost, content) == IF lost \in UpTo[name] THEN {} ELSE {content}

(* The end of a run: one of the three files may not be written. The run of a *)
(* phase leaves its summary and its log to the group step, which learns of   *)
(* the summary only when all were written, and a phase that fails is the     *)
(* last one. A line too long for the scanner may come before what the phase  *)
(* prints, its log may be gone, its summary be unreadable.                   *)
Report(lost, harm) ==
  /\ pc = "report" /\ Damage(lost, harm)
  /\ outer => harm = "none"
  /\ LET stats == WriteReport(results, Flags)
         failed == HadFailure(results, stats, Flags)
         code == IF failed \/ lost # "none" THEN 1 ELSE 0
         phase == setup.phases[Len(runs) + 1]
         next == Len(runs) + 2
     IN IF outer
        THEN /\ book' = [report |-> File("report", lost, stats),
                         summary |-> File("summary", lost,
                                          BuildRunSummary(results, stats, failed, "", <<>>)),
                         manifest |-> File("manifest", lost, BuildRunManifest(results)),
                         lost |-> lost]
             /\ exit' = code /\ pc' = "done"
             /\ UNCHANGED <<todo, results, runs>>
        ELSE /\ runs' = Append(runs,
                  [results |-> results, exit |-> code, announced |-> lost = "none",
                   noisy |-> harm = "noisy", gone |-> harm = "gone",
                   readable |-> harm # "unreadable",
                   summary |-> BuildRunSummary(results, stats, failed, phase.pattern, <<>>)])
             /\ results' = <<>>
             /\ IF code = 1 \/ next > Len(setup.phases)
                THEN pc' = "group" /\ todo' = <<>>
                ELSE pc' = "loop" /\ todo' = <<setup.phases[next]>>
             /\ UNCHANGED <<book, exit>>
  /\ UNCHANGED <<setup, outer, vItem>>

(* make test-group ends with the first phase that fails; it may fail itself. *)
EndGroup(d, fails) ==
  /\ pc = "group"
  /\ IF fails THEN Fault ELSE UNCHANGED faults
  /\ LET status == IF fails \/ \E i \in DOMAIN runs : runs[i].exit = 1 THEN "FAIL" ELSE "PASS" IN
       results' = <<GroupResult(runs, status, d)>>
  /\ outer' = TRUE /\ pc' = "report"
  /\ UNCHANGED <<setup, todo, vItem, runs, book, exit>>

Next ==
  \/ Begin \/ CannotLog \/ SetupFails \/ GoTest
  \/ RunTest \/ (\E s \in DOMAIN Parent : RunSub(s)) \/ Say \/ WriteLongLine
  \/ \E status \in {"PASS", "FAIL", "SKIP"} :
       EndSub(status) \/ \E d \in setup.times : EndTest(status, d)
  \/ TestsDie \/ GoTestDone \/ LoopDone
  \/ \E lost \in Losses, harm \in Damages : Report(lost, harm)
  \/ \E d \in setup.times, fails \in BOOLEAN : EndGroup(d, fails)

Spec == Init /\ [][Next]_vars

--------------------------------------------------------------------------------
(* Properties. *)

Truly(r, status) == {Case(c.name, c.dur) : c \in {c \in r.real.ended : c.status = status}}
Named(r, status) == {c \in ToSet(r[status]) : c.dur # Untimed}

(* The cases of a step are those that really ended so, none is invented, and *)
(* none is missing unless its line was never read. A skipped case is told    *)
(* from a deferred one unless a parent spoke after its subtest.              *)
StepCasesTrue ==
  \A r \in ToSet(results) : ~r.group =>
    /\ \A s \in {"PASS", "FAIL"} :
         Named(r, s) \subseteq Truly(r, s) /\ (~r.real.cut => Named(r, s) = Truly(r, s))
    /\ LET left == Named(r, "SKIP") \cup Named(r, "DEFERRED")
           truly == Truly(r, "SKIP") \cup Truly(r, "DEFERRED")
       IN  left \subseteq truly /\ (~r.real.cut => left = truly)
    /\ ~r.real.cut /\ ~r.real.late => Named(r, "DEFERRED") = Truly(r, "DEFERRED")

(* A step that failed names a case, whatever happened in its log, and one    *)
(* that passed names none as failed. A step whose log could not even be      *)
(* created is the exception: ci.go gives up on it before it adds a case      *)
(* (ci.go:600-603).                                                          *)
FailNamed ==
  \A r \in ToSet(results) :
    /\ r.status = "FAIL" /\ r.logged => r.FAIL # <<>>
    /\ r.status = "PASS" => r.FAIL = <<>>

AllShown == \A i \in DOMAIN runs : runs[i].announced /\ runs[i].readable /\ ~runs[i].noisy

(* The group counts what its phases counted, also when their logs are gone;  *)
(* a step that failed without a case counts as one.                          *)
OuterAddsUp ==
  \A r \in ToSet(results) : r.group /\ AllShown =>
    \A s \in Statuses :
      LET steps == FlattenSeq([i \in DOMAIN runs |-> runs[i].summary.steps])
          counted(step) ==
            IF s = "FAIL" /\ step.status = "FAIL" /\ step.count[s] = 0 THEN 1 ELSE step.count[s]
          sum == AddUp([j \in DOMAIN steps |-> counted(steps[j])])
      IN  Len(r[s]) = IF s = "FAIL" /\ r.status = "FAIL" /\ sum = 0 THEN 1 ELSE sum

RealSteps ==
  IF setup.phases = <<>> THEN results
  ELSE FlattenSeq([i \in DOMAIN runs |-> runs[i].results])

TrueCount(Test(_)) ==
  AddUp([i \in DOMAIN RealSteps |-> Cardinality({c \in RealSteps[i].real.ended : Test(c)})])

Hidden ==
  \/ ~AllShown \/ \E i \in DOMAIN runs : runs[i].gone
  \/ \E r \in ToSet(RealSteps) : r.real.cut \/ r.real.late

(* Exit code 0: no test that ran has failed, none of the logs broke off with *)
(* a failure, the limits hold of what happened, as far as it was shown, and  *)
(* all three files are there and say that the run passed. Exit code 1 has a  *)
(* cause, and no limit is charged for what did not happen. A step that       *)
(* failed shows in the exit code and in every file that was written.         *)
RunExact ==
  pc = "done" /\ book # <<>> =>
    LET flags == Flags
        slow == TrueCount(LAMBDA c : c.dur >= flags.slow)
        skips == TrueCount(LAMBDA c : c.status = "SKIP")
        over ==
          \/ flags.slowFail /\ slow > 0
          \/ flags.maxSkips >= 0 /\ skips > flags.maxSkips
          \/ flags.timeFail /\ \E r \in ToSet(results) : r.group /\ r.took >= flags.time
        failed == \E r \in ToSet(results) : r.status = "FAIL"
    IN  /\ exit = 0 =>
             /\ \A r \in ToSet(RealSteps) : r.status = "PASS" /\ Truly(r, "FAIL") = {}
             /\ Hidden \/ ~over
             /\ book.report # {} /\ \A f \in book.report : f.totals["FAIL"] = 0
             /\ book.summary # {}
             /\ \A f \in book.summary : f.status = "PASS" /\ f.failedSteps = 0
             /\ book.manifest # {}
             /\ \A f \in book.manifest : \A n \in DOMAIN f.stepStatus : f.stepStatus[n] = "PASS"
        /\ exit = 1 => over \/ failed \/ book.lost # "none" \/ Hidden
        /\ failed =>
             /\ exit = 1
             /\ \A f \in book.summary : f.status = "FAIL"
             /\ \A f \in book.manifest : \E n \in DOMAIN f.stepStatus : f.stepStatus[n] = "FAIL"

(* What a reader of the reports relies on, in one: the cases of every step,  *)
(* the failures named, the sums of a group, and the exit code.               *)
ReportsTrue == StepCasesTrue /\ FailNamed /\ OuterAddsUp /\ RunExact

================================================================================
