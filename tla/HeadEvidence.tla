------------------------------- MODULE HeadEvidence -------------------------------
(* One attempt of the liveness reproduction test: it looks at the heads of    *)
(* three validators, one node after the other while they move on, until the   *)
(* two that are not next in turn seem to sit on sibling blocks, looks some    *)
(* more times, stops the validator whose turn it is, looks again, and says    *)
(* what has become of the split. A head is a height and the rank of a block   *)
(* among the siblings of that height: a node leaves a block for one of higher *)
(* rank or height, never the other way.                                       *)
EXTENDS Lists

CONSTANTS
  Urls,        \* the nodes to look at, in order, as the configuration lists them
  Cases,       \* who signs, by the contract and by the configuration; the logs
  Siblings,    \* blocks there may be at each height
  Probes,      \* readings that confirm a window
  PostProbes,  \* readings after the stop
  MinSplits,   \* of these, how many have to show the split
  MaxPolls,    \* bound: looks for a window, the time the test has
  MaxErrors,   \* bound: calls without an answer
  MaxLines,    \* lines of a log that are kept as evidence
  MaxRecent    \* blocks whose signers are

VARIABLES
  case,      \* the lookups of signers, and the logs of the nodes
  head,      \* per node, what it sits on
  stopped,   \* the node that was stopped, 0 for none
  work,      \* search, confirm, probe, stop, post, judge, restart, over
  read,      \* the samples of the observation going on
  polls,     \* looks for a window so far
  window,    \* target height, target node and survivors of the candidate
  good,      \* probes that confirmed it
  seen,      \* after the stop: probes, those that show the split, or agreement
  class,     \* what became of the split after the stop
  result,    \* of the attempt
  evidence,  \* what is kept of the logs and of the chain
  splits,    \* pairs of nodes that sat on siblings of a height at one moment,
             \* since the window was seen first, or since the stop
  errors

headVars == <<case, head, stopped, work, read, polls, window, good, seen, class, result, evidence,
              splits, errors>>
attempt == <<polls, window, good, seen, class, result, evidence>>

Nodes == {1, 2, 3}
NoWindow == [height |-> 0, target |-> 0, survivors |-> <<>>]
Unseen == [probes |-> 0, split |-> 0, agreed |-> 0, missing |-> FALSE, advanced |-> FALSE]
NoSample == [height |-> 0, rank |-> 0]
First == [height |-> 1, rank |-> 1]
Top == Len(Siblings)

Init ==
  /\ case \in Cases
  /\ head = [n \in Nodes |-> First]
  /\ stopped = 0 /\ work = "search" /\ read = <<>> /\ polls = 0
  /\ window = NoWindow /\ good = 0 /\ seen = Unseen /\ class = "" /\ result = "" /\ evidence = <<>>
  /\ splits = {} /\ errors = 0

--------------------------------------------------------------------------------
(* The nodes. *)

Pairs(h) == {<<p, h[p[1]].height>> : p \in
  {p \in Nodes \X Nodes : p[1] < p[2] /\ h[p[1]].height = h[p[2]].height
                                      /\ h[p[1]].rank # h[p[2]].rank}}

HeadMoves(n) ==
  /\ n # stopped /\ work # "over"
  /\ \E height \in {head[n].height, head[n].height + 1} \cap 1..Top :
       \E rank \in 1..Siblings[height] :
         /\ height = head[n].height => rank > head[n].rank
         /\ head' = [head EXCEPT ![n] = [height |-> height, rank |-> rank]]
  /\ splits' = splits \cup Pairs(head')
  /\ UNCHANGED <<case, stopped, work, read, attempt, errors>>

--------------------------------------------------------------------------------
(* One observation. *)

(* A node that is listed twice is asked once, where it is listed first. *)
ObserveHeads ==
  LET taken[n \in 0..Len(Urls)] ==
        IF n = 0 THEN <<>>
        ELSE IF Urls[n] \in ToSet(taken[n - 1]) THEN taken[n - 1]
        ELSE Append(taken[n - 1], Urls[n])
  IN  taken[Len(Urls)]

Observing == work \in {"search", "confirm", "probe", "post"} /\ Len(read) < Len(ObserveHeads)
Observed == Len(read) = Len(ObserveHeads)

ObserveRPCHead(answers) ==
  /\ Observing
  /\ LET n == ObserveHeads[Len(read) + 1] IN
       IF answers THEN n # stopped /\ read' = Append(read, head[n]) /\ UNCHANGED errors
       ELSE /\ read' = Append(read, NoSample)
            /\ n # stopped => errors < MaxErrors
            /\ errors' = IF n = stopped THEN errors ELSE errors + 1
  /\ UNCHANGED <<case, head, stopped, work, attempt, splits>>

(* The heights at which two samples differ. *)
SameHeightHashConflicts ==
  {read[i].height : i \in {i \in DOMAIN read : read[i] # NoSample /\
     \E j \in DOMAIN read : read[j].height = read[i].height /\ read[j].rank # read[i].rank}}

FindValidatorHeadSample(n) ==
  LET i == {i \in DOMAIN ObserveHeads : ObserveHeads[i] = n} IN
    IF i = {} THEN NoSample ELSE read[Min(i)]

Current(w) == w.height - 1
SampleOf(w, i) == FindValidatorHeadSample(w.survivors[i])

(* Both survivors are one below the target height, on different blocks. *)
OnSiblings(w) ==
  /\ SampleOf(w, 1).height = Current(w) /\ SampleOf(w, 2).height = Current(w)
  /\ SampleOf(w, 1).rank # SampleOf(w, 2).rank

--------------------------------------------------------------------------------
(* The search for a window. *)

(* Mutant of SelectInTurnSignerAtHeight: the one whose turn it was. *)
SelectInTurnSignerAtHeight_before(height) == case.signers[((height - 1) % Len(case.signers)) + 1]

SelectInTurnSignerAtHeight(height) == case.signers[(height % Len(case.signers)) + 1]

(* The validator of a signer: by the contract, by its history, by the         *)
(* configuration, which may be older; else the signer itself, not a validator. *)
ValidatorAddressBySigner(signer, answered) ==
  IF answered /\ signer \in DOMAIN case.contract THEN case.contract[signer]
  ELSE IF answered /\ signer \in DOMAIN case.history THEN case.history[signer]
  ELSE IF signer \in DOMAIN case.config THEN case.config[signer]
  ELSE signer

OtherValidators(target) ==
  LET But(n) == IF n = target THEN <<>> ELSE <<n>>
  IN  But(1) \o But(2) \o But(3)

Candidate(answered) ==
  LET height == Max(SameHeightHashConflicts) + 1
      target == ValidatorAddressBySigner(SelectInTurnSignerAtHeight(height), answered)
  IN  [height |-> height, target |-> target, survivors |-> OtherValidators(target)]

Fresh == read' = <<>> /\ UNCHANGED <<case, head, stopped>>

(* Look again, unless the time is over. *)
PollAgain ==
  /\ polls' = polls + 1
  /\ IF polls + 1 < MaxPolls THEN work' = "search" /\ UNCHANGED result
     ELSE work' = "over" /\ result' = "window_miss"
  /\ window' = NoWindow /\ good' = 0
  /\ UNCHANGED <<seen, class, evidence, splits>>

NoConflict ==
  /\ work = "search" /\ Observed /\ SameHeightHashConflicts = {}
  /\ PollAgain
  /\ Fresh /\ UNCHANGED errors

Conflict(answered) ==
  /\ work = "search" /\ Observed /\ SameHeightHashConflicts # {}
  /\ ~answered => errors < MaxErrors
  /\ errors' = IF answered THEN errors ELSE errors + 1
  /\ IF Len(Candidate(answered).survivors) = 2
     THEN /\ window' = Candidate(answered)
          /\ work' = "confirm"
          /\ splits' = Pairs(head)
          /\ UNCHANGED <<polls, good, seen, class, result, evidence>>
     ELSE PollAgain
  /\ Fresh

ConfirmCompetingStopWindow ==
  /\ work = "confirm" /\ Observed
  /\ IF OnSiblings(window) /\ FindValidatorHeadSample(window.target).height <= window.height
     THEN work' = "probe" /\ UNCHANGED <<attempt, splits>>
     ELSE PollAgain
  /\ Fresh /\ UNCHANGED errors

(* Mutant of WindowStable: the probe may have come when one of them moved on. *)
WindowStable_drift ==
  /\ SampleOf(window, 1) # NoSample /\ SampleOf(window, 2) # NoSample
  /\ SampleOf(window, 1) # SampleOf(window, 2)

WindowStable ==
  OnSiblings(window) /\ FindValidatorHeadSample(window.target).height <= Current(window)

(* The code judges the probes after the last one; the first bad one decides. *)
StableSiblingWindow ==
  /\ work = "probe" /\ Observed
  /\ IF WindowStable
     THEN /\ good' = good + 1
          /\ work' = IF good + 1 = Probes THEN "stop" ELSE "probe"
          /\ UNCHANGED <<polls, window, seen, class, result, evidence, splits>>
     ELSE PollAgain
  /\ Fresh /\ UNCHANGED errors

--------------------------------------------------------------------------------
(* The stop, and what became of the split. *)

StopValidatorNode ==
  /\ work = "stop"
  /\ stopped' = window.target
  /\ work' = "post"
  /\ splits' = Pairs(head)
  /\ UNCHANGED <<case, head, read, attempt, errors>>

(* The test ends at once: a node that went down all the same stays down. *)
StopFails ==
  /\ work = "stop" /\ errors < MaxErrors
  /\ errors' = errors + 1
  /\ stopped' \in {0, window.target}
  /\ work' = "over" /\ result' = "fatal"
  /\ UNCHANGED <<case, head, read, polls, window, good, seen, class, evidence, splits>>

(* A missing sample and an advance end the reading of the probes. *)
SeeProbe ==
  LET left == SampleOf(window, 1)
      right == SampleOf(window, 2)
      step == [seen EXCEPT !.probes = @ + 1]
  IN  IF seen.missing \/ seen.advanced THEN step
      ELSE IF left = NoSample \/ right = NoSample THEN [step EXCEPT !.missing = TRUE]
      ELSE IF Max({left.height, right.height}) >= window.height THEN [step EXCEPT !.advanced = TRUE]
      ELSE IF OnSiblings(window) THEN [step EXCEPT !.split = @ + 1]
      ELSE IF left = right THEN [step EXCEPT !.agreed = @ + 1]
      ELSE step

(* Mutant of ClassifyPostStopObservation: one probe is enough. *)
ClassifyPostStopObservation_one(s) ==
  IF s.missing THEN "settled_without_split"
  ELSE IF s.advanced THEN "advanced_immediately"
  ELSE IF s.split >= 1 THEN "still_split_same_height"
  ELSE IF s.agreed > 0 THEN "converged_immediately"
  ELSE "settled_without_split"

ClassifyPostStopObservation(s) ==
  IF s.missing THEN "settled_without_split"
  ELSE IF s.advanced THEN "advanced_immediately"
  ELSE IF s.split >= MinSplits THEN "still_split_same_height"
  ELSE IF s.agreed > 0 THEN "converged_immediately"
  ELSE "settled_without_split"

PostStopObservation ==
  /\ work = "post" /\ Observed
  /\ seen' = SeeProbe
  /\ IF seen'.probes < PostProbes THEN UNCHANGED <<work, class>>
     ELSE work' = "judge" /\ class' = ClassifyPostStopObservation(seen')
  /\ UNCHANGED <<polls, window, good, result, evidence, splits, errors>>
  /\ Fresh

--------------------------------------------------------------------------------
(* The evidence, and the end. *)

(* Mutant of TailMatchingLogLines: the first lines instead of the last. *)
TailMatchingLogLines_first(log, kind) ==
  LET all == SelectSeq([i \in DOMAIN log |-> i], LAMBDA i : log[i] = kind)
  IN  SubSeq(all, 1, Min({Len(all), MaxLines}))

(* From the end of the log backwards, then in the order of the log. *)
TailMatchingLogLines(log, kind) ==
  LET kept[n \in 0..Len(log)] ==
        IF n = 0 THEN <<>>
        ELSE LET i == Len(log) - n + 1
             IN  IF log[i] = kind /\ Len(kept[n - 1]) < MaxLines
                 THEN <<i>> \o kept[n - 1] ELSE kept[n - 1]
  IN  kept[Len(log)]

(* The heights RecentCoinbases asks for; genesis has no signer. *)
RecentHeights(latest) == (IF latest >= MaxRecent THEN latest - MaxRecent + 1 ELSE 1)..latest

CollectConsensusConflictEvidence ==
  [lines |-> [n \in ToSet(window.survivors) |->
     [k \in {"competing", "recently"} |-> TailMatchingLogLines(case.logs[n], k)]],
   observed |-> {k \in {"competing", "recently"} : \E n \in ToSet(window.survivors) :
                   TailMatchingLogLines(case.logs[n], k) # <<>>},
   recent |-> RecentHeights(head[window.survivors[1]].height)]

Progress == Max({head[n].height : n \in Nodes \ {stopped}})

(* A split that lasted is followed by a wait for the target height, which *)
(* ends with it or, once nothing has moved for long enough, without it.   *)
Verdict ==
  IF Progress > window.height THEN "window_miss"
  ELSE IF class = "advanced_immediately" THEN "pass"
  ELSE IF class # "still_split_same_height" THEN "window_miss"
  ELSE IF Progress >= window.height THEN "pass" ELSE "reproduced"

Judge ==
  /\ work = "judge"
  /\ result' = Verdict
  /\ evidence' = CollectConsensusConflictEvidence
  /\ work' = "restart"
  /\ UNCHANGED <<case, head, stopped, read, polls, window, good, seen, class, splits, errors>>

(* The deferred restart; the test goes on without the node if it fails. *)
RestartValidatorNode(ok) ==
  /\ work = "restart"
  /\ ~ok => errors < MaxErrors
  /\ errors' = IF ok THEN errors ELSE errors + 1
  /\ stopped' = IF ok THEN 0 ELSE stopped
  /\ work' = "over"
  /\ UNCHANGED <<case, head, read, attempt, splits>>

Next ==
  \/ \E n \in Nodes : HeadMoves(n)
  \/ \E b \in BOOLEAN : ObserveRPCHead(b) \/ Conflict(b) \/ RestartValidatorNode(b)
  \/ NoConflict \/ ConfirmCompetingStopWindow \/ StableSiblingWindow
  \/ StopValidatorNode \/ StopFails \/ PostStopObservation \/ Judge

Spec == Init /\ [][Next]_headVars

--------------------------------------------------------------------------------
(* The survivors sat on siblings below the target at one moment since the     *)
(* window was seen first, or since the stop.                                  *)
ReallySplit == <<<<window.survivors[1], window.survivors[2]>>, Current(window)>> \in splits

LastLines(log, kind) ==
  {i \in DOMAIN log : log[i] = kind /\
     Cardinality({j \in DOMAIN log : j > i /\ log[j] = kind}) < MaxLines}

(* A node is stopped only if it is the one that signs next, whatever lookup    *)
(* failed, and only if the other two really sat on siblings at one moment,     *)
(* although no moment was looked at as a whole. A split that is said to have   *)
(* outlived the stop was there after it. The evidence is the last lines of the *)
(* survivors' logs, and the node that was stopped is started again.            *)
HeadsTrue ==
  /\ work = "stop" =>
       /\ window.target = case.contract[case.signers[(window.height % 3) + 1]]
       /\ ReallySplit
  /\ class = "still_split_same_height" => ReallySplit
  /\ evidence # <<>> =>
       \A n \in DOMAIN evidence.lines, k \in {"competing", "recently"} :
         /\ ToSet(evidence.lines[n][k]) = LastLines(case.logs[n], k)
         /\ evidence.lines[n][k] # <<>> => k \in evidence.observed
  /\ work = "over" /\ errors = 0 => stopped = 0

================================================================================
