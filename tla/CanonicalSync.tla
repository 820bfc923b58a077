------------------------------ MODULE CanonicalSync ------------------------------
(***************************************************************************)
(* WaitForValidatorCanonicalSync of internal/testkit/chain_window.go: after *)
(* a validator was restarted, a test waits until its node follows the      *)
(* others, by comparing the head of the node with the heads of the other   *)
(* nodes, asked one after the other while all of them move.                *)
(*                                                                         *)
(* A chain is a sequence of branch names, one per block, and two blocks    *)
(* are the same when the chains up to them are.  A node extends its chain  *)
(* or goes over to a longer one of another node.                           *)
(***************************************************************************)
EXTENDS Integers, Sequences, FiniteSets

CONSTANTS
  References,  \* the other nodes, 1..References in the order they are asked
  Branches,    \* names that tell blocks of one height apart
  Stable,      \* blocks that the match has to last, at least 1
  MaxHeight,   \* bound: heights
  MaxPolls     \* the timeout, in polls, at least 1

Validator == 0
Nodes == 0..References
Chains == UNION {[1..k -> Branches] : k \in 0..MaxHeight}

VARIABLES
  chain,       \* per node: its canonical chain
  haveTarget, target,         \* head of the validator's node in this sample
  asked,       \* references asked in this sample
  matched, highestRef,        \* what they have shown
  haveMatchedStart, matchedStart,
  polls, res,
  \* history, since matchedStart was set
  behind       \* a sample has shown the validator behind and on no head

sample == <<haveTarget, target, asked, matched, highestRef>>
streak == <<haveMatchedStart, matchedStart>>
vars == <<chain, sample, streak, polls, res, behind>>

Init ==
  /\ chain \in [Nodes -> {<<>>} \cup [1..1 -> Branches]]
  /\ haveTarget = FALSE /\ target = <<>> /\ asked = 0 /\ matched = FALSE /\ highestRef = 0
  /\ haveMatchedStart = FALSE /\ matchedStart = 0
  /\ polls = 0 /\ res = "running" /\ behind = FALSE

-----------------------------------------------------------------------------
Extend(n) ==
  /\ res = "running" /\ Len(chain[n]) < MaxHeight
  /\ \E b \in Branches : chain' = [chain EXCEPT ![n] = Append(@, b)]
  /\ UNCHANGED <<sample, streak, polls, res, behind>>

Adopt(n, m) ==
  /\ res = "running" /\ Len(chain[m]) > Len(chain[n])
  /\ chain' = [chain EXCEPT ![n] = chain[m]]
  /\ UNCHANGED <<sample, streak, polls, res, behind>>

-----------------------------------------------------------------------------
\* Mutant of AskValidator: a poll without an answer is not the last one.
AskValidator_uncounted ==
  /\ res = "running" /\ ~haveTarget
  /\ \/ haveTarget' = TRUE /\ target' = chain[Validator] /\ polls' = polls
     \/ polls' = polls + 1 /\ UNCHANGED <<haveTarget, target>>
  /\ asked' = 0 /\ matched' = FALSE /\ highestRef' = 0
  /\ UNCHANGED <<chain, streak, res, behind>>

\* the head of the validator; without an answer the poll is over
AskValidator ==
  /\ res = "running" /\ ~haveTarget /\ polls < MaxPolls
  /\ \/ haveTarget' = TRUE /\ target' = chain[Validator] /\ polls' = polls
     \/ polls' = polls + 1 /\ UNCHANGED <<haveTarget, target>>
  /\ asked' = 0 /\ matched' = FALSE /\ highestRef' = 0
  /\ UNCHANGED <<chain, streak, res, behind>>

\* the head of the next reference, which may not answer
AskReference ==
  /\ res = "running" /\ haveTarget /\ asked < References
  /\ asked' = asked + 1
  /\ LET head == chain[asked + 1]
     IN \/ /\ highestRef' = IF Len(head) > highestRef THEN Len(head) ELSE highestRef
           /\ matched' = (matched \/ head = target)
        \/ UNCHANGED <<highestRef, matched>>
  /\ UNCHANGED <<chain, haveTarget, target, streak, polls, res, behind>>

Sampled == res = "running" /\ haveTarget /\ asked = References
Height == Len(target)
NextPoll ==
  /\ haveTarget' = FALSE /\ target' = <<>> /\ asked' = 0 /\ matched' = FALSE /\ highestRef' = 0
  /\ polls' = polls + 1

Match ==
  /\ Sampled /\ matched
  /\ matchedStart' = IF haveMatchedStart THEN matchedStart ELSE Height
  /\ haveMatchedStart' = TRUE
  /\ behind' = (haveMatchedStart /\ behind)
  /\ res' = IF Height >= matchedStart' + Stable THEN "ok" ELSE res
  /\ NextPoll /\ UNCHANGED chain

\* the streak ends only when a reference is ahead
NoMatchUnless(ends) ==
  /\ Sampled /\ ~matched
  /\ haveMatchedStart' = (haveMatchedStart /\ ~ends)
  /\ behind' = (behind \/ highestRef > Height)
  /\ NextPoll /\ UNCHANGED <<chain, matchedStart, res>>

\* Mutant of NoMatch: only the timeout ends a streak.
NoMatch_never == NoMatchUnless(FALSE)

NoMatch == NoMatchUnless(highestRef > Height)

\* Mutant of Timeout: a streak is not given up.
Timeout_hung ==
  /\ res = "running" /\ ~haveTarget /\ polls >= MaxPolls /\ haveMatchedStart
  /\ res' = "timeout"
  /\ UNCHANGED <<chain, sample, streak, polls, behind>>

Timeout ==
  /\ res = "running" /\ ~haveTarget /\ polls >= MaxPolls
  /\ res' = "timeout"
  /\ UNCHANGED <<chain, sample, streak, polls, behind>>

Wait == AskValidator \/ AskReference \/ Match \/ NoMatch \/ Timeout

Next ==
  \/ Wait
  \/ \E n \in Nodes : Extend(n)
  \/ \E n, m \in Nodes : Adopt(n, m)

Spec == Init /\ [][Next]_vars /\ WF_vars(Wait)

-----------------------------------------------------------------------------
TypeOK ==
  /\ chain \in [Nodes -> Chains] /\ haveTarget \in BOOLEAN /\ target \in Chains
  /\ asked \in 0..References /\ matched \in BOOLEAN /\ highestRef \in 0..MaxHeight
  /\ haveMatchedStart \in BOOLEAN /\ matchedStart \in 0..MaxHeight
  /\ polls \in 0..MaxPolls /\ res \in {"running", "ok", "timeout"}
  /\ behind \in BOOLEAN

(* Success: no sample since the first of the matches has shown the         *)
(* validator behind a reference without being on the head of one.          *)
NeverBehind == res = "ok" => ~behind

(* The wait ends.                                                          *)
Returns == <>(res # "running")

==================================================================================
