------------------------------- MODULE ConfigStore -------------------------------
(***************************************************************************)
(* What EnsureConfig promises, without proposals and votes: a write to one *)
(* of several parameters.  A write that succeeds has been seen in its      *)
(* place.  A write that was given up on is owed: it may be carried out at  *)
(* any later time, over whatever is there by then.                         *)
(***************************************************************************)
EXTENDS Integers

CONSTANTS
  Writes,      \* what can be asked for, [cid, val] records
  Default,     \* the values at the beginning
  NoRequest,   \* no write is going on
  None         \* no value

VARIABLES
  value,       \* the parameters
  request,     \* the write that is going on
  owed,        \* writes given up on that may still be carried out
  settled      \* the values known from a success, None where nothing is known

vars == <<value, request, owed, settled>>

Init ==
  /\ value = Default /\ request = NoRequest /\ owed = {}
  /\ settled = [c \in DOMAIN Default |-> None]

\* a write that finds its value in place is done at once
Ask(w) ==
  /\ request = NoRequest
  /\ IF value[w.cid] = w.val
     THEN settled' = [settled EXCEPT ![w.cid] = w.val] /\ request' = request
     ELSE settled' = [settled EXCEPT ![w.cid] = None] /\ request' = w
  /\ UNCHANGED <<value, owed>>

CarryOut ==
  /\ request # NoRequest
  /\ value' = [value EXCEPT ![request.cid] = request.val]
  /\ UNCHANGED <<request, owed, settled>>

CarryOutOwed(w) ==
  /\ w \in owed
  /\ owed' \in {owed, owed \ {w}}
  /\ value' = [value EXCEPT ![w.cid] = w.val]
  /\ settled' = IF settled[w.cid] = w.val THEN settled ELSE [settled EXCEPT ![w.cid] = None]
  /\ UNCHANGED request

\* a write that is owed turns out to be without effect
Drop(w) ==
  /\ w \in owed /\ owed' = owed \ {w}
  /\ UNCHANGED <<value, request, settled>>

\* the write goes on, is reported as failed or is forgotten, and part of it
\* is left behind
GiveUp ==
  /\ request # NoRequest
  /\ owed' \in {owed, owed \cup {request}}
  /\ request' \in {request, NoRequest}
  /\ UNCHANGED <<value, settled>>

Succeed ==
  /\ request # NoRequest /\ value[request.cid] = request.val
  /\ owed' \in {owed, owed \cup {request}}
  /\ request' = NoRequest
  /\ settled' = [settled EXCEPT ![request.cid] = request.val]
  /\ UNCHANGED value

\* somebody reads
Learn(c) ==
  /\ request = NoRequest
  /\ settled' = [settled EXCEPT ![c] = value[c]]
  /\ UNCHANGED <<value, request, owed>>

Next ==
  \/ \E w \in Writes : Ask(w)
  \/ \E w \in owed : CarryOutOwed(w) \/ Drop(w)
  \/ \E c \in DOMAIN Default : Learn(c)
  \/ CarryOut \/ GiveUp \/ Succeed

Spec == Init /\ [][Next]_vars

(* What is known stays so until a write for the same parameter is asked    *)
(* for or one that is owed is carried out.                                 *)
Known == \A c \in DOMAIN Default : settled[c] # None => value[c] = settled[c]

==================================================================================
