---------------------------------- MODULE Lists ----------------------------------
(* The few operators on lists and on sets of numbers that the modules of       *)
(* MCSuite share. A proof about MCSuite has a copy of every operator in reach  *)
(* of each of its instances, and the libraries of sequences hold hundreds.     *)
EXTENDS Integers, Sequences, FiniteSets

ToSet(list) == {list[n] : n \in DOMAIN list}
Last(list) == list[Len(list)]

Max(numbers) == CHOOSE x \in numbers : \A y \in numbers : x >= y
Min(numbers) == CHOOSE x \in numbers : \A y \in numbers : x <= y

(* The lists of a list, one behind the other. *)
FlattenSeq(lists) ==
  LET flat[n \in 1..Len(lists)] == IF n = 1 THEN lists[n] ELSE flat[n - 1] \o lists[n]
  IN  IF Len(lists) = 0 THEN <<>> ELSE flat[Len(lists)]

(* The members of a set in some order. *)
IsInjective(f) == \A m, n \in DOMAIN f : f[m] = f[n] => m = n
SetToSeq(set) == CHOOSE f \in [1..Cardinality(set) -> set] : IsInjective(f)

================================================================================
