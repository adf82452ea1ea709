-------------------------------- MODULE Totals --------------------------------
(***************************************************************************)
(* Sums over the accounts of a ledger.  An amount of n base units held     *)
(* under a key is the set of n numbered units {key} \X (1..n), so that the *)
(* sum of a ledger is the number of its units.  For functions with a       *)
(* finite domain this is the usual sum; written this way, what a transfer  *)
(* does to a sum follows from facts about finite sets.                     *)
(***************************************************************************)
EXTENDS Integers, FiniteSets

Units(f) == UNION {{x} \X (1 .. f[x]) : x \in DOMAIN f}

Total(f) == Cardinality(Units(f))

(* The sum over some of the accounts.                                      *)
TotalOver(f, S) == Total([x \in S |-> f[x]])

===============================================================================
