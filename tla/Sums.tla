-------------------------------- MODULE Sums --------------------------------
(***************************************************************************)
(* The sum of a function with natural values over a finite set, counted as *)
(* the units it consists of: x stands for f[x] units <<x, 1>> ... <<x,     *)
(* f[x]>>.  A sum is thus a cardinality, whose laws are known to the       *)
(* provers, where a fold would need induction over data.                   *)
(***************************************************************************)
EXTENDS Naturals, FiniteSets

Units(f, S) == UNION {{x} \X (1..f[x]) : x \in S}

Total(f, S) == Cardinality(Units(f, S))
=============================================================================
