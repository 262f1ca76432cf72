------------------------------ MODULE WeiSums ------------------------------
(***************************************************************************)
(* The total of a finite number of holdings.  A holding of n is the n      *)
(* units of 10^-18 it consists of, each tagged with its holder, and the    *)
(* total is the number of tagged units.  Counting rather than folding      *)
(* makes the laws of totals consequences of those of finite cardinality.   *)
(***************************************************************************)
EXTENDS Integers, FiniteSets

Units(f) == UNION {{h} \X (1 .. f[h]) : h \in DOMAIN f}

Total(f) == Cardinality(Units(f))

=============================================================================
