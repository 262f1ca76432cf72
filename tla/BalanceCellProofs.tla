------------------------- MODULE BalanceCellProofs -------------------------
(***************************************************************************)
(* The invariants of BalanceCell, for every value of its constants.        *)
(***************************************************************************)
EXTENDS BalanceCell, BalanceWithDustProofs

\* Whatever += and -= are applied, the members stay in range (TypeOK), the
\* balance stands for the exact sum (ValueExact), and the checks refuse only
\* what does not fit (ChecksExact).
THEOREM CellCorrect == Spec => [](TypeOK /\ ValueExact /\ ChecksExact)
<1> DEFINE Inv == TypeOK /\ ValueExact
<1>1. Init => Inv
  BY BalanceAssumption DEF Init, TypeOK, ValueExact, ZeroBalance, Balance, Value
<1>2. Inv /\ [Next]_vars => Inv'
  <2> SUFFICES ASSUME Inv, [Next]_vars PROVE Inv'
    OBVIOUS
  <2>0. cell \in Balance /\ wei \in Nat /\ Value(cell) = wei
    BY DEF TypeOK, ValueExact
  <2>1. ASSUME NEW x \in Operands, PlusAssign(x) PROVE Inv'
    <3>1. x \in Nat
      BY OperandsAssumption
    <3>2. /\ cell' \in Balance
          /\ Value(cell') = Value(cell) + x
          /\ wei' = wei + x
      BY <2>0, <2>1, <3>1, AccumulateExact DEF PlusAssign
    <3> QED  BY <2>0, <3>1, <3>2 DEF TypeOK, ValueExact
  <2>2. ASSUME NEW x \in Operands, MinusAssign(x) PROVE Inv'
    <3>1. x \in Nat
      BY OperandsAssumption
    <3>2. /\ cell' \in Balance
          /\ Value(cell') = Value(cell) - x
          /\ x <= Value(cell)
          /\ wei' = wei - x
      BY <2>0, <2>2, <3>1, DeductExact DEF MinusAssign
    <3> QED  BY <2>0, <3>1, <3>2 DEF TypeOK, ValueExact
  <2>3. ASSUME UNCHANGED vars PROVE Inv'
    BY <2>3 DEF vars, TypeOK, ValueExact
  <2> QED  BY <2>1, <2>2, <2>3 DEF Next
<1>3. Inv => ChecksExact
  <2> SUFFICES ASSUME Inv, NEW x \in Operands
               PROVE  /\ CanAccumulate(cell, x) <=> wei + x <= MaxValue
                      /\ CanDeduct(cell, x) <=> x <= wei
    BY DEF ChecksExact
  <2>1. x \in Nat /\ cell \in Balance /\ Value(cell) = wei
    BY OperandsAssumption DEF TypeOK, ValueExact
  <2> QED  BY <2>1, AccumulateExact, DeductExact
<1> QED  BY <1>1, <1>2, <1>3, PTL DEF Spec

\* In particular the amount never overflows and the dust never reaches a unit.
THEOREM CellTypes == Spec => []TypeOK
BY CellCorrect, PTL

\* And += and -= refuse what does not fit, and nothing else, in every state.
THEOREM CellChecks == Spec => []ChecksExact
BY CellCorrect, PTL

=============================================================================
