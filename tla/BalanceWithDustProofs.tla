----------------------- MODULE BalanceWithDustProofs -----------------------
(***************************************************************************)
(* The compound assignments of balance_with_dust compute exactly, for      *)
(* every precision of the token, every word width and every operand: the   *)
(* facts that the proofs about balances rest on.                           *)
(***************************************************************************)
EXTENDS BalanceWithDust, TLAPS

\* udivrem: the quotient and the remainder of an operand.
LEMMA DivMod ==
    ASSUME NEW x \in Nat
    PROVE  /\ x \div MinAsset \in Nat
           /\ x % MinAsset \in 0 .. MinAsset - 1
           /\ x = (x \div MinAsset) * MinAsset + (x % MinAsset)
  BY BalanceAssumption

\* Conversions to 64 bits leave alone what is in range.
LEMMA InRange ==
    /\ \A x \in 0 .. Word - 1 : U64(x) = x
    /\ \A x \in -TopBit .. TopBit - 1 : I64(x) = x
  BY BalanceAssumption DEF U64, I64, Word

\* A negative dust wraps to a word whose top bit is set.
LEMMA Wrap == \A x \in -TopBit .. -1 : U64(x) = x + Word
  BY BalanceAssumption DEF U64, Word

-----------------------------------------------------------------------------
\* The value of a balance is a natural number and determines the balance.
LEMMA ValueType ==
    ASSUME NEW b \in Balance
    PROVE  Value(b) \in 0 .. MaxValue
<1>1. b.amount \in 0 .. MaxAmount /\ b.dust \in 0 .. MinAsset - 1
  BY DEF Balance
<1>2. b.amount * MinAsset \in Nat /\ b.amount * MinAsset <= MaxAmount * MinAsset
  BY <1>1, BalanceAssumption
<1> QED  BY <1>1, <1>2, BalanceAssumption DEF Value, MaxValue

\* What += leaves behind, in plain arithmetic: the operand's quotient and
\* remainder are added, with a carry when the dust reaches one token unit.
LEMMA AccumulatePlain ==
    ASSUME NEW b \in Balance, NEW x \in Nat, x \div MinAsset <= MaxAmount
    PROVE  LET q == x \div MinAsset
               d == b.dust + (x % MinAsset)
           IN  Accumulate(b, x) =
                 IF d >= MinAsset
                 THEN [amount |-> b.amount + q + 1, dust |-> d - MinAsset]
                 ELSE [amount |-> b.amount + q, dust |-> d]
<1> DEFINE q == x \div MinAsset
           r == x % MinAsset
           d == b.dust + r
<1>1. b.amount \in 0 .. MaxAmount /\ b.dust \in 0 .. MinAsset - 1
  BY DEF Balance
<1>2. q \in 0 .. MaxAmount /\ r \in 0 .. MinAsset - 1
  BY DivMod
<1> HIDE DEF q, r
<1>3. I64(b.amount + q) = b.amount + q /\ I64(b.amount + q + 1) = b.amount + q + 1
  <2>1. /\ b.amount + q \in -TopBit .. TopBit - 1
        /\ b.amount + q + 1 \in -TopBit .. TopBit - 1
    BY <1>1, <1>2, BalanceAssumption
  <2> QED  BY <2>1, InRange
<1>4. U64(d) = d /\ (d >= MinAsset => U64(d - MinAsset) = d - MinAsset)
  <2>1. d \in 0 .. Word - 1
    BY <1>1, <1>2, BalanceAssumption DEF Word
  <2>2. d >= MinAsset => d - MinAsset \in 0 .. Word - 1
    BY <2>1, BalanceAssumption DEF Word
  <2> QED  BY <2>1, <2>2, InRange
<1> QED  BY <1>3, <1>4 DEF Accumulate, q, r

\* += adds exactly its operand, and refuses it exactly when the result would
\* exceed the largest balance.
THEOREM AccumulateExact ==
    ASSUME NEW b \in Balance, NEW x \in Nat
    PROVE  /\ CanAccumulate(b, x) => /\ Accumulate(b, x) \in Balance
                                     /\ Value(Accumulate(b, x)) = Value(b) + x
           /\ CanAccumulate(b, x) <=> Value(b) + x <= MaxValue
<1> DEFINE q == x \div MinAsset
           r == x % MinAsset
           d == b.dust + r
           s == b.amount + q
<1>1. b.amount \in 0 .. MaxAmount /\ b.dust \in 0 .. MinAsset - 1
  BY DEF Balance
<1>2. q \in Nat /\ r \in 0 .. MinAsset - 1 /\ x = q * MinAsset + r
  BY DivMod
<1> HIDE DEF q, r
<1>3. /\ Value(b) + x = s * MinAsset + d
      /\ (s + 1) * MinAsset = s * MinAsset + MinAsset
      /\ s \in Nat /\ d \in Nat /\ d - MinAsset < MinAsset
  BY <1>1, <1>2, BalanceAssumption DEF Value
<1>4. /\ s * MinAsset + d <= MaxValue /\ d < MinAsset <=> s <= MaxAmount /\ d < MinAsset
      /\ s * MinAsset + d <= MaxValue /\ d >= MinAsset <=> s + 1 <= MaxAmount /\ d >= MinAsset
  <2> HIDE DEF d, s
  <2>1. \A n \in Nat : n <= MaxAmount => n * MinAsset <= MaxAmount * MinAsset
    BY BalanceAssumption
  <2>2. \A n \in Nat : n >= MaxAmount + 1 => n * MinAsset >= MaxAmount * MinAsset + MinAsset
    <3> SUFFICES ASSUME NEW n \in Nat, n >= MaxAmount + 1
                 PROVE  n * MinAsset >= MaxAmount * MinAsset + MinAsset
      OBVIOUS
    <3>1. PICK k \in Nat : n = MaxAmount + 1 + k
      BY BalanceAssumption
    <3>2. n * MinAsset = MaxAmount * MinAsset + MinAsset + k * MinAsset
      BY <3>1, BalanceAssumption
    <3>3. k * MinAsset \in Nat /\ MaxAmount * MinAsset \in Nat
      BY <3>1, BalanceAssumption
    <3> QED  BY <3>2, <3>3, BalanceAssumption
  <2>3. s * MinAsset \in Nat /\ MaxAmount * MinAsset \in Nat
    BY <1>3, BalanceAssumption
  <2>4. s + 1 \in Nat
    BY <1>3
  <2> QED  BY <2>1, <2>2, <2>3, <2>4, <1>3, BalanceAssumption DEF MaxValue
<1>5. CASE q <= MaxAmount
  <2>1. Accumulate(b, x) = IF d >= MinAsset
                           THEN [amount |-> s + 1, dust |-> d - MinAsset]
                           ELSE [amount |-> s, dust |-> d]
    BY <1>5, AccumulatePlain DEF q, r
  <2>2. CanAccumulate(b, x) <=> Accumulate(b, x).amount <= MaxAmount
    BY <1>5, <1>1 DEF CanAccumulate, q
  <2> HIDE DEF d, s
  <2>3. CASE d >= MinAsset
    <3>1. Accumulate(b, x) = [amount |-> s + 1, dust |-> d - MinAsset]
      BY <2>1, <2>3
    <3>2. Value(Accumulate(b, x)) = Value(b) + x
      BY <3>1, <1>3, BalanceAssumption DEF Value
    <3>3. d - MinAsset \in 0 .. MinAsset - 1
      BY <2>3, <1>3, BalanceAssumption
    <3>4. s + 1 <= MaxAmount => Accumulate(b, x) \in Balance
      BY <3>1, <3>3, <1>3, BalanceAssumption DEF Balance
    <3> QED  BY <3>1, <3>2, <3>4, <2>2, <2>3, <1>3, <1>4
  <2>4. CASE ~(d >= MinAsset)
    <3>1. Accumulate(b, x) = [amount |-> s, dust |-> d]
      BY <2>1, <2>4
    <3>2. Value(Accumulate(b, x)) = Value(b) + x
      BY <3>1, <1>3, BalanceAssumption DEF Value
    <3>3. d < MinAsset /\ d \in 0 .. MinAsset - 1
      BY <2>4, <1>3, BalanceAssumption
    <3>4. s <= MaxAmount => Accumulate(b, x) \in Balance
      BY <3>1, <3>3, <1>3, BalanceAssumption DEF Balance
    <3> QED  BY <3>1, <3>2, <3>3, <3>4, <2>2, <1>3, <1>4
  <2> QED  BY <2>3, <2>4
<1>6. CASE ~(q <= MaxAmount)
  <2>1. ~CanAccumulate(b, x)
    BY <1>6 DEF CanAccumulate, q
  <2>2. s > MaxAmount /\ s + 1 > MaxAmount
    BY <1>6, <1>1, <1>2, BalanceAssumption
  <2> HIDE DEF d, s
  <2>3. d \in Nat /\ (d < MinAsset \/ d >= MinAsset)
    BY <1>3, BalanceAssumption
  <2> QED  BY <2>1, <2>2, <2>3, <1>3, <1>4, BalanceAssumption
<1> QED  BY <1>5, <1>6

-----------------------------------------------------------------------------
\* What -= leaves behind, in plain arithmetic: the top bit of the wrapped dust
\* is set exactly when the dust is less than the operand's remainder.
LEMMA DeductPlain ==
    ASSUME NEW b \in Balance, NEW x \in Nat, x \div MinAsset <= b.amount
    PROVE  LET q == x \div MinAsset
               d == b.dust - (x % MinAsset)
           IN  Deduct(b, x) =
                 IF d < 0
                 THEN [amount |-> b.amount - q - 1, dust |-> d + MinAsset]
                 ELSE [amount |-> b.amount - q, dust |-> d]
<1> DEFINE q == x \div MinAsset
           r == x % MinAsset
           d == b.dust - r
<1>1. b.amount \in 0 .. MaxAmount /\ b.dust \in 0 .. MinAsset - 1
  BY DEF Balance
<1>2. q \in 0 .. b.amount /\ r \in 0 .. MinAsset - 1
  BY <1>1, DivMod
<1> HIDE DEF q, r
<1>3. I64(b.amount - q) = b.amount - q /\ I64(b.amount - q - 1) = b.amount - q - 1
  <2>1. /\ b.amount - q \in -TopBit .. TopBit - 1
        /\ b.amount - q - 1 \in -TopBit .. TopBit - 1
    BY <1>1, <1>2, BalanceAssumption
  <2> QED  BY <2>1, InRange
<1>4. d \in -(MinAsset - 1) .. MinAsset - 1
  BY <1>1, <1>2, BalanceAssumption
<1>5. CASE d < 0
  <2>1. d \in -TopBit .. -1 /\ U64(d) = d + Word
    BY <1>4, <1>5, Wrap, BalanceAssumption
  <2>2. U64(d) >= TopBit
    BY <2>1, BalanceAssumption DEF Word
  <2>3. U64(d + Word + MinAsset) = d + MinAsset
    <3>1. d + MinAsset \in 0 .. Word - 1
      BY <1>4, <1>5, BalanceAssumption DEF Word
    <3>2. (d + MinAsset + Word) % Word = d + MinAsset
      BY <3>1, BalanceAssumption DEF Word
    <3> QED  BY <3>2, <1>4, BalanceAssumption DEF U64, Word
  <2> QED  BY <2>1, <2>2, <2>3, <1>3, <1>5 DEF Deduct, q, r
<1>6. CASE ~(d < 0)
  <2>1. U64(d) = d
    <3>1. d \in 0 .. Word - 1
      BY <1>4, <1>6, BalanceAssumption DEF Word
    <3> QED  BY <3>1, InRange
  <2>2. ~(U64(d) >= TopBit)
    BY <2>1, <1>4, BalanceAssumption
  <2> QED  BY <2>1, <2>2, <1>3, <1>6 DEF Deduct, q, r
<1> QED  BY <1>5, <1>6

\* -= removes exactly its operand, and refuses it exactly when it exceeds the
\* balance.
THEOREM DeductExact ==
    ASSUME NEW b \in Balance, NEW x \in Nat
    PROVE  /\ CanDeduct(b, x) => /\ Deduct(b, x) \in Balance
                                 /\ Value(Deduct(b, x)) = Value(b) - x
           /\ CanDeduct(b, x) <=> x <= Value(b)
<1> DEFINE q == x \div MinAsset
           r == x % MinAsset
           d == b.dust - r
           s == b.amount - q
<1>1. b.amount \in 0 .. MaxAmount /\ b.dust \in 0 .. MinAsset - 1
  BY DEF Balance
<1>2. q \in Nat /\ r \in 0 .. MinAsset - 1 /\ x = q * MinAsset + r
  BY DivMod
<1> HIDE DEF q, r
<1>3. /\ Value(b) - x = s * MinAsset + d
      /\ (s - 1) * MinAsset = s * MinAsset - MinAsset
      /\ s \in Int /\ d \in -(MinAsset - 1) .. MinAsset - 1
      /\ Value(b) \in Int
  BY <1>1, <1>2, BalanceAssumption DEF Value
<1>4. /\ s >= 1 => s * MinAsset >= MinAsset
      /\ s <= -1 => s * MinAsset <= -MinAsset
      /\ s = 0 => s * MinAsset = 0
      /\ s * MinAsset \in Int
  <2> HIDE DEF s
  <2>1. ASSUME s >= 1 PROVE s * MinAsset >= MinAsset
    <3>1. PICK k \in Nat : s = 1 + k
      BY <2>1, <1>3
    <3>2. s * MinAsset = MinAsset + k * MinAsset /\ k * MinAsset \in Nat
      BY <3>1, BalanceAssumption
    <3> QED  BY <3>2, BalanceAssumption
  <2>2. ASSUME s <= -1 PROVE s * MinAsset <= -MinAsset
    <3>1. PICK k \in Nat : s = -1 - k
      BY <2>2, <1>3
    <3>2. s * MinAsset = -MinAsset - k * MinAsset /\ k * MinAsset \in Nat
      BY <3>1, BalanceAssumption
    <3> QED  BY <3>2, BalanceAssumption
  <2> QED  BY <2>1, <2>2, <1>3, BalanceAssumption
<1>5. x <= Value(b) <=> s * MinAsset + d >= 0
  BY <1>3
<1>6. CASE q <= b.amount
  <2>1. Deduct(b, x) = IF d < 0 THEN [amount |-> s - 1, dust |-> d + MinAsset]
                                ELSE [amount |-> s, dust |-> d]
    BY <1>6, DeductPlain DEF q, r
  <2>2. CanDeduct(b, x) <=> Deduct(b, x).amount >= 0
    BY <1>6 DEF CanDeduct, q
  <2>3. s \in 0 .. MaxAmount
    BY <1>6, <1>1, <1>2, BalanceAssumption
  <2> HIDE DEF d, s
  <2>4. CASE d < 0
    <3>1. Deduct(b, x) = [amount |-> s - 1, dust |-> d + MinAsset]
      BY <2>1, <2>4
    <3>2. Value(Deduct(b, x)) = Value(b) - x
      BY <3>1, <1>3, BalanceAssumption DEF Value
    <3>3. d + MinAsset \in 0 .. MinAsset - 1
      BY <2>4, <1>3, BalanceAssumption
    <3>4. s - 1 >= 0 => Deduct(b, x) \in Balance
      BY <3>1, <3>3, <2>3, BalanceAssumption DEF Balance
    <3>5. s - 1 >= 0 <=> s * MinAsset + d >= 0
      BY <2>3, <2>4, <1>3, <1>4, BalanceAssumption
    <3> QED  BY <3>1, <3>2, <3>4, <3>5, <2>2, <1>5
  <2>5. CASE ~(d < 0)
    <3>1. Deduct(b, x) = [amount |-> s, dust |-> d]
      BY <2>1, <2>5
    <3>2. Value(Deduct(b, x)) = Value(b) - x
      BY <3>1, <1>3, BalanceAssumption DEF Value
    <3>3. d \in 0 .. MinAsset - 1
      BY <2>5, <1>3, BalanceAssumption
    <3>4. Deduct(b, x) \in Balance
      BY <3>1, <3>3, <2>3 DEF Balance
    <3>5. s >= 0 /\ s * MinAsset + d >= 0
      BY <2>3, <3>3, <1>3, <1>4, BalanceAssumption
    <3> QED  BY <3>1, <3>2, <3>4, <3>5, <2>2, <1>5
  <2> QED  BY <2>4, <2>5
<1>7. CASE ~(q <= b.amount)
  <2>1. ~CanDeduct(b, x)
    BY <1>7 DEF CanDeduct, q
  <2>2. s <= -1
    BY <1>7, <1>1, <1>2
  <2> HIDE DEF d, s
  <2>3. ~(s * MinAsset + d >= 0)
    BY <2>2, <1>3, <1>4, BalanceAssumption
  <2> QED  BY <2>1, <2>3, <1>5
<1> QED  BY <1>6, <1>7
=============================================================================
