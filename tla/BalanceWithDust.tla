-------------------------- MODULE BalanceWithDust --------------------------
(***************************************************************************)
(* balance_with_dust (tables.hpp): an amount of the native token, held as  *)
(* an asset (int64_t, in the token's smallest unit) plus the "dust", the   *)
(* part of the 10^-18 EVM precision that one token unit cannot represent   *)
(* (uint64_t).  The two compound assignments are given here bit for bit:   *)
(* which of their checks fail, and what they leave behind when none does.  *)
(***************************************************************************)
EXTENDS Integers

CONSTANTS
    MinAsset,   \* minimum_natively_representable, 10^(18 - precision)
    MaxAmount,  \* asset::max_amount, 2^62 - 1
    TopBit      \* 2^63: the top bit of the 64-bit words amount and dust

ASSUME BalanceAssumption ==
    /\ MinAsset \in Nat /\ MaxAmount \in Nat /\ TopBit \in Nat
    /\ 0 < MinAsset
    /\ MinAsset <= TopBit               \* 10^18 < 2^63
    /\ 2 * MaxAmount + 1 < TopBit       \* 2 * (2^62 - 1) + 1 = 2^63 - 1

Word == 2 * TopBit

\* Conversions to the widths of the two members.
U64(x) == x % Word
I64(x) == ((x + TopBit) % Word) - TopBit

\* What the rows of the balances table and the inevm singleton hold.
Balance == [amount : 0 .. MaxAmount, dust : 0 .. MinAsset - 1]

ZeroBalance == [amount |-> 0, dust |-> 0]

is_zero_amount(b) == b.amount = 0            \* mutant: the dust is forgotten

is_zero(b) == b.dust = 0 /\ b.amount = 0

\* The amount a balance stands for, in units of 10^-18.
Value(b) == b.amount * MinAsset + b.dust

MaxValue == MaxAmount * MinAsset + MinAsset - 1

AccumulateNoCarry(b, x) ==                   \* mutant: dust beyond a unit
    [amount |-> I64(b.amount + (x \div MinAsset)), dust |-> U64(b.dust + (x % MinAsset))]

\* operator+= : the members after the additions and the carry ...
Accumulate(b, x) ==
    LET amount == I64(b.amount + (x \div MinAsset))
        dust   == U64(b.dust + (x % MinAsset))
    IN  IF dust >= MinAsset
        THEN [amount |-> I64(amount + 1), dust |-> U64(dust - MinAsset)]
        ELSE [amount |-> amount, dust |-> dust]

\* ... and its three "accumulation overflow" checks.
CanAccumulate(b, x) ==
    /\ x \div MinAsset <= MaxAmount
    /\ b.amount <= MaxAmount
    /\ Accumulate(b, x).amount <= MaxAmount

DeductNoBorrow(b, x) ==                      \* mutant: the dust wraps on its own
    LET dust == U64(b.dust - (x % MinAsset))
    IN  [amount |-> I64(b.amount - (x \div MinAsset)),
         dust |-> IF dust >= TopBit THEN U64(dust + MinAsset) ELSE dust]

\* operator-= : the members after the subtractions; a borrow is recognised by
\* the top bit of the wrapped dust ...
Deduct(b, x) ==
    LET amount == I64(b.amount - (x \div MinAsset))
        dust   == U64(b.dust - (x % MinAsset))
    IN  IF dust >= TopBit
        THEN [amount |-> I64(amount - 1), dust |-> U64(dust + MinAsset)]
        ELSE [amount |-> amount, dust |-> dust]

CanDeductLate(b, x) == Deduct(b, x).amount >= 0      \* mutant: checked after the wrap only

\* ... and its two "decrementing more than available" checks.
CanDeduct(b, x) ==
    /\ x \div MinAsset <= b.amount
    /\ Deduct(b, x).amount >= 0

=============================================================================
