--------------------------- MODULE MCBalanceCell ---------------------------
(* BalanceCell on 6-bit words: TopBit plays 2^63, MaxAmount 2^62 - 1.      *)
EXTENDS BalanceCell

\* Amounts of more than 6 bits of token units included.
const_Operands == 0 .. Word * MinAsset
=============================================================================
