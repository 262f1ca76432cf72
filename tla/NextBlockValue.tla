--------------------------- MODULE NextBlockValue ---------------------------
(***************************************************************************)
(* What a promoted configuration value promises: one value is in force     *)
(* throughout an EVM block, and it is the last one set before that block.  *)
(***************************************************************************)
EXTENDS Integers

CONSTANTS Values, Default

VARIABLES
    block,      \* the EVM block the chain is in, 0 before the contract runs
    current,    \* the value in force in that block
    next        \* the value in force from the next block on

vars == <<block, current, next>>

Init == block = 0 /\ current = Default /\ next = Default

\* Time may move on to a later block, where what was set so far is in force,
\* and a value may be set for the blocks to come.
Next ==
    /\ block' >= block
    /\ current' = IF block' > block THEN next ELSE current
    /\ next' \in Values

Spec == Init /\ [][Next]_vars

=============================================================================
