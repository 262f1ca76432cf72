---------------------------- MODULE BlockMapping ----------------------------
(***************************************************************************)
(* eosevm::block_mapping: which EVM block an Antelope time falls in.  Time *)
(* is counted in ticks (microseconds in the code); the mapping truncates   *)
(* it to seconds.  genesis is in seconds.                                  *)
(***************************************************************************)
EXTENDS Integers

CONSTANTS
    TicksPerSecond,
    Interval            \* block_interval, in seconds

ASSUME MappingAssumption ==
    TicksPerSecond \in Nat \ {0} /\ Interval \in Nat \ {0}

\* time_point_sec(t), and the truncation of timestamp_to_evm_block_num.
Seconds(t) == t \div TicksPerSecond

\* timestamp_to_evm_block_num
EvmBlock(genesis, t) ==
    IF Seconds(t) < genesis THEN 0
    ELSE 1 + ((Seconds(t) - genesis) \div Interval)

=============================================================================
