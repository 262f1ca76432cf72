---------------------------- MODULE ValuePromoter ----------------------------
(***************************************************************************)
(* value_promoter.hpp: a configuration value that changes at EVM block     *)
(* boundaries only.  A new value is stored as pending together with the    *)
(* time it was set, and becomes the cached value lazily, the first time a  *)
(* promoting read finds it active.                                         *)
(***************************************************************************)
EXTENDS BlockMapping

\* The optional pending_value is has_pending with value and time; without a
\* pending value these two are immaterial and kept at a fixed choice.
Promoter(Values, Times) ==
    [cached_value : Values, has_pending : BOOLEAN, value : Values, time : Times]

NoPending(v) == [cached_value |-> v, has_pending |-> FALSE, value |-> v, time |-> 0]

is_active_same_block(p, genesis, now) ==     \* mutant: not strictly later
    EvmBlock(genesis, now) >= EvmBlock(genesis, p.time)

is_active(p, genesis, now) ==
    EvmBlock(genesis, now) > EvmBlock(genesis, p.time)

\* Whether get_value_and_maybe_promote reports a promotion.
promotes(p, genesis, now) == p.has_pending /\ is_active(p, genesis, now)

get_value(p, genesis, now) ==
    IF promotes(p, genesis, now) THEN p.value ELSE p.cached_value

promote_pending(p) == NoPending(p.value)

maybe_promote(p, genesis, now) ==
    IF promotes(p, genesis, now) THEN promote_pending(p) ELSE p

update_unpromoted(p, v, genesis, now) ==     \* mutant: the active value is lost
    [cached_value |-> p.cached_value, has_pending |-> TRUE, value |-> v, time |-> now]

\* update: an active pending value is promoted first; v is what the visitor
\* makes of the value in force.
update(p, v, genesis, now) ==
    [cached_value |-> maybe_promote(p, genesis, now).cached_value,
     has_pending |-> TRUE, value |-> v, time |-> now]

=============================================================================
