-------------------------- MODULE MCConfigWrapper --------------------------
(***************************************************************************)
(* Small instances of ConfigWrapper, and what the documentation and the    *)
(* tests say of the configuration that the code does not keep to.          *)
(***************************************************************************)
EXTENDS ConfigWrapper

\* compilation_and_testing_guide.md: "The EVM contract will not allow any
\* actions except `init` until its chain id & native token is configured": no
\* other action stores the configuration that assert_inited looks for.
InitComesFirst == exists => inited

\* gas_param_tests.cpp: "new gas params take effect in the next evm block,
\* configchange event before evmtx": whoever follows the events knows the gas
\* parameters a transaction of version 1 or later ran with.
ParamsAnnounced == last.version >= 1 => last.seen = last.params

\* gas_fee_tests.cpp: "Price queue must be empty before switching to v3": no
\* price is still queued when version 3 comes into force.
QueueEmptyAtSwitch == [][Version < 3 /\ Version' >= 3 => DOMAIN price_queue = {}]_vars

=============================================================================
