---------------------------- MODULE MCStateStore ----------------------------
(***************************************************************************)
(* Small instances of StateStore, and the tables as an earlier release of  *)
(* the contract leaves them.                                               *)
(***************************************************************************)
EXTENDS StateStore

\* Release 0.5.1 had no config2.  A contract that was upgraded from it starts
\* with accounts, here a single one with code and a slot in use.
UpgradeInit ==
    /\ \E a \in Addrs, h \in Hashes, k \in Keys :
          /\ account = [i \in {0} |-> [eth_address |-> a, data |-> 0, code_id |-> 0,
                                       frozen |-> FALSE]]
          /\ codes = [c \in {0} |-> [code_hash |-> h, ref_count |-> 1]]
          /\ storage = [i \in Ids |-> [l \in Keys |-> IF i = 0 /\ l = k THEN 1 ELSE None]]
    /\ gcstore = NoRows /\ config2 = None
    /\ phase = "idle" /\ stage = Unread /\ _config2 = None /\ max = 0

UpgradeSpec == UpgradeInit /\ [][Next]_vars

\* account_id_tests.cpp, of an account made after another was removed:
\* "BOOST_CHECK(get_storage_slots_count(3) == 0);".
IdsNotReused == [][\A i \in DOMAIN account' \ DOMAIN account : IsEmpty(i)]_vars

=============================================================================
