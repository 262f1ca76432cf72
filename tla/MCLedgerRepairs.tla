--------------------------- MODULE MCLedgerRepairs ---------------------------
(***************************************************************************)
(* A small instance of LedgerRepairs.                                      *)
(***************************************************************************)
EXTENDS LedgerRepairs

=============================================================================
