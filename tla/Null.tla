-------------------------------- MODULE Null --------------------------------
(***************************************************************************)
(* What several modules of the administration share: an absent value.      *)
(***************************************************************************)
CONSTANT None  \* NULL in a column, a row or a transaction that is not there
=============================================================================
