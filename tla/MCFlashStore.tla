--------------------------- MODULE MCFlashStore ---------------------------
(* Small instances of FlashStore for TLC. *)
EXTENDS FlashStore
===========================================================================
