----------------------------- MODULE MCConsInput -----------------------------
(***************************************************************************)
(* ConsInput with a four-byte buffer, so that both positions wrap, and up  *)
(* to five characters ahead of the reader, so that the buffer fills.       *)
(***************************************************************************)
EXTENDS ConsInput
===============================================================================
