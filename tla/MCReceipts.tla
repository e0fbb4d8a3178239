------------------------------ MODULE MCReceipts ------------------------------
(* Model values for Receipts. *)
EXTENDS Receipts

CONSTANTS t1, jpg, png, r1, r2

MCTxs == {t1}
MCExts == {jpg, png}
MCRequests == {r1, r2}
===============================================================================
