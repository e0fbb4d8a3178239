------------------------------ MODULE MCFreeQuota ------------------------------
(* Model values for FreeQuota. *)
EXTENDS FreeQuota, TLC

CONSTANTS ana, chat, transcribe, r1, r2, r3

MCUsers == {ana}
MCSerialKeys == {<<ana, chat>>}
MCTypes == {chat, transcribe}
MCKeys == {<<ana, chat>>, <<ana, transcribe>>}
MCRequests == {r1, r2, r3}
MCSymmetry == Permutations(MCRequests)
===============================================================================
