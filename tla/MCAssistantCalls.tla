--------------------------- MODULE MCAssistantCalls ----------------------------
(* Model values for AssistantCalls. *)
EXTENDS AssistantCalls, TLC

CONSTANTS ana, transcribe, r1, r2, groq

MCUsers == {ana}
MCTypes == {Chat, transcribe}
MCKeys == {<<ana, Chat>>, <<ana, transcribe>>}
MCSerialKeys == {<<ana, Chat>>}
MCRequests == {r1, r2}
MCProviders == {groq}
MCWithFallback == {groq}
MCSymmetry == Permutations(MCRequests)
===============================================================================
