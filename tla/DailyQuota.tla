------------------------------ MODULE DailyQuota ------------------------------
(***************************************************************************)
(* What the free quota promises (README.md: "limite diario de uso gratuito *)
(* por tipo de uso"): each user may spend at most Limit free requests a    *)
(* day on each usage type, a request is refused only when that allowance   *)
(* is spent, and the two usage types do not share it.  One request is one  *)
(* atomic step here; FreeQuota has the three steps the code takes.         *)
(***************************************************************************)
EXTENDS Naturals

CONSTANTS Keys,      \* the <<user, usage type>> pairs the promise is made to
          Days,      \* the calendar days
          Limit      \* free requests per pair and day

VARIABLES spent,     \* [Keys -> [Days -> Nat]]
          refused    \* the <<key, day>> of the requests refused

vars == <<spent, refused>>

Init ==
    /\ spent = [k \in Keys |-> [d \in Days |-> 0]]
    /\ refused = {}

(* A request is served from the free allowance of its own day and type. *)
Spend(k, d) ==
    /\ spent[k][d] < Limit
    /\ spent' = [spent EXCEPT ![k][d] = @ + 1]
    /\ UNCHANGED refused

(* A request is refused: nothing is left of that day's allowance. *)
Refuse(k, d) ==
    /\ spent[k][d] = Limit
    /\ refused' = refused \cup {<<k, d>>}
    /\ UNCHANGED spent

Next == \E k \in Keys, d \in Days : Spend(k, d) \/ Refuse(k, d)

Spec == Init /\ [][Next]_vars
===============================================================================
