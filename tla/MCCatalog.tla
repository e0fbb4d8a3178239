------------------------------- MODULE MCCatalog -------------------------------
(* Model values for Catalog. *)
EXTENDS Catalog, TLC

CONSTANTS food, home, salary, market, b1, b2, t1, ars, r1, r2

MCCats == {food, home, salary}
MCExpenseCats == {food, home}
MCSubs == {market}
MCParent == market :> food
MCBudgets == {b1, b2}
MCTxs == {t1}
MCCurrencies == {ars}
MCRequests == {r1, r2}
MCSymmetry == Permutations(MCBudgets) \cup Permutations(MCRequests)
===============================================================================
