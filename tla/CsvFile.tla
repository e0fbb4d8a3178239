-------------------------------- MODULE CsvFile --------------------------------
(***************************************************************************)
(* What routers/import_csv.py asks of a file as a whole before it is       *)
(* staged, as operators on a set of rows: whichever file it is, one the    *)
(* export of routers/expenses.py wrote or any other.                       *)
(***************************************************************************)
EXTENDS Naturals, FiniteSets

CONSTANTS Names,   \* account names
          Null     \* no value

-------------------------------------------------------------------------------
(* _parse_and_validate_rows *)

DestinationCurrency(x) == IF x.to_currency = Null THEN x.currency ELSE x.to_currency

CurrenciesOf(file, name) ==
    {x.currency : x \in {y \in file : y.account_name = name}}
    \cup {DestinationCurrency(x) : x \in {y \in file : y.account_destination_name = name}}

(* Mutant: only the accounts that money leaves are looked at. *)
AcceptableSources(file) ==
    /\ file # {}
    /\ \A x \in file : x.type = "transfer" =>
            \E y \in file : y.account_name = x.account_destination_name
    /\ \A name \in Names :
            Cardinality({x.currency : x \in {y \in file : y.account_name = name}}) <= 1

(* A transfer has a destination, which is a source too; no account has two  *)
(* currencies.                                                              *)
Acceptable(file) ==
    /\ file # {}
    /\ \A x \in file : x.type = "transfer" =>
            \E y \in file : y.account_name = x.account_destination_name
    /\ \A name \in Names : Cardinality(CurrenciesOf(file, name)) <= 1

(* _build_account_currencies *)
AccountCurrencies(file) ==
    [name \in {n \in Names : CurrenciesOf(file, n) # {}} |->
        CHOOSE c \in CurrenciesOf(file, name) : TRUE]
===============================================================================
