----------------------------- MODULE Installments -----------------------------
(***************************************************************************)
(* create_expense with installments (routers/expenses.py 460-503): an      *)
(* amount is split into parts rounded down to cents, the residual goes to  *)
(* the last, and each part is booked a month after the one before, on the  *)
(* day of the first or the last day of a shorter month (_add_months).      *)
(* Amounts are whole cents, of either sign: the schema bounds neither.     *)
(***************************************************************************)
EXTENDS Integers

CONSTANTS Amounts,         \* bound: the total amounts, in cents
          MaxInstallments, \* bound: the number of parts asked for
          Dates            \* bound: the dates of the first part

Date == [year : Nat, month : 1 .. 12, day : 1 .. 31]

(* calendar.monthrange *)
LeapYear(y) == y % 4 = 0 /\ (y % 100 # 0 \/ y % 400 = 0)
MonthLength(y, m) == IF m = 2 THEN IF LeapYear(y) THEN 29 ELSE 28
                     ELSE IF m \in {4, 6, 9, 11} THEN 30 ELSE 31

ASSUME InstallmentsAssumption ==
    /\ Amounts \subseteq Int
    /\ MaxInstallments \in Nat
    /\ Dates \subseteq Date
    /\ \A d \in Dates : d.day <= MonthLength(d.year, d.month)

VARIABLES total_amount, installments, expense_date,   \* the request
          index,   \* parts made so far
          part,    \* the amount of the part made last
          due,     \* its date
          booked   \* history: what the parts made so far add up to

request == <<total_amount, installments, expense_date>>
vars == <<request, index, part, due, booked>>

-------------------------------------------------------------------------------
(* Mutant: the month after December is counted from the wrong end. *)
AddMonthsUnshifted(base, months) ==
    LET month_index == base.month + months
        year == base.year + (month_index \div 12)
        month == (month_index % 12) + 1
        length == MonthLength(year, month)
    IN  [year |-> year, month |-> month,
         day |-> IF base.day < length THEN base.day ELSE length]

AddMonths(base, months) ==
    LET month_index == base.month - 1 + months
        year == base.year + (month_index \div 12)
        month == (month_index % 12) + 1
        length == MonthLength(year, month)
    IN  [year |-> year, month |-> month,
         day |-> IF base.day < length THEN base.day ELSE length]

(* (total_amount / installments), ROUND_FLOOR: \div rounds down as well. *)
installment_amount == total_amount \div installments

residual == total_amount - installment_amount * installments

Init ==
    /\ total_amount \in Amounts
    /\ installments \in 1 .. MaxInstallments
    /\ expense_date \in Dates
    /\ index = 0
    /\ part = 0
    /\ due = expense_date
    /\ booked = 0

(* Mutant: the residual is added to the first part, and to a last one too. *)
BuildInstallmentTwice ==
    /\ index < installments
    /\ index' = index + 1
    /\ part' = IF index \in {0, installments - 1} THEN installment_amount + residual
               ELSE installment_amount
    /\ due' = AddMonths(expense_date, index)
    /\ booked' = booked + part'
    /\ UNCHANGED request

(* Mutant: each date is a month after the one before, not after the first. *)
BuildInstallmentChained ==
    /\ index < installments
    /\ index' = index + 1
    /\ part' = IF index' = installments THEN installment_amount + residual
               ELSE installment_amount
    /\ due' = IF index = 0 THEN expense_date ELSE AddMonths(due, 1)
    /\ booked' = booked + part'
    /\ UNCHANGED request

(* One turn of the loop. *)
BuildInstallment ==
    /\ index < installments
    /\ index' = index + 1
    /\ part' = IF index' = installments THEN installment_amount + residual
               ELSE installment_amount
    /\ due' = AddMonths(expense_date, index)
    /\ booked' = booked + part'
    /\ UNCHANGED request

Next == BuildInstallment

Spec == Init /\ [][Next]_vars

-------------------------------------------------------------------------------
TypeOK ==
    /\ total_amount \in Amounts
    /\ installments \in 1 .. MaxInstallments
    /\ expense_date \in Dates
    /\ index \in 0 .. installments
    /\ part \in Int
    /\ due \in Date
    /\ booked \in Int

(* The instalments of an amount add up to it, whatever its sign and however *)
(* many there are (lines 468-476).                                          *)
PartsAddUp == index = installments => booked = total_amount

MonthNumber(d) == 12 * d.year + d.month

(* The instalments fall due in consecutive months, over the end of a year   *)
(* and through a month that lacks the day of the first.                     *)
OneEachMonth ==
    index > 0 => MonthNumber(due) = MonthNumber(expense_date) + index - 1

(* Each falls due on the day of the first, or on the last day of a month    *)
(* that lacks it: after a short month the day is not lost.                  *)
DayIsKept ==
    \/ due.day = expense_date.day
    \/ due.day < expense_date.day /\ due.day = MonthLength(due.year, due.month)
===============================================================================
