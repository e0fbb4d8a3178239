---------------------------- MODULE MCInstallments ----------------------------
(* Model values for Installments: the ends of months, over a leap year. *)
EXTENDS Installments

MCAmounts == -7 .. 25
MCDates == {d \in [year : {2023, 2024}, month : {1, 2, 10, 12}, day : {1, 28, 29, 30, 31}] :
                d.day <= MonthLength(d.year, d.month)}
===============================================================================
