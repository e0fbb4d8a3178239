-------------------------- MODULE BalanceViews_proofs --------------------------
(***************************************************************************)
(* Proofs about amounts and months.  Installments: for every amount, any   *)
(* number of instalments and any first date.  BalanceViews: for every      *)
(* ledger, whatever and however many rows it has.                          *)
(*                                                                         *)
(* The answers of BalanceViews are sums, grouped in different ways.  The   *)
(* part on sums shows that a fold over a finite set is one, in whatever    *)
(* order it takes the set, that sums add up term by term, and that a sum   *)
(* is the sum of the sums of its groups.                                   *)
(***************************************************************************)
EXTENDS BalanceViews, Installments, FiniteSetTheorems, WellFoundedInduction, TLAPS

-------------------------------------------------------------------------------
(* Instalments *)

(* The length of a month is what calendar.monthrange can return. *)
LEMMA MonthLengthBounds ==
    ASSUME NEW y \in Nat, NEW m \in 1 .. 12
    PROVE  MonthLength(y, m) \in 28 .. 31
  BY DEF MonthLength

(* Division of a month's number into a year and a month of it. *)
LEMMA DivideByTwelve ==
    ASSUME NEW n \in Nat
    PROVE  n \div 12 \in Nat /\ n % 12 \in 0 .. 11 /\ n = 12 * (n \div 12) + (n % 12)
  <1>1. n \div 12 \in Nat
    OBVIOUS
  <1>2. n % 12 \in 0 .. 11
    OBVIOUS
  <1>3. n = 12 * (n \div 12) + (n % 12)
    OBVIOUS
  <1> QED
    BY <1>1, <1>2, <1>3

(* _add_months returns a date, that many months on, on the day of the base  *)
(* or on the last day of a month that lacks it.                             *)
LEMMA AddMonthsFacts ==
    ASSUME NEW base \in Date, NEW months \in Nat
    PROVE  LET d == AddMonths(base, months) IN
           /\ d \in Date
           /\ MonthNumber(d) = MonthNumber(base) + months
           /\ \/ d.day = base.day
              \/ d.day < base.day /\ d.day = MonthLength(d.year, d.month)
  <1> DEFINE mi == base.month - 1 + months
             y == base.year + (mi \div 12)
             m == (mi % 12) + 1
             length == MonthLength(y, m)
             day == IF base.day < length THEN base.day ELSE length
  <1>1. base.year \in Nat /\ base.month \in 1 .. 12 /\ base.day \in 1 .. 31
    BY DEF Date
  <1>2. mi \in Nat
    BY <1>1
  <1>3. mi \div 12 \in Nat /\ mi % 12 \in 0 .. 11 /\ mi = 12 * (mi \div 12) + (mi % 12)
    <2> HIDE DEF mi
    <2> QED
      BY <1>2, DivideByTwelve
  <1>4. y \in Nat /\ m \in 1 .. 12 /\ 12 * y + m = 12 * base.year + base.month + months
    <2>1. 12 * y + m = 12 * base.year + mi + 1
      <3> DEFINE q == mi \div 12
                 rest == mi % 12
      <3>1. q \in Nat /\ rest \in 0 .. 11 /\ mi = 12 * q + rest
        <4> HIDE DEF mi
        <4> QED
          BY <1>3
      <3>2. y = base.year + q /\ m = rest + 1
        OBVIOUS
      <3> HIDE DEF q, rest, mi, y, m
      <3> QED
        BY <1>1, <1>2, <3>1, <3>2
    <2>2. y \in Nat /\ m \in 1 .. 12
      <3> HIDE DEF mi
      <3> QED
        BY <1>1, <1>3
    <2> QED
      BY <1>1, <2>1, <2>2
  <1>5. length \in 28 .. 31
    <2> HIDE DEF y, m
    <2> QED
      BY <1>4, MonthLengthBounds
  <1>6. AddMonths(base, months) = [year |-> y, month |-> m, day |-> day]
    BY DEF AddMonths
  <1>7. day \in 1 .. 31 /\ (day = base.day \/ (day < base.day /\ day = length))
    <2> HIDE DEF length
    <2> QED
      BY <1>1, <1>5
  <1> HIDE DEF mi, y, m, day
  <1> QED
    BY <1>1, <1>4, <1>6, <1>7 DEF Date, MonthNumber

(* All parts made so far are alike, but for the last of all. *)
PartsAlike ==
    booked = IF index < installments THEN index * installment_amount ELSE total_amount

IInv == TypeOK /\ PartsAlike /\ OneEachMonth /\ DayIsKept

LEMMA AmountsAreIntegers ==
    ASSUME TypeOK
    PROVE  installment_amount \in Int /\ residual \in Int
  BY InstallmentsAssumption DEF TypeOK, installment_amount, residual, InstallmentsAssumption

LEMMA InitIInv == ASSUME Init PROVE IInv
  <1> USE InstallmentsAssumption DEF InstallmentsAssumption
  <1>1. TypeOK
    BY DEF Init, TypeOK
  <1>2. PartsAlike
    BY <1>1, AmountsAreIntegers DEF Init, PartsAlike, TypeOK
  <1>3. OneEachMonth /\ DayIsKept
    BY DEF Init, OneEachMonth, DayIsKept
  <1> QED
    BY <1>1, <1>2, <1>3 DEF IInv

(* A multiple of the part, one part later. *)
LEMMA OneMore ==
    ASSUME NEW i \in Int, NEW p \in Int
    PROVE  i * p + p = (i + 1) * p
  OBVIOUS

LEMMA StepIInv == ASSUME IInv, [Next]_vars PROVE IInv'
  <1> USE InstallmentsAssumption DEF InstallmentsAssumption
  <1>1. CASE BuildInstallment
    <2>1. /\ installments \in Nat /\ total_amount \in Int /\ booked \in Int
          /\ index \in Nat /\ expense_date \in Date
          /\ installment_amount \in Int /\ residual \in Int
      BY AmountsAreIntegers DEF IInv, TypeOK
    <2>2. /\ index < installments /\ index' = index + 1
          /\ part' = IF index' = installments THEN installment_amount + residual
                     ELSE installment_amount
          /\ due' = AddMonths(expense_date, index)
          /\ booked' = booked + part'
          /\ UNCHANGED request
      BY <1>1 DEF BuildInstallment
    <2>3. /\ total_amount' = total_amount /\ installments' = installments
          /\ expense_date' = expense_date
          /\ installment_amount' = installment_amount
      BY <2>2 DEF request, installment_amount
    <2>4. /\ due' \in Date
          /\ MonthNumber(due') = MonthNumber(expense_date) + index
          /\ \/ due'.day = expense_date.day
             \/ /\ due'.day < expense_date.day
                /\ due'.day = MonthLength(due'.year, due'.month)
      BY <2>1, <2>2, AddMonthsFacts
    <2>5. part' \in Int
      BY <2>1, <2>2
    <2>6. TypeOK'
      BY <2>1, <2>2, <2>3, <2>4, <2>5 DEF IInv, TypeOK
    <2>7. PartsAlike'
      <3>1. booked = index * installment_amount
        BY <2>2 DEF IInv, PartsAlike
      <3>2. CASE index' < installments
        <4>1. booked' = index * installment_amount + installment_amount
          BY <2>1, <2>2, <3>1, <3>2
        <4>2. booked' = (index + 1) * installment_amount
          BY <2>1, <4>1, OneMore
        <4> QED
          BY <2>2, <2>3, <3>2, <4>2 DEF PartsAlike
      <3>3. CASE ~(index' < installments)
        <4>1. index + 1 = installments
          BY <2>1, <2>2, <3>3
        <4>2. booked' = (index * installment_amount + installment_amount) + residual
          <5> DEFINE p == installment_amount
                     ip == index * installment_amount
          <5>1. p \in Int /\ ip \in Int
            BY <2>1
          <5>2. booked = ip /\ part' = p + residual
            BY <2>2, <3>1, <4>1
          <5> HIDE DEF p, ip
          <5>3. booked' = (ip + p) + residual
            BY <2>1, <2>2, <5>1, <5>2
          <5> QED
            BY <5>3 DEF p, ip
        <4>3. booked' = installments * installment_amount + residual
          BY <2>1, <4>1, <4>2, OneMore
        <4>4. residual = total_amount - installment_amount * installments
          BY DEF residual
        <4>5. installments * installment_amount = installment_amount * installments
          BY <2>1
        <4>6. booked' = total_amount
          <5> DEFINE np == installment_amount * installments
          <5>1. np \in Int
            BY <2>1
          <5>2. booked' = np + residual /\ residual = total_amount - np
            BY <4>3, <4>4, <4>5
          <5> HIDE DEF np
          <5> QED
            BY <2>1, <5>1, <5>2
        <4> QED
          BY <2>3, <3>3, <4>6 DEF PartsAlike
      <3> QED
        BY <3>2, <3>3
    <2>8. OneEachMonth'
      <3>1. MonthNumber(expense_date) \in Int
        BY <2>1 DEF MonthNumber, Date
      <3>2. MonthNumber(due') = MonthNumber(expense_date) + index' - 1
        BY <2>1, <2>2, <2>4, <3>1
      <3> QED
        BY <2>3, <3>2 DEF OneEachMonth, MonthNumber
    <2>9. DayIsKept'
      BY <2>3, <2>4 DEF DayIsKept, MonthLength, LeapYear
    <2> QED
      BY <2>6, <2>7, <2>8, <2>9 DEF IInv
  <1>2. CASE UNCHANGED vars
    <2>1. /\ UNCHANGED <<total_amount, installments, expense_date>>
          /\ UNCHANGED <<index, part, due, booked>>
      BY <1>2 DEF vars, request
    <2> QED
      BY <2>1 DEF IInv, TypeOK, PartsAlike, OneEachMonth, DayIsKept, MonthNumber,
                  installment_amount
  <1> QED
    BY <1>1, <1>2 DEF Next

LEMMA Invariance == Spec => []IInv
  <1>1. Init => IInv
    BY InitIInv
  <1>2. IInv /\ [Next]_vars => IInv'
    BY StepIInv
  <1> QED
    BY <1>1, <1>2, PTL DEF Spec

(* Every state of the loop is well typed. *)
THEOREM TypeCorrect == Spec => []TypeOK
  <1>1. IInv => TypeOK
    BY DEF IInv
  <1> QED
    BY <1>1, Invariance, PTL

(* The instalments of any amount, however many, add up to it to the cent    *)
(* (expenses.py 468-476).                                                   *)
THEOREM InstallmentsAddUp == Spec => []PartsAddUp
  <1>1. IInv => PartsAddUp
    BY DEF IInv, PartsAlike, PartsAddUp, TypeOK
  <1> QED
    BY <1>1, Invariance, PTL

(* They fall due in consecutive months, from any first date on.             *)
THEOREM MonthsAreConsecutive == Spec => []OneEachMonth
  <1>1. IInv => OneEachMonth
    BY DEF IInv
  <1> QED
    BY <1>1, Invariance, PTL

(* No month shortens the day of a later instalment (_add_months, 39-44).    *)
THEOREM DayIsNeverLost == Spec => []DayIsKept
  <1>1. IInv => DayIsKept
    BY DEF IInv
  <1> QED
    BY <1>1, Invariance, PTL

-------------------------------------------------------------------------------
(* Induction *)

LEMMA LeastElement ==
    ASSUME NEW S \in SUBSET Nat, S # {}
    PROVE  \E n \in S : \A m \in S : n <= m
  <1> DEFINE R == OpToRel(<, Nat)
  <1>1. IsWellFoundedOn(R, Nat)
    BY NatLessThanWellFounded
  <1>2. \A a, b \in Nat : a < b => <<a, b>> \in R
    BY DEF OpToRel
  <1> HIDE DEF R
  <1>3. PICK n \in S : \A m \in S : <<m, n>> \notin R
    BY <1>1, WFMin
  <1>4. \A m \in S : ~ (m < n)
    BY <1>2, <1>3, S \subseteq Nat
  <1> QED
    BY <1>4, SMT

LEMMA Induction ==
    ASSUME NEW S \in SUBSET Nat, 0 \in S, \A n \in S : n + 1 \in S
    PROVE  S = Nat
  <1> SUFFICES ASSUME Nat \ S # {} PROVE FALSE
    OBVIOUS
  <1>1. PICK n \in Nat \ S : \A m \in Nat \ S : n <= m
    BY LeastElement
  <1>2. n - 1 \in Nat /\ n - 1 \notin S
    BY <1>1
  <1> QED
    BY <1>1, <1>2

-------------------------------------------------------------------------------
(* Sums *)

First(s) == CHOOSE x \in s : TRUE

(* g is the function MapThenSumSet recurses on: the sum of d over each      *)
(* subset of D, taking the elements in CHOOSE's order.                      *)
Sums(g, d, D) ==
    g = [s \in SUBSET D |-> IF s = {} THEN 0 ELSE d[First(s)] + g[s \ {First(s)}]]

LEMMA FirstIn == ASSUME NEW s, s # {} PROVE First(s) \in s
  BY DEF First

Unfolds(g, d, D) ==
    \A s \in SUBSET D :
        /\ s = {} => g[s] = 0
        /\ s # {} => g[s] = d[First(s)] + g[s \ {First(s)}]

LEMMA SumStep == ASSUME NEW D, NEW d, NEW g, Sums(g, d, D) PROVE Unfolds(g, d, D)
  <1> SUFFICES ASSUME NEW s \in SUBSET D
               PROVE  /\ s = {} => g[s] = 0
                      /\ s # {} => g[s] = d[First(s)] + g[s \ {First(s)}]
    BY DEF Unfolds
  <1> DEFINE h == [t \in SUBSET D |-> IF t = {} THEN 0 ELSE d[First(t)] + g[t \ {First(t)}]]
  <1>1. g[s] = h[s]
    BY DEF Sums
  <1> QED
    BY <1>1

(* The size of what is left of a set. *)
LEMMA Smaller ==
    ASSUME NEW D, IsFiniteSet(D), NEW s \in SUBSET D, NEW x \in s, NEW n \in Nat,
           Cardinality(s) <= n + 1
    PROVE  s \ {x} \in SUBSET D /\ Cardinality(s \ {x}) <= n
  <1>1. IsFiniteSet(s) /\ Cardinality(s) \in Nat
    BY FS_Subset, FS_CardinalityType
  <1>2. Cardinality(s \ {x}) = Cardinality(s) - 1
    BY <1>1, FS_RemoveElement
  <1> QED
    BY <1>1, <1>2

LEMMA SizeZero ==
    ASSUME NEW D, IsFiniteSet(D), NEW s \in SUBSET D, Cardinality(s) <= 0 PROVE s = {}
  <1>1. IsFiniteSet(s) /\ Cardinality(s) \in Nat
    BY FS_Subset, FS_CardinalityType
  <1> QED
    BY <1>1, FS_EmptySet

(* The recursion is well defined. *)
LEMMA SumsExist ==
    ASSUME NEW D, IsFiniteSet(D), NEW d \in [D -> Int]
    PROVE  \E g \in [SUBSET D -> Int] : Sums(g, d, D)
  <1> DEFINE Small(n) == {s \in SUBSET D : Cardinality(s) <= n}
             Step(g, s) == IF s = {} THEN 0 ELSE d[First(s)] + g[s \ {First(s)}]
             Defined == {n \in Nat : \E g \in [Small(n) -> Int] :
                                        \A s \in Small(n) : g[s] = Step(g, s)}
  <1>1. 0 \in Defined
    <2>1. \A s \in Small(0) : s = {}
      BY SizeZero
    <2>2. [s \in Small(0) |-> 0] \in [Small(0) -> Int]
      OBVIOUS
    <2> QED
      BY <2>1, <2>2
  <1>2. ASSUME NEW n \in Defined PROVE n + 1 \in Defined
    <2> DEFINE More == Small(n + 1)
    <2>1. PICK g \in [Small(n) -> Int] : \A s \in Small(n) : g[s] = Step(g, s)
      OBVIOUS
    <2> DEFINE h == [s \in More |-> Step(g, s)]
    <2>2. \A s \in More : s # {} => s \ {First(s)} \in Small(n) /\ First(s) \in D
      BY Smaller, FirstIn
    <2>3. \A s \in More : Step(g, s) \in Int
      BY <2>2
    <2>4. h \in [More -> Int]
      BY <2>3
    <2>5. \A s \in Small(n) : s \in More /\ h[s] = g[s]
      <3>1. \A s \in Small(n) : s \in More
        <4> SUFFICES ASSUME NEW s \in Small(n) PROVE Cardinality(s) <= n + 1
          OBVIOUS
        <4>1. Cardinality(s) \in Nat
          BY FS_Subset, FS_CardinalityType
        <4> QED
          BY <4>1
      <3> QED
        BY <2>1, <3>1
    <2>6. \A s \in More : h[s] = Step(h, s)
      <3> SUFFICES ASSUME NEW s \in More PROVE h[s] = Step(h, s)
        OBVIOUS
      <3>1. h[s] = Step(g, s)
        OBVIOUS
      <3>2. s # {} => h[s \ {First(s)}] = g[s \ {First(s)}]
        BY <2>2, <2>5
      <3> HIDE DEF h
      <3> QED
        BY <3>1, <3>2
    <2> HIDE DEF h
    <2>7. \E f \in [Small(n + 1) -> Int] : \A s \in Small(n + 1) : f[s] = Step(f, s)
      BY <2>4, <2>6
    <2> HIDE DEF Small, Step
    <2> QED
      BY <2>7
  <1>3. Defined = Nat
    <2> HIDE DEF Defined
    <2> QED
      BY <1>1, <1>2, Induction, Defined \subseteq Nat DEF Defined
  <1>4. Cardinality(D) \in Nat /\ SUBSET D = Small(Cardinality(D))
    BY FS_CardinalityType, FS_Subset
  <1>5. PICK g \in [SUBSET D -> Int] : \A s \in SUBSET D : g[s] = Step(g, s)
    <2>1. Cardinality(D) \in Defined
      BY <1>3, <1>4
    <2> HIDE DEF Small, Step
    <2> QED
      BY <1>4, <2>1
  <1>6. Sums(g, d, D)
    BY <1>5 DEF Sums
  <1> QED
    BY <1>6

(* Whatever the order of the recursion, an element can be taken out first.  *)
LEMMA SumTake ==
    ASSUME NEW D, IsFiniteSet(D), NEW d \in [D -> Int], NEW g, Sums(g, d, D)
    PROVE  \A s \in SUBSET D : g[s] \in Int /\ \A x \in s : g[s] = d[x] + g[s \ {x}]
  <1> DEFINE Small(n) == {s \in SUBSET D : Cardinality(s) <= n}
             Taken(s) == g[s] \in Int /\ \A x \in s : g[s] = d[x] + g[s \ {x}]
             Proved == {n \in Nat : \A s \in Small(n) : Taken(s)}
  <1>0. Unfolds(g, d, D)
    BY SumStep
  <1>1. 0 \in Proved
    <2> SUFFICES ASSUME NEW s \in Small(0) PROVE Taken(s)
      OBVIOUS
    <2>1. s = {}
      BY SizeZero
    <2>2. g[s] = 0
      BY <1>0, <2>1 DEF Unfolds
    <2> QED
      BY <2>1, <2>2
  <1>2. ASSUME NEW n \in Proved PROVE n + 1 \in Proved
    <2> SUFFICES ASSUME NEW s \in Small(n + 1) PROVE Taken(s)
      OBVIOUS
    <2>1. CASE s = {}
      <3>1. g[s] = 0
        BY <1>0, <2>1 DEF Unfolds
      <3> QED
        BY <2>1, <3>1
    <2>2. CASE s # {}
      <3> DEFINE p == First(s)
      <3>1. p \in s /\ g[s] = d[p] + g[s \ {p}]
        BY <1>0, <2>2, FirstIn DEF Unfolds
      <3> HIDE DEF p
      <3>2. \A x \in s : Taken(s \ {x}) /\ d[x] \in Int
        BY Smaller
      <3>3. g[s] \in Int
        <4>1. d[p] \in Int /\ g[s \ {p}] \in Int
          BY <3>1, <3>2
        <4> QED
          BY <3>1, <4>1
      <3>4. ASSUME NEW x \in s PROVE g[s] = d[x] + g[s \ {x}]
        <4>1. CASE x = p
          BY <3>1, <4>1
        <4>2. CASE x # p
          <5>1. g[s \ {p}] = d[x] + g[(s \ {p}) \ {x}]
            BY <3>1, <3>2, <4>2
          <5>2. g[s \ {x}] = d[p] + g[(s \ {x}) \ {p}]
            BY <3>1, <3>2, <4>2
          <5>3. (s \ {p}) \ {x} = (s \ {x}) \ {p}
            OBVIOUS
          <5>4. d[x] \in Int /\ d[p] \in Int /\ g[(s \ {p}) \ {x}] \in Int
            <6>1. d[x] \in Int /\ d[p] \in Int
              BY <3>1, <3>2
            <6>2. (s \ {p}) \ {x} \in Small(n)
              <7>1. s \ {p} \in SUBSET D /\ Cardinality(s \ {p}) <= n
                BY <3>1, Smaller
              <7>2. IsFiniteSet(s \ {p})
                BY <7>1, FS_Subset
              <7>3. /\ IsFiniteSet((s \ {p}) \ {x})
                    /\ Cardinality((s \ {p}) \ {x}) <= Cardinality(s \ {p})
                BY <7>2, FS_Subset
              <7>4. Cardinality(s \ {p}) \in Nat /\ Cardinality((s \ {p}) \ {x}) \in Nat
                BY <7>2, <7>3, FS_CardinalityType
              <7> QED
                BY <7>1, <7>3, <7>4
            <6> QED
              BY <6>1, <6>2
          <5> HIDE DEF Small, Taken
          <5>5. g[s] = d[p] + (d[x] + g[(s \ {p}) \ {x}])
            BY <3>1, <5>1
          <5>6. g[s \ {x}] = d[p] + g[(s \ {p}) \ {x}]
            BY <5>2, <5>3
          <5> QED
            BY <5>4, <5>5, <5>6
        <4> QED
          BY <4>1, <4>2
      <3> QED
        BY <3>3, <3>4
    <2> QED
      BY <2>1, <2>2
  <1>3. Proved = Nat
    <2> HIDE DEF Proved
    <2> QED
      BY <1>1, <1>2, Induction, Proved \subseteq Nat DEF Proved
  <1> SUFFICES ASSUME NEW s \in SUBSET D PROVE Taken(s)
    OBVIOUS
  <1>4. IsFiniteSet(s) /\ Cardinality(s) \in Nat
    BY FS_Subset, FS_CardinalityType
  <1>5. Cardinality(s) \in Proved /\ s \in Small(Cardinality(s))
    BY <1>3, <1>4
  <1> QED
    BY <1>5

(* What holds of no element, and of one more, holds of a finite set. *)
LEMMA SetInduction ==
    ASSUME NEW D, IsFiniteSet(D), NEW P, {} \in P,
           \A s \in SUBSET D : s \in P => \A x \in D \ s : s \cup {x} \in P
    PROVE  D \in P
  <1> DEFINE Small(n) == {s \in SUBSET D : Cardinality(s) <= n}
             Proved == {n \in Nat : Small(n) \subseteq P}
  <1>1. 0 \in Proved
    BY SizeZero
  <1>2. ASSUME NEW n \in Proved PROVE n + 1 \in Proved
    <2> SUFFICES ASSUME NEW s \in Small(n + 1) PROVE s \in P
      OBVIOUS
    <2>1. CASE s = {}
      BY <2>1
    <2>2. CASE s # {}
      <3>1. PICK x \in s : TRUE
        BY <2>2
      <3>2. s \ {x} \in Small(n)
        BY <3>1, Smaller
      <3>3. s \ {x} \in P /\ x \in D \ (s \ {x}) /\ s = (s \ {x}) \cup {x}
        BY <3>1, <3>2
      <3> QED
        BY <3>3
    <2> QED
      BY <2>1, <2>2
  <1>3. Proved = Nat
    <2> HIDE DEF Proved
    <2> QED
      BY <1>1, <1>2, Induction, Proved \subseteq Nat DEF Proved
  <1>4. Cardinality(D) \in Proved /\ D \in Small(Cardinality(D))
    BY <1>3, FS_CardinalityType
  <1> QED
    BY <1>4

(* Two recursions over the same terms agree. *)
LEMMA SumAgree ==
    ASSUME NEW C, NEW D, IsFiniteSet(C), IsFiniteSet(D), NEW c \in [C -> Int], NEW d \in [D -> Int],
           NEW f, Sums(f, c, C), NEW g, Sums(g, d, D),
           NEW E, E \subseteq C, E \subseteq D, \A x \in E : c[x] = d[x]
    PROVE  f[E] = g[E]
  <1> DEFINE P == {s \in SUBSET E : f[s] = g[s]}
  <1>1. IsFiniteSet(E)
    BY FS_Subset
  <1>2. {} \in P
    <2>1. Unfolds(f, c, C) /\ Unfolds(g, d, D)
      BY SumStep
    <2> QED
      BY <2>1 DEF Unfolds
  <1>3. ASSUME NEW s \in SUBSET E, s \in P, NEW x \in E \ s PROVE s \cup {x} \in P
    <2> DEFINE t == s \cup {x}
    <2>1. t \in SUBSET C /\ t \in SUBSET D /\ x \in t /\ t \ {x} = s
      OBVIOUS
    <2> HIDE DEF t
    <2>2. f[t] = c[x] + f[t \ {x}] /\ g[t] = d[x] + g[t \ {x}]
      BY <2>1, SumTake
    <2>3. f[t] = g[t]
      BY <1>3, <2>1, <2>2
    <2> QED
      BY <2>1, <2>3 DEF t
  <1>4. E \in P
    <2> HIDE DEF P
    <2> QED
      BY <1>1, <1>2, <1>3, SetInduction
  <1> QED
    BY <1>4

IsSum(x, d, D) == \E g : Sums(g, d, D) /\ x = g[D]

LEMMA SumUnique ==
    ASSUME NEW D, IsFiniteSet(D), NEW d \in [D -> Int], NEW x, IsSum(x, d, D), NEW y, IsSum(y, d, D)
    PROVE  x = y
  <1>1. PICK f : Sums(f, d, D) /\ x = f[D]
    BY DEF IsSum
  <1>2. PICK g : Sums(g, d, D) /\ y = g[D]
    BY DEF IsSum
  <1> QED
    BY <1>1, <1>2, SumAgree

Numbers(f, S) == \A x \in S : f[x] \in Int

LEMMA SumOverFolds ==
    ASSUME NEW S, IsFiniteSet(S), NEW f, Numbers(f, S)
    PROVE  IsSum(SumOver(f, S), [x \in S |-> f[x]], S)
  <1> DEFINE d == [x \in S |-> f[x]]
             Step(g) == [s \in SUBSET S |-> IF s = {} THEN 0 ELSE f[First(s)] + g[s \ {First(s)}]]
             h == CHOOSE g : g = Step(g)
  <1>1. SumOver(f, S) = h[S]
    BY DEF SumOver, MapThenSumSet, MapThenFoldSet, First
  <1>2. d \in [S -> Int]
    BY DEF Numbers
  <1>3. \A g : Sums(g, d, S) <=> g = Step(g)
    <2> SUFFICES ASSUME NEW g
                 PROVE  Step(g) = [s \in SUBSET S |->
                                      IF s = {} THEN 0 ELSE d[First(s)] + g[s \ {First(s)}]]
      BY DEF Sums
    <2>1. \A s \in SUBSET S : s # {} => d[First(s)] = f[First(s)]
      BY FirstIn
    <2> QED
      BY <2>1
  <1> HIDE DEF d, Step
  <1>4. \E g : g = Step(g)
    BY <1>2, <1>3, SumsExist
  <1>5. h = Step(h)
    BY <1>4
  <1> QED
    BY <1>1, <1>3, <1>5 DEF IsSum, d

(* A sum is a number; an element can be taken out of it. *)
LEMMA SumFacts ==
    ASSUME NEW S, IsFiniteSet(S), NEW f, Numbers(f, S)
    PROVE  /\ SumOver(f, S) \in Int
           /\ S = {} => SumOver(f, S) = 0
           /\ \A x \in S : SumOver(f, S) = f[x] + SumOver(f, S \ {x})
  <1> DEFINE Of(s) == [x \in s |-> f[x]]
  <1>1. PICK g : Sums(g, Of(S), S) /\ SumOver(f, S) = g[S]
    BY SumOverFolds DEF IsSum
  <1>2. Of(S) \in [S -> Int]
    BY DEF Numbers
  <1>3. g[S] \in Int /\ \A x \in S : g[S] = Of(S)[x] + g[S \ {x}]
    <2>1. \A s \in SUBSET S : g[s] \in Int /\ \A x \in s : g[s] = Of(S)[x] + g[s \ {x}]
      <3> DEFINE d == Of(S)
      <3> HIDE DEF d
      <3> QED
        BY <1>1, <1>2, SumTake DEF d
    <2> QED
      BY <2>1
  <1>4. S = {} => g[S] = 0
    <2> HIDE DEF Of
    <2> QED
      BY <1>1, SumStep DEF Unfolds
  <1>5. ASSUME NEW x \in S PROVE SumOver(f, S) = f[x] + SumOver(f, S \ {x})
    <2> DEFINE E == S \ {x}
    <2>1. IsFiniteSet(E) /\ Numbers(f, E)
      BY FS_Subset DEF Numbers
    <2>2. \A y \in E : Of(E)[y] = Of(S)[y]
      OBVIOUS
    <2>3. Of(E) \in [E -> Int]
      BY <2>1 DEF Numbers
    <2>4. E \subseteq S
      OBVIOUS
    <2> HIDE DEF E, Of
    <2>5. PICK h : Sums(h, Of(E), E) /\ SumOver(f, E) = h[E]
      BY <2>1, SumOverFolds DEF IsSum, Of
    <2>6. h[E] = g[E]
      BY <1>1, <1>2, <2>1, <2>2, <2>3, <2>4, <2>5, SumAgree
    <2>7. g[S] = f[x] + g[E]
      BY <1>3 DEF E, Of
    <2> QED
      BY <1>1, <2>5, <2>6, <2>7 DEF E
  <1> QED
    BY <1>1, <1>3, <1>4, <1>5

LEMMA SumOneMore ==
    ASSUME NEW s, IsFiniteSet(s), NEW x, x \notin s, NEW f, Numbers(f, s \cup {x})
    PROVE  SumOver(f, s \cup {x}) = f[x] + SumOver(f, s)
  <1> DEFINE t == s \cup {x}
  <1>1. IsFiniteSet(t) /\ x \in t /\ t \ {x} = s
    BY FS_AddElement
  <1> HIDE DEF t
  <1>2. Numbers(f, t)
    BY DEF t
  <1>3. SumOver(f, t) = f[x] + SumOver(f, t \ {x})
    BY <1>1, <1>2, SumFacts
  <1> QED
    BY <1>1, <1>3 DEF t

LEMMA SumEqual ==
    ASSUME NEW S, IsFiniteSet(S), NEW f, NEW g, Numbers(f, S), \A x \in S : f[x] = g[x]
    PROVE  SumOver(f, S) = SumOver(g, S)
  <1> DEFINE P == {s \in SUBSET S : SumOver(f, s) = SumOver(g, s)}
  <1>0. \A s \in SUBSET S : IsFiniteSet(s) /\ Numbers(f, s) /\ Numbers(g, s)
    BY FS_Subset DEF Numbers
  <1>1. {} \in P
    <2>1. PICK none : none = {}
      OBVIOUS
    <2>2. SumOver(f, none) = 0 /\ SumOver(g, none) = 0
      BY <1>0, <2>1, SumFacts
    <2> QED
      BY <2>1, <2>2
  <1>2. ASSUME NEW s \in SUBSET S, s \in P, NEW x \in S \ s PROVE s \cup {x} \in P
    <2>1. SumOver(f, s \cup {x}) = f[x] + SumOver(f, s)
      BY <1>0, SumOneMore
    <2>2. SumOver(g, s \cup {x}) = g[x] + SumOver(g, s)
      BY <1>0, SumOneMore
    <2> QED
      BY <1>2, <2>1, <2>2
  <1>3. S \in P
    <2> HIDE DEF P
    <2> QED
      BY <1>1, <1>2, SetInduction
  <1> QED
    BY <1>3

(* Sums add up term by term. *)
LEMMA SumPlus ==
    ASSUME NEW S, IsFiniteSet(S), NEW f, NEW g, NEW h, Numbers(f, S), Numbers(g, S),
           \A x \in S : h[x] = f[x] + g[x]
    PROVE  SumOver(h, S) = SumOver(f, S) + SumOver(g, S)
  <1> DEFINE P == {s \in SUBSET S : SumOver(h, s) = SumOver(f, s) + SumOver(g, s)}
  <1>0. \A s \in SUBSET S :
            /\ IsFiniteSet(s) /\ Numbers(f, s) /\ Numbers(g, s) /\ Numbers(h, s)
            /\ SumOver(f, s) \in Int /\ SumOver(g, s) \in Int
    <2>1. \A s \in SUBSET S : IsFiniteSet(s) /\ Numbers(f, s) /\ Numbers(g, s) /\ Numbers(h, s)
      BY FS_Subset DEF Numbers
    <2> QED
      BY <2>1, SumFacts
  <1>1. {} \in P
    <2>1. PICK none : none = {}
      OBVIOUS
    <2>2. SumOver(f, none) = 0 /\ SumOver(g, none) = 0 /\ SumOver(h, none) = 0
      BY <1>0, <2>1, SumFacts
    <2> QED
      BY <2>1, <2>2
  <1>2. ASSUME NEW s \in SUBSET S, s \in P, NEW x \in S \ s PROVE s \cup {x} \in P
    <2>1. /\ SumOver(f, s \cup {x}) = f[x] + SumOver(f, s)
          /\ SumOver(g, s \cup {x}) = g[x] + SumOver(g, s)
          /\ SumOver(h, s \cup {x}) = h[x] + SumOver(h, s)
      BY <1>0, SumOneMore
    <2>2. f[x] \in Int /\ g[x] \in Int /\ h[x] = f[x] + g[x]
      BY DEF Numbers
    <2>3. SumOver(f, s) \in Int /\ SumOver(g, s) \in Int
      BY <1>0
    <2> QED
      BY <1>2, <2>1, <2>2, <2>3
  <1>3. S \in P
    <2> HIDE DEF P
    <2> QED
      BY <1>1, <1>2, SetInduction
  <1> QED
    BY <1>3

(* Zeros do not count. *)
LEMMA SumSupport ==
    ASSUME NEW T, IsFiniteSet(T), NEW S \in SUBSET T,
           NEW f, Numbers(f, S), \A x \in T \ S : f[x] = 0
    PROVE  SumOver(f, T) = SumOver(f, S)
  <1> DEFINE R == T \ S
             P == {s \in SUBSET R : SumOver(f, S \cup s) = SumOver(f, S)}
  <1>0. /\ IsFiniteSet(R)
        /\ \A s \in SUBSET R : IsFiniteSet(S \cup s) /\ Numbers(f, S \cup s)
        /\ SumOver(f, S) \in Int
    <2>1. IsFiniteSet(R)
      BY FS_Subset
    <2>2. \A s \in SUBSET R : IsFiniteSet(S \cup s) /\ Numbers(f, S \cup s)
      BY FS_Subset DEF Numbers
    <2>3. SumOver(f, S) \in Int
      BY FS_Subset, SumFacts
    <2> QED
      BY <2>1, <2>2, <2>3
  <1>1. {} \in P
    <2>1. S \cup {} = S
      OBVIOUS
    <2> QED
      BY <2>1
  <1>2. ASSUME NEW s \in SUBSET R, s \in P, NEW x \in R \ s PROVE s \cup {x} \in P
    <2>1. S \cup (s \cup {x}) = (S \cup s) \cup {x} /\ x \notin S \cup s
      OBVIOUS
    <2>2. SumOver(f, (S \cup s) \cup {x}) = f[x] + SumOver(f, S \cup s)
      <3>1. s \cup {x} \in SUBSET R
        OBVIOUS
      <3>2. IsFiniteSet(S \cup s) /\ Numbers(f, (S \cup s) \cup {x})
        BY <1>0, <2>1, <3>1
      <3> QED
        BY <2>1, <3>2, SumOneMore
    <2>3. f[x] = 0 /\ SumOver(f, S \cup s) = SumOver(f, S)
      BY <1>2
    <2>4. SumOver(f, (S \cup s) \cup {x}) = SumOver(f, S)
      BY <1>0, <2>2, <2>3
    <2>5. SumOver(f, S \cup (s \cup {x})) = SumOver(f, S)
      BY <2>1, <2>4
    <2> QED
      BY <2>5
  <1>3. R \in P
    <2> HIDE DEF P, R
    <2> QED
      BY <1>0, <1>1, <1>2, SetInduction
  <1>4. S \cup R = T
    OBVIOUS
  <1> QED
    BY <1>3, <1>4

(* A sum is the sum of the sums of its groups. *)
Group(S, key, k) == {x \in S : key[x] = k}

LEMMA SumGroups ==
    ASSUME NEW S, IsFiniteSet(S), NEW K, IsFiniteSet(K), NEW f, Numbers(f, S),
           NEW key, \A x \in S : key[x] \in K,
           NEW sums, \A k \in K : sums[k] = SumOver(f, Group(S, key, k))
    PROVE  SumOver(sums, K) = SumOver(f, S)
  <1> DEFINE Of(s) == [k \in K |-> SumOver(f, Group(s, key, k))]
             P == {s \in SUBSET S : SumOver(Of(s), K) = SumOver(f, s)}
  <1>0. \A s \in SUBSET S : \A k \in K :
            /\ IsFiniteSet(s) /\ Numbers(f, s) /\ IsFiniteSet(Group(s, key, k))
            /\ Of(s)[k] \in Int
    <2>1. \A s \in SUBSET S : IsFiniteSet(s) /\ Numbers(f, s)
      BY FS_Subset DEF Numbers
    <2>2. ASSUME NEW s \in SUBSET S, NEW k \in K
          PROVE  IsFiniteSet(Group(s, key, k)) /\ Of(s)[k] \in Int
      <3>1. Group(s, key, k) \in SUBSET S
        BY DEF Group
      <3>2. SumOver(f, Group(s, key, k)) \in Int
        BY <2>1, <3>1, SumFacts
      <3> QED
        BY <2>1, <3>1, <3>2
    <2> QED
      BY <2>1, <2>2
  <1>1. {} \in P
    <2>1. PICK none : none = {}
      OBVIOUS
    <2>2. none \in SUBSET S /\ SumOver(f, none) = 0
      BY <2>1, FS_EmptySet, SumFacts DEF Numbers
    <2>3. ASSUME NEW k \in K PROVE Of(none)[k] = 0
      <3>1. Group(none, key, k) = none
        BY <2>1 DEF Group
      <3> QED
        BY <2>2, <3>1
    <2>4. SumOver(Of(none), K) = 0
      <3> DEFINE g == Of(none)
      <3>1. \A k \in K : g[k] = 0
        BY <2>3
      <3> HIDE DEF g
      <3>2. SumOver(g, K) = SumOver(g, none)
        BY <2>1, <3>1, SumSupport DEF Numbers
      <3>3. SumOver(g, none) = 0
        BY <2>1, FS_EmptySet, SumFacts DEF Numbers
      <3> QED
        BY <3>2, <3>3 DEF g
    <2> QED
      BY <2>1, <2>2, <2>4
  <1>2. ASSUME NEW s \in SUBSET S, s \in P, NEW x \in S \ s PROVE s \cup {x} \in P
    <2> DEFINE t == s \cup {x}
               g == Of(s)
               h == Of(t)
    <2>1. PICK l \in K : l = key[x]
      OBVIOUS
    <2>2. t \in SUBSET S /\ f[x] \in Int
      BY DEF Numbers
    <2>3. ASSUME NEW k \in K \ {l} PROVE h[k] = g[k]
      <3>1. Group(t, key, k) = Group(s, key, k)
        BY <2>1 DEF Group
      <3> QED
        BY <3>1
    <2>4. h[l] = f[x] + g[l]
      <3>1. Group(t, key, l) = Group(s, key, l) \cup {x} /\ x \notin Group(s, key, l)
        BY <2>1 DEF Group
      <3>2. IsFiniteSet(Group(s, key, l)) /\ Numbers(f, Group(s, key, l) \cup {x})
        BY <1>0 DEF Numbers, Group
      <3>3. SumOver(f, Group(s, key, l) \cup {x}) = f[x] + SumOver(f, Group(s, key, l))
        BY <3>1, <3>2, SumOneMore
      <3> QED
        BY <3>1, <3>3
    <2>5. Numbers(g, K) /\ Numbers(h, K)
      BY <1>0, <2>2 DEF Numbers
    <2>6. SumOver(f, t) = f[x] + SumOver(f, s)
      <3>1. Numbers(f, s \cup {x}) /\ IsFiniteSet(s)
        BY <1>0, <2>2, FS_Subset DEF Numbers
      <3> QED
        BY <3>1, SumOneMore
    <2> HIDE DEF g, h, t
    <2>7. SumOver(g, K) = g[l] + SumOver(g, K \ {l})
      BY <2>5, SumFacts
    <2>8. SumOver(h, K) = h[l] + SumOver(h, K \ {l})
      BY <2>5, SumFacts
    <2>9. SumOver(h, K \ {l}) = SumOver(g, K \ {l}) /\ SumOver(g, K \ {l}) \in Int
      <3> DEFINE R == K \ {l}
      <3>1. IsFiniteSet(R) /\ Numbers(g, R) /\ Numbers(h, R) /\ \A k \in R : h[k] = g[k]
        BY <2>3, <2>5, FS_Subset DEF Numbers
      <3> HIDE DEF R
      <3>2. SumOver(h, R) = SumOver(g, R) /\ SumOver(g, R) \in Int
        BY <3>1, SumEqual, SumFacts
      <3> QED
        BY <3>2 DEF R
    <2>10. g[l] \in Int
      BY <2>5 DEF Numbers
    <2>11. SumOver(h, K) = f[x] + SumOver(g, K)
      BY <2>2, <2>4, <2>7, <2>8, <2>9, <2>10
    <2>12. SumOver(g, K) = SumOver(f, s)
      BY <1>2 DEF g
    <2> QED
      BY <2>2, <2>6, <2>11, <2>12 DEF h, t
  <1>3. S \in P
    <2> HIDE DEF P
    <2> QED
      BY <1>1, <1>2, SetInduction
  <1>4. SumOver(sums, K) = SumOver(Of(S), K)
    <2> DEFINE g == Of(S)
    <2>1. \A k \in K : g[k] = sums[k] /\ g[k] \in Int
      BY <1>0
    <2> HIDE DEF g
    <2>2. SumOver(g, K) = SumOver(sums, K)
      BY <2>1, SumEqual DEF Numbers
    <2> QED
      BY <2>2 DEF g
  <1> QED
    BY <1>3, <1>4

(* A recursion over the terms of d is their sum. *)
LEMMA FoldIsSum ==
    ASSUME NEW D, IsFiniteSet(D), NEW d, Numbers(d, D), NEW h, Sums(h, d, D)
    PROVE  h[D] = SumOver(d, D)
  <1> DEFINE c == [x \in D |-> d[x]]
  <1>1. c \in [D -> Int]
    BY DEF Numbers
  <1>2. Sums(h, c, D)
    <2>1. \A s \in SUBSET D : s # {} => c[First(s)] = d[First(s)]
      BY FirstIn
    <2> HIDE DEF c
    <2> QED
      BY <2>1 DEF Sums
  <1>3. IsSum(SumOver(d, D), c, D)
    BY SumOverFolds
  <1> HIDE DEF c
  <1> QED
    BY <1>1, <1>2, <1>3, SumUnique DEF IsSum

-------------------------------------------------------------------------------
(* The sums of the endpoints *)

(* What the row adds to the balance of a. *)
Delta(t, a) ==
    (IF t.account_id = a THEN SourceDelta(t) ELSE 0)
    + (IF t.account_destination_id = a THEN DestinationDelta(t) ELSE 0)

ClosedDelta(t, accounts, a) ==
    IF ~InWindow(accounts[a], t) THEN 0
    ELSE (IF t.account_id = a THEN SourceDelta(t) ELSE 0)
         + (IF t.account_destination_id = a /\ ~IsCardPayment(accounts, t)
            THEN DestinationDelta(t) ELSE 0)

(* The balance of an account, row by row. *)
LEMMA BalanceIsSum ==
    ASSUME NEW rows, NEW a,
           IsFiniteSet(DOMAIN rows), NEW terms, Numbers(terms, DOMAIN rows),
           \A x \in DOMAIN rows : terms[x] = Delta(rows[x], a)
    PROVE  Balance(rows, a) = SumOver(terms, DOMAIN rows)
  <1> DEFINE D == DOMAIN rows
             Step(g) == [s \in SUBSET D |-> IF s = {} THEN 0
                                           ELSE Delta(rows[First(s)], a) + g[s \ {First(s)}]]
             h == CHOOSE g : g = Step(g)
  <1>1. Balance(rows, a) = h[D]
    BY DEF Balance, Delta, MapThenSumSet, MapThenFoldSet, First
  <1>2. \A s \in SUBSET D : s # {} => terms[First(s)] = Delta(rows[First(s)], a)
    BY FirstIn
  <1>3. \A g : Sums(g, terms, D) <=> g = Step(g)
    <2> SUFFICES ASSUME NEW g
                 PROVE  Step(g) = [s \in SUBSET D |->
                                      IF s = {} THEN 0 ELSE terms[First(s)] + g[s \ {First(s)}]]
      BY DEF Sums
    <2> QED
      BY <1>2
  <1> HIDE DEF Step, D
  <1>4. h = Step(h)
    BY <1>3, SumsExist DEF D
  <1> QED
    BY <1>1, <1>3, <1>4, FoldIsSum DEF D

(* Its closed period, row by row. *)
LEMMA ClosedBalanceIsSum ==
    ASSUME NEW rows, NEW accounts, NEW a,
           IsFiniteSet(DOMAIN rows), NEW terms, Numbers(terms, DOMAIN rows),
           \A x \in DOMAIN rows : terms[x] = ClosedDelta(rows[x], accounts, a)
    PROVE  ClosedBalance(rows, accounts, a) = SumOver(terms, DOMAIN rows)
  <1> DEFINE D == DOMAIN rows
             Step(g) == [s \in SUBSET D |-> IF s = {} THEN 0
                                           ELSE ClosedDelta(rows[First(s)], accounts, a)
                                                + g[s \ {First(s)}]]
             h == CHOOSE g : g = Step(g)
  <1>1. ClosedBalance(rows, accounts, a) = h[D]
    BY DEF ClosedBalance, ClosedDelta, MapThenSumSet, MapThenFoldSet, First
  <1>2. \A s \in SUBSET D : s # {} =>
          terms[First(s)] = ClosedDelta(rows[First(s)], accounts, a)
    BY FirstIn
  <1>3. \A g : Sums(g, terms, D) <=> g = Step(g)
    <2> SUFFICES ASSUME NEW g
                 PROVE  Step(g) = [s \in SUBSET D |->
                                      IF s = {} THEN 0 ELSE terms[First(s)] + g[s \ {First(s)}]]
      BY DEF Sums
    <2> QED
      BY <1>2
  <1> HIDE DEF Step, D
  <1>4. h = Step(h)
    BY <1>3, SumsExist DEF D
  <1> QED
    BY <1>1, <1>3, <1>4, FoldIsSum DEF D

(* The two sums of the summary. *)
Incomes(rows, a, S) == MapThenSumSet(LAMBDA i : IncomeAmount(rows[i], a), S)

Expenses(rows, a, S) == MapThenSumSet(LAMBDA i : ExpenseAmount(rows[i], a), S)

LEMMA IncomeIsSum ==
    ASSUME NEW rows, NEW a, NEW S,
           IsFiniteSet(S), NEW terms, Numbers(terms, S),
           \A x \in S : terms[x] = IncomeAmount(rows[x], a)
    PROVE  Incomes(rows, a, S) = SumOver(terms, S)
  <1> DEFINE D == S
             Step(g) == [s \in SUBSET D |-> IF s = {} THEN 0
                                           ELSE IncomeAmount(rows[First(s)], a)
                                                + g[s \ {First(s)}]]
             h == CHOOSE g : g = Step(g)
  <1>1. Incomes(rows, a, S) = h[D]
    BY DEF Incomes, MapThenSumSet, MapThenFoldSet, First
  <1>2. \A s \in SUBSET D : s # {} => terms[First(s)] = IncomeAmount(rows[First(s)], a)
    BY FirstIn
  <1>3. \A g : Sums(g, terms, D) <=> g = Step(g)
    <2> SUFFICES ASSUME NEW g
                 PROVE  Step(g) = [s \in SUBSET D |->
                                      IF s = {} THEN 0 ELSE terms[First(s)] + g[s \ {First(s)}]]
      BY DEF Sums
    <2> QED
      BY <1>2
  <1> HIDE DEF Step, D
  <1>4. h = Step(h)
    BY <1>3, SumsExist DEF D
  <1> QED
    BY <1>1, <1>3, <1>4, FoldIsSum DEF D

LEMMA ExpenseIsSum ==
    ASSUME NEW rows, NEW a, NEW S,
           IsFiniteSet(S), NEW terms, Numbers(terms, S),
           \A x \in S : terms[x] = ExpenseAmount(rows[x], a)
    PROVE  Expenses(rows, a, S) = SumOver(terms, S)
  <1> DEFINE D == S
             Step(g) == [s \in SUBSET D |-> IF s = {} THEN 0
                                           ELSE ExpenseAmount(rows[First(s)], a)
                                                + g[s \ {First(s)}]]
             h == CHOOSE g : g = Step(g)
  <1>1. Expenses(rows, a, S) = h[D]
    BY DEF Expenses, MapThenSumSet, MapThenFoldSet, First
  <1>2. \A s \in SUBSET D : s # {} => terms[First(s)] = ExpenseAmount(rows[First(s)], a)
    BY FirstIn
  <1>3. \A g : Sums(g, terms, D) <=> g = Step(g)
    <2> SUFFICES ASSUME NEW g
                 PROVE  Step(g) = [s \in SUBSET D |->
                                      IF s = {} THEN 0 ELSE terms[First(s)] + g[s \ {First(s)}]]
      BY DEF Sums
    <2> QED
      BY <1>2
  <1> HIDE DEF Step, D
  <1>4. h = Step(h)
    BY <1>3, SumsExist DEF D
  <1> QED
    BY <1>1, <1>3, <1>4, FoldIsSum DEF D

(* Payments to a card. *)
AllCredited(rows, S) == MapThenSumSet(LAMBDA i : Credited(rows[i]), S)

LEMMA CreditedIsSum ==
    ASSUME NEW rows, NEW S,
           IsFiniteSet(S), NEW terms, Numbers(terms, S),
           \A x \in S : terms[x] = Credited(rows[x])
    PROVE  AllCredited(rows, S) = SumOver(terms, S)
  <1> DEFINE D == S
             Step(g) == [s \in SUBSET D |-> IF s = {} THEN 0
                                           ELSE Credited(rows[First(s)]) + g[s \ {First(s)}]]
             h == CHOOSE g : g = Step(g)
  <1>1. AllCredited(rows, S) = h[D]
    BY DEF AllCredited, MapThenSumSet, MapThenFoldSet, First
  <1>2. \A s \in SUBSET D : s # {} => terms[First(s)] = Credited(rows[First(s)])
    BY FirstIn
  <1>3. \A g : Sums(g, terms, D) <=> g = Step(g)
    <2> SUFFICES ASSUME NEW g
                 PROVE  Step(g) = [s \in SUBSET D |->
                                      IF s = {} THEN 0 ELSE terms[First(s)] + g[s \ {First(s)}]]
      BY DEF Sums
    <2> QED
      BY <1>2
  <1> HIDE DEF Step, D
  <1>4. h = Step(h)
    BY <1>3, SumsExist DEF D
  <1> QED
    BY <1>1, <1>3, <1>4, FoldIsSum DEF D

(* A total of the statistics. *)
LEMMA TotalIsSum ==
    ASSUME NEW rows, NEW S,
           IsFiniteSet(S), NEW terms, Numbers(terms, S),
           \A x \in S : terms[x] = rows[x].amount
    PROVE  Total(rows, S) = SumOver(terms, S)
  <1> DEFINE D == S
             Step(g) == [s \in SUBSET D |-> IF s = {} THEN 0
                                           ELSE rows[First(s)].amount + g[s \ {First(s)}]]
             h == CHOOSE g : g = Step(g)
  <1>1. Total(rows, S) = h[D]
    BY DEF Total, MapThenSumSet, MapThenFoldSet, First
  <1>2. \A s \in SUBSET D : s # {} => terms[First(s)] = rows[First(s)].amount
    BY FirstIn
  <1>3. \A g : Sums(g, terms, D) <=> g = Step(g)
    <2> SUFFICES ASSUME NEW g
                 PROVE  Step(g) = [s \in SUBSET D |->
                                      IF s = {} THEN 0 ELSE terms[First(s)] + g[s \ {First(s)}]]
      BY DEF Sums
    <2> QED
      BY <1>2
  <1> HIDE DEF Step, D
  <1>4. h = Step(h)
    BY <1>3, SumsExist DEF D
  <1> QED
    BY <1>1, <1>3, <1>4, FoldIsSum DEF D

-------------------------------------------------------------------------------
(* The ledger *)

(* However many rows were recorded, they are finitely many and each is one  *)
(* a handler can write.                                                     *)
InParent(t) ==
    t.subcategory_id # Null => t.category_id \in {Null, ParentCategory[t.subcategory_id]}

RowsKept ==
    /\ IsFiniteSet(DOMAIN ledger)
    /\ \A i \in DOMAIN ledger : ledger[i] \in Row /\ InParent(ledger[i])

LEMMA RowsAreKept == AnyLedger => []RowsKept
  <1>1. NoRows => RowsKept
    <2> SUFFICES ASSUME NoRows PROVE RowsKept
      OBVIOUS
    <2>1. DOMAIN ledger = {}
      BY DEF NoRows
    <2> QED
      BY <2>1, FS_EmptySet DEF RowsKept
  <1>2. RowsKept /\ [RecordOne]_ledger => RowsKept'
    <2> SUFFICES ASSUME RowsKept, [RecordOne]_ledger PROVE RowsKept'
      OBVIOUS
    <2>1. CASE UNCHANGED ledger
      BY <2>1 DEF RowsKept
    <2>2. ASSUME NEW i \in Ids, NEW t \in Rows, Record(i, t) PROVE RowsKept'
      <3>1. /\ DOMAIN ledger' = DOMAIN ledger \cup {i}
            /\ \A j \in DOMAIN ledger' : ledger'[j] = IF j = i THEN t ELSE ledger[j]
        BY <2>2 DEF Record
      <3>2. IsFiniteSet(DOMAIN ledger \cup {i})
        BY FS_AddElement DEF RowsKept
      <3>3. t \in Row /\ InParent(t)
        BY ViewsAssumption DEF InParent
      <3> QED
        BY <3>1, <3>2, <3>3 DEF RowsKept
    <2> QED
      BY <2>1, <2>2 DEF RecordOne
  <1> QED
    BY <1>1, <1>2, PTL DEF AnyLedger

-------------------------------------------------------------------------------
(* Balances *)

(* What a row adds to a balance is what it adds to the income of the        *)
(* summary, less what it adds to its expenses.                              *)
LEMMA RowOfSummary ==
    ASSUME NEW t \in Row, t.to_amount # 0, NEW a \in Accounts
    PROVE  /\ IncomeAmount(t, a) \in Int /\ ExpenseAmount(t, a) \in Int /\ Delta(t, a) \in Int
           /\ IncomeAmount(t, a) = Delta(t, a) + ExpenseAmount(t, a)
           /\ a \notin {t.account_id, t.account_destination_id} => Delta(t, a) = 0
  <1>1. t.amount \in Int /\ t.to_amount \in Nat \cup {Null} /\ Null \notin Int
    BY ViewsAssumption DEF Row
  <1>2. Credited(t) = Coalesce(t.to_amount, t.amount) /\ Credited(t) \in Int
    BY <1>1 DEF Credited, Coalesce
  <1>3. t.type \in {"income", "expense", "transfer"}
    BY DEF Row
  <1> QED
    BY <1>1, <1>2, <1>3 DEF IncomeAmount, ExpenseAmount, Delta, SourceDelta, DestinationDelta

(* The summary as a difference of two sums over its rows. *)
SummaryRows(a, from, to) ==
    {i \in DOMAIN ledger : /\ ledger[i].expense_date \in from .. to
                           /\ a \in {ledger[i].account_id, ledger[i].account_destination_id}}

LEMMA SummaryIsDifference ==
    ASSUME RowsKept, NoZeroToAmount, NEW a \in Accounts, NEW from, NEW to, NEW terms,
           \A i \in DOMAIN ledger : terms[i] = Delta(ledger[i], a)
    PROVE  NetBalance(ledger, a, from, to) = SumOver(terms, SummaryRows(a, from, to))
  <1> DEFINE R == SummaryRows(a, from, to)
             incomes == [i \in DOMAIN ledger |-> IncomeAmount(ledger[i], a)]
             expenses == [i \in DOMAIN ledger |-> ExpenseAmount(ledger[i], a)]
  <1>1. R \subseteq DOMAIN ledger /\ IsFiniteSet(R)
    BY FS_Subset DEF RowsKept, SummaryRows
  <1>2. NetBalance(ledger, a, from, to) = Incomes(ledger, a, R) - Expenses(ledger, a, R)
    BY DEF NetBalance, SummaryRows, Incomes, Expenses
  <1>3. \A i \in DOMAIN ledger :
            /\ incomes[i] = IncomeAmount(ledger[i], a) /\ expenses[i] = ExpenseAmount(ledger[i], a)
            /\ incomes[i] \in Int /\ expenses[i] \in Int /\ terms[i] \in Int
            /\ incomes[i] = terms[i] + expenses[i]
    BY RowOfSummary DEF RowsKept, NoZeroToAmount
  <1>4. Numbers(incomes, R) /\ Numbers(expenses, R) /\ Numbers(terms, R)
    BY <1>1, <1>3 DEF Numbers
  <1> HIDE DEF R, incomes, expenses
  <1>5. Incomes(ledger, a, R) = SumOver(incomes, R)
    BY <1>1, <1>3, <1>4, IncomeIsSum
  <1>6. Expenses(ledger, a, R) = SumOver(expenses, R)
    BY <1>1, <1>3, <1>4, ExpenseIsSum
  <1>7. SumOver(incomes, R) = SumOver(terms, R) + SumOver(expenses, R)
    BY <1>1, <1>3, <1>4, SumPlus
  <1>8. SumOver(terms, R) \in Int /\ SumOver(expenses, R) \in Int
    BY <1>1, <1>4, SumFacts
  <1>9. NetBalance(ledger, a, from, to) = SumOver(terms, R)
    BY <1>2, <1>5, <1>6, <1>7, <1>8
  <1> QED
    BY <1>9 DEF R

(* The balance an account is listed with, which Python adds up row by row,  *)
(* is what the summary query comes to over all dates, whatever rows of      *)
(* whatever type the ledger has.                                            *)
THEOREM SummaryAgrees == AnyLedger => []SummaryIsBalance
  <1>1. RowsKept => SummaryIsBalance
    <2> SUFFICES ASSUME RowsKept, NoZeroToAmount, NEW a \in Accounts
                 PROVE  NetBalance(ledger, a, 1, LastDay) = Balance(ledger, a)
      BY DEF SummaryIsBalance
    <2> DEFINE D == DOMAIN ledger
               R == SummaryRows(a, 1, LastDay)
               terms == [i \in D |-> Delta(ledger[i], a)]
    <2>1. \A i \in D : terms[i] = Delta(ledger[i], a) /\ terms[i] \in Int
      BY RowOfSummary DEF RowsKept, NoZeroToAmount
    <2>2. IsFiniteSet(D) /\ R \in SUBSET D
      BY DEF RowsKept, SummaryRows
    <2>3. \A i \in D \ R : terms[i] = 0
      <3> SUFFICES ASSUME NEW i \in D \ R PROVE terms[i] = 0
        OBVIOUS
      <3>1. ledger[i] \in Row /\ ledger[i].to_amount # 0
        BY DEF RowsKept, NoZeroToAmount
      <3>2. ledger[i].expense_date \in 1 .. LastDay
        BY <3>1 DEF Row
      <3>3. a \notin {ledger[i].account_id, ledger[i].account_destination_id}
        BY <3>2 DEF SummaryRows
      <3> QED
        BY <3>1, <3>3, RowOfSummary
    <2>4. Numbers(terms, D) /\ Numbers(terms, R)
      BY <2>1, <2>2 DEF Numbers
    <2> HIDE DEF D, R, terms
    <2>5. Balance(ledger, a) = SumOver(terms, D)
      BY <2>1, <2>2, <2>4, BalanceIsSum DEF D
    <2>6. SumOver(terms, D) = SumOver(terms, R)
      BY <2>2, <2>3, <2>4, SumSupport
    <2>7. NetBalance(ledger, a, 1, LastDay) = SumOver(terms, R)
      BY <2>1, SummaryIsDifference DEF D, R
    <2> QED
      BY <2>5, <2>6, <2>7
  <1> QED
    BY <1>1, RowsAreKept, PTL

(* Of a row in the closed period of a credit card, the period counts what   *)
(* the summary counts and the payment is left out.                          *)
PaymentTo(a, t) ==
    /\ t.type = "transfer"
    /\ t.account_destination_id = a
    /\ InWindow(account[a], t)

LEMMA RowOfClosedPeriod ==
    ASSUME NEW t \in Row, t.to_amount # 0, NEW a \in Accounts, HasWindow(account[a])
    PROVE  /\ ClosedDelta(t, account, a) \in Int /\ Credited(t) \in Int
           /\ InWindow(account[a], t)
              => Delta(t, a) = ClosedDelta(t, account, a)
                               + (IF PaymentTo(a, t) THEN Credited(t) ELSE 0)
           /\ ~InWindow(account[a], t) => ClosedDelta(t, account, a) = 0
           /\ a \notin {t.account_id, t.account_destination_id} => ClosedDelta(t, account, a) = 0
  <1>1. t.amount \in Int /\ t.to_amount \in Nat \cup {Null} /\ Null \notin Int /\ a # Null
    BY ViewsAssumption DEF Row
  <1>2. Credited(t) \in Int
    BY <1>1 DEF Credited
  <1>3. t.account_destination_id = a => IsCardPayment(account, t)
    BY <1>1 DEF IsCardPayment, HasWindow
  <1> DEFINE S == IF t.account_id = a THEN SourceDelta(t) ELSE 0
             E == IF t.account_destination_id = a THEN DestinationDelta(t) ELSE 0
  <1>4. S \in Int /\ (t.account_id # a => S = 0)
    BY <1>1 DEF SourceDelta
  <1>5. ClosedDelta(t, account, a) = IF InWindow(account[a], t) THEN S ELSE 0
    <2>1. (IF t.account_destination_id = a /\ ~IsCardPayment(account, t)
           THEN DestinationDelta(t) ELSE 0) = 0
      BY <1>3
    <2>2. ClosedDelta(t, account, a) = IF InWindow(account[a], t) THEN S + 0 ELSE 0
      BY <2>1 DEF ClosedDelta
    <2> QED
      BY <1>4, <2>2
  <1>6. InWindow(account[a], t) => E = IF PaymentTo(a, t) THEN Credited(t) ELSE 0
    BY DEF PaymentTo, DestinationDelta
  <1>7. Delta(t, a) = S + E
    BY DEF Delta
  <1> HIDE DEF S, E
  <1> QED
    BY <1>2, <1>4, <1>5, <1>6, <1>7

(* The closed period of a credit card, of which only the Python loop knows, *)
(* is the summary query over its dates less the payments to the card, a     *)
(* payment from the card to itself included.                                *)
THEOREM ClosedPeriodAgrees == AnyLedger => []ClosedPeriodIsSummaryWithoutPayments
  <1>1. RowsKept => ClosedPeriodIsSummaryWithoutPayments
    <2> SUFFICES ASSUME RowsKept, NoZeroToAmount, NEW a \in Accounts, HasWindow(account[a])
                 PROVE  ClosedBalance(ledger, account, a)
                        = NetBalance(ledger, a, account[a].billing_period_start,
                                                account[a].billing_period_end)
                          - AllCredited(ledger, {i \in DOMAIN ledger : PaymentTo(a, ledger[i])})
      BY DEF ClosedPeriodIsSummaryWithoutPayments, AllCredited, PaymentTo
    <2> DEFINE D == DOMAIN ledger
               R == SummaryRows(a, account[a].billing_period_start, account[a].billing_period_end)
               P == {i \in D : PaymentTo(a, ledger[i])}
               terms == [i \in D |-> Delta(ledger[i], a)]
               closed == [i \in D |-> ClosedDelta(ledger[i], account, a)]
               paid == [i \in D |-> IF i \in P THEN Credited(ledger[i]) ELSE 0]
    <2>1. /\ IsFiniteSet(D) /\ IsFiniteSet(R) /\ IsFiniteSet(P)
          /\ R \in SUBSET D /\ P \in SUBSET R
      BY FS_Subset DEF RowsKept, SummaryRows, PaymentTo, InWindow
    <2>2. \A i \in D :
              /\ ledger[i] \in Row /\ ledger[i].to_amount # 0
              /\ (i \in R <=> /\ InWindow(account[a], ledger[i])
                              /\ a \in {ledger[i].account_id, ledger[i].account_destination_id})
      BY DEF RowsKept, NoZeroToAmount, SummaryRows, InWindow
    <2>3. \A i \in D :
              /\ terms[i] = Delta(ledger[i], a) /\ terms[i] \in Int
              /\ closed[i] = ClosedDelta(ledger[i], account, a) /\ closed[i] \in Int
              /\ paid[i] = (IF PaymentTo(a, ledger[i]) THEN Credited(ledger[i]) ELSE 0)
              /\ paid[i] \in Int
      BY <2>2, RowOfSummary, RowOfClosedPeriod
    <2>4. \A i \in D \ R : closed[i] = 0
      BY <2>2, <2>3, RowOfClosedPeriod
    <2>5. \A i \in R : terms[i] = closed[i] + paid[i]
      <3> SUFFICES ASSUME NEW i \in R PROVE terms[i] = closed[i] + paid[i]
        OBVIOUS
      <3>1. i \in D /\ InWindow(account[a], ledger[i])
        BY <2>1, <2>2
      <3> HIDE DEF D, R, P, terms, closed, paid
      <3> QED
        BY <2>2, <2>3, <3>1, RowOfClosedPeriod
    <2>6. \A i \in R \ P : paid[i] = 0
      BY <2>1
    <2>7. \A i \in P : paid[i] = Credited(ledger[i])
      OBVIOUS
    <2>8. \A S \in SUBSET D : Numbers(terms, S) /\ Numbers(closed, S) /\ Numbers(paid, S)
      BY <2>3 DEF Numbers
    <2> HIDE DEF R, P, terms, closed, paid
    <2>9. ClosedBalance(ledger, account, a) = SumOver(closed, D)
      BY <2>1, <2>3, <2>8, ClosedBalanceIsSum
    <2>10. SumOver(closed, D) = SumOver(closed, R)
      BY <2>1, <2>4, <2>8, SumSupport
    <2>11. NetBalance(ledger, a, account[a].billing_period_start, account[a].billing_period_end)
           = SumOver(terms, R)
      BY <2>3, SummaryIsDifference DEF R
    <2>12. AllCredited(ledger, P) = SumOver(paid, P)
      BY <2>1, <2>7, <2>8, CreditedIsSum
    <2>13. SumOver(paid, R) = SumOver(paid, P)
      BY <2>1, <2>6, <2>8, SumSupport
    <2>14. SumOver(terms, R) = SumOver(closed, R) + SumOver(paid, R)
      BY <2>1, <2>5, <2>8, SumPlus
    <2>15. SumOver(closed, R) \in Int /\ SumOver(paid, R) \in Int
      BY <2>1, <2>8, SumFacts
    <2> QED
      BY <2>9, <2>10, <2>11, <2>12, <2>13, <2>14, <2>15 DEF P
  <1> QED
    BY <1>1, RowsAreKept, PTL

-------------------------------------------------------------------------------
(* Statistics *)

amountOf == [i \in DOMAIN ledger |-> ledger[i].amount]

LEMMA TotalOfRows ==
    ASSUME RowsKept, NEW S \in SUBSET DOMAIN ledger
    PROVE  IsFiniteSet(S) /\ Numbers(amountOf, S) /\ Total(ledger, S) = SumOver(amountOf, S)
  <1>1. IsFiniteSet(S)
    BY FS_Subset DEF RowsKept
  <1>2. \A i \in S : amountOf[i] = ledger[i].amount /\ amountOf[i] \in Int
    BY DEF amountOf, RowsKept, Row
  <1>3. Numbers(amountOf, S)
    BY <1>2 DEF Numbers
  <1> QED
    BY <1>1, <1>2, <1>3, TotalIsSum

LEMMA CountedRows ==
    ASSUME NEW type, NEW from, NEW to, NEW currency
    PROVE  Counted(ledger, account, type, from, to, currency) \in SUBSET DOMAIN ledger
  BY DEF Counted

Month == [year : Int, month : 1 .. 12]

LEMMA MonthsAreMonths == Months \subseteq Month /\ \A d \in 1 .. LastDay : MonthOf[d] \in Month
  <1>1. \A d \in 1 .. LastDay : MonthOf[d] \in [year : Nat, month : 1 .. 12]
    BY ViewsAssumption
  <1>2. [year : Nat, month : 1 .. 12] \subseteq Month
    BY DEF Month
  <1> QED
    BY <1>1, <1>2 DEF Months

(* Counting back on the calendar is division of the month's number, over    *)
(* the end of a year and before the first one too.                          *)
LEMMA CountingBack ==
    ASSUME NEW m \in Month, NEW n \in 0 .. 5
    PROVE  ShiftMonth(m, -n) = MonthsBack(m, n) /\ MonthsBack(m, n) \in Month
  <1> DEFINE y == IF m.month > n THEN m.year ELSE m.year - 1
             r == IF m.month > n THEN m.month - 1 - n ELSE m.month + 11 - n
             i == 12 * m.year + (m.month - 1) + (-n)
  <1>1. m.year \in Int /\ m.month \in 1 .. 12 /\ m = [year |-> m.year, month |-> m.month]
    BY DEF Month
  <1>2. y \in Int /\ r \in 0 .. 11 /\ i = 12 * y + r
    BY <1>1
  <1>3. MonthsBack(m, n) = [year |-> y, month |-> r + 1]
    <2>1. CASE m.month > n
      <3>1. MonthsBack(m, n) = [year |-> m.year, month |-> m.month - n]
        BY <1>1, <2>1 DEF MonthsBack
      <3>2. r + 1 = m.month - n /\ y = m.year
        BY <1>1, <2>1
      <3> QED
        BY <3>1, <3>2
    <2>2. CASE ~(m.month > n)
      <3>1. MonthsBack(m, n) = [year |-> m.year - 1, month |-> m.month + 12 - n]
        BY <2>2 DEF MonthsBack
      <3>2. r + 1 = m.month + 12 - n /\ y = m.year - 1
        BY <1>1, <2>2
      <3> QED
        BY <3>1, <3>2
    <2> QED
      BY <2>1, <2>2
  <1>4. ShiftMonth(m, -n) = [year |-> i \div 12, month |-> (i % 12) + 1]
    BY DEF ShiftMonth
  <1> HIDE DEF y, r, i
  <1>5. i \div 12 = y /\ i % 12 = r
    BY <1>2
  <1>6. MonthsBack(m, n) \in Month
    BY <1>2, <1>3 DEF Month
  <1> QED
    BY <1>3, <1>4, <1>5, <1>6

(* The five months before lie between the first of them and the month.      *)
LEMMA BackIsBetween ==
    ASSUME NEW m \in Month, NEW n \in 0 .. 5
    PROVE  Before(MonthsBack(m, 5), MonthsBack(m, n)) /\ Before(MonthsBack(m, n), m)
  <1>1. /\ MonthsBack(m, 5).year = IF m.month > 5 THEN m.year ELSE m.year - 1
        /\ MonthsBack(m, 5).month = IF m.month > 5 THEN m.month - 5 ELSE m.month + 7
        /\ MonthsBack(m, n).year = IF m.month > n THEN m.year ELSE m.year - 1
        /\ MonthsBack(m, n).month = IF m.month > n THEN m.month - n ELSE m.month + 12 - n
    BY DEF MonthsBack, Month
  <1>2. m.year \in Int /\ m.month \in 1 .. 12
    BY DEF Month
  <1> QED
    BY <1>1, <1>2 DEF Before

LEMMA BeforeEachOther ==
    ASSUME NEW m \in Month, NEW n \in Month
    PROVE  Before(m, n) /\ Before(n, m) <=> m = n
  BY DEF Before, Month

(* A bucket of the series holds the rows of the month's summary.            *)
LEMMA BucketIsMonth ==
    ASSUME RowsKept, NEW type, NEW c, NEW m \in Month, NEW n \in 0 .. 5
    PROVE  {i \in Counted(ledger, account, type, ShiftMonth(m, -5), m, c) :
                MonthOf[ledger[i].expense_date] = MonthsBack(m, n)}
           = Counted(ledger, account, type, MonthsBack(m, n), MonthsBack(m, n), c)
  <1>1. ShiftMonth(m, -5) = MonthsBack(m, 5) /\ MonthsBack(m, n) \in Month
    <2>1. \A k \in 0 .. 5 : ShiftMonth(m, -k) = MonthsBack(m, k) /\ MonthsBack(m, k) \in Month
      BY CountingBack
    <2> QED
      BY <2>1
  <1>2. \A i \in DOMAIN ledger : MonthOf[ledger[i].expense_date] \in Month
    BY MonthsAreMonths DEF RowsKept, Row
  <1>3. Before(MonthsBack(m, 5), MonthsBack(m, n)) /\ Before(MonthsBack(m, n), m)
    BY BackIsBetween
  <1>4. \A i \in DOMAIN ledger :
            /\ Before(MonthsBack(m, n), MonthOf[ledger[i].expense_date])
            /\ Before(MonthOf[ledger[i].expense_date], MonthsBack(m, n))
            <=> MonthOf[ledger[i].expense_date] = MonthsBack(m, n)
    BY <1>1, <1>2, BeforeEachOther
  <1> QED
    BY <1>1, <1>3, <1>4 DEF Counted

(* Each of the six months of a series shows what the summary of that month  *)
(* shows, though one query over all six builds it: over the end of a year,  *)
(* and zero for a month without rows.                                       *)
THEOREM SeriesAgrees == AnyLedger => []SeriesShowsEachSummary
  <1>1. RowsKept => SeriesShowsEachSummary
    <2> SUFFICES ASSUME RowsKept, NEW m \in Months, NEW c \in Currencies,
                        NEW type \in {"income", "expense"}, NEW n \in 0 .. 5
                 PROVE  MonthlySeries(ledger, account, type, m, c)[-n]
                        = MonthTotal(ledger, account, type, MonthsBack(m, n), c)
      BY DEF SeriesShowsEachSummary
    <2> DEFINE rows == Counted(ledger, account, type, ShiftMonth(m, -5), m, c)
               b == MonthsBack(m, n)
               bucket == {i \in rows : MonthOf[ledger[i].expense_date] = b}
               keys == {MonthOf[ledger[i].expense_date] : i \in rows}
    <2>1. m \in Month
      BY MonthsAreMonths
    <2>2. ShiftMonth(m, -n) = b
      BY <2>1, CountingBack
    <2>3. bucket = Counted(ledger, account, type, b, b, c)
      BY <2>1, BucketIsMonth
    <2>4. MonthlySeries(ledger, account, type, m, c)[-n]
          = IF b \in keys THEN Total(ledger, bucket) ELSE 0
      BY <2>2 DEF MonthlySeries
    <2>5. MonthTotal(ledger, account, type, b, c) = Total(ledger, bucket)
      BY <2>3 DEF MonthTotal
    <2>6. b \notin keys => bucket = {}
      OBVIOUS
    <2>7. bucket = {} => Total(ledger, bucket) = 0
      <3>1. bucket \in SUBSET DOMAIN ledger
        BY CountedRows
      <3> HIDE DEF bucket
      <3> QED
        BY <3>1, TotalOfRows, SumFacts
    <2> HIDE DEF bucket, keys
    <2> QED
      BY <2>4, <2>5, <2>6, <2>7
  <1> QED
    BY <1>1, RowsAreKept, PTL

LEMMA ImageIsFinite ==
    ASSUME NEW S, IsFiniteSet(S), NEW f
    PROVE  IsFiniteSet({f[x] : x \in S})
  <1> DEFINE T == {f[x] : x \in S}
             g == [x \in S |-> f[x]]
  <1>1. g \in Surjection(S, T)
    BY DEF Surjection
  <1> QED
    BY <1>1, FS_Surjection

(* The totals of the labels of some rows. *)
LEMMA GroupedRows ==
    ASSUME RowsKept, NEW labelOf, DOMAIN labelOf \in SUBSET DOMAIN ledger
    PROVE  LET C == DOMAIN labelOf
               totals == Grouped(ledger, labelOf) IN
           /\ IsFiniteSet(C) /\ Numbers(amountOf, C)
           /\ DOMAIN totals = {labelOf[i] : i \in C}
           /\ IsFiniteSet(DOMAIN totals)
           /\ \A l \in DOMAIN totals : totals[l] = SumOver(amountOf, Group(C, labelOf, l))
           /\ Numbers(totals, DOMAIN totals)
  <1> DEFINE C == DOMAIN labelOf
             totals == Grouped(ledger, labelOf)
  <1>1. IsFiniteSet(C) /\ Numbers(amountOf, C)
    BY TotalOfRows
  <1>2. DOMAIN totals = {labelOf[i] : i \in C}
    BY DEF Grouped
  <1>3. IsFiniteSet({labelOf[i] : i \in C})
    BY <1>1, ImageIsFinite
  <1>4. ASSUME NEW l \in DOMAIN totals
        PROVE  totals[l] = SumOver(amountOf, Group(C, labelOf, l)) /\ totals[l] \in Int
    <2>1. totals[l] = Total(ledger, Group(C, labelOf, l))
      BY <1>2, <1>4 DEF Grouped, Group
    <2>2. Group(C, labelOf, l) \in SUBSET DOMAIN ledger
      BY DEF Group
    <2> QED
      BY <2>1, <2>2, TotalOfRows, SumFacts
  <1> HIDE DEF totals
  <1> QED
    BY <1>1, <1>2, <1>3, <1>4 DEF Numbers, totals

(* The labels add up to the total of the rows, and the labels that are part *)
(* of one of some other labels to those.                                    *)
LEMMA LabelsAddUp ==
    ASSUME RowsKept, NEW C \in SUBSET DOMAIN ledger, NEW outer, DOMAIN outer = C
    PROVE  LET totals == Grouped(ledger, outer) IN
           SumOver(totals, DOMAIN totals) = Total(ledger, C)
  <1> DEFINE totals == Grouped(ledger, outer)
  <1>1. IsFiniteSet(C) /\ Numbers(amountOf, C) /\ Total(ledger, C) = SumOver(amountOf, C)
    BY TotalOfRows
  <1>2. /\ DOMAIN totals = {outer[i] : i \in C}
        /\ IsFiniteSet(DOMAIN totals)
        /\ \A l \in DOMAIN totals : totals[l] = SumOver(amountOf, Group(C, outer, l))
    BY GroupedRows
  <1>3. \A i \in C : outer[i] \in DOMAIN totals
    BY <1>2
  <1> HIDE DEF totals
  <1>4. SumOver(totals, DOMAIN totals) = SumOver(amountOf, C)
    BY <1>1, <1>2, <1>3, SumGroups
  <1> QED
    BY <1>1, <1>4 DEF totals

PartsOf(C, outer, inner, L) ==
    /\ C \in SUBSET DOMAIN ledger
    /\ DOMAIN outer = C /\ DOMAIN inner = C
    /\ \A i \in C : outer[i] \in L <=> inner[i][1] \in L

LEMMA PartsAddUpToLabels ==
    ASSUME RowsKept, NEW C, NEW outer, NEW inner, NEW L, PartsOf(C, outer, inner, L)
    PROVE  LET totals == Grouped(ledger, outer)
               parts == Grouped(ledger, inner) IN
           /\ Numbers(totals, DOMAIN totals)
           /\ SumOver(totals, DOMAIN totals \cap L)
              = SumOver(parts, {k \in DOMAIN parts : k[1] \in L})
  <1> DEFINE totals == Grouped(ledger, outer)
             parts == Grouped(ledger, inner)
             S == {i \in C : outer[i] \in L}
             T == DOMAIN totals \cap L
             K == {k \in DOMAIN parts : k[1] \in L}
  <1> USE DEF PartsOf
  <1>1. /\ DOMAIN totals = {outer[i] : i \in C}
        /\ IsFiniteSet(DOMAIN totals)
        /\ \A l \in DOMAIN totals : totals[l] = SumOver(amountOf, Group(C, outer, l))
        /\ Numbers(totals, DOMAIN totals)
    BY GroupedRows
  <1>2. /\ DOMAIN parts = {inner[i] : i \in C}
        /\ IsFiniteSet(DOMAIN parts)
        /\ \A k \in DOMAIN parts : parts[k] = SumOver(amountOf, Group(C, inner, k))
    BY GroupedRows
  <1> HIDE DEF totals, parts
  <1>3. IsFiniteSet(S) /\ Numbers(amountOf, S)
    <2>1. S \in SUBSET DOMAIN ledger
      OBVIOUS
    <2> HIDE DEF S
    <2> QED
      BY <2>1, TotalOfRows
  <1>4. SumOver(totals, T) = SumOver(amountOf, S)
    <2>1. IsFiniteSet(T)
      BY <1>1, FS_Subset
    <2>2. \A i \in S : outer[i] \in T
      BY <1>1
    <2>3. \A l \in T : totals[l] = SumOver(amountOf, Group(S, outer, l))
      <3> SUFFICES ASSUME NEW l \in T PROVE totals[l] = SumOver(amountOf, Group(S, outer, l))
        OBVIOUS
      <3>1. Group(S, outer, l) = Group(C, outer, l)
        BY DEF Group
      <3> QED
        BY <1>1, <3>1
    <2> HIDE DEF S, T
    <2> QED
      BY <1>3, <2>1, <2>2, <2>3, SumGroups
  <1>5. SumOver(parts, K) = SumOver(amountOf, S)
    <2>1. IsFiniteSet(K)
      BY <1>2, FS_Subset
    <2>2. \A i \in S : inner[i] \in K
      BY <1>2
    <2>3. \A k \in K : parts[k] = SumOver(amountOf, Group(S, inner, k))
      <3> SUFFICES ASSUME NEW k \in K PROVE parts[k] = SumOver(amountOf, Group(S, inner, k))
        OBVIOUS
      <3>1. Group(S, inner, k) = Group(C, inner, k)
        BY DEF Group
      <3> QED
        BY <1>2, <3>1
    <2> HIDE DEF S, K
    <2> QED
      BY <1>3, <2>1, <2>2, <2>3, SumGroups
  <1> QED
    BY <1>1, <1>4, <1>5 DEF totals, parts

(* The categories of a month add up to its summary and the subcategories of *)
(* a category to it, categories of one name and those deleted since         *)
(* included, the latter under the two spellings of their label.             *)
THEOREM BreakdownAddsUp == AnyLedger => []CategoriesAddUp
  <1>1. RowsKept => CategoriesAddUp
    <2> SUFFICES ASSUME RowsKept, NEW m \in Months, NEW c \in Currencies,
                        NEW type \in {"income", "expense"}
                 PROVE  LET categories == ByCategory(ledger, account, type, m, c)
                            subcategories == BySubcategory(ledger, account, type, m, c) IN
                        /\ SumOver(categories, DOMAIN categories)
                           = MonthTotal(ledger, account, type, m, c)
                        /\ \A l \in DOMAIN categories \ Unnamed :
                              categories[l]
                              = SumOver(subcategories, {k \in DOMAIN subcategories : k[1] = l})
                        /\ SumOver(categories, DOMAIN categories \cap Unnamed)
                           = SumOver(subcategories, {k \in DOMAIN subcategories : k[1] \in Unnamed})
      BY DEF CategoriesAddUp
    <2> DEFINE C == Counted(ledger, account, type, m, m, c)
               outer == [i \in C |-> CategoryLabel(ledger[i])]
               inner == [i \in C |-> PairLabel(ledger[i])]
               categories == Grouped(ledger, outer)
               subcategories == Grouped(ledger, inner)
    <2>1. C \in SUBSET DOMAIN ledger
      BY CountedRows
    <2>2. /\ ByCategory(ledger, account, type, m, c) = categories
          /\ BySubcategory(ledger, account, type, m, c) = subcategories
          /\ MonthTotal(ledger, account, type, m, c) = Total(ledger, C)
      BY DEF ByCategory, BySubcategory, MonthTotal
    <2>3. DOMAIN outer = C /\ DOMAIN inner = C
      OBVIOUS
    <2>4. \A i \in C : /\ outer[i] \in Unnamed <=> inner[i][1] \in Unnamed
                       /\ \A l : l \notin Unnamed => (outer[i] = l <=> inner[i][1] = l)
      BY DEF CategoryLabel, PairLabel, NameOr, Unnamed
    <2> HIDE DEF C, outer, inner
    <2>5. SumOver(categories, DOMAIN categories) = Total(ledger, C)
      BY <2>1, <2>3, LabelsAddUp
    <2>6. SumOver(categories, DOMAIN categories \cap Unnamed)
          = SumOver(subcategories, {k \in DOMAIN subcategories : k[1] \in Unnamed})
      <3>1. PartsOf(C, outer, inner, Unnamed)
        BY <2>1, <2>3, <2>4 DEF PartsOf
      <3> QED
        BY <3>1, PartsAddUpToLabels
    <2>7. ASSUME NEW l \in DOMAIN categories \ Unnamed
          PROVE  categories[l] = SumOver(subcategories, {k \in DOMAIN subcategories : k[1] = l})
      <3> DEFINE L == {l}
                 T == DOMAIN categories \cap L
                 K == {k \in DOMAIN subcategories : k[1] = l}
      <3>1. PartsOf(C, outer, inner, L)
        BY <2>1, <2>3, <2>4 DEF PartsOf
      <3>2. T = L /\ K = {k \in DOMAIN subcategories : k[1] \in L}
        OBVIOUS
      <3> HIDE DEF L
      <3>3. Numbers(categories, DOMAIN categories) /\ SumOver(categories, T) = SumOver(subcategories, K)
        BY <3>1, <3>2, PartsAddUpToLabels
      <3>4. SumOver(categories, L) = categories[l]
        <4> DEFINE none == L \ {l}
        <4>1. none = {} /\ IsFiniteSet(L) /\ l \in L /\ L \subseteq DOMAIN categories
          BY FS_Singleton DEF L
        <4>2. Numbers(categories, L) /\ Numbers(categories, none) /\ categories[l] \in Int
          BY <3>3, <4>1 DEF Numbers
        <4> HIDE DEF categories
        <4>3. SumOver(categories, L) = categories[l] + SumOver(categories, none)
          BY <4>1, <4>2, SumFacts
        <4> HIDE DEF none
        <4>4. SumOver(categories, none) = 0
          BY <4>1, <4>2, FS_EmptySet, SumFacts
        <4> QED
          BY <4>2, <4>3, <4>4
      <3> QED
        BY <3>2, <3>3, <3>4
    <2> HIDE DEF categories, subcategories
    <2> QED
      BY <2>2, <2>5, <2>6, <2>7
  <1> QED
    BY <1>1, RowsAreKept, PTL

(* What the budgets on some categories, or on some subcategories, spent.    *)
SpentOnCategories(rows, m, c, S) ==
    MapThenSumSet(LAMBDA x : Spent(rows, Budget(x, Null, c), m), S)

SpentOnSubcategories(rows, m, c, S) ==
    MapThenSumSet(LAMBDA s : Spent(rows, Budget(ParentCategory[s], s, c), m), S)

LEMMA SpentOnCategoriesIsSum ==
    ASSUME NEW rows, NEW m, NEW c, NEW S,
           IsFiniteSet(S), NEW terms, Numbers(terms, S),
           \A x \in S : terms[x] = Spent(rows, Budget(x, Null, c), m)
    PROVE  SpentOnCategories(rows, m, c, S) = SumOver(terms, S)
  <1> DEFINE D == S
             Step(g) == [s \in SUBSET D |-> IF s = {} THEN 0
                                           ELSE Spent(rows, Budget(First(s), Null, c), m)
                                                + g[s \ {First(s)}]]
             h == CHOOSE g : g = Step(g)
  <1>1. SpentOnCategories(rows, m, c, S) = h[D]
    BY DEF SpentOnCategories, MapThenSumSet, MapThenFoldSet, First
  <1>2. \A s \in SUBSET D : s # {} =>
          terms[First(s)] = Spent(rows, Budget(First(s), Null, c), m)
    BY FirstIn
  <1>3. \A g : Sums(g, terms, D) <=> g = Step(g)
    <2> SUFFICES ASSUME NEW g
                 PROVE  Step(g) = [s \in SUBSET D |->
                                      IF s = {} THEN 0 ELSE terms[First(s)] + g[s \ {First(s)}]]
      BY DEF Sums
    <2> QED
      BY <1>2
  <1> HIDE DEF Step, D
  <1>4. h = Step(h)
    BY <1>3, SumsExist DEF D
  <1> QED
    BY <1>1, <1>3, <1>4, FoldIsSum DEF D

LEMMA SpentOnSubcategoriesIsSum ==
    ASSUME NEW rows, NEW m, NEW c, NEW S,
           IsFiniteSet(S), NEW terms, Numbers(terms, S),
           \A x \in S : terms[x] = Spent(rows, Budget(ParentCategory[x], x, c), m)
    PROVE  SpentOnSubcategories(rows, m, c, S) = SumOver(terms, S)
  <1> DEFINE D == S
             Step(g) == [s \in SUBSET D |-> IF s = {} THEN 0
                                           ELSE Spent(rows, Budget(ParentCategory[First(s)], First(s), c), m)
                                                + g[s \ {First(s)}]]
             h == CHOOSE g : g = Step(g)
  <1>1. SpentOnSubcategories(rows, m, c, S) = h[D]
    BY DEF SpentOnSubcategories, MapThenSumSet, MapThenFoldSet, First
  <1>2. \A s \in SUBSET D : s # {} =>
          terms[First(s)] = Spent(rows, Budget(ParentCategory[First(s)], First(s), c), m)
    BY FirstIn
  <1>3. \A g : Sums(g, terms, D) <=> g = Step(g)
    <2> SUFFICES ASSUME NEW g
                 PROVE  Step(g) = [s \in SUBSET D |->
                                      IF s = {} THEN 0 ELSE terms[First(s)] + g[s \ {First(s)}]]
      BY DEF Sums
    <2> QED
      BY <1>2
  <1> HIDE DEF Step, D
  <1>4. h = Step(h)
    BY <1>3, SumsExist DEF D
  <1> QED
    BY <1>1, <1>3, <1>4, FoldIsSum DEF D

(* Budgets that share out the rows of a label spent what the label shows.   *)
SharedOut(C, labelOf, l, key, X, spent) ==
    /\ C \in SUBSET DOMAIN ledger
    /\ DOMAIN labelOf = C
    /\ IsFiniteSet(X)
    /\ \A i \in C : labelOf[i] = l <=> key[i] \in X
    /\ \A x \in X : spent[x] = Total(ledger, Group(C, key, x))

LEMMA BudgetsOfLabel ==
    ASSUME RowsKept, NEW C, NEW labelOf, NEW l, NEW key, NEW X, NEW spent,
           SharedOut(C, labelOf, l, key, X, spent)
    PROVE  /\ Numbers(spent, X)
           /\ SumOver(spent, X) = Get(Grouped(ledger, labelOf), l)
  <1> DEFINE totals == Grouped(ledger, labelOf)
             S == Group(C, labelOf, l)
  <1> USE DEF SharedOut
  <1>1. S \in SUBSET C /\ S \in SUBSET DOMAIN ledger
    BY DEF Group
  <1>2. IsFiniteSet(S) /\ Numbers(amountOf, S)
    BY <1>1, TotalOfRows
  <1>3. \A x \in X : spent[x] = SumOver(amountOf, Group(S, key, x)) /\ spent[x] \in Int
    <2> SUFFICES ASSUME NEW x \in X
                 PROVE  spent[x] = SumOver(amountOf, Group(S, key, x)) /\ spent[x] \in Int
      OBVIOUS
    <2>1. Group(S, key, x) = Group(C, key, x)
      BY DEF Group
    <2>2. Group(C, key, x) \in SUBSET DOMAIN ledger
      BY DEF Group
    <2>3. /\ Total(ledger, Group(C, key, x)) = SumOver(amountOf, Group(C, key, x))
          /\ SumOver(amountOf, Group(C, key, x)) \in Int
      BY <2>2, TotalOfRows, SumFacts
    <2> QED
      BY <2>1, <2>3
  <1>4. SumOver(spent, X) = SumOver(amountOf, S)
    <2>1. \A i \in S : key[i] \in X
      BY DEF Group
    <2> HIDE DEF S
    <2> QED
      BY <1>2, <1>3, <2>1, SumGroups
  <1>5. Get(totals, l) = SumOver(amountOf, S)
    <2>1. /\ DOMAIN totals = {labelOf[i] : i \in C}
          /\ \A k \in DOMAIN totals : totals[k] = SumOver(amountOf, Group(C, labelOf, k))
      BY GroupedRows
    <2>2. CASE l \in DOMAIN totals
      BY <2>1, <2>2 DEF Get
    <2>3. CASE l \notin DOMAIN totals
      <3>1. S = {}
        BY <2>1, <2>3 DEF Group
      <3> HIDE DEF S, totals
      <3> QED
        BY <1>2, <2>3, <3>1, SumFacts DEF Get
    <2> QED
      BY <2>2, <2>3
  <1> QED
    BY <1>3, <1>4, <1>5 DEF Numbers

(* Where the currency of a row is that of its account, a month's summary    *)
(* and its budgets look at the same rows.                                   *)
LEMMA BudgetRows ==
    ASSUME RowsKept, NEW m \in Months, NEW c,
           \A i \in DOMAIN ledger : ledger[i].type = "expense" => InAccountCurrency(ledger[i])
    PROVE  Counted(ledger, account, "expense", m, m, c)
           = {i \in DOMAIN ledger : /\ MonthOf[ledger[i].expense_date] = m
                                    /\ ledger[i].type = "expense"
                                    /\ ledger[i].affects_balance
                                    /\ ledger[i].currency = c}
  <1>1. \A i \in DOMAIN ledger :
            /\ Before(m, MonthOf[ledger[i].expense_date])
            /\ Before(MonthOf[ledger[i].expense_date], m)
            <=> MonthOf[ledger[i].expense_date] = m
    <2>1. m \in Month /\ \A i \in DOMAIN ledger : MonthOf[ledger[i].expense_date] \in Month
      BY MonthsAreMonths DEF RowsKept, Row
    <2> QED
      BY <2>1, BeforeEachOther
  <1> QED
    BY <1>1 DEF Counted, InAccountCurrency

LEMMA CategoryBudgets ==
    ASSUME RowsKept, NEW m \in Months, NEW c,
           \A i \in DOMAIN ledger : ledger[i].type = "expense" => InAccountCurrency(ledger[i]),
           NEW l \in {CategoryName[x] : x \in Categories} \ {NoCategory}
    PROVE  SpentOnCategories(ledger, m, c, {x \in Categories : CategoryName[x] = l})
           = Get(ByCategory(ledger, account, "expense", m, c), l)
  <1> DEFINE C == Counted(ledger, account, "expense", m, m, c)
             X == {x \in Categories : CategoryName[x] = l}
             labelOf == [i \in C |-> CategoryLabel(ledger[i])]
             key == [i \in C |-> ledger[i].category_id]
             spent == [x \in X |-> Spent(ledger, Budget(x, Null, c), m)]
  <1>1. C \in SUBSET DOMAIN ledger
    BY CountedRows
  <1>2. l # NoCategory /\ Null \notin Categories /\ IsFiniteSet(X)
    BY ViewsAssumption, FS_Subset
  <1>3. \A i \in C : labelOf[i] = l <=> key[i] \in X
    <2> SUFFICES ASSUME NEW i \in C PROVE labelOf[i] = l <=> key[i] \in X
      OBVIOUS
    <2>1. ledger[i].category_id \in Categories \cup {Null}
      BY <1>1 DEF RowsKept, Row
    <2>2. labelOf[i] = CategoryLabel(ledger[i]) /\ key[i] = ledger[i].category_id
      OBVIOUS
    <2> HIDE DEF C, labelOf, key
    <2> QED
      BY <1>2, <2>1, <2>2 DEF CategoryLabel, NameOr
  <1>4. \A x \in X : spent[x] = Total(ledger, Group(C, key, x))
    <2> SUFFICES ASSUME NEW x \in X
                 PROVE  Spent(ledger, Budget(x, Null, c), m) = Total(ledger, Group(C, key, x))
      OBVIOUS
    <2> DEFINE S == {i \in DOMAIN ledger : /\ MonthOf[ledger[i].expense_date] = m
                                           /\ ledger[i].type = "expense"
                                           /\ ledger[i].affects_balance
                                           /\ Covers(Budget(x, Null, c), ledger[i])}
    <2>1. \A i : Covers(Budget(x, Null, c), ledger[i])
                 <=> ledger[i].currency = c /\ ledger[i].category_id = x
      BY DEF Covers, Budget
    <2>2. Group(C, key, x) = {i \in C : ledger[i].category_id = x}
      BY DEF Group
    <2>3. S = {i \in C : ledger[i].category_id = x}
      BY <2>1, BudgetRows
    <2> QED
      BY <2>2, <2>3 DEF Spent
  <1>5. DOMAIN labelOf = C
    OBVIOUS
  <1>6. \A x \in X : spent[x] = Spent(ledger, Budget(x, Null, c), m)
    OBVIOUS
  <1>7. ByCategory(ledger, account, "expense", m, c) = Grouped(ledger, labelOf)
    BY DEF ByCategory
  <1> HIDE DEF C, X, labelOf, key, spent
  <1>8. Numbers(spent, X) /\ SumOver(spent, X) = Get(Grouped(ledger, labelOf), l)
    <2>1. SharedOut(C, labelOf, l, key, X, spent)
      BY <1>1, <1>2, <1>3, <1>4, <1>5 DEF SharedOut
    <2> QED
      BY <2>1, BudgetsOfLabel
  <1>9. SpentOnCategories(ledger, m, c, X) = SumOver(spent, X)
    BY <1>2, <1>6, <1>8, SpentOnCategoriesIsSum
  <1> QED
    BY <1>7, <1>8, <1>9 DEF X

SubcategoryKey(s) == <<CategoryName[ParentCategory[s]], SubcategoryName[s]>>

(* The subcategory whose budget a row counts for, if there is one. *)
BudgetedAs(t) == IF t.category_id = Null THEN Null ELSE t.subcategory_id

LEMMA SubcategoryBudgets ==
    ASSUME RowsKept, NEW m \in Months, NEW c,
           \A i \in DOMAIN ledger : ledger[i].type = "expense" => InAccountCurrency(ledger[i]),
           NEW l \in {SubcategoryKey(s) : s \in Subcategories},
           l[1] # NoCategoryOfPair, l[2] # NoSubcategory
    PROVE  SpentOnSubcategories(ledger, m, c, {s \in Subcategories : SubcategoryKey(s) = l})
           = Get(BySubcategory(ledger, account, "expense", m, c), l)
  <1> DEFINE C == Counted(ledger, account, "expense", m, m, c)
             X == {s \in Subcategories : SubcategoryKey(s) = l}
             labelOf == [i \in C |-> PairLabel(ledger[i])]
             key == [i \in C |-> BudgetedAs(ledger[i])]
             spent == [x \in X |-> Spent(ledger, Budget(ParentCategory[x], x, c), m)]
  <1>1. C \in SUBSET DOMAIN ledger
    BY CountedRows
  <1>2. IsFiniteSet(X) /\ Null \notin Subcategories /\ Null \notin Categories
    BY ViewsAssumption, FS_Subset
  <1>3. \A i \in C : labelOf[i] = l <=> key[i] \in X
    <2> SUFFICES ASSUME NEW i \in C PROVE labelOf[i] = l <=> key[i] \in X
      OBVIOUS
    <2>1. /\ ledger[i].subcategory_id \in Subcategories \cup {Null}
          /\ ledger[i].subcategory_id # Null
             => ledger[i].category_id \in {Null, ParentCategory[ledger[i].subcategory_id]}
      BY <1>1 DEF RowsKept, Row, InParent
    <2>2. /\ labelOf[i] = PairLabel(ledger[i])
          /\ key[i] = BudgetedAs(ledger[i])
      OBVIOUS
    <2>3. PICK s \in Subcategories : l = SubcategoryKey(s)
      OBVIOUS
    <2>4. SubcategoryName[s] # NoSubcategory /\ CategoryName[ParentCategory[s]] # NoCategoryOfPair
      BY <2>3 DEF SubcategoryKey
    <2> HIDE DEF C, labelOf, key
    <2>5. CASE Null \in {ledger[i].category_id, ledger[i].subcategory_id}
      <3>1. labelOf[i] # l
        BY <2>2, <2>3, <2>4, <2>5 DEF PairLabel, NameOr, SubcategoryKey
      <3>2. key[i] \notin X
        BY <1>2, <2>2, <2>5 DEF BudgetedAs
      <3> QED
        BY <3>1, <3>2
    <2>6. CASE Null \notin {ledger[i].category_id, ledger[i].subcategory_id}
      <3>1. ledger[i].subcategory_id \in Subcategories
        BY <2>1, <2>6
      <3>2. ParentCategory[ledger[i].subcategory_id] # Null
        BY <1>2, <3>1, ViewsAssumption
      <3>3. labelOf[i] = SubcategoryKey(ledger[i].subcategory_id)
        BY <2>1, <2>2, <2>6, <3>2 DEF PairLabel, NameOr, SubcategoryKey
      <3> QED
        BY <2>2, <2>6, <3>1, <3>3 DEF BudgetedAs
    <2> QED
      BY <2>5, <2>6
  <1>4. \A x \in X : spent[x] = Total(ledger, Group(C, key, x))
    <2> SUFFICES ASSUME NEW x \in X
                 PROVE  Spent(ledger, Budget(ParentCategory[x], x, c), m)
                        = Total(ledger, Group(C, key, x))
      OBVIOUS
    <2> DEFINE S == {i \in DOMAIN ledger :
                        /\ MonthOf[ledger[i].expense_date] = m
                        /\ ledger[i].type = "expense"
                        /\ ledger[i].affects_balance
                        /\ Covers(Budget(ParentCategory[x], x, c), ledger[i])}
    <2>1. \A i \in DOMAIN ledger :
              Covers(Budget(ParentCategory[x], x, c), ledger[i])
              <=> ledger[i].currency = c /\ BudgetedAs(ledger[i]) = x
      <3>1. x # Null /\ ParentCategory[x] # Null
        BY <1>2, ViewsAssumption
      <3>2. \A i \in DOMAIN ledger :
                BudgetedAs(ledger[i]) = x
                <=> ledger[i].subcategory_id = x /\ ledger[i].category_id = ParentCategory[x]
        BY <3>1 DEF RowsKept, InParent, BudgetedAs
      <3> QED
        BY <3>1, <3>2 DEF Covers, Budget
    <2>2. Group(C, key, x) = {i \in C : BudgetedAs(ledger[i]) = x}
      BY DEF Group
    <2>3. S = {i \in C : BudgetedAs(ledger[i]) = x}
      BY <2>1, BudgetRows
    <2> QED
      BY <2>2, <2>3 DEF Spent
  <1>5. DOMAIN labelOf = C
    OBVIOUS
  <1>6. \A x \in X : spent[x] = Spent(ledger, Budget(ParentCategory[x], x, c), m)
    OBVIOUS
  <1>7. BySubcategory(ledger, account, "expense", m, c) = Grouped(ledger, labelOf)
    BY DEF BySubcategory
  <1> HIDE DEF C, X, labelOf, key, spent
  <1>8. Numbers(spent, X) /\ SumOver(spent, X) = Get(Grouped(ledger, labelOf), l)
    <2>1. SharedOut(C, labelOf, l, key, X, spent)
      BY <1>1, <1>2, <1>3, <1>4, <1>5 DEF SharedOut
    <2> QED
      BY <2>1, BudgetsOfLabel
  <1>9. SpentOnSubcategories(ledger, m, c, X) = SumOver(spent, X)
    BY <1>2, <1>6, <1>8, SpentOnSubcategoriesIsSum
  <1> QED
    BY <1>7, <1>8, <1>9 DEF X

(* Budgets and statistics, computed by different code from different        *)
(* columns, agree on every month and label where the currency of each       *)
(* expense is that of its account, which is then still there.               *)
THEOREM BudgetsAgree == AnyLedger => []BudgetsSpendWhatStatisticsShow
  <1>1. RowsKept => BudgetsSpendWhatStatisticsShow
    <2> SUFFICES ASSUME RowsKept, NEW m \in Months, NEW c \in Currencies,
                        \A i \in DOMAIN ledger :
                            ledger[i].type = "expense" => InAccountCurrency(ledger[i])
                 PROVE  /\ \A l \in {CategoryName[x] : x \in Categories} \ {NoCategory} :
                             SpentOnCategories(ledger, m, c, {x \in Categories : CategoryName[x] = l})
                             = Get(ByCategory(ledger, account, "expense", m, c), l)
                        /\ \A l \in {SubcategoryKey(s) : s \in Subcategories} :
                             l[1] # NoCategoryOfPair /\ l[2] # NoSubcategory =>
                             SpentOnSubcategories(ledger, m, c,
                                                  {s \in Subcategories : SubcategoryKey(s) = l})
                             = Get(BySubcategory(ledger, account, "expense", m, c), l)
      BY DEF BudgetsSpendWhatStatisticsShow, SpentOnCategories, SpentOnSubcategories,
             SubcategoryKey
    <2> QED
      BY CategoryBudgets, SubcategoryBudgets
  <1> QED
    BY <1>1, RowsAreKept, PTL

-------------------------------------------------------------------------------
(* Export and import *)

(* The balances of some accounts together. *)
BalancesOf(rows, S) == MapThenSumSet(LAMBDA a : Balance(rows, a), S)

LEMMA BalancesOfIsSum ==
    ASSUME NEW rows, NEW S,
           IsFiniteSet(S), NEW terms, Numbers(terms, S),
           \A x \in S : terms[x] = Balance(rows, x)
    PROVE  BalancesOf(rows, S) = SumOver(terms, S)
  <1> DEFINE D == S
             Step(g) == [s \in SUBSET D |-> IF s = {} THEN 0
                                           ELSE Balance(rows, First(s)) + g[s \ {First(s)}]]
             h == CHOOSE g : g = Step(g)
  <1>1. BalancesOf(rows, S) = h[D]
    BY DEF BalancesOf, MapThenSumSet, MapThenFoldSet, First
  <1>2. \A s \in SUBSET D : s # {} => terms[First(s)] = Balance(rows, First(s))
    BY FirstIn
  <1>3. \A g : Sums(g, terms, D) <=> g = Step(g)
    <2> SUFFICES ASSUME NEW g
                 PROVE  Step(g) = [s \in SUBSET D |->
                                      IF s = {} THEN 0 ELSE terms[First(s)] + g[s \ {First(s)}]]
      BY DEF Sums
    <2> QED
      BY <1>2
  <1> HIDE DEF Step, D
  <1>4. h = Step(h)
    BY <1>3, SumsExist DEF D
  <1> QED
    BY <1>1, <1>3, <1>4, FoldIsSum DEF D

(* What the row adds to the balances of A together. *)
JointDelta(t, A) ==
    (IF t.account_id \in A THEN SourceDelta(t) ELSE 0)
    + (IF t.account_destination_id \in A THEN DestinationDelta(t) ELSE 0)

LEMMA RowDeltas ==
    ASSUME NEW t \in Row
    PROVE  SourceDelta(t) \in Int /\ DestinationDelta(t) \in Int
  <1>1. t.amount \in Int /\ t.to_amount \in Nat \cup {Null}
    BY DEF Row
  <1> QED
    BY <1>1 DEF SourceDelta, DestinationDelta, Credited

LEMMA BalancesTogether ==
    ASSUME RowsKept, NEW B, IsFiniteSet(B)
    PROVE  BalancesOf(ledger, B)
           = SumOver([i \in DOMAIN ledger |-> JointDelta(ledger[i], B)], DOMAIN ledger)
  <1> DEFINE D == DOMAIN ledger
             joint(A) == [i \in D |-> JointDelta(ledger[i], A)]
             balances == [a \in B |-> Balance(ledger, a)]
             P == {A \in SUBSET B : SumOver(balances, A) = SumOver(joint(A), D)}
  <1>1. IsFiniteSet(D)
    BY DEF RowsKept
  <1>2. \A i \in D : SourceDelta(ledger[i]) \in Int /\ DestinationDelta(ledger[i]) \in Int
    BY RowDeltas DEF RowsKept
  <1>3. \A A : \A i \in D : joint(A)[i] = JointDelta(ledger[i], A) /\ joint(A)[i] \in Int
    BY <1>2 DEF JointDelta
  <1>4. ASSUME NEW a PROVE
            /\ Balance(ledger, a) = SumOver([i \in D |-> Delta(ledger[i], a)], D)
            /\ Balance(ledger, a) \in Int
            /\ Numbers([i \in D |-> Delta(ledger[i], a)], D)
    <2> DEFINE terms == [i \in D |-> Delta(ledger[i], a)]
    <2>1. Numbers(terms, D) /\ \A i \in D : terms[i] = Delta(ledger[i], a)
      BY <1>2 DEF Numbers, Delta
    <2> HIDE DEF terms
    <2>2. Balance(ledger, a) = SumOver(terms, D) /\ SumOver(terms, D) \in Int
      BY <1>1, <2>1, BalanceIsSum, SumFacts
    <2> QED
      BY <2>1, <2>2 DEF terms
  <1>5. \A A \in SUBSET B : IsFiniteSet(A) /\ Numbers(balances, A)
    BY <1>4, FS_Subset DEF Numbers
  <1>6. {} \in P
    <2>1. PICK none : none = {}
      OBVIOUS
    <2>2. SumOver(balances, none) = 0
      BY <2>1, <1>5, SumFacts
    <2>3. SumOver(joint(none), D) = 0
      <3> DEFINE f == joint(none)
      <3>1. \A i \in D : f[i] = 0
        BY <2>1 DEF JointDelta
      <3> HIDE DEF f
      <3>2. SumOver(f, D) = SumOver(f, none)
        BY <1>1, <2>1, <3>1, SumSupport DEF Numbers
      <3>3. SumOver(f, none) = 0
        BY <2>1, FS_EmptySet, SumFacts DEF Numbers
      <3> QED
        BY <3>2, <3>3 DEF f
    <2> QED
      BY <2>1, <2>2, <2>3
  <1>7. ASSUME NEW A \in SUBSET B, A \in P, NEW x \in B \ A PROVE A \cup {x} \in P
    <2> DEFINE more == A \cup {x}
               f == joint(A)
               g == [i \in D |-> Delta(ledger[i], x)]
               h == joint(more)
    <2>1. SumOver(balances, more) = balances[x] + SumOver(balances, A)
      BY <1>5, SumOneMore
    <2>2. \A i \in D : h[i] = f[i] + g[i]
      <3> SUFFICES ASSUME NEW i \in D PROVE h[i] = f[i] + g[i]
        OBVIOUS
      <3> DEFINE t == ledger[i]
      <3>1. SourceDelta(t) \in Int /\ DestinationDelta(t) \in Int
        BY <1>2
      <3>2. f[i] = JointDelta(t, A) /\ g[i] = Delta(t, x) /\ h[i] = JointDelta(t, more)
        BY <1>3
      <3>3. x \notin A /\ \A y : y \in more <=> y \in A \/ y = x
        OBVIOUS
      <3> HIDE DEF t, f, g, h, more
      <3>4. (IF t.account_id \in more THEN SourceDelta(t) ELSE 0)
            = (IF t.account_id \in A THEN SourceDelta(t) ELSE 0)
              + (IF t.account_id = x THEN SourceDelta(t) ELSE 0)
        BY <3>1, <3>3
      <3>5. (IF t.account_destination_id \in more THEN DestinationDelta(t) ELSE 0)
            = (IF t.account_destination_id \in A THEN DestinationDelta(t) ELSE 0)
              + (IF t.account_destination_id = x THEN DestinationDelta(t) ELSE 0)
        BY <3>1, <3>3
      <3> QED
        BY <3>1, <3>2, <3>4, <3>5 DEF JointDelta, Delta
    <2>3. Numbers(f, D) /\ Numbers(g, D) /\ balances[x] = SumOver(g, D)
      BY <1>3, <1>4 DEF Numbers
    <2>4. SumOver(balances, A) = SumOver(f, D)
      BY <1>7
    <2> HIDE DEF f, g, h, balances
    <2>5. SumOver(h, D) = SumOver(f, D) + SumOver(g, D)
      BY <1>1, <2>2, <2>3, SumPlus
    <2>6. SumOver(f, D) \in Int /\ SumOver(g, D) \in Int
      BY <1>1, <2>3, SumFacts
    <2>7. SumOver(balances, more) = SumOver(h, D)
      BY <2>1, <2>3, <2>4, <2>5, <2>6
    <2> QED
      BY <2>7 DEF h
  <1>8. B \in P
    <2> HIDE DEF P
    <2> QED
      BY <1>6, <1>7, SetInduction
  <1>9. BalancesOf(ledger, B) = SumOver(balances, B)
    <2>1. \A a \in B : balances[a] = Balance(ledger, a)
      OBVIOUS
    <2> HIDE DEF balances
    <2> QED
      BY <1>5, <2>1, BalancesOfIsSum
  <1> QED
    BY <1>8, <1>9

(* A transaction of the ledger after an export and an import.               *)
Again == [i \in DOMAIN ledger |-> Imported(Export[i])]

Destination(t) == IF t.type = "transfer" THEN t.account_destination_id ELSE Null

LEMMA RowAgain ==
    ASSUME NEW i \in DOMAIN ledger
    PROVE  LET t == ledger[i]
               u == Again[i] IN
           /\ u.type = t.type /\ u.amount = t.amount /\ u.to_amount = ToAmount(t)
           /\ u.expense_date = t.expense_date /\ u.affects_balance = TRUE
           /\ u.account_id = NameOf(AccountName, t.account_id)
           /\ u.account_destination_id = NameOf(AccountName, Destination(t))
           /\ t.type # "transfer" =>
                 LET pair == Mapped(NameOf(CategoryName, t.category_id),
                                    NameOf(SubcategoryName, t.subcategory_id))
                 IN  u.category_id = pair.category_id /\ u.subcategory_id = pair.subcategory_id
  <1> DEFINE t == ledger[i]
  <1>1. Again[i] = Imported(Exported(t))
    BY DEF Again, Export
  <1> HIDE DEF t
  <1> QED
    BY <1>1 DEF Imported, Exported, Destination, t

(* An account is found again by its name.                                   *)
LEMMA AccountByName ==
    ASSUME NEW a \in Accounts \cup {Null}, NEW n \in AccountNames
    PROVE  NameOf(AccountName, a) = n <=> a \in {x \in Accounts : AccountName[x] = n}
  <1>1. Null \notin Accounts /\ n # Null
    BY ViewsAssumption
  <1> QED
    BY <1>1 DEF NameOf

LEMMA BalancesComeBack ==
    ASSUME RowsKept, NEW n \in AccountNames
    PROVE  Balance(Again, n) = BalancesOf(ledger, {a \in Accounts : AccountName[a] = n})
  <1> DEFINE D == DOMAIN ledger
             B == {a \in Accounts : AccountName[a] = n}
             joint == [i \in D |-> JointDelta(ledger[i], B)]
  <1>1. IsFiniteSet(D) /\ IsFiniteSet(B) /\ DOMAIN Again = D
    BY ViewsAssumption, FS_Subset DEF RowsKept, Again
  <1>2. \A i \in D : joint[i] = Delta(Again[i], n) /\ joint[i] \in Int
    <2> SUFFICES ASSUME NEW i \in D
                 PROVE  JointDelta(ledger[i], B) = Delta(Again[i], n)
                        /\ JointDelta(ledger[i], B) \in Int
      OBVIOUS
    <2> DEFINE t == ledger[i]
               u == Again[i]
    <2>1. t \in Row
      BY DEF RowsKept
    <2>2. SourceDelta(t) \in Int /\ DestinationDelta(t) \in Int
      BY <2>1, RowDeltas
    <2>3. /\ u.type = t.type /\ u.amount = t.amount /\ u.to_amount = ToAmount(t)
          /\ u.account_id = NameOf(AccountName, t.account_id)
          /\ u.account_destination_id = NameOf(AccountName, Destination(t))
      BY RowAgain
    <2>4. /\ t.account_id \in Accounts \cup {Null}
          /\ Destination(t) \in Accounts \cup {Null}
      BY <2>1 DEF Row, Destination
    <2>5. /\ u.account_id = n <=> t.account_id \in B
          /\ u.account_destination_id = n <=> Destination(t) \in B
      BY <2>3, <2>4, AccountByName
    <2> HIDE DEF t, u, B
    <2>6. SourceDelta(u) = SourceDelta(t)
      BY <2>3 DEF SourceDelta
    <2>7. DestinationDelta(u) = DestinationDelta(t)
      BY <2>3 DEF DestinationDelta, Credited, ToAmount
    <2>8. (IF u.account_destination_id = n THEN DestinationDelta(u) ELSE 0)
          = (IF t.account_destination_id \in B THEN DestinationDelta(t) ELSE 0)
      <3>1. CASE t.type = "transfer"
        BY <2>5, <2>7, <3>1 DEF Destination
      <3>2. CASE t.type # "transfer"
        BY <2>7, <3>2 DEF DestinationDelta
      <3> QED
        BY <3>1, <3>2
    <2>9. JointDelta(t, B) = Delta(u, n) /\ JointDelta(t, B) \in Int
      BY <2>2, <2>5, <2>6, <2>8 DEF JointDelta, Delta
    <2> QED
      BY <2>9 DEF t, u
  <1>3. BalancesOf(ledger, B) = SumOver(joint, D)
    BY <1>1, BalancesTogether
  <1>4. Numbers(joint, D)
    BY <1>2 DEF Numbers
  <1> HIDE DEF joint, B, D
  <1>5. Balance(Again, n) = SumOver(joint, D)
    BY <1>1, <1>2, <1>4, BalanceIsSum
  <1> QED
    BY <1>3, <1>5 DEF B

(* A file that is accepted names one currency for an account, the only one  *)
(* its rows can have come from.                                             *)
LEMMA CurrencyComesBack ==
    ASSUME RowsKept, Accepted(Export), NEW i \in DOMAIN ledger, InAccountCurrency(ledger[i])
    PROVE  LET name == Again[i].account_id IN
           /\ name # Null
           /\ ImportedAccounts(Export)[name].currency = account[ledger[i].account_id].currency
  <1> DEFINE t == ledger[i]
             file == {Export[j] : j \in DOMAIN Export}
             name == AccountName[t.account_id]
             found == Csv!CurrenciesOf(file, name)
  <1>1. t \in Row /\ t.account_id \in Accounts /\ t.currency = account[t.account_id].currency
    BY DEF RowsKept, Row, InAccountCurrency
  <1>2. name \in AccountNames /\ name # Null
    BY <1>1, ViewsAssumption DEF AccountNames
  <1>3. Again[i].account_id = name
    BY <1>1, RowAgain, ViewsAssumption DEF NameOf
  <1>4. t.currency \in found
    <2>1. Export[i] \in file /\ Export[i] = Exported(t)
      BY DEF Export
    <2>2. Exported(t).currency = t.currency /\ Exported(t).account_name = name
      BY <1>1, ViewsAssumption DEF Exported, NameOf
    <2> HIDE DEF file, name, t
    <2> QED
      BY <2>1, <2>2 DEF Csv!CurrenciesOf
  <1>5. IsFiniteSet(Currencies)
    BY ViewsAssumption
  <1>6. found \subseteq Currencies
    <2>1. ASSUME NEW x \in file
          PROVE  x.currency \in Currencies /\ Csv!DestinationCurrency(x) \in Currencies
      <3>1. PICK j \in DOMAIN ledger : x = Exported(ledger[j])
        BY DEF Export
      <3> DEFINE u == ledger[j]
                 destination == IF u.type = "transfer" THEN u.account_destination_id ELSE Null
      <3>2. /\ u.currency \in Currencies
            /\ destination \in Accounts \cup {Null}
        BY DEF RowsKept, Row
      <3>3. /\ x.currency = u.currency
            /\ x.to_currency = IF destination # Null /\ ToAmount(u) # Null
                               THEN account[destination].currency ELSE Null
        BY <3>1 DEF Exported
      <3> HIDE DEF u, destination
      <3>4. x.to_currency \in Currencies \cup {Null}
        BY <3>2, <3>3, ViewsAssumption
      <3> QED
        BY <3>2, <3>3, <3>4 DEF Csv!DestinationCurrency
    <2> HIDE DEF file, name
    <2> QED
      BY <2>1 DEF Csv!CurrenciesOf
  <1>7. Cardinality(found) <= 1
    <2>1. Csv!Acceptable(file)
      BY DEF Accepted
    <2>2. \A n \in AccountNames : Cardinality(Csv!CurrenciesOf(file, n)) <= 1
      <3> HIDE DEF file
      <3>1. \A S : Csv!Cardinality(S) = Cardinality(S)
        BY DEF Csv!Cardinality, Cardinality
      <3> QED
        BY <2>1, <3>1 DEF Csv!Acceptable
    <2> HIDE DEF file, name
    <2> QED
      BY <1>2, <2>2
  <1>8. found = {t.currency}
    <2>1. IsFiniteSet(found) /\ Cardinality(found) \in Nat /\ Cardinality(found) # 0
      BY <1>4, <1>5, <1>6, FS_Subset, FS_CardinalityType, FS_EmptySet
    <2>2. Cardinality(found) = 1
      BY <1>7, <2>1
    <2> HIDE DEF found
    <2> QED
      BY <1>4, <2>1, <2>2, FS_Singleton
  <1>9. Csv!AccountCurrencies(file)[name] = t.currency
        /\ name \in DOMAIN Csv!AccountCurrencies(file)
    <2> HIDE DEF file, name, t
    <2> QED
      BY <1>2, <1>8 DEF Csv!AccountCurrencies
  <1>10. ImportedAccounts(Export)[name].currency = t.currency
    BY <1>9 DEF ImportedAccounts
  <1> HIDE DEF name
  <1> QED
    BY <1>1, <1>2, <1>3, <1>10

(* The labels of a row are found again by the names they show, but for the  *)
(* subcategory of a row without a category.                                 *)
LEMMA LabelsComeBack ==
    ASSUME RowsKept, NEW i \in DOMAIN ledger, ledger[i].type # "transfer"
    PROVE  /\ CategoryLabel(Again[i]) = CategoryLabel(ledger[i])
           /\ PairLabel(Again[i]) = LabelOnceImported(ledger[i])
  <1> DEFINE t == ledger[i]
             u == Again[i]
             pair == Mapped(NameOf(CategoryName, t.category_id),
                            NameOf(SubcategoryName, t.subcategory_id))
  <1>1. /\ t.category_id \in Categories \cup {Null}
        /\ t.subcategory_id \in Subcategories \cup {Null}
        /\ t.subcategory_id # Null => t.category_id \in {Null, ParentCategory[t.subcategory_id]}
    BY DEF RowsKept, Row, InParent
  <1>2. u.category_id = pair.category_id /\ u.subcategory_id = pair.subcategory_id
    BY RowAgain
  <1>3. /\ Null \notin Categories /\ \A x \in Categories : CategoryName[x] # Null
        /\ Null \notin Subcategories /\ \A x \in Subcategories : SubcategoryName[x] # Null
        /\ \A x \in Subcategories : ParentCategory[x] \in Categories
    BY ViewsAssumption
  <1> HIDE DEF t, u
  <1>4. CASE t.category_id = Null
    <2>1. pair = [category_id |-> Null, subcategory_id |-> Null]
      BY <1>4 DEF Mapped, NameOf
    <2> HIDE DEF pair
    <2> QED
      BY <1>2, <1>4, <2>1 DEF CategoryLabel, PairLabel, LabelOnceImported, NameOr, t, u
  <1>5. CASE t.category_id # Null /\ t.subcategory_id = Null
    <2> DEFINE c == CHOOSE x \in Categories : CategoryName[x] = CategoryName[t.category_id]
    <2>1. c \in Categories /\ CategoryName[c] = CategoryName[t.category_id]
      BY <1>1, <1>5
    <2>2. pair = [category_id |-> c, subcategory_id |-> Null]
      BY <1>1, <1>3, <1>5 DEF Mapped, NameOf
    <2> HIDE DEF c, pair
    <2> QED
      BY <1>2, <1>3, <1>5, <2>1, <2>2
      DEF CategoryLabel, PairLabel, LabelOnceImported, NameOr, t, u
  <1>6. CASE t.category_id # Null /\ t.subcategory_id # Null
    <2> DEFINE s == CHOOSE x \in Subcategories :
                        /\ SubcategoryName[x] = SubcategoryName[t.subcategory_id]
                        /\ CategoryName[ParentCategory[x]] = CategoryName[t.category_id]
    <2>1. /\ s \in Subcategories
          /\ SubcategoryName[s] = SubcategoryName[t.subcategory_id]
          /\ CategoryName[ParentCategory[s]] = CategoryName[t.category_id]
      <3>1. /\ t.subcategory_id \in Subcategories
            /\ t.category_id = ParentCategory[t.subcategory_id]
        BY <1>1, <1>6
      <3> QED
        BY <3>1
    <2>2. pair = [category_id |-> ParentCategory[s], subcategory_id |-> s]
      BY <1>1, <1>3, <1>6 DEF Mapped, NameOf
    <2> HIDE DEF s, pair
    <2> QED
      BY <1>2, <1>3, <1>6, <2>1, <2>2
      DEF CategoryLabel, PairLabel, LabelOnceImported, NameOr, t, u
  <1> QED
    BY <1>4, <1>5, <1>6

(* The import of an exported ledger counts the same rows in a month.        *)
LEMMA CountedAgain ==
    ASSUME RowsKept, Accepted(Export),
           \A i \in DOMAIN ledger : ledger[i].affects_balance /\ InAccountCurrency(ledger[i]),
           NEW m, NEW c, NEW type
    PROVE  Counted(Again, ImportedAccounts(Export), type, m, m, c)
           = Counted(ledger, account, type, m, m, c)
  <1>1. DOMAIN Again = DOMAIN ledger
    BY DEF Again
  <1>2. ASSUME NEW i \in DOMAIN ledger
        PROVE  /\ Again[i].type = ledger[i].type
               /\ Again[i].affects_balance /\ ledger[i].affects_balance
               /\ Again[i].expense_date = ledger[i].expense_date
               /\ Again[i].account_id # Null /\ ledger[i].account_id # Null
               /\ ImportedAccounts(Export)[Again[i].account_id].currency
                  = account[ledger[i].account_id].currency
    <2>1. InAccountCurrency(ledger[i])
      OBVIOUS
    <2>2. ledger[i].account_id # Null
      BY <2>1 DEF InAccountCurrency
    <2> QED
      BY <2>1, <2>2, CurrencyComesBack, RowAgain
  <1> QED
    BY <1>1, <1>2 DEF Counted

(* Rows under one label come to the same. *)
LEMMA GroupedAgain ==
    ASSUME RowsKept, NEW C \in SUBSET DOMAIN ledger, NEW labelOf, DOMAIN labelOf = C
    PROVE  Grouped(Again, labelOf) = Grouped(ledger, labelOf)
  <1>1. ASSUME NEW S \in SUBSET DOMAIN ledger PROVE Total(Again, S) = Total(ledger, S)
    <2>1. \A i \in S : amountOf[i] = Again[i].amount
      BY RowAgain DEF amountOf
    <2>2. IsFiniteSet(S) /\ Numbers(amountOf, S) /\ Total(ledger, S) = SumOver(amountOf, S)
      BY TotalOfRows
    <2>3. Total(Again, S) = SumOver(amountOf, S)
      BY <2>1, <2>2, TotalIsSum
    <2> QED
      BY <2>2, <2>3
  <1>2. \A l : {i \in DOMAIN labelOf : labelOf[i] = l} \in SUBSET DOMAIN ledger
    OBVIOUS
  <1> QED
    BY <1>1, <1>2 DEF Grouped

LEMMA StatisticsComeBack ==
    ASSUME RowsKept, Accepted(Export),
           \A i \in DOMAIN ledger : ledger[i].affects_balance /\ InAccountCurrency(ledger[i]),
           NEW m, NEW c, NEW type \in {"income", "expense"}
    PROVE  /\ ByCategory(Again, ImportedAccounts(Export), type, m, c)
              = ByCategory(ledger, account, type, m, c)
           /\ BySubcategory(Again, ImportedAccounts(Export), type, m, c)
              = Grouped(ledger, [i \in Counted(ledger, account, type, m, m, c) |->
                                    LabelOnceImported(ledger[i])])
  <1> DEFINE C == Counted(ledger, account, type, m, m, c)
             labelOf == [i \in C |-> CategoryLabel(ledger[i])]
             pairOf == [i \in C |-> LabelOnceImported(ledger[i])]
  <1>1. Counted(Again, ImportedAccounts(Export), type, m, m, c) = C
    BY CountedAgain
  <1>2. C \in SUBSET DOMAIN ledger /\ \A i \in C : ledger[i].type # "transfer"
    BY DEF Counted
  <1>3. \A i \in C : /\ CategoryLabel(Again[i]) = CategoryLabel(ledger[i])
                     /\ PairLabel(Again[i]) = LabelOnceImported(ledger[i])
    BY <1>2, LabelsComeBack
  <1>4. ByCategory(ledger, account, type, m, c) = Grouped(ledger, labelOf)
    BY DEF ByCategory
  <1>5. DOMAIN labelOf = C /\ DOMAIN pairOf = C
    OBVIOUS
  <1>6. /\ [i \in C |-> CategoryLabel(Again[i])] = labelOf
        /\ [i \in C |-> PairLabel(Again[i])] = pairOf
    <2> HIDE DEF C
    <2> QED
      BY <1>3
  <1>7. ByCategory(Again, ImportedAccounts(Export), type, m, c) = Grouped(Again, labelOf)
    BY <1>1, <1>6 DEF ByCategory
  <1>8. BySubcategory(Again, ImportedAccounts(Export), type, m, c) = Grouped(Again, pairOf)
    BY <1>1, <1>6 DEF BySubcategory
  <1>9. /\ Grouped(Again, labelOf) = Grouped(ledger, labelOf)
        /\ Grouped(Again, pairOf) = Grouped(ledger, pairOf)
    <2> HIDE DEF C, labelOf, pairOf
    <2> QED
      BY <1>2, <1>5, GroupedAgain
  <1> HIDE DEF labelOf
  <1> QED
    BY <1>4, <1>7, <1>8, <1>9

(* Whatever ledger is exported, if the import takes the file, each account  *)
(* name has the balance it had; where every row counted for the statistics  *)
(* in its own currency, they show what they showed, but for the subcategory *)
(* of a row without a category, which is lost.                              *)
THEOREM ExportComesBack == AnyLedger => []ExportImportsBack
  <1>1. RowsKept => ExportImportsBack
    <2> SUFFICES ASSUME RowsKept, Accepted(Export)
                 PROVE  /\ \A n \in AccountNames :
                             Balance(Again, n)
                             = BalancesOf(ledger, {a \in Accounts : AccountName[a] = n})
                        /\ (\A i \in DOMAIN ledger :
                               ledger[i].affects_balance /\ InAccountCurrency(ledger[i]))
                           => \A m \in Months, c \in Currencies, type \in {"income", "expense"} :
                                 /\ ByCategory(Again, ImportedAccounts(Export), type, m, c)
                                    = ByCategory(ledger, account, type, m, c)
                                 /\ BySubcategory(Again, ImportedAccounts(Export), type, m, c)
                                    = Grouped(ledger,
                                              [i \in Counted(ledger, account, type, m, m, c) |->
                                                  LabelOnceImported(ledger[i])])
      BY DEF ExportImportsBack, Again, BalancesOf
    <2> QED
      BY BalancesComeBack, StatisticsComeBack
  <1> QED
    BY <1>1, RowsAreKept, PTL
===============================================================================
