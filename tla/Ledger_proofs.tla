----------------------------- MODULE Ledger_proofs -----------------------------
(***************************************************************************)
(* Proofs about Ledger, for any accounts, transactions and bodies and any  *)
(* interleaving.                                                           *)
(*                                                                         *)
(* A balance is a fold over the rows, so the first two parts are about     *)
(* sums: induction on the naturals as a statement about sets (the provers  *)
(* cannot instantiate the library's NatInduction, which takes an operator) *)
(* and from it what the fold adds up to, in whatever order it takes the    *)
(* rows.  The rest is the invariant of the rows and of the handlers        *)
(* between their two steps.                                                *)
(***************************************************************************)
EXTENDS Ledger, FiniteSetTheorems, WellFoundedInduction, TLAPS

-------------------------------------------------------------------------------
(* Induction *)

LEMMA LeastElement ==
    ASSUME NEW S \in SUBSET Nat, S # {}
    PROVE  \E n \in S : \A m \in S : n <= m
  <1> DEFINE R == OpToRel(<, Nat)
  <1>1. IsWellFoundedOn(R, Nat)
    BY NatLessThanWellFounded
  <1>2. \A a, b \in Nat : a < b => <<a, b>> \in R
    BY DEF OpToRel
  <1> HIDE DEF R
  <1>3. PICK n \in S : \A m \in S : <<m, n>> \notin R
    BY <1>1, WFMin
  <1>4. \A m \in S : ~ (m < n)
    BY <1>2, <1>3, S \subseteq Nat
  <1> QED
    BY <1>4, SMT

LEMMA Induction ==
    ASSUME NEW S \in SUBSET Nat, 0 \in S, \A n \in S : n + 1 \in S
    PROVE  S = Nat
  <1> SUFFICES ASSUME Nat \ S # {} PROVE FALSE
    OBVIOUS
  <1>1. PICK n \in Nat \ S : \A m \in Nat \ S : n <= m
    BY LeastElement
  <1>2. n - 1 \in Nat /\ n - 1 \notin S
    BY <1>1
  <1> QED
    BY <1>1, <1>2

-------------------------------------------------------------------------------
(* Sums *)

First(s) == CHOOSE x \in s : TRUE

(* g is the function MapThenSumSet recurses on: the sum of d over each      *)
(* subset of D, taking the elements in CHOOSE's order.                      *)
Sums(g, d, D) ==
    g = [s \in SUBSET D |-> IF s = {} THEN 0 ELSE d[First(s)] + g[s \ {First(s)}]]

LEMMA FirstIn == ASSUME NEW s, s # {} PROVE First(s) \in s
  BY DEF First

Unfolds(g, d, D) ==
    \A s \in SUBSET D :
        /\ s = {} => g[s] = 0
        /\ s # {} => g[s] = d[First(s)] + g[s \ {First(s)}]

LEMMA SumStep == ASSUME NEW D, NEW d, NEW g, Sums(g, d, D) PROVE Unfolds(g, d, D)
  <1> SUFFICES ASSUME NEW s \in SUBSET D
               PROVE  /\ s = {} => g[s] = 0
                      /\ s # {} => g[s] = d[First(s)] + g[s \ {First(s)}]
    BY DEF Unfolds
  <1> DEFINE h == [t \in SUBSET D |-> IF t = {} THEN 0 ELSE d[First(t)] + g[t \ {First(t)}]]
  <1>1. g[s] = h[s]
    BY DEF Sums
  <1> QED
    BY <1>1

(* The size of what is left of a set. *)
LEMMA Smaller ==
    ASSUME NEW D, IsFiniteSet(D), NEW s \in SUBSET D, NEW x \in s, NEW n \in Nat,
           Cardinality(s) <= n + 1
    PROVE  s \ {x} \in SUBSET D /\ Cardinality(s \ {x}) <= n
  <1>1. IsFiniteSet(s) /\ Cardinality(s) \in Nat
    BY FS_Subset, FS_CardinalityType
  <1>2. Cardinality(s \ {x}) = Cardinality(s) - 1
    BY <1>1, FS_RemoveElement
  <1> QED
    BY <1>1, <1>2

LEMMA SizeZero ==
    ASSUME NEW D, IsFiniteSet(D), NEW s \in SUBSET D, Cardinality(s) <= 0 PROVE s = {}
  <1>1. IsFiniteSet(s) /\ Cardinality(s) \in Nat
    BY FS_Subset, FS_CardinalityType
  <1> QED
    BY <1>1, FS_EmptySet

(* The recursion is well defined. *)
LEMMA SumsExist ==
    ASSUME NEW D, IsFiniteSet(D), NEW d \in [D -> Int]
    PROVE  \E g \in [SUBSET D -> Int] : Sums(g, d, D)
  <1> DEFINE Small(n) == {s \in SUBSET D : Cardinality(s) <= n}
             Step(g, s) == IF s = {} THEN 0 ELSE d[First(s)] + g[s \ {First(s)}]
             Defined == {n \in Nat : \E g \in [Small(n) -> Int] :
                                        \A s \in Small(n) : g[s] = Step(g, s)}
  <1>1. 0 \in Defined
    <2>1. \A s \in Small(0) : s = {}
      BY SizeZero
    <2>2. [s \in Small(0) |-> 0] \in [Small(0) -> Int]
      OBVIOUS
    <2> QED
      BY <2>1, <2>2
  <1>2. ASSUME NEW n \in Defined PROVE n + 1 \in Defined
    <2> DEFINE More == Small(n + 1)
    <2>1. PICK g \in [Small(n) -> Int] : \A s \in Small(n) : g[s] = Step(g, s)
      OBVIOUS
    <2> DEFINE h == [s \in More |-> Step(g, s)]
    <2>2. \A s \in More : s # {} => s \ {First(s)} \in Small(n) /\ First(s) \in D
      BY Smaller, FirstIn
    <2>3. \A s \in More : Step(g, s) \in Int
      BY <2>2
    <2>4. h \in [More -> Int]
      BY <2>3
    <2>5. \A s \in Small(n) : s \in More /\ h[s] = g[s]
      <3>1. \A s \in Small(n) : s \in More
        <4> SUFFICES ASSUME NEW s \in Small(n) PROVE Cardinality(s) <= n + 1
          OBVIOUS
        <4>1. Cardinality(s) \in Nat
          BY FS_Subset, FS_CardinalityType
        <4> QED
          BY <4>1
      <3> QED
        BY <2>1, <3>1
    <2>6. \A s \in More : h[s] = Step(h, s)
      <3> SUFFICES ASSUME NEW s \in More PROVE h[s] = Step(h, s)
        OBVIOUS
      <3>1. h[s] = Step(g, s)
        OBVIOUS
      <3>2. s # {} => h[s \ {First(s)}] = g[s \ {First(s)}]
        BY <2>2, <2>5
      <3> HIDE DEF h
      <3> QED
        BY <3>1, <3>2
    <2> HIDE DEF h
    <2>7. \E f \in [Small(n + 1) -> Int] : \A s \in Small(n + 1) : f[s] = Step(f, s)
      BY <2>4, <2>6
    <2> HIDE DEF Small, Step
    <2> QED
      BY <2>7
  <1>3. Defined = Nat
    <2> HIDE DEF Defined
    <2> QED
      BY <1>1, <1>2, Induction, Defined \subseteq Nat DEF Defined
  <1>4. Cardinality(D) \in Nat /\ SUBSET D = Small(Cardinality(D))
    BY FS_CardinalityType, FS_Subset
  <1>5. PICK g \in [SUBSET D -> Int] : \A s \in SUBSET D : g[s] = Step(g, s)
    <2>1. Cardinality(D) \in Defined
      BY <1>3, <1>4
    <2> HIDE DEF Small, Step
    <2> QED
      BY <1>4, <2>1
  <1>6. Sums(g, d, D)
    BY <1>5 DEF Sums
  <1> QED
    BY <1>6

(* Whatever the order of the recursion, an element can be taken out first.  *)
LEMMA SumTake ==
    ASSUME NEW D, IsFiniteSet(D), NEW d \in [D -> Int], NEW g, Sums(g, d, D)
    PROVE  \A s \in SUBSET D : g[s] \in Int /\ \A x \in s : g[s] = d[x] + g[s \ {x}]
  <1> DEFINE Small(n) == {s \in SUBSET D : Cardinality(s) <= n}
             Taken(s) == g[s] \in Int /\ \A x \in s : g[s] = d[x] + g[s \ {x}]
             Proved == {n \in Nat : \A s \in Small(n) : Taken(s)}
  <1>0. Unfolds(g, d, D)
    BY SumStep
  <1>1. 0 \in Proved
    <2> SUFFICES ASSUME NEW s \in Small(0) PROVE Taken(s)
      OBVIOUS
    <2>1. s = {}
      BY SizeZero
    <2>2. g[s] = 0
      BY <1>0, <2>1 DEF Unfolds
    <2> QED
      BY <2>1, <2>2
  <1>2. ASSUME NEW n \in Proved PROVE n + 1 \in Proved
    <2> SUFFICES ASSUME NEW s \in Small(n + 1) PROVE Taken(s)
      OBVIOUS
    <2>1. CASE s = {}
      <3>1. g[s] = 0
        BY <1>0, <2>1 DEF Unfolds
      <3> QED
        BY <2>1, <3>1
    <2>2. CASE s # {}
      <3> DEFINE p == First(s)
      <3>1. p \in s /\ g[s] = d[p] + g[s \ {p}]
        BY <1>0, <2>2, FirstIn DEF Unfolds
      <3> HIDE DEF p
      <3>2. \A x \in s : Taken(s \ {x}) /\ d[x] \in Int
        BY Smaller
      <3>3. g[s] \in Int
        <4>1. d[p] \in Int /\ g[s \ {p}] \in Int
          BY <3>1, <3>2
        <4> QED
          BY <3>1, <4>1
      <3>4. ASSUME NEW x \in s PROVE g[s] = d[x] + g[s \ {x}]
        <4>1. CASE x = p
          BY <3>1, <4>1
        <4>2. CASE x # p
          <5>1. g[s \ {p}] = d[x] + g[(s \ {p}) \ {x}]
            BY <3>1, <3>2, <4>2
          <5>2. g[s \ {x}] = d[p] + g[(s \ {x}) \ {p}]
            BY <3>1, <3>2, <4>2
          <5>3. (s \ {p}) \ {x} = (s \ {x}) \ {p}
            OBVIOUS
          <5>4. d[x] \in Int /\ d[p] \in Int /\ g[(s \ {p}) \ {x}] \in Int
            <6>1. d[x] \in Int /\ d[p] \in Int
              BY <3>1, <3>2
            <6>2. (s \ {p}) \ {x} \in Small(n)
              <7>1. s \ {p} \in SUBSET D /\ Cardinality(s \ {p}) <= n
                BY <3>1, Smaller
              <7>2. IsFiniteSet(s \ {p})
                BY <7>1, FS_Subset
              <7>3. /\ IsFiniteSet((s \ {p}) \ {x})
                    /\ Cardinality((s \ {p}) \ {x}) <= Cardinality(s \ {p})
                BY <7>2, FS_Subset
              <7>4. Cardinality(s \ {p}) \in Nat /\ Cardinality((s \ {p}) \ {x}) \in Nat
                BY <7>2, <7>3, FS_CardinalityType
              <7> QED
                BY <7>1, <7>3, <7>4
            <6> QED
              BY <6>1, <6>2
          <5> HIDE DEF Small, Taken
          <5>5. g[s] = d[p] + (d[x] + g[(s \ {p}) \ {x}])
            BY <3>1, <5>1
          <5>6. g[s \ {x}] = d[p] + g[(s \ {p}) \ {x}]
            BY <5>2, <5>3
          <5> QED
            BY <5>4, <5>5, <5>6
        <4> QED
          BY <4>1, <4>2
      <3> QED
        BY <3>3, <3>4
    <2> QED
      BY <2>1, <2>2
  <1>3. Proved = Nat
    <2> HIDE DEF Proved
    <2> QED
      BY <1>1, <1>2, Induction, Proved \subseteq Nat DEF Proved
  <1> SUFFICES ASSUME NEW s \in SUBSET D PROVE Taken(s)
    OBVIOUS
  <1>4. IsFiniteSet(s) /\ Cardinality(s) \in Nat
    BY FS_Subset, FS_CardinalityType
  <1>5. Cardinality(s) \in Proved /\ s \in Small(Cardinality(s))
    BY <1>3, <1>4
  <1> QED
    BY <1>5

(* Two sums of the same terms are the same. *)
LEMMA SumAgree ==
    ASSUME NEW C, NEW D, IsFiniteSet(C), IsFiniteSet(D), NEW c \in [C -> Int], NEW d \in [D -> Int],
           NEW f, Sums(f, c, C), NEW g, Sums(g, d, D),
           NEW E, E \subseteq C, E \subseteq D, \A x \in E : c[x] = d[x]
    PROVE  f[E] = g[E]
  <1> DEFINE Small(n) == {s \in SUBSET E : Cardinality(s) <= n}
             Proved == {n \in Nat : \A s \in Small(n) : f[s] = g[s]}
  <1>0. IsFiniteSet(E)
    BY FS_Subset
  <1>f. Unfolds(f, c, C)
    BY SumStep
  <1>g. Unfolds(g, d, D)
    BY SumStep
  <1>1. 0 \in Proved
    <2> SUFFICES ASSUME NEW s \in Small(0) PROVE f[s] = g[s]
      OBVIOUS
    <2>1. s = {}
      BY <1>0, SizeZero
    <2> QED
      BY <1>f, <1>g, <2>1 DEF Unfolds
  <1>2. ASSUME NEW n \in Proved PROVE n + 1 \in Proved
    <2> SUFFICES ASSUME NEW s \in Small(n + 1) PROVE f[s] = g[s]
      OBVIOUS
    <2>1. CASE s = {}
      BY <1>f, <1>g, <2>1 DEF Unfolds
    <2>2. CASE s # {}
      <3>1. First(s) \in s
        BY <2>2, FirstIn
      <3>2. f[s \ {First(s)}] = g[s \ {First(s)}]
        BY <1>0, <3>1, Smaller
      <3> QED
        BY <1>f, <1>g, <2>2, <3>1, <3>2 DEF Unfolds
    <2> QED
      BY <2>1, <2>2
  <1>3. Proved = Nat
    <2> HIDE DEF Proved
    <2> QED
      BY <1>1, <1>2, Induction, Proved \subseteq Nat DEF Proved
  <1>4. Cardinality(E) \in Proved /\ E \in Small(Cardinality(E))
    BY <1>0, <1>3, FS_CardinalityType
  <1> QED
    BY <1>4

-------------------------------------------------------------------------------
(* Balances *)

(* What the row i adds to the balance of a. *)
Delta(ledger, a, i) ==
    (IF ledger[i].account_id = a THEN SourceDelta(ledger[i]) ELSE 0)
    + (IF ledger[i].account_destination_id = a THEN DestinationDelta(ledger[i]) ELSE 0)

Deltas(ledger, a) == [i \in DOMAIN ledger |-> Delta(ledger, a, i)]

IsLedger(ledger) ==
    /\ IsFiniteSet(DOMAIN ledger)
    /\ \A i \in DOMAIN ledger :
          ledger[i].amount \in Int /\ ledger[i].to_amount \in Int \cup {Null}

LEMMA DeltasInt ==
    ASSUME NEW ledger, IsLedger(ledger), NEW a
    PROVE  Deltas(ledger, a) \in [DOMAIN ledger -> Int]
  <1> SUFFICES ASSUME NEW i \in DOMAIN ledger PROVE Delta(ledger, a, i) \in Int
    BY DEF Deltas
  <1>1. SourceDelta(ledger[i]) \in Int
    BY DEF IsLedger, SourceDelta
  <1>2. DestinationDelta(ledger[i]) \in Int
    BY DEF IsLedger, DestinationDelta, Credited
  <1> QED
    BY <1>1, <1>2 DEF Delta

(* A balance is the sum of what the rows add to it. *)
LEMMA BalanceSums ==
    ASSUME NEW ledger, IsLedger(ledger), NEW a
    PROVE  \E g : /\ Sums(g, Deltas(ledger, a), DOMAIN ledger)
                  /\ Balance(ledger, a) = g[DOMAIN ledger]
  <1> DEFINE D == DOMAIN ledger
             Step(g) == [s \in SUBSET D |->
                            IF s = {} THEN 0
                            ELSE Delta(ledger, a, First(s)) + g[s \ {First(s)}]]
             f == CHOOSE g : g = Step(g)
  <1>1. Balance(ledger, a) = f[D]
    BY DEF Balance, MapThenSumSet, MapThenFoldSet, Delta, First
  <1>2. \A g : Sums(g, Deltas(ledger, a), D) <=> g = Step(g)
    <2> SUFFICES ASSUME NEW g
                 PROVE  Step(g) = [s \in SUBSET D |->
                                      IF s = {} THEN 0
                                      ELSE Deltas(ledger, a)[First(s)] + g[s \ {First(s)}]]
      BY DEF Sums
    <2>1. \A s \in SUBSET D : s # {} => Deltas(ledger, a)[First(s)] = Delta(ledger, a, First(s))
      BY FirstIn DEF Deltas
    <2> QED
      BY <2>1
  <1>3. \E g : g = Step(g)
    <2>1. Deltas(ledger, a) \in [D -> Int] /\ IsFiniteSet(D)
      BY DeltasInt DEF IsLedger
    <2>2. \E g : Sums(g, Deltas(ledger, a), D)
      BY <2>1, SumsExist
    <2> HIDE DEF Step
    <2> QED
      BY <1>2, <2>2
  <1>4. f = Step(f)
    <2> HIDE DEF Step
    <2> QED
      BY <1>3
  <1> QED
    BY <1>1, <1>2, <1>4

LEMMA BalanceInt == ASSUME NEW ledger, IsLedger(ledger), NEW a PROVE Balance(ledger, a) \in Int
  <1> DEFINE D == DOMAIN ledger
             d == Deltas(ledger, a)
  <1>1. PICK g : Sums(g, d, D) /\ Balance(ledger, a) = g[D]
    BY BalanceSums
  <1>2. d \in [D -> Int] /\ IsFiniteSet(D) /\ D \in SUBSET D
    BY DeltasInt DEF IsLedger
  <1> HIDE DEF d, D
  <1> QED
    BY <1>1, <1>2, SumTake

(* Rows that add the same to a leave a the same balance. *)
LEMMA BalanceSame ==
    ASSUME NEW before, IsLedger(before), NEW after, IsLedger(after),
           DOMAIN after = DOMAIN before, NEW a,
           \A i \in DOMAIN before : Delta(after, a, i) = Delta(before, a, i)
    PROVE  Balance(after, a) = Balance(before, a)
  <1> DEFINE D == DOMAIN before
             c == Deltas(before, a)
             d == Deltas(after, a)
  <1>1. PICK f : Sums(f, c, D) /\ Balance(before, a) = f[D]
    BY BalanceSums
  <1>2. PICK g : Sums(g, d, D) /\ Balance(after, a) = g[D]
    BY BalanceSums
  <1>3. c \in [D -> Int] /\ d \in [D -> Int] /\ IsFiniteSet(D)
    BY DeltasInt DEF IsLedger
  <1>4. \A i \in D : c[i] = d[i]
    BY DEF Deltas
  <1> HIDE DEF c, d, D
  <1> QED
    BY <1>1, <1>2, <1>3, <1>4, SumAgree

(* A new row adds what it adds. *)
LEMMA BalanceAdd ==
    ASSUME NEW before, IsLedger(before), NEW after, IsLedger(after), NEW t,
           t \notin DOMAIN before, DOMAIN after = DOMAIN before \cup {t},
           \A i \in DOMAIN before : after[i] = before[i], NEW a
    PROVE  Balance(after, a) = Delta(after, a, t) + Balance(before, a)
  <1> DEFINE C == DOMAIN before
             D == DOMAIN after
             c == Deltas(before, a)
             d == Deltas(after, a)
  <1>1. PICK f : Sums(f, c, C) /\ Balance(before, a) = f[C]
    BY BalanceSums
  <1>2. PICK g : Sums(g, d, D) /\ Balance(after, a) = g[D]
    BY BalanceSums
  <1>3. c \in [C -> Int] /\ d \in [D -> Int] /\ IsFiniteSet(C) /\ IsFiniteSet(D)
    BY DeltasInt DEF IsLedger
  <1>4. \A i \in C : c[i] = d[i]
    BY DEF Deltas, Delta
  <1>5. C \subseteq D /\ t \in D /\ D \ {t} = C /\ d[t] = Delta(after, a, t)
    BY DEF Deltas
  <1> HIDE DEF c, d, C, D
  <1>6. f[C] = g[C]
    BY <1>1, <1>2, <1>3, <1>4, <1>5, SumAgree
  <1>7. g[D] = d[t] + g[D \ {t}]
    BY <1>2, <1>3, <1>5, SumTake
  <1> QED
    BY <1>1, <1>2, <1>5, <1>6, <1>7

-------------------------------------------------------------------------------
(* The inductive invariant *)

(* A row refers to accounts there are: the foreign keys. *)
Refers(row, accounts) ==
    \A a \in {row.account_id, row.account_destination_id} \ {Null} : accounts[a] # Gone

(* What the three properties the runs check say of one row, where the       *)
(* accounts are in the currencies that accounts says, those in changed      *)
(* apart.                                                                   *)
InCurrency(row, accounts, changed) ==
    row.account_id # Null /\ row.account_id \notin changed =>
        accounts[row.account_id] = row.currency

Plain(row) ==
    row.type # "transfer" => row.account_destination_id = Null /\ row.to_amount = Null

Credits(row, accounts, changed) ==
    /\ ~row.installments
    /\ row.type = "transfer"
    /\ row.to_amount = Null
    /\ row.account_destination_id # Null
    /\ row.account_destination_id \notin changed
    => accounts[row.account_destination_id] = row.currency

Fits(row, accounts, changed) ==
    InCurrency(row, accounts, changed) /\ Plain(row) /\ Credits(row, accounts, changed)

(* The accounts an update in hand is to write are there: it will commit. *)
Writable(w, accounts) ==
    \A a \in {w.account_id, w.account_destination_id} \ {Null, Unset} : accounts[a] # Gone

References == \A t \in LiveTxs : Refers(tx[t], account)

RowsFit == \A t \in LiveTxs \ raced : Fits(tx[t], account, recurrencied)

(* Two updates in hand of one row have marked it as raced. *)
OneUpdater ==
    \A q, r \in Requests :
        req[q].op = "update" /\ req[r].op = "update" /\ q # r /\ req[q].id = req[r].id =>
            req[q].id \in raced

(* What an update in hand makes of the row it meets now fits. *)
UpdateFits(r) ==
    /\ req[r].op = "update"
    /\ req[r].id \notin raced
    /\ tx[req[r].id] # Gone
    /\ Writable(req[r].write, account)
    => Fits(Over(tx[req[r].id], req[r].write), account, recurrencied)

(* An adjustment is in the currency of its account. *)
AdjustFits(r) ==
    /\ req[r].op = "adjust"
    /\ req[r].id \in LiveAccounts
    /\ req[r].id \notin recurrencied
    => account[req[r].id] = req[r].currency

Coherent ==
    /\ TypeOK
    /\ References
    /\ RowsFit
    /\ OneUpdater
    /\ \A r \in Requests : UpdateFits(r) /\ AdjustFits(r)

-------------------------------------------------------------------------------
(* Rows and what updates write *)

LEMMA CreatedRow == ASSUME NEW row \in CreateBodies PROVE row \in TxRow /\ ~row.installments
  BY LedgerAssumption DEF CreateBody, TxRow

LEMMA OverRow ==
    ASSUME NEW row \in TxRow, NEW w \in UpdateBody
    PROVE  /\ Over(row, w) =
                [type |-> IF w.type = Unset THEN row.type ELSE w.type,
                 amount |-> IF w.amount = Unset THEN row.amount ELSE w.amount,
                 currency |-> IF w.currency = Unset THEN row.currency ELSE w.currency,
                 account_id |-> IF w.account_id = Unset THEN row.account_id ELSE w.account_id,
                 account_destination_id |->
                    IF w.account_destination_id = Unset THEN row.account_destination_id
                    ELSE w.account_destination_id,
                 to_amount |-> IF w.to_amount = Unset THEN row.to_amount ELSE w.to_amount,
                 installments |-> row.installments]
           /\ Over(row, w) \in TxRow
  BY DEF Over, TxRow, UpdateBody

LEMMA ResolvedRow ==
    ASSUME NEW row \in TxRow, NEW body \in UpdateBody
    PROVE  /\ Resolved(row, body) \in TxRow
           /\ Resolved(row, body).installments = row.installments
           /\ Plain(Resolved(row, body))
  <1> DEFINE now == Over(row, body)
  <1>1. now \in TxRow /\ now.installments = row.installments
    BY OverRow
  <1> HIDE DEF now
  <1>2. Resolved(row, body) = IF now.type = "transfer" THEN now
                              ELSE [now EXCEPT !.account_destination_id = Null, !.to_amount = Null]
    BY DEF Resolved, now
  <1> QED
    BY <1>1, <1>2 DEF TxRow, Plain

(* What the UPDATE writes makes of the row it loaded what was asked for. *)
LEMMA OverDirty ==
    ASSUME NEW row \in TxRow, NEW now \in TxRow, now.installments = row.installments,
           now.account_id \in Accounts
    PROVE  Dirty(row, now) \in UpdateBody /\ Over(row, Dirty(row, now)) = now
  <1> DEFINE w == Dirty(row, now)
  <1>1. w = [type |-> IF now.type = row.type THEN Unset ELSE now.type,
             amount |-> IF now.amount = row.amount THEN Unset ELSE now.amount,
             currency |-> IF now.currency = row.currency THEN Unset ELSE now.currency,
             account_id |-> IF now.account_id = row.account_id THEN Unset ELSE now.account_id,
             account_destination_id |->
                IF now.account_destination_id = row.account_destination_id THEN Unset
                ELSE now.account_destination_id,
             to_amount |-> IF now.to_amount = row.to_amount THEN Unset ELSE now.to_amount]
    BY DEF Dirty
  <1> HIDE DEF w
  <1>2. w \in UpdateBody
    BY <1>1 DEF TxRow, UpdateBody
  <1>3. /\ now.type # Unset /\ now.amount # Unset /\ now.currency # Unset
        /\ now.account_id # Unset /\ now.account_destination_id # Unset /\ now.to_amount # Unset
    BY LedgerAssumption DEF TxRow
  <1>4. Over(row, w) = [type |-> now.type, amount |-> now.amount, currency |-> now.currency,
                        account_id |-> now.account_id,
                        account_destination_id |-> now.account_destination_id,
                        to_amount |-> now.to_amount, installments |-> now.installments]
    BY <1>1, <1>2, <1>3, OverRow
  <1>5. now = [type |-> now.type, amount |-> now.amount, currency |-> now.currency,
               account_id |-> now.account_id,
               account_destination_id |-> now.account_destination_id,
               to_amount |-> now.to_amount, installments |-> now.installments]
    BY DEF TxRow
  <1> QED
    BY <1>2, <1>4, <1>5 DEF w

LEMMA NulledRow ==
    ASSUME NEW row \in TxRow, NEW a \in Accounts
    PROVE  /\ SetNull(row, a) \in TxRow
           /\ SetNull(row, a) = [type |-> row.type, amount |-> row.amount,
                                 currency |-> row.currency,
                                 account_id |-> IF row.account_id = a THEN Null ELSE row.account_id,
                                 account_destination_id |->
                                    IF row.account_destination_id = a THEN Null
                                    ELSE row.account_destination_id,
                                 to_amount |-> row.to_amount, installments |-> row.installments]
  <1> DEFINE source == IF row.account_id = a THEN Null ELSE row.account_id
             destination == IF row.account_destination_id = a THEN Null
                            ELSE row.account_destination_id
             nulled == [type |-> row.type, amount |-> row.amount, currency |-> row.currency,
                        account_id |-> source, account_destination_id |-> destination,
                        to_amount |-> row.to_amount, installments |-> row.installments]
  <1>1. SetNull(row, a) = [row EXCEPT !.account_id = source, !.account_destination_id = destination]
    BY DEF SetNull
  <1>2. source \in Accounts \cup {Null} /\ destination \in Accounts \cup {Null}
    BY DEF TxRow
  <1> HIDE DEF source, destination
  <1>3. nulled \in TxRow
    BY <1>2 DEF TxRow
  <1>4. SetNull(row, a) = nulled
    BY <1>1 DEF TxRow
  <1> QED
    BY <1>3, <1>4 DEF source, destination

LEMMA AdjustmentRow ==
    ASSUME NEW h \in Handler, h.op = "adjust"
    PROVE  Adjustment(h) \in TxRow /\ ~Adjustment(h).installments
  BY DEF Adjustment, AbsOf, Handler, Idle, TxRow, Types

(* Each kind of handler is a record of its kind. *)
LEMMA HandlerKinds ==
    ASSUME NEW h \in Handler
    PROVE  /\ h.op = "update" => h.id \in Txs /\ h.write \in UpdateBody
           /\ h.op = "adjust" => /\ h.id \in Accounts /\ h.currency \in Currencies
                                 /\ h.seen \in Int /\ h.target \in Int
  BY DEF Handler, Idle

LEMMA RowsLedger == TypeOK => IsLedger(Rows) /\ \A t \in LiveTxs : tx[t] \in TxRow /\ Rows[t] = tx[t]
  <1> SUFFICES ASSUME TypeOK
               PROVE  IsLedger(Rows) /\ \A t \in LiveTxs : tx[t] \in TxRow /\ Rows[t] = tx[t]
    OBVIOUS
  <1>1. IsFiniteSet(LiveTxs)
    BY LedgerAssumption, FS_Subset DEF LiveTxs
  <1>2. \A t \in LiveTxs : tx[t] \in TxRow /\ Rows[t] = tx[t]
    BY DEF TypeOK, LiveTxs, Rows
  <1>3. \A t \in LiveTxs : Rows[t].amount \in Int /\ Rows[t].to_amount \in Int \cup {Null}
    BY <1>2 DEF TxRow
  <1> QED
    BY <1>1, <1>2, <1>3 DEF IsLedger, Rows

LEMMA PartAmount ==
    ASSUME NEW parts \in SUBSET Txs, NEW last \in parts, NEW amount \in Int
    PROVE  LET n == Cardinality(parts) IN
           amount \div n \in Int /\ amount - (n - 1) * (amount \div n) \in Int
  <1> DEFINE n == Cardinality(parts)
             q == amount \div n
  <1>1. IsFiniteSet(parts)
    BY LedgerAssumption, FS_Subset
  <1>2. n \in Nat /\ n # 0
    BY <1>1, FS_CardinalityType, FS_EmptySet
  <1> HIDE DEF n
  <1>3. q \in Int
    BY <1>2, SMT
  <1> HIDE DEF q
  <1>4. amount - (n - 1) * q \in Int
    BY <1>2, <1>3, SMT
  <1> QED
    BY <1>3, <1>4 DEF n, q

-------------------------------------------------------------------------------
(* Type correctness, one step per action. *)

LEMMA InitTypeOK == Init => TypeOK
  BY DEF Init, TypeOK, Handler

LEMMA NextTypeOK == TypeOK /\ [Next]_vars => TypeOK'
  <1> SUFFICES ASSUME TypeOK, [Next]_vars PROVE TypeOK'
    OBVIOUS
  <1>1. ASSUME NEW a \in Accounts, NEW c \in Currencies, create_account(a, c) PROVE TypeOK'
    BY <1>1 DEF create_account, TypeOK
  <1>2. ASSUME NEW a \in Accounts, NEW c \in Currencies, update_account(a, c) PROVE TypeOK'
    BY <1>2 DEF update_account, TypeOK
  <1>3. ASSUME NEW a \in Accounts, delete_account(a) PROVE TypeOK'
    <2>1. \A t \in LiveTxs : SetNull(tx[t], a) \in TxRow
      BY RowsLedger, NulledRow
    <2>2. tx' \in [Txs -> TxRow \cup {Gone}]
      BY <1>3, <2>1 DEF delete_account
    <2> QED
      BY <1>3, <2>2 DEF delete_account, TypeOK
  <1>4. ASSUME NEW r \in Requests, NEW a \in Accounts, NEW n \in Targets, LoadForAdjust(r, a, n)
        PROVE  TypeOK'
    <2> DEFINE h == [op |-> "adjust", id |-> a, currency |-> account[a],
                     seen |-> Balance(Rows, a), target |-> n]
    <2>1. Balance(Rows, a) \in Int
      BY RowsLedger, BalanceInt
    <2>2. account[a] \in Currencies /\ n \in Int
      BY <1>4, LedgerAssumption DEF LoadForAdjust, LiveAccounts, TypeOK
    <2>3. h \in Handler
      BY <2>1, <2>2 DEF Handler
    <2>4. req' = [req EXCEPT ![r] = h] /\ UNCHANGED <<account, tx, raced, recurrencied>>
      BY <1>4 DEF LoadForAdjust
    <2> HIDE DEF h
    <2> QED
      BY <2>3, <2>4 DEF TypeOK
  <1>5. ASSUME NEW r \in Requests, NEW t \in Txs, CommitAdjust(r, t) PROVE TypeOK'
    <2>1. Adjustment(req[r]) \in TxRow
      BY <1>5, AdjustmentRow DEF CommitAdjust, TypeOK
    <2>2. Idle \in Handler
      BY DEF Handler
    <2> QED
      BY <1>5, <2>1, <2>2 DEF CommitAdjust, TypeOK
  <1>6. ASSUME NEW r \in Requests, AdjustRefused(r) PROVE TypeOK'
    BY <1>6 DEF AdjustRefused, TypeOK, Handler
  <1>7. ASSUME NEW t \in Txs, NEW row \in CreateBodies, create_expense(t, row) PROVE TypeOK'
    BY <1>7, CreatedRow DEF create_expense, TypeOK
  <1>8. ASSUME NEW parts \in SUBSET Txs, NEW last \in Txs, NEW row \in CreateBodies,
               create_installments(parts, last, row)
        PROVE  TypeOK'
    <2> DEFINE n == Cardinality(parts)
               amount == row.amount \div n
               rest == row.amount - (n - 1) * amount
               entry(t) == [row EXCEPT !.amount = IF t = last THEN rest ELSE amount,
                                       !.to_amount = Null, !.installments = TRUE]
    <2>1. last \in parts /\ tx' = [t \in Txs |-> IF t \in parts THEN entry(t) ELSE tx[t]]
      BY <1>8 DEF create_installments
    <2>2. row \in TxRow
      BY CreatedRow
    <2>3. amount \in Int /\ rest \in Int
      BY <2>1, <2>2, PartAmount DEF TxRow
    <2> HIDE DEF amount, rest
    <2>4. \A t \in Txs : entry(t) \in TxRow
      BY <2>2, <2>3 DEF TxRow
    <2> HIDE DEF entry
    <2>5. tx' \in [Txs -> TxRow \cup {Gone}]
      BY <2>1, <2>4 DEF TypeOK
    <2> QED
      BY <1>8, <2>5 DEF create_installments, TypeOK
  <1>9. ASSUME NEW r \in Requests, NEW t \in Txs, NEW body \in UpdateBodies,
               LoadForUpdate(r, t, body)
        PROVE  TypeOK'
    <2> DEFINE now == Resolved(tx[t], body)
               h == [op |-> "update", id |-> t, write |-> Dirty(tx[t], now)]
    <2>1. tx[t] \in TxRow /\ body \in UpdateBody
      BY <1>9, RowsLedger, LedgerAssumption DEF LoadForUpdate
    <2>2. now \in TxRow /\ now.installments = tx[t].installments /\ now.account_id \in Accounts
      BY <1>9, <2>1, ResolvedRow DEF LoadForUpdate, SourceValid, LiveAccounts
    <2>3. req' = [req EXCEPT ![r] = h]
      BY <1>9 DEF LoadForUpdate
    <2> HIDE DEF now
    <2>4. Dirty(tx[t], now) \in UpdateBody
      BY <2>1, <2>2, OverDirty
    <2>5. h \in Handler
      BY <2>4 DEF Handler
    <2> HIDE DEF h
    <2> QED
      BY <1>9, <2>3, <2>5 DEF LoadForUpdate, TypeOK
  <1>10. ASSUME NEW r \in Requests, CommitUpdate(r) PROVE TypeOK'
    <2> DEFINE t == req[r].id
               w == req[r].write
    <2>1. t \in Txs /\ w \in UpdateBody
      BY <1>10, HandlerKinds DEF CommitUpdate, TypeOK
    <2>2. CASE UNCHANGED tx
      BY <1>10, <2>2 DEF CommitUpdate, TypeOK, Handler
    <2>3. CASE t \in LiveTxs /\ tx' = [tx EXCEPT ![t] = Over(tx[t], w)]
      <3>1. Over(tx[t], w) \in TxRow
        BY <2>1, <2>3, RowsLedger, OverRow
      <3> QED
        BY <1>10, <2>1, <2>3, <3>1 DEF CommitUpdate, TypeOK, Handler
    <2> QED
      BY <1>10, <2>2, <2>3 DEF CommitUpdate
  <1>11. ASSUME NEW t \in Txs, delete_expense(t) PROVE TypeOK'
    BY <1>11 DEF delete_expense, TypeOK
  <1>12. CASE UNCHANGED vars
    BY <1>12 DEF vars, TypeOK
  <1> QED
    BY <1>1, <1>2, <1>3, <1>4, <1>5, <1>6, <1>7, <1>8, <1>9, <1>10, <1>11, <1>12 DEF Next

(* Accounts, transactions and handlers have the types the models of the ORM *)
(* give them (models.py): the balance an adjustment reads is a number, and  *)
(* what instalments and updates write is a row.                             *)
THEOREM TypeCorrect == Spec => []TypeOK
  <1> QED
    BY InitTypeOK, NextTypeOK, PTL DEF Spec

-------------------------------------------------------------------------------
(* Rows and accounts *)

(* A row fits as before where its accounts are as before, or are exempt. *)
LEMMA FitsStill ==
    ASSUME NEW row, NEW before, NEW after, NEW changed, NEW exempt,
           Fits(row, before, changed),
           \A a \in {row.account_id, row.account_destination_id} \ {Null} :
              a \in exempt \/ (a \notin changed /\ after[a] = before[a])
    PROVE  Fits(row, after, exempt)
  BY DEF Fits, InCurrency, Plain, Credits

LEMMA FitsNulled ==
    ASSUME NEW row \in TxRow, NEW a \in Accounts, NEW changed,
           NEW accounts \in [Accounts -> Currencies \cup {Gone}], Fits(row, accounts, changed)
    PROVE  Fits(SetNull(row, a), [accounts EXCEPT ![a] = Gone], changed)
  <1> DEFINE nulled == SetNull(row, a)
             after == [accounts EXCEPT ![a] = Gone]
  <1>1. /\ nulled.type = row.type /\ nulled.currency = row.currency
        /\ nulled.to_amount = row.to_amount /\ nulled.installments = row.installments
        /\ nulled.account_id \in {Null, row.account_id} \ {a}
        /\ nulled.account_destination_id \in {Null, row.account_destination_id} \ {a}
    BY NulledRow, LedgerAssumption
  <1>2. \A b \in Accounts \ {a} : after[b] = accounts[b]
    OBVIOUS
  <1>3. row.account_id \in Accounts \cup {Null}
        /\ row.account_destination_id \in Accounts \cup {Null}
    BY DEF TxRow
  <1> HIDE DEF nulled, after
  <1>4. Fits(nulled, after, changed)
    BY <1>1, <1>2, <1>3 DEF Fits, InCurrency, Plain, Credits
  <1> QED
    BY <1>4 DEF nulled, after

(* An update that does not write the account deleted goes over the columns  *)
(* set to NULL as if it had come first.                                     *)
LEMMA OverNulled ==
    ASSUME NEW row \in TxRow, NEW w \in UpdateBody, NEW a \in Accounts,
           a \notin {w.account_id, w.account_destination_id}
    PROVE  Over(SetNull(row, a), w) = SetNull(Over(row, w), a)
  <1> DEFINE nulled == SetNull(row, a)
             now == Over(row, w)
  <1>1. nulled \in TxRow /\ now \in TxRow
    BY NulledRow, OverRow
  <1>2. Over(nulled, w) =
            [type |-> IF w.type = Unset THEN row.type ELSE w.type,
             amount |-> IF w.amount = Unset THEN row.amount ELSE w.amount,
             currency |-> IF w.currency = Unset THEN row.currency ELSE w.currency,
             account_id |-> IF w.account_id = Unset
                            THEN (IF row.account_id = a THEN Null ELSE row.account_id)
                            ELSE w.account_id,
             account_destination_id |->
                IF w.account_destination_id = Unset
                THEN (IF row.account_destination_id = a THEN Null
                      ELSE row.account_destination_id)
                ELSE w.account_destination_id,
             to_amount |-> IF w.to_amount = Unset THEN row.to_amount ELSE w.to_amount,
             installments |-> row.installments]
    <2>1. Over(nulled, w) =
            [type |-> IF w.type = Unset THEN nulled.type ELSE w.type,
             amount |-> IF w.amount = Unset THEN nulled.amount ELSE w.amount,
             currency |-> IF w.currency = Unset THEN nulled.currency ELSE w.currency,
             account_id |-> IF w.account_id = Unset THEN nulled.account_id ELSE w.account_id,
             account_destination_id |->
                IF w.account_destination_id = Unset THEN nulled.account_destination_id
                ELSE w.account_destination_id,
             to_amount |-> IF w.to_amount = Unset THEN nulled.to_amount ELSE w.to_amount,
             installments |-> nulled.installments]
      <3> HIDE DEF nulled
      <3> QED
        BY <1>1, OverRow
    <2> QED
      BY <2>1, NulledRow
  <1>3. SetNull(now, a) =
            [type |-> now.type, amount |-> now.amount, currency |-> now.currency,
             account_id |-> IF now.account_id = a THEN Null ELSE now.account_id,
             account_destination_id |-> IF now.account_destination_id = a THEN Null
                                        ELSE now.account_destination_id,
             to_amount |-> now.to_amount, installments |-> now.installments]
    <2> HIDE DEF now
    <2> QED
      BY <1>1, NulledRow
  <1>4. /\ now.type = IF w.type = Unset THEN row.type ELSE w.type
        /\ now.amount = IF w.amount = Unset THEN row.amount ELSE w.amount
        /\ now.currency = IF w.currency = Unset THEN row.currency ELSE w.currency
        /\ now.account_id = IF w.account_id = Unset THEN row.account_id ELSE w.account_id
        /\ now.account_destination_id =
              IF w.account_destination_id = Unset THEN row.account_destination_id
              ELSE w.account_destination_id
        /\ now.to_amount = IF w.to_amount = Unset THEN row.to_amount ELSE w.to_amount
        /\ now.installments = row.installments
    BY OverRow
  <1> HIDE DEF nulled, now
  <1>5. Over(nulled, w) = SetNull(now, a)
    BY <1>2, <1>3, <1>4
  <1> QED
    BY <1>5 DEF nulled, now

(* The rows a request creates, in instalments or not. *)
LEMMA CreatedFits ==
    ASSUME TypeOK, NEW row \in CreateBodies, Creatable(row)
    PROVE  Refers(row, account) /\ Fits(row, account, recurrencied)
  BY DEF Creatable, SourceValid, DestinationValid, LiveAccounts, Refers, Fits, InCurrency,
         Plain, Credits

LEMMA PartFits ==
    ASSUME TypeOK, NEW row \in CreateBodies, Creatable(row), NEW part,
           part.type = row.type, part.currency = row.currency, part.account_id = row.account_id,
           part.account_destination_id = row.account_destination_id, part.to_amount = Null,
           part.installments
    PROVE  Refers(part, account) /\ Fits(part, account, recurrencied)
  BY CreatedFits DEF Refers, Fits, InCurrency, Plain, Credits

-------------------------------------------------------------------------------
(* The invariant is inductive. *)

LEMMA InitCoherent == Init => Coherent
  <1> SUFFICES ASSUME Init PROVE Coherent
    OBVIOUS
  <1>1. LiveTxs = {} /\ \A r \in Requests : req[r] = Idle
    BY DEF Init, LiveTxs
  <1> QED
    BY <1>1, InitTypeOK
    DEF Coherent, References, RowsFit, OneUpdater, UpdateFits, AdjustFits, Idle

(* The step writes no row that the update r has in hand, raced ones apart. *)
Spares(r) ==
    req[r].op = "update" /\ req[r].id \notin raced' =>
        req[r].id \notin raced /\ tx'[req[r].id] \in {tx[req[r].id], Gone}

(* A handler that goes on holding what it held still fits. *)
LEMMA HeldFits ==
    ASSUME Coherent, UNCHANGED <<account, recurrencied>>,
           NEW r \in Requests, req'[r] = req[r], Spares(r)
    PROVE  UpdateFits(r)' /\ AdjustFits(r)'
  <1>1. UpdateFits(r) /\ AdjustFits(r)
    BY DEF Coherent
  <1>2. AdjustFits(r)'
    BY <1>1 DEF AdjustFits, LiveAccounts
  <1>3. UpdateFits(r)'
    <2> SUFFICES ASSUME req[r].op = "update", req[r].id \notin raced', tx'[req[r].id] # Gone,
                        Writable(req[r].write, account)
                 PROVE  Fits(Over(tx'[req[r].id], req[r].write), account, recurrencied)
      BY DEF UpdateFits
    <2> QED
      BY <1>1 DEF UpdateFits, Spares
  <1> QED
    BY <1>2, <1>3

(* The rows a step writes, where it leaves the accounts alone. *)
Written(t) ==
    tx'[t] # Gone =>
        \/ tx'[t] = tx[t] /\ (t \notin raced' => t \notin raced)
        \/ /\ Refers(tx'[t], account)
           /\ t \notin raced' => Fits(tx'[t], account, recurrencied)

LEMMA WrittenFits ==
    ASSUME Coherent, UNCHANGED <<account, recurrencied>>, \A t \in Txs : Written(t)
    PROVE  References' /\ RowsFit'
  <1>1. SUFFICES ASSUME NEW t \in Txs, tx'[t] # Gone
                 PROVE  /\ Refers(tx'[t], account)
                        /\ t \notin raced' => Fits(tx'[t], account, recurrencied)
    BY DEF References, RowsFit, LiveTxs
  <1>2. CASE tx'[t] = tx[t] /\ (t \notin raced' => t \notin raced)
    BY <1>1, <1>2 DEF Coherent, References, RowsFit, LiveTxs
  <1> QED
    BY <1>1, <1>2 DEF Written

(* The adjustment, the update and the request that go on. *)
LEMMA StillOne ==
    ASSUME Coherent, \A r \in Requests : req'[r] \in {req[r], Idle},
           \A r \in Requests : req[r].op = "update" /\ req'[r] = req[r] /\ req[r].id \in raced =>
                req[r].id \in raced'
    PROVE  OneUpdater'
  BY DEF Coherent, OneUpdater, Idle

LEMMA IdleFits == ASSUME NEW r \in Requests, req'[r] = Idle PROVE UpdateFits(r)' /\ AdjustFits(r)'
  BY DEF UpdateFits, AdjustFits, Idle

LEMMA CreateAccountCoherent ==
    ASSUME Coherent, TypeOK', NEW a \in Accounts, NEW c \in Currencies, create_account(a, c)
    PROVE  Coherent'
  <1>0. /\ FreshAccount(a) /\ account' = [account EXCEPT ![a] = c]
        /\ recurrencied' = recurrencied \ {a} /\ UNCHANGED <<tx, req, raced>>
    BY DEF create_account
  <1>1. /\ account[a] = Gone /\ c # Gone /\ account \in [Accounts -> Currencies \cup {Gone}]
        /\ \A b \in Accounts \ {a} : account'[b] = account[b]
    BY <1>0, LedgerAssumption DEF FreshAccount, Coherent, TypeOK
  <1>2. \A t \in LiveTxs : /\ tx[t] \in TxRow /\ Refers(tx[t], account)
                           /\ Refers(tx'[t], account')
                           /\ a \notin {tx[t].account_id, tx[t].account_destination_id}
    <2> SUFFICES ASSUME NEW t \in LiveTxs
                 PROVE  /\ tx[t] \in TxRow /\ Refers(tx[t], account)
                        /\ Refers(tx[t], account')
                        /\ a \notin {tx[t].account_id, tx[t].account_destination_id}
      BY <1>0
    <2>1. tx[t] \in TxRow /\ Refers(tx[t], account)
      BY RowsLedger DEF Coherent, References
    <2>2. a # Null
      BY LedgerAssumption
    <2> QED
      BY <1>1, <2>1, <2>2 DEF Refers, TxRow
  <1>3. References'
    BY <1>0, <1>2 DEF References, LiveTxs
  <1>4. RowsFit'
    <2> SUFFICES ASSUME NEW t \in LiveTxs, t \notin raced
                 PROVE  Fits(tx[t], account', recurrencied')
      BY <1>0 DEF RowsFit, LiveTxs
    <2>1. Fits(tx[t], account, recurrencied)
      BY DEF Coherent, RowsFit
    <2>2. \A b \in {tx[t].account_id, tx[t].account_destination_id} \ {Null} :
            b \in Accounts \ {a}
      BY <1>2 DEF TxRow
    <2> QED
      BY <1>0, <1>1, <2>1, <2>2, FitsStill
  <1>5. OneUpdater'
    BY <1>0 DEF Coherent, OneUpdater
  <1>6. ASSUME NEW r \in Requests PROVE UpdateFits(r)'
    <2> DEFINE t == req[r].id
               w == req[r].write
               row == Over(tx[t], w)
    <2> SUFFICES ASSUME req[r].op = "update", t \notin raced, tx[t] # Gone,
                        Writable(w, account')
                 PROVE  Fits(row, account', recurrencied')
      BY <1>0 DEF UpdateFits
    <2>1. /\ t \in LiveTxs /\ w \in UpdateBody /\ req[r].write = w
          /\ a \notin {w.account_id, w.account_destination_id}
      BY <1>0, HandlerKinds DEF Coherent, TypeOK, LiveTxs, FreshAccount
    <2>2. Writable(w, account)
      BY <1>1, <2>1, LedgerAssumption DEF Writable, UpdateBody
    <2>3. Fits(row, account, recurrencied)
      BY <2>2 DEF Coherent, UpdateFits
    <2>4. \A b \in {row.account_id, row.account_destination_id} \ {Null} : b \in Accounts \ {a}
      <3>1. /\ row \in TxRow
            /\ row.account_id \in {tx[t].account_id, w.account_id}
            /\ row.account_destination_id \in
                  {tx[t].account_destination_id, w.account_destination_id}
        BY <1>2, <2>1, OverRow
      <3> HIDE DEF row, t, w
      <3> QED
        BY <1>2, <2>1, <3>1 DEF TxRow
    <2> HIDE DEF row
    <2> QED
      BY <1>0, <1>1, <2>3, <2>4, FitsStill
  <1>7. ASSUME NEW r \in Requests PROVE AdjustFits(r)'
    <2> SUFFICES ASSUME req[r].op = "adjust", account'[req[r].id] # Gone,
                        req[r].id \in Accounts, req[r].id \notin recurrencied'
                 PROVE  account'[req[r].id] = req[r].currency
      BY <1>0 DEF AdjustFits, LiveAccounts
    <2>1. req[r].id # a
      BY <1>0 DEF FreshAccount
    <2> QED
      BY <1>0, <1>1, <2>1 DEF Coherent, AdjustFits, LiveAccounts
  <1> QED
    BY <1>3, <1>4, <1>5, <1>6, <1>7 DEF Coherent

LEMMA UpdateAccountCoherent ==
    ASSUME Coherent, TypeOK', NEW a \in Accounts, NEW c \in Currencies, update_account(a, c)
    PROVE  Coherent'
  <1>0. /\ account[a] # Gone /\ account' = [account EXCEPT ![a] = c]
        /\ recurrencied' = recurrencied \cup {a} /\ UNCHANGED <<tx, req, raced>>
    BY DEF update_account, LiveAccounts
  <1>1. /\ c # Gone /\ account \in [Accounts -> Currencies \cup {Gone}]
        /\ \A b \in Accounts : account'[b] # Gone <=> account[b] # Gone
        /\ \A b \in Accounts :
              b \in recurrencied' \/ (b \notin recurrencied /\ account'[b] = account[b])
    BY <1>0, LedgerAssumption DEF Coherent, TypeOK
  <1>2. \A t \in LiveTxs : tx[t] \in TxRow
    BY RowsLedger DEF Coherent
  <1>3. References'
    <2> SUFFICES ASSUME NEW t \in LiveTxs PROVE Refers(tx[t], account')
      BY <1>0 DEF References, LiveTxs
    <2> QED
      BY <1>1, <1>2 DEF Coherent, References, Refers, TxRow
  <1>4. ASSUME NEW row \in TxRow, Fits(row, account, recurrencied)
        PROVE  Fits(row, account', recurrencied')
    <2>1. \A b \in {row.account_id, row.account_destination_id} \ {Null} : b \in Accounts
      BY DEF TxRow
    <2> QED
      BY <1>1, <1>4, <2>1, FitsStill
  <1>5. RowsFit'
    <2> SUFFICES ASSUME NEW t \in LiveTxs, t \notin raced
                 PROVE  Fits(tx[t], account', recurrencied')
      BY <1>0 DEF RowsFit, LiveTxs
    <2> QED
      BY <1>2, <1>4 DEF Coherent, RowsFit
  <1>6. OneUpdater'
    BY <1>0 DEF Coherent, OneUpdater
  <1>7. ASSUME NEW r \in Requests PROVE UpdateFits(r)'
    <2> DEFINE t == req[r].id
               w == req[r].write
    <2> SUFFICES ASSUME req[r].op = "update", t \notin raced, tx[t] # Gone,
                        Writable(w, account')
                 PROVE  Fits(Over(tx[t], w), account', recurrencied')
      BY <1>0 DEF UpdateFits
    <2>1. t \in LiveTxs /\ w \in UpdateBody
      BY HandlerKinds DEF Coherent, TypeOK, LiveTxs
    <2>2. Writable(w, account)
      BY <1>1, <2>1 DEF Writable, UpdateBody
    <2>3. Fits(Over(tx[t], w), account, recurrencied) /\ Over(tx[t], w) \in TxRow
      BY <1>2, <2>1, <2>2, OverRow DEF Coherent, UpdateFits
    <2> QED
      BY <1>4, <2>3
  <1>8. ASSUME NEW r \in Requests PROVE AdjustFits(r)'
    <2> SUFFICES ASSUME req[r].op = "adjust", req[r].id \in Accounts, account'[req[r].id] # Gone,
                        req[r].id \notin recurrencied'
                 PROVE  account'[req[r].id] = req[r].currency
      BY <1>0 DEF AdjustFits, LiveAccounts
    <2> QED
      BY <1>0, <1>1 DEF Coherent, AdjustFits, LiveAccounts
  <1> QED
    BY <1>3, <1>5, <1>6, <1>7, <1>8 DEF Coherent

LEMMA DeleteAccountCoherent ==
    ASSUME Coherent, TypeOK', NEW a \in Accounts, delete_account(a)
    PROVE  Coherent'
  <1>0. /\ account' = [account EXCEPT ![a] = Gone]
        /\ tx' = [t \in Txs |-> IF t \in LiveTxs THEN SetNull(tx[t], a) ELSE Gone]
        /\ UNCHANGED <<req, raced, recurrencied>>
    BY DEF delete_account
  <1>1. /\ account \in [Accounts -> Currencies \cup {Gone}] /\ a # Null
        /\ account'[a] = Gone /\ \A b \in Accounts \ {a} : account'[b] = account[b]
    BY <1>0, LedgerAssumption DEF Coherent, TypeOK
  <1>2. \A t \in Txs : tx'[t] # Gone => t \in LiveTxs
    BY <1>0
  <1>3. \A t \in LiveTxs : /\ t \in Txs /\ tx[t] \in TxRow
                           /\ tx'[t] = SetNull(tx[t], a) /\ Refers(tx[t], account)
    BY <1>0, RowsLedger DEF Coherent, LiveTxs, References
  <1>4. References'
    <2> SUFFICES ASSUME NEW t \in LiveTxs PROVE Refers(SetNull(tx[t], a), account')
      BY <1>2, <1>3 DEF References, LiveTxs, Refers
    <2> DEFINE row == tx[t]
               nulled == SetNull(row, a)
    <2>1. /\ nulled.account_id \in {Null, row.account_id} \ {a}
          /\ nulled.account_destination_id \in {Null, row.account_destination_id} \ {a}
      BY <1>1, <1>3, NulledRow
    <2>2. Refers(row, account) /\ row \in TxRow
      BY <1>3
    <2> HIDE DEF row, nulled
    <2>3. Refers(nulled, account')
      BY <1>1, <2>1, <2>2 DEF Refers, TxRow
    <2> QED
      BY <2>3 DEF nulled, row
  <1>5. RowsFit'
    <2> SUFFICES ASSUME NEW t \in LiveTxs, t \notin raced
                 PROVE  Fits(SetNull(tx[t], a), account', recurrencied)
      <3>1. \A t \in Txs : tx'[t] # Gone /\ t \notin raced =>
                Fits(tx'[t], account', recurrencied)
        BY <1>2, <1>3
      <3> QED
        BY <1>0, <3>1 DEF RowsFit, LiveTxs
    <2>1. Fits(tx[t], account, recurrencied)
      BY DEF Coherent, RowsFit
    <2> QED
      BY <1>0, <1>1, <1>3, <2>1, FitsNulled
  <1>6. OneUpdater'
    BY <1>0 DEF Coherent, OneUpdater
  <1>7. ASSUME NEW r \in Requests PROVE UpdateFits(r)'
    <2> DEFINE t == req[r].id
               w == req[r].write
    <2> SUFFICES ASSUME req[r].op = "update", t \notin raced, tx'[t] # Gone,
                        Writable(w, account')
                 PROVE  Fits(Over(tx'[t], w), account', recurrencied)
      BY <1>0 DEF UpdateFits
    <2>1. t \in LiveTxs /\ w \in UpdateBody
      BY <1>2, HandlerKinds DEF Coherent, TypeOK
    <2>2. Writable(w, account) /\ a \notin {w.account_id, w.account_destination_id}
      <3>1. a # Null /\ a # Unset
        BY LedgerAssumption
      <3> QED
        BY <1>1, <2>1, <3>1 DEF Writable, UpdateBody
    <2>3. Fits(Over(tx[t], w), account, recurrencied) /\ Over(tx[t], w) \in TxRow
      BY <1>3, <2>1, <2>2, OverRow DEF Coherent, UpdateFits, LiveTxs
    <2>4. Over(tx'[t], w) = SetNull(Over(tx[t], w), a)
      BY <1>3, <2>1, <2>2, OverNulled
    <2>5. Fits(SetNull(Over(tx[t], w), a), [account EXCEPT ![a] = Gone], recurrencied)
      BY <1>1, <2>3, FitsNulled
    <2> QED
      BY <1>0, <2>4, <2>5
  <1>8. ASSUME NEW r \in Requests PROVE AdjustFits(r)'
    <2> SUFFICES ASSUME req[r].op = "adjust", req[r].id \in Accounts, account'[req[r].id] # Gone,
                        req[r].id \notin recurrencied
                 PROVE  account'[req[r].id] = req[r].currency
      BY <1>0 DEF AdjustFits, LiveAccounts
    <2> QED
      BY <1>0, <1>1 DEF Coherent, AdjustFits, LiveAccounts
  <1> QED
    BY <1>4, <1>5, <1>6, <1>7, <1>8 DEF Coherent

(* Every step of the other handlers leaves the accounts alone: it has to    *)
(* write rows that fit, and to spare those that others have in hand.        *)
LEMMA HandlersCoherent ==
    ASSUME Coherent, TypeOK', UNCHANGED <<account, recurrencied>>,
           \A t \in Txs : Written(t), OneUpdater',
           \A r \in Requests : \/ req'[r] = req[r] /\ Spares(r)
                               \/ UpdateFits(r)' /\ AdjustFits(r)'
    PROVE  Coherent'
  <1>1. References' /\ RowsFit'
    BY WrittenFits
  <1>2. \A r \in Requests : UpdateFits(r)' /\ AdjustFits(r)'
    BY HeldFits
  <1> QED
    BY <1>1, <1>2 DEF Coherent

LEMMA LoadForAdjustCoherent ==
    ASSUME Coherent, TypeOK', NEW r \in Requests, NEW a \in Accounts, NEW n \in Targets,
           LoadForAdjust(r, a, n)
    PROVE  Coherent'
  <1> DEFINE h == [op |-> "adjust", id |-> a, currency |-> account[a],
                   seen |-> Balance(Rows, a), target |-> n]
  <1>1. req' = [req EXCEPT ![r] = h] /\ UNCHANGED <<account, tx, raced, recurrencied>>
    BY DEF LoadForAdjust
  <1>2. h.op = "adjust" /\ h.currency = account[h.id]
    OBVIOUS
  <1> HIDE DEF h
  <1>3. req'[r] = h /\ \A q \in Requests \ {r} : req'[q] = req[q]
    BY <1>1 DEF Coherent, TypeOK
  <1>4. UpdateFits(r)' /\ AdjustFits(r)'
    BY <1>1, <1>2, <1>3 DEF UpdateFits, AdjustFits
  <1>5. OneUpdater'
    BY <1>1, <1>2, <1>3 DEF Coherent, OneUpdater
  <1>6. \A q \in Requests \ {r} : req'[q] = req[q] /\ Spares(q)
    BY <1>1, <1>3 DEF Spares
  <1> QED
    BY <1>1, <1>4, <1>5, <1>6, HandlersCoherent DEF Written

LEMMA CommitAdjustCoherent ==
    ASSUME Coherent, TypeOK', NEW r \in Requests, NEW t \in Txs, CommitAdjust(r, t)
    PROVE  Coherent'
  <1> DEFINE row == Adjustment(req[r])
  <1>1. /\ req[r].op = "adjust" /\ req[r].id \in LiveAccounts /\ FreshTx(t)
        /\ tx' = [tx EXCEPT ![t] = row] /\ req' = [req EXCEPT ![r] = Idle]
        /\ raced' = raced \ {t} /\ UNCHANGED <<account, recurrencied>>
    BY DEF CommitAdjust
  <1>2. /\ row.type # "transfer" /\ row.account_id = req[r].id
        /\ row.account_destination_id = Null /\ row.to_amount = Null
        /\ row.currency = req[r].currency
    BY DEF Adjustment
  <1> HIDE DEF row
  <1>3. Refers(row, account) /\ Fits(row, account, recurrencied)
    BY <1>1, <1>2
    DEF Coherent, AdjustFits, LiveAccounts, Refers, Fits, InCurrency, Plain, Credits
  <1>4. /\ req'[r] = Idle /\ \A q \in Requests \ {r} : req'[q] = req[q]
        /\ tx'[t] = row /\ \A u \in Txs \ {t} : tx'[u] = tx[u]
    BY <1>1 DEF Coherent, TypeOK
  <1>5. \A u \in Txs : Written(u)
    BY <1>1, <1>3, <1>4 DEF Written
  <1>6. \A q \in Requests : req[q].op = "update" => req[q].id \in Txs \ {t}
    BY <1>1, HandlerKinds DEF Coherent, TypeOK, FreshTx, Updating
  <1>7. \A q \in Requests \ {r} : Spares(q)
    BY <1>1, <1>4, <1>6 DEF Spares
  <1>8. OneUpdater'
    BY <1>1, <1>4, <1>6, StillOne
  <1> QED
    BY <1>1, <1>4, <1>5, <1>7, <1>8, IdleFits, HandlersCoherent

LEMMA AdjustRefusedCoherent ==
    ASSUME Coherent, TypeOK', NEW r \in Requests, AdjustRefused(r)
    PROVE  Coherent'
  <1>1. req' = [req EXCEPT ![r] = Idle] /\ UNCHANGED <<account, tx, raced, recurrencied>>
    BY DEF AdjustRefused
  <1>2. req'[r] = Idle /\ \A q \in Requests \ {r} : req'[q] = req[q]
    BY <1>1 DEF Coherent, TypeOK
  <1>3. OneUpdater'
    BY <1>1, <1>2, StillOne
  <1> QED
    BY <1>1, <1>2, <1>3, IdleFits, HandlersCoherent DEF Written, Spares

LEMMA CreateExpenseCoherent ==
    ASSUME Coherent, TypeOK', NEW t \in Txs, NEW row \in CreateBodies, create_expense(t, row)
    PROVE  Coherent'
  <1>1. /\ FreshTx(t) /\ tx' = [tx EXCEPT ![t] = row] /\ raced' = raced \ {t}
        /\ UNCHANGED <<account, req, recurrencied>>
    BY DEF create_expense
  <1>2. Refers(row, account) /\ Fits(row, account, recurrencied)
    BY CreatedFits DEF Coherent, create_expense
  <1>3. tx'[t] = row /\ \A u \in Txs \ {t} : tx'[u] = tx[u]
    BY <1>1 DEF Coherent, TypeOK
  <1>4. \A u \in Txs : Written(u)
    BY <1>1, <1>2, <1>3 DEF Written
  <1>5. \A q \in Requests : req[q].op = "update" => req[q].id \in Txs \ {t}
    BY <1>1, HandlerKinds DEF Coherent, TypeOK, FreshTx, Updating
  <1>6. \A q \in Requests : req'[q] = req[q] /\ Spares(q)
    BY <1>1, <1>3, <1>5 DEF Spares
  <1>7. OneUpdater'
    BY <1>1, <1>5, StillOne
  <1> QED
    BY <1>1, <1>4, <1>6, <1>7, HandlersCoherent

LEMMA CreateInstallmentsCoherent ==
    ASSUME Coherent, TypeOK', NEW parts \in SUBSET Txs, NEW last \in Txs,
           NEW row \in CreateBodies, create_installments(parts, last, row)
    PROVE  Coherent'
  <1> DEFINE n == Cardinality(parts)
             amount == row.amount \div n
             entry(t) == [row EXCEPT !.amount = IF t = last THEN row.amount - (n - 1) * amount
                                                ELSE amount,
                                     !.to_amount = Null, !.installments = TRUE]
  <1>1. /\ \A t \in parts : FreshTx(t)
        /\ tx' = [t \in Txs |-> IF t \in parts THEN entry(t) ELSE tx[t]]
        /\ raced' = raced \ parts /\ UNCHANGED <<account, req, recurrencied>>
    BY DEF create_installments
  <1>2. row \in TxRow
    BY CreatedRow
  <1>3. ASSUME NEW t \in parts
        PROVE  Refers(entry(t), account) /\ Fits(entry(t), account, recurrencied)
    <2>1. /\ entry(t).type = row.type /\ entry(t).currency = row.currency
          /\ entry(t).account_id = row.account_id
          /\ entry(t).account_destination_id = row.account_destination_id
          /\ entry(t).to_amount = Null /\ entry(t).installments
      BY <1>2 DEF TxRow
    <2>2. Creatable(row)
      BY DEF create_installments
    <2> HIDE DEF entry
    <2> QED
      BY <2>1, <2>2, PartFits DEF Coherent
  <1> HIDE DEF entry
  <1>4. \A t \in Txs : Written(t)
    BY <1>1, <1>3 DEF Written
  <1>5. \A q \in Requests : req[q].op = "update" => req[q].id \in Txs \ parts
    BY <1>1, HandlerKinds DEF Coherent, TypeOK, FreshTx, Updating
  <1>6. \A q \in Requests : req'[q] = req[q] /\ Spares(q)
    BY <1>1, <1>5 DEF Spares
  <1>7. OneUpdater'
    BY <1>1, <1>5, StillOne
  <1> QED
    BY <1>1, <1>4, <1>6, <1>7, HandlersCoherent

LEMMA LoadForUpdateCoherent ==
    ASSUME Coherent, TypeOK', NEW r \in Requests, NEW t \in Txs, NEW body \in UpdateBodies,
           LoadForUpdate(r, t, body)
    PROVE  Coherent'
  <1> DEFINE now == Resolved(tx[t], body)
             h == [op |-> "update", id |-> t, write |-> Dirty(tx[t], now)]
  <1>1. /\ ~Active(r) /\ t \in LiveTxs /\ req' = [req EXCEPT ![r] = h]
        /\ SourceValid(now) /\ (now.type = "transfer" => DestinationValid(now))
        /\ raced' = IF \E q \in Requests : Updating(q, t) THEN raced \cup {t} ELSE raced
        /\ UNCHANGED <<account, tx, recurrencied>>
    BY DEF LoadForUpdate
  <1>2. tx[t] \in TxRow /\ body \in UpdateBody
    BY <1>1, RowsLedger, LedgerAssumption DEF Coherent
  <1>3. /\ now \in TxRow /\ now.installments = tx[t].installments
        /\ now.account_id \in Accounts /\ Plain(now)
    BY <1>1, <1>2, ResolvedRow DEF SourceValid, LiveAccounts
  <1> HIDE DEF now
  <1>4. Over(tx[t], Dirty(tx[t], now)) = now
    BY <1>2, <1>3, OverDirty
  <1>5. Fits(now, account, recurrencied)
    BY <1>1, <1>3 DEF SourceValid, DestinationValid, Fits, InCurrency, Credits
  <1>6. h.op = "update" /\ h.id = t /\ h.write = Dirty(tx[t], now)
    OBVIOUS
  <1> HIDE DEF h
  <1>7. req'[r] = h /\ \A q \in Requests \ {r} : req'[q] = req[q]
    BY <1>1 DEF Coherent, TypeOK
  <1>8. UpdateFits(r)' /\ AdjustFits(r)'
    BY <1>1, <1>4, <1>5, <1>6, <1>7 DEF UpdateFits, AdjustFits
  <1>9. raced \subseteq raced'
    BY <1>1
  <1>10. \A q \in Requests \ {r} : req'[q] = req[q] /\ Spares(q)
    BY <1>1, <1>7, <1>9 DEF Spares
  <1>11. OneUpdater'
    <2>1. \A q \in Requests \ {r} : req[q].op = "update" /\ req[q].id = t => t \in raced'
      BY <1>1 DEF Updating
    <2> QED
      BY <1>6, <1>7, <1>9, <2>1 DEF Coherent, OneUpdater
  <1> QED
    BY <1>1, <1>8, <1>9, <1>10, <1>11, HandlersCoherent DEF Written

LEMMA CommitUpdateCoherent ==
    ASSUME Coherent, TypeOK', NEW r \in Requests, CommitUpdate(r)
    PROVE  Coherent'
  <1> DEFINE t == req[r].id
             w == req[r].write
  <1>1. /\ req[r].op = "update" /\ req' = [req EXCEPT ![r] = Idle]
        /\ UNCHANGED <<account, raced, recurrencied>>
    BY DEF CommitUpdate
  <1>2. t \in Txs /\ w \in UpdateBody
    BY <1>1, HandlerKinds DEF Coherent, TypeOK
  <1>3. req'[r] = Idle /\ \A q \in Requests \ {r} : req'[q] = req[q]
    BY <1>1 DEF Coherent, TypeOK
  <1>4. OneUpdater'
    BY <1>1, <1>3, StillOne
  <1>5. CASE UNCHANGED tx
    BY <1>1, <1>3, <1>4, <1>5, IdleFits, HandlersCoherent DEF Written, Spares
  <1>6. CASE /\ t \in LiveTxs
             /\ {w.account_id, w.account_destination_id} \subseteq LiveAccounts \cup {Null, Unset}
             /\ tx' = [tx EXCEPT ![t] = Over(tx[t], w)]
    <2> DEFINE row == Over(tx[t], w)
    <2>1. tx[t] \in TxRow /\ Refers(tx[t], account) /\ Writable(w, account)
      BY <1>6, RowsLedger DEF Coherent, References, Writable, LiveAccounts
    <2>2. /\ row.account_id = IF w.account_id = Unset THEN tx[t].account_id ELSE w.account_id
          /\ row.account_destination_id =
                IF w.account_destination_id = Unset THEN tx[t].account_destination_id
                ELSE w.account_destination_id
      BY <1>2, <2>1, OverRow
    <2>3. t \notin raced => Fits(row, account, recurrencied)
      BY <1>1, <1>6, <2>1 DEF Coherent, UpdateFits, LiveTxs
    <2> HIDE DEF row
    <2>4. Refers(row, account)
      BY <2>1, <2>2 DEF Refers, Writable
    <2>5. tx'[t] = row /\ \A u \in Txs \ {t} : tx'[u] = tx[u]
      BY <1>2, <1>6 DEF Coherent, TypeOK, row
    <2>6. \A u \in Txs : Written(u)
      BY <1>1, <2>3, <2>4, <2>5 DEF Written
    <2>7. ASSUME NEW q \in Requests \ {r} PROVE Spares(q)
      <3> SUFFICES ASSUME req[q].op = "update", req[q].id \notin raced
                   PROVE  tx'[req[q].id] = tx[req[q].id]
        BY <1>1 DEF Spares
      <3>1. req[q].id # t /\ req[q].id \in Txs
        BY <1>1, HandlerKinds DEF Coherent, OneUpdater, TypeOK
      <3> QED
        BY <2>5, <3>1
    <2> QED
      BY <1>1, <1>3, <1>4, <2>6, <2>7, IdleFits, HandlersCoherent
  <1> QED
    BY <1>5, <1>6 DEF CommitUpdate

LEMMA DeleteExpenseCoherent ==
    ASSUME Coherent, TypeOK', NEW t \in Txs, delete_expense(t)
    PROVE  Coherent'
  <1>1. tx' = [tx EXCEPT ![t] = Gone] /\ UNCHANGED <<account, req, raced, recurrencied>>
    BY DEF delete_expense
  <1>2. tx'[t] = Gone /\ \A u \in Txs \ {t} : tx'[u] = tx[u]
    BY <1>1 DEF Coherent, TypeOK
  <1>3. ASSUME NEW q \in Requests PROVE Spares(q)
    <2>1. req[q].op = "update" => req[q].id \in Txs
      BY HandlerKinds DEF Coherent, TypeOK
    <2> QED
      BY <1>1, <1>2, <2>1 DEF Spares
  <1>4. OneUpdater'
    BY <1>1, StillOne
  <1> QED
    BY <1>1, <1>2, <1>3, <1>4, HandlersCoherent DEF Written

LEMMA NextCoherent == Coherent /\ [Next]_vars => Coherent'
  <1> SUFFICES ASSUME Coherent, [Next]_vars PROVE Coherent'
    OBVIOUS
  <1>0. TypeOK'
    BY NextTypeOK DEF Coherent
  <1>1. CASE UNCHANGED vars
    <2>1. UNCHANGED <<account, tx, req, raced, recurrencied>>
      BY <1>1 DEF vars
    <2>2. OneUpdater'
      BY <2>1, StillOne
    <2> QED
      BY <1>0, <2>1, <2>2, HandlersCoherent DEF Written, Spares
  <1> QED
    BY <1>0, <1>1, CreateAccountCoherent, UpdateAccountCoherent, DeleteAccountCoherent,
       LoadForAdjustCoherent, CommitAdjustCoherent, AdjustRefusedCoherent,
       CreateExpenseCoherent, CreateInstallmentsCoherent, LoadForUpdateCoherent,
       CommitUpdateCoherent, DeleteExpenseCoherent DEF Next

LEMMA AlwaysCoherent == Spec => []Coherent
  <1> QED
    BY InitCoherent, NextCoherent, PTL DEF Spec

(* Every transaction is in the currency of its account, through updates in  *)
(* two steps, adjustments and deleted accounts, where no two updates of it  *)
(* overlapped and nobody changed the account's currency                     *)
(* (_validate_account_currency_match, expenses.py).                         *)
THEOREM OneCurrencyPerAccount == Spec => []TransactionInAccountCurrency
  <1>1. Coherent => TransactionInAccountCurrency
    BY DEF Coherent, RowsFit, Fits, InCurrency, TransactionInAccountCurrency
  <1> QED
    BY <1>1, AlwaysCoherent, PTL

(* What is no transfer has no destination and no to_amount, also where an   *)
(* update made it one or changed it back (expenses.py 559-591).             *)
THEOREM DestinationsOfTransfers == Spec => []OnlyTransfersHaveDestination
  <1>1. Coherent => OnlyTransfersHaveDestination
    BY DEF Coherent, RowsFit, Fits, Plain, OnlyTransfersHaveDestination
  <1> QED
    BY <1>1, AlwaysCoherent, PTL

(* A transfer in one amount credits an account of its own currency,         *)
(* instalments apart (expenses.py 457-486).                                 *)
THEOREM TransfersKeepCurrency == Spec => []SameCurrencyUnlessToAmount
  <1>1. Coherent => SameCurrencyUnlessToAmount
    BY DEF Coherent, RowsFit, Fits, Credits, SameCurrencyUnlessToAmount, CreditsItsCurrency
  <1> QED
    BY <1>1, AlwaysCoherent, PTL

-------------------------------------------------------------------------------
(* What a step does to the balances *)

LEMMA AdjustedBalance ==
    ASSUME TypeOK, TypeOK', NEW r \in Requests, NEW t \in Txs, CommitAdjust(r, t),
           Balance(Rows, req[r].id) = req[r].seen
    PROVE  Balance(Rows', req[r].id) = req[r].target
  <1> DEFINE a == req[r].id
             row == Adjustment(req[r])
  <1>1. req[r] \in Handler /\ req[r].op = "adjust" /\ tx[t] = Gone /\ tx' = [tx EXCEPT ![t] = row]
    BY DEF TypeOK, CommitAdjust, FreshTx
  <1>2. a \in Accounts /\ req[r].seen \in Int /\ req[r].target \in Int /\ a # Null
    BY <1>1, HandlerKinds, LedgerAssumption
  <1>3. row \in TxRow /\ row # Gone
    BY <1>1, AdjustmentRow, RowAssumption
  <1>4. IsLedger(Rows) /\ IsLedger(Rows')
    <2>1. IsLedger(Rows)
      BY RowsLedger
    <2>2. IsLedger(Rows)'
      BY RowsLedger, PTL
    <2>3. IsLedger(Rows)' <=> IsLedger(Rows')
      BY DEF IsLedger
    <2> QED
      BY <2>1, <2>2, <2>3
  <1>5. /\ DOMAIN Rows = LiveTxs /\ DOMAIN Rows' = LiveTxs \cup {t}
        /\ t \notin LiveTxs /\ \A u \in LiveTxs : Rows'[u] = Rows[u]
        /\ Rows'[t] = row
    <2>1. LiveTxs' = LiveTxs \cup {t} /\ t \notin LiveTxs /\ tx'[t] = row
          /\ \A u \in LiveTxs : tx'[u] = tx[u]
      BY <1>1, <1>3 DEF LiveTxs, TypeOK
    <2> QED
      BY <2>1 DEF Rows
  <1>6. Balance(Rows', a) = Delta(Rows', a, t) + Balance(Rows, a)
    BY <1>4, <1>5, BalanceAdd
  <1>7. Delta(Rows', a, t) = req[r].target - req[r].seen
    <2>1. /\ row.account_id = a /\ row.account_destination_id = Null
          /\ row.type = IF req[r].target > req[r].seen THEN "income" ELSE "expense"
          /\ row.amount = AbsOf(req[r].target - req[r].seen)
      BY DEF Adjustment
    <2>2. Delta(Rows', a, t) = SourceDelta(row)
      <3>1. SourceDelta(row) \in Int
        BY <1>3 DEF SourceDelta, TxRow
      <3> HIDE DEF row
      <3> QED
        BY <1>2, <1>5, <2>1, <3>1 DEF Delta
    <2> HIDE DEF row
    <2>3. SourceDelta(row) = req[r].target - req[r].seen
      BY <1>2, <2>1 DEF SourceDelta, AbsOf
    <2> QED
      BY <2>2, <2>3
  <1> QED
    BY <1>2, <1>6, <1>7

(* An adjustment that nothing has overtaken leaves the balance that was     *)
(* asked for, whatever rows and however many there are (accounts.py         *)
(* 401-426): the row it adds is exactly the difference.                     *)
THEOREM AdjustmentsReachTarget == Spec => AdjustmentReachesTarget
  <1>1. TypeOK /\ TypeOK' =>
            \A r \in Requests, t \in Txs :
                CommitAdjust(r, t) /\ Balance(Rows, req[r].id) = req[r].seen
                    => Balance(Rows', req[r].id) = req[r].target
    BY AdjustedBalance
  <1> QED
    BY <1>1, TypeCorrect, PTL DEF AdjustmentReachesTarget

LEMMA KeptBalance ==
    ASSUME TypeOK, TypeOK', NEW a \in Accounts, delete_account(a), NEW b \in LiveAccounts \ {a}
    PROVE  Balance(Rows', b) = Balance(Rows, b)
  <1>1. tx' = [t \in Txs |-> IF t \in LiveTxs THEN SetNull(tx[t], a) ELSE Gone]
    BY DEF delete_account
  <1>2. b # Null /\ a # b
    BY LedgerAssumption DEF LiveAccounts
  <1>3. \A t \in LiveTxs : /\ t \in Txs /\ tx[t] \in TxRow /\ Rows[t] = tx[t]
                           /\ SetNull(tx[t], a) \in TxRow /\ SetNull(tx[t], a) # Gone
    BY RowsLedger, NulledRow, RowAssumption DEF LiveTxs
  <1>4. LiveTxs' = LiveTxs
    BY <1>1, <1>3 DEF LiveTxs
  <1>5. /\ DOMAIN Rows = LiveTxs /\ DOMAIN Rows' = LiveTxs
        /\ \A t \in LiveTxs : Rows'[t] = SetNull(tx[t], a)
    BY <1>1, <1>3, <1>4 DEF Rows
  <1>6. IsLedger(Rows) /\ IsLedger(Rows')
    <2>1. IsLedger(Rows)
      BY RowsLedger
    <2>2. IsLedger(Rows)'
      BY RowsLedger, PTL
    <2>3. IsLedger(Rows)' <=> IsLedger(Rows')
      BY DEF IsLedger
    <2> QED
      BY <2>1, <2>2, <2>3
  <1>7. ASSUME NEW t \in LiveTxs PROVE Delta(Rows', b, t) = Delta(Rows, b, t)
    <2> DEFINE row == tx[t]
               nulled == SetNull(row, a)
    <2>1. /\ nulled.type = row.type /\ nulled.amount = row.amount
          /\ nulled.to_amount = row.to_amount
          /\ nulled.account_id = b <=> row.account_id = b
          /\ nulled.account_destination_id = b <=> row.account_destination_id = b
      BY <1>2, <1>3, NulledRow
    <2>2. Rows[t] = row /\ Rows'[t] = nulled
      BY <1>3, <1>5
    <2> HIDE DEF row, nulled
    <2> QED
      BY <2>1, <2>2 DEF Delta, SourceDelta, DestinationDelta, Credited
  <1> QED
    BY <1>5, <1>6, <1>7, BalanceSame

(* Deleting an account leaves every other balance as it was, whatever was   *)
(* transferred between them: the foreign keys SET NULL and the rows stay    *)
(* (models.py; delete_account, accounts.py).                                *)
THEOREM DeletionKeepsBalances == Spec => DeletionKeepsOtherBalances
  <1>1. TypeOK /\ TypeOK' =>
            \A a \in Accounts : delete_account(a) =>
                \A b \in LiveAccounts \ {a} : Balance(Rows', b) = Balance(Rows, b)
    BY KeptBalance
  <1> QED
    BY <1>1, TypeCorrect, PTL DEF DeletionKeepsOtherBalances
===============================================================================
