--------------------------- MODULE InventoryProofs ---------------------------
(***************************************************************************)
(* Proofs about Inventory, for any parts, technicians, orders, machines and *)
(* quantities, and any number of handlers that wait for the store.         *)
(*                                                                         *)
(* Each sum of the properties is the total of a function of quantities     *)
(* (Total), and each mutator raises or lowers such a function at one       *)
(* argument.  TotalRaised says what that does to the total; one lemma per  *)
(* sum (the ledger, the technicians' stock, the returns under way) applies *)
(* it, and the steps of Next are arithmetic over them.                     *)
(***************************************************************************)
EXTENDS Inventory, FiniteSetTheorems, TLAPS

-----------------------------------------------------------------------------
(* Totals.                                                                 *)

\* n pieces of x beyond the first m, and their numbering.
Pieces(x, m, n) == {<<x, k>> : k \in (m + 1)..(m + n)}

Numbering(x, m, n) == [k \in (m + 1)..(m + n) |-> <<x, k>>]

\* g counts as f does, and n more pieces of x.
Raises(S, T, f, g, x, n) ==
  /\ S \subseteq T /\ x \in T /\ n \in Nat
  /\ f \in [S -> Nat] /\ g \in [T -> Nat]
  /\ g[x] = (IF x \in S THEN f[x] ELSE 0) + n
  /\ \A y \in S \ {x} : g[y] = f[y]
  /\ \A y \in T \ S : y # x => g[y] = 0

\* Pieces that are not counted by f are those of x beyond what f had of it.
LEMMA UnitsRaised ==
  ASSUME NEW S, NEW T, NEW f, NEW g, NEW x, NEW n, Raises(S, T, f, g, x, n),
         NEW m \in Nat, m = IF x \in S THEN f[x] ELSE 0
  PROVE  /\ Units(g) = Units(f) \cup Pieces(x, m, n)
         /\ Units(f) \cap Pieces(x, m, n) = {}
<1> USE DEF Raises
<1>1. Units(f) \subseteq Units(g)
  <2> SUFFICES ASSUME NEW y \in S, NEW k \in 1..f[y]
               PROVE  <<y, k>> \in Units(g)
    BY DEF Units
  <2>1. y \in T /\ k \in 1..g[y]
    BY DEF Units
  <2> QED
    BY <2>1 DEF Units
<1>2. Pieces(x, m, n) \subseteq Units(g)
  <2> SUFFICES ASSUME NEW k \in (m + 1)..(m + n)
               PROVE  <<x, k>> \in Units(g)
    BY DEF Pieces
  <2>1. k \in 1..g[x]
    OBVIOUS
  <2> QED
    BY <2>1 DEF Units
<1>3. Units(g) \subseteq Units(f) \cup Pieces(x, m, n)
  <2> SUFFICES ASSUME NEW y \in T, NEW k \in 1..g[y]
               PROVE  <<y, k>> \in Units(f) \cup Pieces(x, m, n)
    BY DEF Units
  <2>1. CASE y = x
    <3>1. CASE k > m
      BY <2>1, <3>1 DEF Pieces
    <3>2. CASE k <= m
      <4>1. x \in S /\ k \in 1..f[x]
        BY <2>1, <3>2
      <4> QED
        BY <2>1, <4>1 DEF Units
    <3> QED
      BY <3>1, <3>2
  <2>2. CASE y # x
    <3>1. y \in S /\ k \in 1..f[y]
      BY <2>2
    <3> QED
      BY <3>1 DEF Units
  <2> QED
    BY <2>1, <2>2
<1>4. ASSUME NEW u \in Units(f), u \in Pieces(x, m, n)
      PROVE  FALSE
  <2>1. PICK y \in S : \E k \in 1..f[y] : u = <<y, k>>
    BY <1>4 DEF Units
  <2>2. PICK k \in 1..f[y] : u = <<y, k>>
    BY <2>1
  <2>3. y = x /\ k \in (m + 1)..(m + n)
    BY <1>4, <2>2 DEF Pieces
  <2> QED
    BY <2>3
<1> QED
  BY <1>1, <1>2, <1>3, <1>4

\* As many pieces as quantity.
LEMMA PiecesOfOne ==
  ASSUME NEW x, NEW m \in Nat, NEW n \in Nat
  PROVE  /\ IsFiniteSet(Pieces(x, m, n))
         /\ Cardinality(Pieces(x, m, n)) = n
<1>1. /\ IsFiniteSet((m + 1)..(m + n))
      /\ Cardinality((m + 1)..(m + n)) = n
  <2>1. m + 1 \in Int /\ m + n \in Int
    OBVIOUS
  <2>2. /\ IsFiniteSet((m + 1)..(m + n))
        /\ Cardinality((m + 1)..(m + n)) = IF m + 1 > m + n THEN 0 ELSE (m + n) - (m + 1) + 1
    BY <2>1, FS_Interval
  <2> QED
    BY <2>2
<1>2. Numbering(x, m, n) \in [(m + 1)..(m + n) -> Pieces(x, m, n)]
  BY DEF Numbering, Pieces
<1>3. Numbering(x, m, n) \in Injection((m + 1)..(m + n), Pieces(x, m, n))
  <2>1. ASSUME NEW j \in (m + 1)..(m + n), NEW k \in (m + 1)..(m + n),
               Numbering(x, m, n)[j] = Numbering(x, m, n)[k]
        PROVE  j = k
    BY <2>1 DEF Numbering
  <2> QED
    BY <1>2, <2>1 DEF Injection, IsInjective
<1>4. Numbering(x, m, n) \in Surjection((m + 1)..(m + n), Pieces(x, m, n))
  <2>1. ASSUME NEW u \in Pieces(x, m, n)
        PROVE  \E k \in (m + 1)..(m + n) : Numbering(x, m, n)[k] = u
    BY DEF Numbering, Pieces
  <2> QED
    BY <1>2, <2>1 DEF Surjection
<1>5. ExistsBijection((m + 1)..(m + n), Pieces(x, m, n))
  BY <1>3, <1>4 DEF ExistsBijection, Bijection
<1> QED
  BY <1>1, <1>5, FS_Bijection

\* The total of a function that counts n more of x, and nothing else that f
\* did not count, is n higher.
LEMMA TotalRaised ==
  ASSUME NEW S, NEW T, NEW f, NEW g, NEW x, NEW n, Raises(S, T, f, g, x, n),
         IsFiniteSet(Units(f))
  PROVE  /\ IsFiniteSet(Units(g))
         /\ Total(f) \in Nat
         /\ Total(g) = Total(f) + n
<1> DEFINE m == IF x \in S THEN f[x] ELSE 0
<1>1. m \in Nat /\ n \in Nat
  BY DEF Raises
<1> HIDE DEF m
<1>2. Units(g) = Units(f) \cup Pieces(x, m, n) /\ Units(f) \cap Pieces(x, m, n) = {}
  BY <1>1, UnitsRaised DEF m
<1>3. IsFiniteSet(Pieces(x, m, n)) /\ Cardinality(Pieces(x, m, n)) = n
  BY <1>1, PiecesOfOne
<1>4. /\ IsFiniteSet(Units(f) \cup Pieces(x, m, n))
      /\ Cardinality(Units(f) \cup Pieces(x, m, n))
           = Cardinality(Units(f)) + Cardinality(Pieces(x, m, n)) - Cardinality(Units(f) \cap Pieces(x, m, n))
  BY <1>3, FS_Union
<1>5. Cardinality({}) = 0 /\ Cardinality(Units(f)) \in Nat
  BY FS_EmptySet, FS_CardinalityType
<1>6. Cardinality(Units(g)) = Cardinality(Units(f)) + n - 0
  BY <1>2, <1>3, <1>4, <1>5, Zenon
<1>7. IsFiniteSet(Units(g))
  BY <1>2, <1>4
<1> QED
  BY <1>1, <1>5, <1>6, <1>7 DEF Total

\* The total of a function that counts n less of x is n lower.
LEMMA TotalLowered ==
  ASSUME NEW S, NEW x \in S, NEW n \in Nat,
         NEW f \in [S -> Nat], NEW g \in [S -> Nat],
         g[x] + n = f[x],
         \A y \in S \ {x} : g[y] = f[y],
         IsFiniteSet(Units(f))
  PROVE  /\ IsFiniteSet(Units(g))
         /\ Total(g) \in Nat
         /\ Total(g) + n = Total(f)
<1>1. Raises(S, S, g, f, x, n)
  BY DEF Raises
<1>2. Units(g) \subseteq Units(f)
  <2> SUFFICES ASSUME NEW y \in S, NEW k \in 1..g[y]
               PROVE  <<y, k>> \in Units(f)
    BY DEF Units
  <2>1. k \in 1..f[y]
    BY <1>1 DEF Raises
  <2> QED
    BY <2>1 DEF Units
<1>3. IsFiniteSet(Units(g))
  BY <1>2, FS_Subset
<1>4. /\ Total(g) \in Nat
      /\ Total(f) = Total(g) + n
  BY <1>1, <1>3, TotalRaised
<1> QED
  BY <1>3, <1>4

\* Where nothing is counted the total is 0.
LEMMA TotalOfNone ==
  ASSUME NEW f, \A x \in DOMAIN f : f[x] = 0
  PROVE  IsFiniteSet(Units(f)) /\ Total(f) = 0
<1>1. Units(f) = {}
  BY DEF Units
<1> QED
  BY <1>1, FS_EmptySet DEF Total

-----------------------------------------------------------------------------
(* The invariant.                                                          *)

\* Every sum is one of finitely many pieces.
FiniteSums ==
  \A p \in Part :
    /\ IsFiniteSet(Units(StockOf(p)))
    /\ \A techs \in SUBSET Tech :
         /\ IsFiniteSet(Units(Awaited(p, techs)))
         /\ \A type \in TransactionType : IsFiniteSet(Units(Entries(type, p, techs)))

\* What a technician gave back is confirmed or still waits for the warehouse.
ReturnsAreAccounted ==
  \A p \in Part, t \in Tech :
    Pending(p, {t}) + Moved("RETURN_CONFIRMED", p, {t})
      = Moved("RETURN_REQUESTED", p, {t})

Inv ==
  /\ TypeOK
  /\ FiniteSums
  /\ StockIsConserved
  /\ LedgerExplainsStock
  /\ ReturnsAreAccounted

-----------------------------------------------------------------------------
(* Types.                                                                  *)

LEMMA TypeOfTransaction ==
  ASSUME TypeOK, NEW type \in TransactionType, NEW c \in Context, NEW p \in Part,
         NEW n \in Nat, NEW t \in Tech, Transaction(type, c, p, n, t)
  PROVE  transactions' \in [Entry -> Nat]
<1>1. [type |-> type, context |-> c, part |-> p, tech |-> t] \in Entry
  BY DEF Entry
<1> QED
  BY <1>1 DEF TypeOK, Transaction

LEMMA TypeOfGiveTo ==
  ASSUME TypeOK, NEW p \in Part, NEW n \in Nat, NEW t \in Tech, GiveTo(t, p, n)
  PROVE  technicianStock' \in [Tech -> [Part -> Nat]]
BY DEF TypeOK, GiveTo

LEMMA TypeOfTakeFrom ==
  ASSUME TypeOK, NEW p \in Part, NEW n \in Nat, NEW t \in Tech, TakeFrom(t, p, n)
  PROVE  technicianStock' \in [Tech -> [Part -> Nat]]
<1>1. technicianStock[t] \in [Part -> Nat] /\ technicianStock[t][p] \in Nat
  BY DEF TypeOK
<1>2. technicianStock[t][p] - n \in Nat
  BY <1>1 DEF TakeFrom
<1> QED
  BY <1>1, <1>2 DEF TypeOK, TakeFrom

\* The call a handler waits with.
LEMMA TypeOfCall ==
  ASSUME TypeOK, NEW i \in Slot, calls[i].op \in {"USE", "RETURN"}
  PROVE  /\ calls[i] \in Call
         /\ calls[i].context \in Context
         /\ calls[i].part \in Part
         /\ calls[i].quantity \in 1..MaxQty
         /\ calls[i].quantity \in Nat
         /\ calls[i].tech \in Tech
<1>1. calls[i] \in Call \/ calls[i] = NoCall
  BY DEF TypeOK
<1>2. calls[i] # NoCall
  BY DEF NoCall
<1> QED
  BY <1>1, <1>2, InventoryAssumption DEF Call

LEMMA TypeOfFinish ==
  ASSUME TypeOK, NEW i \in Slot, FinishCall(i)
  PROVE  calls' \in [Slot -> Call \cup {NoCall}]
BY DEF TypeOK, FinishCall

\* A return request of the document.
LEMMA TypeOfRequest ==
  ASSUME TypeOK, NEW i \in DOMAIN returnRequests
  PROVE  /\ returnRequests[i] \in ReturnRequest
         /\ returnRequests[i].context \in Context
         /\ returnRequests[i].part \in Part
         /\ returnRequests[i].quantity \in 1..MaxQty
         /\ returnRequests[i].quantity \in Nat
         /\ returnRequests[i].tech \in Tech
<1>1. returnRequests[i] \in ReturnRequest
  BY DEF TypeOK
<1> QED
  BY <1>1, InventoryAssumption DEF ReturnRequest

\* The new return request.
LEMMA TypeOfNewRequest ==
  ASSUME NEW c \in Context, NEW p \in Part, NEW n \in 1..MaxQty, NEW t \in Tech
  PROVE  [status |-> "PENDING_WAREHOUSE_CONFIRMATION", context |-> c, part |-> p,
          quantity |-> n, tech |-> t] \in ReturnRequest
BY DEF ReturnRequest

LEMMA TypeCorrectInit == Init => TypeOK
<1> SUFFICES ASSUME Init
             PROVE  TypeOK
  OBVIOUS
<1> QED
  BY InventoryAssumption DEF Init, TypeOK

\* Each step keeps the document in its shape and every stock at 0 or more.
LEMMA TypeCorrectStep == TypeOK /\ [Next]_vars => TypeOK'
<1> SUFFICES ASSUME TypeOK, [Next]_vars
             PROVE  TypeOK'
  OBVIOUS
<1>1. ASSUME NEW p \in Part, NEW n \in 1..MaxQty, NEW t \in Tech, NEW r \in Rma,
             Apply([rma |-> r, sn |-> orderSn[r]], p, n, t)
      PROVE  TypeOK'
  <2>1. [rma |-> r, sn |-> orderSn[r]] \in Context /\ n \in Nat
    BY InventoryAssumption DEF Context, TypeOK
  <2>2. totalStock' \in [Part -> Nat]
    <3>1. totalStock[p] \in Nat /\ totalStock[p] - n \in Nat
      BY <1>1, <2>1 DEF Apply, TypeOK
    <3> QED
      BY <1>1, <3>1 DEF Apply, TypeOK
  <2>3. technicianStock' \in [Tech -> [Part -> Nat]]
    BY <1>1, <2>1, TypeOfGiveTo DEF Apply
  <2>4. transactions' \in [Entry -> Nat]
    BY <1>1, <2>1, TypeOfTransaction DEF Apply, TransactionType
  <2> QED
    BY <1>1, <2>2, <2>3, <2>4 DEF Apply, TypeOK
<1>2. ASSUME NEW p \in Part, NEW n \in 1..MaxQty, NEW t \in Tech, NEW r \in Rma,
             NEW i \in Slot, NEW op \in {"USE", "RETURN"},
             InventoryContext(i, op, r, p, n, t)
      PROVE  TypeOK'
  <2>1. [rma |-> r, sn |-> orderSn[r]] \in Context
    BY DEF Context, TypeOK
  <2>2. [op |-> op, context |-> [rma |-> r, sn |-> orderSn[r]], part |-> p,
         quantity |-> n, tech |-> t] \in Call
    BY <2>1 DEF Call
  <2> QED
    BY <1>2, <2>2 DEF InventoryContext, TypeOK
<1>3. ASSUME NEW i \in Slot, Use(i)
      PROVE  TypeOK'
  <2>1. calls[i].op \in {"USE", "RETURN"}
    BY <1>3 DEF Use
  <2>2. technicianStock' \in [Tech -> [Part -> Nat]]
    BY <1>3, <2>1, TypeOfCall, TypeOfTakeFrom DEF Use
  <2>3. transactions' \in [Entry -> Nat]
    BY <1>3, <2>1, TypeOfCall, TypeOfTransaction DEF Use, TransactionType
  <2>4. calls' \in [Slot -> Call \cup {NoCall}]
    BY <1>3, TypeOfFinish DEF Use
  <2> QED
    BY <1>3, <2>2, <2>3, <2>4 DEF Use, TypeOK
<1>4. ASSUME NEW i \in Slot, RequestReturn(i)
      PROVE  TypeOK'
  <2>1. calls[i].op \in {"USE", "RETURN"}
    BY <1>4 DEF RequestReturn
  <2>2. technicianStock' \in [Tech -> [Part -> Nat]]
    BY <1>4, <2>1, TypeOfCall, TypeOfTakeFrom DEF RequestReturn
  <2>3. transactions' \in [Entry -> Nat]
    BY <1>4, <2>1, TypeOfCall, TypeOfTransaction DEF RequestReturn, TransactionType
  <2>4. calls' \in [Slot -> Call \cup {NoCall}]
    BY <1>4, TypeOfFinish DEF RequestReturn
  <2>5. returnRequests' \in Seq(ReturnRequest)
    BY <1>4, <2>1, TypeOfCall, TypeOfNewRequest DEF RequestReturn, TypeOK
  <2> QED
    BY <1>4, <2>2, <2>3, <2>4, <2>5 DEF RequestReturn, TypeOK
<1>5. ASSUME NEW i \in Slot, CallFails(i)
      PROVE  TypeOK'
  BY <1>5, TypeOfFinish DEF CallFails, TypeOK
<1>6. ASSUME NEW i \in DOMAIN returnRequests, ConfirmReturn(i)
      PROVE  TypeOK'
  <2>1. totalStock' \in [Part -> Nat]
    BY <1>6, TypeOfRequest DEF ConfirmReturn, TypeOK
  <2>2. transactions' \in [Entry -> Nat]
    BY <1>6, TypeOfRequest, TypeOfTransaction DEF ConfirmReturn, TransactionType
  <2>3. [returnRequests[i] EXCEPT !.status = "RETURN_CONFIRMED"] \in ReturnRequest
    BY TypeOfRequest DEF ReturnRequest
  <2>4. returnRequests' \in Seq(ReturnRequest)
    BY <1>6, <2>3 DEF ConfirmReturn, TypeOK
  <2> QED
    BY <1>6, <2>1, <2>2, <2>4 DEF ConfirmReturn, TypeOK
<1>7. ASSUME NEW r \in Rma, NEW s \in Sn, PrepareAgain(r, s)
      PROVE  TypeOK'
  BY <1>7 DEF PrepareAgain, TypeOK
<1>8. CASE UNCHANGED vars
  BY <1>8 DEF vars, TypeOK
<1> QED
  BY <1>1, <1>2, <1>3, <1>4, <1>5, <1>6, <1>7, <1>8 DEF Next

\* Inventory.TypeOK: the document keeps its shape, and no stock is negative,
\* however the handlers of two technicians, or two clicks of one, interleave.
THEOREM TypeCorrect == Spec => []TypeOK
<1>1. Init => TypeOK
  BY TypeCorrectInit
<1>2. TypeOK /\ [Next]_vars => TypeOK'
  BY TypeCorrectStep
<1> QED
  BY <1>1, <1>2, PTL DEF Spec

-----------------------------------------------------------------------------
(* What an operation does to each sum.                                     *)

\* n where the operation is about what the sum counts.
Where(counted, n) == IF counted THEN n ELSE 0

LEMMA EntriesType ==
  ASSUME TypeOK, TypeOK', NEW type \in TransactionType, NEW p \in Part,
         NEW techs \in SUBSET Tech
  PROVE  /\ Entries(type, p, techs) \in [Context \X techs -> Nat]
         /\ Entries(type, p, techs)' \in [Context \X techs -> Nat]
         /\ \A c \in Context, t \in techs :
              /\ Entries(type, p, techs)[<<c, t>>]
                   = transactions[[type |-> type, context |-> c, part |-> p, tech |-> t]]
              /\ Entries(type, p, techs)'[<<c, t>>]
                   = transactions'[[type |-> type, context |-> c, part |-> p, tech |-> t]]
<1>1. ASSUME NEW m \in Context \X techs
      PROVE  [type |-> type, context |-> m[1], part |-> p, tech |-> m[2]] \in Entry
  BY DEF Entry
<1>2. Entries(type, p, techs) \in [Context \X techs -> Nat]
  BY <1>1 DEF Entries, TypeOK
<1>3. Entries(type, p, techs)' \in [Context \X techs -> Nat]
  BY <1>1 DEF Entries, TypeOK
<1>4. ASSUME NEW c \in Context, NEW t \in techs
      PROVE  /\ Entries(type, p, techs)[<<c, t>>]
                  = transactions[[type |-> type, context |-> c, part |-> p, tech |-> t]]
             /\ Entries(type, p, techs)'[<<c, t>>]
                  = transactions'[[type |-> type, context |-> c, part |-> p, tech |-> t]]
  BY DEF Entries
<1> QED
  BY <1>2, <1>3, <1>4

\* The entry adds its quantity to the sums that count it, and to no other.
LEMMA LedgerRaised ==
  ASSUME TypeOK, TypeOK', FiniteSums,
         NEW type \in TransactionType, NEW c \in Context, NEW p \in Part,
         NEW n \in Nat, NEW t \in Tech, Transaction(type, c, p, n, t),
         NEW other \in TransactionType, NEW q \in Part, NEW techs \in SUBSET Tech
  PROVE  /\ IsFiniteSet(Units(Entries(other, q, techs)))'
         /\ Moved(other, q, techs) \in Nat
         /\ Moved(other, q, techs)'
              = Moved(other, q, techs) + Where(other = type /\ q = p /\ t \in techs, n)
<1> DEFINE f == Entries(other, q, techs)
           g == Entries(other, q, techs)'
<1>1. /\ f \in [Context \X techs -> Nat]
      /\ g \in [Context \X techs -> Nat]
      /\ \A d \in Context, u \in techs :
           /\ f[<<d, u>>]
                = transactions[[type |-> other, context |-> d, part |-> q, tech |-> u]]
           /\ g[<<d, u>>]
                = transactions'[[type |-> other, context |-> d, part |-> q, tech |-> u]]
  BY EntriesType
<1>2. IsFiniteSet(Units(f))
  BY DEF FiniteSums
<1>3. transactions \in [Entry -> Nat]
  BY DEF TypeOK
<1>4. ASSUME NEW d \in Context, NEW u \in techs
      PROVE  [type |-> other, context |-> d, part |-> q, tech |-> u] \in Entry
  BY DEF Entry
<1>5. CASE other = type /\ q = p /\ t \in techs
  <2>1. g[<<c, t>>] = f[<<c, t>>] + n
    BY <1>1, <1>3, <1>4, <1>5 DEF Transaction
  <2>2. ASSUME NEW m \in Context \X techs, m # <<c, t>>
        PROVE  g[m] = f[m]
    <3>1. PICK d \in Context, u \in techs : m = <<d, u>>
      OBVIOUS
    <3>2. [type |-> other, context |-> d, part |-> q, tech |-> u]
            # [type |-> type, context |-> c, part |-> p, tech |-> t]
      BY <2>2, <3>1
    <3> QED
      BY <1>1, <1>3, <1>4, <3>1, <3>2 DEF Transaction
  <2>3. <<c, t>> \in Context \X techs
    BY <1>5
  <2> HIDE DEF f, g
  <2>4. /\ IsFiniteSet(Units(g))
        /\ Total(f) \in Nat
        /\ Total(g) = Total(f) + n
    <3>1. Raises(Context \X techs, Context \X techs, f, g, <<c, t>>, n)
      BY <1>1, <2>1, <2>2, <2>3 DEF Raises
    <3> QED
      BY <1>2, <3>1, TotalRaised
  <2> QED
    BY <1>5, <2>4 DEF f, g, Moved, Where
<1>6. CASE ~ (other = type /\ q = p /\ t \in techs)
  <2>1. ASSUME NEW m \in Context \X techs
        PROVE  g[m] = f[m]
    <3>1. PICK d \in Context, u \in techs : m = <<d, u>>
      OBVIOUS
    <3>2. [type |-> other, context |-> d, part |-> q, tech |-> u]
            # [type |-> type, context |-> c, part |-> p, tech |-> t]
      BY <1>6
    <3> QED
      BY <1>1, <1>3, <1>4, <3>1, <3>2 DEF Transaction
  <2>2. g = f
    BY <1>1, <2>1
  <2>3. Cardinality(Units(f)) \in Nat
    BY <1>2, FS_CardinalityType
  <2> QED
    BY <1>2, <1>6, <2>2, <2>3 DEF Moved, Total, Where
<1> QED
  BY <1>5, <1>6

LEMMA StockOfType ==
  ASSUME TypeOK, TypeOK', NEW p \in Part
  PROVE  /\ StockOf(p) \in [Tech -> Nat]
         /\ StockOf(p)' \in [Tech -> Nat]
         /\ \A t \in Tech : /\ StockOf(p)[t] = technicianStock[t][p]
                            /\ StockOf(p)'[t] = technicianStock'[t][p]
BY DEF TypeOK, StockOf

\* What is given to a technician is held, of its part only.
LEMMA HeldRaised ==
  ASSUME TypeOK, TypeOK', FiniteSums, NEW p \in Part, NEW n \in Nat, NEW t \in Tech,
         GiveTo(t, p, n), NEW q \in Part
  PROVE  /\ IsFiniteSet(Units(StockOf(q)))'
         /\ Held(q) \in Nat
         /\ Held(q)' = Held(q) + Where(q = p, n)
         /\ \A u \in Tech :
              technicianStock'[u][q] = technicianStock[u][q] + Where(u = t /\ q = p, n)
<1> DEFINE f == StockOf(q)
           g == StockOf(q)'
<1>1. /\ f \in [Tech -> Nat] /\ g \in [Tech -> Nat]
      /\ \A u \in Tech : f[u] = technicianStock[u][q] /\ g[u] = technicianStock'[u][q]
  BY StockOfType
<1>2. IsFiniteSet(Units(f))
  BY DEF FiniteSums
<1>3. \A u \in Tech :
        technicianStock'[u][q] = technicianStock[u][q] + Where(u = t /\ q = p, n)
  BY DEF GiveTo, TypeOK, Where
<1>4. CASE q = p
  <2>1. g[t] = f[t] + n /\ \A u \in Tech \ {t} : g[u] = f[u]
    BY <1>1, <1>3, <1>4 DEF Where
  <2> HIDE DEF f, g
  <2>2. /\ IsFiniteSet(Units(g))
        /\ Total(f) \in Nat
        /\ Total(g) = Total(f) + n
    <3>1. Raises(Tech, Tech, f, g, t, n)
      BY <1>1, <2>1 DEF Raises
    <3> QED
      BY <1>2, <3>1, TotalRaised
  <2> QED
    BY <1>3, <1>4, <2>2 DEF f, g, Held, Where
<1>5. CASE q # p
  <2>1. g = f
    BY <1>1, <1>3, <1>5 DEF Where
  <2>2. Cardinality(Units(f)) \in Nat
    BY <1>2, FS_CardinalityType
  <2> QED
    BY <1>2, <1>3, <1>5, <2>1, <2>2 DEF Held, Total, Where
<1> QED
  BY <1>4, <1>5

\* What is taken from a technician is held no more.
LEMMA HeldLowered ==
  ASSUME TypeOK, TypeOK', FiniteSums, NEW p \in Part, NEW n \in Nat, NEW t \in Tech,
         TakeFrom(t, p, n), NEW q \in Part
  PROVE  /\ IsFiniteSet(Units(StockOf(q)))'
         /\ Held(q)' \in Nat
         /\ Held(q)' + Where(q = p, n) = Held(q)
         /\ \A u \in Tech :
              technicianStock'[u][q] + Where(u = t /\ q = p, n) = technicianStock[u][q]
<1> DEFINE f == StockOf(q)
           g == StockOf(q)'
<1>1. /\ f \in [Tech -> Nat] /\ g \in [Tech -> Nat]
      /\ \A u \in Tech : f[u] = technicianStock[u][q] /\ g[u] = technicianStock'[u][q]
  BY StockOfType
<1>2. IsFiniteSet(Units(f))
  BY DEF FiniteSums
<1>3. \A u \in Tech :
        technicianStock'[u][q] + Where(u = t /\ q = p, n) = technicianStock[u][q]
  BY DEF TakeFrom, TypeOK, Where
<1>4. CASE q = p
  <2>1. g[t] + n = f[t]
    BY <1>1, <1>3, <1>4 DEF Where
  <2>2. \A u \in Tech \ {t} : g[u] = f[u]
    BY <1>1, <1>3, <1>4 DEF Where
  <2>3. f \in [Tech -> Nat] /\ g \in [Tech -> Nat]
    BY <1>1
  <2> HIDE DEF f, g
  <2>4. /\ IsFiniteSet(Units(g))
        /\ Total(g) \in Nat
        /\ Total(g) + n = Total(f)
    BY <1>2, <2>1, <2>2, <2>3, TotalLowered
  <2> QED
    BY <1>3, <1>4, <2>4 DEF f, g, Held, Where
<1>5. CASE q # p
  <2>1. g = f
    BY <1>1, <1>3, <1>5 DEF Where
  <2>2. Cardinality(Units(f)) \in Nat
    BY <1>2, FS_CardinalityType
  <2> QED
    BY <1>2, <1>3, <1>5, <2>1, <2>2 DEF Held, Total, Where
<1> QED
  BY <1>4, <1>5

LEMMA AwaitedType ==
  ASSUME TypeOK, TypeOK', NEW p \in Part, NEW techs \in SUBSET Tech
  PROVE  /\ Awaited(p, techs) \in [DOMAIN returnRequests -> Nat]
         /\ Awaited(p, techs)' \in [DOMAIN returnRequests' -> Nat]
<1>1. ASSUME NEW i \in DOMAIN returnRequests
      PROVE  returnRequests[i].quantity \in Nat
  BY <1>1, TypeOfRequest
<1>2. ASSUME NEW i \in DOMAIN returnRequests'
      PROVE  returnRequests'[i].quantity \in Nat
  <2>1. returnRequests'[i] \in ReturnRequest
    BY DEF TypeOK
  <2> QED
    BY <2>1, InventoryAssumption DEF ReturnRequest
<1> QED
  BY <1>1, <1>2 DEF Awaited

\* A new request waits for the warehouse, in the sums that count it.
LEMMA PendingRaised ==
  ASSUME TypeOK, TypeOK', FiniteSums,
         NEW c \in Context, NEW p \in Part, NEW n \in 1..MaxQty, NEW t \in Tech,
         returnRequests' = Append(returnRequests,
           [status |-> "PENDING_WAREHOUSE_CONFIRMATION", context |-> c, part |-> p,
            quantity |-> n, tech |-> t]),
         NEW q \in Part, NEW techs \in SUBSET Tech
  PROVE  /\ IsFiniteSet(Units(Awaited(q, techs)))'
         /\ Pending(q, techs) \in Nat
         /\ Pending(q, techs)' = Pending(q, techs) + Where(q = p /\ t \in techs, n)
<1> DEFINE f == Awaited(q, techs)
           g == Awaited(q, techs)'
           k == Len(returnRequests) + 1
<1>1. f \in [DOMAIN returnRequests -> Nat] /\ g \in [DOMAIN returnRequests' -> Nat]
  BY AwaitedType
<1>2. /\ DOMAIN returnRequests \subseteq DOMAIN returnRequests'
      /\ k \in DOMAIN returnRequests' /\ k \notin DOMAIN returnRequests
      /\ DOMAIN returnRequests' \ DOMAIN returnRequests = {k}
      /\ \A i \in DOMAIN returnRequests : returnRequests'[i] = returnRequests[i]
      /\ returnRequests'[k] =
           [status |-> "PENDING_WAREHOUSE_CONFIRMATION", context |-> c, part |-> p,
            quantity |-> n, tech |-> t]
  BY DEF TypeOK
<1>3. \A i \in DOMAIN returnRequests : g[i] = f[i]
  BY <1>2 DEF Awaited, Awaits
<1>4. g[k] = Where(q = p /\ t \in techs, n)
  BY <1>2 DEF Awaited, Awaits, Where
<1>5. n \in Nat /\ Where(q = p /\ t \in techs, n) \in Nat
  BY InventoryAssumption DEF Where
<1>6. IsFiniteSet(Units(f))
  BY DEF FiniteSums
<1> HIDE DEF f, g, k
<1>7. g[k] = (IF k \in DOMAIN returnRequests THEN f[k] ELSE 0)
               + Where(q = p /\ t \in techs, n)
  BY <1>2, <1>4, <1>5
<1>8. /\ IsFiniteSet(Units(g))
      /\ Total(f) \in Nat
      /\ Total(g) = Total(f) + Where(q = p /\ t \in techs, n)
  <2>1. Raises(DOMAIN returnRequests, DOMAIN returnRequests', f, g, k,
               Where(q = p /\ t \in techs, n))
    BY <1>1, <1>2, <1>3, <1>5, <1>7 DEF Raises
  <2> QED
    BY <1>6, <2>1, TotalRaised
<1> QED
  BY <1>8 DEF f, g, Pending

\* A confirmed request waits no more.
LEMMA PendingLowered ==
  ASSUME TypeOK, TypeOK', FiniteSums, NEW i \in DOMAIN returnRequests,
         returnRequests[i].status = "PENDING_WAREHOUSE_CONFIRMATION",
         returnRequests' = [returnRequests EXCEPT ![i].status = "RETURN_CONFIRMED"],
         NEW q \in Part, NEW techs \in SUBSET Tech
  PROVE  /\ IsFiniteSet(Units(Awaited(q, techs)))'
         /\ Pending(q, techs)' \in Nat
         /\ Pending(q, techs)'
              + Where(q = returnRequests[i].part /\ returnRequests[i].tech \in techs,
                      returnRequests[i].quantity)
              = Pending(q, techs)
<1> DEFINE f == Awaited(q, techs)
           g == Awaited(q, techs)'
           n == Where(q = returnRequests[i].part /\ returnRequests[i].tech \in techs,
                      returnRequests[i].quantity)
<1>1. DOMAIN returnRequests' = DOMAIN returnRequests
  OBVIOUS
<1>2. f \in [DOMAIN returnRequests -> Nat] /\ g \in [DOMAIN returnRequests -> Nat]
  BY <1>1, AwaitedType
<1>3. /\ \A j \in DOMAIN returnRequests \ {i} : returnRequests'[j] = returnRequests[j]
      /\ returnRequests'[i].status = "RETURN_CONFIRMED"
  BY TypeOfRequest DEF TypeOK, ReturnRequest
<1>4. \A j \in DOMAIN returnRequests \ {i} : g[j] = f[j]
  BY <1>1, <1>3 DEF Awaited, Awaits
<1>5. g[i] = 0 /\ f[i] = n
  BY <1>1, <1>3 DEF Awaited, Awaits, Where
<1>6. n \in Nat
  BY TypeOfRequest DEF Where
<1>7. IsFiniteSet(Units(f))
  BY DEF FiniteSums
<1> HIDE DEF f, g, n
<1>8. g[i] + n = f[i]
  BY <1>5, <1>6
<1>9. /\ IsFiniteSet(Units(g))
      /\ Total(g) \in Nat
      /\ Total(g) + n = Total(f)
  BY <1>2, <1>4, <1>6, <1>7, <1>8, TotalLowered
<1> QED
  BY <1>9 DEF f, g, n, Pending

\* What an operation leaves alone adds up to the same.
LEMMA LedgerKept ==
  ASSUME FiniteSums, UNCHANGED transactions, NEW type \in TransactionType,
         NEW p \in Part, NEW techs \in SUBSET Tech
  PROVE  /\ IsFiniteSet(Units(Entries(type, p, techs)))'
         /\ Moved(type, p, techs) \in Nat
         /\ Moved(type, p, techs)' = Moved(type, p, techs)
<1>1. IsFiniteSet(Units(Entries(type, p, techs)))
  BY DEF FiniteSums
<1>2. Entries(type, p, techs)' = Entries(type, p, techs)
  BY DEF Entries
<1> QED
  BY <1>1, <1>2, FS_CardinalityType DEF Moved, Total

LEMMA HeldKept ==
  ASSUME FiniteSums, UNCHANGED technicianStock, NEW p \in Part
  PROVE  /\ IsFiniteSet(Units(StockOf(p)))'
         /\ Held(p) \in Nat
         /\ Held(p)' = Held(p)
<1>1. IsFiniteSet(Units(StockOf(p)))
  BY DEF FiniteSums
<1>2. StockOf(p)' = StockOf(p)
  BY DEF StockOf
<1> QED
  BY <1>1, <1>2, FS_CardinalityType DEF Held, Total

LEMMA PendingKept ==
  ASSUME FiniteSums, UNCHANGED returnRequests, NEW p \in Part, NEW techs \in SUBSET Tech
  PROVE  /\ IsFiniteSet(Units(Awaited(p, techs)))'
         /\ Pending(p, techs) \in Nat
         /\ Pending(p, techs)' = Pending(p, techs)
<1>1. IsFiniteSet(Units(Awaited(p, techs)))
  BY DEF FiniteSums
<1>2. Awaited(p, techs)' = Awaited(p, techs)
  BY DEF Awaited, Awaits
<1> QED
  BY <1>1, <1>2, FS_CardinalityType DEF Pending, Total

-----------------------------------------------------------------------------
(* The sums of the properties.                                             *)

\* They are finite after a step that keeps each of them finite.
LEMMA FiniteSumsKept ==
  ASSUME \A p \in Part : IsFiniteSet(Units(StockOf(p)))',
         \A p \in Part, techs \in SUBSET Tech : IsFiniteSet(Units(Awaited(p, techs)))',
         \A type \in TransactionType, p \in Part, techs \in SUBSET Tech :
           IsFiniteSet(Units(Entries(type, p, techs)))'
  PROVE  FiniteSums'
BY DEF FiniteSums

LEMMA TypesOfTransaction ==
  /\ "PART_APPLIED" \in TransactionType
  /\ "PART_USED" \in TransactionType
  /\ "RETURN_REQUESTED" \in TransactionType
  /\ "RETURN_CONFIRMED" \in TransactionType
BY DEF TransactionType

LEMMA SomeTechnicians == Tech \in SUBSET Tech /\ \A t \in Tech : {t} \in SUBSET Tech
OBVIOUS

\* n pieces of p move as the type of the entry says, on behalf of t: from the
\* warehouse to t, from t to a machine, from t to where the returns wait, and
\* from there to the warehouse.
Moves(type, p, n, t) ==
  /\ \A q \in Part :
       /\ totalStock[q] \in Nat
       /\ totalStock'[q] \in Nat
       /\ totalStock'[q] + Where(q = p /\ type = "PART_APPLIED", n)
            = totalStock[q] + Where(q = p /\ type = "RETURN_CONFIRMED", n)
  /\ \A q \in Part :
       /\ IsFiniteSet(Units(StockOf(q)))'
       /\ Held(q) \in Nat
       /\ Held(q)' \in Nat
       /\ Held(q)' + Where(q = p /\ type \in {"PART_USED", "RETURN_REQUESTED"}, n)
            = Held(q) + Where(q = p /\ type = "PART_APPLIED", n)
       /\ \A u \in Tech :
            /\ technicianStock[u][q] \in Nat
            /\ technicianStock'[u][q] \in Nat
            /\ technicianStock'[u][q]
                 + Where(u = t /\ q = p /\ type \in {"PART_USED", "RETURN_REQUESTED"}, n)
                 = technicianStock[u][q] + Where(u = t /\ q = p /\ type = "PART_APPLIED", n)
  /\ \A q \in Part, techs \in SUBSET Tech :
       /\ IsFiniteSet(Units(Awaited(q, techs)))'
       /\ Pending(q, techs) \in Nat
       /\ Pending(q, techs)' \in Nat
       /\ Pending(q, techs)'
            + Where(q = p /\ t \in techs /\ type = "RETURN_CONFIRMED", n)
            = Pending(q, techs)
                + Where(q = p /\ t \in techs /\ type = "RETURN_REQUESTED", n)
  /\ \A other \in TransactionType, q \in Part, techs \in SUBSET Tech :
       /\ IsFiniteSet(Units(Entries(other, q, techs)))'
       /\ Moved(other, q, techs) \in Nat
       /\ Moved(other, q, techs)'
            = Moved(other, q, techs) + Where(other = type /\ q = p /\ t \in techs, n)

\* A movement of any of the four types keeps the books.
LEMMA MovementKeepsInv ==
  ASSUME Inv, TypeOK', NEW type \in TransactionType, NEW p \in Part, NEW n \in Nat,
         NEW t \in Tech, Moves(type, p, n, t)
  PROVE  Inv'
<1> USE TypesOfTransaction, SomeTechnicians
<1>0. \/ type = "PART_APPLIED"
      \/ type = "PART_USED"
      \/ type = "RETURN_REQUESTED"
      \/ type = "RETURN_CONFIRMED"
  BY DEF TransactionType
<1>1. FiniteSums'
  BY FiniteSumsKept DEF Moves
<1>2. StockIsConserved'
  <2> SUFFICES ASSUME NEW q \in Part
               PROVE  (totalStock[q] + Held(q) + Pending(q, Tech)
                        + Moved("PART_USED", q, Tech) = InitialStock[q])'
    BY DEF StockIsConserved
  <2>1. totalStock[q] + Held(q) + Pending(q, Tech) + Moved("PART_USED", q, Tech)
          = InitialStock[q]
    BY DEF Inv, StockIsConserved
  <2>2. /\ totalStock[q] \in Nat /\ totalStock'[q] \in Nat
        /\ totalStock'[q] + Where(q = p /\ type = "PART_APPLIED", n)
             = totalStock[q] + Where(q = p /\ type = "RETURN_CONFIRMED", n)
    BY DEF Moves
  <2>3. /\ Held(q) \in Nat /\ Held(q)' \in Nat
        /\ Held(q)' + Where(q = p /\ type \in {"PART_USED", "RETURN_REQUESTED"}, n)
             = Held(q) + Where(q = p /\ type = "PART_APPLIED", n)
    BY DEF Moves
  <2>4. /\ Pending(q, Tech) \in Nat /\ Pending(q, Tech)' \in Nat
        /\ Pending(q, Tech)' + Where(q = p /\ t \in Tech /\ type = "RETURN_CONFIRMED", n)
             = Pending(q, Tech)
                 + Where(q = p /\ t \in Tech /\ type = "RETURN_REQUESTED", n)
    BY DEF Moves
  <2>5. /\ Moved("PART_USED", q, Tech) \in Nat
        /\ Moved("PART_USED", q, Tech)'
             = Moved("PART_USED", q, Tech) + Where("PART_USED" = type /\ q = p /\ t \in Tech, n)
    BY DEF Moves
  <2> QED
    BY <1>0, <2>1, <2>2, <2>3, <2>4, <2>5 DEF Where
<1>3. LedgerExplainsStock'
  <2> SUFFICES ASSUME NEW q \in Part
               PROVE  (/\ totalStock[q] + Moved("PART_APPLIED", q, Tech)
                            = InitialStock[q] + Moved("RETURN_CONFIRMED", q, Tech)
                       /\ \A u \in Tech :
                            /\ technicianStock[u][q] + Moved("PART_USED", q, {u})
                                 + Moved("RETURN_REQUESTED", q, {u})
                                 = Moved("PART_APPLIED", q, {u})
                            /\ Moved("RETURN_CONFIRMED", q, {u})
                                 <= Moved("RETURN_REQUESTED", q, {u}))'
    BY DEF LedgerExplainsStock
  <2>1. (totalStock[q] + Moved("PART_APPLIED", q, Tech)
          = InitialStock[q] + Moved("RETURN_CONFIRMED", q, Tech))'
    <3>1. totalStock[q] + Moved("PART_APPLIED", q, Tech)
            = InitialStock[q] + Moved("RETURN_CONFIRMED", q, Tech)
      BY DEF Inv, LedgerExplainsStock
    <3>2. /\ totalStock[q] \in Nat /\ totalStock'[q] \in Nat
          /\ totalStock'[q] + Where(q = p /\ type = "PART_APPLIED", n)
               = totalStock[q] + Where(q = p /\ type = "RETURN_CONFIRMED", n)
      BY DEF Moves
    <3>3. \A other \in TransactionType :
            /\ Moved(other, q, Tech) \in Nat
            /\ Moved(other, q, Tech)'
                 = Moved(other, q, Tech) + Where(other = type /\ q = p /\ t \in Tech, n)
      BY DEF Moves
    <3>4. InitialStock[q] \in Nat
      BY InventoryAssumption
    <3> QED
      BY <1>0, <3>1, <3>2, <3>3, <3>4 DEF Where
  <2>2. ASSUME NEW u \in Tech
        PROVE  (/\ technicianStock[u][q] + Moved("PART_USED", q, {u})
                     + Moved("RETURN_REQUESTED", q, {u}) = Moved("PART_APPLIED", q, {u})
                /\ Moved("RETURN_CONFIRMED", q, {u}) <= Moved("RETURN_REQUESTED", q, {u}))'
    <3>1. /\ technicianStock[u][q] + Moved("PART_USED", q, {u})
               + Moved("RETURN_REQUESTED", q, {u}) = Moved("PART_APPLIED", q, {u})
          /\ Pending(q, {u}) + Moved("RETURN_CONFIRMED", q, {u})
               = Moved("RETURN_REQUESTED", q, {u})
      BY DEF Inv, LedgerExplainsStock, ReturnsAreAccounted
    <3>2. /\ technicianStock[u][q] \in Nat /\ technicianStock'[u][q] \in Nat
          /\ technicianStock'[u][q]
               + Where(u = t /\ q = p /\ type \in {"PART_USED", "RETURN_REQUESTED"}, n)
               = technicianStock[u][q]
                   + Where(u = t /\ q = p /\ type = "PART_APPLIED", n)
      BY DEF Moves
    <3>3. \A other \in TransactionType :
            /\ Moved(other, q, {u}) \in Nat
            /\ Moved(other, q, {u})'
                 = Moved(other, q, {u}) + Where(other = type /\ q = p /\ t \in {u}, n)
      BY DEF Moves
    <3>4. /\ Pending(q, {u}) \in Nat /\ Pending(q, {u})' \in Nat
          /\ Pending(q, {u})' + Where(q = p /\ t \in {u} /\ type = "RETURN_CONFIRMED", n)
               = Pending(q, {u}) + Where(q = p /\ t \in {u} /\ type = "RETURN_REQUESTED", n)
      BY DEF Moves
    <3>5. (technicianStock[u][q] + Moved("PART_USED", q, {u})
             + Moved("RETURN_REQUESTED", q, {u}) = Moved("PART_APPLIED", q, {u}))'
      BY <1>0, <3>1, <3>2, <3>3 DEF Where
    <3>6. (Moved("RETURN_CONFIRMED", q, {u}) <= Moved("RETURN_REQUESTED", q, {u}))'
      BY <1>0, <3>1, <3>3, <3>4 DEF Where
    <3> QED
      BY <3>5, <3>6
  <2> QED
    BY <2>1, <2>2
<1>4. ReturnsAreAccounted'
  <2> SUFFICES ASSUME NEW q \in Part, NEW u \in Tech
               PROVE  (Pending(q, {u}) + Moved("RETURN_CONFIRMED", q, {u})
                         = Moved("RETURN_REQUESTED", q, {u}))'
    BY DEF ReturnsAreAccounted
  <2>1. Pending(q, {u}) + Moved("RETURN_CONFIRMED", q, {u})
          = Moved("RETURN_REQUESTED", q, {u})
    BY DEF Inv, ReturnsAreAccounted
  <2>2. \A other \in TransactionType :
          /\ Moved(other, q, {u}) \in Nat
          /\ Moved(other, q, {u})'
               = Moved(other, q, {u}) + Where(other = type /\ q = p /\ t \in {u}, n)
    BY DEF Moves
  <2>3. /\ Pending(q, {u}) \in Nat /\ Pending(q, {u})' \in Nat
        /\ Pending(q, {u})' + Where(q = p /\ t \in {u} /\ type = "RETURN_CONFIRMED", n)
             = Pending(q, {u}) + Where(q = p /\ t \in {u} /\ type = "RETURN_REQUESTED", n)
    BY DEF Moves
  <2> QED
    BY <1>0, <2>1, <2>2, <2>3 DEF Where
<1> QED
  BY <1>1, <1>2, <1>3, <1>4 DEF Inv

-----------------------------------------------------------------------------
(* The steps.                                                              *)

LEMMA ApplyMoves ==
  ASSUME Inv, TypeOK', NEW c \in Context, NEW p \in Part, NEW n \in Nat, NEW t \in Tech,
         Apply(c, p, n, t)
  PROVE  Moves("PART_APPLIED", p, n, t)
<1> USE TypesOfTransaction
<1>0. /\ TypeOK /\ FiniteSums /\ GiveTo(t, p, n)
      /\ Transaction("PART_APPLIED", c, p, n, t) /\ UNCHANGED returnRequests
  BY DEF Inv, Apply
<1>1. \A q \in Part : /\ totalStock[q] \in Nat
                      /\ totalStock'[q] \in Nat
                      /\ totalStock'[q] + Where(q = p, n) = totalStock[q]
  BY DEF Inv, TypeOK, Apply, Where
<1>2. \A q \in Part :
        /\ IsFiniteSet(Units(StockOf(q)))'
        /\ Held(q) \in Nat
        /\ Held(q)' = Held(q) + Where(q = p, n)
        /\ \A u \in Tech :
             technicianStock'[u][q] = technicianStock[u][q] + Where(u = t /\ q = p, n)
  BY <1>0, HeldRaised
<1>3. \A q \in Part, techs \in SUBSET Tech :
        /\ IsFiniteSet(Units(Awaited(q, techs)))'
        /\ Pending(q, techs) \in Nat
        /\ Pending(q, techs)' = Pending(q, techs)
  BY <1>0, PendingKept
<1>4. \A other \in TransactionType, q \in Part, techs \in SUBSET Tech :
        /\ IsFiniteSet(Units(Entries(other, q, techs)))'
        /\ Moved(other, q, techs) \in Nat
        /\ Moved(other, q, techs)' = Moved(other, q, techs)
             + Where(other = "PART_APPLIED" /\ q = p /\ t \in techs, n)
  BY <1>0, LedgerRaised
<1>5. \A q \in Part, u \in Tech :
        technicianStock[u][q] \in Nat /\ technicianStock'[u][q] \in Nat
  BY DEF Inv, TypeOK
<1> QED
  BY <1>1, <1>2, <1>3, <1>4, <1>5 DEF Moves, Where

LEMMA UseMoves ==
  ASSUME Inv, TypeOK', NEW i \in Slot, Use(i)
  PROVE  Moves("PART_USED", calls[i].part, calls[i].quantity, calls[i].tech)
<1> USE TypesOfTransaction
<1> DEFINE c == calls[i].context
           p == calls[i].part
           n == calls[i].quantity
           t == calls[i].tech
<1>1. c \in Context /\ p \in Part /\ n \in Nat /\ t \in Tech
  BY TypeOfCall DEF Inv, Use
<1>2. /\ TakeFrom(t, p, n) /\ Transaction("PART_USED", c, p, n, t)
      /\ UNCHANGED <<totalStock, returnRequests>>
  BY DEF Use
<1> HIDE DEF c, p, n, t
<1>3. \A q \in Part : totalStock[q] \in Nat /\ totalStock'[q] = totalStock[q]
  BY <1>2 DEF Inv, TypeOK
<1>4. \A q \in Part :
        /\ IsFiniteSet(Units(StockOf(q)))'
        /\ Held(q)' \in Nat
        /\ Held(q)' + Where(q = p, n) = Held(q)
        /\ \A u \in Tech :
             technicianStock'[u][q] + Where(u = t /\ q = p, n) = technicianStock[u][q]
  BY <1>1, <1>2, HeldLowered DEF Inv
<1>5. \A q \in Part, techs \in SUBSET Tech :
        /\ IsFiniteSet(Units(Awaited(q, techs)))'
        /\ Pending(q, techs) \in Nat
        /\ Pending(q, techs)' = Pending(q, techs)
  BY <1>2, PendingKept DEF Inv
<1>6. \A other \in TransactionType, q \in Part, techs \in SUBSET Tech :
        /\ IsFiniteSet(Units(Entries(other, q, techs)))'
        /\ Moved(other, q, techs) \in Nat
        /\ Moved(other, q, techs)' = Moved(other, q, techs)
             + Where(other = "PART_USED" /\ q = p /\ t \in techs, n)
  BY <1>1, <1>2, LedgerRaised DEF Inv
<1>7. \A q \in Part, u \in Tech :
        technicianStock[u][q] \in Nat /\ technicianStock'[u][q] \in Nat
  BY DEF Inv, TypeOK
<1>8. Moves("PART_USED", p, n, t)
  BY <1>1, <1>3, <1>4, <1>5, <1>6, <1>7 DEF Moves, Where
<1> QED
  BY <1>8 DEF p, n, t

LEMMA RequestReturnMoves ==
  ASSUME Inv, TypeOK', NEW i \in Slot, RequestReturn(i)
  PROVE  Moves("RETURN_REQUESTED", calls[i].part, calls[i].quantity, calls[i].tech)
<1> USE TypesOfTransaction
<1> DEFINE c == calls[i].context
           p == calls[i].part
           n == calls[i].quantity
           t == calls[i].tech
<1>1. c \in Context /\ p \in Part /\ n \in Nat /\ n \in 1..MaxQty /\ t \in Tech
  BY TypeOfCall DEF Inv, RequestReturn
<1>2. /\ TakeFrom(t, p, n) /\ Transaction("RETURN_REQUESTED", c, p, n, t)
      /\ UNCHANGED totalStock
      /\ returnRequests' = Append(returnRequests,
           [status |-> "PENDING_WAREHOUSE_CONFIRMATION", context |-> c, part |-> p,
            quantity |-> n, tech |-> t])
  BY DEF RequestReturn
<1> HIDE DEF c, p, n, t
<1>3. \A q \in Part : totalStock[q] \in Nat /\ totalStock'[q] = totalStock[q]
  BY <1>2 DEF Inv, TypeOK
<1>4. \A q \in Part :
        /\ IsFiniteSet(Units(StockOf(q)))'
        /\ Held(q)' \in Nat
        /\ Held(q)' + Where(q = p, n) = Held(q)
        /\ \A u \in Tech :
             technicianStock'[u][q] + Where(u = t /\ q = p, n) = technicianStock[u][q]
  BY <1>1, <1>2, HeldLowered DEF Inv
<1>5. \A q \in Part, techs \in SUBSET Tech :
        /\ IsFiniteSet(Units(Awaited(q, techs)))'
        /\ Pending(q, techs) \in Nat
        /\ Pending(q, techs)' = Pending(q, techs) + Where(q = p /\ t \in techs, n)
  BY <1>1, <1>2, PendingRaised DEF Inv
<1>6. \A other \in TransactionType, q \in Part, techs \in SUBSET Tech :
        /\ IsFiniteSet(Units(Entries(other, q, techs)))'
        /\ Moved(other, q, techs) \in Nat
        /\ Moved(other, q, techs)' = Moved(other, q, techs)
             + Where(other = "RETURN_REQUESTED" /\ q = p /\ t \in techs, n)
  BY <1>1, <1>2, LedgerRaised DEF Inv
<1>7. \A q \in Part, u \in Tech :
        technicianStock[u][q] \in Nat /\ technicianStock'[u][q] \in Nat
  BY DEF Inv, TypeOK
<1>8. Moves("RETURN_REQUESTED", p, n, t)
  BY <1>1, <1>3, <1>4, <1>5, <1>6, <1>7 DEF Moves, Where
<1> QED
  BY <1>8 DEF p, n, t

LEMMA ConfirmReturnMoves ==
  ASSUME Inv, TypeOK', NEW i \in DOMAIN returnRequests, ConfirmReturn(i)
  PROVE  Moves("RETURN_CONFIRMED", returnRequests[i].part, returnRequests[i].quantity,
               returnRequests[i].tech)
<1> USE TypesOfTransaction
<1> DEFINE c == returnRequests[i].context
           p == returnRequests[i].part
           n == returnRequests[i].quantity
           t == returnRequests[i].tech
<1>1. c \in Context /\ p \in Part /\ n \in Nat /\ t \in Tech
  BY TypeOfRequest DEF Inv
<1>2. /\ totalStock' = [totalStock EXCEPT ![p] = @ + n]
      /\ Transaction("RETURN_CONFIRMED", c, p, n, t)
      /\ UNCHANGED technicianStock
  BY DEF ConfirmReturn
<1>3. \A q \in Part, techs \in SUBSET Tech :
        /\ IsFiniteSet(Units(Awaited(q, techs)))'
        /\ Pending(q, techs)' \in Nat
        /\ Pending(q, techs)' + Where(q = p /\ t \in techs, n) = Pending(q, techs)
  <2>1. /\ returnRequests[i].status = "PENDING_WAREHOUSE_CONFIRMATION"
        /\ returnRequests' = [returnRequests EXCEPT ![i].status = "RETURN_CONFIRMED"]
    BY DEF ConfirmReturn, Confirmable
  <2> QED
    BY <2>1, PendingLowered DEF Inv
<1> HIDE DEF c, p, n, t
<1>4. \A q \in Part : /\ totalStock[q] \in Nat
                      /\ totalStock'[q] \in Nat
                      /\ totalStock'[q] = totalStock[q] + Where(q = p, n)
  BY <1>1, <1>2 DEF Inv, TypeOK, Where
<1>5. \A q \in Part :
        /\ IsFiniteSet(Units(StockOf(q)))'
        /\ Held(q) \in Nat
        /\ Held(q)' = Held(q)
  BY <1>2, HeldKept DEF Inv
<1>6. \A other \in TransactionType, q \in Part, techs \in SUBSET Tech :
        /\ IsFiniteSet(Units(Entries(other, q, techs)))'
        /\ Moved(other, q, techs) \in Nat
        /\ Moved(other, q, techs)' = Moved(other, q, techs)
             + Where(other = "RETURN_CONFIRMED" /\ q = p /\ t \in techs, n)
  BY <1>1, <1>2, LedgerRaised DEF Inv
<1>7. \A q \in Part, u \in Tech :
        technicianStock[u][q] \in Nat /\ technicianStock'[u][q] = technicianStock[u][q]
  BY <1>2 DEF Inv, TypeOK
<1>8. \A q \in Part, techs \in SUBSET Tech :
        Pending(q, techs) \in Nat
  BY <1>1, <1>3 DEF Where
<1>9. Moves("RETURN_CONFIRMED", p, n, t)
  BY <1>1, <1>3, <1>4, <1>5, <1>6, <1>7, <1>8 DEF Moves, Where
<1> QED
  BY <1>9 DEF p, n, t

\* A step that leaves the document alone keeps the invariant.
LEMMA InvOfDocument ==
  ASSUME Inv, TypeOK',
         UNCHANGED <<totalStock, technicianStock, returnRequests, transactions>>
  PROVE  Inv'
<1> USE TypesOfTransaction, SomeTechnicians
<1>1. \A p \in Part : IsFiniteSet(Units(StockOf(p)))' /\ Held(p)' = Held(p)
  BY HeldKept DEF Inv
<1>2. \A p \in Part, techs \in SUBSET Tech :
        IsFiniteSet(Units(Awaited(p, techs)))' /\ Pending(p, techs)' = Pending(p, techs)
  BY PendingKept DEF Inv
<1>3. \A type \in TransactionType, p \in Part, techs \in SUBSET Tech :
        /\ IsFiniteSet(Units(Entries(type, p, techs)))'
        /\ Moved(type, p, techs)' = Moved(type, p, techs)
  BY LedgerKept DEF Inv
<1>4. FiniteSums'
  BY <1>1, <1>2, <1>3, FiniteSumsKept
<1>5. StockIsConserved'
  BY <1>1, <1>2, <1>3 DEF Inv, StockIsConserved
<1>6. LedgerExplainsStock'
  BY <1>3 DEF Inv, LedgerExplainsStock
<1>7. ReturnsAreAccounted'
  BY <1>2, <1>3 DEF Inv, ReturnsAreAccounted
<1> QED
  BY <1>4, <1>5, <1>6, <1>7 DEF Inv

LEMMA InvInit == Init => Inv
<1> SUFFICES ASSUME Init
             PROVE  Inv
  OBVIOUS
<1> USE TypesOfTransaction, SomeTechnicians
<1>1. TypeOK
  BY TypeCorrectInit
<1>2. ASSUME NEW p \in Part
      PROVE  IsFiniteSet(Units(StockOf(p))) /\ Held(p) = 0
  <2>1. \A t \in DOMAIN StockOf(p) : StockOf(p)[t] = 0
    BY DEF StockOf, Init
  <2> QED
    BY <2>1, TotalOfNone DEF Held
<1>3. ASSUME NEW p \in Part, NEW techs \in SUBSET Tech
      PROVE  IsFiniteSet(Units(Awaited(p, techs))) /\ Pending(p, techs) = 0
  <2>1. \A i \in DOMAIN Awaited(p, techs) : Awaited(p, techs)[i] = 0
    BY DEF Awaited, Init
  <2> QED
    BY <2>1, TotalOfNone DEF Pending
<1>4. ASSUME NEW type \in TransactionType, NEW p \in Part, NEW techs \in SUBSET Tech
      PROVE  IsFiniteSet(Units(Entries(type, p, techs))) /\ Moved(type, p, techs) = 0
  <2>1. ASSUME NEW m \in Context \X techs
        PROVE  [type |-> type, context |-> m[1], part |-> p, tech |-> m[2]] \in Entry
    BY DEF Entry
  <2>2. \A m \in DOMAIN Entries(type, p, techs) : Entries(type, p, techs)[m] = 0
    BY <2>1 DEF Entries, Init
  <2> QED
    BY <2>2, TotalOfNone DEF Moved
<1>5. FiniteSums
  BY <1>2, <1>3, <1>4 DEF FiniteSums
<1>6. \A p \in Part : totalStock[p] = InitialStock[p] /\ InitialStock[p] \in Nat
  BY InventoryAssumption DEF Init
<1>7. StockIsConserved
  BY <1>2, <1>3, <1>4, <1>6 DEF StockIsConserved
<1>8. LedgerExplainsStock
  <2>1. \A p \in Part, t \in Tech : technicianStock[t][p] = 0
    BY DEF Init
  <2> QED
    BY <1>4, <1>6, <2>1 DEF LedgerExplainsStock
<1>9. ReturnsAreAccounted
  BY <1>3, <1>4 DEF ReturnsAreAccounted
<1> QED
  BY <1>1, <1>5, <1>7, <1>8, <1>9 DEF Inv

LEMMA InvStep == Inv /\ [Next]_vars => Inv'
<1> SUFFICES ASSUME Inv, [Next]_vars
             PROVE  Inv'
  OBVIOUS
<1> USE TypesOfTransaction
<1>0. TypeOK'
  BY TypeCorrectStep DEF Inv
<1>1. ASSUME NEW p \in Part, NEW n \in 1..MaxQty, NEW t \in Tech, NEW r \in Rma,
             Apply([rma |-> r, sn |-> orderSn[r]], p, n, t)
      PROVE  Inv'
  <2>1. [rma |-> r, sn |-> orderSn[r]] \in Context /\ n \in Nat
    BY InventoryAssumption DEF Context, Inv, TypeOK
  <2> QED
    BY <1>0, <1>1, <2>1, ApplyMoves, MovementKeepsInv
<1>2. ASSUME NEW p \in Part, NEW n \in 1..MaxQty, NEW t \in Tech, NEW r \in Rma,
             NEW i \in Slot, NEW op \in {"USE", "RETURN"},
             InventoryContext(i, op, r, p, n, t)
      PROVE  Inv'
  BY <1>0, <1>2, InvOfDocument DEF InventoryContext
<1>3. ASSUME NEW i \in Slot, Use(i)
      PROVE  Inv'
  <2>1. calls[i].part \in Part /\ calls[i].quantity \in Nat /\ calls[i].tech \in Tech
    BY <1>3, TypeOfCall DEF Inv, Use
  <2> QED
    BY <1>0, <1>3, <2>1, UseMoves, MovementKeepsInv
<1>4. ASSUME NEW i \in Slot, RequestReturn(i)
      PROVE  Inv'
  <2>1. calls[i].part \in Part /\ calls[i].quantity \in Nat /\ calls[i].tech \in Tech
    BY <1>4, TypeOfCall DEF Inv, RequestReturn
  <2> QED
    BY <1>0, <1>4, <2>1, RequestReturnMoves, MovementKeepsInv
<1>5. ASSUME NEW i \in Slot, CallFails(i)
      PROVE  Inv'
  BY <1>0, <1>5, InvOfDocument DEF CallFails
<1>6. ASSUME NEW i \in DOMAIN returnRequests, ConfirmReturn(i)
      PROVE  Inv'
  <2>1. /\ returnRequests[i].part \in Part /\ returnRequests[i].quantity \in Nat
        /\ returnRequests[i].tech \in Tech
    BY TypeOfRequest DEF Inv
  <2> QED
    BY <1>0, <1>6, <2>1, ConfirmReturnMoves, MovementKeepsInv
<1>7. ASSUME NEW r \in Rma, NEW s \in Sn, PrepareAgain(r, s)
      PROVE  Inv'
  BY <1>0, <1>7, InvOfDocument DEF PrepareAgain
<1>8. CASE UNCHANGED vars
  BY <1>0, <1>8, InvOfDocument DEF vars
<1> QED
  BY <1>1, <1>2, <1>3, <1>4, <1>5, <1>6, <1>7, <1>8 DEF Next

\* The books are balanced in every reachable state.
THEOREM Invariance == Spec => []Inv
<1>1. Init => Inv
  BY InvInit
<1>2. Inv /\ [Next]_vars => Inv'
  BY InvStep
<1> QED
  BY <1>1, <1>2, PTL DEF Spec

\* Inventory.StockIsConserved: applications, uses, returns and confirmations,
\* in any order and of any number of handlers, neither make nor lose a part.
THEOREM Conservation == Spec => []StockIsConserved
<1>1. Inv => StockIsConserved
  BY DEF Inv
<1> QED
  BY <1>1, Invariance, PTL

\* Inventory.LedgerExplainsStock: replaying the ledger gives what the warehouse
\* and each technician have, whoever wrote the entries.
THEOREM LedgerExplains == Spec => []LedgerExplainsStock
<1>1. Inv => LedgerExplainsStock
  BY DEF Inv
<1> QED
  BY <1>1, Invariance, PTL
=============================================================================
