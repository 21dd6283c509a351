-------------------------- MODULE PrpReportingProofs --------------------------
(***************************************************************************)
(* Proofs about the daily report: the book that build_trade_details keeps  *)
(* while it goes through the executions, what a sell takes from the lots,  *)
(* the sums of the report, executions that arrive late, and the pairing    *)
(* first in, first out.                                                    *)
(***************************************************************************)
EXTENDS PrpReporting, SequenceTheorems, SumTheorems

Sides == {"BUY", "SELL"}

QuantityOf == UNION {Quantities[s]["BUY"] \cup Quantities[s]["SELL"] : s \in Traded}

(* The executions of a day: finitely many, told apart by their keys.         *)
Ledger(executions) ==
  /\ executions \subseteq Executions
  /\ IsFiniteSet(executions)
  /\ \A e, f \in executions : e.id = f.id => e = f

LEMMA ExecutionTypes ==
  ASSUME NEW e \in Executions
  PROVE  /\ e.id \in Nat /\ e.id \in 1..MaxExecutions
         /\ e.at \in Nat /\ e.at \in DOMAIN MarketPrice
         /\ e.sym \in Traded /\ e.side \in Sides
         /\ e.price \in Nat \ {0} /\ e.qty \in Nat \ {0}
<1>1. e.qty \in QuantityOf /\ e.side \in Sides /\ e.sym \in Traded
  BY DEF Executions, QuantityOf, Sides
<1>2. QuantityOf \subseteq Nat \ {0}
  BY ReportingAssumption DEF QuantityOf
<1>3. e.at \in DOMAIN MarketPrice /\ e.id \in 1..MaxExecutions
  BY DEF Executions
<1>4. PICK t \in DOMAIN MarketPrice : e.price = MarketPrice[t]
  BY DEF Executions
<1> QED BY <1>1, <1>2, <1>3, <1>4, ReportingAssumption

LEMMA PartOfLedger ==
  ASSUME NEW E, Ledger(E), NEW T, T \subseteq E
  PROVE  Ledger(T)
  BY FS_Subset DEF Ledger

LEMMA TotalOrder ==
  ASSUME NEW E, Ledger(E), NEW e \in E, NEW f \in E, NEW g \in E
  PROVE  /\ ~Earlier(e, e)
         /\ e # f => Earlier(e, f) \/ Earlier(f, e)
         /\ ~(Earlier(e, f) /\ Earlier(f, e))
         /\ Earlier(e, f) /\ Earlier(f, g) => Earlier(e, g)
<1>1. /\ e.at \in Nat /\ f.at \in Nat /\ g.at \in Nat
      /\ e.id \in Nat /\ f.id \in Nat /\ g.id \in Nat
  BY ExecutionTypes DEF Ledger
<1>2. e # f => e.id # f.id
  BY DEF Ledger
<1> QED BY <1>1, <1>2 DEF Earlier

(* There is a latest execution to account for, as long as there is any.      *)
LEMMA LatestIsLast ==
  ASSUME NEW E, Ledger(E), E # {}
  PROVE  Latest(E) \in E /\ \A f \in E : f = Latest(E) \/ Earlier(f, Latest(E))
<1> DEFINE Last(T, x) == x \in T /\ \A f \in T : f = x \/ Earlier(f, x)
           Fail == {T \in SUBSET E : T # {} /\ ~\E x \in T : Last(T, x)}
<1>1. Fail = {}
  <2> SUFFICES ASSUME Fail # {} PROVE FALSE
    OBVIOUS
  <2>1. PICK T \in Fail : \A U \in Fail : U \subseteq T => U = T
    <3>1. Fail \subseteq SUBSET E /\ IsFiniteSet(E)
      BY DEF Ledger
    <3> HIDE DEF Fail
    <3> QED BY <3>1, MinimalSubset
  <2>2. T \in SUBSET E /\ T # {} /\ \A x \in T : ~Last(T, x)
    OBVIOUS
  <2>3. PICK x \in T : TRUE
    BY <2>2
  <2>4. T \ {x} # {}
    BY <2>2, <2>3
  <2>5. T \ {x} \notin Fail
    BY <2>1, <2>3
  <2>6. PICK y \in T \ {x} : Last(T \ {x}, y)
    BY <2>2, <2>4, <2>5
  <2>7. x \in E /\ y \in E /\ x # y
    BY <2>2, <2>3, <2>6
  <2>8. CASE Earlier(x, y)
    BY <2>2, <2>6, <2>8
  <2>9. CASE Earlier(y, x)
    <3>1. ASSUME NEW f \in T PROVE f = x \/ Earlier(f, x)
      <4>1. f \in E
        BY <2>2
      <4> QED BY <2>6, <2>7, <2>9, <4>1, TotalOrder
    <3> QED BY <2>2, <2>3, <3>1
  <2> QED BY <2>7, <2>8, <2>9, TotalOrder
<1>2. PICK x \in E : Last(E, x)
  BY <1>1
<1> QED BY <1>2 DEF Latest

(* The latest of a larger set is the same, when the others came before it.   *)
LEMMA LatestIs ==
  ASSUME NEW E, Ledger(E), NEW x \in E, \A f \in E : f = x \/ Earlier(f, x)
  PROVE  Latest(E) = x
<1>1. Latest(E) \in E /\ \A f \in E : f = Latest(E) \/ Earlier(f, Latest(E))
  BY LatestIsLast
<1> QED BY <1>1, TotalOrder

-----------------------------------------------------------------------------
(* The book that build_trade_details keeps, a recursive function over the    *)
(* sets of executions accounted for: it exists, and for the executions that  *)
(* two ledgers share it is the same.                                         *)

BookStep(after, done) ==
  IF done = {} THEN NoBook ELSE Account(after[done \ {Latest(done)}], Latest(done))

Books(after, executions) ==
  after = [done \in SUBSET executions |-> BookStep(after, done)]

LEMMA BookDefinition ==
  ASSUME NEW E
  PROVE  build_trade_details(E) = (CHOOSE after : Books(after, E))[E].details
  BY Zenon DEF build_trade_details, Books, BookStep

LEMMA BooksExist ==
  ASSUME NEW E, Ledger(E)
  PROVE  \E after : Books(after, E)
<1> DEFINE UpTo(g, n) == \A s \in SUBSET E : Cardinality(s) <= n => g[s] = BookStep(g, s)
           Partial(n) == \E g : g = [s \in SUBSET E |-> g[s]] /\ UpTo(g, n)
           Fail == {n \in Nat : ~Partial(n)}
<1>1. \A s \in SUBSET E : /\ IsFiniteSet(s) /\ Cardinality(s) \in Nat
                          /\ Cardinality(s) <= Cardinality(E)
                          /\ Cardinality(s) = 0 <=> s = {}
  BY FS_Subset, FS_CardinalityType, FS_EmptySet DEF Ledger
<1>2. Partial(0)
  <2> DEFINE g == [s \in SUBSET E |-> NoBook]
  <2>1. ASSUME NEW s \in SUBSET E, Cardinality(s) <= 0 PROVE g[s] = BookStep(g, s)
    BY <1>1, <2>1 DEF BookStep
  <2> QED BY <2>1
<1>3. ASSUME NEW n \in Nat, Partial(n) PROVE Partial(n + 1)
  <2>1. PICK g : g = [s \in SUBSET E |-> g[s]] /\ UpTo(g, n)
    BY <1>3
  <2> DEFINE h == [s \in SUBSET E |-> IF Cardinality(s) <= n THEN g[s] ELSE BookStep(g, s)]
  <2>2. ASSUME NEW s \in SUBSET E, Cardinality(s) <= n + 1, s # {}
        PROVE  h[s \ {Latest(s)}] = g[s \ {Latest(s)}]
    <3>1. Latest(s) \in s /\ s \ {Latest(s)} \in SUBSET E
      BY <2>2, PartOfLedger, LatestIsLast
    <3>2. Cardinality(s \ {Latest(s)}) = Cardinality(s) - 1
      BY <3>1, <1>1, FS_RemoveElement
    <3>3. Cardinality(s \ {Latest(s)}) <= n
      BY <3>2, <2>2, <1>1
    <3> QED BY <3>1, <3>3
  <2>3. ASSUME NEW s \in SUBSET E, Cardinality(s) <= n + 1 PROVE h[s] = BookStep(h, s)
    <3>1. BookStep(h, s) = BookStep(g, s)
      BY <2>2, <2>3 DEF BookStep
    <3>2. h[s] = BookStep(g, s)
      BY <2>1
    <3> QED BY <3>1, <3>2
  <2>4. h = [s \in SUBSET E |-> h[s]] /\ UpTo(h, n + 1)
    BY <2>3
  <2> HIDE DEF h
  <2> QED BY <2>4
<1> HIDE DEF Partial
<1>4. Fail = {}
  <2> SUFFICES ASSUME Fail # {} PROVE FALSE
    OBVIOUS
  <2>1. PICK n \in Fail : \A m \in Fail : n <= m
    BY LeastNatural
  <2>2. n \in Nat /\ ~Partial(n)
    OBVIOUS
  <2>3. n # 0
    BY <1>2, <2>2
  <2>4. n - 1 \in Nat /\ n - 1 \notin Fail
    BY <2>1, <2>2, <2>3
  <2>5. Partial((n - 1) + 1)
    BY <1>3, <2>4
  <2>6. (n - 1) + 1 = n
    BY <2>2
  <2> QED BY <2>2, <2>5, <2>6
<1>5. Partial(Cardinality(E))
  BY <1>1, <1>4
<1>6. PICK g : g = [s \in SUBSET E |-> g[s]] /\ UpTo(g, Cardinality(E))
  BY <1>5 DEF Partial
<1>7. \A s \in SUBSET E : g[s] = BookStep(g, s)
  BY <1>6, <1>1
<1> QED BY <1>6, <1>7 DEF Books

LEMMA BooksAgree ==
  ASSUME NEW E, Ledger(E), NEW F, E \subseteq F,
         NEW g, Books(g, E), NEW k, Books(k, F)
  PROVE  \A s \in SUBSET E : g[s] = k[s]
<1> DEFINE Fail == {s \in SUBSET E : g[s] # k[s]}
<1> SUFFICES ASSUME Fail # {} PROVE FALSE
  OBVIOUS
<1>1. PICK s \in Fail : \A u \in Fail : u \subseteq s => u = s
  <2>1. Fail \subseteq SUBSET E /\ IsFiniteSet(E)
    BY DEF Ledger
  <2> HIDE DEF Fail
  <2> QED BY <2>1, MinimalSubset
<1>2. s \in SUBSET E /\ s \in SUBSET F /\ g[s] # k[s]
  OBVIOUS
<1>3. g[s] = BookStep(g, s) /\ k[s] = BookStep(k, s)
  BY <1>2 DEF Books
<1>4. s # {}
  BY <1>2, <1>3 DEF BookStep
<1>5. Latest(s) \in s
  BY <1>2, <1>4, PartOfLedger, LatestIsLast
<1>6. s \ {Latest(s)} \notin Fail
  BY <1>1, <1>5
<1>7. g[s \ {Latest(s)}] = k[s \ {Latest(s)}]
  BY <1>2, <1>6
<1> QED BY <1>2, <1>3, <1>7 DEF BookStep

LEMMA DetailsOfBook ==
  ASSUME NEW E, NEW F, Ledger(F), E \subseteq F, NEW after, Books(after, F)
  PROVE  build_trade_details(E) = after[E].details
<1> DEFINE g == CHOOSE g : Books(g, E)
<1>1. Ledger(E)
  BY PartOfLedger
<1>2. Books(g, E)
  BY <1>1, BooksExist
<1>3. build_trade_details(E) = g[E].details
  BY BookDefinition
<1> HIDE DEF g
<1> QED BY <1>1, <1>2, <1>3, BooksAgree

-----------------------------------------------------------------------------
(* What a sell takes from the lots of its symbol: all it wants, or all there *)
(* is, and the lots it empties are the oldest ones.                          *)

LotType == [at : DOMAIN MarketPrice, price : Nat, remaining_qty : Nat \ {0}]

Rest(lots) == [k \in 1..Len(lots) |-> lots[k].remaining_qty]

Held(lots) == SumFunctionOnSet(Rest(lots), 1..Len(lots))

Least(m, n) == IF m <= n THEN m ELSE n

LEMMA RestType ==
  ASSUME NEW lots \in Seq(LotType)
  PROVE  /\ \A k \in 1..Len(lots) : /\ lots[k] \in LotType
                                    /\ Rest(lots)[k] = lots[k].remaining_qty
                                    /\ Rest(lots)[k] \in Nat \ {0}
         /\ Len(lots) \in Nat /\ DOMAIN lots = 1..Len(lots)
<1>1. Len(lots) \in Nat /\ DOMAIN lots = 1..Len(lots)
  OBVIOUS
<1>2. \A k \in 1..Len(lots) : lots[k] \in LotType
  OBVIOUS
<1>3. \A k \in 1..Len(lots) : Rest(lots)[k] = lots[k].remaining_qty
  BY DEF Rest
<1>4. \A lot \in LotType : lot.remaining_qty \in Nat \ {0}
  BY DEF LotType
<1> QED BY <1>1, <1>2, <1>3, <1>4

LEMMA IntervalIsFinite == ASSUME NEW n \in Int PROVE IsFiniteSet(1..n)
  BY FS_Interval

LEMMA AheadIs ==
  ASSUME NEW lots \in Seq(LotType), NEW i \in 1..(Len(lots) + 1)
  PROVE  /\ Ahead(lots, i) = SumFunctionOnSet(Rest(lots), 1..(i - 1))
         /\ Ahead(lots, i) \in Nat
<1> DEFINE front == [k \in 1..(i - 1) |-> lots[k].remaining_qty]
<1>1. IsFiniteSet(1..(i - 1)) /\ 1..(i - 1) \subseteq 1..Len(lots)
  <2>1. i - 1 \in Int /\ i - 1 <= Len(lots)
    BY RestType
  <2> QED BY <2>1, RestType, IntervalIsFinite
<1>2. Ahead(lots, i) = SumFunctionOnSet(front, 1..(i - 1))
  BY DEF Ahead, SumFunction
<1>3. \A k \in 1..(i - 1) : front[k] = Rest(lots)[k]
  BY <1>1, RestType
<1>4. \A k \in 1..(i - 1) : Rest(lots)[k] \in Nat
  BY <1>1, RestType
<1> HIDE DEF front
<1>5. SumFunctionOnSet(front, 1..(i - 1)) = SumFunctionOnSet(Rest(lots), 1..(i - 1))
  BY <1>1, <1>3, SumOfTheSame
<1>6. SumFunctionOnSet(Rest(lots), 1..(i - 1)) \in Nat
  BY <1>1, <1>4, SumIsNatural
<1> QED BY <1>2, <1>5, <1>6

LEMMA AheadGrows ==
  ASSUME NEW lots \in Seq(LotType)
  PROVE  /\ Ahead(lots, 1) = 0
         /\ Ahead(lots, Len(lots) + 1) = Held(lots)
         /\ \A i \in 1..Len(lots) : Ahead(lots, i + 1) = Ahead(lots, i) + Rest(lots)[i]
         /\ \A i \in 1..(Len(lots) + 1) : \A j \in 1..i : Ahead(lots, j) <= Ahead(lots, i)
<1>1. Ahead(lots, 1) = 0
  <2>1. 1..(1 - 1) = {} /\ 1 \in 1..(Len(lots) + 1)
    BY RestType
  <2> QED BY <2>1, AheadIs, SumOfNothing
<1>2. Ahead(lots, Len(lots) + 1) = Held(lots)
  <2>1. (Len(lots) + 1) - 1 = Len(lots) /\ Len(lots) + 1 \in 1..(Len(lots) + 1)
    BY RestType
  <2> QED BY <2>1, AheadIs DEF Held
<1>3. ASSUME NEW i \in 1..Len(lots)
      PROVE  Ahead(lots, i + 1) = Ahead(lots, i) + Rest(lots)[i]
  <2>1. /\ i \in 1..(Len(lots) + 1) /\ i + 1 \in 1..(Len(lots) + 1)
        /\ (i + 1) - 1 = i /\ i \in 1..i /\ (1..i) \ {i} = 1..(i - 1)
    BY RestType
  <2>2. IsFiniteSet(1..i) /\ \A k \in 1..i : Rest(lots)[k] \in Int
    <3>1. IsFiniteSet(1..i)
      BY IntervalIsFinite
    <3>2. 1..i \subseteq 1..Len(lots)
      BY RestType
    <3> QED BY <3>1, <3>2, RestType
  <2>3. SumFunctionOnSet(Rest(lots), 1..i)
          = Rest(lots)[i] + SumFunctionOnSet(Rest(lots), (1..i) \ {i})
    BY <2>1, <2>2, SumWithout
  <2>4. /\ Ahead(lots, i + 1) = SumFunctionOnSet(Rest(lots), 1..i)
        /\ Ahead(lots, i) = SumFunctionOnSet(Rest(lots), 1..(i - 1))
        /\ Ahead(lots, i) \in Nat
    BY <2>1, AheadIs
  <2>5. Rest(lots)[i] \in Nat
    BY RestType
  <2>6. Ahead(lots, i + 1) = Rest(lots)[i] + Ahead(lots, i)
    BY <2>1, <2>3, <2>4
  <2> QED BY <2>4, <2>5, <2>6
<1>4. ASSUME NEW i \in 1..(Len(lots) + 1), NEW j \in 1..i
      PROVE  Ahead(lots, j) <= Ahead(lots, i)
  <2>1. /\ j \in 1..(Len(lots) + 1) /\ 1..(j - 1) \subseteq 1..(i - 1)
        /\ IsFiniteSet(1..(i - 1)) /\ 1..(i - 1) \subseteq 1..Len(lots)
    <3>1. i - 1 \in Int /\ i - 1 <= Len(lots) /\ j - 1 <= i - 1
      BY RestType
    <3> QED BY <3>1, RestType, IntervalIsFinite
  <2>2. \A k \in 1..(i - 1) : Rest(lots)[k] \in Nat
    BY <2>1, RestType
  <2>3. SumFunctionOnSet(Rest(lots), 1..(j - 1)) <= SumFunctionOnSet(Rest(lots), 1..(i - 1))
    BY <2>1, <2>2, SumMonotone
  <2> QED BY <2>1, <2>3, AheadIs
<1> QED BY <1>1, <1>2, <1>3, <1>4

LEMMA MatchedIs ==
  ASSUME NEW lots \in Seq(LotType), NEW i \in 1..Len(lots), NEW sell, sell.qty \in Nat
  PROVE  /\ matched_qty(lots, i, sell) \in Nat
         /\ matched_qty(lots, i, sell) <= lots[i].remaining_qty
         /\ matched_qty(lots, i, sell)
              = Least(sell.qty, Ahead(lots, i + 1)) - Least(sell.qty, Ahead(lots, i))
         /\ matched_qty(lots, i, sell) = lots[i].remaining_qty
              <=> Ahead(lots, i + 1) <= sell.qty
<1>1. Ahead(lots, i) \in Nat /\ Ahead(lots, i + 1) \in Nat
  BY AheadIs, RestType
<1>2. Ahead(lots, i + 1) = Ahead(lots, i) + lots[i].remaining_qty
  BY AheadGrows, RestType
<1>3. lots[i].remaining_qty \in Nat \ {0}
  BY RestType
<1> DEFINE left == sell.qty - Ahead(lots, i)
<1>4. matched_qty(lots, i, sell)
        = IF left <= 0 THEN 0
          ELSE IF left < lots[i].remaining_qty THEN left ELSE lots[i].remaining_qty
  <2>1. CASE left <= 0
    BY <1>1, <1>3, <2>1 DEF matched_qty
  <2>2. CASE left > 0 /\ left < lots[i].remaining_qty
    BY <1>1, <1>3, <2>2 DEF matched_qty
  <2>3. CASE left > 0 /\ ~(left < lots[i].remaining_qty)
    BY <1>1, <1>3, <2>3 DEF matched_qty
  <2> QED BY <1>1, <2>1, <2>2, <2>3
<1> QED BY <1>1, <1>2, <1>3, <1>4 DEF Least

(* All it takes together.                                                    *)
LEMMA MatchedInAll ==
  ASSUME NEW lots \in Seq(LotType), NEW sell, sell.qty \in Nat,
         NEW taken, \A i \in 1..Len(lots) : taken[i] = matched_qty(lots, i, sell)
  PROVE  SumFunctionOnSet(taken, 1..Len(lots)) = Least(sell.qty, Held(lots))
<1> DEFINE Sum(j) == SumFunctionOnSet(taken, 1..j)
           Fail == {j \in 0..Len(lots) : Sum(j) # Least(sell.qty, Ahead(lots, j + 1))}
<1>1. Fail = {}
  <2> SUFFICES ASSUME Fail # {} PROVE FALSE
    OBVIOUS
  <2>1. PICK j \in Fail : \A k \in Fail : j <= k
    <3>1. Fail \subseteq Nat
      BY RestType
    <3> HIDE DEF Fail
    <3> QED BY <3>1, LeastNatural
  <2>2. j \in 0..Len(lots) /\ Sum(j) # Least(sell.qty, Ahead(lots, j + 1))
    OBVIOUS
  <2>3. j # 0
    <3>1. 1..0 = {} /\ 0 + 1 = 1 /\ Least(sell.qty, 0) = 0
      BY DEF Least
    <3>2. Sum(0) = 0 /\ Ahead(lots, 1) = 0
      BY <3>1, SumOfNothing, AheadGrows
    <3> QED BY <2>2, <3>1, <3>2
  <2>4. /\ j \in 1..Len(lots) /\ j - 1 \in 0..Len(lots) /\ (j - 1) + 1 = j
        /\ j \in 1..j /\ (1..j) \ {j} = 1..(j - 1) /\ IsFiniteSet(1..j)
    <3>1. j \in Int /\ Len(lots) \in Nat
      BY <2>2, RestType
    <3>2. IsFiniteSet(1..j)
      BY <3>1, IntervalIsFinite
    <3> HIDE DEF Fail
    <3> QED BY <2>2, <2>3, <3>1, <3>2
  <2>5. Sum(j - 1) = Least(sell.qty, Ahead(lots, j))
    <3>1. j - 1 \notin Fail
      BY <2>1, <2>4
    <3> QED BY <2>4, <3>1
  <2>6. \A k \in 1..j : taken[k] \in Int
    <3>1. \A k \in 1..j : k \in 1..Len(lots)
      BY <2>4, RestType
    <3> HIDE DEF Fail
    <3> QED BY <3>1, MatchedIs
  <2>7. Sum(j) = taken[j] + Sum(j - 1)
    <3> HIDE DEF Fail
    <3>1. SumFunctionOnSet(taken, 1..j)
            = taken[j] + SumFunctionOnSet(taken, (1..j) \ {j})
      BY <2>4, <2>6, SumWithout
    <3> QED BY <2>4, <3>1
  <2>8. /\ taken[j] = Least(sell.qty, Ahead(lots, j + 1)) - Least(sell.qty, Ahead(lots, j))
    BY <2>4, MatchedIs
  <2>9. Ahead(lots, j) \in Nat /\ Ahead(lots, j + 1) \in Nat
    BY <2>4, AheadIs, RestType
  <2>10. Least(sell.qty, Ahead(lots, j)) \in Int /\ Least(sell.qty, Ahead(lots, j + 1)) \in Int
    BY <2>9 DEF Least
  <2> QED BY <2>2, <2>5, <2>7, <2>8, <2>10
<1>2. Len(lots) \in 0..Len(lots)
  BY RestType
<1>3. Sum(Len(lots)) = Least(sell.qty, Ahead(lots, Len(lots) + 1))
  BY <1>1, <1>2
<1> QED BY <1>3, AheadGrows

LEMMA PrefixOfInterval ==
  ASSUME NEW n \in Nat, NEW S, S \subseteq 1..n, \A i \in S : \A j \in 1..i : j \in S
  PROVE  Cardinality(S) \in 0..n /\ S = 1..Cardinality(S)
<1> DEFINE Out == {k \in 0..n : k + 1 \notin S}
<1>1. PICK k \in Out : \A m \in Out : k <= m
  <2>1. n \in Out
    OBVIOUS
  <2>2. Out \subseteq Nat
    OBVIOUS
  <2> HIDE DEF Out
  <2> QED BY <2>1, <2>2, LeastNatural
<1>2. k \in 0..n /\ k + 1 \notin S
  OBVIOUS
<1>3. ASSUME NEW j \in 1..k PROVE j \in S
  <2>1. j - 1 \in 0..n /\ j - 1 \notin Out /\ (j - 1) + 1 = j
    BY <1>1, <1>2
  <2> QED BY <2>1
<1>4. ASSUME NEW i \in S PROVE i \in 1..k
  <2>1. i \in 1..n /\ (k + 1 <= i => k + 1 \in 1..i)
    BY <1>2
  <2> QED BY <1>2, <2>1
<1>5. S = 1..k
  BY <1>3, <1>4
<1>6. Cardinality(1..k) = k
  BY <1>2, FS_Interval
<1> QED BY <1>2, <1>5, <1>6

Largest(m, n) == IF m <= n THEN n ELSE m

(* A sell empties some lots from the front and leaves what it does not take. *)
LEMMA ReducedLots ==
  ASSUME NEW lots \in Seq(LotType), NEW sell, sell.qty \in Nat
  PROVE  \E k \in 0..Len(lots) :
           /\ Reduced(lots, sell) \in Seq(LotType)
           /\ Len(Reduced(lots, sell)) = Len(lots) - k
           /\ \A j \in 1..(Len(lots) - k) :
                /\ Reduced(lots, sell)[j].at = lots[k + j].at
                /\ Rest(Reduced(lots, sell))[j] = Rest(lots)[k + j] - matched_qty(lots, k + j, sell)
                /\ Ahead(lots, k + j + 1) > sell.qty
           /\ Ahead(lots, k + 1) <= sell.qty
<1> DEFINE left == [i \in DOMAIN lots |->
                      [lots[i] EXCEPT !.remaining_qty = @ - matched_qty(lots, i, sell)]]
           emptied == {i \in DOMAIN lots : left[i].remaining_qty = 0}
           k == Cardinality(emptied)
           n == Len(lots)
           kept == SubSeq(left, k + 1, n)
<1>1. n \in Nat /\ DOMAIN lots = 1..n
  BY RestType
<1>2. ASSUME NEW i \in 1..n
      PROVE  /\ left[i].remaining_qty = lots[i].remaining_qty - matched_qty(lots, i, sell)
             /\ left[i].remaining_qty \in Nat
             /\ left[i].remaining_qty # 0 => left[i] \in LotType
             /\ left[i].remaining_qty = 0 <=> Ahead(lots, i + 1) <= sell.qty
             /\ left[i].at = lots[i].at
  <2>1. /\ matched_qty(lots, i, sell) \in Nat
        /\ matched_qty(lots, i, sell) <= lots[i].remaining_qty
        /\ matched_qty(lots, i, sell) = lots[i].remaining_qty
             <=> Ahead(lots, i + 1) <= sell.qty
    BY MatchedIs
  <2>2. lots[i] \in LotType /\ lots[i].remaining_qty \in Nat
    BY RestType
  <2>3. left[i] = [lots[i] EXCEPT !.remaining_qty = @ - matched_qty(lots, i, sell)]
    BY <1>1
  <2>4. left[i].remaining_qty = lots[i].remaining_qty - matched_qty(lots, i, sell)
    BY <2>2, <2>3 DEF LotType
  <2>5. left[i].remaining_qty \in Nat
    BY <2>1, <2>2, <2>4
  <2>6. left[i].remaining_qty # 0 => left[i] \in LotType
    BY <2>2, <2>3, <2>5 DEF LotType
  <2>7. left[i].remaining_qty = 0 <=> Ahead(lots, i + 1) <= sell.qty
    BY <2>1, <2>2, <2>4
  <2>8. left[i].at = lots[i].at
    BY <2>2, <2>3 DEF LotType
  <2> QED BY <2>4, <2>5, <2>6, <2>7, <2>8
<1>3. Reduced(lots, sell) = kept
  BY DEF Reduced
<1> HIDE DEF left
<1>4. emptied = 1..k /\ k \in 0..n
  <2>1. emptied \subseteq 1..n
    BY <1>1
  <2>2. ASSUME NEW i \in emptied, NEW j \in 1..i PROVE j \in emptied
    <3>1. i \in 1..n /\ j \in 1..n /\ j + 1 \in 1..(i + 1) /\ i + 1 \in 1..(n + 1)
      BY <1>1, <2>2
    <3>2. Ahead(lots, i + 1) <= sell.qty
      BY <1>2, <2>2, <3>1
    <3>3. Ahead(lots, j + 1) <= Ahead(lots, i + 1)
      BY <3>1, AheadGrows
    <3>4. Ahead(lots, i + 1) \in Nat /\ Ahead(lots, j + 1) \in Nat
      BY <3>1, <1>1, AheadIs
    <3>5. Ahead(lots, j + 1) <= sell.qty
      BY <3>2, <3>3, <3>4
    <3> QED BY <1>1, <1>2, <3>1, <3>5
  <2> HIDE DEF emptied
  <2> QED BY <1>1, <2>1, <2>2, PrefixOfInterval
<1>5. \A i \in 1..k : left[i].remaining_qty = 0
  BY <1>4
<1>6. \A i \in (k + 1)..n : i \in 1..n /\ left[i].remaining_qty # 0
  <2>1. \A i \in (k + 1)..n : i \in 1..n /\ i \notin 1..k
    BY <1>1, <1>4
  <2> QED BY <1>1, <1>4, <2>1
<1> HIDE DEF emptied, n, kept
<1>7. k \in Int /\ n \in Int /\ k + 1 \in Int /\ 0 <= k /\ k <= n
  BY <1>1, <1>4
<1> HIDE DEF k
<1>8. /\ kept \in Seq(LotType)
      /\ Len(kept) = n - k
      /\ \A j \in 1..(n - k) : kept[j] = left[k + j]
  <2>1. \A i \in (k + 1)..n : left[i] \in LotType
    BY <1>2, <1>6
  <2>2. /\ kept \in Seq(LotType)
        /\ Len(kept) = IF k + 1 <= n THEN n - (k + 1) + 1 ELSE 0
        /\ \A j \in 1..(n - (k + 1) + 1) : kept[j] = left[(k + 1) + j - 1]
    BY <1>7, <2>1, SubSeqProperties DEF kept
  <2>3. n - (k + 1) + 1 = n - k /\ (~(k + 1 <= n) => n - k = 0)
    BY <1>7
  <2>4. \A j \in 1..(n - k) : (k + 1) + j - 1 = k + j
    BY <1>7
  <2> QED BY <2>2, <2>3, <2>4
<1>9. \A j \in 1..(n - k) : k + j \in (k + 1)..n /\ k + j \in 1..n
  BY <1>7
<1>10. ASSUME NEW j \in 1..(n - k)
       PROVE  /\ kept[j].at = lots[k + j].at
              /\ Rest(kept)[j] = Rest(lots)[k + j] - matched_qty(lots, k + j, sell)
              /\ Ahead(lots, k + j + 1) > sell.qty
  <2>1. kept[j] = left[k + j] /\ k + j \in 1..n /\ left[k + j].remaining_qty # 0
    BY <1>6, <1>8, <1>9
  <2>2. left[k + j].at = lots[k + j].at
    BY <1>2, <2>1
  <2>3. Rest(kept)[j] = left[k + j].remaining_qty
    BY <1>8, <2>1 DEF Rest
  <2>4. Rest(lots)[k + j] = lots[k + j].remaining_qty
    BY <2>1, RestType DEF n
  <2>5. Ahead(lots, k + j + 1) \in Nat
    <3>1. k + j + 1 \in 1..(Len(lots) + 1)
      BY <1>1, <2>1 DEF n
    <3> QED BY <3>1, AheadIs
  <2> QED BY <1>2, <2>1, <2>2, <2>3, <2>4, <2>5
<1>11. Ahead(lots, k + 1) <= sell.qty
  <2>1. CASE k = 0
    BY <2>1, AheadGrows
  <2>2. CASE k # 0
    <3>1. k \in 1..k /\ k \in 1..n
      BY <1>7, <2>2
    <3> QED BY <1>2, <1>5, <3>1
  <2> QED BY <2>1, <2>2
<1>12. k \in 0..Len(lots)
  BY <1>7 DEF n
<1> QED BY <1>3, <1>8, <1>10, <1>11, <1>12 DEF n

LEMMA ReducedAhead ==
  ASSUME NEW lots \in Seq(LotType), NEW sell, sell.qty \in Nat
  PROVE  \E k \in 0..Len(lots) :
           /\ Reduced(lots, sell) \in Seq(LotType)
           /\ Len(Reduced(lots, sell)) = Len(lots) - k
           /\ \A j \in 1..(Len(lots) - k) : Reduced(lots, sell)[j].at = lots[k + j].at
           /\ \A j \in 1..(Len(lots) - k + 1) :
                Ahead(Reduced(lots, sell), j) = Largest(Ahead(lots, k + j) - sell.qty, 0)
<1> DEFINE left == Reduced(lots, sell)
           n == Len(lots)
<1>1. PICK k \in 0..n :
         /\ left \in Seq(LotType) /\ Len(left) = n - k
         /\ \A j \in 1..(n - k) :
              /\ left[j].at = lots[k + j].at
              /\ Rest(left)[j] = Rest(lots)[k + j] - matched_qty(lots, k + j, sell)
              /\ Ahead(lots, k + j + 1) > sell.qty
         /\ Ahead(lots, k + 1) <= sell.qty
  BY ReducedLots
<1>2. n \in Nat /\ k \in Nat /\ k <= n
  BY <1>1, RestType
<1> DEFINE Fail == {j \in 1..(n - k + 1) :
                      Ahead(left, j) # Largest(Ahead(lots, k + j) - sell.qty, 0)}
<1> HIDE DEF left
<1>3. Fail = {}
  <2> SUFFICES ASSUME Fail # {} PROVE FALSE
    OBVIOUS
  <2>1. PICK j \in Fail : \A i \in Fail : j <= i
    <3>1. Fail \subseteq Nat
      BY <1>2
    <3> HIDE DEF Fail
    <3> QED BY <3>1, LeastNatural
  <2>2. /\ j \in 1..(n - k + 1)
        /\ Ahead(left, j) # Largest(Ahead(lots, k + j) - sell.qty, 0)
    OBVIOUS
  <2>3. Ahead(lots, k + j) \in Nat
    <3>1. k + j \in 1..(n + 1)
      BY <1>2, <2>2
    <3> QED BY <3>1, AheadIs
  <2>4. j # 1
    <3>1. Ahead(left, 1) = 0
      BY <1>1, AheadGrows
    <3>2. j = 1 => Largest(Ahead(lots, k + j) - sell.qty, 0) = 0
      BY <1>1, <2>3 DEF Largest
    <3> QED BY <2>2, <3>1, <3>2
  <2> DEFINE i == j - 1
  <2>5. /\ i \in 1..(n - k) /\ i + 1 = j /\ k + i \in 1..n /\ k + i + 1 = k + j
        /\ i \in 1..(n - k + 1) /\ i < j /\ i \in Nat
    BY <1>2, <2>2, <2>4
  <2>6. Ahead(left, i) = Largest(Ahead(lots, k + i) - sell.qty, 0)
    <3>1. i \notin Fail
      BY <2>1, <2>5
    <3> QED BY <2>5, <3>1
  <2> HIDE DEF i, Fail
  <2>7. Ahead(left, j) = Ahead(left, i) + Rest(left)[i]
    BY <1>1, <2>5, AheadGrows
  <2>8. Ahead(lots, k + j) = Ahead(lots, k + i) + Rest(lots)[k + i]
    BY <2>5, AheadGrows
  <2>9. matched_qty(lots, k + i, sell)
          = Least(sell.qty, Ahead(lots, k + j)) - Least(sell.qty, Ahead(lots, k + i))
    BY <2>5, MatchedIs
  <2>10. /\ Rest(left)[i] = Rest(lots)[k + i] - matched_qty(lots, k + i, sell)
         /\ Ahead(lots, k + j) > sell.qty
    BY <1>1, <2>5
  <2>11. Rest(lots)[k + i] \in Nat /\ Ahead(lots, k + i) \in Nat
    <3>1. k + i \in 1..(n + 1)
      BY <1>2, <2>5
    <3> QED BY <2>5, <3>1, RestType, AheadIs
  <2> QED BY <2>2, <2>3, <2>6, <2>7, <2>8, <2>9, <2>10, <2>11 DEF Least, Largest
<1>4. \A j \in 1..(n - k + 1) : Ahead(left, j) = Largest(Ahead(lots, k + j) - sell.qty, 0)
  BY <1>3
<1> QED BY <1>1, <1>4 DEF left

LEMMA ReducedIs ==
  ASSUME NEW lots \in Seq(LotType), NEW sell, sell.qty \in Nat
  PROVE  /\ Reduced(lots, sell) \in Seq(LotType)
         /\ Held(Reduced(lots, sell)) = Held(lots) - Least(sell.qty, Held(lots))
<1> DEFINE left == Reduced(lots, sell)
           n == Len(lots)
<1>1. PICK k \in 0..n :
         /\ left \in Seq(LotType) /\ Len(left) = n - k
         /\ \A j \in 1..(n - k + 1) : Ahead(left, j) = Largest(Ahead(lots, k + j) - sell.qty, 0)
  BY ReducedAhead
<1> HIDE DEF left
<1>2. n - k + 1 \in 1..(n - k + 1) /\ k + (n - k + 1) = n + 1 /\ n + 1 \in 1..(n + 1)
  BY <1>1, RestType
<1>3. Ahead(left, n - k + 1) = Largest(Ahead(lots, n + 1) - sell.qty, 0)
  BY <1>1, <1>2
<1>4. Held(left) = Ahead(left, n - k + 1) /\ Held(lots) = Ahead(lots, n + 1)
  BY <1>1, AheadGrows
<1>5. Held(lots) \in Nat
  BY <1>2, <1>4, AheadIs
<1>6. Largest(Held(lots) - sell.qty, 0) = Held(lots) - Least(sell.qty, Held(lots))
  BY <1>5 DEF Least, Largest
<1> QED BY <1>1, <1>3, <1>4, <1>6 DEF left

-----------------------------------------------------------------------------
(* The details of a sell.                                                    *)

Netted(d) == d.net_pnl = d.sell_amount - d.buy_amount - d.sell_tax - d.sell_fee

LEMMA RateIsInteger == ASSUME NEW num \in Int, NEW den \in Nat \ {0} PROVE Rate(num, den) \in Int
<1>1. ASSUME NEW n \in Nat PROVE MagnitudeRate(n, den) \in Int
  <2> DEFINE thousandths == (n % den) * 1000
             millionths == (thousandths % den) * 1000
  <2>1. n \div den \in Int /\ n % den \in Nat
    OBVIOUS
  <2>2. thousandths \in Nat /\ thousandths \div den \in Int /\ thousandths % den \in Nat
    BY <2>1
  <2>3. millionths \in Nat /\ millionths \div den \in Int
    BY <2>2
  <2> HIDE DEF thousandths, millionths
  <2> QED BY <2>1, <2>2, <2>3 DEF MagnitudeRate, thousandths, millionths
<1> QED BY <1>1 DEF Rate

LEMMA TaxAndFeeAreNatural ==
  ASSUME NEW a \in Nat
  PROVE  calc_sell_tax(a) \in Nat /\ calc_sell_fee(a) \in Nat
BY DEF calc_sell_tax, calc_sell_fee, HalfUp

LEMMA DetailType ==
  ASSUME NEW lot \in LotType, NEW sell \in Executions, NEW quantity \in Nat \ {0},
         NEW part \in Nat
  PROVE  LET d == calc_trade_detail(lot, sell, quantity, part)
         IN  /\ d \in Details /\ Netted(d)
             /\ d.id = <<sell.id, part>> /\ d.sym = sell.sym /\ d.quantity = quantity
             /\ d.buy_executed_at = lot.at
<1> DEFINE bought == 100 * lot.price * quantity
           sold == 100 * sell.price * quantity
           net == sold - bought - calc_sell_tax(sold) - calc_sell_fee(sold)
           d == calc_trade_detail(lot, sell, quantity, part)
<1>1. /\ sell.id \in 1..MaxExecutions /\ sell.at \in DOMAIN MarketPrice
      /\ sell.sym \in Traded /\ sell.price \in Nat
  BY ExecutionTypes
<1>2. lot.at \in DOMAIN MarketPrice /\ lot.price \in Nat
  BY DEF LotType
<1>3. bought \in Nat /\ sold \in Nat
  <2>1. ASSUME NEW x \in Nat PROVE 100 * x * quantity \in Nat
    <3>1. 100 * x \in Nat
      OBVIOUS
    <3> QED BY <3>1
  <2> QED BY <1>1, <1>2, <2>1
<1>4. d = [id |-> <<sell.id, part>>, sym |-> sell.sym, quantity |-> quantity,
           buy_executed_at |-> lot.at, sell_executed_at |-> sell.at, buy_price |-> lot.price,
           buy_amount |-> bought, sell_amount |-> sold,
           sell_tax |-> calc_sell_tax(sold), sell_fee |-> calc_sell_fee(sold),
           net_pnl |-> net, return_rate |-> calc_return_rate(net, bought)]
  BY DEF calc_trade_detail
<1> HIDE DEF bought, sold, d
<1>5. calc_sell_tax(sold) \in Nat /\ calc_sell_fee(sold) \in Nat
  BY <1>3, TaxAndFeeAreNatural
<1>6. net \in Int
  BY <1>3, <1>5
<1>7. Netted(d)
  BY <1>4 DEF Netted
<1> HIDE DEF net
<1>8. calc_return_rate(net, bought) \in Int
  BY <1>3, <1>6, RateIsInteger DEF calc_return_rate
<1>9. d \in Details
  BY <1>1, <1>2, <1>3, <1>4, <1>5, <1>6, <1>8 DEF Details
<1> QED BY <1>4, <1>7, <1>9 DEF d

Paired(details) == SumFunction([d \in details |-> d.quantity])

LEMMA PairedIs ==
  ASSUME NEW C, C \subseteq Details, IsFiniteSet(C), NEW D, D \subseteq Details, IsFiniteSet(D)
  PROVE  /\ Paired(C) \in Nat
         /\ C \cap D = {} => Paired(C \cup D) = Paired(C) + Paired(D)
<1> DEFINE f == [d \in C \cup D |-> d.quantity]
           g == [d \in C |-> d.quantity]
           h == [d \in D |-> d.quantity]
<1>1. /\ \A x \in C \cup D : f[x] \in Nat
      /\ \A x \in C : f[x] = g[x] /\ g[x] \in Nat
      /\ \A x \in D : f[x] = h[x]
  BY DEF Details
<1>2. /\ Paired(C \cup D) = SumFunctionOnSet(f, C \cup D)
      /\ Paired(C) = SumFunctionOnSet(g, C)
      /\ Paired(D) = SumFunctionOnSet(h, D)
  BY DEF Paired, SumFunction
<1> HIDE DEF f, g, h
<1>3. Paired(C) \in Nat
  BY <1>1, <1>2, SumIsNatural
<1>4. SumFunctionOnSet(f, C) = SumFunctionOnSet(g, C)
  BY <1>1, SumOfTheSame
<1>5. SumFunctionOnSet(f, D) = SumFunctionOnSet(h, D)
  BY <1>1, SumOfTheSame
<1>6. ASSUME C \cap D = {}
      PROVE  SumFunctionOnSet(f, C \cup D) = SumFunctionOnSet(f, C) + SumFunctionOnSet(f, D)
  <2>1. \A x \in C \cup D : f[x] \in Int
    BY <1>1
  <2> QED BY <1>6, <2>1, SumOfUnion
<1> QED BY <1>2, <1>3, <1>4, <1>5, <1>6

(* What a sell adds to the details: under its own key, of its symbol, and in *)
(* all as many shares as it wanted or there were.                            *)
Adds(lots, sell) ==
  {calc_trade_detail(lots[i], sell, matched_qty(lots, i, sell), i - 1) :
     i \in {k \in DOMAIN lots : matched_qty(lots, k, sell) > 0}}

Taken(lots, sell) == [i \in 1..Len(lots) |-> matched_qty(lots, i, sell)]

LEMMA AddsIs ==
  ASSUME NEW lots \in Seq(LotType), NEW sell \in Executions
  PROVE  /\ IsFiniteSet(Adds(lots, sell)) /\ Adds(lots, sell) \subseteq Details
         /\ \A d \in Adds(lots, sell) : d.sym = sell.sym /\ d.id[1] = sell.id /\ Netted(d)
         /\ \A c, d \in Adds(lots, sell) : c.id = d.id => c = d
         /\ Paired(Adds(lots, sell)) = Least(sell.qty, Held(lots))
<1> DEFINE D == Adds(lots, sell)
           I == {k \in 1..Len(lots) : matched_qty(lots, k, sell) > 0}
           h == [i \in I |-> calc_trade_detail(lots[i], sell, matched_qty(lots, i, sell), i - 1)]
           f == [d \in D |-> d.quantity]
           taken == Taken(lots, sell)
<1>1. Len(lots) \in Nat /\ DOMAIN lots = 1..Len(lots) /\ sell.qty \in Nat
  BY RestType, ExecutionTypes
<1>2. D = {h[i] : i \in I}
  BY <1>1 DEF Adds
<1>3. ASSUME NEW i \in I
      PROVE  /\ h[i] \in Details /\ Netted(h[i])
             /\ h[i].id = <<sell.id, i - 1>> /\ h[i].sym = sell.sym
             /\ h[i].quantity = matched_qty(lots, i, sell)
  <2>1. i \in 1..Len(lots) /\ lots[i] \in LotType /\ i - 1 \in Nat
    BY <1>1, RestType
  <2>2. matched_qty(lots, i, sell) \in Nat \ {0}
    BY <1>1, <2>1, MatchedIs
  <2> QED BY <2>1, <2>2, DetailType
<1>4. IsFiniteSet(1..Len(lots)) /\ I \subseteq 1..Len(lots) /\ IsFiniteSet(I)
  <2>1. IsFiniteSet(1..Len(lots)) /\ I \subseteq 1..Len(lots)
    BY <1>1, IntervalIsFinite
  <2> HIDE DEF I
  <2> QED BY <2>1, FS_Subset
<1>5. \A i, j \in I : h[i].id = h[j].id => i = j
  <2>1. ASSUME NEW i \in I, NEW j \in I, h[i].id = h[j].id PROVE i = j
    <3>1. <<sell.id, i - 1>> = <<sell.id, j - 1>>
      BY <1>3, <2>1
    <3>2. i - 1 = j - 1
      BY <3>1
    <3>3. i \in Int /\ j \in Int
      BY <1>1, <1>4
    <3> QED BY <3>2, <3>3
  <2> QED BY <2>1
<1>6. \A i \in 1..Len(lots) : taken[i] = matched_qty(lots, i, sell) /\ taken[i] \in Nat
  BY <1>1, MatchedIs DEF Taken
<1>7. Renames(h, I, D)
  BY <1>2, <1>5 DEF Renames
<1> HIDE DEF h
<1>8. \A d \in D : d \in Details /\ Netted(d) /\ d.sym = sell.sym /\ d.id[1] = sell.id
  BY <1>2, <1>3
<1>9. \A c, d \in D : c.id = d.id => c = d
  BY <1>2, <1>5
<1>10. Carried(f, h, taken, I)
  <2>1. \A i \in I : h[i] \in D /\ f[h[i]] = h[i].quantity
    BY <1>2
  <2> QED BY <1>3, <1>4, <1>6, <2>1 DEF Carried
<1>11. IsFiniteSet(D) /\ SumFunctionOnSet(f, D) = SumFunctionOnSet(taken, I)
  <2> HIDE DEF f, D, I, taken
  <2> QED BY <1>4, <1>7, <1>10, SumRenamed
<1>12. SumFunctionOnSet(taken, 1..Len(lots)) = SumFunctionOnSet(taken, I)
  <2> DEFINE N == (1..Len(lots)) \ I
  <2>1. 1..Len(lots) = I \cup N /\ I \cap N = {} /\ N \subseteq 1..Len(lots)
    BY <1>4
  <2>2. IsFiniteSet(N)
    BY <1>4, <2>1, FS_Subset
  <2>3. \A i \in N : taken[i] = 0
    BY <1>6
  <2>4. \A i \in I \cup N : taken[i] \in Int
    BY <1>6, <2>1
  <2> HIDE DEF N, I, taken
  <2>5. SumFunctionOnSet(taken, I \cup N) = SumFunctionOnSet(taken, I) + SumFunctionOnSet(taken, N)
    BY <1>4, <2>1, <2>2, <2>4, SumOfUnion
  <2>6. SumFunctionOnSet(taken, N) = 0
    BY <2>2, <2>3, SumOfZeros
  <2>7. SumFunctionOnSet(taken, I) \in Int
    BY <1>4, <2>4, SumIsInteger
  <2>8. SumFunctionOnSet(taken, I \cup N) = SumFunctionOnSet(taken, I)
    BY <2>5, <2>6, <2>7
  <2> QED BY <2>1, <2>8
<1>13. SumFunctionOnSet(taken, 1..Len(lots)) = Least(sell.qty, Held(lots))
  <2> HIDE DEF taken
  <2> QED BY <1>1, <1>6, MatchedInAll
<1>14. Paired(D) = SumFunctionOnSet(f, D)
  BY DEF Paired, SumFunction
<1> HIDE DEF D, I, f, taken
<1>15. Paired(D) = Least(sell.qty, Held(lots))
  BY <1>11, <1>12, <1>13, <1>14
<1> QED BY <1>8, <1>9, <1>11, <1>15 DEF D

-----------------------------------------------------------------------------
(* The book after the executions of `done`: every detail has a key of its    *)
(* own, under the key of an execution accounted for, and every share of a    *)
(* symbol that was bought is paired or still held.                           *)

Bought(done, s) == Qty(Of(done, s, "BUY"))

About(details, s) == {d \in details : d.sym = s}

Book(book, done) ==
  /\ book \in [lots : [Traded -> Seq(LotType)], details : SUBSET Details]
  /\ IsFiniteSet(book.details)
  /\ \A d \in book.details : Netted(d) /\ \E e \in done : e.id = d.id[1]
  /\ \A c, d \in book.details : c.id = d.id => c = d
  /\ \A s \in Traded : Bought(done, s) = Paired(About(book.details, s)) + Held(book.lots[s])

LEMMA HeldIsNatural ==
  ASSUME NEW lots \in Seq(LotType)
  PROVE  Held(lots) \in Nat
BY AheadGrows, AheadIs, RestType

LEMMA QtyIs ==
  ASSUME NEW E, Ledger(E), NEW T, T \subseteq E
  PROVE  /\ Qty(T) \in Nat
         /\ Qty(T) <= Qty(E)
         /\ \A e \in T : Qty(T) = e.qty + Qty(T \ {e})
<1> DEFINE f == [e \in E |-> e.qty]
<1>1. \A e \in E : f[e] \in Nat /\ f[e] = e.qty
  BY ExecutionTypes DEF Ledger
<1>2. IsFiniteSet(E)
  BY DEF Ledger
<1>3. ASSUME NEW U, U \subseteq E PROVE IsFiniteSet(U) /\ Qty(U) = SumFunctionOnSet(f, U)
  <2> DEFINE g == [e \in U |-> e.qty]
  <2>1. IsFiniteSet(U)
    BY <1>2, <1>3, FS_Subset
  <2>2. \A e \in U : f[e] = g[e]
    BY <1>3
  <2>3. Qty(U) = SumFunctionOnSet(g, U)
    BY DEF Qty, SumFunction
  <2> HIDE DEF f, g
  <2>4. SumFunctionOnSet(f, U) = SumFunctionOnSet(g, U)
    BY <2>1, <2>2, SumOfTheSame
  <2> QED BY <2>1, <2>3, <2>4
<1> HIDE DEF f
<1>4. IsFiniteSet(T) /\ Qty(T) = SumFunctionOnSet(f, T) /\ Qty(E) = SumFunctionOnSet(f, E)
  BY <1>3
<1>5. \A e \in T : f[e] \in Nat
  BY <1>1
<1>6. SumFunctionOnSet(f, T) \in Nat
  BY <1>4, <1>5, SumIsNatural
<1>7. SumFunctionOnSet(f, T) <= SumFunctionOnSet(f, E)
  BY <1>1, <1>2, SumMonotone
<1>8. ASSUME NEW e \in T PROVE Qty(T) = e.qty + Qty(T \ {e})
  <2>1. Qty(T \ {e}) = SumFunctionOnSet(f, T \ {e})
    BY <1>3
  <2>2. \A x \in T : f[x] \in Int
    BY <1>5
  <2>3. SumFunctionOnSet(f, T) = f[e] + SumFunctionOnSet(f, T \ {e})
    BY <1>4, <2>2, SumWithout
  <2> QED BY <1>1, <1>4, <2>1, <2>3
<1> QED BY <1>4, <1>6, <1>7, <1>8

LEMMA AboutIs ==
  ASSUME NEW D, D \subseteq Details, IsFiniteSet(D), NEW s
  PROVE  About(D, s) \subseteq Details /\ IsFiniteSet(About(D, s)) /\ Paired(About(D, s)) \in Nat
<1>1. About(D, s) \subseteq D
  BY DEF About
<1>2. IsFiniteSet(About(D, s))
  BY <1>1, FS_Subset
<1> QED BY <1>1, <1>2, PairedIs

LEMMA QueuedIs ==
  ASSUME NEW lots \in Seq(LotType), NEW e \in Executions
  PROVE  queued(lots, e) \in Seq(LotType) /\ Held(queued(lots, e)) = Held(lots) + e.qty
<1> DEFINE n == Len(lots)
           more == queued(lots, e)
<1>1. Lot(e) \in LotType /\ Lot(e).remaining_qty = e.qty /\ e.qty \in Nat
  BY ExecutionTypes DEF Lot, LotType
<1>2. /\ more \in Seq(LotType) /\ Len(more) = n + 1
      /\ \A i \in 1..n : more[i] = lots[i]
      /\ more[n + 1] = Lot(e)
  BY <1>1, AppendProperties DEF queued
<1>3. n \in Nat
  OBVIOUS
<1> HIDE DEF more, n
<1>4. \A i \in 1..(n + 1) : Rest(more)[i] \in Int
  BY <1>2, RestType
<1>5. Rest(more)[n + 1] = e.qty
  BY <1>1, <1>2, <1>3 DEF Rest
<1>6. IsFiniteSet(1..(n + 1)) /\ IsFiniteSet(1..n)
  <2>1. n + 1 \in Int
    BY <1>3
  <2> QED BY <1>3, <2>1, IntervalIsFinite
<1>7. n + 1 \in 1..(n + 1) /\ (1..(n + 1)) \ {n + 1} = 1..n
  BY <1>3
<1>8. SumFunctionOnSet(Rest(more), 1..(n + 1))
        = Rest(more)[n + 1] + SumFunctionOnSet(Rest(more), (1..(n + 1)) \ {n + 1})
  BY <1>4, <1>6, <1>7, SumWithout
<1>9. SumFunctionOnSet(Rest(more), 1..n) = SumFunctionOnSet(Rest(lots), 1..n)
  <2>1. \A i \in 1..n : Rest(more)[i] = Rest(lots)[i]
    BY <1>2, <1>3 DEF Rest, n
  <2> QED BY <1>6, <2>1, SumOfTheSame
<1>10. Held(more) = e.qty + Held(lots)
  BY <1>2, <1>5, <1>7, <1>8, <1>9 DEF Held, n
<1> QED BY <1>1, <1>2, <1>10, HeldIsNatural DEF more

(* One more execution: what it does to the book.                             *)
LEMMA AccountIs ==
  ASSUME NEW book \in [lots : [Traded -> Seq(LotType)], details : SUBSET Details],
         NEW e \in Executions
  PROVE  LET lots == book.lots[e.sym]
             next == Account(book, e)
         IN  /\ e.side = "BUY" =>
                  /\ next.lots = [book.lots EXCEPT ![e.sym] = queued(lots, e)]
                  /\ next.details = book.details
             /\ e.side # "BUY" =>
                  /\ next.lots = [book.lots EXCEPT ![e.sym] = Reduced(lots, e)]
                  /\ next.details = book.details \cup Adds(lots, e)
             /\ next = [lots |-> next.lots, details |-> next.details]
BY DEF Account, Adds

(* A sell pairs as many shares of its symbol as it wants or there are.       *)
LEMMA SellAdds ==
  ASSUME NEW done, NEW e, e \notin done, Ledger(done \cup {e}), e.side # "BUY",
         NEW book, Book(book, done)
  PROVE  LET lots == book.lots[e.sym]
             next == Account(book, e)
         IN  /\ next.details \subseteq Details /\ IsFiniteSet(next.details)
             /\ \A d \in next.details : Netted(d) /\ \E x \in done \cup {e} : x.id = d.id[1]
             /\ \A c, d \in next.details : c.id = d.id => c = d
             /\ \A s \in Traded \ {e.sym} : About(next.details, s) = About(book.details, s)
             /\ Paired(About(next.details, e.sym))
                  = Paired(About(book.details, e.sym)) + Least(e.qty, Held(lots))
<1> DEFINE next == Account(book, e)
           lots == book.lots[e.sym]
           new == Adds(lots, e)
           s == e.sym
<1>1. e \in Executions /\ e.sym \in Traded /\ e.qty \in Nat
  BY ExecutionTypes DEF Ledger
<1>2. /\ book \in [lots : [Traded -> Seq(LotType)], details : SUBSET Details]
      /\ lots \in Seq(LotType)
      /\ book.details \subseteq Details /\ IsFiniteSet(book.details)
      /\ \A d \in book.details : Netted(d) /\ \E x \in done : x.id = d.id[1]
      /\ \A c, d \in book.details : c.id = d.id => c = d
  BY <1>1 DEF Book
<1>3. /\ IsFiniteSet(new) /\ new \subseteq Details
      /\ \A d \in new : d.sym = e.sym /\ d.id[1] = e.id /\ Netted(d)
      /\ \A c, d \in new : c.id = d.id => c = d
      /\ Paired(new) = Least(e.qty, Held(lots))
  BY <1>1, <1>2, AddsIs
<1>4. next.details = book.details \cup new
  BY <1>1, <1>2, AccountIs
<1> HIDE DEF new, next
<1>5. next.details \subseteq Details /\ IsFiniteSet(next.details)
  <2>1. IsFiniteSet(book.details \cup new)
    BY <1>2, <1>3, FS_Union
  <2> QED BY <1>2, <1>3, <1>4, <2>1
<1>6. \A c \in book.details : \A d \in new : c.id # d.id /\ c # d
  <2>1. \A x \in done : x.id # e.id
    BY DEF Ledger
  <2>2. \A d \in book.details : d.id[1] # e.id
    BY <1>2, <2>1
  <2> QED BY <1>3, <2>2
<1>7. \A c, d \in next.details : c.id = d.id => c = d
  BY <1>2, <1>3, <1>4, <1>6
<1>8. \A d \in next.details : Netted(d) /\ \E x \in done \cup {e} : x.id = d.id[1]
  BY <1>2, <1>3, <1>4
<1>9. \A r \in Traded \ {s} : About(next.details, r) = About(book.details, r)
  BY <1>3, <1>4 DEF About
<1>10. Paired(About(next.details, s)) = Paired(About(book.details, s)) + Paired(new)
  <2>1. /\ About(next.details, s) = About(book.details, s) \cup new
        /\ About(book.details, s) \cap new = {}
    BY <1>3, <1>4, <1>6 DEF About
  <2>2. About(book.details, s) \subseteq Details /\ IsFiniteSet(About(book.details, s))
    BY <1>2, AboutIs
  <2> QED BY <1>3, <2>1, <2>2, PairedIs
<1> QED BY <1>3, <1>5, <1>7, <1>8, <1>9, <1>10 DEF next

LEMMA AccountKeepsBook ==
  ASSUME NEW done, NEW e, e \notin done, Ledger(done \cup {e}),
         NEW book, Book(book, done)
  PROVE  Book(Account(book, e), done \cup {e})
<1> DEFINE next == Account(book, e)
           lots == book.lots[e.sym]
           all == done \cup {e}
<1>1. e \in Executions /\ e.sym \in Traded /\ e.qty \in Nat /\ e.side \in Sides
  BY ExecutionTypes DEF Ledger
<1>2. /\ book \in [lots : [Traded -> Seq(LotType)], details : SUBSET Details]
      /\ book.lots \in [Traded -> Seq(LotType)] /\ lots \in Seq(LotType)
      /\ book.details \subseteq Details /\ IsFiniteSet(book.details)
  BY <1>1 DEF Book
<1>3. /\ e.side = "BUY" =>
           /\ next.lots = [book.lots EXCEPT ![e.sym] = queued(lots, e)]
           /\ next.details = book.details
      /\ e.side # "BUY" =>
           /\ next.lots = [book.lots EXCEPT ![e.sym] = Reduced(lots, e)]
           /\ next.details = book.details \cup Adds(lots, e)
      /\ next = [lots |-> next.lots, details |-> next.details]
  BY <1>1, <1>2, AccountIs
<1>4. \A s \in Traded :
        Of(all, s, "BUY") = IF e.sym = s /\ e.side = "BUY"
                            THEN Of(done, s, "BUY") \cup {e} ELSE Of(done, s, "BUY")
  BY DEF Of
<1>5. ASSUME NEW s \in Traded
      PROVE  Bought(all, s) = IF e.sym = s /\ e.side = "BUY"
                              THEN Bought(done, s) + e.qty ELSE Bought(done, s)
  <2>1. CASE e.sym = s /\ e.side = "BUY"
    <3> DEFINE old == Of(done, s, "BUY")
               new == Of(all, s, "BUY")
    <3>1. new \subseteq all /\ e \in new /\ new \ {e} = old /\ old \subseteq all
      BY <1>4, <2>1 DEF Of
    <3> HIDE DEF old, new, all
    <3>2. Ledger(all)
      BY DEF all
    <3>3. Qty(new) = e.qty + Qty(old) /\ Qty(old) \in Nat
      BY <3>1, <3>2, QtyIs
    <3> QED BY <1>1, <2>1, <3>3 DEF Bought, old, new
  <2>2. CASE ~(e.sym = s /\ e.side = "BUY")
    BY <1>4, <2>2 DEF Bought
  <2> QED BY <2>1, <2>2
<1>6. /\ \A d \in book.details : Netted(d) /\ \E x \in done : x.id = d.id[1]
      /\ \A c, d \in book.details : c.id = d.id => c = d
      /\ \A s \in Traded : /\ Bought(done, s) = Paired(About(book.details, s)) + Held(book.lots[s])
                           /\ Paired(About(book.details, s)) \in Nat
                           /\ Held(book.lots[s]) \in Nat
  BY <1>2, AboutIs, HeldIsNatural DEF Book
<1> HIDE DEF next, all
<1>7. CASE e.side = "BUY"
  <2>1. queued(lots, e) \in Seq(LotType) /\ Held(queued(lots, e)) = Held(lots) + e.qty
    BY <1>1, <1>2, QueuedIs
  <2>2. next.lots \in [Traded -> Seq(LotType)] /\ next.details = book.details
    BY <1>1, <1>2, <1>3, <1>7, <2>1
  <2>3. next \in [lots : [Traded -> Seq(LotType)], details : SUBSET Details]
    BY <1>2, <1>3, <2>2
  <2>4. ASSUME NEW s \in Traded
        PROVE  Bought(all, s) = Paired(About(next.details, s)) + Held(next.lots[s])
    <3>1. CASE s = e.sym
      <4>1. next.lots[s] = queued(lots, e)
        BY <1>1, <1>2, <1>3, <1>7, <3>1
      <4> QED BY <1>1, <1>5, <1>6, <1>7, <2>1, <2>2, <3>1, <4>1
    <3>2. CASE s # e.sym
      <4>1. next.lots[s] = book.lots[s]
        BY <1>1, <1>2, <1>3, <1>7, <3>2
      <4> QED BY <1>5, <1>6, <2>2, <3>2, <4>1
    <3> QED BY <3>1, <3>2
  <2>5. \A d \in next.details : \E x \in all : x.id = d.id[1]
    BY <1>6, <2>2 DEF all
  <2> QED BY <1>2, <1>6, <2>2, <2>3, <2>4, <2>5 DEF Book, next, all
<1>8. CASE e.side # "BUY"
  <2>1. /\ next.details \subseteq Details /\ IsFiniteSet(next.details)
        /\ \A d \in next.details : Netted(d) /\ \E x \in all : x.id = d.id[1]
        /\ \A c, d \in next.details : c.id = d.id => c = d
        /\ \A s \in Traded \ {e.sym} : About(next.details, s) = About(book.details, s)
        /\ Paired(About(next.details, e.sym))
             = Paired(About(book.details, e.sym)) + Least(e.qty, Held(lots))
    BY <1>8, SellAdds DEF next, all
  <2>2. /\ Reduced(lots, e) \in Seq(LotType)
        /\ Held(Reduced(lots, e)) = Held(lots) - Least(e.qty, Held(lots))
    BY <1>1, <1>2, ReducedIs
  <2>3. next.lots \in [Traded -> Seq(LotType)]
    BY <1>1, <1>2, <1>3, <1>8, <2>2
  <2>4. next \in [lots : [Traded -> Seq(LotType)], details : SUBSET Details]
    BY <1>3, <2>1, <2>3
  <2>5. ASSUME NEW s \in Traded
        PROVE  Bought(all, s) = Paired(About(next.details, s)) + Held(next.lots[s])
    <3>1. CASE s = e.sym
      <4>1. next.lots[s] = Reduced(lots, e)
        BY <1>1, <1>2, <1>3, <1>8, <3>1
      <4>2. Least(e.qty, Held(lots)) \in Int /\ Held(lots) \in Int
        BY <1>1, <1>6 DEF Least
      <4> QED BY <1>5, <1>6, <1>8, <2>1, <2>2, <3>1, <4>1, <4>2
    <3>2. CASE s # e.sym
      <4>1. next.lots[s] = book.lots[s]
        BY <1>1, <1>2, <1>3, <1>8, <3>2
      <4> QED BY <1>5, <1>6, <2>1, <3>2, <4>1
    <3> QED BY <3>1, <3>2
  <2> QED BY <2>1, <2>4, <2>5 DEF Book, next, all
<1> QED BY <1>7, <1>8

LEMMA EmptyBook == Book(NoBook, {})
<1>1. NoBook \in [lots : [Traded -> Seq(LotType)], details : SUBSET Details]
  BY DEF NoBook
<1>2. NoBook.details = {} /\ IsFiniteSet({}) /\ \A s \in Traded : NoBook.lots[s] = <<>>
  BY FS_EmptySet DEF NoBook
<1>3. Paired({}) = 0 /\ Qty({}) = 0
  BY SumOfNothing DEF Paired, Qty, SumFunction
<1>4. Held(<<>>) = 0
  <2>1. 1..Len(<<>>) = {}
    OBVIOUS
  <2> QED BY <2>1, SumOfNothing DEF Held
<1>5. \A s \in Traded : Bought({}, s) = 0 /\ About({}, s) = {}
  <2>1. \A s \in Traded : Of({}, s, "BUY") = {} /\ About({}, s) = {}
    BY DEF Of, About
  <2> QED BY <1>3, <2>1 DEF Bought
<1>6. \A s \in Traded : Bought({}, s) = Paired(About(NoBook.details, s)) + Held(NoBook.lots[s])
  <2> TAKE s \in Traded
  <2>1. Bought({}, s) = 0 /\ About(NoBook.details, s) = {} /\ NoBook.lots[s] = <<>>
    BY <1>2, <1>5
  <2>2. Paired(About(NoBook.details, s)) = 0 /\ Held(NoBook.lots[s]) = 0
    BY <1>3, <1>4, <2>1
  <2> QED BY <2>1, <2>2
<1> QED BY <1>1, <1>2, <1>6 DEF Book

LEMMA BooksAreKept ==
  ASSUME NEW E, Ledger(E), NEW after, Books(after, E)
  PROVE  \A done \in SUBSET E : Book(after[done], done)
<1> DEFINE Fail == {done \in SUBSET E : ~Book(after[done], done)}
<1> SUFFICES ASSUME Fail # {} PROVE FALSE
  OBVIOUS
<1>1. PICK done \in Fail : \A u \in Fail : u \subseteq done => u = done
  <2>1. Fail \subseteq SUBSET E /\ IsFiniteSet(E)
    BY DEF Ledger
  <2> HIDE DEF Fail
  <2> QED BY <2>1, MinimalSubset
<1>2. done \in SUBSET E /\ ~Book(after[done], done)
  OBVIOUS
<1>3. after[done] = BookStep(after, done)
  BY <1>2 DEF Books
<1>4. done # {}
  BY <1>2, <1>3, EmptyBook DEF BookStep
<1> DEFINE e == Latest(done)
           before == done \ {e}
<1>5. Ledger(done) /\ e \in done
  BY <1>2, <1>4, PartOfLedger, LatestIsLast
<1>6. before \in SUBSET E /\ before \notin Fail
  BY <1>1, <1>2, <1>5
<1>7. Book(after[before], before) /\ after[done] = Account(after[before], e)
  BY <1>3, <1>4, <1>6 DEF BookStep
<1>8. before \cup {e} = done /\ e \notin before
  BY <1>5
<1> HIDE DEF e, before, Fail
<1>9. Book(Account(after[before], e), before \cup {e})
  BY <1>5, <1>7, <1>8, AccountKeepsBook
<1> QED BY <1>2, <1>7, <1>8, <1>9

(* What build_trade_details returns.                                         *)
LEMMA DetailsAre ==
  ASSUME NEW E, Ledger(E)
  PROVE  LET details == build_trade_details(E)
         IN  /\ details \subseteq Details /\ IsFiniteSet(details)
             /\ \A d \in details : Netted(d)
             /\ \A c, d \in details : c.id = d.id => c = d
<1>1. PICK after : Books(after, E)
  BY BooksExist
<1>2. build_trade_details(E) = after[E].details
  BY <1>1, DetailsOfBook
<1>3. Book(after[E], E)
  BY <1>1, BooksAreKept
<1> QED BY <1>2, <1>3 DEF Book

-----------------------------------------------------------------------------
(* The report of a set of details.                                           *)

LEMMA ReportOfDetails ==
  ASSUME NEW details, details \subseteq Details, IsFiniteSet(details),
         \A d \in details : Netted(d)
  PROVE  LET report == aggregate_daily_report(details)
         IN  /\ report.total_sell_amount \in Nat
             /\ report.total_net_pnl = report.total_sell_amount - report.total_buy_amount
                                         - report.total_sell_tax - report.total_sell_fee
<1> DEFINE buy == [d \in details |-> d.buy_amount]
           sell == [d \in details |-> d.sell_amount]
           tax == [d \in details |-> d.sell_tax]
           fee == [d \in details |-> d.sell_fee]
           net == [d \in details |-> d.net_pnl]
           gross == [d \in details |-> d.sell_amount - d.buy_amount]
           taxed == [d \in details |-> d.sell_amount - d.buy_amount - d.sell_tax]
           Sum(f) == SumFunctionOnSet(f, details)
           report == aggregate_daily_report(details)
<1>1. /\ report.total_sell_amount = Sum(sell) /\ report.total_buy_amount = Sum(buy)
      /\ report.total_sell_tax = Sum(tax) /\ report.total_sell_fee = Sum(fee)
      /\ report.total_net_pnl = Sum(net)
  BY DEF aggregate_daily_report, SumFunction
<1>2. \A d \in details :
        /\ sell[d] \in Nat /\ buy[d] \in Int /\ tax[d] \in Int /\ fee[d] \in Int
        /\ gross[d] \in Int /\ taxed[d] \in Int
        /\ gross[d] = sell[d] - buy[d]
        /\ taxed[d] = gross[d] - tax[d]
        /\ net[d] = taxed[d] - fee[d]
  BY DEF Details, Netted
<1> HIDE DEF buy, sell, tax, fee, net, gross, taxed, report
<1>3. Sum(sell) \in Nat
  BY <1>2, SumIsNatural
<1>4. \A d \in details : sell[d] \in Int /\ buy[d] \in Int /\ gross[d] = sell[d] - buy[d]
  BY <1>2
<1>5. \A d \in details : gross[d] \in Int /\ tax[d] \in Int /\ taxed[d] = gross[d] - tax[d]
  BY <1>2
<1>6. \A d \in details : taxed[d] \in Int /\ fee[d] \in Int /\ net[d] = taxed[d] - fee[d]
  BY <1>2
<1>7. Sum(gross) = Sum(sell) - Sum(buy)
  BY <1>4, SumOfDifference
<1>8. Sum(taxed) = Sum(gross) - Sum(tax)
  BY <1>5, SumOfDifference
<1>9. Sum(net) = Sum(taxed) - Sum(fee)
  BY <1>6, SumOfDifference
<1> HIDE DEF Sum
<1>10. Sum(net) = Sum(sell) - Sum(buy) - Sum(tax) - Sum(fee)
  BY <1>7, <1>8, <1>9
<1> QED BY <1>1, <1>3, <1>10 DEF report

-----------------------------------------------------------------------------
(* The ledger, the job and the tables.                                       *)

Settled(details) ==
  /\ details \subseteq Details /\ IsFiniteSet(details)
  /\ \A d \in details : Netted(d)

(* The stored report is that of the stored details unless the last           *)
(* generation was cut between its transactions; while it is between them,    *)
(* the details it stored are those it will report.                           *)
Types ==
  /\ Ledger(execution_events)
  /\ Settled(trade_details)
  /\ daily_report = NoReport \/ daily_report.total_sell_amount \in Nat
  /\ job = NoJob \/ (/\ job \in [at : {"details", "report"}, details : SUBSET Details]
                     /\ Settled(job.details)
                     /\ \A d, e \in job.details : d.id = e.id => d = e)
  /\ interrupted \in BOOLEAN /\ crashes \in 0..MaxCrashes

Reported ==
  /\ job.at = "report" => trade_details = job.details
  /\ ~interrupted /\ daily_report # NoReport =>
       daily_report = aggregate_daily_report(trade_details)

IInv == Types /\ Reported

LEMMA InitIInv == Init => IInv
<1> SUFFICES ASSUME Init PROVE IInv
  OBVIOUS
<1>1. IsFiniteSet({})
  BY FS_EmptySet
<1>2. Types
  <2>1. Ledger(execution_events) /\ Settled(trade_details)
    BY <1>1 DEF Init, Ledger, Settled
  <2>2. /\ daily_report = NoReport /\ job = NoJob
        /\ interrupted \in BOOLEAN
    BY DEF Init
  <2>3. crashes \in 0..MaxCrashes
    BY ReportingAssumption DEF Init
  <2> QED BY <2>1, <2>2, <2>3 DEF Types
<1> QED BY <1>2 DEF Init, IInv, Reported, NoJob, NoReport

LEMMA NextIInv == IInv /\ [Next]_vars => IInv'
<1> SUFFICES ASSUME IInv, [Next]_vars PROVE IInv'
  OBVIOUS
<1> USE DEF IInv
<1>1. CASE append_execution_event
  <2>1. PICK e \in Executions :
          /\ \A f \in execution_events : f.id # e.id
          /\ execution_events' = execution_events \cup {e}
    BY <1>1 DEF append_execution_event
  <2>2. Ledger(execution_events')
    <3>1. IsFiniteSet(execution_events \cup {e})
      BY FS_AddElement DEF Types, Ledger
    <3> QED BY <2>1, <3>1 DEF Types, Ledger
  <2> QED BY <1>1, <2>2 DEF append_execution_event, Types, Reported
<1>2. CASE generate_daily_report
  <2>1. Settled(job'.details) /\ \A d, e \in job'.details : d.id = e.id => d = e
    <3>1. job'.details = build_trade_details(execution_events)
      BY <1>2 DEF generate_daily_report
    <3> QED BY <3>1, DetailsAre DEF Types, Settled
  <2>2. job' \in [at : {"details", "report"}, details : SUBSET Details] /\ job'.at = "details"
    <3>1. job' = [at |-> "details", details |-> job'.details]
      BY <1>2 DEF generate_daily_report
    <3> QED BY <2>1, <3>1 DEF Settled
  <2> QED BY <1>2, <2>1, <2>2 DEF generate_daily_report, Types, Reported
<1>3. CASE upsert_trade_details
  <2>1. /\ job \in [at : {"details", "report"}, details : SUBSET Details]
        /\ Settled(job.details) /\ \A d, e \in job.details : d.id = e.id => d = e
    BY <1>3 DEF upsert_trade_details, Types, NoJob
  <2>2. /\ job' \in [at : {"details", "report"}, details : SUBSET Details]
        /\ job'.details = job.details /\ trade_details' = job.details
    BY <1>3, <2>1 DEF upsert_trade_details
  <2>3. Types'
    BY <1>3, <2>1, <2>2 DEF upsert_trade_details, Types
  <2>4. Reported'
    BY <1>3, <2>2 DEF upsert_trade_details, Reported
  <2> QED BY <2>3, <2>4
<1>4. CASE upsert_daily_report
  <2>1. Settled(job.details) /\ trade_details = job.details
    BY <1>4 DEF upsert_daily_report, Types, Reported, NoJob
  <2>2. daily_report' = aggregate_daily_report(trade_details)
    BY <1>4, <2>1 DEF upsert_daily_report
  <2>3. daily_report'.total_sell_amount \in Nat
    BY <2>1, <2>2, ReportOfDetails DEF Settled
  <2>4. Types'
    BY <1>4, <2>3 DEF upsert_daily_report, Types
  <2>5. Reported'
    BY <1>4, <2>2 DEF upsert_daily_report, Reported, NoJob
  <2> QED BY <2>4, <2>5
<1>5. CASE Crash
  <2>1. crashes' \in 0..MaxCrashes
    BY <1>5, ReportingAssumption DEF Crash, Types
  <2> QED BY <1>5, <2>1 DEF Crash, Types, Reported, NoJob
<1>6. CASE UNCHANGED vars
  BY <1>6 DEF vars, Types, Reported
<1> QED BY <1>1, <1>2, <1>3, <1>4, <1>5, <1>6 DEF Next

LEMMA IInvHolds == Spec => []IInv
  BY InitIInv, NextIInv, PTL DEF Spec

(* Every reachable state has its types, and no generation stores two details *)
(* under one key, for any symbols, prices, quantities and crashes            *)
(* (_upsert_trade_details, prp/repository.py).                               *)
THEOREM TypeCorrect == Spec => []TypeOK
<1>1. IInv => TypeOK
  BY DEF IInv, Types, TypeOK, Ledger, Settled
<1> QED BY <1>1, IInvHolds, PTL

(* The stored report is the sum of the stored details, and its net what is   *)
(* left of the sells, however the amounts were rounded (generate_daily_report,*)
(* prp/repository.py, and aggregate_daily_report).                           *)
THEOREM ReportAddsUp == Spec => []ReportIsTheSumOfDetails
<1>1. IInv => ReportIsTheSumOfDetails
  <2> SUFFICES ASSUME IInv, ~interrupted, daily_report # NoReport
               PROVE  /\ daily_report.total_net_pnl
                           = SumFunction([d \in trade_details |-> d.net_pnl])
                      /\ daily_report.total_net_pnl
                           = daily_report.total_sell_amount - daily_report.total_buy_amount
                               - daily_report.total_sell_tax - daily_report.total_sell_fee
                      /\ daily_report.total_sell_amount
                           = SumFunction([d \in trade_details |-> d.sell_amount])
                      /\ daily_report.total_sell_tax
                           = SumFunction([d \in trade_details |-> d.sell_tax])
    BY DEF ReportIsTheSumOfDetails
  <2>1. daily_report = aggregate_daily_report(trade_details) /\ Settled(trade_details)
    BY DEF IInv, Types, Reported
  <2>2. daily_report.total_net_pnl
          = daily_report.total_sell_amount - daily_report.total_buy_amount
              - daily_report.total_sell_tax - daily_report.total_sell_fee
    BY <2>1, ReportOfDetails DEF Settled
  <2>3. /\ daily_report.total_net_pnl = SumFunction([d \in trade_details |-> d.net_pnl])
        /\ daily_report.total_sell_amount = SumFunction([d \in trade_details |-> d.sell_amount])
        /\ daily_report.total_sell_tax = SumFunction([d \in trade_details |-> d.sell_tax])
    BY <2>1 DEF aggregate_daily_report
  <2> QED BY <2>2, <2>3
<1> QED BY <1>1, IInvHolds, PTL

-----------------------------------------------------------------------------
(* An execution that arrives late.  It changes what the executions after it  *)
(* are paired with, but only those of its symbol; and as a sell leaves        *)
(* `paired` the smaller of what was bought and of what was paired before and *)
(* is sold now, more bought or paired before means no less paired after.     *)

Others(details, s) == {d \in details : d.sym # s}

OnlyAdds(more, less, s) ==
  /\ \A r \in Traded \ {s} : more.lots[r] = less.lots[r]
  /\ Others(more.details, s) = Others(less.details, s)
  /\ Paired(About(more.details, s)) >= Paired(About(less.details, s))

LEMMA LateExecutionAdds ==
  ASSUME NEW done, NEW e, e \notin done, Ledger(done \cup {e}),
         NEW book, Book(book, done)
  PROVE  OnlyAdds(Account(book, e), book, e.sym)
<1> DEFINE next == Account(book, e)
           lots == book.lots[e.sym]
           s == e.sym
<1>1. e \in Executions /\ e.sym \in Traded /\ e.qty \in Nat
  BY ExecutionTypes DEF Ledger
<1>2. /\ book \in [lots : [Traded -> Seq(LotType)], details : SUBSET Details]
      /\ book.lots \in [Traded -> Seq(LotType)] /\ lots \in Seq(LotType)
      /\ book.details \subseteq Details /\ IsFiniteSet(book.details)
  BY <1>1 DEF Book
<1>3. /\ e.side = "BUY" =>
           /\ next.lots = [book.lots EXCEPT ![e.sym] = queued(lots, e)]
           /\ next.details = book.details
      /\ e.side # "BUY" =>
           /\ next.lots = [book.lots EXCEPT ![e.sym] = Reduced(lots, e)]
           /\ next.details = book.details \cup Adds(lots, e)
  BY <1>1, <1>2, AccountIs
<1>4. Paired(About(book.details, s)) \in Nat /\ Held(lots) \in Nat
  BY <1>2, AboutIs, HeldIsNatural
<1> HIDE DEF next
<1>5. \A r \in Traded \ {s} : next.lots[r] = book.lots[r]
  BY <1>2, <1>3
<1>6. CASE e.side = "BUY"
  BY <1>3, <1>4, <1>5, <1>6 DEF OnlyAdds, next
<1>7. CASE e.side # "BUY"
  <2>1. Paired(About(next.details, s))
          = Paired(About(book.details, s)) + Least(e.qty, Held(lots))
    BY <1>7, SellAdds DEF next
  <2>2. Least(e.qty, Held(lots)) \in Nat
    BY <1>1, <1>4 DEF Least
  <2>3. Others(next.details, s) = Others(book.details, s)
    <3>1. \A d \in Adds(lots, e) : d.sym = e.sym
      BY <1>1, <1>2, AddsIs
    <3> QED BY <1>3, <1>7, <3>1 DEF Others
  <2> QED BY <1>4, <1>5, <2>1, <2>2, <2>3 DEF OnlyAdds, next
<1> QED BY <1>6, <1>7

LEMMA AccountOnlyAdds ==
  ASSUME NEW done, NEW e, e \notin done, NEW x, x \notin done \cup {e},
         Ledger((done \cup {e}) \cup {x}),
         NEW less, Book(less, done), NEW more, Book(more, done \cup {e}),
         OnlyAdds(more, less, e.sym)
  PROVE  OnlyAdds(Account(more, x), Account(less, x), e.sym)
<1> DEFINE s == e.sym
           more_ == Account(more, x)
           less_ == Account(less, x)
           q == x.sym
<1>1. /\ x \in Executions /\ x.sym \in Traded /\ x.qty \in Nat
      /\ e \in Executions /\ e.sym \in Traded
  BY ExecutionTypes DEF Ledger
<1>2. Ledger(done \cup {e}) /\ Ledger(done \cup {x}) /\ Ledger(done)
  BY PartOfLedger
<1>3. /\ more \in [lots : [Traded -> Seq(LotType)], details : SUBSET Details]
      /\ less \in [lots : [Traded -> Seq(LotType)], details : SUBSET Details]
      /\ more.lots \in [Traded -> Seq(LotType)] /\ less.lots \in [Traded -> Seq(LotType)]
      /\ IsFiniteSet(more.details) /\ IsFiniteSet(less.details)
      /\ more.details \subseteq Details /\ less.details \subseteq Details
  BY DEF Book
<1>4. /\ x.side = "BUY" =>
           /\ more_.lots = [more.lots EXCEPT ![q] = queued(more.lots[q], x)]
           /\ less_.lots = [less.lots EXCEPT ![q] = queued(less.lots[q], x)]
           /\ more_.details = more.details /\ less_.details = less.details
      /\ x.side # "BUY" =>
           /\ more_.lots = [more.lots EXCEPT ![q] = Reduced(more.lots[q], x)]
           /\ less_.lots = [less.lots EXCEPT ![q] = Reduced(less.lots[q], x)]
           /\ more_.details = more.details \cup Adds(more.lots[q], x)
           /\ less_.details = less.details \cup Adds(less.lots[q], x)
  BY <1>1, <1>3, AccountIs
<1>5. /\ \A r \in Traded \ {s} : more.lots[r] = less.lots[r]
      /\ Others(more.details, s) = Others(less.details, s)
      /\ Paired(About(more.details, s)) >= Paired(About(less.details, s))
  BY DEF OnlyAdds
<1>6. x.side # "BUY" =>
        /\ Paired(About(more_.details, q))
             = Paired(About(more.details, q)) + Least(x.qty, Held(more.lots[q]))
        /\ Paired(About(less_.details, q))
             = Paired(About(less.details, q)) + Least(x.qty, Held(less.lots[q]))
        /\ \A r \in Traded \ {q} : /\ About(more_.details, r) = About(more.details, r)
                                   /\ About(less_.details, r) = About(less.details, r)
  <2> SUFFICES ASSUME x.side # "BUY"
               PROVE  /\ Paired(About(more_.details, q))
                           = Paired(About(more.details, q)) + Least(x.qty, Held(more.lots[q]))
                      /\ Paired(About(less_.details, q))
                           = Paired(About(less.details, q)) + Least(x.qty, Held(less.lots[q]))
                      /\ \A r \in Traded \ {q} :
                           /\ About(more_.details, r) = About(more.details, r)
                           /\ About(less_.details, r) = About(less.details, r)
    OBVIOUS
  <2>1. /\ Paired(About(more_.details, q))
             = Paired(About(more.details, q)) + Least(x.qty, Held(more.lots[q]))
        /\ \A r \in Traded \ {q} : About(more_.details, r) = About(more.details, r)
    <3> DEFINE wide == done \cup {e}
    <3>1. x \notin wide /\ Ledger(wide \cup {x}) /\ Book(more, wide)
      OBVIOUS
    <3> HIDE DEF wide
    <3> QED BY <3>1, SellAdds
  <2>2. /\ Paired(About(less_.details, q))
             = Paired(About(less.details, q)) + Least(x.qty, Held(less.lots[q]))
        /\ \A r \in Traded \ {q} : About(less_.details, r) = About(less.details, r)
    <3>1. x \notin done
      OBVIOUS
    <3> QED BY <1>2, <3>1, SellAdds
  <2> QED BY <2>1, <2>2
<1>7. \A d \in Adds(more.lots[q], x) \cup Adds(less.lots[q], x) : d.sym = q
  <2>1. more.lots[q] \in Seq(LotType) /\ less.lots[q] \in Seq(LotType)
    BY <1>1, <1>3
  <2> QED BY <1>1, <2>1, AddsIs
<1> HIDE DEF more_, less_
<1>8. ASSUME NEW r \in Traded \ {s} PROVE more_.lots[r] = less_.lots[r]
  <2>1. more.lots[r] = less.lots[r]
    BY <1>5
  <2>2. CASE r # q
    <3>1. more_.lots[r] = more.lots[r] /\ less_.lots[r] = less.lots[r]
      BY <1>3, <1>4, <2>2
    <3> QED BY <2>1, <3>1
  <2>3. CASE r = q /\ x.side = "BUY"
    <3>1. more_.lots[r] = queued(more.lots[r], x) /\ less_.lots[r] = queued(less.lots[r], x)
      BY <1>1, <1>3, <1>4, <2>3
    <3> QED BY <2>1, <3>1
  <2>4. CASE r = q /\ x.side # "BUY"
    <3>1. more_.lots[r] = Reduced(more.lots[r], x) /\ less_.lots[r] = Reduced(less.lots[r], x)
      BY <1>1, <1>3, <1>4, <2>4
    <3> QED BY <2>1, <3>1
  <2> QED BY <2>2, <2>3, <2>4
<1>9. Others(more_.details, s) = Others(less_.details, s)
  <2>1. CASE x.side = "BUY"
    BY <1>4, <1>5, <2>1
  <2>2. CASE x.side # "BUY" /\ q = s
    <3>1. /\ Others(more_.details, s) = Others(more.details, s)
          /\ Others(less_.details, s) = Others(less.details, s)
      BY <1>4, <1>7, <2>2 DEF Others
    <3> QED BY <1>5, <3>1
  <2>3. CASE x.side # "BUY" /\ q # s
    <3>1. Adds(more.lots[q], x) = Adds(less.lots[q], x)
      BY <1>1, <1>5, <2>3
    <3>2. /\ Others(more_.details, s) = Others(more.details, s) \cup Adds(more.lots[q], x)
          /\ Others(less_.details, s) = Others(less.details, s) \cup Adds(less.lots[q], x)
      BY <1>4, <1>7, <2>3 DEF Others
    <3> QED BY <1>5, <3>1, <3>2
  <2> QED BY <2>1, <2>2, <2>3
<1>10. Paired(About(more_.details, s)) >= Paired(About(less_.details, s))
  <2>1. CASE x.side = "BUY"
    BY <1>4, <1>5, <2>1
  <2>2. CASE x.side # "BUY" /\ q # s
    BY <1>1, <1>5, <1>6, <2>2
  <2>3. CASE x.side # "BUY" /\ q = s
    <3>1. /\ Bought(done \cup {e}, s) = Paired(About(more.details, s)) + Held(more.lots[s])
          /\ Bought(done, s) = Paired(About(less.details, s)) + Held(less.lots[s])
      BY <1>1 DEF Book
    <3>2. /\ Paired(About(more.details, s)) \in Nat /\ Paired(About(less.details, s)) \in Nat
          /\ Held(more.lots[s]) \in Nat /\ Held(less.lots[s]) \in Nat
      BY <1>1, <1>3, AboutIs, HeldIsNatural
    <3>3. Bought(done \cup {e}, s) >= Bought(done, s)
      <4>1. Of(done, s, "BUY") \subseteq Of(done \cup {e}, s, "BUY")
        BY DEF Of
      <4>2. Ledger(Of(done \cup {e}, s, "BUY"))
        <5>1. Of(done \cup {e}, s, "BUY") \subseteq done \cup {e}
          BY DEF Of
        <5> QED BY <1>2, <5>1, PartOfLedger
      <4>3. Qty(Of(done, s, "BUY")) <= Qty(Of(done \cup {e}, s, "BUY"))
        BY <4>1, <4>2, QtyIs
      <4>4. Qty(Of(done, s, "BUY")) \in Nat /\ Qty(Of(done \cup {e}, s, "BUY")) \in Nat
        BY <4>1, <4>2, QtyIs
      <4> QED BY <4>3, <4>4 DEF Bought
    <3>4. /\ Paired(About(more_.details, s))
               = Paired(About(more.details, s)) + Least(x.qty, Held(more.lots[s]))
          /\ Paired(About(less_.details, s))
               = Paired(About(less.details, s)) + Least(x.qty, Held(less.lots[s]))
      BY <1>6, <2>3
    <3> QED BY <1>1, <1>5, <3>1, <3>2, <3>3, <3>4 DEF Least
  <2> QED BY <2>1, <2>2, <2>3
<1> QED BY <1>8, <1>9, <1>10 DEF OnlyAdds, more_, less_

LEMMA LedgerOnlyAdds ==
  ASSUME NEW E, NEW e, e \notin E, Ledger(E \cup {e}), NEW after, Books(after, E \cup {e})
  PROVE  \A done \in SUBSET E : OnlyAdds(after[done \cup {e}], after[done], e.sym)
<1> DEFINE Fail == {done \in SUBSET E : ~OnlyAdds(after[done \cup {e}], after[done], e.sym)}
<1> SUFFICES ASSUME Fail # {} PROVE FALSE
  OBVIOUS
<1>1. PICK done \in Fail : \A u \in Fail : u \subseteq done => u = done
  <2>1. Fail \subseteq SUBSET E /\ IsFiniteSet(E)
    BY PartOfLedger DEF Ledger
  <2> HIDE DEF Fail
  <2> QED BY <2>1, MinimalSubset
<1>2. done \in SUBSET E /\ ~OnlyAdds(after[done \cup {e}], after[done], e.sym)
  OBVIOUS
<1> DEFINE all == done \cup {e}
           x == Latest(all)
<1>3. /\ all \in SUBSET (E \cup {e}) /\ done \in SUBSET (E \cup {e}) /\ e \notin done
      /\ Ledger(all) /\ Ledger(done) /\ all # {}
  BY <1>2, PartOfLedger
<1>4. x \in all /\ \A f \in all : f = x \/ Earlier(f, x)
  BY <1>3, LatestIsLast
<1>5. after[all] = Account(after[all \ {x}], x)
  BY <1>3 DEF Books, BookStep
<1> HIDE DEF x, Fail
<1>6. \A part \in SUBSET (E \cup {e}) : Book(after[part], part)
  BY BooksAreKept
<1>7. CASE x = e
  <2>1. all \ {x} = done
    BY <1>3, <1>7
  <2>2. OnlyAdds(Account(after[done], e), after[done], e.sym)
    BY <1>3, <1>6, LateExecutionAdds
  <2> QED BY <1>2, <1>5, <1>7, <2>1, <2>2
<1>8. CASE x # e
  <2> DEFINE before == done \ {x}
  <2>1. /\ x \in done /\ all \ {x} = before \cup {e} /\ e \notin before
        /\ x \notin before \cup {e} /\ (before \cup {e}) \cup {x} = all
        /\ before \in SUBSET E /\ before \in SUBSET (E \cup {e})
        /\ before \cup {e} \in SUBSET (E \cup {e})
    BY <1>3, <1>4, <1>8
  <2>2. Latest(done) = x
    BY <1>3, <1>4, <2>1, LatestIs
  <2>3. after[done] = Account(after[before], x)
    BY <1>3, <2>1, <2>2 DEF Books, BookStep
  <2>4. OnlyAdds(after[before \cup {e}], after[before], e.sym)
    <3>1. before \notin Fail
      BY <1>1, <2>1
    <3> QED BY <2>1, <3>1 DEF Fail
  <2> HIDE DEF before, all
  <2>5. OnlyAdds(Account(after[before \cup {e}], x), Account(after[before], x), e.sym)
    BY <1>3, <1>6, <2>1, <2>4, AccountOnlyAdds
  <2> QED BY <1>2, <1>5, <2>1, <2>3, <2>5 DEF all
<1> QED BY <1>7, <1>8

(* An execution that arrives late takes no paired share off the report,      *)
(* whatever its time, symbol and quantity (build_trade_details, reporting.py).*)
THEOREM LateOnlyAdds == Spec => LateExecutionsOnlyAdd
<1>1. ASSUME Ledger(execution_events), [Next]_vars, execution_events' # execution_events
      PROVE  Paired(build_trade_details(execution_events'))
               >= Paired(build_trade_details(execution_events))
  <2> DEFINE E == execution_events
  <2>1. PICK e \in Executions : /\ \A f \in E : f.id # e.id
                                /\ E' = E \cup {e}
    BY <1>1 DEF Next, vars, append_execution_event, generate_daily_report,
                upsert_trade_details, upsert_daily_report, Crash
  <2>2. e \notin E /\ Ledger(E \cup {e})
    <3>1. IsFiniteSet(E \cup {e})
      BY <1>1, FS_AddElement DEF Ledger
    <3> QED BY <1>1, <2>1, <3>1 DEF Ledger
  <2> DEFINE F == E \cup {e}
  <2>3. PICK after : Books(after, F)
    BY <2>2, BooksExist
  <2>4. /\ build_trade_details(E) = after[E].details
        /\ build_trade_details(F) = after[F].details
    BY <2>2, <2>3, DetailsOfBook
  <2>5. OnlyAdds(after[F], after[E], e.sym)
    BY <2>2, <2>3, LedgerOnlyAdds
  <2>6. ASSUME NEW D, D \subseteq Details, IsFiniteSet(D)
        PROVE  /\ Paired(D) = Paired(Others(D, e.sym)) + Paired(About(D, e.sym))
               /\ Paired(Others(D, e.sym)) \in Nat /\ Paired(About(D, e.sym)) \in Nat
    <3> DEFINE other == Others(D, e.sym)
               own == About(D, e.sym)
    <3>1. other \subseteq D /\ own \subseteq D /\ other \cap own = {} /\ other \cup own = D
      BY DEF Others, About
    <3>2. IsFiniteSet(other) /\ IsFiniteSet(own)
      BY <2>6, <3>1, FS_Subset
    <3> HIDE DEF other, own
    <3>3. /\ Paired(other \cup own) = Paired(other) + Paired(own)
          /\ Paired(other) \in Nat /\ Paired(own) \in Nat
      BY <2>6, <3>1, <3>2, PairedIs
    <3> QED BY <3>1, <3>3 DEF other, own
  <2>7. /\ after[E].details \subseteq Details /\ IsFiniteSet(after[E].details)
        /\ after[F].details \subseteq Details /\ IsFiniteSet(after[F].details)
    <3>1. Book(after[E], E) /\ Book(after[F], F)
      BY <2>2, <2>3, BooksAreKept
    <3> QED BY <3>1 DEF Book
  <2> HIDE DEF E, F
  <2>8. Paired(after[F].details) >= Paired(after[E].details)
    <3>1. /\ Others(after[F].details, e.sym) = Others(after[E].details, e.sym)
          /\ Paired(About(after[F].details, e.sym)) >= Paired(About(after[E].details, e.sym))
      BY <2>5 DEF OnlyAdds
    <3>2. /\ Paired(after[E].details)
               = Paired(Others(after[E].details, e.sym)) + Paired(About(after[E].details, e.sym))
          /\ Paired(Others(after[E].details, e.sym)) \in Nat
          /\ Paired(About(after[E].details, e.sym)) \in Nat
      BY <2>6, <2>7
    <3>3. /\ Paired(after[F].details)
               = Paired(Others(after[F].details, e.sym)) + Paired(About(after[F].details, e.sym))
          /\ Paired(About(after[F].details, e.sym)) \in Nat
      BY <2>6, <2>7
    <3> QED BY <3>1, <3>2, <3>3
  <2> QED BY <2>1, <2>4, <2>8 DEF E, F
<1>2. ASSUME IInv, [Next]_vars
      PROVE  [LET paired(executions) ==
                    SumFunction([d \in build_trade_details(executions) |-> d.quantity])
              IN  paired(execution_events') >= paired(execution_events)]_execution_events
  BY <1>1, <1>2 DEF IInv, Types, Paired
<1> QED BY <1>2, IInvHolds, PTL DEF Spec, LateExecutionsOnlyAdd

-----------------------------------------------------------------------------
(* How many shares of a symbol are sold when some of its sells are done, one *)
(* execution after the other.                                                *)

Totals(buys, sells) ==
  {Qty(sells)} \cup {Qty(Upto(buys, f)) + Qty(sells \ Upto(sells, f)) : f \in sells}

ComesAfter(x, executions) == \A f \in executions : Earlier(f, x)

LEMMA SmallestIs ==
  ASSUME NEW C, C \subseteq Nat, NEW n \in C, \A m \in C : n <= m
  PROVE  Min(C) = n
<1>1. \E m \in C : \A k \in C : m <= k
  OBVIOUS
<1>2. Min(C) \in C /\ \A k \in C : Min(C) <= k
  BY <1>1 DEF Min
<1>3. Min(C) \in Nat /\ Min(C) <= n /\ n <= Min(C) /\ n \in Nat
  BY <1>2
<1> QED BY <1>3

LEMMA TotalsAre ==
  ASSUME NEW E, Ledger(E), NEW buys, buys \subseteq E, NEW sells, sells \subseteq E
  PROVE  /\ Totals(buys, sells) \subseteq Nat
         /\ SoldAfter(buys, sells) \in Totals(buys, sells)
         /\ SoldAfter(buys, sells) \in Nat
         /\ \A n \in Totals(buys, sells) : SoldAfter(buys, sells) <= n
         /\ \A n \in Totals(buys, sells) :
              (\A m \in Totals(buys, sells) : n <= m) => SoldAfter(buys, sells) = n
<1>1. Qty(sells) \in Nat
  BY QtyIs
<1>2. \A f \in sells : Qty(Upto(buys, f)) + Qty(sells \ Upto(sells, f)) \in Nat
  <2> TAKE f \in sells
  <2>1. Upto(buys, f) \subseteq E /\ sells \ Upto(sells, f) \subseteq E
    BY DEF Upto
  <2>2. Qty(Upto(buys, f)) \in Nat
    BY <2>1, QtyIs
  <2>3. Qty(sells \ Upto(sells, f)) \in Nat
    BY <2>1, QtyIs
  <2> QED BY <2>2, <2>3
<1>3. Totals(buys, sells) \subseteq Nat /\ Totals(buys, sells) # {}
  BY <1>1, <1>2 DEF Totals
<1>4. SoldAfter(buys, sells) = Min(Totals(buys, sells))
  BY DEF SoldAfter, Totals
<1> DEFINE C == Totals(buys, sells)
<1> HIDE DEF C
<1>5. PICK n \in C : \A m \in C : n <= m
  BY <1>3, LeastNatural DEF C
<1>6. Min(C) = n
  BY <1>3, <1>5, SmallestIs DEF C
<1>7. \A k \in C : (\A m \in C : k <= m) => Min(C) = k
  BY <1>3, SmallestIs DEF C
<1> QED BY <1>3, <1>4, <1>5, <1>6, <1>7 DEF C

LEMMA NothingSold ==
  ASSUME NEW buys PROVE SoldAfter(buys, {}) = 0
<1>1. Qty({}) = 0
  BY SumOfNothing DEF Qty, SumFunction
<1>2. Totals(buys, {}) = {0}
  BY <1>1 DEF Totals
<1>3. SoldAfter(buys, {}) = Min({0})
  BY <1>2 DEF SoldAfter, Totals
<1> QED BY <1>3, SmallestIs

(* What a part of the ledger holds up to an execution does not change with   *)
(* an execution that comes after it.                                         *)
LEMMA UptoIs ==
  ASSUME NEW E, Ledger(E), NEW x \in E, NEW T, T \subseteq E \ {x}, ComesAfter(x, T)
  PROVE  /\ Upto(T, x) = T /\ Upto(T \cup {x}, x) = T \cup {x}
         /\ \A f \in E \ {x} : Earlier(f, x) => /\ Upto(T \cup {x}, f) = Upto(T, f)
                                                /\ x \notin Upto(T, f)
<1>1. \A f \in E \ {x} : Earlier(f, x) => ~Earlier(x, f)
  BY TotalOrder
<1>2. ASSUME NEW f \in E \ {x}, Earlier(f, x)
      PROVE  Upto(T \cup {x}, f) = Upto(T, f) /\ x \notin Upto(T, f)
  BY <1>1, <1>2 DEF Upto
<1>3. Upto(T, x) = T /\ Upto(T \cup {x}, x) = T \cup {x}
  BY DEF Upto, ComesAfter
<1> QED BY <1>2, <1>3

LEMMA SoldAfterBuy ==
  ASSUME NEW E, Ledger(E), NEW x \in E, NEW buys, buys \subseteq E \ {x},
         NEW sells, sells \subseteq E \ {x}, ComesAfter(x, buys), ComesAfter(x, sells)
  PROVE  SoldAfter(buys \cup {x}, sells) = SoldAfter(buys, sells)
<1>1. \A f \in sells : Upto(buys \cup {x}, f) = Upto(buys, f)
  BY UptoIs DEF ComesAfter
<1>2. Totals(buys \cup {x}, sells) = Totals(buys, sells)
  BY <1>1 DEF Totals
<1> QED BY <1>2 DEF SoldAfter, Totals

LEMMA SoldAfterSell ==
  ASSUME NEW E, Ledger(E), NEW x \in E, NEW buys, buys \subseteq E \ {x},
         NEW sells, sells \subseteq E \ {x}, ComesAfter(x, buys), ComesAfter(x, sells)
  PROVE  SoldAfter(buys, sells \cup {x}) = Least(SoldAfter(buys, sells) + x.qty, Qty(buys))
<1> DEFINE all == sells \cup {x}
           old == Totals(buys, sells)
           new == Totals(buys, all)
           Since(f) == Qty(Upto(buys, f)) + Qty(sells \ Upto(sells, f))
<1>1. all \subseteq E /\ x \in all /\ all \ {x} = sells /\ x.qty \in Nat /\ buys \subseteq E
  BY ExecutionTypes DEF Ledger
<1>2. Qty(all) = Qty(sells) + x.qty
  <2>1. Qty(all) = x.qty + Qty(all \ {x})
    BY <1>1, QtyIs
  <2>2. Qty(sells) \in Nat
    BY QtyIs
  <2> QED BY <1>1, <2>1, <2>2
<1>3. Upto(all, x) = all /\ Upto(buys, x) = buys
  BY DEF Upto, ComesAfter
<1>4. Qty(Upto(buys, x)) + Qty(all \ Upto(all, x)) = Qty(buys)
  <2>1. all \ Upto(all, x) = {}
    BY <1>3
  <2>2. Qty({}) = 0 /\ Qty(buys) \in Nat
    BY <1>1, QtyIs, SumOfNothing DEF Qty, SumFunction
  <2> HIDE DEF all
  <2> QED BY <1>3, <2>1, <2>2
<1>5. ASSUME NEW f \in sells
      PROVE  /\ Qty(Upto(buys, f)) + Qty(all \ Upto(all, f)) = Since(f) + x.qty
             /\ Since(f) \in Nat
  <2>1. Upto(all, f) = Upto(sells, f) /\ x \notin Upto(sells, f)
    BY UptoIs DEF ComesAfter
  <2> DEFINE rest == sells \ Upto(sells, f)
             more == all \ Upto(all, f)
  <2>2. more \subseteq E /\ x \in more /\ more \ {x} = rest /\ rest \subseteq E
    BY <1>1, <2>1
  <2> HIDE DEF rest, more
  <2>3. Qty(more) = x.qty + Qty(rest) /\ Qty(rest) \in Nat
    BY <2>2, QtyIs
  <2>4. Qty(Upto(buys, f)) \in Nat
    <3>1. Upto(buys, f) \subseteq E
      BY <1>1 DEF Upto
    <3> QED BY <3>1, QtyIs
  <2> QED BY <1>1, <2>3, <2>4 DEF rest, more
<1>6. /\ Qty(buys) \in new
      /\ \A n \in old : n + x.qty \in new
      /\ \A n \in new : n = Qty(buys) \/ \E m \in old : n = m + x.qty
  <2>1. Qty(buys) \in new
    BY <1>1, <1>4 DEF Totals
  <2>2. ASSUME NEW n \in old PROVE n + x.qty \in new
    <3>1. CASE n = Qty(sells)
      BY <1>2, <3>1 DEF Totals
    <3>2. CASE \E f \in sells : n = Since(f)
      <4>1. PICK f \in sells : n = Since(f)
        BY <3>2
      <4>2. f \in all /\ n + x.qty = Qty(Upto(buys, f)) + Qty(all \ Upto(all, f))
        BY <1>5, <4>1
      <4> HIDE DEF all
      <4> QED BY <4>2 DEF Totals
    <3> QED BY <3>1, <3>2 DEF Totals
  <2>3. ASSUME NEW n \in new PROVE n = Qty(buys) \/ \E m \in old : n = m + x.qty
    <3>1. CASE n = Qty(all)
      BY <1>2, <3>1 DEF Totals
    <3>2. CASE \E f \in all : n = Qty(Upto(buys, f)) + Qty(all \ Upto(all, f))
      <4>1. PICK f \in all : n = Qty(Upto(buys, f)) + Qty(all \ Upto(all, f))
        BY <3>2
      <4>2. CASE f = x
        BY <1>4, <4>1, <4>2
      <4>3. CASE f \in sells
        <5>1. n = Since(f) + x.qty /\ Since(f) \in old
          BY <1>5, <4>1, <4>3 DEF Totals
        <5> QED BY <5>1
      <4> QED BY <4>2, <4>3
    <3> QED BY <3>1, <3>2 DEF Totals
  <2> QED BY <2>1, <2>2, <2>3
<1> HIDE DEF all, old, new
<1>7. /\ SoldAfter(buys, sells) \in old /\ SoldAfter(buys, sells) \in Nat
      /\ \A n \in old : SoldAfter(buys, sells) <= n
      /\ old \subseteq Nat
  <2>1. sells \subseteq E
    OBVIOUS
  <2> QED BY <1>1, <2>1, TotalsAre DEF old
<1>8. \A n \in new : (\A m \in new : n <= m) => SoldAfter(buys, all) = n
  BY <1>1, TotalsAre DEF new
<1>9. Qty(buys) \in Nat
  BY <1>1, QtyIs
<1> DEFINE least == Least(SoldAfter(buys, sells) + x.qty, Qty(buys))
<1>10. least \in new
  BY <1>6, <1>7 DEF Least
<1>11. \A n \in new : least <= n
  <2> TAKE n \in new
  <2>1. CASE n = Qty(buys)
    BY <1>1, <1>7, <1>9, <2>1 DEF Least
  <2>2. CASE \E m \in old : n = m + x.qty
    <3>1. PICK m \in old : n = m + x.qty
      BY <2>2
    <3> QED BY <1>1, <1>7, <1>9, <3>1 DEF Least
  <2> QED BY <1>6, <2>1, <2>2
<1> HIDE DEF least
<1> QED BY <1>8, <1>10, <1>11 DEF least, all

(* The lots of a symbol, when `sold` of its shares are sold: each holds what *)
(* is left of the shares of one buy.                                         *)

InLots(lots, buys, sold) ==
  \A i \in 1..Len(lots) : \E b \in buys :
    /\ lots[i].at = b.at
    /\ sold + Ahead(lots, i + 1) = Qty(Upto(buys, b))
    /\ sold + Ahead(lots, i) = Largest(sold, Qty(Upto(buys, b)) - b.qty)

LEMMA QueuedAhead ==
  ASSUME NEW lots \in Seq(LotType), NEW e \in Executions
  PROVE  LET more == queued(lots, e)
             n == Len(lots)
         IN  /\ more \in Seq(LotType) /\ Len(more) = n + 1
             /\ \A i \in 1..n : more[i] = lots[i]
             /\ more[n + 1].at = e.at
             /\ \A i \in 1..(n + 1) : Ahead(more, i) = Ahead(lots, i)
             /\ Ahead(more, n + 1 + 1) = Held(lots) + e.qty
<1> DEFINE n == Len(lots)
           more == queued(lots, e)
<1>1. Lot(e) \in LotType /\ Lot(e).at = e.at
  BY ExecutionTypes DEF Lot, LotType
<1>2. /\ more \in Seq(LotType) /\ Len(more) = n + 1
      /\ \A i \in 1..n : more[i] = lots[i]
      /\ more[n + 1].at = e.at
  BY <1>1, AppendProperties DEF queued
<1>3. Held(more) = Held(lots) + e.qty
  BY QueuedIs
<1> HIDE DEF more
<1>4. Ahead(more, n + 1 + 1) = Held(lots) + e.qty
  BY <1>2, <1>3, AheadGrows
<1>5. ASSUME NEW i \in 1..(n + 1) PROVE Ahead(more, i) = Ahead(lots, i)
  <2>1. i \in 1..(Len(more) + 1) /\ i - 1 \in Int /\ 1..(i - 1) \subseteq 1..n
    BY <1>2, RestType
  <2>2. IsFiniteSet(1..(i - 1))
    BY <2>1, IntervalIsFinite
  <2>3. \A k \in 1..(i - 1) : k \in 1..n /\ k \in 1..(n + 1)
    BY <2>1, RestType
  <2>4. \A k \in 1..(i - 1) : Rest(more)[k] = Rest(lots)[k]
    BY <1>2, <2>3 DEF Rest
  <2>5. SumFunctionOnSet(Rest(more), 1..(i - 1)) = SumFunctionOnSet(Rest(lots), 1..(i - 1))
    BY <2>2, <2>4, SumOfTheSame
  <2> QED BY <1>2, <2>1, <2>5, AheadIs
<1> QED BY <1>2, <1>4, <1>5 DEF more

LEMMA LotsAfterBuy ==
  ASSUME NEW E, Ledger(E), NEW x \in E, NEW buys, buys \subseteq E \ {x},
         ComesAfter(x, buys), NEW lots \in Seq(LotType), NEW sold \in Nat,
         InLots(lots, buys, sold), sold + Held(lots) = Qty(buys)
  PROVE  /\ InLots(queued(lots, x), buys \cup {x}, sold)
         /\ sold + Held(queued(lots, x)) = Qty(buys \cup {x})
<1> DEFINE more == queued(lots, x)
           all == buys \cup {x}
           n == Len(lots)
<1>1. x \in Executions /\ x.qty \in Nat /\ n \in Nat /\ Held(lots) \in Nat
  BY ExecutionTypes, HeldIsNatural DEF Ledger
<1>2. /\ more \in Seq(LotType) /\ Len(more) = n + 1
      /\ \A i \in 1..n : more[i] = lots[i]
      /\ more[n + 1].at = x.at
      /\ \A i \in 1..(n + 1) : Ahead(more, i) = Ahead(lots, i)
      /\ Ahead(more, n + 1 + 1) = Held(lots) + x.qty
  BY <1>1, QueuedAhead
<1>3. Qty(all) = Qty(buys) + x.qty
  <2>1. all \subseteq E /\ x \in all /\ all \ {x} = buys /\ buys \subseteq E
    OBVIOUS
  <2> HIDE DEF all
  <2>2. Qty(all) = x.qty + Qty(buys) /\ Qty(buys) \in Nat
    BY <2>1, QtyIs
  <2> QED BY <1>1, <2>2
<1>4. Held(more) = Ahead(more, n + 1 + 1) /\ Ahead(lots, n + 1) = Held(lots)
  BY <1>2, AheadGrows
<1>5. Upto(all, x) = all /\ \A b \in buys : Upto(all, b) = Upto(buys, b)
  BY UptoIs DEF ComesAfter
<1> HIDE DEF more, all
<1>6. ASSUME NEW i \in 1..(n + 1)
      PROVE  \E b \in all :
               /\ more[i].at = b.at
               /\ sold + Ahead(more, i + 1) = Qty(Upto(all, b))
               /\ sold + Ahead(more, i) = Largest(sold, Qty(Upto(all, b)) - b.qty)
  <2>1. CASE i = n + 1
    <3>1. sold + Ahead(more, i + 1) = Qty(Upto(all, x))
      BY <1>1, <1>2, <1>3, <1>5, <2>1
    <3>2. Qty(Upto(all, x)) - x.qty = sold + Held(lots)
      BY <1>1, <1>3, <1>5
    <3>3. Ahead(more, i) = Held(lots)
      BY <1>2, <1>4, <2>1
    <3>4. sold + Ahead(more, i) = Largest(sold, Qty(Upto(all, x)) - x.qty)
      BY <1>1, <3>2, <3>3 DEF Largest
    <3>5. x \in all /\ more[i].at = x.at
      BY <1>2, <2>1 DEF all
    <3> QED BY <3>1, <3>4, <3>5
  <2>2. CASE i # n + 1
    <3>1. i \in 1..n /\ i + 1 \in 1..(n + 1)
      BY <1>1, <2>2
    <3>2. PICK b \in buys : /\ lots[i].at = b.at
                            /\ sold + Ahead(lots, i + 1) = Qty(Upto(buys, b))
                            /\ sold + Ahead(lots, i) = Largest(sold, Qty(Upto(buys, b)) - b.qty)
      BY <3>1 DEF InLots
    <3>3. b \in all /\ Upto(all, b) = Upto(buys, b)
      BY <1>5 DEF all
    <3>4. more[i] = lots[i] /\ Ahead(more, i) = Ahead(lots, i) /\ Ahead(more, i + 1) = Ahead(lots, i + 1)
      BY <1>2, <3>1
    <3> QED BY <3>2, <3>3, <3>4
  <2> QED BY <2>1, <2>2
<1>7. InLots(more, all, sold)
  BY <1>2, <1>6 DEF InLots
<1>8. sold + Held(more) = Qty(all)
  BY <1>1, <1>2, <1>3, <1>4
<1> QED BY <1>7, <1>8 DEF more, all

LEMMA LotsAfterSell ==
  ASSUME NEW E, Ledger(E), NEW buys, buys \subseteq E, NEW x \in E,
         NEW lots \in Seq(LotType), NEW sold \in Nat,
         InLots(lots, buys, sold), sold + Held(lots) = Qty(buys),
         NEW after, after = Least(sold + x.qty, Qty(buys))
  PROVE  /\ InLots(Reduced(lots, x), buys, after)
         /\ after + Held(Reduced(lots, x)) = Qty(buys)
<1> DEFINE left == Reduced(lots, x)
           n == Len(lots)
<1>1. x \in Executions /\ x.qty \in Nat /\ n \in Nat /\ Held(lots) \in Nat
  BY ExecutionTypes, HeldIsNatural DEF Ledger
<1>2. after = sold + Least(x.qty, Held(lots)) /\ after \in Nat
  BY <1>1 DEF Least
<1>3. after + Held(left) = Qty(buys)
  <2>1. Held(left) = Held(lots) - Least(x.qty, Held(lots))
    BY <1>1, ReducedIs
  <2>2. Least(x.qty, Held(lots)) \in Int
    BY <1>1 DEF Least
  <2> QED BY <1>1, <1>2, <2>1, <2>2
<1>4. PICK k \in 0..n :
        /\ left \in Seq(LotType) /\ Len(left) = n - k
        /\ \A j \in 1..(n - k) : left[j].at = lots[k + j].at
        /\ \A j \in 1..(n - k + 1) : Ahead(left, j) = Largest(Ahead(lots, k + j) - x.qty, 0)
  BY <1>1, ReducedAhead
<1>5. ASSUME NEW i \in 1..(n + 1)
      PROVE  Ahead(lots, i) \in Nat /\ Ahead(lots, i) <= Held(lots)
  <2>1. n + 1 \in 1..(n + 1) /\ i \in 1..(n + 1) /\ Ahead(lots, n + 1) = Held(lots)
    BY <1>1, AheadGrows
  <2> QED BY <2>1, AheadGrows, AheadIs
<1>6. ASSUME NEW j \in 1..(n - k + 1)
      PROVE  /\ k + j \in 1..(n + 1)
             /\ after + Ahead(left, j) = Largest(after, sold + Ahead(lots, k + j))
  <2>1. k + j \in 1..(n + 1)
    BY <1>1
  <2> DEFINE ahead == Ahead(lots, k + j)
  <2>2. ahead \in Nat /\ ahead <= Held(lots)
    BY <1>5, <2>1
  <2>3. Ahead(left, j) = Largest(ahead - x.qty, 0)
    BY <1>4
  <2> HIDE DEF ahead
  <2>4. sold + Least(x.qty, Held(lots)) + Largest(ahead - x.qty, 0)
          = Largest(sold + Least(x.qty, Held(lots)), sold + ahead)
    BY <1>1, <2>2 DEF Largest, Least
  <2> QED BY <1>2, <2>1, <2>3, <2>4 DEF ahead
<1> HIDE DEF left
<1>7. ASSUME NEW j \in 1..(n - k)
      PROVE  \E b \in buys :
               /\ left[j].at = b.at
               /\ after + Ahead(left, j + 1) = Qty(Upto(buys, b))
               /\ after + Ahead(left, j) = Largest(after, Qty(Upto(buys, b)) - b.qty)
  <2>1. /\ k + j \in 1..n /\ j \in 1..(n - k + 1) /\ j + 1 \in 1..(n - k + 1)
        /\ k + (j + 1) = (k + j) + 1 /\ j + 1 \in 2..Len(left) + 1
    BY <1>1, <1>4
  <2>2. PICK b \in buys :
          /\ lots[k + j].at = b.at
          /\ sold + Ahead(lots, k + j + 1) = Qty(Upto(buys, b))
          /\ sold + Ahead(lots, k + j) = Largest(sold, Qty(Upto(buys, b)) - b.qty)
    BY <2>1 DEF InLots
  <2>3. /\ after + Ahead(left, j) = Largest(after, sold + Ahead(lots, k + j))
        /\ after + Ahead(left, j + 1) = Largest(after, sold + Ahead(lots, k + j + 1))
    BY <1>6, <2>1
  <2>4. Ahead(left, j + 1) > 0
    <3>1. j \in 1..Len(left) /\ Ahead(left, j + 1) = Ahead(left, j) + Rest(left)[j]
      BY <1>4, AheadGrows
    <3>2. Rest(left)[j] \in Nat \ {0} /\ Ahead(left, j) \in Nat
      <4>1. j \in 1..(Len(left) + 1)
        BY <1>4, <2>1
      <4> QED BY <1>4, <3>1, <4>1, RestType, AheadIs
    <3> QED BY <3>1, <3>2
  <2>5. Ahead(left, j + 1) \in Nat /\ Ahead(lots, k + j + 1) \in Nat /\ Ahead(lots, k + j) \in Nat
    <3>1. k + j \in 1..(n + 1) /\ k + j + 1 \in 1..(n + 1) /\ j + 1 \in 1..(Len(left) + 1)
      BY <1>1, <1>4, <2>1
    <3> QED BY <1>4, <1>5, <3>1, AheadIs
  <2>6. after + Ahead(left, j + 1) = Qty(Upto(buys, b))
    BY <1>2, <2>2, <2>3, <2>4, <2>5 DEF Largest
  <2>7. after + Ahead(left, j) = Largest(after, Qty(Upto(buys, b)) - b.qty)
    <3>1. Qty(Upto(buys, b)) \in Int /\ b.qty \in Int
      BY <1>1, <2>2, <2>5, ExecutionTypes DEF Ledger
    <3>2. sold <= after
      BY <1>1, <1>2 DEF Least
    <3>3. Largest(after, Largest(sold, Qty(Upto(buys, b)) - b.qty))
            = Largest(after, Qty(Upto(buys, b)) - b.qty)
      BY <1>2, <3>1, <3>2 DEF Largest
    <3> QED BY <2>2, <2>3, <3>3
  <2> QED BY <1>4, <2>2, <2>6, <2>7
<1>8. InLots(left, buys, after)
  BY <1>4, <1>7 DEF InLots
<1> QED BY <1>3, <1>8 DEF left

(* The shares of two buys are others, those of the later one the later ones. *)
LEMMA BuysApart ==
  ASSUME NEW E, Ledger(E), NEW buys, buys \subseteq E, NEW b \in buys, NEW c \in buys
  PROVE  /\ Qty(Upto(buys, b)) \in Nat /\ b.qty \in Nat \ {0}
         /\ Earlier(b, c) => Qty(Upto(buys, b)) <= Qty(Upto(buys, c)) - c.qty
<1> DEFINE before == Upto(buys, b)
           upto == Upto(buys, c)
<1>1. before \subseteq E /\ upto \subseteq E /\ c \in upto
  BY DEF Upto
<1>2. b \in E /\ c \in E /\ b.qty \in Nat \ {0} /\ c.qty \in Nat
  BY ExecutionTypes DEF Ledger
<1>3. ASSUME Earlier(b, c) PROVE before \subseteq upto \ {c}
  <2>1. ASSUME NEW f \in before PROVE f \in upto /\ f # c
    <3>1. f \in buys /\ f \in E /\ (f = b \/ Earlier(f, b))
      BY DEF Upto
    <3>2. Earlier(f, c) /\ f # c
      BY <1>2, <1>3, <3>1, TotalOrder
    <3> QED BY <3>1, <3>2 DEF Upto
  <2> QED BY <2>1
<1> HIDE DEF before, upto
<1>4. Qty(before) \in Nat /\ Qty(upto) = c.qty + Qty(upto \ {c})
  BY <1>1, QtyIs
<1>5. upto \ {c} \subseteq E /\ Ledger(upto \ {c})
  BY <1>1, PartOfLedger
<1>6. Qty(upto \ {c}) \in Nat
  BY <1>5, QtyIs
<1>7. Earlier(b, c) => Qty(before) <= Qty(upto \ {c})
  BY <1>3, <1>5, QtyIs
<1> QED BY <1>2, <1>4, <1>6, <1>7 DEF before, upto

LEMMA SharesInCommon ==
  ASSUME NEW a \in Int, NEW b \in Int, NEW c \in Int, NEW d \in Int
  PROVE  Cardinality(((a + 1)..b) \cap ((c + 1)..d)) = Largest(Least(b, d) - Largest(a, c), 0)
<1> DEFINE low == Largest(a, c) + 1
           high == Least(b, d)
<1>1. low \in Int /\ high \in Int
  BY DEF Least, Largest
<1>2. ((a + 1)..b) \cap ((c + 1)..d) = low..high
  BY DEF Least, Largest
<1> HIDE DEF low, high
<1>3. Cardinality(low..high) = IF low > high THEN 0 ELSE high - low + 1
  BY <1>1, FS_Interval
<1>4. (IF low > high THEN 0 ELSE high - low + 1) = Largest(high - (low - 1), 0)
  BY <1>1 DEF Largest
<1>5. low - 1 = Largest(a, c)
  BY DEF low, Largest
<1> QED BY <1>2, <1>3, <1>4, <1>5 DEF high

(* Every share held lies in one lot.                                         *)
LEMMA LotOfShare ==
  ASSUME NEW lots \in Seq(LotType), NEW n \in 1..Held(lots)
  PROVE  \E i \in 1..Len(lots) : Ahead(lots, i) < n /\ n <= Ahead(lots, i + 1)
<1> DEFINE Reach == {i \in Nat : i \in 1..(Len(lots) + 1) /\ n <= Ahead(lots, i)}
<1>1. Len(lots) \in Nat /\ Held(lots) \in Nat /\ n \in Nat /\ n <= Held(lots) /\ 1 <= n
  BY HeldIsNatural, RestType
<1>2. Len(lots) + 1 \in Reach
  BY <1>1, AheadGrows
<1>3. PICK i \in Reach : \A j \in Reach : i <= j
  <2>1. Reach \subseteq Nat
    OBVIOUS
  <2> HIDE DEF Reach
  <2> QED BY <1>2, <2>1, LeastNatural
<1>4. i \in 1..(Len(lots) + 1) /\ n <= Ahead(lots, i)
  OBVIOUS
<1>5. i # 1
  BY <1>1, <1>4, AheadGrows
<1>6. i - 1 \in 1..Len(lots) /\ (i - 1) + 1 = i /\ i - 1 \in 1..(Len(lots) + 1) /\ i - 1 \in Nat
  BY <1>1, <1>4, <1>5
<1>7. i - 1 \notin Reach
  BY <1>3, <1>6
<1>8. Ahead(lots, i - 1) \in Nat /\ ~(n <= Ahead(lots, i - 1))
  BY <1>6, <1>7, AheadIs
<1> QED BY <1>1, <1>4, <1>6, <1>8

(* What the details of a sell name of the buys at one time is what the sell  *)
(* takes from the lots of that time.                                         *)
TakenAt(lots, sell, t) ==
  {i \in 1..Len(lots) : matched_qty(lots, i, sell) > 0 /\ lots[i].at = t}

At(details, t) == {d \in details : d.buy_executed_at = t}

LEMMA PairedAt ==
  ASSUME NEW lots \in Seq(LotType), NEW sell \in Executions, NEW t
  PROVE  Paired(At(Adds(lots, sell), t))
           = SumFunctionOnSet(Taken(lots, sell), TakenAt(lots, sell, t))
<1> DEFINE D == At(Adds(lots, sell), t)
           I == TakenAt(lots, sell, t)
           h == [i \in I |-> calc_trade_detail(lots[i], sell, matched_qty(lots, i, sell), i - 1)]
           f == [d \in D |-> d.quantity]
           taken == Taken(lots, sell)
<1>1. Len(lots) \in Nat /\ DOMAIN lots = 1..Len(lots) /\ sell.qty \in Nat
  BY RestType, ExecutionTypes
<1>2. ASSUME NEW i \in 1..Len(lots), matched_qty(lots, i, sell) > 0
      PROVE  LET d == calc_trade_detail(lots[i], sell, matched_qty(lots, i, sell), i - 1)
             IN  /\ d.buy_executed_at = lots[i].at /\ d.id = <<sell.id, i - 1>>
                 /\ d.quantity = matched_qty(lots, i, sell)
  <2>1. lots[i] \in LotType /\ i - 1 \in Nat
    BY <1>1, RestType
  <2>2. matched_qty(lots, i, sell) \in Nat \ {0}
    BY <1>1, <1>2, MatchedIs
  <2> QED BY <2>1, <2>2, DetailType
<1>3. \A i \in I : /\ h[i].buy_executed_at = t /\ h[i].id = <<sell.id, i - 1>>
                   /\ h[i].quantity = matched_qty(lots, i, sell)
                   /\ i \in 1..Len(lots)
  BY <1>2 DEF TakenAt
<1>4. \A i \in I : h[i] \in D
  BY <1>1, <1>3 DEF Adds, At, TakenAt
<1>5. ASSUME NEW d \in D PROVE \E i \in I : h[i] = d
  <2>1. PICK i \in 1..Len(lots) :
          /\ matched_qty(lots, i, sell) > 0
          /\ d = calc_trade_detail(lots[i], sell, matched_qty(lots, i, sell), i - 1)
    BY <1>1 DEF Adds, At
  <2>2. lots[i].at = t
    BY <1>2, <2>1 DEF At
  <2>3. i \in I
    BY <2>1, <2>2 DEF TakenAt
  <2> QED BY <2>1, <2>3
<1>6. ASSUME NEW i \in I, NEW j \in I, h[i] = h[j] PROVE i = j
  <2>1. <<sell.id, i - 1>> = <<sell.id, j - 1>>
    BY <1>3, <1>6
  <2>2. i - 1 = j - 1 /\ i \in Int /\ j \in Int
    BY <1>3, <2>1
  <2> QED BY <2>2
<1>7. \A i \in 1..Len(lots) : taken[i] = matched_qty(lots, i, sell) /\ taken[i] \in Int
  BY <1>1, MatchedIs DEF Taken
<1>8. IsFiniteSet(I)
  <2>1. IsFiniteSet(1..Len(lots)) /\ I \subseteq 1..Len(lots)
    BY <1>1, IntervalIsFinite DEF TakenAt
  <2> HIDE DEF I
  <2> QED BY <2>1, FS_Subset
<1>9. \A i \in I : f[h[i]] = h[i].quantity
  BY <1>4
<1> HIDE DEF h
<1>10. Renames(h, I, D)
  BY <1>4, <1>5, <1>6 DEF Renames
<1>11. Carried(f, h, taken, I)
  BY <1>3, <1>7, <1>9 DEF Carried
<1>12. Paired(D) = SumFunctionOnSet(f, D)
  BY DEF Paired, SumFunction
<1> HIDE DEF D, I, f, taken
<1>13. SumFunctionOnSet(f, D) = SumFunctionOnSet(taken, I)
  BY <1>8, <1>10, <1>11, SumRenamed
<1> QED BY <1>12, <1>13 DEF D, I, taken

(* A sell takes from the lots of a time the shares that follow those sold    *)
(* before, as far as the buys at that time have any of them: its lots are    *)
(* the buys that still have shares, each share lies in one of them, and from *)
(* the shares of the others the sell takes none.                             *)
HeldFrom(lots, buys, sold, i, b) ==
  /\ lots[i].at = b.at
  /\ sold + Ahead(lots, i + 1) = Qty(Upto(buys, b))
  /\ sold + Ahead(lots, i) = Largest(sold, Qty(Upto(buys, b)) - b.qty)

BoughtAt(buys, t) == {b \in buys : b.at = t}

SharesTaken(due, buys, sold, after) ==
  \A b \in buys : due[b] = Cardinality(SharesOfBuy(buys, b) \cap ((sold + 1)..after))

LEMMA SellTakesInOrder ==
  ASSUME NEW E, Ledger(E), NEW buys, buys \subseteq E, NEW sell \in E,
         NEW lots \in Seq(LotType), NEW sold \in Nat,
         InLots(lots, buys, sold), sold + Held(lots) = Qty(buys),
         NEW after, after = Least(sold + sell.qty, Qty(buys)), NEW t,
         NEW due, SharesTaken(due, buys, sold, after)
  PROVE  SumFunctionOnSet(Taken(lots, sell), TakenAt(lots, sell, t))
           = SumFunctionOnSet(due, BoughtAt(buys, t))
<1> DEFINE n == Len(lots)
           From(i, b) == HeldFrom(lots, buys, sold, i, b)
           w == [i \in 1..n |-> CHOOSE b \in buys : From(i, b)]
           High(b) == Qty(Upto(buys, b))
           I == TakenAt(lots, sell, t)
           taken == Taken(lots, sell)
           B == BoughtAt(buys, t)
           W == {w[i] : i \in I}
<1>1. /\ sell \in Executions /\ sell.qty \in Nat /\ n \in Nat /\ Held(lots) \in Nat
      /\ after = sold + Least(sell.qty, Held(lots)) /\ after \in Nat
      /\ after <= sold + Held(lots)
  <2>1. sell \in Executions /\ sell.qty \in Nat /\ n \in Nat /\ Held(lots) \in Nat
    BY ExecutionTypes, HeldIsNatural DEF Ledger
  <2> QED BY <2>1 DEF Least
<1>2. \A b \in buys : High(b) \in Nat /\ b.qty \in Nat \ {0}
  BY BuysApart
<1>3. \A i \in 1..n : w[i] \in buys /\ From(i, w[i])
  BY DEF InLots, HeldFrom
<1>4. ASSUME NEW i \in 1..n
      PROVE  /\ Ahead(lots, i) \in Nat /\ Ahead(lots, i + 1) \in Nat
             /\ Ahead(lots, i) < Ahead(lots, i + 1) /\ Ahead(lots, i + 1) <= Held(lots)
             /\ \A j \in 1..n : i < j => Ahead(lots, i + 1) < Ahead(lots, j + 1)
  <2>1. i \in 1..(n + 1) /\ i + 1 \in 1..(n + 1) /\ n + 1 \in 1..(n + 1) /\ i + 1 \in 1..(n + 1)
    BY <1>1
  <2>2. \A k \in 1..n : /\ Ahead(lots, k) \in Nat /\ Ahead(lots, k + 1) \in Nat
                        /\ Ahead(lots, k) < Ahead(lots, k + 1)
    <3> TAKE k \in 1..n
    <3>1. k \in 1..(n + 1) /\ k + 1 \in 1..(n + 1)
      BY <1>1
    <3>2. Ahead(lots, k) \in Nat /\ Ahead(lots, k + 1) \in Nat
      BY <3>1, AheadIs
    <3>3. Ahead(lots, k + 1) = Ahead(lots, k) + Rest(lots)[k] /\ Rest(lots)[k] \in Nat \ {0}
      BY AheadGrows, RestType
    <3> QED BY <3>2, <3>3
  <2>3. Ahead(lots, i + 1) <= Held(lots)
    BY <2>1, AheadGrows
  <2>4. ASSUME NEW j \in 1..n, i < j PROVE Ahead(lots, i + 1) < Ahead(lots, j + 1)
    <3>1. j \in 1..(n + 1) /\ i + 1 \in 1..j
      BY <1>1, <2>4
    <3>2. Ahead(lots, i + 1) <= Ahead(lots, j)
      BY <3>1, AheadGrows
    <3> QED BY <2>2, <3>2
  <2> QED BY <2>2, <2>3, <2>4
<1>5. \A b \in buys : /\ due[b] = Largest(Least(High(b), after) - Largest(High(b) - b.qty, sold), 0)
                      /\ due[b] \in Nat
  <2> TAKE b \in buys
  <2>1. SharesOfBuy(buys, b) = (High(b) - b.qty + 1)..High(b)
    BY DEF SharesOfBuy
  <2>2. High(b) \in Int /\ High(b) - b.qty \in Int /\ after \in Int /\ sold \in Int
    BY <1>1, <1>2
  <2>3. due[b] = Largest(Least(High(b), after) - Largest(High(b) - b.qty, sold), 0)
    <3>1. due[b] = Cardinality(((High(b) - b.qty + 1)..High(b)) \cap ((sold + 1)..after))
      BY <2>1 DEF SharesTaken
    <3> HIDE DEF High
    <3> DEFINE low == High(b) - b.qty
               high == High(b)
    <3>2. low \in Int /\ high \in Int
      BY <2>2
    <3> HIDE DEF low, high
    <3>3. Cardinality(((low + 1)..high) \cap ((sold + 1)..after))
            = Largest(Least(high, after) - Largest(low, sold), 0)
      BY <2>2, <3>2, SharesInCommon
    <3> QED BY <3>1, <3>3 DEF low, high
  <2> HIDE DEF High
  <2>4. Largest(Least(High(b), after) - Largest(High(b) - b.qty, sold), 0) \in Nat
    BY <2>2 DEF Least, Largest
  <2> QED BY <2>3, <2>4
<1>6. ASSUME NEW i \in 1..n
      PROVE  taken[i] = due[w[i]] /\ taken[i] = matched_qty(lots, i, sell)
  <2> DEFINE b == w[i]
             low == Ahead(lots, i)
             high == Ahead(lots, i + 1)
  <2>1. /\ sold + high = High(b)
        /\ sold + low = Largest(sold, High(b) - b.qty)
        /\ b \in buys
    BY <1>3 DEF HeldFrom
  <2>2. matched_qty(lots, i, sell) = Least(sell.qty, high) - Least(sell.qty, low)
    BY <1>1, MatchedIs
  <2>3. taken[i] = matched_qty(lots, i, sell)
    BY DEF Taken
  <2>4. low \in Nat /\ high \in Nat /\ low < high /\ high <= Held(lots)
    BY <1>4
  <2>5. High(b) \in Nat /\ b.qty \in Nat
    BY <1>2, <2>1
  <2>6. due[b] = Largest(Least(High(b), after) - Largest(High(b) - b.qty, sold), 0)
    BY <1>5, <2>1
  <2> HIDE DEF b, low, high, High
  <2>7. Largest(High(b) - b.qty, sold) = sold + low
    BY <2>1, <2>5 DEF Largest
  <2>8. Largest(Least(sold + high, after) - (sold + low), 0)
          = Least(sell.qty, high) - Least(sell.qty, low)
    <3> DEFINE cap == Least(sell.qty, Held(lots))
    <3>1. Least(sell.qty, high) = Least(cap, high) /\ Least(sell.qty, low) = Least(cap, low)
      BY <1>1, <2>4 DEF Least
    <3>2. cap \in Nat /\ after = sold + cap
      BY <1>1 DEF Least
    <3> HIDE DEF cap
    <3>3. Least(sold + high, after) - (sold + low) = Least(cap, high) - low
      BY <2>4, <3>2 DEF Least
    <3>4. Largest(Least(cap, high) - low, 0) = Least(cap, high) - Least(cap, low)
      BY <2>4, <3>2 DEF Least, Largest
    <3> QED BY <3>1, <3>3, <3>4
  <2> QED BY <2>1, <2>2, <2>3, <2>6, <2>7, <2>8 DEF b
<1>7. ASSUME NEW i \in 1..n, NEW j \in 1..n, w[i] = w[j] PROVE i = j
  <2>1. sold + Ahead(lots, i + 1) = sold + Ahead(lots, j + 1)
    BY <1>3, <1>7 DEF HeldFrom
  <2>2. Ahead(lots, i + 1) = Ahead(lots, j + 1)
    <3>1. Ahead(lots, i + 1) \in Nat /\ Ahead(lots, j + 1) \in Nat
      BY <1>4
    <3> QED BY <2>1, <3>1
  <2>3. ~(i < j) /\ ~(j < i) /\ i \in Int /\ j \in Int
    BY <1>4, <2>2
  <2> QED BY <2>3
<1>8. ASSUME NEW b \in buys, due[b] > 0 PROVE \E i \in 1..n : w[i] = b
  <2> DEFINE high == High(b)
             low == High(b) - b.qty
             first == Largest(low, sold)
             share == first + 1 - sold
  <2>1. /\ share \in 1..Held(lots) /\ share \in Nat
        /\ High(b) - b.qty < sold + share /\ sold + share <= High(b)
    <3>1. high \in Int /\ low \in Int
      BY <1>2
    <3>2. Largest(Least(high, after) - first, 0) > 0
      BY <1>5, <1>8
    <3> HIDE DEF high, low
    <3>3. first \in Int /\ first >= low /\ first >= sold
      BY <3>1 DEF Largest
    <3> HIDE DEF first
    <3>4. first < high /\ first < after
      BY <1>1, <3>1, <3>2, <3>3 DEF Least, Largest
    <3>5. share \in 1..Held(lots) /\ share \in Nat /\ low < sold + share /\ sold + share <= high
      BY <1>1, <3>1, <3>3, <3>4
    <3> QED BY <3>5 DEF high, low
  <2> HIDE DEF share
  <2>2. PICK i \in 1..n : Ahead(lots, i) < share /\ share <= Ahead(lots, i + 1)
    BY <2>1, LotOfShare
  <2> DEFINE c == w[i]
  <2>3. /\ c \in buys /\ sold + Ahead(lots, i + 1) = High(c)
        /\ sold + Ahead(lots, i) = Largest(sold, High(c) - c.qty)
    BY <1>3 DEF HeldFrom
  <2>4. High(c) \in Nat /\ c.qty \in Nat /\ High(b) \in Nat /\ b.qty \in Nat
    BY <1>2, <2>3
  <2> HIDE DEF c
  <2>5. /\ Earlier(b, c) => High(b) <= High(c) - c.qty
        /\ Earlier(c, b) => High(c) <= High(b) - b.qty
    BY <2>3, BuysApart
  <2> HIDE DEF High
  <2>6. High(c) - c.qty < sold + share /\ sold + share <= High(c)
    <3>1. Ahead(lots, i) \in Nat /\ Ahead(lots, i + 1) \in Nat
      BY <1>4
    <3>2. High(c) - c.qty <= sold + Ahead(lots, i)
      BY <2>3, <2>4 DEF Largest
    <3> DEFINE bottom == High(c) - c.qty
               ahead == Ahead(lots, i)
               upto == Ahead(lots, i + 1)
    <3>3. /\ bottom \in Int /\ ahead \in Nat /\ upto \in Nat /\ share \in Nat
          /\ bottom <= sold + ahead /\ ahead < share /\ share <= upto /\ sold + upto = High(c)
      BY <2>1, <2>2, <2>3, <2>4, <3>1, <3>2
    <3> HIDE DEF bottom, ahead, upto
    <3>4. bottom < sold + share /\ sold + share <= sold + upto
      BY <3>3
    <3> QED BY <3>3, <3>4 DEF bottom
  <2>7. ~Earlier(b, c) /\ ~Earlier(c, b)
    BY <2>1, <2>4, <2>5, <2>6
  <2>8. b \in E /\ c \in E
    BY <2>3
  <2>9. b = c
    BY <2>7, <2>8, TotalOrder
  <2> QED BY <2>9 DEF c
<1>9. I \subseteq 1..n /\ \A i \in 1..n : i \in I <=> taken[i] > 0 /\ lots[i].at = t
  BY <1>6 DEF TakenAt
<1>10. \A i \in 1..n : lots[i].at = w[i].at
  BY <1>3 DEF HeldFrom
<1> HIDE DEF w, I, taken, From, High
<1>11. W \subseteq B
  BY <1>3, <1>9, <1>10 DEF BoughtAt
<1>12. \A b \in B \ W : due[b] = 0
  <2> TAKE b \in B \ W
  <2>0. b \in buys
    BY DEF BoughtAt
  <2>1. ASSUME due[b] > 0 PROVE FALSE
    <3>1. PICK i \in 1..n : w[i] = b
      BY <1>8, <2>0, <2>1
    <3>2. i \in I
      BY <1>6, <1>9, <1>10, <2>1, <3>1 DEF BoughtAt
    <3> QED BY <3>1, <3>2
  <2>2. due[b] \in Nat
    BY <1>5, <2>0
  <2> QED BY <2>1, <2>2
<1>13. IsFiniteSet(I) /\ IsFiniteSet(B)
  <2>1. IsFiniteSet(1..n)
    BY <1>1, IntervalIsFinite
  <2>2. IsFiniteSet(E) /\ B \subseteq E
    BY DEF Ledger, BoughtAt
  <2> HIDE DEF B
  <2> QED BY <1>9, <2>1, <2>2, FS_Subset
<1>14. Renames(w, I, W)
  BY <1>7, <1>9 DEF Renames
<1>15. Carried(due, w, taken, I)
  BY <1>3, <1>5, <1>6, <1>9 DEF Carried
<1>16. \A b \in B : due[b] \in Int
  BY <1>5 DEF BoughtAt
<1> HIDE DEF W, B
<1>17. IsFiniteSet(W) /\ SumFunctionOnSet(due, W) = SumFunctionOnSet(taken, I)
  BY <1>13, <1>14, <1>15, SumRenamed
<1>18. SumFunctionOnSet(due, B) = SumFunctionOnSet(due, W)
  <2> DEFINE R == B \ W
  <2>1. IsFiniteSet(R) /\ B = W \cup R /\ W \cap R = {}
    BY <1>11, <1>13, FS_Subset
  <2>2. \A b \in R : due[b] = 0
    BY <1>12
  <2>3. \A b \in W \cup R : due[b] \in Int
    BY <1>16, <2>1
  <2> HIDE DEF R
  <2>4. SumFunctionOnSet(due, R) = 0
    BY <2>1, <2>2, SumOfZeros
  <2>5. SumFunctionOnSet(due, W) \in Int
    BY <1>17, <2>3, SumIsInteger
  <2>6. SumFunctionOnSet(due, W \cup R) = SumFunctionOnSet(due, W) + SumFunctionOnSet(due, R)
    BY <1>17, <2>1, <2>3, SumOfUnion
  <2> QED BY <2>1, <2>4, <2>5, <2>6
<1> QED BY <1>17, <1>18 DEF I, taken, B

-----------------------------------------------------------------------------
(* The book pairs first in, first out: what a sell is due does not change    *)
(* with the executions that come after it.                                   *)

LEMMA SharesDueStay ==
  ASSUME NEW done, NEW x, x \notin done, Ledger(done \cup {x}), ComesAfter(x, done),
         NEW sell \in done, sell.side = "SELL", NEW t
  PROVE  SharesDue(done \cup {x}, sell, t) = SharesDue(done, sell, t)
<1> DEFINE E == done \cup {x}
           s == sell.sym
           buys == Of(done, s, "BUY")
           sells == Of(done, s, "SELL")
           allBuys == Of(E, s, "BUY")
           allSells == Of(E, s, "SELL")
           upto == Upto(sells, sell)
           T == {b \in buys : b.at = t /\ Earlier(b, sell)}
           f == [b \in T |-> Cardinality(SharesOfBuy(buys, b) \cap SharesOfSell(buys, sells, sell))]
           g == [b \in T |-> Cardinality(SharesOfBuy(allBuys, b)
                                           \cap SharesOfSell(allBuys, allSells, sell))]
<1>1. /\ Ledger(E) /\ x \in E /\ buys \subseteq E \ {x} /\ sells \subseteq E \ {x}
      /\ ComesAfter(x, buys) /\ ComesAfter(x, sells) /\ sell \in E \ {x} /\ Earlier(sell, x)
  BY DEF Of, ComesAfter
<1>2. /\ allBuys = buys \/ allBuys = buys \cup {x}
      /\ allSells = sells \/ allSells = sells \cup {x}
  BY DEF Of
<1>3. ~Earlier(x, sell)
  BY <1>1, TotalOrder
<1>4. {b \in allBuys : b.at = t /\ Earlier(b, sell)} = T
  BY <1>2, <1>3
<1>5. SharesDue(E, sell, t) = SumFunction(g) /\ SharesDue(done, sell, t) = SumFunction(f)
  BY <1>4 DEF SharesDue
<1>6. upto \subseteq E \ {x} /\ ComesAfter(x, upto)
  BY <1>1 DEF Upto, ComesAfter
<1> HIDE DEF E, buys, sells, allBuys, allSells
<1>7. Upto(allSells, sell) = upto
  <2>1. Upto(sells \cup {x}, sell) = Upto(sells, sell)
    BY <1>1, UptoIs
  <2> QED BY <1>2, <2>1
<1>8. \A b \in buys : SharesOfBuy(allBuys, b) = SharesOfBuy(buys, b)
  <2> TAKE b \in buys
  <2>1. b \in E \ {x} /\ Earlier(b, x)
    BY <1>1 DEF ComesAfter
  <2>2. Upto(buys \cup {x}, b) = Upto(buys, b)
    BY <1>1, <2>1, UptoIs
  <2>3. Upto(allBuys, b) = Upto(buys, b)
    BY <1>2, <2>2
  <2> QED BY <2>3 DEF SharesOfBuy
<1>9. ASSUME NEW U, U \subseteq upto PROVE SoldAfter(allBuys, U) = SoldAfter(buys, U)
  <2>1. U \subseteq E \ {x} /\ ComesAfter(x, U)
    BY <1>6, <1>9 DEF ComesAfter
  <2>2. SoldAfter(buys \cup {x}, U) = SoldAfter(buys, U)
    BY <1>1, <2>1, SoldAfterBuy
  <2> QED BY <1>2, <2>2
<1>10. SharesOfSell(allBuys, allSells, sell) = SharesOfSell(buys, sells, sell)
  <2>1. SoldAfter(allBuys, upto) = SoldAfter(buys, upto)
    BY <1>9
  <2>2. SoldAfter(allBuys, upto \ {sell}) = SoldAfter(buys, upto \ {sell})
    BY <1>9
  <2> HIDE DEF upto
  <2> QED BY <1>7, <2>1, <2>2 DEF SharesOfSell, upto
<1>11. f = g
  BY <1>8, <1>10
<1> QED BY <1>5, <1>11 DEF E

LEMMA SharesDueOfLast ==
  ASSUME NEW done, NEW x, x \notin done, Ledger(done \cup {x}), ComesAfter(x, done),
         x.side = "SELL", NEW t
  PROVE  LET buys == Of(done, x.sym, "BUY")
             sells == Of(done, x.sym, "SELL")
             taken == (SoldAfter(buys, sells) + 1)..SoldAfter(buys, sells \cup {x})
         IN  SharesDue(done \cup {x}, x, t)
               = SumFunction([b \in BoughtAt(buys, t) |->
                                Cardinality(SharesOfBuy(buys, b) \cap taken)])
<1> DEFINE E == done \cup {x}
           buys == Of(done, x.sym, "BUY")
           sells == Of(done, x.sym, "SELL")
           taken == (SoldAfter(buys, sells) + 1)..SoldAfter(buys, sells \cup {x})
<1>1. Of(E, x.sym, "BUY") = buys /\ Of(E, x.sym, "SELL") = sells \cup {x}
  BY DEF Of
<1>2. /\ {b \in buys : b.at = t /\ Earlier(b, x)} = BoughtAt(buys, t)
      /\ Upto(sells \cup {x}, x) = sells \cup {x} /\ (sells \cup {x}) \ {x} = sells
  BY DEF Of, ComesAfter, Upto, BoughtAt
<1> HIDE DEF E, buys, sells
<1>3. SharesOfSell(buys, sells \cup {x}, x) = taken
  BY <1>2 DEF SharesOfSell
<1> HIDE DEF taken
<1> QED BY <1>1, <1>2, <1>3 DEF SharesDue, E, buys, sells, taken

Naming(details, sell, t) == {d \in details : d.id[1] = sell.id /\ d.buy_executed_at = t}

(* The book of a symbol: the shares of its buys are sold or held, its lots   *)
(* hold what is left of them in order, and every sell is paired with what it *)
(* is due.                                                                   *)
InOrder(lots, buys, sold) ==
  sold \in Nat /\ sold + Held(lots) = Qty(buys) /\ InLots(lots, buys, sold)

PairedAsDue(details, done, s) ==
  \A sell \in Of(done, s, "SELL") : \A t \in DOMAIN MarketPrice :
    Paired(Naming(details, sell, t)) = SharesDue(done, sell, t)

FirstInFirstOut(book, done) ==
  \A s \in Traded :
    /\ InOrder(book.lots[s], Of(done, s, "BUY"),
               SoldAfter(Of(done, s, "BUY"), Of(done, s, "SELL")))
    /\ PairedAsDue(book.details, done, s)

LEMMA LotsStayInOrder ==
  ASSUME NEW done, NEW e, e \notin done, Ledger(done \cup {e}), ComesAfter(e, done),
         NEW book, Book(book, done), FirstInFirstOut(book, done), NEW s \in Traded
  PROVE  LET all == done \cup {e}
         IN  InOrder(Account(book, e).lots[s], Of(all, s, "BUY"),
                     SoldAfter(Of(all, s, "BUY"), Of(all, s, "SELL")))
<1> DEFINE E == done \cup {e}
           next == Account(book, e)
           lots == book.lots[s]
           buys == Of(done, s, "BUY")
           sells == Of(done, s, "SELL")
           sold == SoldAfter(buys, sells)
           allBuys == Of(E, s, "BUY")
           allSells == Of(E, s, "SELL")
<1>1. e \in Executions /\ e.sym \in Traded /\ e.qty \in Nat /\ e.side \in Sides
  BY ExecutionTypes DEF Ledger
<1>2. /\ book \in [lots : [Traded -> Seq(LotType)], details : SUBSET Details]
      /\ book.lots \in [Traded -> Seq(LotType)] /\ lots \in Seq(LotType)
  BY DEF Book
<1>3. sold \in Nat /\ sold + Held(lots) = Qty(buys) /\ InLots(lots, buys, sold)
  BY DEF FirstInFirstOut, InOrder
<1>4. /\ e.side = "BUY" => next.lots = [book.lots EXCEPT ![e.sym] = queued(book.lots[e.sym], e)]
      /\ e.side # "BUY" => next.lots = [book.lots EXCEPT ![e.sym] = Reduced(book.lots[e.sym], e)]
  BY <1>1, <1>2, AccountIs
<1>5. /\ Ledger(E) /\ e \in E /\ buys \subseteq E \ {e} /\ sells \subseteq E \ {e}
      /\ ComesAfter(e, buys) /\ ComesAfter(e, sells)
  BY DEF Of, ComesAfter
<1>6. CASE s # e.sym
  <2>1. allBuys = buys /\ allSells = sells
    BY <1>6 DEF Of
  <2>2. next.lots[s] = lots
    BY <1>1, <1>2, <1>4, <1>6
  <2> QED BY <1>3, <2>1, <2>2 DEF InOrder
<1>7. CASE s = e.sym /\ e.side = "BUY"
  <2>1. allBuys = buys \cup {e} /\ allSells = sells
    BY <1>7 DEF Of
  <2>2. next.lots[s] = queued(lots, e)
    BY <1>1, <1>2, <1>4, <1>7
  <2> HIDE DEF E, next, lots, buys, sells, allBuys, allSells
  <2>3. SoldAfter(allBuys, allSells) = sold
    BY <1>5, <2>1, SoldAfterBuy
  <2> HIDE DEF sold
  <2>4. InLots(queued(lots, e), allBuys, sold) /\ sold + Held(queued(lots, e)) = Qty(allBuys)
    BY <1>2, <1>3, <1>5, <2>1, LotsAfterBuy
  <2>5. InOrder(next.lots[s], allBuys, SoldAfter(allBuys, allSells))
    BY <1>3, <2>2, <2>3, <2>4 DEF InOrder
  <2> QED BY <2>5 DEF E, next, allBuys, allSells
<1>8. CASE s = e.sym /\ e.side # "BUY"
  <2>1. allBuys = buys /\ allSells = sells \cup {e}
    BY <1>1, <1>8 DEF Of, Sides
  <2>2. next.lots[s] = Reduced(lots, e)
    BY <1>1, <1>2, <1>4, <1>8
  <2> DEFINE after == SoldAfter(allBuys, allSells)
  <2> HIDE DEF E, next, lots, buys, sells, allBuys, allSells
  <2>3. after = Least(sold + e.qty, Qty(buys))
    BY <1>5, <2>1, SoldAfterSell
  <2>4. after \in Nat
    <3>1. allBuys \subseteq E /\ allSells \subseteq E
      BY <1>5, <2>1
    <3> QED BY <1>5, <3>1, TotalsAre
  <2> HIDE DEF sold, after
  <2>5. InLots(Reduced(lots, e), buys, after) /\ after + Held(Reduced(lots, e)) = Qty(buys)
    <3>1. buys \subseteq E
      BY <1>5
    <3> QED BY <1>2, <1>3, <1>5, <2>3, <3>1, LotsAfterSell
  <2>6. InOrder(next.lots[s], allBuys, after)
    BY <2>1, <2>2, <2>4, <2>5 DEF InOrder
  <2> QED BY <2>6 DEF E, next, allBuys, allSells, after
<1> QED BY <1>6, <1>7, <1>8

LEMMA SellsStayPaired ==
  ASSUME NEW done, NEW e, e \notin done, Ledger(done \cup {e}), ComesAfter(e, done),
         NEW book, Book(book, done), FirstInFirstOut(book, done), NEW s \in Traded
  PROVE  PairedAsDue(Account(book, e).details, done \cup {e}, s)
<1> DEFINE E == done \cup {e}
           next == Account(book, e)
           lots == book.lots[e.sym]
<1> SUFFICES ASSUME NEW sell \in Of(E, s, "SELL"), NEW t \in DOMAIN MarketPrice
             PROVE  Paired(Naming(next.details, sell, t)) = SharesDue(E, sell, t)
  BY DEF PairedAsDue
<1>1. e \in Executions /\ e.sym \in Traded /\ e.qty \in Nat /\ e.side \in Sides
  BY ExecutionTypes DEF Ledger
<1>2. /\ book \in [lots : [Traded -> Seq(LotType)], details : SUBSET Details]
      /\ lots \in Seq(LotType)
      /\ \A d \in book.details : \E x \in done : x.id = d.id[1]
  BY <1>1 DEF Book
<1>3. /\ e.side = "BUY" => next.details = book.details
      /\ e.side # "BUY" => next.details = book.details \cup Adds(lots, e)
  BY <1>1, <1>2, AccountIs
<1>4. \A d \in Adds(lots, e) : d.id[1] = e.id
  BY <1>1, <1>2, AddsIs
<1>5. \A x \in done : x.id # e.id
  BY DEF Ledger
<1>6. sell.sym = s /\ sell.side = "SELL" /\ sell \in E
  BY DEF Of
<1>7. CASE sell \in done
  <2>1. Naming(next.details, sell, t) = Naming(book.details, sell, t)
    BY <1>3, <1>4, <1>5, <1>7 DEF Naming
  <2>2. sell \in Of(done, s, "SELL")
    BY <1>6, <1>7 DEF Of
  <2>3. Paired(Naming(book.details, sell, t)) = SharesDue(done, sell, t)
    BY <2>2 DEF FirstInFirstOut, PairedAsDue
  <2>4. SharesDue(E, sell, t) = SharesDue(done, sell, t)
    BY <1>6, <1>7, SharesDueStay
  <2> QED BY <2>1, <2>3, <2>4
<1>8. CASE sell = e
  <2> DEFINE buys == Of(done, e.sym, "BUY")
             sells == Of(done, e.sym, "SELL")
             sold == SoldAfter(buys, sells)
             after == SoldAfter(buys, sells \cup {e})
             B == BoughtAt(buys, t)
             due == [b \in buys |-> Cardinality(SharesOfBuy(buys, b) \cap ((sold + 1)..after))]
             dueAt == [b \in B |-> Cardinality(SharesOfBuy(buys, b) \cap ((sold + 1)..after))]
  <2>1. e.side = "SELL" /\ e.sym = s
    BY <1>6, <1>8
  <2>2. Naming(next.details, e, t) = At(Adds(lots, e), t)
    BY <1>2, <1>3, <1>4, <1>5, <2>1 DEF Naming, At
  <2>3. Paired(At(Adds(lots, e), t))
          = SumFunctionOnSet(Taken(lots, e), TakenAt(lots, e, t))
    BY <1>1, <1>2, PairedAt
  <2>4. SharesDue(E, e, t) = SumFunction(dueAt)
    BY <2>1, SharesDueOfLast
  <2>5. SumFunction(dueAt) = SumFunctionOnSet(dueAt, B)
    BY DEF SumFunction
  <2>6. /\ Ledger(E) /\ e \in E /\ buys \subseteq E \ {e} /\ sells \subseteq E \ {e}
        /\ ComesAfter(e, buys) /\ ComesAfter(e, sells)
    BY DEF Of, ComesAfter
  <2>7. sold \in Nat /\ sold + Held(lots) = Qty(buys) /\ InLots(lots, buys, sold)
    BY <2>1 DEF FirstInFirstOut, InOrder
  <2>8. SumFunctionOnSet(dueAt, B) = SumFunctionOnSet(due, B)
    <3>1. IsFiniteSet(B)
      <4>1. IsFiniteSet(E) /\ B \subseteq E
        BY <2>6 DEF Ledger, BoughtAt
      <4> HIDE DEF B
      <4> QED BY <4>1, FS_Subset
    <3>2. \A b \in B : dueAt[b] = due[b]
      BY DEF BoughtAt
    <3> HIDE DEF B, due, dueAt
    <3> QED BY <3>1, <3>2, SumOfTheSame
  <2>9. SharesTaken(due, buys, sold, after)
    BY DEF SharesTaken
  <2> HIDE DEF E, lots, buys, sells, dueAt, due, next
  <2>10. after = Least(sold + e.qty, Qty(buys))
    BY <2>6, SoldAfterSell
  <2> HIDE DEF sold, after
  <2>11. SumFunctionOnSet(Taken(lots, e), TakenAt(lots, e, t)) = SumFunctionOnSet(due, B)
    <3>1. buys \subseteq E
      BY <2>6
    <3> QED BY <1>2, <2>6, <2>7, <2>9, <2>10, <3>1, SellTakesInOrder
  <2> HIDE DEF B
  <2> QED BY <1>8, <2>2, <2>3, <2>4, <2>5, <2>8, <2>11
<1> QED BY <1>6, <1>7, <1>8

LEMMA EmptyBookInOrder == FirstInFirstOut(NoBook, {})
<1> SUFFICES ASSUME NEW s \in Traded
             PROVE  /\ InOrder(NoBook.lots[s], Of({}, s, "BUY"),
                               SoldAfter(Of({}, s, "BUY"), Of({}, s, "SELL")))
                    /\ PairedAsDue(NoBook.details, {}, s)
  BY DEF FirstInFirstOut
<1>1. Of({}, s, "BUY") = {} /\ Of({}, s, "SELL") = {}
  BY DEF Of
<1>2. NoBook.lots[s] = <<>> /\ Len(<<>>) = 0 /\ 1..Len(<<>>) = {}
  BY DEF NoBook
<1>3. SoldAfter({}, {}) = 0
  BY NothingSold
<1>4. Held(<<>>) = 0 /\ Qty({}) = 0
  BY <1>2, SumOfNothing DEF Held, Qty, SumFunction
<1>5. InLots(<<>>, {}, 0)
  BY <1>2 DEF InLots
<1>6. InOrder(<<>>, {}, 0)
  BY <1>4, <1>5 DEF InOrder
<1>7. PairedAsDue(NoBook.details, {}, s)
  BY <1>1 DEF PairedAsDue
<1> QED BY <1>1, <1>2, <1>3, <1>6, <1>7

LEMMA BooksAreInOrder ==
  ASSUME NEW E, Ledger(E), NEW after, Books(after, E)
  PROVE  \A done \in SUBSET E : FirstInFirstOut(after[done], done)
<1> DEFINE Fail == {done \in SUBSET E : ~FirstInFirstOut(after[done], done)}
<1> SUFFICES ASSUME Fail # {} PROVE FALSE
  OBVIOUS
<1>1. PICK done \in Fail : \A u \in Fail : u \subseteq done => u = done
  <2>1. Fail \subseteq SUBSET E /\ IsFiniteSet(E)
    BY DEF Ledger
  <2> HIDE DEF Fail
  <2> QED BY <2>1, MinimalSubset
<1>2. done \in SUBSET E /\ ~FirstInFirstOut(after[done], done)
  OBVIOUS
<1>3. after[done] = BookStep(after, done)
  BY <1>2 DEF Books
<1>4. done # {}
  BY <1>2, <1>3, EmptyBookInOrder DEF BookStep
<1> DEFINE e == Latest(done)
           before == done \ {e}
<1>5. Ledger(done) /\ e \in done /\ \A f \in done : f = e \/ Earlier(f, e)
  BY <1>2, <1>4, PartOfLedger, LatestIsLast
<1>6. before \in SUBSET E /\ before \notin Fail
  BY <1>1, <1>2, <1>5
<1>7. FirstInFirstOut(after[before], before) /\ after[done] = Account(after[before], e)
  BY <1>3, <1>4, <1>6 DEF BookStep
<1>8. before \cup {e} = done /\ e \notin before /\ ComesAfter(e, before)
  BY <1>5 DEF ComesAfter
<1>9. Book(after[before], before)
  BY <1>6, BooksAreKept
<1> HIDE DEF e, before, Fail
<1>10. ASSUME NEW s \in Traded
       PROVE  /\ InOrder(Account(after[before], e).lots[s], Of(before \cup {e}, s, "BUY"),
                         SoldAfter(Of(before \cup {e}, s, "BUY"), Of(before \cup {e}, s, "SELL")))
              /\ PairedAsDue(Account(after[before], e).details, before \cup {e}, s)
  <2>1. Ledger(before \cup {e})
    BY <1>5, <1>8
  <2> QED BY <1>7, <1>8, <1>9, <2>1, LotsStayInOrder, SellsStayPaired
<1>11. FirstInFirstOut(Account(after[before], e), before \cup {e})
  BY <1>10 DEF FirstInFirstOut
<1> QED BY <1>2, <1>7, <1>8, <1>11

(* First in, first out, for any ledger: the details of a sell name, of the   *)
(* buys at each time, exactly the shares that follow those sold before       *)
(* (build_trade_details, prp/reporting.py).                                  *)
THEOREM FirstInIsFirstOut == Spec => []PairsAreFirstInFirstOut
<1>1. IInv => PairsAreFirstInFirstOut
  <2> DEFINE E == execution_events
             details == build_trade_details(E)
  <2> SUFFICES ASSUME IInv, NEW sell \in E, sell.side = "SELL", NEW t \in DOMAIN MarketPrice
               PROVE  Paired(Naming(details, sell, t)) = SharesDue(E, sell, t)
    BY DEF PairsAreFirstInFirstOut, Paired, Naming
  <2>1. Ledger(E)
    BY DEF IInv, Types
  <2>2. PICK after : Books(after, E)
    BY <2>1, BooksExist
  <2>3. details = after[E].details
    BY <2>1, <2>2, DetailsOfBook
  <2>4. FirstInFirstOut(after[E], E)
    BY <2>1, <2>2, BooksAreInOrder
  <2>5. sell.sym \in Traded /\ sell \in Of(E, sell.sym, "SELL")
    BY <2>1, ExecutionTypes DEF Ledger, Of
  <2> HIDE DEF E, details
  <2> QED BY <2>3, <2>4, <2>5 DEF FirstInFirstOut, PairedAsDue
<1> QED BY <1>1, IInvHolds, PTL

=============================================================================
