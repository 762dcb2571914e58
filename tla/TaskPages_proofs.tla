-------------------------- MODULE TaskPages_proofs --------------------------
(***************************************************************************)
(* For any table, any page sizes and any number of refreshes and walks, a  *)
(* walk through the pages of GET /tasks sees every task that is there all  *)
(* along, and none twice, whichever of its pages come from the entry in    *)
(* Redis, from an entry that replaced it or from the table.                *)
(***************************************************************************)
EXTENDS TaskPages, FiniteSetTheorems, SequenceTheorems, TLAPS

-----------------------------------------------------------------------------
(***************************************************************************)
(* Sets of row keys: the first element, and the elements by their rank.    *)
(***************************************************************************)
\* A set of naturals that is not empty has a first element: of the intervals that end at
\* its elements one is minimal.
LEMMA FirstIsLeast ==
    ASSUME NEW S, S \subseteq Nat, S # {}
    PROVE  First(S) \in S /\ \A u \in S : First(S) <= u
<1> DEFINE Below == {0..t : t \in S}
           R == StrictSubsetOrdering(Nat)
<1>1. Below \subseteq FiniteSubsetsOf(Nat) /\ Below # {}
  <2>1. \A t \in S : 0..t \in FiniteSubsetsOf(Nat)
    BY FS_Interval DEF FiniteSubsetsOf
  <2>2. PICK t \in S : TRUE
    OBVIOUS
  <2>3. QED
    BY <2>1, <2>2
<1>2. IsWellFoundedOn(R, FiniteSubsetsOf(Nat))
  BY FS_StrictSubsetOrderingWellFounded
<1>3. PICK x \in Below : \A y \in Below : ~(<<y, x>> \in R)
  <2> HIDE DEF Below, R
  <2> QED BY <1>1, <1>2, WFMin
<1>4. PICK t \in S : x = 0..t
  OBVIOUS
<1>5. ASSUME NEW u \in S, u < t PROVE FALSE
  <2>1. 0..u \subseteq 0..t /\ t \in 0..t /\ t \notin 0..u /\ 0..u \in Below
    BY <1>5
  <2>2. <<0..u, 0..t>> \in R
    BY <2>1 DEF StrictSubsetOrdering
  <2>3. QED
    BY <2>1, <2>2, <1>3, <1>4
<1>6. t \in S /\ \A u \in S : t <= u
  BY <1>5
<1>7. QED
  BY <1>6 DEF First

\* The rank of an element is a natural number below the size of the set.
LEMMA BeforeType ==
    ASSUME NEW S, S \subseteq Nat, IsFiniteSet(S), NEW t \in S
    PROVE  Before(S, t) \in Nat /\ Before(S, t) < Cardinality(S)
<1> DEFINE B == {u \in S : u < t}
<1>1. B \in SUBSET S /\ B # S
  OBVIOUS
<1>2. IsFiniteSet(B) /\ Cardinality(B) <= Cardinality(S) /\ Cardinality(B) # Cardinality(S)
  <2> HIDE DEF B
  <2> QED BY <1>1, FS_Subset
<1>3. Cardinality(B) \in Nat /\ Cardinality(S) \in Nat
  <2> HIDE DEF B
  <2> QED BY <1>2, FS_CardinalityType
<1>4. QED
  BY <1>2, <1>3 DEF Before

\* Ranks are ordered as the elements are.
LEMMA BeforeMonotone ==
    ASSUME NEW S, S \subseteq Nat, IsFiniteSet(S), NEW t \in S, NEW u \in S, t < u
    PROVE  Before(S, t) < Before(S, u)
<1> DEFINE A == {v \in S : v < t}
           B == {v \in S : v < u}
<1>1. A \in SUBSET B /\ t \in B /\ t \notin A /\ B \in SUBSET S
  <2>1. t \in Nat /\ u \in Nat /\ \A v \in S : v \in Nat
    OBVIOUS
  <2>2. \A v \in S : v < t => v < u
    BY <2>1
  <2>3. A \in SUBSET B /\ B \in SUBSET S
    BY <2>2
  <2>4. t \in B /\ t \notin A
    BY <2>1
  <2>5. QED
    BY <2>3, <2>4
<1>2. IsFiniteSet(B)
  <2> HIDE DEF B
  <2> QED BY <1>1, FS_Subset
<1>3. IsFiniteSet(A) /\ Cardinality(A) <= Cardinality(B) /\ Cardinality(A) # Cardinality(B)
  <2> HIDE DEF A, B
  <2> QED BY <1>1, <1>2, FS_Subset
<1>4. Cardinality(A) \in Nat /\ Cardinality(B) \in Nat
  <2> HIDE DEF A, B
  <2> QED BY <1>2, <1>3, FS_CardinalityType
<1>5. QED
  BY <1>3, <1>4 DEF Before

\* Every rank is taken: an unused one would leave too few for the elements.
LEMMA BeforeOnto ==
    ASSUME NEW S, S \subseteq Nat, IsFiniteSet(S), NEW k \in 0..(Cardinality(S) - 1)
    PROVE  \E t \in S : Before(S, t) = k
<1>1. SUFFICES ASSUME \A t \in S : Before(S, t) # k PROVE FALSE
  OBVIOUS
<1> DEFINE n == Cardinality(S)
           R == (0..(n - 1)) \ {k}
           f == [t \in S |-> Before(S, t)]
<1>2. n \in Nat /\ n > 0
  BY FS_CardinalityType
<1>3. IsFiniteSet(0..(n - 1)) /\ Cardinality(0..(n - 1)) = n
  BY <1>2, FS_Interval
<1>4. IsFiniteSet(R) /\ Cardinality(R) = n - 1
  BY <1>3, FS_RemoveElement
<1>5. f \in [S -> R]
  <2>1. ASSUME NEW t \in S PROVE Before(S, t) \in R
    <3>1. Before(S, t) \in Nat /\ Before(S, t) < n
      BY BeforeType
    <3>2. QED
      BY <1>1, <1>2, <3>1
  <2>2. QED
    BY <2>1
<1>6. PICK x, y \in S : x # y /\ f[x] = f[y]
  <2>1. Cardinality(R) < Cardinality(S)
    BY <1>2, <1>4
  <2> HIDE DEF R, f
  <2> QED BY <1>4, <1>5, <2>1, FS_PigeonHole
<1>7. Before(S, x) = Before(S, y) /\ Before(S, x) \in Nat
  BY <1>6, BeforeType
<1>8. x < y \/ y < x
  BY <1>6
<1>9. Before(S, x) < Before(S, y) \/ Before(S, y) < Before(S, x)
  BY <1>8, BeforeMonotone
<1>10. QED
  BY <1>7, <1>9

\* No more than n elements have a rank below n.
LEMMA BeforeBounds ==
    ASSUME NEW S, S \subseteq Nat, IsFiniteSet(S), NEW n \in Nat
    PROVE  Cardinality({t \in S : Before(S, t) < n}) <= n
<1> DEFINE P == {t \in S : Before(S, t) < n}
           f == [t \in P |-> Before(S, t)]
<1>1. SUFFICES ASSUME ~(Cardinality(P) <= n) PROVE FALSE
  OBVIOUS
<1>2. IsFiniteSet(P) /\ Cardinality(P) \in Nat
  <2>1. P \in SUBSET S
    OBVIOUS
  <2> HIDE DEF P
  <2> QED BY <2>1, FS_Subset, FS_CardinalityType
<1>3. IsFiniteSet(0..(n - 1)) /\ Cardinality(0..(n - 1)) = n
  BY FS_Interval
<1>4. f \in [P -> 0..(n - 1)]
  <2>1. ASSUME NEW t \in P PROVE Before(S, t) \in 0..(n - 1)
    <3>1. t \in S /\ Before(S, t) < n
      OBVIOUS
    <3>2. Before(S, t) \in Nat
      BY <3>1, BeforeType
    <3>3. QED
      BY <3>1, <3>2
  <2>2. QED
    BY <2>1
<1>5. PICK x, y \in P : x # y /\ f[x] = f[y]
  <2>1. Cardinality(0..(n - 1)) < Cardinality(P)
    BY <1>1, <1>2, <1>3
  <2> HIDE DEF P, f
  <2> QED BY <1>2, <1>3, <1>4, <2>1, FS_PigeonHole
<1>6. Before(S, x) = Before(S, y) /\ Before(S, x) \in Nat
  BY <1>5, BeforeType
<1>7. (x < y \/ y < x) /\ x \in S /\ y \in S
  BY <1>5
<1>8. Before(S, x) < Before(S, y) \/ Before(S, y) < Before(S, x)
  BY <1>7, BeforeMonotone
<1>9. QED
  BY <1>6, <1>8

-----------------------------------------------------------------------------
(***************************************************************************)
(* What an answer of GET /tasks is, whether it comes from the table or     *)
(* from the entry.                                                         *)
(***************************************************************************)
\* A page that starts at a token: its tasks are not before the token, and every row that
\* was there all along is before it, on the page, or behind the next token.
IsPage(p, from) ==
    /\ p.tasks \in Listing /\ p.next \in Token
    /\ Ascending(p.tasks)
    /\ \A j \in DOMAIN p.tasks : p.tasks[j].id >= from
    /\ p.next # 0 => p.next > from /\ \A j \in DOMAIN p.tasks : p.tasks[j].id < p.next
    /\ \A t \in Existing : t >= from => Has(p.tasks, t) \/ (p.next # 0 /\ t >= p.next)

\* A function on 1..n is a sequence of length n.
LEMMA FunctionIsSeq ==
    ASSUME NEW X, NEW n \in Nat, NEW f \in [1..n -> X]
    PROVE  f \in Seq(X) /\ Len(f) = n /\ DOMAIN f = 1..n
<1>1. f \in Seq(X)
  BY SeqDef
<1>2. Len(f) \in Nat /\ DOMAIN f = 1..Len(f)
  BY <1>1, LenProperties
<1>3. 1..Len(f) = 1..n
  BY <1>2
<1>4. QED
  BY <1>1, <1>2, <1>3

\* Rows lists a set of rows, each of them once and in order.
LEMMA RowsList ==
    ASSUME TypeOK, NEW S, S \subseteq Task
    PROVE  /\ IsFiniteSet(S) /\ Cardinality(S) \in Nat
           /\ Rows(S) \in Listing
           /\ Len(Rows(S)) = Cardinality(S) /\ DOMAIN Rows(S) = 1..Cardinality(S)
           /\ Ascending(Rows(S))
           /\ \A i \in DOMAIN Rows(S) : Rows(S)[i].id \in S
           /\ \A t \in S : Has(Rows(S), t)
<1> DEFINE n == Cardinality(S)
           At(i) == CHOOSE t \in S : Before(S, t) = i - 1
<1>1. S \subseteq Nat /\ IsFiniteSet(S) /\ n \in Nat
  BY PagesAssumption, FS_Subset, FS_CardinalityType
<1>2. ASSUME NEW i \in 1..n PROVE At(i) \in S /\ Before(S, At(i)) = i - 1
  <2>1. i - 1 \in 0..(n - 1)
    BY <1>1
  <2>2. \E t \in S : Before(S, t) = i - 1
    <3> HIDE DEF n
    <3> QED BY <1>1, <2>1, BeforeOnto DEF n
  <2>3. QED
    BY <2>2
<1> HIDE DEF At
<1>3. Rows(S) = [i \in 1..n |-> [id |-> At(i), version |-> row[At(i)]]]
  BY DEF Rows, At
<1>4. ASSUME NEW i \in 1..n
      PROVE  Rows(S)[i] \in [id: Task, version: Nat] /\ Rows(S)[i].id = At(i)
  <2>1. At(i) \in Task
    BY <1>2
  <2>2. row[At(i)] \in Nat
    BY <2>1 DEF TypeOK
  <2>3. QED
    BY <1>3, <2>1, <2>2
<1>5. Rows(S) \in Listing /\ Len(Rows(S)) = n /\ DOMAIN Rows(S) = 1..n
  <2>1. Rows(S) \in [1..n -> [id: Task, version: Nat]]
    BY <1>3, <1>4
  <2> HIDE DEF n
  <2>2. QED
    BY <1>1, <2>1, FunctionIsSeq DEF Listing
<1>6. ASSUME NEW i \in 1..n, NEW j \in 1..n, i < j PROVE At(i) < At(j)
  <2>1. At(i) \in S /\ At(j) \in S /\ Before(S, At(i)) = i - 1 /\ Before(S, At(j)) = j - 1
    BY <1>2
  <2>2. CASE At(i) = At(j)
    BY <1>1, <1>6, <2>1, <2>2
  <2>3. CASE At(j) < At(i)
    <3>1. Before(S, At(j)) < Before(S, At(i))
      BY <1>1, <2>1, <2>3, BeforeMonotone
    <3>2. QED
      BY <1>1, <1>6, <2>1, <3>1
  <2>4. At(i) \in Nat /\ At(j) \in Nat
    BY <1>1, <2>1
  <2>5. QED
    BY <2>2, <2>3, <2>4
<1>7. ASSUME NEW t \in S PROVE Has(Rows(S), t)
  <2>1. Before(S, t) \in Nat /\ Before(S, t) < n
    BY <1>1, BeforeType
  <2>2. PICK i \in 1..n : i = Before(S, t) + 1
    BY <1>1, <2>1
  <2>3. At(i) \in S /\ Before(S, At(i)) = Before(S, t)
    BY <1>2, <2>1, <2>2
  <2>4. At(i) \in Nat /\ t \in Nat
    BY <1>1, <2>3
  <2>5. At(i) = t
    <3>1. CASE At(i) < t
      <4>1. Before(S, At(i)) < Before(S, t)
        BY <1>1, <2>3, <3>1, BeforeMonotone
      <4>2. QED
        BY <2>1, <2>3, <4>1
    <3>2. CASE t < At(i)
      <4>1. Before(S, t) < Before(S, At(i))
        BY <1>1, <2>3, <3>2, BeforeMonotone
      <4>2. QED
        BY <2>1, <2>3, <4>1
    <3>3. QED
      BY <2>4, <3>1, <3>2
  <2>6. QED
    BY <1>4, <1>5, <2>5 DEF Has
<1>8. QED
  BY <1>1, <1>2, <1>4, <1>5, <1>6, <1>7 DEF Ascending

\* An answer of the table is a page, of no more rows than asked for.
LEMMA TableAnswers ==
    ASSUME TypeOK, \A t \in Existing : row[t] > 0,
           NEW from \in Token, NEW limit \in Nat, NEW p \in TablePages(from, limit)
    PROVE  IsPage(p, from) /\ Len(p.tasks) \in Nat /\ Len(p.tasks) <= limit
<1> DEFINE rest == Rest(from)
<1>1. PICK n \in 1..limit :
         p = [tasks |-> Rows({t \in rest : Before(rest, t) < n}),
              next |-> encodeContinuationToken(rest \ {t \in rest : Before(rest, t) < n})]
  BY DEF TablePages
<1> DEFINE S == {t \in rest : Before(rest, t) < n}
<1>2. p.tasks = Rows(S) /\ p.next = encodeContinuationToken(rest \ S)
  BY <1>1
<1>3. /\ rest \subseteq Task /\ Task \subseteq Nat /\ rest \subseteq Nat /\ IsFiniteSet(rest)
      /\ from \in Nat /\ 0 \notin Task /\ n \in Nat
  <2>1. Task \subseteq Nat /\ 0 \notin Task /\ IsFiniteSet(Task) /\ n \in Nat
    BY PagesAssumption
  <2>2. rest \in SUBSET Task /\ from \in Nat
    BY <2>1 DEF Rest, Token
  <2>3. IsFiniteSet(rest)
    <3> HIDE DEF rest
    <3> QED BY <2>1, <2>2, FS_Subset
  <2>4. QED
    BY <2>1, <2>2, <2>3
<1>4. /\ \A t \in rest : t >= from
      /\ \A t \in Existing : t >= from => t \in rest
  BY PagesAssumption DEF Rest
<1> HIDE DEF rest
<1>5. S \subseteq rest /\ S \subseteq Task
  BY <1>3
<1>6. ASSUME NEW t \in S, NEW u \in rest \ S PROVE t < u
  <2>1. /\ t \in rest /\ u \in rest /\ t \in Nat /\ u \in Nat
        /\ Before(rest, t) < n /\ ~(Before(rest, u) < n)
    BY <1>3
  <2>2. Before(rest, t) \in Nat /\ Before(rest, u) \in Nat
    BY <1>3, <2>1, BeforeType
  <2>3. CASE u < t
    <3>1. Before(rest, u) < Before(rest, t)
      BY <1>3, <2>1, <2>3, BeforeMonotone
    <3>2. QED
      BY <1>3, <2>1, <2>2, <3>1
  <2>4. CASE u = t
    BY <2>1, <2>4
  <2>5. QED
    BY <2>1, <2>3, <2>4
<1>7. Cardinality(S) <= n
  BY <1>3, BeforeBounds
<1>8. ASSUME rest # {} PROVE First(rest) \in S
  <2>1. First(rest) \in rest /\ \A u \in rest : First(rest) <= u
    BY <1>3, <1>8, FirstIsLeast
  <2>2. {u \in rest : u < First(rest)} = {}
    <3>1. First(rest) \in Nat /\ \A u \in rest : u \in Nat
      BY <1>3, <2>1
    <3>2. \A u \in rest : ~(u < First(rest))
      BY <2>1, <3>1
    <3>3. QED
      BY <3>2
  <2>3. Before(rest, First(rest)) = 0
    BY <2>2, FS_EmptySet DEF Before
  <2>4. QED
    BY <1>3, <2>1, <2>3
<1> HIDE DEF S
<1>9. /\ Cardinality(S) \in Nat /\ Rows(S) \in Listing
      /\ Len(Rows(S)) = Cardinality(S) /\ Ascending(Rows(S))
      /\ \A i \in DOMAIN Rows(S) : Rows(S)[i].id \in S
      /\ \A t \in S : Has(Rows(S), t)
  BY <1>5, RowsList
<1>10. CASE rest \ S = {}
  <2>1. p.next = 0
    BY <1>2, <1>10 DEF encodeContinuationToken
  <2>2. \A t \in Existing : t >= from => Has(p.tasks, t)
    BY <1>2, <1>4, <1>9, <1>10
  <2>3. \A i \in DOMAIN p.tasks : p.tasks[i].id >= from
    BY <1>2, <1>4, <1>5, <1>9
  <2>4. QED
    BY <1>2, <1>3, <1>7, <1>9, <2>1, <2>2, <2>3 DEF IsPage, Token
<1>11. CASE rest \ S # {}
  <2>1. p.next = First(rest \ S)
    BY <1>2, <1>11 DEF encodeContinuationToken
  <2>2. p.next \in rest \ S /\ \A u \in rest \ S : p.next <= u
    <3>1. rest \ S \subseteq Nat
      BY <1>3
    <3>2. QED
      BY <1>11, <2>1, <3>1, FirstIsLeast
  <2>3. p.next \in Task /\ p.next \in Nat /\ p.next # 0 /\ \A t \in S : t < p.next
    BY <1>3, <1>6, <2>2
  <2>4. p.next > from
    <3>1. First(rest) \in S
      BY <1>8, <2>2
    <3>2. First(rest) < p.next /\ First(rest) >= from /\ First(rest) \in Nat
      BY <1>3, <1>4, <1>5, <2>3, <3>1
    <3>3. QED
      BY <1>3, <2>3, <3>2
  <2>5. \A t \in Existing : t >= from => Has(p.tasks, t) \/ t >= p.next
    BY <1>2, <1>3, <1>4, <1>9, <2>2
  <2>6. \A i \in DOMAIN p.tasks : p.tasks[i].id >= from /\ p.tasks[i].id < p.next
    BY <1>2, <1>4, <1>5, <1>9, <2>3
  <2>7. Len(p.tasks) \in Nat /\ Len(p.tasks) <= limit
    BY <1>2, <1>3, <1>7, <1>9
  <2>8. QED
    BY <1>2, <1>9, <2>3, <2>4, <2>5, <2>6, <2>7 DEF IsPage, Token
<1>12. QED
  BY <1>10, <1>11

\* What is on two listings one after the other.
LEMMA ListingConcat ==
    ASSUME NEW a \in Listing, NEW b \in Listing
    PROVE  /\ a \o b \in Listing
           /\ Len(a) \in Nat /\ Len(b) \in Nat /\ Len(a \o b) = Len(a) + Len(b)
           /\ DOMAIN a = 1..Len(a) /\ DOMAIN b = 1..Len(b)
           /\ DOMAIN (a \o b) = 1..(Len(a) + Len(b))
           /\ \A i \in 1..Len(a) : (a \o b)[i] = a[i]
           /\ \A i \in 1..Len(b) : (a \o b)[Len(a) + i] = b[i]
           /\ \A i \in DOMAIN (a \o b) : i \in DOMAIN a \/ i - Len(a) \in DOMAIN b
<1> DEFINE X == [id: Task, version: Nat]
<1> HIDE DEF X
<1>1. a \in Seq(X) /\ b \in Seq(X)
  BY DEF Listing, X
<1>2. /\ a \o b \in Seq(X)
      /\ Len(a) \in Nat /\ Len(b) \in Nat /\ Len(a \o b) = Len(a) + Len(b)
      /\ DOMAIN a = 1..Len(a) /\ DOMAIN b = 1..Len(b)
      /\ DOMAIN (a \o b) = 1..Len(a \o b)
  BY <1>1, ConcatProperties, LenProperties
<1>3. \A i \in 1..(Len(a) + Len(b)) :
         (a \o b)[i] = IF i <= Len(a) THEN a[i] ELSE b[i - Len(a)]
  BY <1>1, ConcatProperties
<1>4. /\ \A i \in 1..Len(a) : (a \o b)[i] = a[i]
      /\ \A i \in 1..Len(b) : (a \o b)[Len(a) + i] = b[i]
  <2>1. ASSUME NEW i \in 1..Len(a) PROVE (a \o b)[i] = a[i]
    <3>1. i \in 1..(Len(a) + Len(b)) /\ i <= Len(a)
      BY <1>2
    <3>2. QED
      BY <1>3, <3>1, Zenon
  <2>2. ASSUME NEW i \in 1..Len(b) PROVE (a \o b)[Len(a) + i] = b[i]
    <3>1. PICK k : k = Len(a) + i
      OBVIOUS
    <3>2. k \in 1..(Len(a) + Len(b)) /\ ~(k <= Len(a)) /\ k - Len(a) = i
      BY <1>2, <3>1
    <3>3. (a \o b)[k] = b[k - Len(a)]
      BY <1>3, <3>2, Zenon
    <3>4. QED
      BY <3>1, <3>2, <3>3
  <2>3. QED
    BY <2>1, <2>2
<1>5. \A i \in 1..(Len(a) + Len(b)) : i \in 1..Len(a) \/ i - Len(a) \in 1..Len(b)
  BY <1>2
<1>6. a \o b \in Listing
  BY <1>2 DEF Listing, X
<1>7. DOMAIN (a \o b) = 1..(Len(a) + Len(b))
  BY <1>2, Zenon
<1>8. \A i \in DOMAIN (a \o b) : i \in DOMAIN a \/ i - Len(a) \in DOMAIN b
  <2> HIDE DEF X
  <2> QED BY <1>2, <1>5, <1>7, Zenon
<1>9. QED
  BY <1>2, <1>4, <1>6, <1>7, <1>8, Zenon

\* A listing followed by one that lies behind it is in order, and holds the tasks of both.
LEMMA AscendingConcat ==
    ASSUME NEW a \in Listing, NEW b \in Listing, Ascending(a), Ascending(b),
           \A i \in DOMAIN a : \A j \in DOMAIN b : a[i].id < b[j].id
    PROVE  /\ Ascending(a \o b)
           /\ \A t : Has(a, t) \/ Has(b, t) => Has(a \o b, t)
<1> DEFINE c == a \o b
           m == Len(a)
<1>1. /\ m \in Nat /\ Len(b) \in Nat
      /\ DOMAIN a = 1..m /\ DOMAIN b = 1..Len(b) /\ DOMAIN c = 1..(m + Len(b))
      /\ \A i \in 1..m : c[i] = a[i]
      /\ \A i \in 1..Len(b) : c[m + i] = b[i]
  BY ListingConcat, Zenon
<1> HIDE DEF c, m
<1>2. ASSUME NEW i \in DOMAIN c, NEW j \in DOMAIN c, i < j PROVE c[i].id < c[j].id
  <2>1. CASE j <= m
    <3>1. i \in DOMAIN a /\ j \in DOMAIN a /\ c[i] = a[i] /\ c[j] = a[j]
      BY <1>1, <1>2, <2>1
    <3>2. QED
      BY <1>2, <3>1 DEF Ascending
  <2>2. CASE i > m
    <3>1. PICK k \in DOMAIN b, l \in DOMAIN b : i = m + k /\ j = m + l
      <4>1. j > m
        BY <1>1, <1>2, <2>2
      <4>2. \A l \in DOMAIN c : l > m => l - m \in DOMAIN b /\ l = m + (l - m)
        BY <1>1
      <4>3. i - m \in DOMAIN b /\ j - m \in DOMAIN b /\ i = m + (i - m) /\ j = m + (j - m)
        BY <2>2, <4>1, <4>2
      <4>4. QED
        BY <4>3
    <3>2. k < l /\ c[i] = b[k] /\ c[j] = b[l]
      BY <1>1, <1>2, <3>1
    <3>3. QED
      BY <3>2 DEF Ascending
  <2>3. CASE i <= m /\ j > m
    <3>1. PICK l \in DOMAIN b : j = m + l
      <4>1. j - m \in DOMAIN b /\ j = m + (j - m)
        BY <1>1, <2>3
      <4>2. QED
        BY <4>1
    <3>2. i \in DOMAIN a /\ c[i] = a[i] /\ c[j] = b[l]
      BY <1>1, <2>3, <3>1
    <3>3. QED
      BY <3>2
  <2>4. QED
    BY <1>1, <1>2, <2>1, <2>2, <2>3
<1>3. ASSUME NEW t, Has(a, t) \/ Has(b, t) PROVE Has(c, t)
  <2>1. CASE Has(a, t)
    <3>1. PICK i \in DOMAIN a : a[i].id = t
      BY <2>1 DEF Has
    <3>2. i \in DOMAIN c /\ c[i].id = t
      BY <1>1, <3>1
    <3>3. QED
      BY <3>2 DEF Has
  <2>2. CASE Has(b, t)
    <3>1. PICK i \in DOMAIN b : b[i].id = t
      BY <2>2 DEF Has
    <3>2. m + i \in DOMAIN c /\ c[m + i].id = t
      BY <1>1, <3>1
    <3>3. QED
      BY <3>2 DEF Has
  <2>3. QED
    BY <1>3, <2>1, <2>2
<1>4. QED
  BY <1>2, <1>3 DEF Ascending, c

\* The entry is cut where the token says: what prism-api answers from it is a page.
LEMMA CacheAnswers ==
    ASSUME TypeOK, EntryCutsIntoPages, NEW from \in Token, CacheHit(from)
    PROVE  IsPage(CachedPage(from), from)
<1>1. PICK ts, tk, nx : ts = entry.tasks /\ tk = entry.pageTokens /\ nx = entry.next
  OBVIOUS
<1>2. entry # NoEntry /\ TasksPerPage = TaskPageSize /\ CutsIntoPages(ts, tk, nx)
  BY <1>1 DEF CacheHit, NoEntry, EntryCutsIntoPages
<1>3. PICK T \in Nat : T = TaskPageSize /\ T > 0
  BY PagesAssumption
<1>4. ts \in Listing /\ tk \in Seq(Task) /\ nx \in Token
  BY <1>1 DEF TypeOK
<1>5. PICK L \in Nat, M \in Nat : /\ L = Len(ts) /\ DOMAIN ts = 1..L
                                  /\ M = Len(tk) /\ DOMAIN tk = 1..M
  BY <1>4, LenProperties DEF Listing
<1>6. /\ \A i \in 1..L : ts[i] \in [id: Task, version: Nat]
      /\ \A i \in 1..M : tk[i] \in Task
  BY <1>4, <1>5, ElementOfSeq DEF Listing
<1>7. /\ \A i \in 1..L : ts[i].id \in Nat
      /\ \A i \in 1..M : tk[i] \in Nat /\ tk[i] # 0
      /\ nx \in Nat /\ from \in Nat
  <2>1. Task \subseteq Nat /\ 0 \notin Task
    BY PagesAssumption
  <2>2. \A i \in 1..L : ts[i].id \in Task
    BY <1>6
  <2>3. nx \in Nat /\ from \in Nat
    BY <1>4, <2>1 DEF Token
  <2>4. \A i \in 1..M : tk[i] \in Nat /\ tk[i] # 0
    BY <1>6, <2>1
  <2>5. QED
    BY <2>1, <2>2, <2>3, <2>4
<1>8. PICK x \in Nat : /\ x = PageIndex(from) /\ x <= M
                       /\ from = 0 => x = 0
                       /\ from # 0 => x > 0 /\ tk[x] = from
  <2>1. CASE from = 0
    BY <2>1 DEF PageIndex
  <2>2. CASE from # 0
    <3>1. Positions(from) = {i \in 1..M : tk[i] = from}
      BY <1>1, <1>5 DEF Positions
    <3>2. Positions(from) \subseteq Nat /\ Positions(from) # {}
      BY <2>2, <3>1 DEF CacheHit, Known
    <3>3. First(Positions(from)) \in Positions(from)
      BY <3>2, FirstIsLeast
    <3>4. PICK x \in 1..M : x = First(Positions(from)) /\ tk[x] = from
      BY <3>1, <3>3
    <3>5. x \in Nat /\ x = PageIndex(from) /\ x <= M /\ x > 0
      BY <2>2, <3>4 DEF PageIndex
    <3>6. QED
      BY <2>2, <3>4, <3>5
  <2>3. QED
    BY <2>1, <2>2
<1>9. PICK start \in Nat : start = x * T /\ start < L /\ (x + 1) * T = start + T
  <2>1. x * T \in Nat /\ (x + 1) * T = x * T + T
    OBVIOUS
  <2>2. x * T < L
    BY <1>1, <1>3, <1>5, <1>8 DEF CacheHit
  <2>3. QED
    BY <2>1, <2>2
<1>10. PICK end \in Nat : /\ end = IF start + T > L THEN L ELSE start + T
                          /\ start < end /\ end <= L
  <2>1. start + T > L => start < L /\ L <= L
    BY <1>9
  <2>2. ~(start + T > L) => start + T \in Nat /\ start < start + T /\ start + T <= L
    BY <1>3
  <2>3. QED
    BY <2>1, <2>2
<1>11. PICK next : next = IF x < M THEN tk[x + 1] ELSE nx
  OBVIOUS
<1>12. PICK page : page = SubSeq(ts, start + 1, end)
  OBVIOUS
<1>13. CachedPage(from).tasks = page /\ CachedPage(from).next = next
  BY <1>1, <1>3, <1>5, <1>8, <1>9, <1>10, <1>11, <1>12 DEF CachedPage, NextToken
<1>14. PICK len \in Nat : len = end - start /\ len > 0 /\ start + len = end
  BY <1>10
<1>15. \A j \in 1..len : start + j \in 1..L /\ start + j \in 1..end /\ start + j > start
  BY <1>10, <1>14
<1>16. /\ page \in Listing /\ DOMAIN page = 1..len
       /\ \A i \in 1..len : page[i] = ts[start + i]
  <2> DEFINE X == [id: Task, version: Nat]
  <2>1. \A i \in (start + 1)..end : i \in 1..L
    BY <1>10
  <2>2. \A i \in (start + 1)..end : ts[i] \in X
    BY <1>6, <2>1
  <2> HIDE DEF X
  <2>3. /\ page \in Seq(X)
        /\ Len(page) = IF start + 1 <= end THEN end - (start + 1) + 1 ELSE 0
        /\ \A i \in 1..(end - (start + 1) + 1) : page[i] = ts[start + 1 + i - 1]
    BY <1>12, <2>2, SubSeqProperties
  <2>4. start + 1 <= end /\ end - (start + 1) + 1 = len
    BY <1>10, <1>14
  <2>5. Len(page) = len /\ DOMAIN page = 1..len
    BY <2>3, <2>4, LenProperties
  <2>6. ASSUME NEW i \in 1..len PROVE page[i] = ts[start + i]
    <3>1. start + 1 + i - 1 = start + i
      OBVIOUS
    <3>2. page[i] = ts[start + 1 + i - 1]
      BY <2>3, <2>4
    <3>3. QED
      BY <3>1, <3>2
  <2>7. QED
    BY <2>3, <2>5, <2>6 DEF X, Listing
<1>17. ASSUME NEW j \in 1..L PROVE ts[j].id >= from <=> j > start
  <2>1. ts[j].id \in Nat /\ from \in Nat
    BY <1>7
  <2>2. CASE from = 0
    <3>1. start = 0
      BY <1>3, <1>8, <1>9, <2>2
    <3>2. QED
      BY <2>1, <2>2, <3>1
  <2>3. CASE from # 0
    <3>1. x \in DOMAIN tk /\ tk[x] = from /\ j \in DOMAIN ts
      BY <1>5, <1>8, <2>3
    <3>2. ts[j].id < from <=> j <= x * TasksPerPage
      BY <1>2, <3>1 DEF CutsIntoPages
    <3>3. ts[j].id < from <=> j <= start
      BY <1>2, <1>3, <1>9, <3>2
    <3>4. QED
      BY <2>1, <3>3
  <2>4. QED
    BY <2>2, <2>3
<1>18. /\ next \in Token /\ next \in Nat
       /\ next # 0 => \A j \in 1..end : ts[j].id < next
       /\ \A j \in 1..L : j <= end \/ (next # 0 /\ ts[j].id >= next)
       /\ next # 0 /\ nx # 0 => next <= nx
       /\ next = 0 => nx = 0
  <2>1. CASE x < M
    <3>1. x + 1 \in 1..M
      BY <2>1
    <3>2. next = tk[x + 1]
      BY <1>11, <2>1
    <3>3. next \in Task /\ next \in Nat /\ next # 0
      BY <1>6, <1>7, <3>1, <3>2
    <3>4. \A j \in 1..L : ts[j].id < next <=> j <= (x + 1) * TasksPerPage
      BY <1>2, <1>5, <3>1, <3>2 DEF CutsIntoPages
    <3>5. nx # 0 => next <= nx
      BY <1>2, <1>5, <3>1, <3>2 DEF CutsIntoPages
    <3>6. ASSUME NEW j \in 1..L PROVE ts[j].id < next <=> j <= end
      <4>1. ts[j].id < next <=> j <= start + T
        BY <1>2, <1>3, <1>9, <3>4
      <4>2. j <= start + T <=> j <= end
        BY <1>10
      <4>3. QED
        BY <4>1, <4>2
    <3>7. \A j \in 1..end : ts[j].id < next
      <4>1. \A j \in 1..end : j \in 1..L /\ j <= end
        BY <1>10
      <4>2. QED
        BY <3>6, <4>1
    <3>8. \A j \in 1..L : j <= end \/ ts[j].id >= next
      BY <1>7, <3>3, <3>6
    <3>9. QED
      BY <3>3, <3>5, <3>7, <3>8 DEF Token
  <2>2. CASE ~(x < M)
    <3>1. next = nx /\ x = M
      BY <1>8, <1>11, <2>2
    <3>2. L <= (x + 1) * TasksPerPage
      BY <1>2, <1>5, <3>1 DEF CutsIntoPages
    <3>3. end = L
      <4>1. L <= start + T
        BY <1>2, <1>3, <1>9, <3>2
      <4>2. QED
        BY <1>10, <4>1
    <3>4. nx # 0 => \A j \in 1..L : ts[j].id < nx
      BY <1>2, <1>5 DEF CutsIntoPages
    <3>5. \A j \in 1..L : j <= end
      BY <3>3
    <3>6. QED
      BY <1>4, <1>7, <3>1, <3>3, <3>4, <3>5
  <2>3. QED
    BY <2>1, <2>2
<1>19. Ascending(page)
  <2>1. ASSUME NEW i \in 1..len, NEW j \in 1..len, i < j
        PROVE  ts[start + i].id < ts[start + j].id
    <3>1. start + i < start + j
      BY <2>1
    <3>2. start + i \in DOMAIN ts /\ start + j \in DOMAIN ts
      BY <1>5, <1>15
    <3>3. QED
      BY <1>2, <3>1, <3>2 DEF CutsIntoPages, Ascending
  <2>2. QED
    BY <1>16, <2>1 DEF Ascending
<1>20. ASSUME NEW j \in 1..len
       PROVE  page[j].id \in Nat /\ page[j].id >= from /\ (next # 0 => page[j].id < next)
  <2>1. PICK k : k = start + j /\ k \in 1..L /\ k \in 1..end /\ k > start
    BY <1>15
  <2>2. page[j] = ts[k]
    BY <1>16, <2>1
  <2>3. ts[k].id \in Nat /\ ts[k].id >= from
    BY <1>7, <1>17, <2>1
  <2>4. next # 0 => ts[k].id < next
    BY <1>18, <2>1
  <2>5. QED
    BY <2>2, <2>3, <2>4
<1>21. next # 0 => next > from
  <2>1. 1 \in 1..len
    BY <1>14
  <2>2. page[1].id \in Nat /\ page[1].id >= from /\ (next # 0 => page[1].id < next)
    BY <1>20, <2>1
  <2>3. QED
    BY <1>7, <1>18, <2>2
<1>22. ASSUME NEW t \in Existing, t >= from PROVE Has(page, t) \/ (next # 0 /\ t >= next)
  <2>1. t \in Nat
    BY PagesAssumption
  <2>2. CASE Has(ts, t)
    <3>1. PICK j \in 1..L : ts[j].id = t
      BY <1>5, <2>2 DEF Has
    <3>2. j > start
      BY <1>17, <1>22, <3>1
    <3>3. CASE j <= end
      <4>1. PICK i \in 1..len : start + i = j
        <5>1. j - start \in 1..len /\ start + (j - start) = j
          BY <1>14, <3>2, <3>3
        <5>2. QED
          BY <5>1
      <4>2. page[i] = ts[j] /\ i \in DOMAIN page
        BY <1>16, <4>1
      <4>3. QED
        BY <3>1, <4>2 DEF Has
    <3>4. CASE next # 0 /\ ts[j].id >= next
      BY <3>1, <3>4
    <3>5. QED
      BY <1>18, <3>3, <3>4
  <2>3. CASE nx # 0 /\ t >= nx
    BY <1>7, <1>18, <2>1, <2>3
  <2>4. QED
    BY <1>2, <2>2, <2>3 DEF CutsIntoPages
<1>23. QED
  BY <1>13, <1>16, <1>18, <1>19, <1>20, <1>21, <1>22 DEF IsPage

\* A page behind what a refresh has listed extends it, with or without a token of its own.
LEMMA CutsExtend ==
    ASSUME NEW ts \in Listing, NEW tk \in Seq(Task), NEW from \in Token,
           NEW p, IsPage(p, from), Len(p.tasks) <= TasksPerPage,
           NEW n \in Nat, Len(tk) = n, Len(ts) = n * TasksPerPage,
           IF n = 0 THEN from = 0 ELSE from # 0 /\ CutsIntoPages(ts, tk, from)
    PROVE  /\ ts \o p.tasks \in Listing
           /\ CutsIntoPages(ts \o p.tasks, tk, p.next)
           /\ Len(p.tasks) = TasksPerPage /\ p.next # 0 =>
                 /\ Append(tk, p.next) \in Seq(Task) /\ Len(Append(tk, p.next)) = n + 1
                 /\ Len(ts \o p.tasks) = (n + 1) * TasksPerPage
                 /\ CutsIntoPages(ts \o p.tasks, Append(tk, p.next), p.next)
<1>0. PICK T \in Nat : T = TasksPerPage /\ T > 0
  BY PagesAssumption
<1>1. PICK next, b : T = TasksPerPage /\ T > 0 /\ next = p.next /\ b = p.tasks
  BY <1>0
<1>2. /\ b \in Listing /\ next \in Token /\ Ascending(b)
      /\ \A j \in DOMAIN b : b[j].id >= from
      /\ next # 0 => next > from /\ \A j \in DOMAIN b : b[j].id < next
      /\ \A t \in Existing : t >= from => Has(b, t) \/ (next # 0 /\ t >= next)
  BY <1>1 DEF IsPage
<1>3. PICK L \in Nat, K \in Nat : /\ L = Len(ts) /\ DOMAIN ts = 1..L
                                  /\ K = Len(b) /\ DOMAIN b = 1..K /\ K <= T
  BY <1>1, <1>2, LenProperties DEF Listing
<1>4. PICK M \in Nat : M = n * T /\ M = L /\ (n + 1) * T = M + T
  <2>1. n * T \in Nat /\ (n + 1) * T = n * T + T
    OBVIOUS
  <2>2. QED
    BY <1>1, <1>3, <2>1
<1>5. /\ \A i \in 1..L : ts[i].id \in Nat
      /\ \A i \in 1..K : b[i].id \in Nat
      /\ DOMAIN tk = 1..n /\ \A i \in 1..n : tk[i] \in Nat
      /\ from \in Nat /\ next \in Nat
  <2>1. Task \subseteq Nat
    BY PagesAssumption
  <2>2. /\ \A i \in 1..L : ts[i] \in [id: Task, version: Nat]
        /\ \A i \in 1..K : b[i] \in [id: Task, version: Nat]
    BY <1>2, <1>3, ElementOfSeq DEF Listing
  <2>3. DOMAIN tk = 1..n /\ \A i \in 1..n : tk[i] \in Task
    BY ElementOfSeq, LenProperties
  <2>4. from \in Nat /\ next \in Nat
    <3>1. next \in Token
      BY <1>2
    <3>2. QED
      BY <2>1, <3>1 DEF Token
  <2>5. \A i \in 1..L : ts[i].id \in Nat
    BY <2>1, <2>2
  <2>6. \A i \in 1..K : b[i].id \in Nat
    BY <2>1, <2>2
  <2>7. QED
    BY <2>1, <2>3, <2>4, <2>5, <2>6
<1>6. /\ n = 0 => L = 0 /\ from = 0
      /\ n # 0 => from # 0 /\ CutsIntoPages(ts, tk, from)
  BY <1>3, <1>4
<1>7. /\ Ascending(ts)
      /\ \A i \in 1..L : ts[i].id < from
      /\ \A i \in 1..n : tk[i] <= from
      /\ \A i \in 1..n : \A j \in 1..L : ts[j].id < tk[i] <=> j <= i * T
      /\ \A t \in Existing : Has(ts, t) \/ t >= from
  <2>1. CASE n = 0
    <3>1. L = 0 /\ from = 0 /\ 1..L = {} /\ 1..n = {}
      BY <1>6, <2>1
    <3>2. \A t \in Existing : t >= from
      BY <3>1, PagesAssumption
    <3>3. QED
      BY <1>3, <3>1, <3>2 DEF Ascending
  <2>2. CASE n # 0
    BY <1>1, <1>3, <1>5, <1>6, <2>2 DEF CutsIntoPages
  <2>3. QED
    BY <2>1, <2>2
<1>8. PICK c : c = ts \o b
  OBVIOUS
<1>9. /\ c \in Listing /\ Len(c) = L + K /\ DOMAIN c = 1..(L + K)
      /\ \A i \in 1..L : c[i] = ts[i]
      /\ \A i \in 1..K : c[L + i] = b[i]
  BY <1>2, <1>3, <1>8, ListingConcat, Zenon
<1>10. ASSUME NEW i \in 1..L, NEW j \in 1..K PROVE ts[i].id < b[j].id
  <2>1. ts[i].id < from /\ b[j].id >= from /\ ts[i].id \in Nat /\ b[j].id \in Nat /\ from \in Nat
    BY <1>2, <1>3, <1>5, <1>7
  <2>2. QED
    BY <2>1
<1>11. Ascending(c) /\ \A t : Has(ts, t) \/ Has(b, t) => Has(c, t)
  BY <1>2, <1>3, <1>7, <1>8, <1>10, AscendingConcat
<1>12. ASSUME NEW j \in 1..(L + K)
       PROVE  \/ j \in 1..L /\ c[j] = ts[j]
              \/ \E k \in 1..K : j = L + k /\ c[j] = b[k]
  <2>1. CASE j <= L
    BY <1>9, <2>1
  <2>2. CASE j > L
    <3>1. j - L \in 1..K /\ L + (j - L) = j
      BY <2>2
    <3>2. QED
      BY <1>9, <3>1
  <2>3. QED
    BY <2>1, <2>2
<1>13. ASSUME NEW i \in 1..n, NEW j \in 1..(L + K) PROVE c[j].id < tk[i] <=> j <= i * T
  <2>1. i * T \in Nat /\ i * T <= n * T
    <3>1. PICK d \in Nat : n = i + d
      <4>1. n - i \in Nat /\ n = i + (n - i)
        OBVIOUS
      <4>2. QED
        BY <4>1
    <3>2. n * T = i * T + d * T /\ d * T \in Nat /\ i * T \in Nat
      BY <3>1
    <3>3. QED
      BY <3>2
  <2>2. CASE j \in 1..L /\ c[j] = ts[j]
    BY <1>7, <2>2
  <2>3. CASE \E k \in 1..K : j = L + k /\ c[j] = b[k]
    <3>1. PICK k \in 1..K : j = L + k /\ c[j] = b[k]
      BY <2>3
    <3>2. b[k].id >= from /\ tk[i] <= from /\ b[k].id \in Nat /\ tk[i] \in Nat /\ from \in Nat
      BY <1>2, <1>3, <1>5, <1>7
    <3>3. ~(j <= i * T)
      BY <1>4, <2>1, <3>1
    <3>4. QED
      BY <3>1, <3>2, <3>3
  <2>4. QED
    BY <1>12, <2>2, <2>3
<1>14. next # 0 => \A j \in 1..(L + K) : c[j].id < next
  <2>1. ASSUME next # 0, NEW j \in 1..(L + K) PROVE c[j].id < next
    <3>1. CASE j \in 1..L /\ c[j] = ts[j]
      <4>1. ts[j].id < from /\ next > from /\ ts[j].id \in Nat
        BY <1>2, <1>5, <1>7, <2>1, <3>1
      <4>2. QED
        BY <1>5, <3>1, <4>1
    <3>2. CASE \E k \in 1..K : j = L + k /\ c[j] = b[k]
      BY <1>2, <1>3, <2>1, <3>2
    <3>3. QED
      BY <1>12, <3>1, <3>2
  <2>2. QED
    BY <2>1
<1>15. next # 0 => \A i \in 1..n : tk[i] <= next
  BY <1>2, <1>5, <1>7
<1>16. \A t \in Existing : Has(c, t) \/ (next # 0 /\ t >= next)
  BY <1>2, <1>7, <1>11
<1>17. L + K <= (n + 1) * T
  BY <1>3, <1>4
<1>18. CutsIntoPages(c, tk, next)
  BY <1>1, <1>5, <1>9, <1>11, <1>13, <1>14, <1>15, <1>16, <1>17 DEF CutsIntoPages
<1>19. ASSUME K = T, next # 0
       PROVE  /\ Append(tk, next) \in Seq(Task) /\ Len(Append(tk, next)) = n + 1
              /\ L + K = (n + 1) * T
              /\ CutsIntoPages(c, Append(tk, next), next)
  <2>1. next \in Task
    BY <1>2, <1>19 DEF Token
  <2>2. PICK q : q = Append(tk, next)
    OBVIOUS
  <2>3. /\ q \in Seq(Task) /\ Len(q) = n + 1 /\ DOMAIN q = 1..(n + 1)
        /\ \A i \in 1..n : q[i] = tk[i]
        /\ q[n + 1] = next
    <3>1. /\ q \in Seq(Task) /\ Len(q) = n + 1
          /\ \A i \in 1..n : q[i] = tk[i]
          /\ q[n + 1] = next
      BY <2>1, <2>2, AppendProperties
    <3>2. QED
      BY <3>1, LenProperties
  <2>4. L + K = (n + 1) * T
    BY <1>4, <1>19
  <2>5. \A i \in 1..(n + 1) : i \in 1..n \/ i = n + 1
    OBVIOUS
  <2>6. ASSUME NEW i \in 1..(n + 1), NEW j \in 1..(L + K) PROVE c[j].id < q[i] <=> j <= i * T
    <3>1. CASE i \in 1..n
      BY <1>13, <2>3, <3>1
    <3>2. CASE i = n + 1
      <4>1. c[j].id < q[i]
        BY <1>14, <1>19, <2>3, <3>2
      <4>2. j <= (n + 1) * T
        BY <2>4
      <4>3. QED
        BY <3>2, <4>1, <4>2
    <3>3. QED
      BY <2>5, <3>1, <3>2
  <2>7. \A i \in 1..(n + 1) : q[i] <= next
    BY <1>5, <1>15, <1>19, <2>3, <2>5
  <2>8. L + K <= (n + 2) * T /\ n + 1 + 1 = n + 2
    <3>1. (n + 2) * T = (n + 1) * T + T
      OBVIOUS
    <3>2. QED
      BY <1>17, <3>1
  <2>9. CutsIntoPages(c, q, next)
    BY <1>1, <1>9, <1>11, <1>14, <1>16, <2>3, <2>6, <2>7, <2>8 DEF CutsIntoPages
  <2>10. QED
    BY <2>2, <2>3, <2>4, <2>9
<1>20. QED
  BY <1>1, <1>3, <1>8, <1>9, <1>18, <1>19

-----------------------------------------------------------------------------
(***************************************************************************)
(* The invariant, one handler, one walk and one entry at a time.           *)
(***************************************************************************)
Handler == [pc: {"todo", "list", "store", "publish", "streamed", "end"},
            version: Nat, page: 0..CachedPages, from: Token,
            tasks: Listing, tokens: Seq(Task)]

\* What RefreshCutsIntoPages says of one handler.
HandlerOK(r) ==
    /\ r.pc = "todo" => r = NotApplied
    /\ r.pc = "store" => CutsIntoPages(r.tasks, r.tokens, r.from)
    /\ r.pc = "list" =>
          /\ r.page < CachedPages
          /\ Len(r.tokens) = r.page /\ Len(r.tasks) = r.page * TasksPerPage
          /\ IF r.page = 0 THEN r.from = 0
             ELSE r.from # 0 /\ CutsIntoPages(r.tasks, r.tokens, r.from)

Walker == [pc: {"idle", "get", "query", "done", "cut"}, token: Token,
           aggregated: Listing, seen: SUBSET Task]

\* What WalkUpToToken, NoTaskTwice and NoTaskSkipped say of one walk.
WalkerOK(k) ==
    /\ k.pc = "idle" => k = NoWalk
    /\ k.pc \in {"get", "query"} /\ k.token = 0 => k.aggregated = <<>> /\ k.seen = {}
    /\ k.pc \in {"get", "query"} /\ k.token # 0 =>
          /\ \A i \in DOMAIN k.aggregated : k.aggregated[i].id < k.token
          /\ \A s \in k.seen : s <= k.token
          /\ \A t \in Existing : t < k.token => Has(k.aggregated, t)
    /\ Ascending(k.aggregated)
    /\ k.pc = "done" => \A t \in Existing : Has(k.aggregated, t)

Entry == [tasks: Listing, pageSize: Nat, cachedPages: Nat, pageTokens: Seq(Task), next: Token]

\* The parts of the invariant, by variable.
Table == row \in [Task -> Nat] /\ \A t \in Existing : row[t] > 0
Handlers == refresh \in [Event -> Handler] /\ \A e \in Event : HandlerOK(refresh[e])
Cached == entry \in Entry /\ EntryCutsIntoPages
Walkers == walk \in [Poll -> Walker] /\ \A w \in Poll : WalkerOK(walk[w])
Screen == /\ board \in [Task -> [version: Nat, order: {"none", "own", "zero"}]]
          /\ faults \in 0..MaxFaults

\* PagesInv is the conjunction of its parts, now and after a step.
LEMMA Parts ==
    /\ PagesInv <=> Table /\ Handlers /\ Cached /\ Walkers /\ Screen
    /\ PagesInv' <=> Table' /\ Handlers' /\ Cached' /\ Walkers' /\ Screen'
<1>1. PagesInv <=> Table /\ Handlers /\ Cached /\ Walkers /\ Screen
  BY Zenon DEF PagesInv, TypeOK, RefreshCutsIntoPages, WalkUpToToken, NoTaskTwice, NoTaskSkipped,
               Table, Handlers, Handler, HandlerOK, Cached, Entry, Walkers, Walker, WalkerOK, Screen
<1>2. PagesInv' <=> Table' /\ Handlers' /\ Cached' /\ Walkers' /\ Screen'
  BY Zenon DEF PagesInv, TypeOK, RefreshCutsIntoPages, WalkUpToToken, NoTaskTwice, NoTaskSkipped,
               Table, Handlers, Handler, HandlerOK, Cached, Entry, Walkers, Walker, WalkerOK, Screen
<1>3. QED
  BY <1>1, <1>2

\* A step that changes one handler preserves the handlers' part when the new state of the
\* handler is right; so for a walk.
LEMMA OneHandler ==
    ASSUME Handlers, NEW e \in Event, NEW r \in Handler, HandlerOK(r),
           refresh' = [refresh EXCEPT ![e] = r]
    PROVE  Handlers'
<1>1. refresh' \in [Event -> Handler]
  BY DEF Handlers
<1>2. \A d \in Event : refresh'[d] = IF d = e THEN r ELSE refresh[d]
  BY DEF Handlers
<1>3. \A d \in Event : HandlerOK(refresh'[d])
  BY <1>2, Zenon DEF Handlers
<1>4. QED
  BY <1>1, <1>3 DEF Handlers

LEMMA OneWalker ==
    ASSUME Walkers, NEW w \in Poll, NEW k \in Walker, WalkerOK(k),
           walk' = [walk EXCEPT ![w] = k]
    PROVE  Walkers'
<1>1. walk' \in [Poll -> Walker]
  BY DEF Walkers
<1>2. \A d \in Poll : walk'[d] = IF d = w THEN k ELSE walk[d]
  BY DEF Walkers
<1>3. \A d \in Poll : WalkerOK(walk'[d])
  BY <1>2, Zenon DEF Walkers
<1>4. QED
  BY <1>1, <1>3 DEF Walkers

\* The parts whose variables a step leaves alone.
LEMMA PartsUnchanged ==
    /\ Table /\ UNCHANGED row => Table'
    /\ Handlers /\ UNCHANGED refresh => Handlers'
    /\ Cached /\ UNCHANGED entry => Cached'
    /\ Walkers /\ UNCHANGED walk => Walkers'
    /\ Screen /\ UNCHANGED <<board, faults>> => Screen'
<1>1. Table /\ UNCHANGED row => Table'
  BY DEF Table
<1>2. Handlers /\ UNCHANGED refresh => Handlers'
  BY Zenon DEF Handlers
<1>3. Cached /\ UNCHANGED entry => Cached'
  BY Zenon DEF Cached, EntryCutsIntoPages
<1>4. Walkers /\ UNCHANGED walk => Walkers'
  BY Zenon DEF Walkers
<1>5. Screen /\ UNCHANGED <<board, faults>> => Screen'
  BY DEF Screen
<1>6. QED
  BY <1>1, <1>2, <1>3, <1>4, <1>5

\* The records a handler or a walk starts and ends with.
LEMMA Defaults ==
    /\ NotApplied \in Handler /\ HandlerOK(NotApplied)
    /\ NoWalk \in Walker /\ WalkerOK(NoWalk)
    /\ NoEntry \in Entry
    /\ NoTask \in [version: Nat, order: {"none", "own", "zero"}]
<1>1. <<>> \in Listing /\ <<>> \in Seq(Task) /\ DOMAIN (<<>>) = {}
  BY EmptySeq DEF Listing
<1>2. 0 \in 0..CachedPages /\ 0 \in Token
  BY PagesAssumption DEF Token
<1>3. NotApplied \in Handler /\ HandlerOK(NotApplied)
  BY <1>1, <1>2 DEF NotApplied, Handler, HandlerOK
<1>4. NoWalk \in Walker /\ WalkerOK(NoWalk)
  BY <1>1, <1>2 DEF NoWalk, Walker, WalkerOK, Ascending
<1>5. NoEntry \in Entry
  BY <1>1, <1>2 DEF NoEntry, Entry
<1>6. QED
  BY <1>3, <1>4, <1>5 DEF NoTask

-----------------------------------------------------------------------------
(***************************************************************************)
(* read-model-updater's steps.                                             *)
(***************************************************************************)
\* Rows are written, never deleted, and the refresh begins at the first page.
LEMMA ApplyStep ==
    ASSUME PagesInv, NEW e \in Event, Apply(e)
    PROVE  PagesInv'
<1>1. Table /\ Handlers /\ Cached /\ Walkers /\ Screen
  BY Parts
<1>2. PICK t \in Task : t = TaskOf[e]
  BY PagesAssumption
<1>3. row[t] \in Nat /\ row' = [row EXCEPT ![t] = row[t] + 1]
  BY <1>1, <1>2 DEF Apply, Table
<1>4. Table'
  <2>1. row' \in [Task -> Nat]
    BY <1>1, <1>3 DEF Table
  <2>2. ASSUME NEW u \in Existing PROVE row'[u] > 0
    <3>1. u \in Task
      BY PagesAssumption
    <3>2. row[u] > 0 /\ row[u] \in Nat
      BY <1>1, <3>1 DEF Table
    <3>3. row'[u] = IF u = t THEN row[t] + 1 ELSE row[u]
      BY <1>1, <1>3, <3>1 DEF Table
    <3>4. QED
      BY <1>3, <3>2, <3>3
  <2>3. QED
    BY <2>1, <2>2 DEF Table
<1>5. PICK v \in Nat : v = row[t] + 1
  BY <1>3
<1>6. PICK r : r = [refresh[e] EXCEPT !.pc = "list", !.version = v]
  OBVIOUS
<1>7. refresh' = [refresh EXCEPT ![e] = r]
  BY <1>2, <1>5, <1>6 DEF Apply
<1>8. refresh[e] = NotApplied
  BY <1>1 DEF Handlers, HandlerOK, Apply
<1>9. /\ r \in Handler /\ r.pc = "list" /\ r.page = 0 /\ r.from = 0
      /\ r.tasks = <<>> /\ r.tokens = <<>>
  <2>1. r = [NotApplied EXCEPT !.pc = "list", !.version = v]
    BY <1>6, <1>8, Zenon
  <2>2. QED
    BY <2>1, Defaults DEF NotApplied, Handler
<1>10. r \in Handler /\ HandlerOK(r)
  <2>1. Len(<<>>) = 0 /\ 0 < CachedPages /\ 0 * TasksPerPage = 0
    BY PagesAssumption
  <2>2. QED
    BY <1>9, <2>1 DEF HandlerOK
<1>11. Handlers'
  BY <1>1, <1>7, <1>10, OneHandler
<1>12. UNCHANGED <<entry, walk, board, faults>>
  BY DEF Apply
<1>13. QED
  BY <1>1, <1>4, <1>11, <1>12, Parts, PartsUnchanged

\* A page behind the listing keeps it cut into pages.
LEMMA ListStep ==
    ASSUME PagesInv, NEW e \in Event, RefreshTasks(e)
    PROVE  PagesInv'
<1>1. Table /\ Handlers /\ Cached /\ Walkers /\ Screen
  BY Parts
<1>2. PICK o \in Handler : o = refresh[e] /\ HandlerOK(o) /\ o.pc = "list"
  BY <1>1 DEF Handlers, RefreshTasks
<1>3. PICK n \in 0..CachedPages, ts \in Listing, tk \in Seq(Task), from \in Token, v \in Nat :
         n = o.page /\ ts = o.tasks /\ tk = o.tokens /\ from = o.from /\ v = o.version
  BY <1>2 DEF Handler
<1>4. n \in Nat /\ n < CachedPages /\ CachedPages \in Nat
  BY <1>2, <1>3, PagesAssumption DEF HandlerOK
<1>5. /\ Len(tk) = n /\ Len(ts) = n * TasksPerPage
      /\ IF n = 0 THEN from = 0 ELSE from # 0 /\ CutsIntoPages(ts, tk, from)
  BY <1>2, <1>3, Zenon DEF HandlerOK
<1>6. PICK p \in TablePages(from, TasksPerPage) :
         LET full == Len(p.tasks) = TasksPerPage /\ p.next # 0
             more == full /\ o.page < CachedPages - 1
             r    == [o EXCEPT
                        !.pc = IF more THEN "list" ELSE "store",
                        !.page = @ + 1, !.from = p.next,
                        !.tasks = @ \o p.tasks,
                        !.tokens = IF more THEN Append(@, p.next) ELSE @]
         IN refresh' = [refresh EXCEPT ![e] = r]
  BY <1>2, <1>3, Zenon DEF RefreshTasks
<1>7. PICK more \in BOOLEAN :
         more = (Len(p.tasks) = TasksPerPage /\ p.next # 0 /\ n < CachedPages - 1)
  OBVIOUS
<1>8. PICK next, c, q : /\ next = p.next /\ c = ts \o p.tasks
                        /\ q = IF more THEN Append(tk, p.next) ELSE tk
  OBVIOUS
<1>9. PICK st, m, r : /\ st = (IF more THEN "list" ELSE "store") /\ m = n + 1
                      /\ r = [o EXCEPT !.pc = st, !.page = m, !.from = next,
                                       !.tasks = c, !.tokens = q]
  OBVIOUS
<1>10. refresh' = [refresh EXCEPT ![e] = r]
  BY <1>3, <1>6, <1>7, <1>8, <1>9
<1>11. IsPage(p, from) /\ Len(p.tasks) \in Nat /\ Len(p.tasks) <= TasksPerPage
  <2>1. TasksPerPage \in Nat
    BY PagesAssumption
  <2>2. TypeOK /\ \A t \in Existing : row[t] > 0
    BY DEF PagesInv
  <2>3. QED
    BY <2>1, <2>2, TableAnswers
<1>12. /\ c \in Listing
       /\ CutsIntoPages(c, tk, next)
       /\ more => /\ q \in Seq(Task) /\ Len(q) = n + 1
                  /\ Len(c) = (n + 1) * TasksPerPage
                  /\ CutsIntoPages(c, q, next)
  <2>1. /\ ts \o p.tasks \in Listing
        /\ CutsIntoPages(ts \o p.tasks, tk, p.next)
        /\ Len(p.tasks) = TasksPerPage /\ p.next # 0 =>
              /\ Append(tk, p.next) \in Seq(Task) /\ Len(Append(tk, p.next)) = n + 1
              /\ Len(ts \o p.tasks) = (n + 1) * TasksPerPage
              /\ CutsIntoPages(ts \o p.tasks, Append(tk, p.next), p.next)
    BY <1>4, <1>5, <1>11, CutsExtend
  <2>2. more => Len(p.tasks) = TasksPerPage /\ p.next # 0
    BY <1>7
  <2>3. QED
    BY <1>8, <2>1, <2>2, Zenon
<1>13. next \in Token /\ n + 1 \in 0..CachedPages /\ n + 1 # 0
  BY <1>4, <1>8, <1>11 DEF IsPage
<1>14. r \in Handler /\ HandlerOK(r)
  <2>1. st \in {"list", "store"} /\ q \in Seq(Task) /\ m \in 0..CachedPages /\ m # 0
    BY <1>8, <1>9, <1>12, <1>13
  <2>2. r \in Handler
    BY <1>2, <1>9, <1>12, <1>13, <2>1 DEF Handler
  <2>3. r.pc = st /\ r.page = m /\ r.from = next /\ r.tasks = c /\ r.tokens = q
    BY <1>2, <1>9 DEF Handler
  <2>4. CASE more
    <3>1. next # 0 /\ n + 1 < CachedPages
      <4>1. p.next # 0 /\ n < CachedPages - 1
        BY <1>7, <2>4, Zenon
      <4>2. QED
        BY <1>4, <1>8, <4>1
    <3>2. st = "list" /\ m = n + 1
      BY <1>9, <2>4
    <3>3. QED
      BY <1>12, <2>1, <2>2, <2>3, <2>4, <3>1, <3>2 DEF HandlerOK
  <2>5. CASE ~more
    <3>1. st = "store" /\ q = tk
      BY <1>8, <1>9, <2>5
    <3>2. QED
      BY <1>12, <2>2, <2>3, <3>1 DEF HandlerOK
  <2>6. QED
    BY <2>4, <2>5
<1>15. Handlers'
  BY <1>1, <1>10, <1>14, OneHandler
<1>16. UNCHANGED <<row, entry, walk, board, faults>>
  BY DEF RefreshTasks
<1>17. QED
  BY <1>1, <1>15, <1>16, Parts, PartsUnchanged

\* What is stored is what was listed, or nothing.
LEMMA StoreStep ==
    ASSUME PagesInv, NEW e \in Event, StoreEntry(e)
    PROVE  PagesInv'
<1>1. Table /\ Handlers /\ Cached /\ Walkers /\ Screen
  BY Parts
<1>2. PICK o \in Handler : o = refresh[e] /\ HandlerOK(o) /\ o.pc = "store"
  BY <1>1 DEF Handlers, StoreEntry
<1>3. PICK ts \in Listing, tk \in Seq(Task), from \in Token, v \in Nat :
         ts = o.tasks /\ tk = o.tokens /\ from = o.from /\ v = o.version
  BY <1>2 DEF Handler
<1>4. CutsIntoPages(ts, tk, from)
  BY <1>2, <1>3, Zenon DEF HandlerOK
<1>5. PICK pages \in Nat : pages = (Len(ts) + TasksPerPage - 1) \div TasksPerPage
  <2>1. Len(ts) \in Nat /\ TasksPerPage \in Nat /\ TasksPerPage > 0
    BY LenProperties, PagesAssumption DEF Listing
  <2>2. \A l, T \in Nat : T > 0 => (l + T - 1) \div T \in Nat
    OBVIOUS
  <2>3. QED
    BY <2>1, <2>2
<1>6. PICK cp \in Nat : cp = IF pages > CachedPages THEN CachedPages ELSE pages
  BY <1>5, PagesAssumption
<1>7. PICK x : x = [tasks |-> ts, pageSize |-> TasksPerPage, pageTokens |-> tk, next |-> from,
                    cachedPages |-> cp]
  OBVIOUS
<1>8. Payload(o, o.from) = x
  BY <1>3, <1>5, <1>6, <1>7, Zenon DEF Payload
<1>9. entry' = x \/ entry' = NoEntry
  BY <1>2, <1>8 DEF StoreEntry
<1>10. x \in Entry /\ x.pageSize = TasksPerPage /\ x.tasks = ts /\ x.pageTokens = tk /\ x.next = from
  BY <1>7, PagesAssumption DEF Entry
<1>11. Cached'
  <2>1. CASE entry' = x
    BY <1>4, <1>10, <2>1 DEF Cached, EntryCutsIntoPages
  <2>2. CASE entry' = NoEntry
    BY <2>2, Defaults DEF Cached, EntryCutsIntoPages
  <2>3. QED
    BY <1>9, <2>1, <2>2
<1>12. PICK r : r = [NotApplied EXCEPT !.pc = "publish", !.version = v]
  OBVIOUS
<1>13. refresh' = [refresh EXCEPT ![e] = r]
  BY <1>2, <1>3, <1>12 DEF StoreEntry, Refreshed
<1>14. r \in Handler /\ HandlerOK(r)
  BY <1>12, Defaults DEF NotApplied, Handler, HandlerOK
<1>15. Handlers'
  BY <1>1, <1>13, <1>14, OneHandler
<1>16. UNCHANGED <<row, walk, board, faults>>
  BY DEF StoreEntry
<1>17. QED
  BY <1>1, <1>11, <1>15, <1>16, Parts, PartsUnchanged

\* A refresh that fails, a publication and a lost update leave the table, the entry and
\* the walks alone.
LEMMA HandlerStep ==
    ASSUME PagesInv, NEW e \in Event, Publish(e) \/ RefreshFails(e) \/ UpdateLost(e)
    PROVE  PagesInv'
<1>1. Table /\ Handlers /\ Cached /\ Walkers /\ Screen
  BY Parts
<1>2. PICK o \in Handler : o = refresh[e]
  BY <1>1 DEF Handlers
<1>3. PICK v \in Nat : v = o.version
  BY <1>2 DEF Handler
<1>4. UNCHANGED <<row, entry, walk, board>>
  BY DEF Publish, RefreshFails, UpdateLost
<1>5. Screen'
  BY <1>1, <1>4, PagesAssumption DEF Screen, Publish, RefreshFails, UpdateLost, Fault
<1>6. Handlers'
  <2>1. CASE Publish(e)
    <3>1. PICK r : r = [o EXCEPT !.pc = "streamed"]
      OBVIOUS
    <3>2. refresh' = [refresh EXCEPT ![e] = r]
      BY <1>2, <2>1, <3>1 DEF Publish
    <3>3. r \in Handler /\ HandlerOK(r)
      BY <1>2, <3>1 DEF Handler, HandlerOK
    <3>4. QED
      BY <1>1, <3>2, <3>3, OneHandler
  <2>2. CASE RefreshFails(e)
    <3>1. PICK r : r = [NotApplied EXCEPT !.pc = "publish", !.version = v]
      OBVIOUS
    <3>2. refresh' = [refresh EXCEPT ![e] = r]
      BY <1>2, <1>3, <2>2, <3>1 DEF RefreshFails, Refreshed
    <3>3. r \in Handler /\ HandlerOK(r)
      BY <3>1, Defaults DEF NotApplied, Handler, HandlerOK
    <3>4. QED
      BY <1>1, <3>2, <3>3, OneHandler
  <2>3. CASE UpdateLost(e)
    <3>1. PICK r : r = [NotApplied EXCEPT !.pc = "end"]
      OBVIOUS
    <3>2. refresh' = [refresh EXCEPT ![e] = r]
      BY <2>3, <3>1 DEF UpdateLost
    <3>3. r \in Handler /\ HandlerOK(r)
      BY <3>1, Defaults DEF NotApplied, Handler, HandlerOK
    <3>4. QED
      BY <1>1, <3>2, <3>3, OneHandler
  <2>4. QED
    BY <2>1, <2>2, <2>3
<1>7. QED
  BY <1>1, <1>4, <1>5, <1>6, Parts, PartsUnchanged

\* An update of the stream changes the board only.
LEMMA MergeStep ==
    ASSUME PagesInv, NEW e \in Event, MergeTasks(e)
    PROVE  PagesInv'
<1>1. Table /\ Handlers /\ Cached /\ Walkers /\ Screen
  BY Parts
<1>2. refresh[e].version \in Nat /\ TaskOf[e] \in Task
  BY <1>1, PagesAssumption DEF Handlers, Handler
<1>3. Screen'
  BY <1>1, <1>2 DEF Screen, MergeTasks
<1>4. PICK r : r = [NotApplied EXCEPT !.pc = "end"]
  OBVIOUS
<1>5. refresh' = [refresh EXCEPT ![e] = r]
  BY <1>4 DEF MergeTasks
<1>6. r \in Handler /\ HandlerOK(r)
  BY <1>4, Defaults DEF NotApplied, Handler, HandlerOK
<1>7. Handlers'
  BY <1>1, <1>5, <1>6, OneHandler
<1>8. UNCHANGED <<row, entry, walk>>
  BY DEF MergeTasks
<1>9. QED
  BY <1>1, <1>3, <1>7, <1>8, Parts, PartsUnchanged

-----------------------------------------------------------------------------
(***************************************************************************)
(* The steps of the walks.                                                 *)
(***************************************************************************)
\* A page that starts at the walk's token takes the walk to the next token, or to its end
\* with nothing skipped; the token is never one the walk has seen.
LEMMA CollectStep ==
    ASSUME Walkers, NEW w \in Poll, walk[w].pc \in {"get", "query"},
           NEW p, IsPage(p, walk[w].token), Collect(w, p)
    PROVE  Walkers'
<1>1. PICK o \in Walker : o = walk[w] /\ WalkerOK(o) /\ o.pc \in {"get", "query"}
  BY DEF Walkers
<1>2. PICK token \in Token, a \in Listing, seen \in SUBSET Task :
         token = o.token /\ a = o.aggregated /\ seen = o.seen
  BY <1>1 DEF Walker
<1>3. PICK next, b : next = p.next /\ b = p.tasks
  OBVIOUS
<1>4. /\ b \in Listing /\ next \in Token
      /\ Ascending(b)
      /\ \A j \in DOMAIN b : b[j].id >= token
      /\ next # 0 => next > token /\ \A j \in DOMAIN b : b[j].id < next
      /\ \A t \in Existing : t >= token => Has(b, t) \/ (next # 0 /\ t >= next)
  BY <1>1, <1>2, <1>3 DEF IsPage
<1>5. /\ Task \subseteq Nat /\ 0 \notin Task /\ Existing \subseteq Task
      /\ token \in Nat /\ next \in Nat /\ (next # 0 => next \in Task)
  <2>1. Task \subseteq Nat /\ 0 \notin Task /\ Existing \subseteq Task
    BY PagesAssumption
  <2>2. next \in Token
    BY <1>4
  <2>3. QED
    BY <2>1, <2>2 DEF Token
<1>6. /\ Ascending(a)
      /\ token = 0 => a = <<>> /\ seen = {}
      /\ token # 0 => /\ \A i \in DOMAIN a : a[i].id < token
                      /\ \A s \in seen : s <= token
                      /\ \A t \in Existing : t < token => Has(a, t)
  BY <1>1, <1>2 DEF WalkerOK
<1>7. PICK end \in BOOLEAN : end = (next = 0 \/ next \in seen)
  OBVIOUS
<1>8. end <=> next = 0
  <2>1. ASSUME next \in seen, next # 0 PROVE FALSE
    <3>1. token # 0 /\ next <= token /\ next > token
      BY <1>4, <1>6, <2>1
    <3>2. QED
      BY <1>5, <3>1
  <2>2. QED
    BY <1>7, <2>1
<1>9. PICK c : c = a \o b
  OBVIOUS
<1>10. PICK st, tk, sn : /\ st = IF end THEN "done" ELSE "get"
                         /\ tk = IF end THEN 0 ELSE next
                         /\ sn = IF end THEN {} ELSE seen \cup {next}
  OBVIOUS
<1>11. PICK k : k = [pc |-> st, token |-> tk, aggregated |-> c, seen |-> sn]
  OBVIOUS
<1>12. walk' = [walk EXCEPT ![w] = k]
  BY <1>1, <1>2, <1>3, <1>7, <1>9, <1>10, <1>11 DEF Collect
<1>13. /\ DOMAIN a = 1..Len(a) /\ DOMAIN b = 1..Len(b) /\ Len(a) \in Nat /\ Len(b) \in Nat
       /\ \A i \in DOMAIN a : a[i].id \in Nat
       /\ \A i \in DOMAIN b : b[i].id \in Nat
  <2>1. DOMAIN a = 1..Len(a) /\ Len(a) \in Nat /\ DOMAIN b = 1..Len(b) /\ Len(b) \in Nat
    BY <1>4, LenProperties DEF Listing
  <2>2. /\ \A i \in 1..Len(a) : a[i] \in [id: Task, version: Nat]
        /\ \A i \in 1..Len(b) : b[i] \in [id: Task, version: Nat]
    BY <1>4, ElementOfSeq DEF Listing
  <2>3. \A i \in 1..Len(a) : a[i].id \in Nat
    BY <1>5, <2>2
  <2>4. \A i \in 1..Len(b) : b[i].id \in Nat
    BY <1>5, <2>2
  <2>5. QED
    BY <2>1, <2>3, <2>4
<1>14. ASSUME NEW i \in DOMAIN a PROVE a[i].id < token
  <2>1. CASE token = 0
    <3>1. DOMAIN a = {}
      BY <1>6, <2>1
    <3>2. QED
      BY <3>1
  <2>2. CASE token # 0
    BY <1>6, <2>2
  <2>3. QED
    BY <2>1, <2>2
<1>15. ASSUME NEW i \in DOMAIN a, NEW j \in DOMAIN b PROVE a[i].id < b[j].id
  <2>1. a[i].id < token /\ b[j].id >= token /\ a[i].id \in Nat /\ b[j].id \in Nat
    BY <1>4, <1>13, <1>14
  <2>2. QED
    BY <1>5, <2>1
<1>16. Ascending(c) /\ \A t : Has(a, t) \/ Has(b, t) => Has(c, t)
  BY <1>4, <1>6, <1>9, <1>15, AscendingConcat
<1>17. ASSUME NEW t \in Existing PROVE Has(c, t) \/ (next # 0 /\ t >= next)
  <2>1. t \in Nat
    BY <1>5
  <2>2. CASE t >= token
    BY <1>4, <1>16, <2>2
  <2>3. CASE t < token
    <3>1. token # 0
      BY <1>5, <2>1, <2>3
    <3>2. QED
      BY <1>6, <1>16, <2>3, <3>1
  <2>4. QED
    BY <1>5, <2>1, <2>2, <2>3
<1>18. c \in Listing
  BY <1>4, <1>9, ListingConcat
<1>19. ASSUME next # 0, NEW i \in DOMAIN c PROVE c[i].id < next
  <2>1. /\ DOMAIN c = 1..(Len(a) + Len(b))
        /\ \A l \in 1..Len(a) : c[l] = a[l]
        /\ \A l \in 1..Len(b) : c[Len(a) + l] = b[l]
    BY <1>4, <1>9, ListingConcat, Zenon
  <2>2. CASE i <= Len(a)
    <3>1. i \in DOMAIN a /\ c[i] = a[i]
      BY <1>13, <2>1, <2>2
    <3>2. a[i].id < token /\ token < next /\ a[i].id \in Nat
      BY <1>4, <1>5, <1>13, <1>14, <1>19, <3>1
    <3>3. QED
      BY <1>5, <3>1, <3>2
  <2>3. CASE i > Len(a)
    <3>1. PICK l \in DOMAIN b : i = Len(a) + l
      <4>1. i - Len(a) \in 1..Len(b) /\ i = Len(a) + (i - Len(a))
        BY <1>13, <2>1, <2>3
      <4>2. QED
        BY <1>13, <4>1
    <3>2. c[i] = b[l]
      BY <1>13, <2>1, <3>1
    <3>3. QED
      BY <1>4, <1>19, <3>2
  <2>4. QED
    BY <1>13, <2>1, <2>2, <2>3
<1>20. k \in Walker /\ WalkerOK(k)
  <2>1. CASE end
    <3>1. k = [pc |-> "done", token |-> 0, aggregated |-> c, seen |-> {}] /\ next = 0
      BY <1>8, <1>10, <1>11, <2>1
    <3>2. \A t \in Existing : Has(c, t)
      BY <1>17, <3>1
    <3>3. QED
      BY <1>16, <1>18, <3>1, <3>2 DEF Walker, WalkerOK, Token
  <2>2. CASE ~end
    <3>1. next # 0
      BY <1>8, <2>2
    <3>2. k = [pc |-> "get", token |-> next, aggregated |-> c, seen |-> sn]
          /\ sn = seen \cup {next}
      BY <1>10, <1>11, <2>2
    <3>3. sn \subseteq Task /\ \A s \in sn : s <= next
      <4>1. ASSUME NEW s \in seen PROVE s <= next
        <5>1. token # 0 /\ s <= token /\ s \in Nat
          BY <1>5, <1>6, <4>1
        <5>2. next > token
          BY <1>4, <3>1
        <5>3. QED
          BY <1>5, <5>1, <5>2
      <4>2. next <= next /\ next \in Task
        BY <1>5, <3>1
      <4>3. QED
        BY <3>2, <4>1, <4>2
    <3>4. \A t \in Existing : t < next => Has(c, t)
      <4>1. \A t \in Existing : t \in Nat
        BY <1>5
      <4>2. QED
        BY <1>5, <1>17, <4>1
    <3>5. \A i \in DOMAIN c : c[i].id < next
      BY <1>19, <3>1
    <3>6. k \in Walker
      BY <1>4, <1>18, <3>2, <3>3 DEF Walker
    <3>7. /\ k.pc = "get" /\ k.token = next /\ k.token # 0
          /\ k.aggregated = c /\ k.seen = sn
      BY <3>1, <3>2
    <3>8. WalkerOK(k)
      BY <1>16, <3>3, <3>4, <3>5, <3>7 DEF WalkerOK
    <3>9. QED
      BY <3>6, <3>8
  <2>3. QED
    BY <2>1, <2>2
<1>21. QED
  BY <1>12, <1>20, OneWalker

\* The steps of fetchRemote and of the requests it makes.
LEMMA WalkStep ==
    ASSUME PagesInv, NEW w \in Poll,
           StartPoll(w) \/ FetchFromCache(w) \/ FetchFromTable(w)
             \/ LookupFails(w) \/ RequestFails(w)
    PROVE  PagesInv'
<1>1. Table /\ Handlers /\ Cached /\ Walkers /\ Screen
  BY Parts
<1>2. UNCHANGED <<row, refresh, entry, board>>
  BY DEF StartPoll, FetchFromCache, FetchFromTable, LookupFails, RequestFails
<1>3. Screen'
  BY <1>1, <1>2, PagesAssumption
     DEF Screen, StartPoll, FetchFromCache, FetchFromTable, LookupFails, RequestFails, Fault
<1>4. PICK o \in Walker : o = walk[w] /\ WalkerOK(o) /\ o.token \in Token
  BY <1>1 DEF Walkers, Walker
<1>5. ASSUME o.pc = "get", walk' = [walk EXCEPT ![w].pc = "query"] PROVE Walkers'
  <2>1. PICK k : k = [o EXCEPT !.pc = "query"]
    OBVIOUS
  <2>2. walk' = [walk EXCEPT ![w] = k]
    BY <1>4, <1>5, <2>1
  <2>3. k \in Walker
    BY <1>4, <2>1 DEF Walker
  <2>4. k.pc = "query" /\ k.token = o.token /\ k.aggregated = o.aggregated /\ k.seen = o.seen
    BY <1>4, <2>1 DEF Walker
  <2>5. WalkerOK(k)
    BY <1>4, <1>5, <2>4 DEF WalkerOK
  <2>6. QED
    BY <1>1, <2>2, <2>3, <2>5, OneWalker
<1>6. Walkers'
  <2>1. CASE StartPoll(w)
    <3>1. PICK k : k = [NoWalk EXCEPT !.pc = "get"]
      OBVIOUS
    <3>2. o = NoWalk
      BY <1>4, <2>1 DEF StartPoll, WalkerOK
    <3>3. walk' = [walk EXCEPT ![w] = k]
      BY <1>4, <2>1, <3>1, <3>2 DEF StartPoll
    <3>4. k \in Walker /\ WalkerOK(k)
      BY <3>1, Defaults DEF NoWalk, Walker, WalkerOK, Ascending
    <3>5. QED
      BY <1>1, <3>3, <3>4, OneWalker
  <2>2. CASE FetchFromCache(w)
    <3>1. CASE CacheHit(o.token)
      <4>1. Collect(w, CachedPage(o.token)) /\ o.pc = "get"
        BY <1>4, <2>2, <3>1 DEF FetchFromCache
      <4>2. IsPage(CachedPage(o.token), o.token)
        BY <1>4, <3>1, CacheAnswers DEF PagesInv
      <4>3. QED
        BY <1>1, <1>4, <4>1, <4>2, CollectStep
    <3>2. CASE ~CacheHit(o.token)
      BY <1>4, <1>5, <2>2, <3>2 DEF FetchFromCache
    <3>3. QED
      BY <3>1, <3>2
  <2>3. CASE FetchFromTable(w)
    <3>1. PICK p \in TablePages(o.token, TaskPageSize) : Collect(w, p)
      BY <1>4, <2>3 DEF FetchFromTable
    <3>2. IsPage(p, o.token)
      <4>1. TaskPageSize \in Nat
        BY PagesAssumption
      <4>2. TypeOK /\ \A t \in Existing : row[t] > 0
        BY DEF PagesInv
      <4>3. QED
        BY <1>4, <4>1, <4>2, TableAnswers
    <3>3. o.pc = "query"
      BY <1>4, <2>3 DEF FetchFromTable
    <3>4. QED
      BY <1>1, <1>4, <3>1, <3>2, <3>3, CollectStep
  <2>4. CASE LookupFails(w)
    BY <1>4, <1>5, <2>4 DEF LookupFails
  <2>5. CASE RequestFails(w)
    <3>1. CASE walk' = [walk EXCEPT ![w].pc = "cut", ![w].token = 0, ![w].seen = {}]
      <4>1. PICK k : k = [o EXCEPT !.pc = "cut", !.token = 0, !.seen = {}]
        OBVIOUS
      <4>2. walk' = [walk EXCEPT ![w] = k]
        BY <1>4, <3>1, <4>1
      <4>3. k \in Walker /\ k.pc = "cut" /\ k.aggregated = o.aggregated
        BY <1>4, <4>1 DEF Walker, Token
      <4>4. WalkerOK(k)
        BY <1>4, <4>3 DEF WalkerOK
      <4>5. QED
        BY <1>1, <4>2, <4>3, <4>4, OneWalker
    <3>2. CASE walk' = [walk EXCEPT ![w] = NoWalk]
      BY <1>1, <3>2, Defaults, OneWalker
    <3>3. QED
      BY <2>5, <3>1, <3>2 DEF RequestFails
  <2>6. QED
    BY <2>1, <2>2, <2>3, <2>4, <2>5
<1>7. QED
  BY <1>1, <1>2, <1>3, <1>6, Parts, PartsUnchanged

\* set-tasks puts what the walk collected on the board.
LEMMA SetTasksStep ==
    ASSUME PagesInv, NEW w \in Poll, SetTasks(w)
    PROVE  PagesInv'
<1>1. Table /\ Handlers /\ Cached /\ Walkers /\ Screen
  BY Parts
<1>2. PICK a \in Listing : a = walk[w].aggregated
  BY <1>1 DEF Walkers, Walker
<1>3. DOMAIN a = 1..Len(a) /\ Len(a) \in Nat /\ \A i \in DOMAIN a : a[i] \in [id: Task, version: Nat]
  BY LenProperties, ElementOfSeq DEF Listing
<1> DEFINE At(t) == {i \in DOMAIN a : a[i].id = t}
           Shown(t) == IF At(t) = {} THEN NoTask
                       ELSE [version |-> a[First(At(t))].version, order |-> "own"]
<1>4. board' = [t \in Task |-> Shown(t)]
  BY <1>2 DEF SetTasks
<1>5. ASSUME NEW t \in Task PROVE Shown(t) \in [version: Nat, order: {"none", "own", "zero"}]
  <2>1. CASE At(t) = {}
    BY <2>1, Defaults
  <2>2. CASE At(t) # {}
    <3>1. At(t) \subseteq Nat
      BY <1>3
    <3>2. First(At(t)) \in At(t)
      <4> HIDE DEF At
      <4> QED BY <2>2, <3>1, FirstIsLeast
    <3>3. a[First(At(t))].version \in Nat
      BY <1>3, <3>2
    <3>4. QED
      BY <2>2, <3>3
  <2>3. QED
    BY <2>1, <2>2
<1>6. Screen'
  <2>1. faults' = faults
    BY DEF SetTasks
  <2>2. board' \in [Task -> [version: Nat, order: {"none", "own", "zero"}]]
    <3> HIDE DEF Shown
    <3> QED BY <1>4, <1>5
  <2>3. QED
    BY <1>1, <2>1, <2>2 DEF Screen
<1>7. Walkers'
  <2>1. walk' = [walk EXCEPT ![w] = NoWalk]
    BY DEF SetTasks
  <2>2. QED
    BY <1>1, <2>1, Defaults, OneWalker
<1>8. UNCHANGED <<row, refresh, entry>>
  BY DEF SetTasks
<1>9. QED
  BY <1>1, <1>6, <1>7, <1>8, Parts, PartsUnchanged

\* Redis drops the entry.
LEMMA ExpireStep ==
    ASSUME PagesInv, Expire
    PROVE  PagesInv'
<1>1. Table /\ Handlers /\ Cached /\ Walkers /\ Screen
  BY Parts
<1>2. Cached'
  BY Defaults DEF Expire, Cached, EntryCutsIntoPages
<1>3. UNCHANGED <<row, refresh, walk, board, faults>>
  BY DEF Expire
<1>4. QED
  BY <1>1, <1>2, <1>3, Parts, PartsUnchanged

-----------------------------------------------------------------------------
\* The first state satisfies the invariant.
LEMMA PagesInit == Init => PagesInv
<1> SUFFICES ASSUME Init PROVE PagesInv
  OBVIOUS
<1>1. Table
  BY PagesAssumption DEF Init, Table
<1>2. Handlers
  BY Defaults DEF Init, Handlers
<1>3. Cached
  BY Defaults DEF Init, Cached, EntryCutsIntoPages
<1>4. Walkers
  BY Defaults DEF Init, Walkers
<1>5. Screen
  BY Defaults, PagesAssumption DEF Init, Screen
<1>6. QED
  BY <1>1, <1>2, <1>3, <1>4, <1>5, Parts

\* PagesInv is inductive.
LEMMA PagesInductive == PagesInv /\ [Next]_vars => PagesInv'
<1>1. SUFFICES ASSUME PagesInv, [Next]_vars PROVE PagesInv'
  OBVIOUS
<1>2. CASE UNCHANGED vars
  BY <1>1, <1>2, Parts, PartsUnchanged DEF vars
<1>3. ASSUME NEW e \in Event, HandleEvent(e) \/ RefreshFails(e) \/ UpdateLost(e)
      PROVE  PagesInv'
  BY <1>1, <1>3, ApplyStep, ListStep, StoreStep, HandlerStep, MergeStep DEF HandleEvent
<1>4. ASSUME NEW w \in Poll, Walk(w) \/ LookupFails(w) \/ RequestFails(w)
      PROVE  PagesInv'
  BY <1>1, <1>4, WalkStep, SetTasksStep DEF Walk
<1>5. CASE Expire
  BY <1>1, <1>5, ExpireStep
<1>6. QED
  BY <1>1, <1>2, <1>3, <1>4, <1>5 DEF Next

\* The entry RefreshTasks stores can be cut into pages by counting, whatever was inserted
\* while it was listed.
THEOREM PagesAreCut == Spec => []PagesInv
BY PagesInit, PagesInductive, PTL DEF Spec

\* fetchRemote never collects a task twice.
THEOREM NoTaskIsCollectedTwice == Spec => []NoTaskTwice
<1>1. PagesInv => NoTaskTwice
  BY DEF PagesInv
<1>2. QED
  BY <1>1, PagesInit, PagesInductive, PTL DEF Spec

\* fetchRemote skips no task that is there all along when its requests succeed.
THEOREM NoTaskIsSkipped == Spec => []NoTaskSkipped
<1>1. PagesInv => NoTaskSkipped
  BY DEF PagesInv
<1>2. QED
  BY <1>1, PagesInit, PagesInductive, PTL DEF Spec

=============================================================================
