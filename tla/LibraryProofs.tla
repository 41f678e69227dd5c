---------------------------- MODULE LibraryProofs ----------------------------
(***************************************************************************)
(* Proofs about the functions without state, for memories of any size and  *)
(* arguments of any value.                                                 *)
(*                                                                         *)
(* A loop is a recursive function, that is CHOOSE f : f = Body(f).  That   *)
(* there is such an f, and what it returns, is proved once for the loops   *)
(* that end at the first position of a set (LoopExists, LoopValue) and     *)
(* once for each of the others: from a solution one can write down, or     *)
(* from solutions for the first k positions, for one k after the other.    *)
(* Induction over positions is stated for sets (Upwards, Downwards): the   *)
(* least or greatest position outside of the set is the counterexample.    *)
(***************************************************************************)
EXTENDS Library, FiniteSetTheorems, WellFoundedInduction, NaturalsInduction, TLAPS

-----------------------------------------------------------------------------
(* Induction over positions                                                *)

LEMMA Least ==
  ASSUME NEW A \in SUBSET Nat, A # {}
  PROVE  \E x \in A : \A y \in A : x <= y
<1>1. PICK x \in A : \A y \in A : ~(<<y, x>> \in OpToRel(<, Nat))
  BY WFMin, NatLessThanWellFounded, Zenon
<1>2. \A y \in A : ~(y < x)
  BY <1>1 DEF OpToRel
<1> QED BY <1>2

LEMMA FirstIn ==
  ASSUME NEW a \in Int, NEW b \in Int, NEW S \in SUBSET (a..b), S # {}
  PROVE  \E x \in S : \A y \in S : x <= y
<1> DEFINE A == {y - a : y \in S}
<1>1. \A y \in S : y \in Int /\ y - a \in Nat /\ y - a \in A
  OBVIOUS
<1>2. A \in SUBSET Nat /\ A # {}
  BY <1>1
<1>3. PICK d \in A : \A y \in A : d <= y
  <2> HIDE DEF A
  <2> QED BY <1>2, Least
<1>4. PICK x \in S : d = x - a
  OBVIOUS
<1>5. \A y \in S : x - a <= y - a
  BY <1>1, <1>3, <1>4
<1> QED BY <1>1, <1>5

LEMMA LastIn ==
  ASSUME NEW a \in Int, NEW b \in Int, NEW S \in SUBSET (a..b), S # {}
  PROVE  \E x \in S : \A y \in S : y <= x
<1> DEFINE A == {b - y : y \in S}
<1>1. \A y \in S : y \in Int /\ b - y \in Nat /\ b - y \in A
  OBVIOUS
<1>2. A \in SUBSET Nat /\ A # {}
  BY <1>1
<1>3. PICK d \in A : \A y \in A : d <= y
  <2> HIDE DEF A
  <2> QED BY <1>2, Least
<1>4. PICK x \in S : d = b - x
  OBVIOUS
<1>5. \A y \in S : b - x <= b - y
  BY <1>1, <1>3, <1>4
<1> QED BY <1>1, <1>5

\* From the last position down
LEMMA Downwards ==
  ASSUME NEW a \in Int, NEW b \in Int, NEW S,
         \A p \in a..b : (p = b \/ p + 1 \in S) => p \in S
  PROVE  \A p \in a..b : p \in S
<1> DEFINE bad == {p \in a..b : p \notin S}
<1> SUFFICES ASSUME bad # {}  PROVE FALSE
  OBVIOUS
<1>1. PICK x \in bad : \A y \in bad : y <= x
  BY LastIn
<1>2. x \in a..b /\ x \notin S
  OBVIOUS
<1>3. x # b /\ x + 1 \in a..b
  BY <1>2
<1>4. x + 1 \in S
  BY <1>1, <1>3
<1> QED BY <1>2, <1>4

\* From the first position up
LEMMA Upwards ==
  ASSUME NEW a \in Int, NEW b \in Int, NEW S,
         \A p \in a..b : (p = a \/ p - 1 \in S) => p \in S
  PROVE  \A p \in a..b : p \in S
<1> DEFINE bad == {p \in a..b : p \notin S}
<1> SUFFICES ASSUME bad # {}  PROVE FALSE
  OBVIOUS
<1>1. PICK x \in bad : \A y \in bad : x <= y
  BY FirstIn
<1>2. x \in a..b /\ x \notin S
  OBVIOUS
<1>3. x # a /\ x - 1 \in a..b
  BY <1>2
<1>4. x - 1 \in S
  BY <1>1, <1>3
<1> QED BY <1>2, <1>4

-----------------------------------------------------------------------------
(* Loops that go up until they reach a position of T, and return V there   *)

IsLoop(g, a, b, T, V) == g = [i \in a..b |-> IF i \in T THEN V[i] ELSE g[i + 1]]

LEMMA LoopExists ==
  ASSUME NEW a \in Int, NEW b \in Int, NEW T \in SUBSET (a..b), b \in T, NEW V
  PROVE  \E g : IsLoop(g, a, b, T, V)
<1> DEFINE Ahead(i) == {x \in T : x >= i}
           First(i) == CHOOSE x \in Ahead(i) : \A y \in Ahead(i) : x <= y
           g == [i \in a..b |-> V[First(i)]]
<1>0. \A x \in T : x \in Int /\ a <= x /\ x <= b /\ x \in a..b
  OBVIOUS
<1>1. ASSUME NEW i \in a..b
      PROVE  First(i) \in Ahead(i) /\ \A y \in Ahead(i) : First(i) <= y
  <2>1. Ahead(i) \in SUBSET (a..b) /\ b \in Ahead(i)
    <3>1. \A x \in Ahead(i) : x \in a..b
      BY <1>0
    <3>2. b \in T /\ b >= i
      OBVIOUS
    <3> QED BY <3>1, <3>2
  <2>2. \E x \in Ahead(i) : \A y \in Ahead(i) : x <= y
    <3> HIDE DEF Ahead
    <3> QED BY <2>1, FirstIn
  <2> QED BY <2>2
<1>2. ASSUME NEW i \in a..b, i \in T  PROVE First(i) = i
  <2>1. i \in Ahead(i)
    BY <1>2
  <2>2. First(i) <= i /\ First(i) >= i /\ First(i) \in Int
    <3>1. First(i) \in Ahead(i) /\ First(i) <= i
      BY <1>1, <2>1
    <3> HIDE DEF First
    <3> QED BY <1>0, <3>1
  <2> QED BY <2>2
<1>3. ASSUME NEW i \in a..b, i \notin T  PROVE i + 1 \in a..b /\ First(i) = First(i + 1)
  <2>1. i # b /\ i + 1 \in a..b
    BY <1>3
  <2>2. Ahead(i) = Ahead(i + 1)
    <3>1. ASSUME NEW x \in T  PROVE x >= i <=> x >= i + 1
      BY <1>0, <1>3
    <3> QED BY <3>1
  <2> QED BY <2>1, <2>2
<1>4. ASSUME NEW i \in a..b
      PROVE  g[i] = IF i \in T THEN V[i] ELSE g[i + 1]
  <2> HIDE DEF First
  <2> QED BY <1>2, <1>3
<1>5. g = [i \in a..b |-> g[i]]
  OBVIOUS
<1>6. g = [i \in a..b |-> IF i \in T THEN V[i] ELSE g[i + 1]]
  <2> HIDE DEF g
  <2> QED BY <1>4, <1>5
<1> QED BY <1>6 DEF IsLoop

LEMMA LoopValue ==
  ASSUME NEW a \in Int, NEW b \in Int, NEW T \in SUBSET (a..b), b \in T, NEW V,
         NEW g, IsLoop(g, a, b, T, V),
         NEW x \in T, \A y \in T : x <= y
  PROVE  g[a] = V[x]
<1> DEFINE S == {i \in a..x : g[i] = V[x]}
<1>1. ASSUME NEW p \in a..x, p = x \/ p + 1 \in S  PROVE p \in S
  <2>1. p \in a..b /\ x \in Int
    OBVIOUS
  <2>2. g[p] = IF p \in T THEN V[p] ELSE g[p + 1]
    BY <2>1 DEF IsLoop
  <2>3. CASE p = x
    BY <2>2, <2>3
  <2>4. CASE p # x
    <3>1. p \notin T
      BY <2>4
    <3>2. g[p + 1] = V[x]
      BY <1>1, <2>4
    <3> QED BY <2>2, <3>1, <3>2
  <2> QED BY <2>3, <2>4
<1>2. \A p \in a..x : p \in S
  <2>1. x \in Int
    OBVIOUS
  <2> HIDE DEF S
  <2> QED BY <1>1, <2>1, Downwards
<1>3. a \in a..x
  OBVIOUS
<1> QED BY <1>2, <1>3

-----------------------------------------------------------------------------
(* string.c: the searches                                                  *)

\* FirstOf and LastOf of a set whose first or last element is known
LEMMA FirstIs ==
  ASSUME NEW S \in SUBSET Int, NEW p \in S, \A q \in S : p <= q
  PROVE  FirstOf(S) = p
<1> DEFINE c == CHOOSE x \in S : \A q \in S : x <= q
<1>1. c \in S /\ \A q \in S : c <= q
  OBVIOUS
<1>2. FirstOf(S) = c
  BY DEF FirstOf
<1> HIDE DEF c
<1> QED BY <1>1, <1>2

LEMMA LastIs ==
  ASSUME NEW S \in SUBSET Int, NEW p \in S, \A q \in S : q <= p
  PROVE  LastOf(S) = p
<1> DEFINE c == CHOOSE x \in S : \A q \in S : q <= x
<1>1. c \in S /\ \A q \in S : q <= c
  OBVIOUS
<1>2. LastOf(S) = c
  BY DEF LastOf
<1> HIDE DEF c
<1> QED BY <1>1, <1>2

IsSearch(g, a, b, H) ==
  g = [p \in a..b |-> IF p = b THEN NULL ELSE IF p \in H THEN p ELSE g[p + 1]]

\* A search returns the first position of H before b, and NULL if there is none.
LEMMA SearchLoop ==
  ASSUME NEW a \in Int, NEW b \in Int, a <= b, NEW H,
         NEW g, IsSearch(g, a, b, H)
  PROVE  g[a] = FirstOf({p \in a..b-1 : p \in H})
<1> DEFINE T == {p \in a..b : p = b \/ p \in H}
           V == [p \in a..b |-> IF p = b THEN NULL ELSE p]
           F == {p \in a..b-1 : p \in H}
<1>1. T \in SUBSET (a..b) /\ b \in T
  OBVIOUS
<1>2. IsLoop(g, a, b, T, V)
  BY DEF IsLoop, IsSearch
<1>3. PICK x \in T : \A y \in T : x <= y
  <2> HIDE DEF T
  <2> QED BY <1>1, FirstIn
<1>4. g[a] = V[x]
  <2> HIDE DEF T, V
  <2> QED BY <1>1, <1>2, <1>3, LoopValue
<1>5. CASE x = b
  <2>1. F = {}
    BY <1>3, <1>5
  <2> QED BY <1>4, <1>5, <2>1 DEF FirstOf
<1>6. CASE x # b
  <2>1. x \in F /\ F \in SUBSET Int /\ \A q \in F : x <= q
    BY <1>3, <1>6
  <2>2. FirstOf(F) = x
    <3> HIDE DEF F
    <3> QED BY <2>1, FirstIs
  <2> QED BY <1>4, <1>6, <2>2
<1> QED BY <1>5, <1>6

LEMMA SearchExists ==
  ASSUME NEW a \in Int, NEW b \in Int, a <= b, NEW H
  PROVE  \E g : IsSearch(g, a, b, H)
<1> DEFINE T == {p \in a..b : p = b \/ p \in H}
           V == [p \in a..b |-> IF p = b THEN NULL ELSE p]
<1>1. T \in SUBSET (a..b) /\ b \in T
  OBVIOUS
<1>2. PICK g : IsLoop(g, a, b, T, V)
  <2> HIDE DEF T, V
  <2> QED BY <1>1, LoopExists
<1>3. IsSearch(g, a, b, H)
  BY <1>2 DEF IsLoop, IsSearch
<1> QED BY <1>3

LEMMA MemchrFinds ==
  ASSUME NEW m, NEW s \in Int, NEW c, NEW n \in Nat
  PROVE  memchr(m, s, c, n) = FirstOf({p \in s..s+n-1 : m[p] = UnsignedChar(c)})
<1> DEFINE b == s + n
           H == {p \in s..b : m[p] = UnsignedChar(c)}
           Body(g) == [p \in s..s+n |-> IF p = s + n THEN NULL
                                        ELSE IF m[p] = UnsignedChar(c) THEN p ELSE g[p + 1]]
           f == CHOOSE g : g = Body(g)
<1>1. b \in Int /\ s <= b
  OBVIOUS
<1>2. \A g : g = Body(g) <=> IsSearch(g, s, b, H)
  BY DEF IsSearch
<1>3. \E g : IsSearch(g, s, b, H)
  <2> HIDE DEF b, H
  <2> QED BY <1>1, SearchExists
<1>4. f = Body(f)
  <2>1. \E g : g = Body(g)
    <3> HIDE DEF Body
    <3> QED BY <1>2, <1>3
  <2> HIDE DEF Body
  <2> QED BY <2>1
<1>5. memchr(m, s, c, n) = f[s]
  BY DEF memchr
<1>6. f[s] = FirstOf({p \in s..b-1 : p \in H})
  <2> HIDE DEF f, Body, b, H
  <2> QED BY <1>1, <1>2, <1>4, SearchLoop
<1>7. {p \in s..b-1 : p \in H} = {p \in s..s+n-1 : m[p] = UnsignedChar(c)}
  OBVIOUS
<1> QED BY <1>5, <1>6, <1>7

-----------------------------------------------------------------------------
(* string.c: lengths and comparisons                                       *)

Memory == [Addr -> 0..255]

\* The string at s ends at e.
IsString(m, s, e) ==
  e \in Addr /\ s <= e /\ m[e] = 0 /\ \A q \in s..e-1 : m[q] # 0

\* The places of its characters
Chars(m, s) == {p \in Addr : p >= s /\ \A q \in s..p : m[q] # 0}

LEMMA LoopFirst ==
  ASSUME NEW a \in Int, NEW b \in Int, NEW T \in SUBSET (a..b), b \in T, NEW V,
         NEW g, IsLoop(g, a, b, T, V)
  PROVE  \E x \in T : g[a] = V[x] /\ \A y \in T : x <= y
<1>1. PICK x \in T : \A y \in T : x <= y
  BY FirstIn
<1>2. g[a] = V[x]
  BY <1>1, LoopValue
<1> QED BY <1>1, <1>2

LEMMA StringEnds ==
  ASSUME NEW m, NEW s \in Addr, \E p \in Addr : p >= s /\ m[p] = 0
  PROVE  \E e : IsString(m, s, e)
<1> DEFINE Z == {p \in s..SIZE-1 : m[p] = 0}
<1>1. SIZE \in Nat /\ s \in Nat
  BY ByteAssumption DEF Addr
<1>2. Z \in SUBSET (s..SIZE-1) /\ Z # {}
  BY <1>1 DEF Addr
<1>3. PICK e \in Z : \A y \in Z : e <= y
  <2> HIDE DEF Z
  <2> QED BY <1>1, <1>2, FirstIn
<1>4. e \in s..SIZE-1 /\ m[e] = 0
  OBVIOUS
<1>5. ASSUME NEW q \in s..e-1  PROVE m[q] # 0
  <2>1. q \in s..SIZE-1 /\ ~(e <= q)
    BY <1>1, <1>4
  <2> QED BY <1>3, <2>1
<1>6. e \in Addr /\ s <= e
  BY <1>1, <1>4 DEF Addr
<1> QED BY <1>4, <1>5, <1>6 DEF IsString

LEMMA CharsAre ==
  ASSUME NEW m, NEW s \in Addr, NEW e, IsString(m, s, e)
  PROVE  Chars(m, s) = s..e-1 /\ Cardinality(Chars(m, s)) = e - s
<1>1. SIZE \in Nat /\ s \in Nat /\ e \in Nat /\ s <= e /\ e < SIZE
  BY ByteAssumption DEF Addr, IsString
<1>2. ASSUME NEW p \in Chars(m, s)  PROVE p \in s..e-1
  <2>1. p \in Nat /\ p >= s /\ \A q \in s..p : m[q] # 0
    BY <1>1 DEF Chars, Addr
  <2>2. ~(e <= p)
    <3>1. e <= p => e \in s..p
      BY <1>1, <2>1
    <3> QED BY <2>1, <3>1 DEF IsString
  <2> QED BY <1>1, <2>1, <2>2
<1>3. ASSUME NEW p \in s..e-1  PROVE p \in Chars(m, s)
  <2>1. p \in Addr /\ p >= s
    BY <1>1 DEF Addr
  <2>2. \A q \in s..p : q \in s..e-1
    BY <1>1
  <2> QED BY <2>1, <2>2 DEF Chars, IsString
<1>4. Chars(m, s) = s..e-1
  BY <1>2, <1>3
<1>5. Cardinality(s..e-1) = e - s
  <2>1. s \in Int /\ e - 1 \in Int
    BY <1>1
  <2>2. Cardinality(s..e-1) = IF s > e - 1 THEN 0 ELSE (e - 1) - s + 1
    BY <2>1, FS_Interval
  <2> QED BY <1>1, <2>2
<1> QED BY <1>4, <1>5

LEMMA StrlenIs ==
  ASSUME NEW m \in Memory, NEW s \in Addr, NEW e, IsString(m, s, e)
  PROVE  strlen(m, s) = e - s
<1> DEFINE size == Cardinality(DOMAIN m)
           T == {n \in 0..size : n = size \/ m[s + n] = 0}
           V == [n \in 0..size |-> n]
           Body(g) == [n \in 0..size |-> IF n = size \/ m[s + n] = 0 THEN n ELSE g[n + 1]]
           f == CHOOSE g : g = Body(g)
<1>1. SIZE \in Nat /\ s \in Nat /\ e \in Nat /\ s <= e /\ e < SIZE
  BY ByteAssumption DEF Addr, IsString
<1>2. size = SIZE
  <2>1. DOMAIN m = 0..SIZE-1
    BY DEF Memory, Addr
  <2>2. Cardinality(0..SIZE-1) = IF 0 > SIZE - 1 THEN 0 ELSE (SIZE - 1) - 0 + 1
    <3>1. 0 \in Int /\ SIZE - 1 \in Int
      BY <1>1
    <3> QED BY <3>1, FS_Interval
  <2> QED BY <1>1, <2>1, <2>2
<1>3. strlen(m, s) = f[0]
  BY DEF strlen
<1> HIDE DEF size
<1>4. 0 \in Int /\ size \in Int /\ T \in SUBSET (0..size) /\ size \in T
  BY <1>1, <1>2
<1>5. \A g : g = Body(g) <=> IsLoop(g, 0, size, T, V)
  BY DEF IsLoop
<1>6. \E g : IsLoop(g, 0, size, T, V)
  <2> HIDE DEF T, V
  <2> QED BY <1>4, LoopExists
<1>7. IsLoop(f, 0, size, T, V)
  <2> HIDE DEF Body, T, V
  <2> QED BY <1>5, <1>6
<1>8. e - s \in T /\ \A y \in T : e - s <= y
  <2>1. e - s \in T
    BY <1>1, <1>2 DEF IsString
  <2>2. ASSUME NEW y \in T, ~(e - s <= y)  PROVE FALSE
    <3>1. y \in Nat /\ y # size /\ m[s + y] = 0 /\ s + y \in s..e-1
      BY <1>1, <1>2, <2>2
    <3> QED BY <3>1 DEF IsString
  <2> QED BY <2>1, <2>2
<1>9. f[0] = V[e - s]
  <2> DEFINE x == e - s
  <2>1. x \in T /\ \A y \in T : x <= y
    BY <1>8
  <2>2. f[0] = V[x]
    <3> HIDE DEF f, T, V, x
    <3> QED BY <1>4, <1>7, <2>1, LoopValue
  <2> QED BY <2>2
<1>10. V[e - s] = e - s
  BY <1>8
<1> QED BY <1>3, <1>9, <1>10

LEMMA UpToIs ==
  ASSUME NEW m, NEW s \in Addr, NEW e, IsString(m, s, e), NEW n \in Nat
  PROVE  UpTo(m, s, n) = IF n <= e - s THEN n ELSE e - s + 1
<1> DEFINE T == {i \in 0..n : i = n \/ m[s + i] = 0}
           V == [i \in 0..n |-> IF i = n THEN n ELSE i + 1]
           Body(g) == [i \in 0..n |-> IF i = n THEN n ELSE IF m[s + i] = 0 THEN i + 1 ELSE g[i + 1]]
           f == CHOOSE g : g = Body(g)
<1>1. s \in Nat /\ e \in Nat /\ s <= e
  BY ByteAssumption DEF Addr, IsString
<1>2. UpTo(m, s, n) = f[0]
  BY DEF UpTo
<1>3. 0 \in Int /\ n \in Int /\ T \in SUBSET (0..n) /\ n \in T
  OBVIOUS
<1>4. \A g : g = Body(g) <=> IsLoop(g, 0, n, T, V)
  BY DEF IsLoop
<1>5. \E g : IsLoop(g, 0, n, T, V)
  <2> HIDE DEF T, V
  <2> QED BY <1>3, LoopExists
<1>6. IsLoop(f, 0, n, T, V)
  <2> HIDE DEF Body, T, V
  <2> QED BY <1>4, <1>5
<1> DEFINE x == IF n <= e - s THEN n ELSE e - s
<1>7. x \in T /\ \A y \in T : x <= y
  <2>1. x \in T
    BY <1>1 DEF IsString
  <2>2. ASSUME NEW y \in T, ~(x <= y)  PROVE FALSE
    <3>1. y \in Nat /\ y # n /\ m[s + y] = 0 /\ s + y \in s..e-1
      BY <1>1, <2>2
    <3> QED BY <3>1 DEF IsString
  <2> QED BY <2>1, <2>2
<1>8. f[0] = V[x]
  <2> HIDE DEF f, T, V, x
  <2> QED BY <1>3, <1>6, <1>7, LoopValue
<1>9. V[x] = IF n <= e - s THEN n ELSE e - s + 1
  BY <1>1, <1>7
<1> QED BY <1>2, <1>8, <1>9

\* memcmp and strncmp stop at x.
ComparedTo(m, s1, s2, n, x) ==
  /\ x \in 0..n /\ (x = n \/ m[s1 + x] # m[s2 + x])
  /\ \A j \in 0..x-1 : m[s1 + j] = m[s2 + j]
  /\ memcmp(m, s1, s2, n) = IF x = n THEN 0 ELSE m[s1 + x] - m[s2 + x]

StringsComparedTo(m, s1, s2, n, x) ==
  /\ x \in 0..n /\ (x = n \/ m[s1 + x] = 0 \/ m[s2 + x] = 0 \/ m[s1 + x] # m[s2 + x])
  /\ \A j \in 0..x-1 : m[s1 + j] # 0 /\ m[s2 + j] # 0 /\ m[s1 + j] = m[s2 + j]
  /\ strncmp(m, s1, s2, n) =
       IF x = n \/ m[s1 + x] = 0 \/ m[s2 + x] = 0 THEN 0 ELSE Order(m[s1 + x], m[s2 + x])

LEMMA MemcmpIs ==
  ASSUME NEW m, NEW s1 \in Int, NEW s2 \in Int, NEW n \in Nat
  PROVE  \E x : ComparedTo(m, s1, s2, n, x)
<1> DEFINE T == {i \in 0..n : i = n \/ m[s1 + i] # m[s2 + i]}
           V == [i \in 0..n |-> IF i = n THEN 0 ELSE m[s1 + i] - m[s2 + i]]
           Body(g) == [i \in 0..n |-> IF i = n THEN 0
                                      ELSE IF m[s1 + i] # m[s2 + i] THEN m[s1 + i] - m[s2 + i]
                                      ELSE g[i + 1]]
           f == CHOOSE g : g = Body(g)
<1>1. memcmp(m, s1, s2, n) = f[0]
  BY DEF memcmp
<1>2. 0 \in Int /\ n \in Int /\ T \in SUBSET (0..n) /\ n \in T
  OBVIOUS
<1>3. \A g : g = Body(g) <=> IsLoop(g, 0, n, T, V)
  BY DEF IsLoop
<1>4. \E g : IsLoop(g, 0, n, T, V)
  <2> HIDE DEF T, V
  <2> QED BY <1>2, LoopExists
<1>5. IsLoop(f, 0, n, T, V)
  <2> HIDE DEF Body, T, V
  <2> QED BY <1>3, <1>4
<1>6. PICK x \in T : f[0] = V[x] /\ \A y \in T : x <= y
  <2> HIDE DEF f, T, V
  <2> QED BY <1>2, <1>5, LoopFirst
<1>7. x \in 0..n /\ (x = n \/ m[s1 + x] # m[s2 + x])
  OBVIOUS
<1>8. ASSUME NEW j \in 0..x-1  PROVE m[s1 + j] = m[s2 + j]
  <2>1. j \in 0..n /\ j # n /\ ~(x <= j)
    BY <1>7
  <2> QED BY <1>6, <2>1
<1>9. V[x] = IF x = n THEN 0 ELSE m[s1 + x] - m[s2 + x]
  BY <1>7
<1> QED BY <1>1, <1>6, <1>7, <1>8, <1>9 DEF ComparedTo

LEMMA StrncmpIs ==
  ASSUME NEW m, NEW s1 \in Int, NEW s2 \in Int, NEW n \in Nat
  PROVE  \E x : StringsComparedTo(m, s1, s2, n, x)
<1> DEFINE Stops(i) == i = n \/ m[s1 + i] = 0 \/ m[s2 + i] = 0
           T == {i \in 0..n : Stops(i) \/ m[s1 + i] # m[s2 + i]}
           V == [i \in 0..n |-> IF Stops(i) THEN 0 ELSE Order(m[s1 + i], m[s2 + i])]
           Body(g) == [i \in 0..n |->
                         IF i = n \/ m[s1 + i] = 0 \/ m[s2 + i] = 0 THEN 0
                         ELSE IF m[s1 + i] # m[s2 + i] THEN Order(m[s1 + i], m[s2 + i])
                         ELSE g[i + 1]]
           f == CHOOSE g : g = Body(g)
<1>1. strncmp(m, s1, s2, n) = f[0]
  BY DEF strncmp
<1>2. 0 \in Int /\ n \in Int /\ T \in SUBSET (0..n) /\ n \in T
  OBVIOUS
<1>3. \A g : g = Body(g) <=> IsLoop(g, 0, n, T, V)
  BY DEF IsLoop
<1>4. \E g : IsLoop(g, 0, n, T, V)
  <2> HIDE DEF T, V
  <2> QED BY <1>2, LoopExists
<1>5. IsLoop(f, 0, n, T, V)
  <2> HIDE DEF Body, T, V
  <2> QED BY <1>3, <1>4
<1>6. PICK x \in T : f[0] = V[x] /\ \A y \in T : x <= y
  <2> HIDE DEF f, T, V
  <2> QED BY <1>2, <1>5, LoopFirst
<1>7. x \in 0..n /\ (x = n \/ m[s1 + x] = 0 \/ m[s2 + x] = 0 \/ m[s1 + x] # m[s2 + x])
  OBVIOUS
<1>8. ASSUME NEW j \in 0..x-1
      PROVE  m[s1 + j] # 0 /\ m[s2 + j] # 0 /\ m[s1 + j] = m[s2 + j]
  <2>1. j \in 0..n /\ j # n /\ ~(x <= j)
    BY <1>7
  <2> QED BY <1>6, <2>1
<1>9. V[x] = IF x = n \/ m[s1 + x] = 0 \/ m[s2 + x] = 0 THEN 0 ELSE Order(m[s1 + x], m[s2 + x])
  BY <1>7
<1> QED BY <1>1, <1>6, <1>7, <1>8, <1>9 DEF StringsComparedTo

LEMMA StrchrFinds ==
  ASSUME NEW m \in Memory, NEW s \in Addr, NEW e, IsString(m, s, e), NEW c
  PROVE  strchr(m, s, c) = FirstOf({p \in s..e-1 : Char(m[p]) = UnsignedChar(c)})
<1> DEFINE b == s + strlen(m, s)
           H == {p \in s..b : Char(m[p]) = UnsignedChar(c)}
           Body(g) == [p \in s..s+strlen(m, s) |->
                         IF m[p] = 0 THEN NULL
                         ELSE IF Char(m[p]) = UnsignedChar(c) THEN p ELSE g[p + 1]]
           f == CHOOSE g : g = Body(g)
<1>1. strchr(m, s, c) = f[s]
  BY DEF strchr
<1>2. b = e /\ s \in Int /\ e \in Int /\ s <= e
  BY StrlenIs, ByteAssumption DEF Addr, IsString
<1> HIDE DEF b
<1>3. \A p \in s..b : m[p] = 0 <=> p = b
  BY <1>2 DEF IsString
<1>4. \A g : g = Body(g) <=> IsSearch(g, s, b, H)
  <2>1. \A g : Body(g) = [p \in s..b |-> IF p = b THEN NULL ELSE IF p \in H THEN p ELSE g[p + 1]]
    BY <1>3 DEF b
  <2> HIDE DEF Body
  <2> QED BY <2>1 DEF IsSearch
<1>5. \E g : IsSearch(g, s, b, H)
  <2> HIDE DEF H
  <2> QED BY <1>2, SearchExists
<1>6. IsSearch(f, s, b, H)
  <2> HIDE DEF Body, H
  <2> QED BY <1>4, <1>5
<1>7. f[s] = FirstOf({p \in s..b-1 : p \in H})
  <2> HIDE DEF f, H
  <2> QED BY <1>2, <1>6, SearchLoop
<1>8. {p \in s..b-1 : p \in H} = {p \in s..e-1 : Char(m[p]) = UnsignedChar(c)}
  BY <1>2
<1> QED BY <1>1, <1>7, <1>8

\* The loop of strrchr: ret at p is the last position of H before p.
IsRet(g, a, b, H) ==
  g = [p \in a..b |-> IF p = a THEN NULL ELSE IF p - 1 \in H THEN p - 1 ELSE g[p - 1]]

LEMMA RetStep ==
  ASSUME NEW a \in Int, NEW H, NEW p \in Int, p > a
  PROVE  LastOf({q \in a..p-1 : q \in H}) =
           IF p - 1 \in H THEN p - 1 ELSE LastOf({q \in a..p-2 : q \in H})
<1>1. CASE p - 1 \in H
  <2> DEFINE S == {q \in a..p-1 : q \in H}
  <2>1. S \in SUBSET Int /\ p - 1 \in S /\ \A q \in S : q <= p - 1
    BY <1>1
  <2>2. PICK z \in S : z = p - 1
    BY <2>1
  <2>3. LastOf(S) = z
    <3> HIDE DEF S
    <3> QED BY <2>1, <2>2, LastIs
  <2> QED BY <1>1, <2>2, <2>3
<1>2. CASE p - 1 \notin H
  <2>1. ASSUME NEW q \in a..p-1, q \in H  PROVE q \in a..p-2
    <3>1. q # p - 1
      BY <1>2, <2>1
    <3> QED BY <3>1
  <2>2. {q \in a..p-1 : q \in H} = {q \in a..p-2 : q \in H}
    BY <2>1
  <2> QED BY <1>2, <2>2
<1> QED BY <1>1, <1>2

LEMMA RetIs ==
  ASSUME NEW a \in Int, NEW b \in Int, a <= b, NEW H
  PROVE  /\ \E g : IsRet(g, a, b, H)
         /\ \A g : IsRet(g, a, b, H) => g[b] = LastOf({q \in a..b-1 : q \in H})
<1> DEFINE L(p) == LastOf({q \in a..p-1 : q \in H})
           h == [p \in a..b |-> L(p)]
<1>1. L(a) = NULL
  <2>1. {q \in a..a-1 : q \in H} = {}
    OBVIOUS
  <2> QED BY <2>1 DEF LastOf
<1>2. ASSUME NEW p \in a..b, p # a
      PROVE  p - 1 \in a..b /\ L(p) = IF p - 1 \in H THEN p - 1 ELSE L(p - 1)
  <2>1. p \in Int /\ p > a /\ p - 1 \in a..b /\ (p - 1) - 1 = p - 2
    BY <1>2
  <2> QED BY <2>1, RetStep
<1> HIDE DEF L
<1>3. ASSUME NEW p \in a..b
      PROVE  h[p] = IF p = a THEN NULL ELSE IF p - 1 \in H THEN p - 1 ELSE h[p - 1]
  BY <1>1, <1>2
<1>4. IsRet(h, a, b, H)
  <2>1. h = [p \in a..b |-> h[p]]
    OBVIOUS
  <2> HIDE DEF h
  <2> QED BY <1>3, <2>1 DEF IsRet
<1>5. ASSUME NEW g, IsRet(g, a, b, H)  PROVE g[b] = L(b)
  <2> DEFINE S == {p \in a..b : g[p] = L(p)}
  <2>1. ASSUME NEW p \in a..b, p = a \/ p - 1 \in S  PROVE p \in S
    <3>1. g[p] = IF p = a THEN NULL ELSE IF p - 1 \in H THEN p - 1 ELSE g[p - 1]
      BY <1>5 DEF IsRet
    <3>2. CASE p = a
      BY <1>1, <3>1, <3>2
    <3>3. CASE p # a
      BY <1>2, <2>1, <3>1, <3>3
    <3> QED BY <3>2, <3>3
  <2>2. \A p \in a..b : p \in S
    <3> HIDE DEF S
    <3> QED BY <2>1, Upwards
  <2>3. b \in a..b
    OBVIOUS
  <2> QED BY <2>2, <2>3
<1> QED BY <1>4, <1>5 DEF L

LEMMA StrrchrFinds ==
  ASSUME NEW m \in Memory, NEW s \in Addr, NEW e, IsString(m, s, e), NEW c
  PROVE  strrchr(m, s, c) = LastOf({p \in s..e-1 : Char(m[p]) = UnsignedChar(c)})
<1> DEFINE b == s + strlen(m, s)
           H == {p \in s..e-1 : Char(m[p]) = UnsignedChar(c)}
           Body(g) == [p \in s..b |->
                         IF p = s THEN NULL
                         ELSE IF Char(m[p - 1]) = UnsignedChar(c) THEN p - 1 ELSE g[p - 1]]
           f == CHOOSE g : g = Body(g)
<1>1. strrchr(m, s, c) = f[b]
  BY DEF strrchr
<1>2. b = e /\ s \in Int /\ e \in Int /\ s <= e
  BY StrlenIs, ByteAssumption DEF Addr, IsString
<1> HIDE DEF b
<1>3. \A p \in s..b : p # s => (p - 1 \in H <=> Char(m[p - 1]) = UnsignedChar(c))
  BY <1>2
<1>4. \A g : g = Body(g) <=> IsRet(g, s, b, H)
  <2>1. \A g : Body(g) = [p \in s..b |-> IF p = s THEN NULL
                                         ELSE IF p - 1 \in H THEN p - 1 ELSE g[p - 1]]
    <3> HIDE DEF H
    <3> QED BY <1>3
  <2> HIDE DEF Body
  <2> QED BY <2>1 DEF IsRet
<1>5. \E g : IsRet(g, s, b, H)
  <2> HIDE DEF H
  <2> QED BY <1>2, RetIs
<1>6. IsRet(f, s, b, H)
  <2> HIDE DEF Body, H
  <2> QED BY <1>4, <1>5
<1>7. f[b] = LastOf({p \in s..b-1 : p \in H})
  <2> HIDE DEF f, H
  <2> QED BY <1>2, <1>6, RetIs
<1>8. {p \in s..b-1 : p \in H} = {p \in s..e-1 : Char(m[p]) = UnsignedChar(c)}
  BY <1>2
<1> QED BY <1>1, <1>7, <1>8

LEMMA MemcmpZero ==
  ASSUME NEW m \in Memory, NEW p \in Nat, NEW q \in Nat, NEW n \in Nat, p + n <= SIZE, q + n <= SIZE
  PROVE  memcmp(m, p, q, n) = 0 <=> \A i \in 0..n-1 : m[p + i] = m[q + i]
<1>0. PICK x : ComparedTo(m, p, q, n, x)
  BY MemcmpIs
<1>1. /\ x \in 0..n /\ (x = n \/ m[p + x] # m[q + x])
      /\ \A j \in 0..x-1 : m[p + j] = m[q + j]
      /\ memcmp(m, p, q, n) = IF x = n THEN 0 ELSE m[p + x] - m[q + x]
  BY <1>0 DEF ComparedTo
<1>2. CASE x = n
  BY <1>1, <1>2
<1>3. CASE x # n
  <2>1. x \in 0..n-1 /\ p + x \in Addr /\ q + x \in Addr
    BY <1>1, <1>3, ByteAssumption DEF Addr
  <2>2. m[p + x] \in 0..255 /\ m[q + x] \in 0..255
    BY <2>1 DEF Memory
  <2>3. m[p + x] - m[q + x] # 0
    <3> DEFINE u == m[p + x]  v == m[q + x]
    <3>1. u \in Int /\ v \in Int /\ u # v
      BY <1>1, <1>3, <2>2
    <3> HIDE DEF u, v
    <3>2. u - v # 0
      BY <3>1
    <3> QED BY <3>2 DEF u, v
  <2> QED BY <1>1, <1>3, <2>1, <2>3
<1> QED BY <1>2, <1>3

\* The places where the string at sub is found in the one at s
Matches(m, s, e, sub, z) ==
  {p \in s..e-(z-sub) : \A i \in 0..z-sub-1 : m[p + i] = m[sub + i]}

LEMMA StrstrFinds ==
  ASSUME NEW m \in Memory, NEW s \in Addr, NEW e, IsString(m, s, e),
         NEW sub \in Addr, NEW z, IsString(m, sub, z)
  PROVE  strstr(m, s, sub) = FirstOf(Matches(m, s, e, sub, z))
<1> DEFINE len == strlen(m, sub)
           end == s + strlen(m, s)
           Body(g) == [p \in s..end+1 |->
                         IF end - p < len THEN NULL
                         ELSE IF memcmp(m, p, sub, len) = 0 THEN p ELSE g[p + 1]]
           f == CHOOSE g : g = Body(g)
<1>1. strstr(m, s, sub) = IF len = 0 THEN s ELSE f[s]
  BY DEF strstr
<1>2. /\ SIZE \in Nat /\ s \in Nat /\ e \in Nat /\ s <= e /\ e < SIZE
      /\ sub \in Nat /\ z \in Nat /\ sub <= z /\ z < SIZE
  BY ByteAssumption DEF Addr, IsString
<1>3. len = z - sub /\ end = e
  BY <1>2, StrlenIs
<1> HIDE DEF len, end
<1> DEFINE M == {p \in s..e-(z-sub) : \A i \in 0..z-sub-1 : m[p + i] = m[sub + i]}
<1> SUFFICES strstr(m, s, sub) = FirstOf(M)
  BY DEF Matches
<1>4. CASE len = 0
  <2>1. s \in M /\ M \in SUBSET Int /\ \A q \in M : s <= q
    BY <1>2, <1>3, <1>4
  <2>2. FirstOf(M) = s
    <3> HIDE DEF M
    <3> QED BY <2>1, FirstIs
  <2> QED BY <1>1, <1>4, <2>2
<1>5. CASE len # 0
  <2> DEFINE T == {p \in s..end+1 : end - p < len \/ memcmp(m, p, sub, len) = 0}
             V == [p \in s..end+1 |-> IF end - p < len THEN NULL ELSE p]
  <2>1. s \in Int /\ end + 1 \in Int /\ T \in SUBSET (s..end+1) /\ end + 1 \in T
    BY <1>2, <1>3
  <2>2. \A g : g = Body(g) <=> IsLoop(g, s, end + 1, T, V)
    BY DEF IsLoop
  <2>3. \E g : IsLoop(g, s, end + 1, T, V)
    <3> HIDE DEF T, V
    <3> QED BY <2>1, LoopExists
  <2>4. IsLoop(f, s, end + 1, T, V)
    <3> HIDE DEF Body, T, V
    <3> QED BY <2>2, <2>3
  <2>5. PICK x \in T : f[s] = V[x] /\ \A y \in T : x <= y
    <3> HIDE DEF f, T, V
    <3> QED BY <2>1, <2>4, LoopFirst
  <2>6. ASSUME NEW p \in s..end+1, ~(end - p < len)
        PROVE  p \in T <=> p \in M
    <3>1. p \in Nat /\ len \in Nat /\ p + len <= SIZE /\ sub + len <= SIZE /\ sub \in Nat
      BY <1>2, <1>3, <2>6
    <3>2. memcmp(m, p, sub, len) = 0 <=> \A i \in 0..len-1 : m[p + i] = m[sub + i]
      <4> HIDE DEF T, V, M, Body, f
      <4> QED BY <3>1, MemcmpZero
    <3>3. p \in s..e-(z-sub)
      BY <1>2, <1>3, <2>6
    <3> QED BY <1>3, <2>6, <3>2, <3>3
  <2>7. ASSUME NEW p \in M  PROVE p \in s..end+1 /\ ~(end - p < len)
    BY <1>2, <1>3
  <2>8. x \in s..end+1
    OBVIOUS
  <2>9. CASE end - x < len
    <3>1. ASSUME NEW p \in M  PROVE FALSE
      <4>1. p \in T /\ p \in s..end+1 /\ ~(end - p < len)
        BY <2>6, <2>7
      <4>2. x <= p
        BY <2>5, <4>1
      <4> HIDE DEF T
      <4> QED BY <1>2, <1>3, <2>8, <2>9, <4>1, <4>2
    <3>2. M = {}
      BY <3>1
    <3>3. f[s] = NULL
      <4> HIDE DEF f
      <4> QED BY <2>5, <2>8, <2>9
    <3> QED BY <1>1, <1>5, <3>2, <3>3 DEF FirstOf
  <2>10. CASE ~(end - x < len)
    <3>1. x \in M
      BY <2>6, <2>8, <2>10
    <3>2. \A q \in M : x <= q
      BY <2>5, <2>6, <2>7
    <3>3. M \in SUBSET Int
      OBVIOUS
    <3>4. FirstOf(M) = x
      <4> HIDE DEF M
      <4> QED BY <3>1, <3>2, <3>3, FirstIs
    <3>5. f[s] = x
      <4> HIDE DEF f
      <4> QED BY <2>5, <2>8, <2>10
    <3> QED BY <1>1, <1>5, <3>4, <3>5
  <2> QED BY <2>9, <2>10
<1> QED BY <1>4, <1>5

-----------------------------------------------------------------------------
(* string.c: the copies                                                    *)

\* m with n bytes of it, from src on, at dest as well
Copied(m, dest, src, n) ==
  [p \in Addr |-> IF p \in dest..dest+n-1 THEN m[src + p - dest] ELSE m[p]]

LEMMA CopyUpCopies ==
  ASSUME NEW m \in Memory, NEW dest \in Nat, NEW src \in Nat, NEW n \in Nat,
         dest + n <= SIZE, src + n <= SIZE,
         dest <= src \/ dest + n <= src \/ src + n <= dest
  PROVE  CopyUp(m, dest, src, n) = Copied(m, dest, src, n)
<1> DEFINE Body(g) == [i \in 0..n |->
                         IF i = 0 THEN m
                         ELSE [g[i - 1] EXCEPT ![dest + i - 1] = g[i - 1][src + i - 1]]]
           f == CHOOSE g : g = Body(g)
           C(i) == Copied(m, dest, src, i)
           h == [i \in 0..n |-> C(i)]
<1>1. CopyUp(m, dest, src, n) = f[n]
  BY DEF CopyUp
<1>2. SIZE \in Nat
  BY ByteAssumption
<1>3. C(0) = m
  <2>1. m = [p \in Addr |-> m[p]]
    BY DEF Memory
  <2>2. dest..dest+0-1 = {}
    OBVIOUS
  <2> QED BY <2>1, <2>2 DEF Copied
<1>4. ASSUME NEW i \in 0..n, i # 0
      PROVE  i - 1 \in 0..n /\ C(i) = [C(i - 1) EXCEPT ![dest + i - 1] = C(i - 1)[src + i - 1]]
  <2>1. i - 1 \in 0..n /\ dest + i - 1 \in Addr /\ src + i - 1 \in Addr
    BY <1>2, <1>4 DEF Addr
  <2>2. src + i - 1 \notin dest..dest+(i-1)-1
    BY <1>4
  <2>3. C(i - 1)[src + i - 1] = m[src + i - 1]
    BY <2>1, <2>2 DEF Copied
  <2>4. [C(i - 1) EXCEPT ![dest + i - 1] = C(i - 1)[src + i - 1]] =
        [p \in Addr |-> IF p = dest + i - 1 THEN m[src + i - 1] ELSE C(i - 1)[p]]
    BY <2>3 DEF Copied
  <2>5. ASSUME NEW p \in Addr
        PROVE  C(i)[p] = IF p = dest + i - 1 THEN m[src + i - 1] ELSE C(i - 1)[p]
    <3>1. p \in Nat
      BY <1>2 DEF Addr
    <3>2. CASE p = dest + i - 1
      <4>1. p \in dest..dest+i-1 /\ src + p - dest = src + i - 1
        BY <1>4, <3>2
      <4> QED BY <3>2, <4>1 DEF Copied
    <3>3. CASE p # dest + i - 1
      <4>1. p \in dest..dest+i-1 <=> p \in dest..dest+(i-1)-1
        BY <1>4, <3>1, <3>3
      <4> QED BY <3>3, <4>1 DEF Copied
    <3> QED BY <3>2, <3>3
  <2>6. C(i) = [p \in Addr |-> C(i)[p]]
    BY DEF Copied
  <2> HIDE DEF C
  <2> QED BY <2>1, <2>4, <2>5, <2>6
<1> HIDE DEF C
<1>5. h = Body(h)
  <2>1. ASSUME NEW i \in 0..n
        PROVE  h[i] = IF i = 0 THEN m
                      ELSE [h[i - 1] EXCEPT ![dest + i - 1] = h[i - 1][src + i - 1]]
    BY <1>3, <1>4
  <2>2. h = [i \in 0..n |-> h[i]]
    OBVIOUS
  <2> HIDE DEF h
  <2> QED BY <2>1, <2>2
<1>6. f = Body(f)
  <2> HIDE DEF Body, h
  <2> QED BY <1>5
<1>7. f[n] = C(n)
  <2> HIDE DEF f
  <2> DEFINE S == {i \in 0..n : f[i] = C(i)}
  <2>1. ASSUME NEW i \in 0..n, i = 0 \/ i - 1 \in S  PROVE i \in S
    <3>1. f[i] = IF i = 0 THEN m ELSE [f[i - 1] EXCEPT ![dest + i - 1] = f[i - 1][src + i - 1]]
      BY <1>6
    <3>2. CASE i = 0
      BY <1>3, <3>1, <3>2
    <3>3. CASE i # 0
      <4>1. f[i - 1] = C(i - 1)
        BY <2>1, <3>3
      <4> QED BY <1>4, <3>1, <3>3, <4>1
    <3> QED BY <3>2, <3>3
  <2>2. \A i \in 0..n : i \in S
    <3>1. 0 \in Int /\ n \in Int
      OBVIOUS
    <3> HIDE DEF S
    <3> QED BY <2>1, <3>1, Upwards
  <2> QED BY <2>2
<1> QED BY <1>1, <1>7 DEF C

LEMMA CopyDownCopies ==
  ASSUME NEW m \in Memory, NEW dest \in Nat, NEW src \in Nat, NEW n \in Nat,
         dest + n <= SIZE, src + n <= SIZE, src < dest
  PROVE  CopyDown(m, dest, src, n) = Copied(m, dest, src, n)
<1> DEFINE Body(g) == [i \in 0..n |->
                         IF i = 0 THEN m
                         ELSE [g[i - 1] EXCEPT ![dest + n - i] = g[i - 1][src + n - i]]]
           f == CHOOSE g : g = Body(g)
           C(i) == Copied(m, dest + n - i, src + n - i, i)
           h == [i \in 0..n |-> C(i)]
<1>1. CopyDown(m, dest, src, n) = f[n]
  BY DEF CopyDown
<1>2. SIZE \in Nat
  BY ByteAssumption
<1>3. C(0) = m
  <2>1. m = [p \in Addr |-> m[p]]
    BY DEF Memory
  <2>2. (dest + n - 0)..(dest + n - 0)+0-1 = {}
    OBVIOUS
  <2> QED BY <2>1, <2>2 DEF Copied
<1>4. ASSUME NEW i \in 0..n, i # 0
      PROVE  i - 1 \in 0..n /\ C(i) = [C(i - 1) EXCEPT ![dest + n - i] = C(i - 1)[src + n - i]]
  <2> DEFINE d == dest + n - (i - 1)  s == src + n - (i - 1)
  <2>1. i - 1 \in 0..n /\ dest + n - i \in Addr /\ src + n - i \in Addr
    BY <1>2, <1>4 DEF Addr
  <2>2. src + n - i \notin d..d+(i-1)-1
    BY <1>4
  <2>3. C(i - 1)[src + n - i] = m[src + n - i]
    BY <2>1, <2>2 DEF Copied
  <2>4. [C(i - 1) EXCEPT ![dest + n - i] = C(i - 1)[src + n - i]] =
        [p \in Addr |-> IF p = dest + n - i THEN m[src + n - i] ELSE C(i - 1)[p]]
    BY <2>3 DEF Copied
  <2>5. ASSUME NEW p \in Addr
        PROVE  C(i)[p] = IF p = dest + n - i THEN m[src + n - i] ELSE C(i - 1)[p]
    <3>1. p \in Nat
      BY <1>2 DEF Addr
    <3>2. CASE p = dest + n - i
      <4>1. /\ p \in (dest + n - i)..(dest + n - i)+i-1
            /\ (src + n - i) + p - (dest + n - i) = src + n - i
        BY <1>4, <3>2
      <4> QED BY <3>2, <4>1 DEF Copied
    <3>3. CASE p # dest + n - i
      <4>1. p \in (dest + n - i)..(dest + n - i)+i-1 <=> p \in d..d+(i-1)-1
        BY <1>4, <3>1, <3>3
      <4>2. (src + n - i) + p - (dest + n - i) = s + p - d
        BY <1>4, <3>1
      <4> QED BY <3>3, <4>1, <4>2 DEF Copied
    <3> QED BY <3>2, <3>3
  <2>6. C(i) = [p \in Addr |-> C(i)[p]]
    BY DEF Copied
  <2> HIDE DEF C
  <2> QED BY <2>1, <2>4, <2>5, <2>6
<1>5. C(n) = Copied(m, dest, src, n)
  <2>1. dest + n - n = dest /\ src + n - n = src
    OBVIOUS
  <2> QED BY <2>1
<1> HIDE DEF C
<1>6. h = Body(h)
  <2>1. ASSUME NEW i \in 0..n
        PROVE  h[i] = IF i = 0 THEN m
                      ELSE [h[i - 1] EXCEPT ![dest + n - i] = h[i - 1][src + n - i]]
    BY <1>3, <1>4
  <2>2. h = [i \in 0..n |-> h[i]]
    OBVIOUS
  <2> HIDE DEF h
  <2> QED BY <2>1, <2>2
<1>7. f = Body(f)
  <2> HIDE DEF Body, h
  <2> QED BY <1>6
<1>8. f[n] = C(n)
  <2> HIDE DEF f
  <2> DEFINE S == {i \in 0..n : f[i] = C(i)}
  <2>1. ASSUME NEW i \in 0..n, i = 0 \/ i - 1 \in S  PROVE i \in S
    <3>1. f[i] = IF i = 0 THEN m ELSE [f[i - 1] EXCEPT ![dest + n - i] = f[i - 1][src + n - i]]
      BY <1>7
    <3>2. CASE i = 0
      BY <1>3, <3>1, <3>2
    <3>3. CASE i # 0
      <4>1. f[i - 1] = C(i - 1)
        BY <2>1, <3>3
      <4> QED BY <1>4, <3>1, <3>3, <4>1
    <3> QED BY <3>2, <3>3
  <2>2. \A i \in 0..n : i \in S
    <3>1. 0 \in Int /\ n \in Int
      OBVIOUS
    <3> HIDE DEF S
    <3> QED BY <2>1, <3>1, Upwards
  <2> QED BY <2>2
<1> QED BY <1>1, <1>5, <1>8

-----------------------------------------------------------------------------
(* SearchRight                                                             *)

LibOK == mem \in Memory /\ before \in Memory

Searches == {"memchr", "strchr", "strrchr", "strstr"}

LEMMA NoSearch ==
  ASSUME call'.fn \notin Searches  PROVE SearchRight'
BY DEF SearchRight, Searches

LEMMA MemchrRight ==
  ASSUME LibOK, NEW s \in Addr, NEW c \in Ints, NEW n \in 0..SIZE,
         Returns([fn |-> "memchr", s |-> s, c |-> c, n |-> n, ret |-> memchr(mem, s, c, n)], mem)
  PROVE  SearchRight'
<1>1. /\ call'.fn = "memchr" /\ call'.s = s /\ call'.c = c /\ call'.n = n
      /\ call'.ret = memchr(mem, s, c, n) /\ before' = mem
  BY DEF Returns
<1>2. memchr(mem, s, c, n) = FirstOf({p \in s..s+n-1 : mem[p] = UnsignedChar(c)})
  <2>1. s \in Int /\ n \in Nat
    BY ByteAssumption DEF Addr
  <2> QED BY <2>1, MemchrFinds
<1>3. call'.ret = FirstOf({p \in call'.s..call'.s+call'.n-1 : before'[p] = call'.c % 256})
  BY <1>1, <1>2 DEF UnsignedChar
<1> QED BY <1>1, <1>3 DEF SearchRight, Places, FirstOf

\* What strchr and strrchr find of a character below 128
LEMMA CharsLookedFor ==
  ASSUME NEW m \in Memory, NEW s \in Addr, NEW e, IsString(m, s, e), NEW c \in Ints,
         c % 256 < 128
  PROVE  {p \in s..e-1 : Char(m[p]) = UnsignedChar(c)} = {p \in Chars(m, s) : m[p] = c % 256}
<1>1. Chars(m, s) = s..e-1
  BY CharsAre
<1>2. c % 256 \in 0..255
  BY ByteAssumption
<1>3. ASSUME NEW p \in s..e-1
      PROVE  Char(m[p]) = UnsignedChar(c) <=> m[p] = c % 256
  <2>1. p \in Addr
    BY ByteAssumption DEF Addr, IsString
  <2>2. m[p] \in 0..255
    BY <2>1 DEF Memory
  <2> DEFINE u == m[p]  v == c % 256
  <2>3. u \in 0..255 /\ v \in 0..255 /\ v < 128
    BY <1>2, <2>2
  <2> HIDE DEF u, v
  <2>4. Char(u) = v <=> u = v
    BY <2>3 DEF Char
  <2> QED BY <2>4 DEF UnsignedChar, u, v
<1> QED BY <1>1, <1>3

LEMMA StrchrRight ==
  ASSUME LibOK, NEW s \in Addr, NEW c \in Ints, Terminated(s),
         Returns([fn |-> "strchr", s |-> s, c |-> c, ret |-> strchr(mem, s, c)], mem)
  PROVE  SearchRight'
<1>1. /\ call'.fn = "strchr" /\ call'.s = s /\ call'.c = c
      /\ call'.ret = strchr(mem, s, c) /\ before' = mem
  BY DEF Returns
<1>2. PICK e : IsString(mem, s, e)
  BY StringEnds DEF Terminated
<1>3. CASE c % 256 < 128
  <2>1. call'.ret = FirstOf({p \in Chars(mem, s) : mem[p] = c % 256})
    BY <1>1, <1>2, <1>3, StrchrFinds, CharsLookedFor DEF LibOK
  <2>2. Characters(s)' = Chars(mem, s)
    BY <1>1 DEF Characters, Chars
  <2>3. call'.ret = FirstOf({p \in Characters(call.s)' : before'[p] = call'.c % 256})
    BY <1>1, <2>1, <2>2
  <2> QED BY <1>1, <2>3 DEF SearchRight, Places, FirstOf, Characters
<1>4. CASE ~(c % 256 < 128)
  BY <1>1, <1>4 DEF SearchRight
<1> QED BY <1>3, <1>4

LEMMA StrrchrRight ==
  ASSUME LibOK, NEW s \in Addr, NEW c \in Ints, Terminated(s),
         Returns([fn |-> "strrchr", s |-> s, c |-> c, ret |-> strrchr(mem, s, c)], mem)
  PROVE  SearchRight'
<1>1. /\ call'.fn = "strrchr" /\ call'.s = s /\ call'.c = c
      /\ call'.ret = strrchr(mem, s, c) /\ before' = mem
  BY DEF Returns
<1>2. PICK e : IsString(mem, s, e)
  BY StringEnds DEF Terminated
<1>3. CASE c % 256 < 128
  <2>1. call'.ret = LastOf({p \in Chars(mem, s) : mem[p] = c % 256})
    BY <1>1, <1>2, <1>3, StrrchrFinds, CharsLookedFor DEF LibOK
  <2>2. Characters(s)' = Chars(mem, s)
    BY <1>1 DEF Characters, Chars
  <2>3. call'.ret = LastOf({p \in Characters(call.s)' : before'[p] = call'.c % 256})
    BY <1>1, <2>1, <2>2
  <2> QED BY <1>1, <2>3 DEF SearchRight, Places, LastOf, Characters
<1>4. CASE ~(c % 256 < 128)
  BY <1>1, <1>4 DEF SearchRight
<1> QED BY <1>3, <1>4

LEMMA StrstrRight ==
  ASSUME LibOK, NEW s \in Addr, NEW sub \in Addr, Terminated(s), Terminated(sub),
         Returns([fn |-> "strstr", s |-> s, sub |-> sub, ret |-> strstr(mem, s, sub)], mem)
  PROVE  SearchRight'
<1>1. /\ call'.fn = "strstr" /\ call'.s = s /\ call'.sub = sub
      /\ call'.ret = strstr(mem, s, sub) /\ before' = mem
  BY DEF Returns
<1>2. PICK e : IsString(mem, s, e)
  BY StringEnds DEF Terminated
<1>3. PICK z : IsString(mem, sub, z)
  BY StringEnds DEF Terminated
<1>4. s \in Nat /\ e \in Nat /\ sub \in Nat /\ z \in Nat
  BY <1>2, <1>3, ByteAssumption DEF Addr, IsString
<1>5. Length(s)' = e - s /\ Length(sub)' = z - sub
  <2>1. Characters(s)' = Chars(mem, s) /\ Characters(sub)' = Chars(mem, sub)
    BY <1>1 DEF Characters, Chars
  <2> QED BY <1>2, <1>3, <2>1, CharsAre DEF Length
<1>6. call'.ret = FirstOf(Matches(mem, s, e, sub, z))
  BY <1>1, <1>2, <1>3, StrstrFinds DEF LibOK
<1>7. s + (e - s) - (z - sub) = e - (z - sub)
  BY <1>4
<1>8. call'.ret = FirstOf({p \in call'.s..call'.s+Length(call.s)'-Length(call.sub)' :
                            \A i \in 0..Length(call.sub)'-1 :
                              before'[p + i] = before'[call'.sub + i]})
  BY <1>1, <1>5, <1>6, <1>7 DEF Matches
<1> QED BY <1>1, <1>8 DEF SearchRight, FirstOf, Length, Characters

-----------------------------------------------------------------------------
(* CompareRight                                                            *)

Compares == {"memcmp", "strcmp", "strncmp"}

LEMMA NoCompare ==
  ASSUME call'.fn \notin Compares  PROVE CompareRight'
BY DEF CompareRight, Compares

Agree(m, a, b, x)           == \A j \in 0..x-1 : m[a + j] = m[b + j]
Difference(m, a, b, shared) == FirstOf({i \in 0..shared-1 : m[a + i] # m[b + i]})

\* The first difference among shared bytes, from where the loop stopped
LEMMA FirstDifference ==
  ASSUME NEW m, NEW a \in Int, NEW b \in Int, NEW shared \in Nat, NEW x \in Nat,
         Agree(m, a, b, x), x >= shared \/ m[a + x] # m[b + x]
  PROVE  Difference(m, a, b, shared) = IF x >= shared THEN NULL ELSE x
<1> DEFINE D == {i \in 0..shared-1 : m[a + i] # m[b + i]}
<1>1. ASSUME NEW i \in D  PROVE x <= i
  <2>1. i \in Nat /\ m[a + i] # m[b + i]
    OBVIOUS
  <2>2. i < x => i \in 0..x-1
    BY <2>1
  <2> QED BY <2>1, <2>2 DEF Agree
<1>2. CASE x >= shared
  <2>1. D = {}
    BY <1>1, <1>2
  <2> QED BY <1>2, <2>1 DEF FirstOf, Difference
<1>3. CASE ~(x >= shared)
  <2>1. x \in D /\ D \in SUBSET Int
    BY <1>3
  <2>2. FirstOf(D) = x
    <3> HIDE DEF D
    <3> QED BY <1>1, <2>1, FirstIs
  <2> QED BY <1>3, <2>2 DEF Difference
<1> QED BY <1>2, <1>3

\* memcmp by unsigned bytes
LEMMA MemcmpDecides ==
  ASSUME NEW m \in Memory, NEW a \in Nat, NEW b \in Nat, NEW n \in Nat,
         a + n <= SIZE, b + n <= SIZE
  PROVE  /\ memcmp(m, a, b, n) = 0 <=> Difference(m, a, b, n) = NULL
         /\ memcmp(m, a, b, n) < 0 <=>
              /\ Difference(m, a, b, n) # NULL
              /\ m[a + Difference(m, a, b, n)] < m[b + Difference(m, a, b, n)]
<1>0. a \in Int /\ b \in Int /\ SIZE \in Nat
  BY ByteAssumption
<1>1. PICK x : ComparedTo(m, a, b, n, x)
  BY <1>0, MemcmpIs
<1>2. /\ x \in 0..n /\ (x = n \/ m[a + x] # m[b + x])
      /\ \A j \in 0..x-1 : m[a + j] = m[b + j]
      /\ memcmp(m, a, b, n) = IF x = n THEN 0 ELSE m[a + x] - m[b + x]
  BY <1>1 DEF ComparedTo
<1>3. x \in Nat /\ x <= n /\ (x >= n <=> x = n)
  BY <1>2
<1>4. Difference(m, a, b, n) = IF x >= n THEN NULL ELSE x
  <2>1. Agree(m, a, b, x)
    BY <1>2 DEF Agree
  <2> QED BY <1>0, <1>2, <1>3, <2>1, FirstDifference
<1>5. CASE x = n
  BY <1>2, <1>3, <1>4, <1>5
<1>6. CASE x # n
  <2>1. Difference(m, a, b, n) = x /\ x # NULL
    BY <1>3, <1>4, <1>6 DEF NULL
  <2>2. m[a + x] \in 0..255 /\ m[b + x] \in 0..255
    <3>1. a + x \in Addr /\ b + x \in Addr
      BY <1>0, <1>3, <1>6 DEF Addr
    <3> QED BY <3>1 DEF Memory
  <2> DEFINE u == m[a + x]  v == m[b + x]
  <2>3. u \in Int /\ v \in Int /\ u # v /\ memcmp(m, a, b, n) = u - v
    BY <1>2, <1>6, <2>2
  <2>4. u - v # 0 /\ (u - v < 0 <=> u < v)
    <3> HIDE DEF u, v
    <3> QED BY <2>3
  <2> QED BY <2>1, <2>3, <2>4
<1> QED BY <1>5, <1>6

\* The order of two bytes read as char
SignedLess(u, v) == (u > 127 /\ v < 128) \/ ((u > 127 <=> v > 127) /\ u < v)

\* strncmp by signed ones, among the characters both strings have
LEMMA StrncmpDecides ==
  ASSUME NEW m \in Memory, NEW a \in Addr, NEW e, IsString(m, a, e),
         NEW b \in Addr, NEW z, IsString(m, b, z), NEW n \in Nat, NEW k \in Nat,
         k <= n, k <= e - a, k <= z - b, k \in {n, e - a, z - b}
  PROVE  /\ strncmp(m, a, b, n) = 0 <=> Difference(m, a, b, k) = NULL
         /\ strncmp(m, a, b, n) < 0 <=>
              /\ Difference(m, a, b, k) # NULL
              /\ SignedLess(m[a + Difference(m, a, b, k)], m[b + Difference(m, a, b, k)])
<1>0. /\ a \in Int /\ b \in Int /\ a \in Nat /\ b \in Nat /\ SIZE \in Nat
      /\ e \in Nat /\ z \in Nat /\ a <= e /\ b <= z /\ e < SIZE /\ z < SIZE
  BY ByteAssumption DEF Addr, IsString
<1>1. PICK x : StringsComparedTo(m, a, b, n, x)
  BY <1>0, StrncmpIs
<1>2. /\ x \in 0..n /\ (x = n \/ m[a + x] = 0 \/ m[b + x] = 0 \/ m[a + x] # m[b + x])
      /\ \A j \in 0..x-1 : m[a + j] # 0 /\ m[b + j] # 0 /\ m[a + j] = m[b + j]
      /\ strncmp(m, a, b, n) =
           IF x = n \/ m[a + x] = 0 \/ m[b + x] = 0 THEN 0 ELSE Order(m[a + x], m[b + x])
  BY <1>1 DEF StringsComparedTo
<1>3. x \in Nat /\ x <= n
  BY <1>2
\* The loop has not passed the end of a string.
<1>4. x <= k
  <2>1. ASSUME x > k  PROVE FALSE
    <3>1. k \in 0..x-1 /\ k < n
      BY <1>3, <2>1
    <3>2. m[a + k] # 0 /\ m[b + k] # 0
      BY <1>2, <3>1
    <3>3. m[e] = 0 /\ m[z] = 0
      BY DEF IsString
    <3>4. k # e - a /\ k # z - b
      <4>1. k = e - a => a + k = e
        BY <1>0
      <4>2. k = z - b => b + k = z
        BY <1>0
      <4> QED BY <3>2, <3>3, <4>1, <4>2
    <3> QED BY <1>3, <3>1, <3>4
  <2> QED BY <1>3, <2>1
<1>5. x < k => /\ m[a + x] # 0 /\ m[b + x] # 0
               /\ a + x \in Addr /\ b + x \in Addr /\ x # n
  <2> SUFFICES ASSUME x < k
               PROVE  /\ m[a + x] # 0 /\ m[b + x] # 0
                      /\ a + x \in Addr /\ b + x \in Addr /\ x # n
    OBVIOUS
  <2>1. a + x \in a..e-1 /\ b + x \in b..z-1 /\ x # n
    BY <1>0, <1>3
  <2>2. a + x \in Addr /\ b + x \in Addr
    BY <1>0, <2>1 DEF Addr
  <2> QED BY <2>1, <2>2 DEF IsString
<1>6. Difference(m, a, b, k) = IF x >= k THEN NULL ELSE x
  <2>1. x >= k \/ m[a + x] # m[b + x]
    BY <1>2, <1>3, <1>5
  <2>2. Agree(m, a, b, x)
    BY <1>2 DEF Agree
  <2> QED BY <1>0, <1>3, <2>1, <2>2, FirstDifference
<1>7. CASE x = k
  <2>1. strncmp(m, a, b, n) = 0
    <3>1. k = e - a => a + k = e
      BY <1>0
    <3>2. k = z - b => b + k = z
      BY <1>0
    <3>3. m[e] = 0 /\ m[z] = 0
      BY DEF IsString
    <3> QED BY <1>2, <1>7, <3>1, <3>2, <3>3
  <2>2. Difference(m, a, b, k) = NULL
    BY <1>3, <1>6, <1>7
  <2> QED BY <2>1, <2>2
<1>8. CASE x # k
  <2>1. x < k
    BY <1>3, <1>4, <1>8
  <2>2. Difference(m, a, b, k) = x /\ x # NULL
    BY <1>3, <1>6, <2>1 DEF NULL
  <2>3. m[a + x] \in 0..255 /\ m[b + x] \in 0..255
    BY <1>5, <2>1 DEF Memory
  <2> DEFINE u == m[a + x]  v == m[b + x]
  <2>4. u \in 0..255 /\ v \in 0..255 /\ u # v /\ strncmp(m, a, b, n) = Order(u, v)
    BY <1>2, <1>5, <2>1, <2>3
  <2>5. Order(u, v) # 0 /\ (Order(u, v) < 0 <=> SignedLess(u, v))
    <3> HIDE DEF u, v
    <3> QED BY <2>4 DEF Order, Char, SignedLess
  <2> QED BY <2>2, <2>4, <2>5
<1> QED BY <1>7, <1>8

\* CompareRight in terms of Difference and SignedLess
SharedOf(n, la, lb) ==
  CHOOSE k \in 0..SIZE : k <= n /\ k <= la /\ k <= lb /\ k \in {n, la, lb}

Shared  == IF call.fn = "memcmp" THEN call.n ELSE SharedOf(call.n, Length(call.a), Length(call.b))
Differs == Difference(before, call.a, call.b, Shared)
Decided ==
  /\ call.ret = 0 <=> Differs = NULL
  /\ call.ret < 0 <=>
       /\ Differs # NULL
       /\ IF call.fn = "memcmp" THEN before[call.a + Differs] < before[call.b + Differs]
          ELSE SignedLess(before[call.a + Differs], before[call.b + Differs])

LEMMA CompareForm == CompareRight' <=> (call'.fn \in Compares => Decided')
BY DEF CompareRight, Compares, Decided, Differs, Shared, SharedOf, Difference, SignedLess

LEMMA SharedIs ==
  ASSUME NEW n \in 0..SIZE, NEW la \in 0..SIZE, NEW lb \in 0..SIZE
  PROVE  LET k == SharedOf(n, la, lb)
         IN k \in Nat /\ k <= n /\ k <= la /\ k <= lb /\ k \in {n, la, lb}
<1>1. \E k \in 0..SIZE : k <= n /\ k <= la /\ k <= lb /\ k \in {n, la, lb}
  <2>1. CASE n <= la /\ n <= lb
    BY <2>1
  <2>2. CASE la <= n /\ la <= lb
    BY <2>2
  <2>3. CASE lb <= n /\ lb <= la
    BY <2>3
  <2>4. n \in Nat /\ la \in Nat /\ lb \in Nat
    BY ByteAssumption
  <2> QED BY <2>1, <2>2, <2>3, <2>4
<1>2. LET k == SharedOf(n, la, lb)
      IN k \in 0..SIZE /\ k <= n /\ k <= la /\ k <= lb /\ k \in {n, la, lb}
  BY <1>1 DEF SharedOf
<1> QED BY <1>2, ByteAssumption

LEMMA MemcmpRight ==
  ASSUME LibOK, NEW a \in Addr, NEW b \in Addr, NEW n \in 0..SIZE, Fits(a, n), Fits(b, n),
         Returns([fn |-> "memcmp", a |-> a, b |-> b, n |-> n, ret |-> memcmp(mem, a, b, n)], mem)
  PROVE  CompareRight'
<1>1. /\ call'.fn = "memcmp" /\ call'.a = a /\ call'.b = b /\ call'.n = n
      /\ call'.ret = memcmp(mem, a, b, n) /\ before' = mem
  BY DEF Returns
<1>2. SIZE \in Nat /\ a \in Nat /\ b \in Nat /\ n \in Nat /\ a + n <= SIZE /\ b + n <= SIZE
  BY ByteAssumption DEF Addr, Fits
<1>3. /\ memcmp(mem, a, b, n) = 0 <=> Difference(mem, a, b, n) = NULL
      /\ memcmp(mem, a, b, n) < 0 <=>
           /\ Difference(mem, a, b, n) # NULL
           /\ mem[a + Difference(mem, a, b, n)] < mem[b + Difference(mem, a, b, n)]
  BY <1>2, MemcmpDecides DEF LibOK
<1>4. Differs' = Difference(mem, a, b, n)
  BY <1>1 DEF Differs, Shared, Difference
<1>5. Decided'
  BY <1>1, <1>3, <1>4 DEF Decided
<1> QED BY <1>5, CompareForm

\* strncmp and strcmp, which passes its own n on
LEMMA StringsRight ==
  ASSUME LibOK, NEW a \in Addr, NEW b \in Addr, NEW n \in 0..SIZE, NEW e, NEW z, NEW l \in Nat,
         IsString(mem, a, e), IsString(mem, b, z), NEW fn \in {"strncmp", "strcmp"},
         l = n \/ (n = SIZE /\ l = e - a + 1),
         Returns([fn |-> fn, a |-> a, b |-> b, n |-> n, ret |-> strncmp(mem, a, b, l)], mem)
  PROVE  CompareRight'
<1>1. /\ call'.fn = fn /\ call'.a = a /\ call'.b = b /\ call'.n = n
      /\ call'.ret = strncmp(mem, a, b, l) /\ before' = mem
  BY DEF Returns
<1>2. /\ SIZE \in Nat /\ a \in Nat /\ b \in Nat /\ n \in Nat /\ e \in Nat /\ z \in Nat
      /\ a <= e /\ b <= z /\ e < SIZE /\ z < SIZE
  BY ByteAssumption DEF Addr, IsString
<1>3. Length(call.a)' = e - a /\ Length(call.b)' = z - b
  <2>1. Characters(call.a)' = Chars(mem, a) /\ Characters(call.b)' = Chars(mem, b)
    BY <1>1 DEF Characters, Chars
  <2> QED BY <2>1, CharsAre DEF Length
<1> DEFINE k == SharedOf(n, e - a, z - b)
<1>4. k \in Nat /\ k <= n /\ k <= e - a /\ k <= z - b /\ k \in {n, e - a, z - b}
  <2>1. e - a \in 0..SIZE /\ z - b \in 0..SIZE
    BY <1>2
  <2> QED BY <2>1, SharedIs
<1>5. Shared' = k
  BY <1>1, <1>3 DEF Shared, SharedOf
<1> HIDE DEF k
<1>6. k <= l /\ k \in {l, e - a, z - b}
  BY <1>2, <1>4
<1>7. /\ strncmp(mem, a, b, l) = 0 <=> Difference(mem, a, b, k) = NULL
      /\ strncmp(mem, a, b, l) < 0 <=>
           /\ Difference(mem, a, b, k) # NULL
           /\ SignedLess(mem[a + Difference(mem, a, b, k)], mem[b + Difference(mem, a, b, k)])
  BY <1>4, <1>6, StrncmpDecides DEF LibOK
<1>8. Differs' = Difference(mem, a, b, k)
  BY <1>1, <1>5 DEF Differs, Difference
<1>9. Decided'
  BY <1>1, <1>7, <1>8 DEF Decided, SignedLess
<1> QED BY <1>9, CompareForm

-----------------------------------------------------------------------------
(* StoreRight                                                              *)

Stores == {"memcpy", "memmove", "strcpy", "strncpy"}
Reads  == {"memchr", "memcmp", "strchr", "strrchr", "strstr", "strcmp", "strncmp"}

\* Copied, with a terminator behind it if cut
Written(m, dest, src, n, cut) ==
  [p \in Addr |-> IF p \in dest..dest+n-1 THEN m[src + p - dest]
                  ELSE IF cut /\ p = dest + n THEN 0 ELSE m[p]]

Whole == Length(call.src) + 1
Count == IF call.fn \in {"strcpy", "strncpy"} /\ Whole < call.n THEN Whole ELSE call.n

Holds ==
  /\ call.ret = call.dest
  /\ \A p \in Addr :
       mem[p] = IF p \in call.dest..call.dest+Count-1 THEN before[call.src + p - call.dest]
                ELSE before[p]

LEMMA StoreForm ==
  StoreRight' <=> (call'.fn \in Stores => Holds') /\ (call'.fn \in Reads => mem' = before')
BY DEF StoreRight, Stores, Reads, Holds, Whole, Count

LEMMA NoStore ==
  ASSUME call'.fn \notin Stores, call'.fn \in Reads => mem' = before'  PROVE StoreRight'
BY StoreForm

LEMMA CopiedIs ==
  ASSUME NEW m, NEW dest, NEW src, NEW n
  PROVE  Copied(m, dest, src, n) = Written(m, dest, src, n, FALSE)
BY DEF Copied, Written

LEMMA WrittenType ==
  ASSUME NEW m \in Memory, NEW dest \in Nat, NEW src \in Nat, NEW n \in Nat, NEW cut,
         dest + n <= SIZE, src + n <= SIZE
  PROVE  Written(m, dest, src, n, cut) \in Memory
<1>1. SIZE \in Nat
  BY ByteAssumption
<1>2. ASSUME NEW p \in Addr
      PROVE  (IF p \in dest..dest+n-1 THEN m[src + p - dest]
              ELSE IF cut /\ p = dest + n THEN 0 ELSE m[p]) \in 0..255
  <2>1. p \in dest..dest+n-1 => src + p - dest \in Addr
    BY <1>1 DEF Addr
  <2> QED BY <2>1 DEF Memory
<1> QED BY <1>2 DEF Written, Memory

\* The call fn leaves what Holds says, if it writes what Written says there.
LEMMA StoredRight ==
  ASSUME NEW fn \in Stores, NEW dest \in Nat, NEW src \in Nat, NEW n \in Nat, NEW m,
         Returns([fn |-> fn, dest |-> dest, src |-> src, n |-> n, ret |-> dest], m),
         m = Written(mem, dest, src, Count', FALSE)
  PROVE  StoreRight'
<1>1. /\ call'.fn = fn /\ call'.dest = dest /\ call'.src = src /\ call'.n = n
      /\ call'.ret = dest /\ before' = mem /\ mem' = m
  BY DEF Returns
<1>2. ASSUME NEW p \in Addr
      PROVE  mem'[p] = IF p \in call'.dest..call'.dest+Count'-1
                       THEN before'[call'.src + p - call'.dest] ELSE before'[p]
  <2> DEFINE co == Count'
  <2>1. mem' = Written(mem, dest, src, co, FALSE)
    BY <1>1
  <2> HIDE DEF co
  <2>2. mem'[p] = IF p \in dest..dest+co-1 THEN mem[src + p - dest] ELSE mem[p]
    BY <2>1 DEF Written
  <2>3. mem'[p] = IF p \in call'.dest..call'.dest+co-1
                  THEN before'[call'.src + p - call'.dest] ELSE before'[p]
    BY <1>1, <2>2
  <2> QED BY <2>3 DEF co
<1>3. Holds'
  BY <1>1, <1>2 DEF Holds
<1>4. call'.fn \notin Reads
  BY <1>1 DEF Stores, Reads
<1> QED BY <1>3, <1>4, StoreForm

LEMMA MoveRight ==
  ASSUME LibOK, NEW dest \in Addr, NEW src \in Addr, NEW n \in 0..SIZE, NEW m,
         NEW fn \in {"memcpy", "memmove"}, Fits(dest, n), Fits(src, n),
         fn = "memcpy" => Apart(dest, src, n) /\ m = memcpy(mem, dest, src, n),
         fn = "memmove" => m = memmove(mem, dest, src, n),
         Returns([fn |-> fn, dest |-> dest, src |-> src, n |-> n, ret |-> dest], m)
  PROVE  StoreRight' /\ LibOK'
<1>1. call'.fn = fn /\ call'.dest = dest /\ call'.n = n /\ before' = mem /\ mem' = m
  BY DEF Returns
<1>2. /\ SIZE \in Nat /\ dest \in Nat /\ src \in Nat /\ n \in Nat
      /\ dest + n <= SIZE /\ src + n <= SIZE /\ mem \in Memory
  BY ByteAssumption DEF Addr, Fits, LibOK
<1>3. m = Copied(mem, dest, src, n)
  <2>1. CASE fn = "memcpy"
    <3>1. dest <= src \/ dest + n <= src \/ src + n <= dest
      BY <2>1 DEF Apart
    <3> QED BY <1>2, <2>1, <3>1, CopyUpCopies DEF memcpy
  <2>2. CASE fn = "memmove"
    <3>1. CASE dest <= src
      BY <1>2, <2>2, <3>1, CopyUpCopies DEF memmove
    <3>2. CASE ~(dest <= src)
      <4>1. src < dest
        BY <1>2, <3>2
      <4> QED BY <1>2, <2>2, <3>2, <4>1, CopyDownCopies DEF memmove
    <3> QED BY <3>1, <3>2
  <2> QED BY <2>1, <2>2
<1>4. m = Written(mem, dest, src, n, FALSE)
  BY <1>3, CopiedIs
<1>5. Count' = n
  BY <1>1 DEF Count
<1>6. StoreRight'
  BY <1>2, <1>4, <1>5, StoredRight DEF Stores
<1>7. m \in Memory
  BY <1>2, <1>4, WrittenType
<1> QED BY <1>1, <1>2, <1>6, <1>7 DEF LibOK

\* The length of a string that ends at e, after a call on mem
LEMMA LengthIs ==
  ASSUME before' = mem, NEW s \in Addr, NEW e, IsString(mem, s, e)
  PROVE  Length(s)' = e - s
<1>1. Characters(s)' = Chars(mem, s)
  BY DEF Characters, Chars
<1> QED BY <1>1, CharsAre DEF Length

LEMMA CopyStringRight ==
  ASSUME LibOK, NEW dest \in Addr, NEW src \in Addr, NEW n \in 0..SIZE, NEW m,
         NEW fn \in {"strcpy", "strncpy"}, Terminated(src), Room(dest, src, n),
         fn = "strcpy" => n = strlen(mem, src) + 1 /\ m = strcpy(mem, dest, src),
         fn = "strncpy" => m = strncpy(mem, dest, src, n),
         Returns([fn |-> fn, dest |-> dest, src |-> src, n |-> n, ret |-> dest], m)
  PROVE  StoreRight' /\ LibOK'
<1>1. /\ call'.fn = fn /\ call'.dest = dest /\ call'.src = src /\ call'.n = n
      /\ before' = mem /\ mem' = m
  BY DEF Returns
<1>2. PICK e : IsString(mem, src, e)
  BY StringEnds DEF Terminated
<1>3. /\ SIZE \in Nat /\ dest \in Nat /\ src \in Nat /\ n \in Nat /\ e \in Nat
      /\ src <= e /\ e < SIZE /\ dest + n <= SIZE /\ mem \in Memory
      /\ (dest + n <= src \/ src + n <= dest)
  BY <1>2, ByteAssumption DEF Addr, Fits, Room, Apart, LibOK, IsString
<1>4. strlen(mem, src) = e - src
  BY <1>2, <1>3, StrlenIs
<1> DEFINE len == IF n <= e - src THEN n ELSE e - src + 1
<1>5. m = CopyUp(mem, dest, src, len)
  <2>1. CASE fn = "strcpy"
    <3>1. n = e - src + 1
      BY <1>4, <2>1
    <3>2. ~(n <= e - src)
      BY <1>3, <3>1
    <3> QED BY <1>4, <2>1, <3>2 DEF strcpy
  <2>2. CASE fn = "strncpy"
    BY <1>2, <1>3, <2>2, UpToIs DEF strncpy
  <2> QED BY <2>1, <2>2
<1>6. /\ len \in Nat /\ len <= n /\ src + len <= SIZE /\ dest + len <= SIZE
      /\ (dest + len <= src \/ src + len <= dest)
  BY <1>3
<1>7. Count' = len
  <2>1. Length(src)' = e - src
    BY <1>1, <1>2, LengthIs
  <2>2. Length(call.src)' = Length(src)'
    BY <1>1 DEF Length, Characters
  <2>3. Whole' = e - src + 1
    BY <2>1, <2>2 DEF Whole
  <2>4. Count' = IF Whole' < n THEN Whole' ELSE n
    BY <1>1 DEF Count
  <2> QED BY <1>3, <2>3, <2>4
<1> HIDE DEF len
<1>8. m = Written(mem, dest, src, len, FALSE)
  BY <1>3, <1>5, <1>6, CopyUpCopies, CopiedIs
<1>9. StoreRight'
  BY <1>3, <1>7, <1>8, StoredRight DEF Stores
<1>10. m \in Memory
  BY <1>3, <1>6, <1>8, WrittenType
<1> QED BY <1>1, <1>3, <1>9, <1>10 DEF LibOK

\* strcat and strncat leave a memory of bytes.
LEMMA ConcatenateRight ==
  ASSUME LibOK, NEW dest \in Addr, NEW src \in Addr, NEW n \in 0..SIZE, NEW m,
         NEW fn \in {"strcat", "strncat"}, Terminated(src), Terminated(dest),
         Room(dest, src, strlen(mem, dest) + strlen(mem, src) + 2),
         fn = "strcat" => m = strcat(mem, dest, src),
         fn = "strncat" => m = strncat(mem, dest, src, n),
         Returns([fn |-> fn, dest |-> dest, src |-> src, n |-> n, ret |-> dest], m)
  PROVE  LibOK'
<1>1. /\ call'.fn = fn /\ call'.dest = dest /\ call'.src = src /\ call'.n = n
      /\ before' = mem /\ mem' = m
  BY DEF Returns
<1>2. PICK e : IsString(mem, src, e)
  BY StringEnds DEF Terminated
<1>3. PICK z : IsString(mem, dest, z)
  BY StringEnds DEF Terminated
<1>4. mem \in Memory /\ strlen(mem, src) = e - src /\ strlen(mem, dest) = z - dest
  BY <1>2, <1>3, StrlenIs DEF LibOK
<1>5. /\ SIZE \in Nat /\ dest \in Nat /\ src \in Nat /\ n \in Nat /\ e \in Nat /\ z \in Nat
      /\ src <= e /\ e < SIZE /\ dest <= z /\ z < SIZE
  BY <1>2, <1>3, ByteAssumption DEF Addr, IsString
<1>6. LET l == (z - dest) + (e - src) + 2
      IN dest + l <= SIZE /\ (dest + l <= src \/ src + l <= dest)
  BY <1>4 DEF Room, Fits, Apart
<1> DEFINE to  == z + 1
           len == IF fn = "strcat" \/ ~(n <= e - src) THEN e - src + 1 ELSE n
           cut == fn = "strncat" /\ n \in 1..e-src
<1>7. dest + (z - dest) + 1 = to
  BY <1>5
<1>8. /\ len \in Nat /\ to \in Nat /\ src + len <= SIZE /\ to + len <= SIZE
      /\ (to + len <= src \/ src + len <= to)
  BY <1>5, <1>6
<1>10. CopyUp(mem, to, src, len) = Written(mem, to, src, len, FALSE)
  <2> HIDE DEF to, len
  <2> QED BY <1>4, <1>5, <1>8, CopyUpCopies, CopiedIs
<1>11. m = Written(mem, to, src, len, cut)
  <2>1. CASE fn = "strcat"
    <3>1. m = CopyUp(mem, to, src, len)
      BY <1>4, <1>7, <2>1 DEF strcat, strcpy
    <3>2. cut = FALSE
      BY <2>1
    <3> QED BY <1>10, <3>1, <3>2
  <2>2. CASE fn = "strncat" /\ n = 0
    <3>1. m = mem
      BY <2>2 DEF strncat
    <3>2. len = 0 /\ cut = FALSE
      BY <1>5, <2>2
    <3>3. to..to+0-1 = {}
      BY <1>5
    <3>4. mem = [p \in Addr |-> mem[p]]
      BY <1>4 DEF Memory
    <3> HIDE DEF to, len, cut
    <3> QED BY <3>1, <3>2, <3>3, <3>4 DEF Written
  <2>3. CASE fn = "strncat" /\ n # 0
    <3>1. UpTo(mem, src, n) = len
      <4>1. UpTo(mem, src, n) = IF n <= e - src THEN n ELSE e - src + 1
        BY <1>2, <1>5, UpToIs
      <4> QED BY <2>3, <4>1
    <3>2. m = IF mem[src + len - 1] = 0 THEN CopyUp(mem, to, src, len)
              ELSE [CopyUp(mem, to, src, len) EXCEPT ![to + len] = 0]
      <4> HIDE DEF len
      <4> QED BY <1>4, <1>7, <2>3, <3>1 DEF strncat
    <3>3. CASE n <= e - src
      <4>1. len = n /\ cut = TRUE /\ src + len - 1 \in src..e-1
        BY <1>5, <2>3, <3>3
      <4>2. mem[src + len - 1] # 0
        BY <1>2, <4>1 DEF IsString
      <4>3. to + len \in Addr /\ to + len \notin to..to+len-1
        BY <1>5, <1>6, <4>1 DEF Addr
      <4> HIDE DEF len, to, cut
      <4> QED BY <1>10, <3>2, <4>1, <4>2, <4>3 DEF Written
    <3>4. CASE ~(n <= e - src)
      <4>1. len = e - src + 1 /\ cut = FALSE /\ src + len - 1 = e
        BY <1>5, <3>4
      <4>2. mem[src + len - 1] = 0
        BY <1>2, <4>1 DEF IsString
      <4> HIDE DEF len, to, cut
      <4> QED BY <1>10, <3>2, <4>1, <4>2
    <3> QED BY <3>3, <3>4
  <2> QED BY <2>1, <2>2, <2>3
<1> HIDE DEF to, len, cut
<1>12. m \in Memory
  BY <1>4, <1>5, <1>8, <1>11, WrittenType
<1> QED BY <1>1, <1>4, <1>12 DEF LibOK

-----------------------------------------------------------------------------
(* Every step                                                              *)

\* A call that only reads, and is none of the searches and comparisons
LEMMA OtherCall ==
  ASSUME LibOK, NEW c, c.fn \notin Searches, c.fn \notin Compares, c.fn \notin Stores,
         Returns(c, mem)
  PROVE  LibOK' /\ SearchRight' /\ CompareRight' /\ StoreRight'
<1>1. call' = c /\ before' = mem /\ mem' = mem
  BY DEF Returns
<1> QED BY <1>1, NoSearch, NoCompare, NoStore DEF LibOK

StringsOK == LibOK /\ SearchRight /\ CompareRight /\ StoreRight

\* A call that reads: the memory is the one before it.
LEMMA ReadCall ==
  ASSUME LibOK, NEW c, c.fn \in Reads, Returns(c, mem)
  PROVE  /\ LibOK' /\ StoreRight'
         /\ c.fn \notin Searches => SearchRight'
         /\ c.fn \notin Compares => CompareRight'
<1>1. call' = c /\ before' = mem /\ mem' = mem
  BY DEF Returns
<1>2. c.fn \notin Stores
  BY DEF Stores, Reads
<1> QED BY <1>1, <1>2, NoSearch, NoCompare, NoStore DEF LibOK

LEMMA SearchStep ==
  ASSUME LibOK, Search  PROVE StringsOK'
<1>1. PICK s \in Addr, c \in Ints, n \in 0..SIZE :
        \/ /\ Fits(s, n)
           /\ Returns([fn |-> "memchr", s |-> s, c |-> c, n |-> n, ret |-> memchr(mem, s, c, n)], mem)
        \/ /\ Terminated(s)
           /\ \/ Returns([fn |-> "strchr", s |-> s, c |-> c, ret |-> strchr(mem, s, c)], mem)
              \/ Returns([fn |-> "strrchr", s |-> s, c |-> c, ret |-> strrchr(mem, s, c)], mem)
  BY DEF Search
<1> DEFINE c1 == [fn |-> "memchr", s |-> s, c |-> c, n |-> n, ret |-> memchr(mem, s, c, n)]
           c2 == [fn |-> "strchr", s |-> s, c |-> c, ret |-> strchr(mem, s, c)]
           c3 == [fn |-> "strrchr", s |-> s, c |-> c, ret |-> strrchr(mem, s, c)]
<1>2. \A d \in {c1, c2, c3} : d.fn \in Reads /\ d.fn \notin Compares
  BY DEF Reads, Compares
<1>3. CASE Returns(c1, mem)
  <2>1. SearchRight'
    BY <1>3, MemchrRight
  <2> HIDE DEF c1
  <2> QED BY <1>2, <1>3, <2>1, ReadCall DEF StringsOK
<1>4. CASE Terminated(s) /\ Returns(c2, mem)
  <2>1. SearchRight'
    BY <1>4, StrchrRight
  <2> HIDE DEF c2
  <2> QED BY <1>2, <1>4, <2>1, ReadCall DEF StringsOK
<1>5. CASE Terminated(s) /\ Returns(c3, mem)
  <2>1. SearchRight'
    BY <1>5, StrrchrRight
  <2> HIDE DEF c3
  <2> QED BY <1>2, <1>5, <2>1, ReadCall DEF StringsOK
<1> QED BY <1>1, <1>3, <1>4, <1>5

LEMMA SubstringStep ==
  ASSUME LibOK, Substring  PROVE StringsOK'
<1>1. PICK s \in Addr, sub \in Addr :
        /\ Terminated(s) /\ Terminated(sub)
        /\ Returns([fn |-> "strstr", s |-> s, sub |-> sub, ret |-> strstr(mem, s, sub)], mem)
  BY DEF Substring
<1> DEFINE c == [fn |-> "strstr", s |-> s, sub |-> sub, ret |-> strstr(mem, s, sub)]
<1>2. SearchRight'
  BY <1>1, StrstrRight
<1>3. c.fn \in Reads /\ c.fn \notin Compares
  BY DEF Reads, Compares
<1> HIDE DEF c
<1> QED BY <1>1, <1>2, <1>3, ReadCall DEF StringsOK, c

LEMMA CompareStep ==
  ASSUME LibOK, Compare  PROVE StringsOK'
<1>1. PICK a \in Addr, b \in Addr, n \in 0..SIZE :
        \/ /\ Fits(a, n) /\ Fits(b, n)
           /\ Returns([fn |-> "memcmp", a |-> a, b |-> b, n |-> n, ret |-> memcmp(mem, a, b, n)], mem)
        \/ /\ Terminated(a) /\ Terminated(b)
           /\ \/ Returns([fn |-> "strncmp", a |-> a, b |-> b, n |-> n,
                          ret |-> strncmp(mem, a, b, n)], mem)
              \/ /\ n = SIZE
                 /\ Returns([fn |-> "strcmp", a |-> a, b |-> b, n |-> n,
                             ret |-> strcmp(mem, a, b)], mem)
  BY DEF Compare
<1> DEFINE c1 == [fn |-> "memcmp", a |-> a, b |-> b, n |-> n, ret |-> memcmp(mem, a, b, n)]
           c2 == [fn |-> "strncmp", a |-> a, b |-> b, n |-> n, ret |-> strncmp(mem, a, b, n)]
           c3 == [fn |-> "strcmp", a |-> a, b |-> b, n |-> n, ret |-> strcmp(mem, a, b)]
<1>2. \A d \in {c1, c2, c3} : d.fn \in Reads /\ d.fn \notin Searches
  BY DEF Reads, Searches
<1>3. n \in Nat
  BY ByteAssumption
<1>4. CASE Fits(a, n) /\ Fits(b, n) /\ Returns(c1, mem)
  <2>1. CompareRight'
    BY <1>4, MemcmpRight
  <2> HIDE DEF c1
  <2> QED BY <1>2, <1>4, <2>1, ReadCall DEF StringsOK
<1>5. CASE Terminated(a) /\ Terminated(b) /\ Returns(c2, mem)
  <2>1. PICK e, z : IsString(mem, a, e) /\ IsString(mem, b, z)
    BY <1>5, StringEnds DEF Terminated
  <2>2. CompareRight'
    BY <1>3, <1>5, <2>1, StringsRight
  <2> HIDE DEF c2
  <2> QED BY <1>2, <1>5, <2>2, ReadCall DEF StringsOK
<1>6. CASE Terminated(a) /\ Terminated(b) /\ n = SIZE /\ Returns(c3, mem)
  <2>1. PICK e, z : IsString(mem, a, e) /\ IsString(mem, b, z)
    BY <1>6, StringEnds DEF Terminated
  <2>2. strlen(mem, a) = e - a
    BY <2>1, StrlenIs DEF LibOK
  <2> DEFINE l == e - a + 1
  <2>3. strcmp(mem, a, b) = strncmp(mem, a, b, l)
    BY <2>2 DEF strcmp
  <2>4. l \in Nat
    BY <2>1, ByteAssumption DEF IsString, Addr
  <2>5. Returns([fn |-> "strcmp", a |-> a, b |-> b, n |-> n, ret |-> strncmp(mem, a, b, l)], mem)
    <3> HIDE DEF l
    <3> QED BY <1>6, <2>3
  <2>6. CompareRight'
    BY <1>6, <2>1, <2>4, <2>5, StringsRight
  <2> HIDE DEF c3
  <2> QED BY <1>2, <1>6, <2>6, ReadCall DEF StringsOK
<1> QED BY <1>1, <1>4, <1>5, <1>6

\* A call that stores is no search and no comparison.
LEMMA StoreCall ==
  ASSUME call'.fn \in Stores  PROVE SearchRight' /\ CompareRight'
<1>1. call'.fn \notin Searches /\ call'.fn \notin Compares
  BY DEF Stores, Searches, Compares
<1> QED BY <1>1, NoSearch, NoCompare

LEMMA MoveStep ==
  ASSUME LibOK, Move  PROVE StringsOK'
<1> DEFINE C(fn, dest, src, n) == [fn |-> fn, dest |-> dest, src |-> src, n |-> n, ret |-> dest]
<1>1. PICK dest \in Addr, src \in Addr, n \in 0..SIZE :
        /\ Fits(dest, n) /\ Fits(src, n)
        /\ \/ Apart(dest, src, n) /\ Returns(C("memcpy", dest, src, n), memcpy(mem, dest, src, n))
           \/ Returns(C("memmove", dest, src, n), memmove(mem, dest, src, n))
  BY DEF Move
<1>2. CASE Apart(dest, src, n) /\ Returns(C("memcpy", dest, src, n), memcpy(mem, dest, src, n))
  <2>1. StoreRight' /\ LibOK'
    BY <1>1, <1>2, MoveRight
  <2>2. call'.fn \in Stores
    BY <1>2 DEF Returns, Stores
  <2> QED BY <2>1, <2>2, StoreCall DEF StringsOK
<1>3. CASE Returns(C("memmove", dest, src, n), memmove(mem, dest, src, n))
  <2>1. StoreRight' /\ LibOK'
    BY <1>1, <1>3, MoveRight
  <2>2. call'.fn \in Stores
    BY <1>3 DEF Returns, Stores
  <2> QED BY <2>1, <2>2, StoreCall DEF StringsOK
<1> QED BY <1>1, <1>2, <1>3

LEMMA FillStep ==
  ASSUME LibOK, Fill  PROVE StringsOK'
<1>1. PICK s \in Addr, c \in Ints, n \in 0..SIZE :
        \E ret \in memset_returns(s, n) :
          Returns([fn |-> "memset", dest |-> s, c |-> c, n |-> n, ret |-> ret], memset(mem, s, c, n))
  BY DEF Fill
<1>2. call'.fn = "memset" /\ before' = mem /\ mem' = memset(mem, s, c, n)
  BY <1>1 DEF Returns
<1>3. UnsignedChar(c) \in 0..255
  BY ByteAssumption DEF UnsignedChar
<1>4. memset(mem, s, c, n) \in Memory
  BY <1>3 DEF memset, LibOK, Memory
<1>5. call'.fn \notin Searches \cup Compares \cup Stores \cup Reads
  BY <1>2 DEF Searches, Compares, Stores, Reads
<1> QED BY <1>2, <1>4, <1>5, NoSearch, NoCompare, NoStore DEF LibOK, StringsOK

LEMMA CopyStringStep ==
  ASSUME LibOK, CopyString  PROVE StringsOK'
<1> DEFINE C(fn, dest, src, n) == [fn |-> fn, dest |-> dest, src |-> src, n |-> n, ret |-> dest]
<1>1. PICK dest \in Addr, src \in Addr, n \in 0..SIZE :
        /\ Terminated(src) /\ Room(dest, src, n)
        /\ \/ /\ n = strlen(mem, src) + 1
              /\ Returns(C("strcpy", dest, src, n), strcpy(mem, dest, src))
           \/ Returns(C("strncpy", dest, src, n), strncpy(mem, dest, src, n))
  BY DEF CopyString
<1>2. CASE n = strlen(mem, src) + 1 /\ Returns(C("strcpy", dest, src, n), strcpy(mem, dest, src))
  <2>1. StoreRight' /\ LibOK'
    BY <1>1, <1>2, CopyStringRight
  <2>2. call'.fn \in Stores
    BY <1>2 DEF Returns, Stores
  <2> QED BY <2>1, <2>2, StoreCall DEF StringsOK
<1>3. CASE Returns(C("strncpy", dest, src, n), strncpy(mem, dest, src, n))
  <2>1. StoreRight' /\ LibOK'
    BY <1>1, <1>3, CopyStringRight
  <2>2. call'.fn \in Stores
    BY <1>3 DEF Returns, Stores
  <2> QED BY <2>1, <2>2, StoreCall DEF StringsOK
<1> QED BY <1>1, <1>2, <1>3

LEMMA ConcatenateStep ==
  ASSUME LibOK, Concatenate  PROVE StringsOK'
<1> DEFINE C(fn, dest, src, n) == [fn |-> fn, dest |-> dest, src |-> src, n |-> n, ret |-> dest]
<1>1. PICK dest \in Addr, src \in Addr, n \in 0..SIZE :
        /\ Terminated(src) /\ Terminated(dest)
        /\ Room(dest, src, strlen(mem, dest) + strlen(mem, src) + 2)
        /\ \/ Returns(C("strcat", dest, src, n), strcat(mem, dest, src))
           \/ Returns(C("strncat", dest, src, n), strncat(mem, dest, src, n))
  BY DEF Concatenate
<1>2. CASE Returns(C("strcat", dest, src, n), strcat(mem, dest, src))
  <2>1. LibOK'
    BY <1>1, <1>2, ConcatenateRight
  <2>2. call'.fn = "strcat"
    BY <1>2 DEF Returns
  <2>3. call'.fn \notin Searches \cup Compares \cup Stores \cup Reads
    BY <2>2 DEF Searches, Compares, Stores, Reads
  <2> QED BY <2>1, <2>3, NoSearch, NoCompare, NoStore DEF StringsOK
<1>3. CASE Returns(C("strncat", dest, src, n), strncat(mem, dest, src, n))
  <2>1. LibOK'
    BY <1>1, <1>3, ConcatenateRight
  <2>2. call'.fn = "strncat"
    BY <1>3 DEF Returns
  <2>3. call'.fn \notin Searches \cup Compares \cup Stores \cup Reads
    BY <2>2 DEF Searches, Compares, Stores, Reads
  <2> QED BY <2>1, <2>3, NoSearch, NoCompare, NoStore DEF StringsOK
<1> QED BY <1>1, <1>2, <1>3

-----------------------------------------------------------------------------
(* multiboot2_parser.c                                                     *)

IsPlace(g, tags, n) ==
  g = [i \in 1..n |->
         IF i = 1 THEN 0
         ELSE CHOOSE o \in g[i-1] + tags[i-1].size .. g[i-1] + tags[i-1].size + 7 : o % 8 = 0]

\* The places of the first k tags exist, for one k after the other.
LEMMA PlaceExists ==
  ASSUME NEW tags, NEW n \in Nat \ {0}
  PROVE  \E g : IsPlace(g, tags, n)
<1> DEFINE S == {k \in 1..n : \E g : IsPlace(g, tags, k)}
           After(x, i) == CHOOSE o \in x + tags[i-1].size .. x + tags[i-1].size + 7 : o % 8 = 0
<1>1. ASSUME NEW k \in 1..n, k = 1 \/ k - 1 \in S  PROVE k \in S
  <2>1. CASE k = 1
    <3> DEFINE g == [i \in 1..1 |-> 0]
    <3>1. \A i \in 1..1 : i = 1
      OBVIOUS
    <3>2. IsPlace(g, tags, 1)
      BY <3>1 DEF IsPlace
    <3> QED BY <2>1, <3>2
  <2>2. CASE k # 1
    <3>1. PICK g : IsPlace(g, tags, k - 1)
      BY <1>1, <2>2
    <3> DEFINE h == [i \in 1..k |-> IF i = k THEN After(g[k-1], k) ELSE g[i]]
    <3>2. ASSUME NEW i \in 1..k
          PROVE  h[i] = IF i = 1 THEN 0 ELSE After(h[i-1], i)
      <4>1. i \in 1..k-1 => g[i] = IF i = 1 THEN 0 ELSE After(g[i-1], i)
        BY <3>1 DEF IsPlace
      <4> HIDE DEF After
      <4>2. i # 1 => i - 1 \in 1..k /\ i - 1 # k /\ h[i-1] = g[i-1]
        OBVIOUS
      <4> QED BY <2>2, <4>1, <4>2
    <3>3. h = [i \in 1..k |-> h[i]]
      OBVIOUS
    <3>4. IsPlace(h, tags, k)
      <4> HIDE DEF h
      <4> QED BY <3>2, <3>3 DEF IsPlace
    <3> HIDE DEF h
    <3> QED BY <3>4
  <2> QED BY <2>1, <2>2
<1>2. \A k \in 1..n : k \in S
  <2>1. 1 \in Int /\ n \in Int
    OBVIOUS
  <2> HIDE DEF S
  <2> QED BY <1>1, <2>1, Upwards
<1> QED BY <1>2

\* The next multiple of 8 behind a tag is one stride away.
LEMMA AlignedIs ==
  ASSUME NEW b \in Nat, b % 8 = 0, NEW s \in Nat \ {0}
  PROVE  /\ (CHOOSE o \in b + s .. b + s + 7 : o % 8 = 0) = b + Stride(s)
         /\ Stride(s) \in Nat \ {0} /\ (b + Stride(s)) % 8 = 0
<1> DEFINE q == (s + 7) \div 8
<1>1. q \in Int /\ 8 * q <= s + 7 /\ s + 7 < 8 * q + 8
  OBVIOUS
<1>2. Stride(s) = 8 * q
  BY DEF Stride
<1> HIDE DEF q
<1>3. PICK c \in Int : b = 8 * c
  <2>1. b = 8 * (b \div 8) + (b % 8)
    OBVIOUS
  <2> QED BY <2>1
<1>4. (b + 8 * q) % 8 = 0 /\ b + 8 * q \in b + s .. b + s + 7 /\ 8 * q \in Nat \ {0}
  BY <1>1, <1>3
<1>5. ASSUME NEW o \in b + s .. b + s + 7, o % 8 = 0  PROVE o = b + 8 * q
  <2>1. PICK d \in Int : o = 8 * d
    <3>1. o = 8 * (o \div 8) + (o % 8)
      OBVIOUS
    <3> QED BY <1>5, <3>1
  <2>2. 8 * c + s <= 8 * d /\ 8 * d <= 8 * c + s + 7
    BY <1>3, <2>1
  <2>3. d = c + q
    BY <1>1, <2>2
  <2> QED BY <1>1, <1>3, <2>1, <2>3
<1>6. (CHOOSE o \in b + s .. b + s + 7 : o % 8 = 0) = b + 8 * q
  <2> DEFINE x == CHOOSE o \in b + s .. b + s + 7 : o % 8 = 0
  <2>1. x \in b + s .. b + s + 7 /\ x % 8 = 0
    BY <1>4
  <2> HIDE DEF x
  <2>2. x = b + 8 * q
    BY <1>5, <2>1
  <2> QED BY <2>2 DEF x
<1> QED BY <1>2, <1>4, <1>6

\* A list of tags as the loader passes it
IsInfo(tags) ==
  /\ Len(tags) \in Nat \ {0} /\ DOMAIN tags = 1..Len(tags)
  /\ \A i \in 1..Len(tags) :
       /\ tags[i].size \in Nat \ {0}
       /\ tags[i].type = MULTIBOOT_TAG_TYPE_END <=> i = Len(tags)

LEMMA InfosAre == \A tags \in Infos : IsInfo(tags)
BY InfoAssumption DEF IsInfo

\* Place puts the tags in order, each one stride behind its predecessor.
Placed(place, tags) ==
  /\ place[1] = 0
  /\ \A i \in 1..Len(tags) : place[i] \in Nat
  /\ \A i \in 1..Len(tags)-1 : place[i + 1] = place[i] + Stride(tags[i].size)
  /\ \A i \in 1..Len(tags) : \A j \in 1..i-1 : place[j] < place[i]

LEMMA PlaceIs ==
  ASSUME NEW tags, IsInfo(tags)
  PROVE  Placed(Place(tags), tags)
<1> DEFINE n == Len(tags)
           f == CHOOSE g : g = [i \in 1..Len(tags) |->
                  IF i = 1 THEN 0
                  ELSE CHOOSE o \in g[i-1] + tags[i-1].size .. g[i-1] + tags[i-1].size + 7 :
                         o % 8 = 0]
<1>0. n \in Nat \ {0}
  BY DEF IsInfo
<1>1. Place(tags) = f
  BY DEF Place
<1>2. f = CHOOSE g : IsPlace(g, tags, n)
  BY DEF IsPlace
<1>3. IsPlace(f, tags, n)
  <2> HIDE DEF f, n
  <2> QED BY <1>0, <1>2, PlaceExists
<1> HIDE DEF f, n
<1>4. f[1] = 0
  BY <1>0, <1>3 DEF IsPlace
<1> DEFINE Aligned(x) == x \in Nat /\ x % 8 = 0
<1>5. ASSUME NEW i \in 1..n, i # 1, Aligned(f[i-1])
      PROVE  Aligned(f[i]) /\ f[i] = f[i-1] + Stride(tags[i-1].size) /\ f[i-1] < f[i]
  <2> DEFINE b == f[i-1]  s == tags[i-1].size
  <2>1. i - 1 \in 1..n
    BY <1>0, <1>5
  <2>2. s \in Nat \ {0}
    BY <2>1 DEF IsInfo, n
  <2>3. f[i] = CHOOSE o \in b + s .. b + s + 7 : o % 8 = 0
    BY <1>3, <1>5 DEF IsPlace
  <2>4. b \in Nat /\ b % 8 = 0
    BY <1>5
  <2> HIDE DEF b, s
  <2>5. f[i] = b + Stride(s) /\ Stride(s) \in Nat \ {0} /\ (b + Stride(s)) % 8 = 0
    BY <2>2, <2>3, <2>4, AlignedIs
  <2>6. b + Stride(s) \in Nat /\ b < b + Stride(s)
    BY <2>4, <2>5
  <2> QED BY <2>5, <2>6 DEF b, s
<1>6. \A i \in 1..n : Aligned(f[i])
  <2> DEFINE S == {i \in 1..n : Aligned(f[i])}
  <2>1. Aligned(f[1])
    BY <1>4
  <2>2. ASSUME NEW i \in 1..n, i = 1 \/ i - 1 \in S  PROVE i \in S
    BY <1>5, <2>1, <2>2
  <2>3. 1 \in Int /\ n \in Int
    BY <1>0
  <2>4. \A i \in 1..n : i \in S
    <3> HIDE DEF S
    <3> QED BY <2>2, <2>3, Upwards
  <2> QED BY <2>4
<1>7. ASSUME NEW i \in 1..n-1  PROVE f[i + 1] = f[i] + Stride(tags[i].size) /\ f[i] < f[i + 1]
  <2> DEFINE k == i + 1
  <2>1. k \in 1..n /\ k # 1 /\ k - 1 = i /\ i \in 1..n
    BY <1>0
  <2>2. Aligned(f[k - 1])
    BY <1>6, <2>1
  <2> HIDE DEF k
  <2>3. f[k] = f[k-1] + Stride(tags[k-1].size) /\ f[k-1] < f[k]
    BY <1>5, <2>1, <2>2
  <2> QED BY <2>1, <2>3 DEF k
<1>8. ASSUME NEW i \in 1..n  PROVE \A j \in 1..i-1 : f[j] < f[i]
  <2> DEFINE S == {k \in 1..n : \A j \in 1..k-1 : f[j] < f[k]}
  <2>1. ASSUME NEW k \in 1..n, k = 1 \/ k - 1 \in S  PROVE k \in S
    <3>1. CASE k = 1
      BY <3>1
    <3>2. CASE k # 1
      <4>1. PICK p \in 1..n-1 : k = p + 1
        BY <1>0, <3>2
      <4>2. f[p] < f[k] /\ f[p] \in Nat /\ f[k] \in Nat
        BY <1>0, <1>6, <1>7, <4>1
      <4>3. ASSUME NEW j \in 1..k-1  PROVE f[j] < f[k]
        <5>1. CASE j = p
          BY <4>2, <5>1
        <5>2. CASE j # p
          <6>1. j \in 1..p-1 /\ j \in 1..n /\ p \in S
            BY <1>0, <2>1, <3>2, <4>1, <5>2
          <6>2. f[j] < f[p] /\ f[j] \in Nat
            BY <1>6, <6>1
          <6> QED BY <4>2, <6>2
        <5> QED BY <5>1, <5>2
      <4> QED BY <4>3
    <3> QED BY <3>1, <3>2
  <2>2. 1 \in Int /\ n \in Int
    BY <1>0
  <2>3. \A k \in 1..n : k \in S
    <3> HIDE DEF S
    <3> QED BY <2>1, <2>2, Upwards
  <2> QED BY <2>3
<1> QED BY <1>0, <1>1, <1>4, <1>6, <1>7, <1>8 DEF Placed, n

At(place, tags, o) == CHOOSE j \in DOMAIN tags : place[j] = o

IsWalk(g, place, tags, t) ==
  g = [o \in 0..place[Len(tags)] + 8 |->
         IF \A i \in DOMAIN tags : place[i] # o THEN 0
         ELSE IF tags[At(place, tags, o)].type = MULTIBOOT_TAG_TYPE_END THEN NO_TAG
         ELSE IF tags[At(place, tags, o)].type = t THEN At(place, tags, o)
         ELSE g[o + Stride(tags[At(place, tags, o)].size)]]

\* The first tag of type t from i on
TagFrom(tags, t, i) == FirstOf({j \in i..Len(tags) : tags[j].type = t})

LEMMA TagFromStep ==
  ASSUME NEW tags, IsInfo(tags), NEW t, t # MULTIBOOT_TAG_TYPE_END, NEW i \in 1..Len(tags)
  PROVE  TagFrom(tags, t, i) =
           IF tags[i].type = MULTIBOOT_TAG_TYPE_END THEN NO_TAG
           ELSE IF tags[i].type = t THEN i ELSE TagFrom(tags, t, i + 1)
<1> DEFINE n == Len(tags)  F == {j \in i..n : tags[j].type = t}
<1>0. n \in Nat /\ i \in Int /\ (tags[i].type = MULTIBOOT_TAG_TYPE_END <=> i = n)
  <2>1. n \in Nat /\ i \in 1..n /\ (tags[i].type = MULTIBOOT_TAG_TYPE_END <=> i = n)
    BY DEF IsInfo
  <2> HIDE DEF n
  <2> QED BY <2>1
<1>1. CASE tags[i].type = MULTIBOOT_TAG_TYPE_END
  <2>1. \A j \in i..n : j = i
    BY <1>0, <1>1
  <2>2. F = {}
    BY <1>1, <2>1
  <2> QED BY <1>1, <2>2 DEF TagFrom, FirstOf, NULL, NO_TAG
<1>2. CASE tags[i].type # MULTIBOOT_TAG_TYPE_END /\ tags[i].type = t
  <2>1. i \in F /\ F \in SUBSET Int /\ \A j \in F : i <= j
    BY <1>0, <1>2
  <2>2. FirstOf(F) = i
    <3> HIDE DEF F
    <3> QED BY <2>1, FirstIs
  <2> QED BY <1>2, <2>2 DEF TagFrom
<1>3. CASE tags[i].type # MULTIBOOT_TAG_TYPE_END /\ tags[i].type # t
  <2>1. ASSUME NEW j \in i..n, tags[j].type = t  PROVE j \in i+1..n
    <3>1. j # i
      BY <1>3, <2>1
    <3> QED BY <1>0, <3>1
  <2>2. F = {j \in i+1..n : tags[j].type = t}
    BY <1>0, <2>1
  <2> QED BY <1>3, <2>2 DEF TagFrom
<1> QED BY <1>1, <1>2, <1>3

LEMMA FindTagIs ==
  ASSUME NEW tags, IsInfo(tags), NEW t, t # MULTIBOOT_TAG_TYPE_END
  PROVE  multiboot_find_tag(tags, t) = TagFrom(tags, t, 1)
<1> DEFINE n == Len(tags)
           place == Place(tags)
           f == CHOOSE g : IsWalk(g, place, tags, t)
<1>1. n \in Nat \ {0} /\ DOMAIN tags = 1..n
  BY DEF IsInfo
<1>2. multiboot_find_tag(tags, t) = f[0]
  BY DEF multiboot_find_tag, IsWalk, At
<1>3. Placed(place, tags)
  BY PlaceIs
<1> HIDE DEF place
<1>4. /\ place[1] = 0 /\ \A i \in 1..n : place[i] \in Nat
      /\ \A i \in 1..n-1 : place[i + 1] = place[i] + Stride(tags[i].size)
      /\ \A i \in 1..n : \A j \in 1..i-1 : place[j] < place[i]
  BY <1>3 DEF Placed
<1> DEFINE top == place[n] + 8
<1>5. ASSUME NEW i \in 1..n
      PROVE  At(place, tags, place[i]) = i /\ place[i] \in 0..top
  <2>1. ASSUME NEW j \in 1..n, place[j] = place[i]  PROVE j = i
    <3>1. ~(j < i)
      <4>1. j < i => j \in 1..i-1
        BY <1>1
      <4> QED BY <1>4, <2>1, <4>1
    <3>2. ~(i < j)
      <4>1. i < j => i \in 1..j-1
        BY <1>1
      <4> QED BY <1>4, <2>1, <4>1
    <3> QED BY <1>1, <3>1, <3>2
  <2>2. At(place, tags, place[i]) = i
    BY <1>1, <2>1 DEF At
  <2>3. place[i] \in Nat /\ place[n] \in Nat /\ (i = n \/ place[i] < place[n])
    <3>1. i # n => i \in 1..n-1
      <4> HIDE DEF n
      <4> QED BY <1>1
    <3>2. n \in 1..n
      BY <1>1
    <3> QED BY <1>4, <3>1, <3>2
  <2> QED BY <2>2, <2>3
<1> DEFINE R(i) == TagFrom(tags, t, i)
           Free(o) == \A i \in DOMAIN tags : place[i] # o
           h == [o \in 0..top |-> IF Free(o) THEN 0 ELSE R(At(place, tags, o))]
<1>6. ASSUME NEW i \in 1..n
      PROVE  R(i) = IF tags[i].type = MULTIBOOT_TAG_TYPE_END THEN NO_TAG
                    ELSE IF tags[i].type = t THEN i ELSE R(i + 1)
  BY TagFromStep
<1>7. ASSUME NEW i \in 1..n, tags[i].type # MULTIBOOT_TAG_TYPE_END
      PROVE  i + 1 \in 1..n /\ place[i] + Stride(tags[i].size) = place[i + 1]
  <2>1. i # n
    BY <1>7 DEF IsInfo
  <2>2. i \in 1..n-1 /\ i + 1 \in 1..n
    <3> HIDE DEF n
    <3> QED BY <1>1, <2>1
  <2> QED BY <1>4, <2>2
<1> HIDE DEF R, top
<1>8. ASSUME NEW i \in 1..n  PROVE ~Free(place[i]) /\ h[place[i]] = R(i)
  <2>1. ~Free(place[i])
    BY <1>1
  <2> HIDE DEF Free
  <2> QED BY <1>5, <2>1
<1>9. ASSUME NEW o \in 0..top, ~Free(o)
      PROVE  At(place, tags, o) \in 1..n /\ place[At(place, tags, o)] = o
  <2>1. PICK i \in 1..n : place[i] = o
    BY <1>1, <1>9
  <2> QED BY <1>5, <2>1
<1>10. ASSUME NEW o \in 0..top
       PROVE  h[o] = IF Free(o) THEN 0
                     ELSE IF tags[At(place, tags, o)].type = MULTIBOOT_TAG_TYPE_END THEN NO_TAG
                     ELSE IF tags[At(place, tags, o)].type = t THEN At(place, tags, o)
                     ELSE h[o + Stride(tags[At(place, tags, o)].size)]
  <2>1. CASE Free(o)
    BY <2>1
  <2>2. CASE ~Free(o)
    <3> DEFINE i == At(place, tags, o)
    <3>1. i \in 1..n /\ place[i] = o
      BY <1>9, <2>2
    <3> HIDE DEF i, Free
    <3>2. h[o] = R(i)
      BY <2>2 DEF i
    <3>3. tags[i].type # MULTIBOOT_TAG_TYPE_END => h[o + Stride(tags[i].size)] = R(i + 1)
      <4> HIDE DEF h
      <4> QED BY <1>7, <1>8, <3>1
    <3>4. h[o] = IF tags[i].type = MULTIBOOT_TAG_TYPE_END THEN NO_TAG
                 ELSE IF tags[i].type = t THEN i ELSE h[o + Stride(tags[i].size)]
      <4> HIDE DEF h
      <4> QED BY <1>6, <3>1, <3>2, <3>3
    <3> HIDE DEF h
    <3> QED BY <2>2, <3>4 DEF i
  <2> QED BY <2>1, <2>2
<1>11. IsWalk(h, place, tags, t)
  <2>1. h = [o \in 0..top |-> h[o]]
    OBVIOUS
  <2> HIDE DEF h
  <2> QED BY <1>10, <2>1 DEF IsWalk, top
<1>12. IsWalk(f, place, tags, t)
  <2> HIDE DEF h
  <2> QED BY <1>11
<1> HIDE DEF f, h
<1>13. ASSUME NEW i \in 1..n
       PROVE  f[place[i]] = IF tags[i].type = MULTIBOOT_TAG_TYPE_END THEN NO_TAG
                            ELSE IF tags[i].type = t THEN i ELSE f[place[i + 1]]
  <2> DEFINE o == place[i]
  <2>1. o \in 0..top /\ At(place, tags, o) = i /\ ~Free(o)
    BY <1>5, <1>8
  <2> HIDE DEF o, Free
  <2>2. f[o] = IF tags[i].type = MULTIBOOT_TAG_TYPE_END THEN NO_TAG
               ELSE IF tags[i].type = t THEN i ELSE f[o + Stride(tags[i].size)]
    BY <1>12, <2>1 DEF IsWalk, Free, top
  <2>3. tags[i].type # MULTIBOOT_TAG_TYPE_END => o + Stride(tags[i].size) = place[i + 1]
    BY <1>7 DEF o
  <2> QED BY <2>2, <2>3 DEF o
<1>14. \A i \in 1..n : f[place[i]] = R(i)
  <2> DEFINE S == {i \in 1..n : f[place[i]] = R(i)}
  <2>1. ASSUME NEW i \in 1..n, i = n \/ i + 1 \in S  PROVE i \in S
    <3>1. i = n => tags[i].type = MULTIBOOT_TAG_TYPE_END
      BY DEF IsInfo
    <3>2. i + 1 \in S => f[place[i + 1]] = R(i + 1)
      OBVIOUS
    <3> QED BY <1>6, <1>13, <2>1, <3>1, <3>2
  <2>2. 1 \in Int /\ n \in Int
    BY <1>1
  <2>3. \A i \in 1..n : i \in S
    <3> HIDE DEF S
    <3> QED BY <2>1, <2>2, Downwards
  <2> QED BY <2>3
<1>15. f[0] = R(1)
  <2>1. 1 \in 1..n
    BY <1>1
  <2> QED BY <1>4, <1>14, <2>1
<1> QED BY <1>2, <1>15 DEF R

\* The loop of multiboot_get_memory_end: the entries at U count, L is their end.
IsEnd(g, a, s, step, U, L) ==
  g = [p \in a..s+step |->
         IF p >= s THEN 0
         ELSE IF p \in U /\ g[p + step] < L[p] THEN L[p] ELSE g[p + step]]

\* It exists from one p to the next, from the end of the map down.
LEMMA EndExists ==
  ASSUME NEW a \in Int, NEW s \in Int, NEW step \in Nat \ {0}, a <= s, NEW U, NEW L
  PROVE  \E g : IsEnd(g, a, s, step, U, L)
<1> DEFINE b == s + step
           S == {k \in a..b : \E g : IsEnd(g, k, s, step, U, L)}
           V(p, x) == IF p >= s THEN 0 ELSE IF p \in U /\ x < L[p] THEN L[p] ELSE x
<1>0. b \in Int /\ b >= s
  OBVIOUS
<1>1. ASSUME NEW k \in a..b, k = b \/ k + 1 \in S  PROVE k \in S
  <2>1. CASE k = b
    <3> DEFINE g == [p \in b..b |-> 0]
    <3>1. \A p \in b..b : p >= s
      OBVIOUS
    <3>2. IsEnd(g, b, s, step, U, L)
      BY <3>1 DEF IsEnd
    <3> QED BY <2>1, <3>2
  <2>2. CASE k # b
    <3>1. PICK g : IsEnd(g, k + 1, s, step, U, L)
      BY <1>1, <2>2
    <3> DEFINE h == [p \in k..b |-> IF p = k THEN V(k, g[k + step]) ELSE g[p]]
    <3>2. ASSUME NEW p \in k..b
          PROVE  h[p] = V(p, h[p + step])
      <4>1. p # k => p \in k+1..b /\ g[p] = V(p, g[p + step])
        BY <3>1 DEF IsEnd
      <4>2. p < s => p + step \in k..b /\ p + step # k
        BY <1>0
      <4>3. p < s => h[p + step] = g[p + step]
        <5> HIDE DEF V, b
        <5> QED BY <4>2
      <4>4. p >= s => V(p, h[p + step]) = V(p, g[p + step])
        <5> HIDE DEF h
        <5> QED OBVIOUS
      <4>5. V(p, h[p + step]) = V(p, g[p + step])
        <5> HIDE DEF V, h
        <5> QED BY <1>0, <4>3, <4>4
      <4>6. h[p] = V(p, g[p + step])
        <5> HIDE DEF V, b
        <5> QED BY <4>1
      <4> QED BY <4>5, <4>6
    <3>3. h = [p \in k..b |-> h[p]]
      OBVIOUS
    <3>4. IsEnd(h, k, s, step, U, L)
      <4> HIDE DEF h
      <4> QED BY <3>2, <3>3 DEF IsEnd
    <3> HIDE DEF h
    <3> QED BY <3>4
  <2> QED BY <2>1, <2>2
<1>2. \A k \in a..b : k \in S
  <2> HIDE DEF S, b
  <2> QED BY <1>0, <1>1, Downwards
<1>3. a \in a..b
  BY <1>0
<1> QED BY <1>2, <1>3

LEMMA EndIs ==
  ASSUME NEW a \in Int, NEW s \in Int, NEW step \in Nat \ {0}, a <= s, NEW U, NEW L,
         NEW g, IsEnd(g, a, s, step, U, L), NEW R, 0 \in R, \A p \in a..s-1 : p \in U => L[p] \in R
  PROVE  g[a] \in R
<1> DEFINE b == s + step
           S == {k \in a..b : \A p \in k..b : g[p] \in R}
<1>0. b \in Int /\ b >= s
  OBVIOUS
<1>1. ASSUME NEW k \in a..b, k = b \/ k + 1 \in S  PROVE k \in S
  <2>1. g[k] = IF k >= s THEN 0
               ELSE IF k \in U /\ g[k + step] < L[k] THEN L[k] ELSE g[k + step]
    BY DEF IsEnd
  <2>2. g[k] \in R
    <3>1. CASE k >= s
      BY <2>1, <3>1
    <3>2. CASE ~(k >= s)
      <4>1. k \in a..s-1 /\ k # b /\ k + step \in k+1..b
        BY <1>0, <3>2
      <4>2. g[k + step] \in R
        BY <1>1, <4>1
      <4> HIDE DEF b
      <4> QED BY <2>1, <3>2, <4>1, <4>2
    <3> QED BY <3>1, <3>2
  <2>3. ASSUME NEW p \in k..b  PROVE g[p] \in R
    <3>1. CASE p = k
      BY <2>2, <3>1
    <3>2. CASE p # k
      <4>1. p \in k+1..b /\ k # b
        BY <1>0, <3>2
      <4> QED BY <1>1, <4>1
    <3> QED BY <3>1, <3>2
  <2> QED BY <2>3
<1>2. \A k \in a..b : k \in S
  <2> HIDE DEF S, b
  <2> QED BY <1>0, <1>1, Downwards
<1>3. a \in a..b
  BY <1>0
<1> QED BY <1>2, <1>3

\* The end of memory is among the ends of the available regions.
LEMMA MemoryEndIs ==
  ASSUME NEW tags, NEW k, k = multiboot_find_tag(tags, MULTIBOOT_TAG_TYPE_MMAP),
         NEW map \in Seq([addr : Nat, len : Nat, type : Nat]), tags[k] = mmap_tag(map)
  PROVE  multiboot_get_memory_end(tags) \in {LastByte(map[i]) : i \in Available(map)} \union {0}
<1> DEFINE R == {LastByte(map[i]) : i \in Available(map)} \union {0}
           s == OFFSETOF_ENTRIES + SIZEOF_MMAP_ENTRY * Len(map)
           step == (SIZEOF_MMAP_ENTRY \div 8) * SIZEOF_MMAP_ENTRY
           a == OFFSETOF_ENTRIES
           E(p) == map[(p - OFFSETOF_ENTRIES) \div SIZEOF_MMAP_ENTRY + 1]
           U == {p \in a..s-1 : Usable(E(p))}
           L == [p \in a..s-1 |-> LastByte(E(p))]
           Body(g) == [p \in a..s+step |->
                         IF p >= s THEN 0
                         ELSE IF Usable(E(p)) /\ g[p + step] < LastByte(E(p))
                              THEN LastByte(E(p)) ELSE g[p + step]]
           f == CHOOSE g : g = Body(g)
<1>0. /\ tags[k].size = s /\ tags[k].entry_size = SIZEOF_MMAP_ENTRY /\ tags[k].entries = map
  BY DEF mmap_tag
<1>1. multiboot_get_memory_end(tags) = f[a]
  BY <1>0 DEF multiboot_get_memory_end
<1>2. a \in Int /\ s \in Int /\ step \in Nat \ {0} /\ a <= s
  BY DEF OFFSETOF_ENTRIES, SIZEOF_MMAP_ENTRY
<1>3. ASSUME NEW p \in a..s-1
      PROVE  (p - OFFSETOF_ENTRIES) \div SIZEOF_MMAP_ENTRY + 1 \in DOMAIN map
  <2> DEFINE n == Len(map)
  <2>1. n \in Nat /\ DOMAIN map = 1..n
    OBVIOUS
  <2> HIDE DEF n
  <2>2. p \in 16..15+24*n
    BY <2>1 DEF OFFSETOF_ENTRIES, SIZEOF_MMAP_ENTRY, n
  <2>3. (p - 16) \div 24 + 1 \in 1..n
    BY <2>1, <2>2
  <2> QED BY <2>1, <2>3 DEF OFFSETOF_ENTRIES, SIZEOF_MMAP_ENTRY
<1>4. ASSUME NEW p \in a..s-1, p \in U  PROVE L[p] \in R
  <2>1. Usable(E(p)) /\ L[p] = LastByte(E(p))
    BY <1>4
  <2> QED BY <1>3, <2>1 DEF Usable, Available
<1> HIDE DEF R
<1>5. 0 \in R
  BY DEF R
<1> HIDE DEF s, step, a, E
<1>6. \A g : g = Body(g) <=> IsEnd(g, a, s, step, U, L)
  <2>1. ASSUME NEW p \in a..s+step, ~(p >= s)  PROVE p \in a..s-1
    BY <1>2, <2>1
  <2>2. \A g : Body(g) = [p \in a..s+step |->
                            IF p >= s THEN 0
                            ELSE IF p \in U /\ g[p + step] < L[p] THEN L[p] ELSE g[p + step]]
    BY <2>1
  <2> HIDE DEF Body
  <2> QED BY <2>2 DEF IsEnd
<1>7. \E g : IsEnd(g, a, s, step, U, L)
  <2> HIDE DEF U, L
  <2> QED BY <1>2, EndExists
<1>8. IsEnd(f, a, s, step, U, L)
  <2> HIDE DEF Body, U, L
  <2> QED BY <1>6, <1>7
<1>9. f[a] \in R
  <2> HIDE DEF f, U, L
  <2> QED BY <1>2, <1>4, <1>5, <1>8, EndIs
<1> QED BY <1>1, <1>9 DEF R

LEMMA TagRight ==
  ASSUME NEW tags \in Infos, NEW t \in TagTypes,
         Returns([fn |-> "find_tag", tags |-> tags, type |-> t,
                  ret |-> multiboot_find_tag(tags, t)], mem)
  PROVE  TagFound'
<1>1. /\ call'.fn = "find_tag" /\ call'.tags = tags /\ call'.type = t
      /\ call'.ret = multiboot_find_tag(tags, t)
  BY DEF Returns
<1>2. t # MULTIBOOT_TAG_TYPE_END /\ IsInfo(tags)
  BY InfoAssumption, InfosAre
<1>3. multiboot_find_tag(tags, t) = FirstOf({j \in 1..Len(tags) : tags[j].type = t})
  BY <1>2, FindTagIs DEF TagFrom
<1> DEFINE hits == {i \in DOMAIN call'.tags : call'.tags[i].type = call'.type}
<1>4. hits = {j \in 1..Len(tags) : tags[j].type = t}
  BY <1>1, <1>2 DEF IsInfo
<1>5. call'.ret = FirstOf(hits)
  BY <1>1, <1>3, <1>4
<1>6. hits = {} => FirstOf(hits) = NO_TAG
  BY DEF FirstOf, NULL, NO_TAG
<1>7. call'.ret = IF hits = {} THEN NO_TAG ELSE FirstOf(hits)
  <2> HIDE DEF hits
  <2> QED BY <1>5, <1>6
<1> QED BY <1>7 DEF TagFound, FirstOf

LEMMA EndRight ==
  ASSUME NEW tags \in Infos, NEW x \in DOMAIN tags, tags[x].type = MULTIBOOT_TAG_TYPE_MMAP,
         Returns([fn |-> "memory_end", tags |-> tags,
                  ret |-> multiboot_get_memory_end(tags)], mem)
  PROVE  MemoryEndReal'
<1>1. /\ call'.fn = "memory_end" /\ call'.tags = tags
      /\ call'.ret = multiboot_get_memory_end(tags)
  BY DEF Returns
<1>2. IsInfo(tags)
  BY InfosAre
<1> DEFINE map == tags[x].entries
<1>3. /\ tags[x] = mmap_tag(map) /\ map \in Seq([addr : Nat, len : Nat, type : Nat])
      /\ \A j \in DOMAIN tags : tags[j].type = MULTIBOOT_TAG_TYPE_MMAP => j = x
  BY InfoAssumption
<1>4. multiboot_find_tag(tags, MULTIBOOT_TAG_TYPE_MMAP) = x
  <2> DEFINE F == {j \in 1..Len(tags) : tags[j].type = MULTIBOOT_TAG_TYPE_MMAP}
  <2>1. multiboot_find_tag(tags, MULTIBOOT_TAG_TYPE_MMAP) = FirstOf(F)
    <3>1. MULTIBOOT_TAG_TYPE_MMAP # MULTIBOOT_TAG_TYPE_END
      BY DEF MULTIBOOT_TAG_TYPE_MMAP, MULTIBOOT_TAG_TYPE_END
    <3> QED BY <1>2, <3>1, FindTagIs DEF TagFrom
  <2>2. DOMAIN tags = 1..Len(tags)
    BY <1>2 DEF IsInfo
  <2>3. x \in F /\ F \in SUBSET Int /\ \A q \in F : q = x
    BY <1>3, <2>2
  <2>4. \A q \in F : x <= q
    <3> HIDE DEF F
    <3> QED BY <2>3
  <2>5. FirstOf(F) = x
    <3> HIDE DEF F
    <3> QED BY <2>3, <2>4, FirstIs
  <2> QED BY <2>1, <2>5
<1>5. MemoryMap(tags) = map
  <2>1. (CHOOSE i \in DOMAIN tags : tags[i].type = MULTIBOOT_TAG_TYPE_MMAP) = x
    BY <1>3
  <2> QED BY <2>1 DEF MemoryMap
<1> HIDE DEF map
<1>6. call'.ret \in {LastByte(map[i]) : i \in Available(map)} \union {0}
  BY <1>1, <1>3, <1>4, MemoryEndIs
<1>7. MemoryMap(call.tags)' = map
  BY <1>1, <1>5 DEF MemoryMap
<1> QED BY <1>6, <1>7 DEF MemoryEndReal, Available, LastByte, MemoryMap

LEMMA NoTag ==
  ASSUME call'.fn \notin {"find_tag", "memory_end"}  PROVE TagFound' /\ MemoryEndReal'
BY DEF TagFound, MemoryEndReal

LEMMA NoNumber ==
  ASSUME call'.fn # "itoa"  PROVE ItoaRight'
BY DEF ItoaRight

-----------------------------------------------------------------------------
(* printk.c                                                                *)

Bases == {10, 16}

LEMMA DivMod ==
  ASSUME NEW x \in Nat, NEW base \in Bases
  PROVE  /\ x \div base \in Nat /\ x % base \in 0..base-1 /\ x % base \in 0..15
         /\ x = (x \div base) * base + (x % base)
         /\ x > 0 => x \div base < x
         /\ x \div base = 0 => x % base = x
<1>1. CASE base = 10
  BY <1>1
<1>2. CASE base = 16
  BY <1>2
<1> QED BY <1>1, <1>2 DEF Bases

DigitOf(k) == digits[k + 1]

LEMMA DigitsAre ==
  ASSUME NEW k \in 0..15
  PROVE  /\ DigitOf(k) # NUL /\ DigitValue(DigitOf(k)) = k
         /\ DigitOf(k) = "0" <=> k = 0
<1>1. k \in {0, 1, 2, 3, 4, 5, 6, 7, 8, 9, 10, 11, 12, 13, 14, 15}
  OBVIOUS
<1>2. DigitOf(k) # NUL /\ (DigitOf(k) = "0" <=> k = 0)
  BY <1>1 DEF DigitOf, digits, NUL
<1>3. ASSUME NEW i \in 1..16, digits[i] = DigitOf(k)  PROVE i = k + 1
  <2>1. i \in {1, 2, 3, 4, 5, 6, 7, 8, 9, 10, 11, 12, 13, 14, 15, 16}
    OBVIOUS
  <2> QED BY <1>1, <1>3, <2>1 DEF DigitOf, digits
<1>4. k + 1 \in 1..16 /\ digits[k + 1] = DigitOf(k)
  BY DEF DigitOf
<1>5. (CHOOSE i \in 1..16 : digits[i] = DigitOf(k)) = k + 1
  <2> DEFINE c == CHOOSE i \in 1..16 : digits[i] = DigitOf(k)
  <2>1. c \in 1..16 /\ digits[c] = DigitOf(k)
    <3>1. \E i \in 1..16 : digits[i] = DigitOf(k)
      BY <1>4
    <3> HIDE DEF DigitOf, digits
    <3> QED BY <3>1
  <2> HIDE DEF c
  <2>2. c = k + 1
    BY <1>3, <2>1
  <2> QED BY <2>2 DEF c
<1>6. DigitValue(DigitOf(k)) = (k + 1) - 1
  BY <1>5 DEF DigitValue
<1> QED BY <1>2, <1>6

IsWritten(g, k, base) ==
  g = [n \in 0..k |-> IF n = 0 THEN <<>> ELSE <<digits[(n % base) + 1]>> \o g[n \div base]]

LEMMA WrittenExists ==
  ASSUME NEW num \in Nat, NEW base \in Bases
  PROVE  \E g : IsWritten(g, num, base)
<1> DEFINE S == {k \in 0..num : \E g : IsWritten(g, k, base)}
           D(n, x) == <<digits[(n % base) + 1]>> \o x
<1>1. ASSUME NEW k \in 0..num, k = 0 \/ k - 1 \in S  PROVE k \in S
  <2>1. CASE k = 0
    <3> DEFINE g == [n \in 0..0 |-> <<>>]
    <3>1. \A n \in 0..0 : n = 0
      OBVIOUS
    <3>2. IsWritten(g, 0, base)
      BY <3>1 DEF IsWritten
    <3> QED BY <2>1, <3>2
  <2>2. CASE k # 0
    <3>1. PICK g : IsWritten(g, k - 1, base)
      BY <1>1, <2>2
    <3> DEFINE h == [n \in 0..k |-> IF n = k THEN D(k, g[k \div base]) ELSE g[n]]
    <3>2. ASSUME NEW n \in 0..k
          PROVE  h[n] = IF n = 0 THEN <<>> ELSE D(n, h[n \div base])
      <4>1. n \in 0..k-1 => g[n] = IF n = 0 THEN <<>> ELSE D(n, g[n \div base])
        BY <3>1 DEF IsWritten
      <4> HIDE DEF D
      <4>2. n # 0 => n \div base \in 0..k /\ n \div base # k
        <5>1. n \in Nat /\ k \in Nat /\ n <= k
          OBVIOUS
        <5> DEFINE m == n \div base
        <5>2. n # 0 => m \in Nat /\ m < n
          BY <5>1, DivMod
        <5> HIDE DEF m
        <5>3. n # 0 => m \in 0..k /\ m # k
          BY <5>1, <5>2
        <5> QED BY <5>3 DEF m
      <4>3. n # 0 => h[n \div base] = g[n \div base]
        BY <4>2
      <4>4. n # k => n \in 0..k-1
        OBVIOUS
      <4> QED BY <2>2, <4>1, <4>3, <4>4
    <3>3. h = [n \in 0..k |-> h[n]]
      OBVIOUS
    <3>4. IsWritten(h, k, base)
      <4> HIDE DEF h
      <4> QED BY <3>2, <3>3 DEF IsWritten
    <3> HIDE DEF h
    <3> QED BY <3>4
  <2> QED BY <2>1, <2>2
<1>2. \A k \in 0..num : k \in S
  <2>1. 0 \in Int /\ num \in Int
    OBVIOUS
  <2> HIDE DEF S
  <2> QED BY <1>1, <2>1, Upwards
<1> QED BY <1>2

DigitSet == {DigitOf(k) : k \in 0..15}

\* The digits r of n, last one first, with the quotients q they come from
Quotients(q, r, n, base) ==
  /\ r \in Seq(DigitSet) /\ q[0] = n /\ q[Len(r)] = 0
  /\ \A i \in 0..Len(r) : q[i] \in Nat
  /\ \A i \in 0..Len(r)-1 : q[i + 1] = q[i] \div base /\ r[i + 1] = DigitOf(q[i] % base)
  /\ Len(r) > 1 => q[Len(r) - 1] # 0

LEMMA QuotientsStep ==
  ASSUME NEW n \in Nat, n # 0, NEW base \in Bases, NEW q, NEW r,
         Quotients(q, r, n \div base, base), Len(r) = 1 => q[0] # 0
  PROVE  \E p : Quotients(p, <<DigitOf(n % base)>> \o r, n, base)
<1> DEFINE d == DigitOf(n % base)
           L == Len(r)
           s == <<d>> \o r
           p == [i \in 0..L+1 |-> IF i = 0 THEN n ELSE q[i - 1]]
<1>1. r \in Seq(DigitSet) /\ L \in Nat
  BY DEF Quotients
<1>2. d \in DigitSet
  <2>1. n % base \in 0..15
    BY DivMod
  <2> QED BY <2>1 DEF DigitSet
<1> HIDE DEF d
<1>3. s \in Seq(DigitSet) /\ Len(s) = L + 1
  BY <1>1, <1>2
<1>4. s[1] = d /\ \A i \in 1..L : s[i + 1] = r[i]
  BY <1>1, <1>2
<1> HIDE DEF s
<1>5. \A i \in 0..L : q[i] \in Nat
  BY DEF Quotients
<1> DEFINE m == n \div base
<1>6. q[0] = m /\ q[L] = 0 /\ (L > 1 => q[L - 1] # 0)
  BY DEF Quotients
<1>7. \A i \in 0..L-1 : q[i + 1] = q[i] \div base /\ r[i + 1] = DigitOf(q[i] % base)
  BY DEF Quotients
<1> HIDE DEF L, m
<1>8. p[0] = n /\ p[L + 1] = 0 /\ \A i \in 0..L+1 : p[i] \in Nat
  BY <1>1, <1>5, <1>6
<1>9. ASSUME NEW i \in 0..L
      PROVE  p[i + 1] = p[i] \div base /\ s[i + 1] = DigitOf(p[i] % base)
  <2>1. CASE i = 0
    <3>1. p[i] = n /\ p[i + 1] = m
      BY <1>1, <1>6, <2>1
    <3>2. s[i + 1] = d
      BY <1>4, <2>1
    <3> HIDE DEF p
    <3> QED BY <2>1, <3>1, <3>2 DEF d, m
  <2>2. CASE i # 0
    <3>1. PICK j \in 0..L-1 : i = j + 1
      BY <1>1, <2>2
    <3>2. p[i] = q[j] /\ p[i + 1] = q[j + 1]
      BY <1>1, <3>1
    <3>3. s[i + 1] = r[j + 1]
      <4>1. i \in 1..L
        BY <1>1, <2>2
      <4>2. s[i + 1] = r[i]
        BY <1>4, <4>1
      <4> QED BY <3>1, <4>2
    <3> HIDE DEF p
    <3> QED BY <1>7, <3>2, <3>3
  <2> QED BY <2>1, <2>2
<1>10. L + 1 > 1 => p[L] # 0
  <2>1. L > 0 => L \in 0..L+1 /\ L # 0 /\ p[L] = q[L - 1]
    BY <1>1
  <2>2. L = 1 => q[0] # 0
    BY DEF L
  <2>3. L = 1 => L - 1 = 0
    OBVIOUS
  <2> HIDE DEF p
  <2> QED BY <1>1, <1>6, <2>1, <2>2, <2>3
<1>11. (L + 1) - 1 = L
  BY <1>1
<1>12. Quotients(p, s, n, base)
  <2> HIDE DEF p
  <2> QED BY <1>3, <1>8, <1>9, <1>10, <1>11 DEF Quotients
<1> HIDE DEF p
<1> QED BY <1>12 DEF s, d


LEMMA NoQuotients ==
  ASSUME NEW base \in Bases
  PROVE  Quotients([i \in 0..0 |-> 0], <<>>, 0, base) /\ Len(<<>>) = 0
<1> DEFINE q == [i \in 0..0 |-> 0]
<1>1. Len(<<>>) = 0 /\ <<>> \in Seq(DigitSet)
  OBVIOUS
<1>2. q[0] = 0 /\ \A i \in 0..0 : q[i] = 0
  OBVIOUS
<1>3. 0..0-1 = {} /\ ~(0 > 1)
  OBVIOUS
<1> HIDE DEF q
<1>4. Quotients(q, <<>>, 0, base)
  BY <1>1, <1>2, <1>3 DEF Quotients
<1> QED BY <1>1, <1>4 DEF q

\* What itoa writes before it reverses
LEMMA RemaindersAre ==
  ASSUME NEW num \in Nat, NEW base \in Bases
  PROVE  /\ \E q : Quotients(q, Remainders(num, base), num, base)
         /\ Len(Remainders(num, base)) >= 1
<1> DEFINE g == CHOOSE g : IsWritten(g, num, base)
           Claim(n) == (\E q : Quotients(q, g[n], n, base)) /\ (Len(g[n]) = 0 <=> n = 0)
           S == {k \in 0..num : \A n \in 0..k : Claim(n)}
<1>1. Remainders(num, base) = IF num = 0 THEN <<digits[1]>> ELSE g[num]
  BY DEF Remainders, IsWritten
<1>2. IsWritten(g, num, base)
  <2>1. \E h : IsWritten(h, num, base)
    BY WrittenExists
  <2> QED BY <2>1
<1> HIDE DEF g
<1>3. ASSUME NEW n \in 0..num
      PROVE  g[n] = IF n = 0 THEN <<>> ELSE <<DigitOf(n % base)>> \o g[n \div base]
  BY <1>2 DEF IsWritten, DigitOf
<1>4. ASSUME NEW n \in 0..num, n # 0 => Claim(n \div base)  PROVE Claim(n)
  <2>1. CASE n = 0
    <3>1. g[n] = <<>>
      BY <1>3, <2>1
    <3> QED BY <2>1, <3>1, NoQuotients
  <2>2. CASE n # 0
    <3> DEFINE m == n \div base  r == g[m]  d == DigitOf(n % base)
    <3>1. PICK q : Quotients(q, r, m, base)
      BY <1>4, <2>2
    <3>2. Len(r) = 1 => q[0] # 0
      <4>1. q[0] = m
        BY <3>1 DEF Quotients
      <4>2. Len(r) = 0 <=> m = 0
        BY <1>4, <2>2
      <4> HIDE DEF m, r
      <4> QED BY <4>1, <4>2
    <3>3. \E p : Quotients(p, <<DigitOf(n % base)>> \o r, n, base)
      <4> HIDE DEF r
      <4> QED BY <2>2, <3>1, <3>2, QuotientsStep
    <3>4. Len(<<d>> \o r) # 0
      <4>1. r \in Seq(DigitSet)
        BY <3>1 DEF Quotients
      <4>2. d \in DigitSet
        <5>1. n % base \in 0..15
          BY DivMod
        <5> QED BY <5>1 DEF DigitSet
      <4> HIDE DEF r, d
      <4> QED BY <4>1, <4>2
    <3>5. g[n] = <<d>> \o r
      BY <1>3, <2>2
    <3> QED BY <2>2, <3>3, <3>4, <3>5
  <2> QED BY <2>1, <2>2
<1> HIDE DEF Claim
<1>5. ASSUME NEW k \in 0..num, k = 0 \/ k - 1 \in S  PROVE k \in S
  <2>1. ASSUME NEW n \in 0..k, n # k  PROVE Claim(n)
    <3>1. n \in 0..k-1 /\ k # 0
      BY <2>1
    <3> QED BY <1>5, <3>1
  <2>2. k # 0 => k \div base \in 0..k /\ k \div base # k
    <3> DEFINE m == k \div base
    <3>1. k # 0 => m \in Nat /\ m < k
      BY DivMod
    <3> HIDE DEF m
    <3>2. k # 0 => m \in 0..k /\ m # k
      BY <3>1
    <3> QED BY <3>2 DEF m
  <2>3. Claim(k)
    BY <1>4, <2>1, <2>2
  <2>4. \A n \in 0..k : Claim(n)
    BY <2>1, <2>3
  <2> QED BY <2>4
<1>6. \A k \in 0..num : k \in S
  <2>1. 0 \in Int /\ num \in Int
    OBVIOUS
  <2> HIDE DEF S
  <2> QED BY <1>5, <2>1, Upwards
<1>7. Claim(num)
  BY <1>6
<1>8. CASE num # 0
  <2>1. PICK q : Quotients(q, g[num], num, base)
    BY <1>7 DEF Claim
  <2>2. Len(g[num]) # 0 /\ Len(g[num]) \in Nat
    BY <1>7, <1>8, <2>1 DEF Claim, Quotients
  <2>3. Remainders(num, base) = g[num]
    BY <1>1, <1>8
  <2> QED BY <2>1, <2>2, <2>3
<1>9. CASE num = 0
  <2> DEFINE q == [i \in 0..1 |-> 0]  r == <<digits[1]>>
  <2>1. digits[1] = DigitOf(0)
    BY DEF DigitOf
  <2>2. r \in Seq(DigitSet) /\ Len(r) = 1 /\ r[1] = DigitOf(0)
    <3>1. DigitOf(0) \in DigitSet
      BY DEF DigitSet
    <3>2. r = <<DigitOf(0)>>
      BY <2>1
    <3> HIDE DEF r
    <3> QED BY <3>1, <3>2
  <2>3. \A i \in 0..1 : q[i] = 0
    OBVIOUS
  <2>4. 0 \div base = 0 /\ 0 % base = 0
    <3>1. CASE base = 10
      BY <3>1
    <3>2. CASE base = 16
      BY <3>2
    <3> QED BY <3>1, <3>2 DEF Bases
  <2>5. \A i \in 0..1-1 : i = 0 /\ i + 1 = 1
    OBVIOUS
  <2> HIDE DEF r, q
  <2>6. q[0] = 0 /\ q[1] = 0
    BY <2>3
  <2>7. ASSUME NEW i \in 0..Len(r)-1
        PROVE  q[i + 1] = q[i] \div base /\ r[i + 1] = DigitOf(q[i] % base)
    BY <2>2, <2>4, <2>5, <2>6
  <2>8. \A i \in 0..Len(r) : q[i] \in Nat
    BY <2>2, <2>3
  <2>9. Quotients(q, r, 0, base)
    BY <2>2, <2>6, <2>7, <2>8 DEF Quotients
  <2>10. Remainders(num, base) = r
    BY <1>1, <1>9 DEF r
  <2> QED BY <1>9, <2>2, <2>9, <2>10
<1> QED BY <1>8, <1>9


\* r are the L digits of num, last one first.
Digits(r, L, num, base) == r = Remainders(num, base) /\ L = Len(r)

\* The buffer after the reversal: the digits in order, then the byte from below
Reversed(buf, r, L, below) ==
  /\ \A i \in 0..L-1 : buf[i] = r[L - i]
  /\ buf[L] = below
  /\ \A i \in L+1..23 : buf[i] = NUL

LEMMA BufferIs ==
  ASSUME NEW num \in Nat, NEW base \in Bases, NEW below, NEW L \in 1..20,
         NEW r, Digits(r, L, num, base)
  PROVE  Reversed(itoa(ZeroBuffer(below), num, base), r, L, below)
<1> DEFINE zero == ZeroBuffer(below)
           w == [i \in DOMAIN zero |->
                   IF i \in 0..L-1 THEN r[i + 1] ELSE IF i = L THEN NUL ELSE zero[i]]
           buf == [i \in DOMAIN zero |-> IF Swapped(L, i) THEN w[L - 1 - i] ELSE w[i]]
<1>1. itoa(ZeroBuffer(below), num, base) = buf
  BY DEF itoa, Digits
<1>2. zero = [i \in -1..23 |-> IF i = -1 THEN below ELSE NUL]
  <2>1. STR - 1 = 23
    BY DEF STR
  <2> QED BY <2>1 DEF ZeroBuffer
<1> HIDE DEF zero
<1>3. /\ \A i \in 0..L-1 : w[i] = r[i + 1]
      /\ w[-1] = below /\ \A i \in L..23 : w[i] = NUL
  <2>1. \A i \in 0..L-1 : i \in -1..23
    OBVIOUS
  <2>2. -1 \in -1..23 /\ -1 \notin 0..L-1 /\ -1 # L
    OBVIOUS
  <2>3. \A i \in L..23 : i \in -1..23 /\ i \notin 0..L-1 /\ i # -1
    OBVIOUS
  <2> QED BY <1>2, <2>1, <2>2, <2>3
<1>4. \A i \in -1..23 : buf[i] = IF Swapped(L, i) THEN w[L - 1 - i] ELSE w[i]
  BY <1>2
<1> HIDE DEF w, buf
<1> DEFINE pivot == (L + 1) \div 2
<1>5. pivot \in Nat /\ 2 * pivot <= L + 1 /\ L + 1 < 2 * pivot + 2
  OBVIOUS
<1>6. \A i : Swapped(L, i) <=> i \in pivot..L \/ L - 1 - i \in pivot..L
  BY DEF Swapped
<1> HIDE DEF pivot
<1>7. ASSUME NEW i \in 0..L-1  PROVE buf[i] = r[L - i]
  <2>0. i \in -1..23
    OBVIOUS
  <2>1. CASE Swapped(L, i)
    <3>1. L - 1 - i \in 0..L-1 /\ (L - 1 - i) + 1 = L - i
      OBVIOUS
    <3>2. w[L - 1 - i] = r[(L - 1 - i) + 1]
      BY <1>3, <3>1
    <3> QED BY <1>4, <2>0, <2>1, <3>1, <3>2
  <2>2. CASE ~Swapped(L, i)
    <3>1. i \notin pivot..L /\ L - 1 - i \notin pivot..L
      BY <1>6, <2>2
    <3>2. i + 1 = L - i
      BY <1>5, <3>1
    <3>3. w[i] = r[i + 1]
      BY <1>3
    <3> QED BY <1>4, <2>0, <2>2, <3>2, <3>3
  <2> QED BY <2>1, <2>2
<1>8. buf[L] = below
  <2>1. L \in pivot..L /\ L \in -1..23 /\ L - 1 - L = -1
    BY <1>5
  <2>2. Swapped(L, L)
    BY <1>6, <2>1
  <2> QED BY <1>3, <1>4, <2>1, <2>2
<1>9. ASSUME NEW i \in L+1..23  PROVE buf[i] = NUL
  <2>1. i \in -1..23 /\ i \in L..23 /\ i \notin pivot..L /\ L - 1 - i \notin pivot..L
    BY <1>5
  <2>2. ~Swapped(L, i)
    BY <1>6, <2>1
  <2> QED BY <1>3, <1>4, <2>1, <2>2
<1> QED BY <1>1, <1>7, <1>8, <1>9 DEF Reversed

LEMMA TextIs ==
  ASSUME NEW buf, NEW l \in 0..23, buf[l] = NUL, \A i \in 0..l-1 : buf[i] # NUL
  PROVE  Text(buf) = [i \in 1..l |-> buf[i - 1]]
<1> DEFINE Q(n) == buf[n] = NUL /\ \A i \in 0..n-1 : buf[i] # NUL
           c == CHOOSE n \in 0..23 : Q(n)
<1>1. Q(l)
  OBVIOUS
<1>2. ASSUME NEW n \in 0..23, Q(n)  PROVE n = l
  <2>1. ~(n < l)
    <3>1. n < l => n \in 0..l-1
      OBVIOUS
    <3> QED BY <1>2, <3>1
  <2>2. ~(l < n)
    <3>1. l < n => l \in 0..n-1
      OBVIOUS
    <3> QED BY <1>2, <3>1
  <2> QED BY <2>1, <2>2
<1>3. c = l
  <2> HIDE DEF Q
  <2> QED BY <1>1, <1>2
<1>4. STR - 1 = 23
  BY DEF STR
<1>5. Text(buf) = [i \in 1..c |-> buf[i - 1]]
  BY <1>4 DEF Text
<1> HIDE DEF c
<1> QED BY <1>3, <1>5

\* What is printed: the digits, most significant first, and the byte from below
LEMMA PrintedIs ==
  ASSUME NEW num \in Nat, NEW base \in Bases, NEW below \in {NUL, "?"}, NEW L \in 1..20,
         NEW r, Digits(r, L, num, base), NEW q, Quotients(q, r, num, base)
  PROVE  LET ret == Text(itoa(ZeroBuffer(below), num, base))
         IN /\ Len(ret) = IF below = NUL THEN L ELSE L + 1
            /\ \A j \in 1..L : ret[j] = DigitOf(q[L - j] % base)
            /\ below # NUL => ret[L + 1] = below
<1> DEFINE buf == itoa(ZeroBuffer(below), num, base)
           l == IF below = NUL THEN L ELSE L + 1
<1>1. /\ \A i \in 0..L-1 : buf[i] = r[L - i]
      /\ buf[L] = below
      /\ \A i \in L+1..23 : buf[i] = NUL
  <2>1. Reversed(buf, r, L, below)
    BY BufferIs
  <2> QED BY <2>1 DEF Reversed
<1> HIDE DEF buf
<1>2. ASSUME NEW i \in 0..L-1
      PROVE  buf[i] = DigitOf(q[L - 1 - i] % base) /\ buf[i] # NUL
  <2>1. L - 1 - i \in 0..L-1 /\ (L - 1 - i) + 1 = L - i /\ L - 1 - i \in 0..L
    OBVIOUS
  <2> DEFINE k == L - 1 - i
  <2> HIDE DEF k
  <2>2. r[k + 1] = DigitOf(q[k] % base) /\ q[k] \in Nat
    BY <2>1 DEF Quotients, Digits, k
  <2>3. q[k] % base \in 0..15
    BY <2>2, DivMod
  <2>4. DigitOf(q[k] % base) # NUL
    BY <2>3, DigitsAre
  <2>5. buf[i] = r[k + 1]
    BY <1>1, <2>1 DEF k
  <2> QED BY <2>2, <2>4, <2>5 DEF k
<1>3. l \in 0..23 /\ buf[l] = NUL /\ \A i \in 0..l-1 : buf[i] # NUL
  <2>1. CASE below = NUL
    BY <1>1, <1>2, <2>1
  <2>2. CASE below # NUL
    <3>1. L + 1 \in L+1..23 /\ \A i \in 0..(L+1)-1 : i \in 0..L-1 \/ i = L
      OBVIOUS
    <3>2. l = L + 1
      BY <2>2
    <3>3. \A i \in 0..(L+1)-1 : buf[i] # NUL
      BY <1>1, <1>2, <2>2, <3>1
    <3> QED BY <1>1, <3>1, <3>2, <3>3
  <2> QED BY <2>1, <2>2
<1>4. l \in Nat /\ l >= L /\ (below # NUL => l = L + 1)
  OBVIOUS
<1>5. Text(buf) = [i \in 1..l |-> buf[i - 1]]
  <2> HIDE DEF l
  <2> QED BY <1>3, TextIs
<1> DEFINE ret == Text(buf)
<1>6. Len(ret) = l /\ \A j \in 1..l : ret[j] = buf[j - 1]
  <2> HIDE DEF l
  <2> QED BY <1>4, <1>5
<1> HIDE DEF ret
<1>7. ASSUME NEW j \in 1..L  PROVE ret[j] = DigitOf(q[L - j] % base)
  <2>1. j - 1 \in 0..L-1 /\ L - 1 - (j - 1) = L - j /\ j \in 1..l
    BY <1>4
  <2>2. buf[j - 1] = DigitOf(q[L - 1 - (j - 1)] % base)
    BY <1>2, <2>1
  <2> QED BY <1>6, <2>1, <2>2
<1>8. ASSUME below # NUL  PROVE ret[L + 1] = below
  <2>1. L + 1 \in 1..l /\ (L + 1) - 1 = L
    BY <1>4, <1>8
  <2> QED BY <1>1, <1>6, <2>1
<1> QED BY <1>6, <1>7, <1>8 DEF ret, buf


\* The value of the digits of ret, as ItoaRight reads them
IsValue(g, ret, base, L) ==
  g = [i \in 0..L |-> IF i = 0 THEN 0 ELSE g[i - 1] * base + DigitValue(ret[i])]

\* ret begins with the digits of the quotients.
Shows(ret, q, L, base) == \A j \in 1..L : ret[j] = DigitOf(q[L - j] % base)

\* It goes back through the quotients.
LEMMA ValueIs ==
  ASSUME NEW num \in Nat, NEW base \in Bases, NEW L \in 1..20, NEW r, Digits(r, L, num, base),
         NEW q, Quotients(q, r, num, base), NEW ret,
         Shows(ret, q, L, base)
  PROVE  /\ \E g : IsValue(g, ret, base, L)
         /\ \A g : IsValue(g, ret, base, L) => g[L] = num
<1>1. /\ q[0] = num /\ q[L] = 0 /\ \A i \in 0..L : q[i] \in Nat
      /\ \A i \in 0..L-1 : q[i + 1] = q[i] \div base
  BY DEF Quotients, Digits
<1>2. ASSUME NEW i \in 1..L
      PROVE  q[L - i] = q[L - (i - 1)] * base + DigitValue(ret[i])
  <2> DEFINE k == L - i
  <2>1. k \in 0..L-1 /\ k \in 0..L /\ L - (i - 1) = k + 1
    OBVIOUS
  <2>2. ret[i] = DigitOf(q[k] % base)
    BY DEF Shows
  <2> HIDE DEF k
  <2>3. q[k] \in Nat /\ q[k + 1] = q[k] \div base
    BY <1>1, <2>1
  <2> DEFINE x == q[k]
  <2>4. x \in Nat
    BY <2>3
  <2> HIDE DEF x
  <2>5. x % base \in 0..15 /\ x = (x \div base) * base + (x % base)
    BY <2>4, DivMod
  <2>6. DigitValue(ret[i]) = x % base
    BY <2>2, <2>5, DigitsAre DEF x
  <2>7. x = q[k + 1] * base + DigitValue(ret[i])
    BY <2>3, <2>5, <2>6 DEF x
  <2> QED BY <2>1, <2>7 DEF k, x
<1> DEFINE h == [i \in 0..L |-> q[L - i]]
<1>3. IsValue(h, ret, base, L)
  <2>1. ASSUME NEW i \in 0..L
        PROVE  h[i] = IF i = 0 THEN 0 ELSE h[i - 1] * base + DigitValue(ret[i])
    <3>1. CASE i = 0
      <4>1. h[i] = q[L]
        BY <3>1
      <4> QED BY <1>1, <3>1, <4>1
    <3>2. CASE i # 0
      <4>1. i \in 1..L /\ i - 1 \in 0..L
        BY <3>2
      <4>2. h[i] = q[L - i] /\ h[i - 1] = q[L - (i - 1)]
        BY <4>1
      <4> HIDE DEF h
      <4> QED BY <1>2, <3>2, <4>1, <4>2
    <3> QED BY <3>1, <3>2
  <2>2. h = [i \in 0..L |-> h[i]]
    OBVIOUS
  <2> HIDE DEF h
  <2> QED BY <2>1, <2>2 DEF IsValue
<1>4. ASSUME NEW g, IsValue(g, ret, base, L)  PROVE g[L] = num
  <2> DEFINE S == {i \in 0..L : g[i] = q[L - i]}
  <2>1. ASSUME NEW i \in 0..L, i = 0 \/ i - 1 \in S  PROVE i \in S
    <3>1. g[i] = IF i = 0 THEN 0 ELSE g[i - 1] * base + DigitValue(ret[i])
      BY <1>4 DEF IsValue
    <3>2. CASE i = 0
      <4>1. L - i = L
        BY <3>2
      <4> QED BY <1>1, <3>1, <3>2, <4>1
    <3>3. CASE i # 0
      <4>1. i \in 1..L /\ g[i - 1] = q[L - (i - 1)]
        BY <2>1, <3>3
      <4> QED BY <1>2, <3>1, <3>3, <4>1
    <3> QED BY <3>2, <3>3
  <2>2. \A i \in 0..L : i \in S
    <3>1. 0 \in Int /\ L \in Int
      OBVIOUS
    <3> HIDE DEF S
    <3> QED BY <2>1, <3>1, Upwards
  <2>3. L \in 0..L /\ L - L = 0
    OBVIOUS
  <2> QED BY <1>1, <2>2, <2>3
<1> HIDE DEF h
<1> QED BY <1>3, <1>4

\* ItoaRight, of the arguments and the result
IsNumber(num, base, ret) ==
  LET len == Len(ret)
  IN /\ (CHOOSE g : IsValue(g, ret, base, len))[len] = num
     /\ len > 1 => ret[1] # "0"

LEMMA ItoaForm ==
  ItoaRight' <=> (call'.fn = "itoa" /\ call'.below = NUL =>
                    IsNumber(call'.num, call'.base, call'.ret))
BY DEF ItoaRight, IsNumber, IsValue, DigitValue

LEMMA PrintsNumber ==
  ASSUME NEW num \in Numbers, NEW base \in Bases
  PROVE  IsNumber(num, base, Text(itoa(ZeroBuffer(NUL), num, base)))
<1> DEFINE ret == Text(itoa(ZeroBuffer(NUL), num, base))
           r == Remainders(num, base)
           L == Len(r)
<1>1. num \in Nat /\ L <= 20
  BY NumberAssumption DEF Bases
<1>2. PICK q : Quotients(q, r, num, base)
  BY <1>1, RemaindersAre
<1>3. L >= 1 /\ L \in Nat
  BY <1>1, <1>2, RemaindersAre DEF Quotients
<1>4. Digits(r, L, num, base)
  BY DEF Digits
<1> HIDE DEF L, r
<1>5. L \in 1..20
  BY <1>1, <1>3
<1>6. /\ Len(ret) = L
      /\ \A j \in 1..L : ret[j] = DigitOf(q[L - j] % base)
  <2>1. ASSUME NEW below \in {NUL, "?"}
        PROVE  LET out == Text(itoa(ZeroBuffer(below), num, base))
               IN /\ Len(out) = IF below = NUL THEN L ELSE L + 1
                  /\ \A j \in 1..L : out[j] = DigitOf(q[L - j] % base)
                  /\ below # NUL => out[L + 1] = below
    <3> HIDE DEF ret
    <3> QED BY <1>1, <1>2, <1>4, <1>5, PrintedIs
  <2>2. NUL \in {NUL, "?"}
    OBVIOUS
  <2> QED BY <2>1, <2>2
<1> HIDE DEF ret
<1>7. L > 1 => ret[1] # "0"
  <2> SUFFICES ASSUME L > 1  PROVE ret[1] # "0"
    OBVIOUS
  <2> DEFINE k == L - 1  x == q[k]
  <2>1. k \in 0..L-1 /\ k \in 0..L /\ k + 1 = L
    BY <1>5
  <2>2. x \in Nat /\ x # 0 /\ x \div base = 0
    BY <1>2, <2>1 DEF Quotients, L
  <2>3. ret[1] = DigitOf(x % base)
    BY <1>5, <1>6
  <2> HIDE DEF k, x
  <2>4. x % base = x /\ x % base \in 0..15
    BY <2>2, DivMod
  <2> QED BY <2>2, <2>3, <2>4, DigitsAre
<1>8. (CHOOSE g : IsValue(g, ret, base, L))[L] = num
  <2>1. /\ \E g : IsValue(g, ret, base, L)
        /\ \A g : IsValue(g, ret, base, L) => g[L] = num
    <3>1. Shows(ret, q, L, base)
      BY <1>6 DEF Shows
    <3> QED BY <1>1, <1>2, <1>4, <1>5, <3>1, ValueIs
  <2> DEFINE f == CHOOSE g : IsValue(g, ret, base, L)
  <2>2. IsValue(f, ret, base, L)
    BY <2>1
  <2> HIDE DEF f
  <2>3. f[L] = num
    BY <2>1, <2>2
  <2> QED BY <2>3 DEF f
<1> QED BY <1>6, <1>7, <1>8 DEF IsNumber, ret

LEMMA NumberRight ==
  ASSUME Number  PROVE ItoaRight'
<1>1. PICK num \in Numbers, base \in {10, 16}, below \in {NUL, "?"} :
        Returns([fn |-> "itoa", num |-> num, base |-> base, below |-> below,
                 ret |-> Text(itoa(ZeroBuffer(below), num, base))], mem)
  BY DEF Number
<1> DEFINE ret == Text(itoa(ZeroBuffer(below), num, base))
<1>2. below = NUL => IsNumber(num, base, ret)
  BY PrintsNumber DEF Bases
<1> HIDE DEF ret
<1>3. call'.num = num /\ call'.base = base /\ call'.below = below /\ call'.ret = ret
  BY <1>1 DEF Returns, ret
<1> QED BY <1>2, <1>3, ItoaForm

-----------------------------------------------------------------------------
(* The theorems                                                            *)

LibraryOK == StringsOK /\ ItoaRight /\ TagFound /\ MemoryEndReal

LEMMA LibraryInit ==
  ASSUME Init  PROVE LibraryOK
<1>1. call.fn = "none" /\ mem \in Memory /\ before \in Memory
  BY ByteAssumption DEF Init, None, Memory
<1>2. SearchRight /\ CompareRight
  BY <1>1 DEF SearchRight, CompareRight
<1>3. StoreRight
  BY <1>1 DEF StoreRight
<1>4. ItoaRight /\ TagFound /\ MemoryEndReal
  BY <1>1 DEF ItoaRight, TagFound, MemoryEndReal
<1> QED BY <1>1, <1>2, <1>3, <1>4 DEF LibraryOK, StringsOK, LibOK

\* Calls on strings are calls neither of itoa nor of the parser.
LEMMA StringCalls ==
  ASSUME Search \/ Substring \/ Compare \/ Move \/ Fill \/ CopyString \/ Concatenate
  PROVE  call'.fn \notin {"itoa", "find_tag", "memory_end"}
<1>1. CASE Search
  BY <1>1 DEF Search, Returns
<1>2. CASE Substring
  BY <1>2 DEF Substring, Returns
<1>3. CASE Compare
  BY <1>3 DEF Compare, Returns
<1>4. CASE Move
  BY <1>4 DEF Move, Returns
<1>5. CASE Fill
  BY <1>5 DEF Fill, Returns
<1>6. CASE CopyString
  BY <1>6 DEF CopyString, Returns
<1>7. CASE Concatenate
  BY <1>7 DEF Concatenate, Returns
<1> QED BY <1>1, <1>2, <1>3, <1>4, <1>5, <1>6, <1>7

LEMMA OtherStep ==
  ASSUME LibOK, Number \/ FindTag \/ MemoryEnd  PROVE LibraryOK'
<1>1. CASE Number
  <2>1. PICK c : c.fn = "itoa" /\ Returns(c, mem)
    <3>1. PICK num \in Numbers, base \in {10, 16}, below \in {NUL, "?"} :
            Returns([fn |-> "itoa", num |-> num, base |-> base, below |-> below,
                     ret |-> Text(itoa(ZeroBuffer(below), num, base))], mem)
      BY <1>1 DEF Number
    <3> DEFINE d == [fn |-> "itoa", num |-> num, base |-> base, below |-> below,
                     ret |-> Text(itoa(ZeroBuffer(below), num, base))]
    <3>2. d.fn = "itoa" /\ Returns(d, mem)
      BY <3>1
    <3> HIDE DEF d
    <3> QED BY <3>2
  <2>2. StringsOK'
    BY <2>1, OtherCall DEF StringsOK, Searches, Compares, Stores
  <2>3. call'.fn = "itoa"
    BY <2>1 DEF Returns
  <2> QED BY <1>1, <2>2, <2>3, NumberRight, NoTag DEF LibraryOK
<1>2. CASE FindTag
  <2>1. PICK tags \in Infos, t \in TagTypes :
          Returns([fn |-> "find_tag", tags |-> tags, type |-> t,
                   ret |-> multiboot_find_tag(tags, t)], mem)
    BY <1>2 DEF FindTag
  <2>2. TagFound'
    BY <2>1, TagRight
  <2> DEFINE d == [fn |-> "find_tag", tags |-> tags, type |-> t,
                   ret |-> multiboot_find_tag(tags, t)]
  <2>3. d.fn = "find_tag" /\ Returns(d, mem)
    BY <2>1
  <2> HIDE DEF d
  <2>4. StringsOK'
    BY <2>3, OtherCall DEF StringsOK, Searches, Compares, Stores
  <2>5. MemoryEndReal' /\ ItoaRight'
    BY <2>3, NoNumber DEF MemoryEndReal, Returns
  <2> QED BY <2>2, <2>4, <2>5 DEF LibraryOK
<1>3. CASE MemoryEnd
  <2>1. PICK tags \in Infos :
          /\ \E i \in DOMAIN tags : tags[i].type = MULTIBOOT_TAG_TYPE_MMAP
          /\ Returns([fn |-> "memory_end", tags |-> tags,
                      ret |-> multiboot_get_memory_end(tags)], mem)
    BY <1>3 DEF MemoryEnd
  <2>2. MemoryEndReal'
    BY <2>1, EndRight
  <2> DEFINE d == [fn |-> "memory_end", tags |-> tags, ret |-> multiboot_get_memory_end(tags)]
  <2>3. d.fn = "memory_end" /\ Returns(d, mem)
    BY <2>1
  <2> HIDE DEF d
  <2>4. StringsOK'
    BY <2>3, OtherCall DEF StringsOK, Searches, Compares, Stores
  <2>5. TagFound' /\ ItoaRight'
    BY <2>3, NoNumber DEF TagFound, Returns
  <2> QED BY <2>2, <2>4, <2>5 DEF LibraryOK
<1> QED BY <1>1, <1>2, <1>3

LEMMA LibraryNext ==
  ASSUME LibraryOK, [Next]_vars  PROVE LibraryOK'
<1>0. LibOK
  BY DEF LibraryOK, StringsOK
<1>1. CASE Search \/ Substring \/ Compare \/ Move \/ Fill \/ CopyString \/ Concatenate
  <2>1. StringsOK'
    BY <1>0, <1>1, SearchStep, SubstringStep, CompareStep, MoveStep, FillStep,
       CopyStringStep, ConcatenateStep
  <2> QED BY <1>1, <2>1, StringCalls, NoNumber, NoTag DEF LibraryOK
<1>2. CASE Number \/ FindTag \/ MemoryEnd
  BY <1>0, <1>2, OtherStep
<1>3. CASE Done
  <2>1. call'.fn = "none" /\ mem' = mem /\ before' = mem
    BY <1>3 DEF Done, None
  <2>2. call'.fn \notin Searches \cup Compares \cup Stores \cup Reads
    BY <2>1 DEF Searches, Compares, Stores, Reads
  <2>3. call'.fn \notin {"find_tag", "memory_end"}
    BY <2>1
  <2>4. /\ SearchRight' /\ CompareRight' /\ StoreRight'
        /\ ItoaRight' /\ TagFound' /\ MemoryEndReal'
    BY <2>1, <2>2, <2>3, NoSearch, NoCompare, NoStore, NoNumber, NoTag
  <2> QED BY <1>0, <2>1, <2>4 DEF LibraryOK, StringsOK, LibOK
<1>4. CASE UNCHANGED vars
  <2>1. mem' = mem /\ call' = call /\ before' = before
    BY <1>4 DEF vars
  <2>2. LibOK' /\ TagFound'
    BY <2>1 DEF LibraryOK, StringsOK, LibOK, TagFound
  <2>3. MemoryEndReal'
    BY <2>1 DEF LibraryOK, MemoryEndReal, MemoryMap
  <2>4. \A s : Characters(s)' = Characters(s)
    BY <2>1 DEF Characters
  <2>5. \A s : Length(s)' = Length(s)
    BY <2>4 DEF Length
  <2>6. SearchRight'
    <3>1. \A S : Places(S)' = Places(S)
      BY <2>1 DEF Places
    <3> QED BY <2>1, <2>4, <2>5, <3>1 DEF LibraryOK, StringsOK, SearchRight
  <2>7. CompareRight'
    BY <2>1, <2>4, <2>5 DEF LibraryOK, StringsOK, CompareRight
  <2>8. StoreRight'
    BY <2>1, <2>4, <2>5 DEF LibraryOK, StringsOK, StoreRight
  <2>9. ItoaRight'
    BY <2>1, Zenon DEF LibraryOK, ItoaRight
  <2> QED BY <2>2, <2>3, <2>6, <2>7, <2>8, <2>9 DEF LibraryOK, StringsOK
<1> QED BY <1>1, <1>2, <1>3, <1>4 DEF Next

LEMMA LibraryAlways == Spec => []LibraryOK
<1>1. Init => LibraryOK
  BY LibraryInit
<1>2. LibraryOK /\ [Next]_vars => LibraryOK'
  BY LibraryNext
<1> QED BY <1>1, <1>2, PTL DEF Spec

\* memchr, strchr, strrchr and strstr of string.c return the first (last) place
\* of what they look for and NULL if it is nowhere, in a memory of any size;
\* strchr and strrchr for every character below 128, the others for every byte.
THEOREM SearchSafe == Spec => []SearchRight
<1>1. LibraryOK => SearchRight
  BY DEF LibraryOK, StringsOK
<1> QED BY <1>1, LibraryAlways, PTL

\* memcmp, strcmp and strncmp decide by the first difference, memcmp by unsigned
\* bytes and the others by signed characters that both strings have.
THEOREM CompareSafe == Spec => []CompareRight
<1>1. LibraryOK => CompareRight
  BY DEF LibraryOK, StringsOK
<1> QED BY <1>1, LibraryAlways, PTL

\* memcpy, memmove, strcpy and strncpy leave what the source held before the
\* call, memmove also where the two overlap, and touch no other byte.
THEOREM StoreSafe == Spec => []StoreRight
<1>1. LibraryOK => StoreRight
  BY DEF LibraryOK, StringsOK
<1> QED BY <1>1, LibraryAlways, PTL

\* What vprintk prints of any number of at most 20 digits that itoa converted, in
\* base 10 or 16, where the byte below str is 0: its digits, without leading zeros.
THEOREM ItoaSafe == Spec => []ItoaRight
<1>1. LibraryOK => ItoaRight
  BY DEF LibraryOK
<1> QED BY <1>1, LibraryAlways, PTL

\* multiboot_find_tag visits the tags where the loader put them, whatever their
\* number and sizes, and returns the first of the type.
THEOREM TagSafe == Spec => []TagFound
<1>1. LibraryOK => TagFound
  BY DEF LibraryOK
<1> QED BY <1>1, LibraryAlways, PTL

\* multiboot_get_memory_end returns the end of an available region or 0, for
\* memory maps of any length, though its walk skips entries.
THEOREM MemoryEndSafe == Spec => []MemoryEndReal
<1>1. LibraryOK => MemoryEndReal
  BY DEF LibraryOK
<1> QED BY <1>1, LibraryAlways, PTL
=============================================================================
