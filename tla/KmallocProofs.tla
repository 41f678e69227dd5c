--------------------------- MODULE KmallocProofs ---------------------------
(***************************************************************************)
(* Theorems about Kmalloc, for every page size, every set of requests in   *)
(* whole words and every bound of the heap.                                *)
(***************************************************************************)
EXTENDS Kmalloc, SequenceTheorems, TLAPS

(***************************************************************************)
(* How a set B of blocks lies in a heap that ends at "end".  kmalloc's     *)
(* first branch counts the header word into the size, so a block may claim *)
(* one word beyond its own: the size of the block there, or the word       *)
(* behind the heap.                                                        *)
(***************************************************************************)
LaidIn(B, sz, end) ==
  \A b \in B : /\ sz[b] >= SIZE_T /\ sz[b] % SIZE_T = 0 /\ b + BLOCK_T <= end
               /\ EndOf(b, sz[b]) <= end \/ b + sz[b] = end

LaidApart(B, sz) ==
  \A b, c \in B : b < c => /\ b + BLOCK_T <= c
                           /\ EndOf(b, sz[b]) <= c \/ b + sz[b] = c

Laid(B, sz, end) == LaidIn(B, sz, end) /\ LaidApart(B, sz)

\* Requests are served by blocks of at least their size.
Served == \A b \in Live : want[b] <= size[b]

HInv == TypeOK /\ NotFreeTwice /\ Laid(Blocks, size, heap_end) /\ Served

-----------------------------------------------------------------------------
(* Sequences                                                               *)

\* Taking one element out of a list without repetitions.
LEMMA RemoveAtList ==
  ASSUME NEW S, NEW s \in Seq(S), IsInjective(s), NEW i \in 1..Len(s)
  PROVE  /\ RemoveAt(s, i) \in Seq(S) /\ Len(RemoveAt(s, i)) = Len(s) - 1
         /\ Range(RemoveAt(s, i)) = Range(s) \ {s[i]}
         /\ IsInjective(RemoveAt(s, i))
         /\ \A k \in 1..Len(s)-1 : RemoveAt(s, i)[k] = IF k <= i-1 THEN s[k] ELSE s[k+1]
<1> DEFINE u == SubSeq(s, 1, i-1)  v == SubSeq(s, i+1, Len(s))  t == u \o v
<1>0. Len(s) \in Nat /\ DOMAIN s = 1..Len(s) /\ \A k \in 1..Len(s) : s[k] \in S
  BY LenProperties
<1>1. u \in Seq(S) /\ Len(u) = i-1 /\ \A k \in 1..i-1 : u[k] = s[k]
  <2>1. 1 \in Int /\ i-1 \in Int /\ \A k \in 1..i-1 : s[k] \in S
    BY <1>0
  <2> QED BY <2>1, SubSeqProperties
<1>2. v \in Seq(S) /\ Len(v) = Len(s)-i /\ \A k \in 1..Len(s)-i : v[k] = s[k+i]
  <2> DEFINE j == i+1
  <2>1. j \in Int /\ Len(s) \in Int /\ \A k \in j..Len(s) : s[k] \in S
    BY <1>0
  <2>2. v = SubSeq(s, j, Len(s))
    OBVIOUS
  <2> HIDE DEF j, v
  <2>3. /\ v \in Seq(S) /\ Len(v) = (IF j <= Len(s) THEN Len(s)-j+1 ELSE 0)
        /\ \A k \in 1..Len(s)-j+1 : v[k] = s[j+k-1]
    BY <2>1, <2>2, SubSeqProperties
  <2>4. Len(v) = Len(s)-i
    <3>1. j = i+1 /\ i \in 1..Len(s) /\ Len(s) \in Nat
      BY <1>0 DEF j
    <3>2. Len(v) = (IF j <= Len(s) THEN Len(s)-j+1 ELSE 0)
      BY <2>3
    <3>3. CASE j <= Len(s)
      BY <3>1, <3>2, <3>3
    <3>4. CASE ~(j <= Len(s))
      BY <3>1, <3>2, <3>4
    <3> QED BY <3>3, <3>4
  <2>5. ASSUME NEW k \in 1..Len(s)-i PROVE v[k] = s[k+i]
    <3>1. k \in 1..Len(s)-j+1 /\ j+k-1 = k+i
      BY <1>0 DEF j
    <3> QED BY <2>3, <3>1
  <2> QED BY <2>3, <2>4, <2>5
<1> HIDE DEF u, v
<1>3. /\ t \in Seq(S) /\ Len(t) = Len(s)-1
      /\ \A k \in 1..Len(s)-1 : t[k] = IF k <= i-1 THEN s[k] ELSE s[k+1]
  <2>1. /\ t \in Seq(S) /\ Len(t) = Len(u)+Len(v)
        /\ \A k \in 1..Len(u)+Len(v) : t[k] = IF k <= Len(u) THEN u[k] ELSE v[k-Len(u)]
    BY <1>1, <1>2, ConcatProperties
  <2> QED BY <1>0, <1>1, <1>2, <2>1
<1>4. RemoveAt(s, i) = t
  BY DEF RemoveAt, u, v
<1> HIDE DEF t
<1>5. DOMAIN t = 1..Len(s)-1
  BY <1>3, LenProperties
<1>6. Range(t) = Range(s) \ {s[i]}
  <2>1. ASSUME NEW k \in 1..Len(s)-1 PROVE t[k] \in Range(s) \ {s[i]}
    <3>1. PICK j \in 1..Len(s) : j # i /\ t[k] = s[j]
      <4>1. CASE k <= i-1
        BY <1>0, <1>3, <4>1
      <4>2. CASE ~(k <= i-1)
        <5>1. k+1 \in 1..Len(s) /\ k+1 # i /\ t[k] = s[k+1]
          BY <1>0, <1>3, <4>2
        <5> QED BY <5>1
      <4> QED BY <4>1, <4>2
    <3>2. s[j] # s[i]
      BY <1>0, <3>1 DEF IsInjective
    <3> QED BY <1>0, <3>1, <3>2 DEF Range
  <2>2. \A k \in 1..Len(s) : k # i => s[k] \in Range(t)
    <3> SUFFICES ASSUME NEW k \in 1..Len(s), k # i PROVE s[k] \in Range(t)
      OBVIOUS
    <3>1. CASE k < i
      <4>1. k \in DOMAIN t /\ t[k] = s[k]
        BY <1>0, <1>3, <1>5, <3>1
      <4> QED BY <4>1 DEF Range
    <3>2. CASE k > i
      <4>1. k-1 \in DOMAIN t /\ t[k-1] = s[k]
        BY <1>0, <1>3, <1>5, <3>2
      <4> QED BY <4>1 DEF Range
    <3> QED BY <3>1, <3>2
  <2> QED BY <1>0, <1>5, <2>1, <2>2 DEF Range
<1>7. IsInjective(t)
  <2> SUFFICES ASSUME NEW j \in 1..Len(s)-1, NEW k \in 1..Len(s)-1, j < k
               PROVE  t[j] # t[k]
    BY <1>0, <1>5 DEF IsInjective
  <2> DEFINE src(n) == IF n <= i-1 THEN n ELSE n+1
  <2>1. src(j) \in 1..Len(s) /\ src(k) \in 1..Len(s) /\ src(j) # src(k)
    BY <1>0
  <2>2. t[j] = s[src(j)] /\ t[k] = s[src(k)]
    BY <1>3
  <2> QED BY <1>0, <2>1, <2>2 DEF IsInjective
<1> QED BY <1>3, <1>4, <1>6, <1>7

\* Putting a new element into a list without repetitions.
LEMMA InsertAtList ==
  ASSUME NEW S, NEW s \in Seq(S), IsInjective(s), NEW i \in 1..Len(s)+1,
         NEW e \in S, e \notin Range(s)
  PROVE  /\ InsertAt(s, i, e) \in Seq(S) /\ Len(InsertAt(s, i, e)) = Len(s) + 1
         /\ Range(InsertAt(s, i, e)) = Range(s) \union {e}
         /\ IsInjective(InsertAt(s, i, e))
         /\ \A k \in 1..Len(s)+1 : InsertAt(s, i, e)[k] =
              IF k < i THEN s[k] ELSE IF k = i THEN e ELSE s[k-1]
<1> DEFINE u == SubSeq(s, 1, i-1)  v == SubSeq(s, i, Len(s))  t == u \o <<e>> \o v
<1>0. Len(s) \in Nat /\ DOMAIN s = 1..Len(s) /\ \A k \in 1..Len(s) : s[k] \in S
  BY LenProperties
<1>1. u \in Seq(S) /\ Len(u) = i-1 /\ \A k \in 1..i-1 : u[k] = s[k]
  <2>1. 1 \in Int /\ i-1 \in Int /\ \A k \in 1..i-1 : s[k] \in S
    BY <1>0
  <2> QED BY <2>1, SubSeqProperties
<1>2. v \in Seq(S) /\ Len(v) = Len(s)-i+1 /\ \A k \in 1..Len(s)-i+1 : v[k] = s[k+i-1]
  <2>1. i \in Int /\ Len(s) \in Int /\ \A k \in i..Len(s) : s[k] \in S
    BY <1>0
  <2>2. /\ v \in Seq(S) /\ Len(v) = (IF i <= Len(s) THEN Len(s)-i+1 ELSE 0)
        /\ \A k \in 1..Len(s)-i+1 : v[k] = s[i+k-1]
    BY <2>1, SubSeqProperties
  <2> QED BY <1>0, <2>2
<1> HIDE DEF u, v
<1>3. /\ t \in Seq(S) /\ Len(t) = Len(s)+1
      /\ \A k \in 1..Len(s)+1 : t[k] = IF k < i THEN s[k] ELSE IF k = i THEN e ELSE s[k-1]
  <2> DEFINE w == <<e>>  x == u \o w
  <2>1. w \in Seq(S) /\ Len(w) = 1 /\ w[1] = e
    OBVIOUS
  <2> HIDE DEF w
  <2>2. /\ x \in Seq(S) /\ Len(x) = i
        /\ \A k \in 1..i-1 : x[k] = s[k]
        /\ x[i] = e
    <3>1. /\ x \in Seq(S) /\ Len(x) = Len(u) + Len(w)
          /\ \A k \in 1..Len(u)+Len(w) : x[k] = IF k <= Len(u) THEN u[k] ELSE w[k-Len(u)]
      BY <1>1, <2>1, ConcatProperties
    <3> HIDE DEF x
    <3>2. Len(u) + Len(w) = i
      BY <1>1, <2>1
    <3>3. ASSUME NEW k \in 1..i-1 PROVE x[k] = s[k]
      <4>1. k \in 1..i /\ k <= Len(u)
        BY <1>1
      <4> QED BY <1>1, <3>1, <3>2, <4>1
    <3>4. i \in 1..i /\ ~(i <= Len(u)) /\ i - Len(u) = 1
      BY <1>1
    <3> QED BY <2>1, <3>1, <3>2, <3>3, <3>4
  <2>3. /\ t \in Seq(S) /\ Len(t) = Len(x) + Len(v)
        /\ \A k \in 1..Len(x)+Len(v) : t[k] = IF k <= Len(x) THEN x[k] ELSE v[k-Len(x)]
    <3>1. t = x \o v
      BY DEF w
    <3> HIDE DEF x, t
    <3> QED BY <1>2, <2>2, <3>1, ConcatProperties
  <2> HIDE DEF x
  <2> HIDE DEF t
  <2>4. Len(t) = Len(s)+1
    BY <1>0, <1>2, <2>2, <2>3
  <2> SUFFICES ASSUME NEW k \in 1..Len(s)+1
               PROVE  t[k] = IF k < i THEN s[k] ELSE IF k = i THEN e ELSE s[k-1]
    BY <2>3, <2>4
  <2>0. k \in 1..Len(x)+Len(v)
    BY <1>0, <1>2, <2>2
  <2>5. CASE k < i
    BY <2>0, <2>2, <2>3, <2>5
  <2>6. CASE k = i
    BY <2>0, <2>2, <2>3, <2>6
  <2>7. CASE k > i
    <3>1. k-i \in 1..Len(s)-i+1 /\ (k-i)+i-1 = k-1 /\ ~(k <= Len(x))
      BY <1>0, <2>2, <2>7
    <3>2. t[k] = v[k-i]
      BY <2>0, <2>2, <2>3, <3>1
    <3> QED BY <1>2, <2>7, <3>1, <3>2
  <2> QED BY <2>5, <2>6, <2>7
<1>4. InsertAt(s, i, e) = t
  BY DEF InsertAt, u, v
<1> HIDE DEF t
<1>5. DOMAIN t = 1..Len(s)+1
  BY <1>3, LenProperties
<1>6. Range(t) = Range(s) \union {e}
  <2>1. ASSUME NEW k \in 1..Len(s)+1 PROVE t[k] \in Range(s) \union {e}
    <3>1. CASE k = i
      BY <1>3, <3>1
    <3>2. CASE k # i
      <4>1. PICK j \in 1..Len(s) : t[k] = s[j]
        <5>1. CASE k < i
          BY <1>0, <1>3, <5>1
        <5>2. CASE k > i
          <6>1. k-1 \in 1..Len(s) /\ t[k] = s[k-1]
            BY <1>0, <1>3, <5>2
          <6> QED BY <6>1
        <5> QED BY <3>2, <5>1, <5>2
      <4> QED BY <1>0, <4>1 DEF Range
    <3> QED BY <3>1, <3>2
  <2>2. e \in Range(t)
    <3>1. i \in DOMAIN t /\ t[i] = e
      BY <1>0, <1>3, <1>5
    <3> QED BY <3>1 DEF Range
  <2>3. \A k \in 1..Len(s) : s[k] \in Range(t)
    <3> SUFFICES ASSUME NEW k \in 1..Len(s) PROVE s[k] \in Range(t)
      OBVIOUS
    <3>1. CASE k < i
      <4>1. k \in DOMAIN t /\ t[k] = s[k]
        BY <1>0, <1>3, <1>5, <3>1
      <4> QED BY <4>1 DEF Range
    <3>2. CASE k >= i
      <4>1. k+1 \in DOMAIN t /\ t[k+1] = s[k]
        BY <1>0, <1>3, <1>5, <3>2
      <4> QED BY <4>1 DEF Range
    <3> QED BY <3>1, <3>2
  <2> QED BY <1>0, <1>5, <2>1, <2>2, <2>3 DEF Range
<1>7. IsInjective(t)
  <2>1. \A k \in 1..Len(s) : s[k] # e
    BY <1>0 DEF Range
  <2> SUFFICES ASSUME NEW j \in 1..Len(s)+1, NEW k \in 1..Len(s)+1, j < k
               PROVE  t[j] # t[k]
    BY <1>0, <1>5 DEF IsInjective
  <2> DEFINE src(n) == IF n < i THEN n ELSE n-1
  <2>2. CASE j # i /\ k # i
    <3>1. src(j) \in 1..Len(s) /\ src(k) \in 1..Len(s) /\ src(j) # src(k)
      BY <1>0, <2>2
    <3>2. t[j] = s[src(j)] /\ t[k] = s[src(k)]
      BY <1>3, <2>2
    <3> QED BY <1>0, <3>1, <3>2 DEF IsInjective
  <2>3. CASE j = i
    <3>1. k-1 \in 1..Len(s) /\ t[k] = s[k-1] /\ t[j] = e
      BY <1>0, <1>3, <2>3
    <3> QED BY <2>1, <3>1
  <2>4. CASE k = i
    <3>1. j \in 1..Len(s) /\ t[j] = s[j] /\ t[k] = e
      BY <1>0, <1>3, <2>4
    <3> QED BY <2>1, <3>1
  <2> QED BY <2>2, <2>3, <2>4
<1> QED BY <1>3, <1>4, <1>6, <1>7

\* Replacing an element of a list without repetitions by a new one.
LEMMA ReplaceList ==
  ASSUME NEW S, NEW s \in Seq(S), IsInjective(s), NEW i \in 1..Len(s),
         NEW e \in S, e \notin Range(s)
  PROVE  /\ [s EXCEPT ![i] = e] \in Seq(S)
         /\ Range([s EXCEPT ![i] = e]) = (Range(s) \ {s[i]}) \union {e}
         /\ IsInjective([s EXCEPT ![i] = e])
<1> DEFINE t == [s EXCEPT ![i] = e]
<1>0. Len(s) \in Nat /\ DOMAIN s = 1..Len(s)
  BY LenProperties
<1>1. /\ t \in Seq(S) /\ DOMAIN t = 1..Len(s)
      /\ \A k \in 1..Len(s) : t[k] = IF k = i THEN e ELSE s[k]
  BY <1>0, ExceptSeq
<1> HIDE DEF t
<1>2. \A k \in 1..Len(s) : s[k] # e
  BY <1>0 DEF Range
<1>3. IsInjective(t)
  BY <1>0, <1>1, <1>2 DEF IsInjective
<1>4. Range(t) = (Range(s) \ {s[i]}) \union {e}
  BY <1>0, <1>1 DEF IsInjective, Range
<1> QED BY <1>1, <1>3, <1>4 DEF t

-----------------------------------------------------------------------------
(* Layouts: what a split, an extension and a coalescing do to them         *)

\* The weaker half of LaidApart, for arithmetic.
LEMMA ApartLe ==
  ASSUME NEW B, B \subseteq Addr, NEW sz \in [Addr -> Nat], LaidApart(B, sz),
         NEW b \in B, NEW c \in B, b < c
  PROVE  b + sz[b] <= c /\ b + BLOCK_T <= c
<1>1. b \in Int /\ sz[b] \in Nat /\ c \in Int
  BY HeapAssumption DEF Addr
<1>2. b + BLOCK_T <= c /\ (EndOf(b, sz[b]) <= c \/ b + sz[b] = c)
  BY DEF LaidApart
<1> QED BY <1>1, <1>2 DEF EndOf, SIZE_T

\* What split_block leaves of whole words is a whole block_t and more.
LEMMA WholeRest ==
  ASSUME NEW m \in Nat, NEW n \in Nat, m % 8 = 0, n % 8 = 0, m - n > 16
  PROVE  m - n >= 24 /\ (m - n - 8) \in Nat /\ (m - n - 8) % 8 = 0
OBVIOUS

\* split_block: the remainder gets a place of its own, behind the block and
\* before the next one, and its header is inside the heap because the test
\* asks for more than a block_t, which is a word more.
LEMMA SplitLaid ==
  ASSUME NEW B, B \subseteq Addr, NEW sz \in [Addr -> Nat], NEW end \in Addr,
         Laid(B, sz, end), NEW b \in B, NEW n \in Nat \ {0}, n % SIZE_T = 0,
         sz[b] - n > BLOCK_T
  PROVE  LET r == EndOf(b, n)
             z == [sz EXCEPT ![b] = n, ![r] = sz[b] - n - SIZE_T]
         IN /\ r \in Addr \ B /\ z \in [Addr -> Nat] /\ z[b] = n
            /\ \A c \in B : c # b => z[c] = sz[c]
            /\ Laid(B \union {r}, z, end)
<1> USE HeapAssumption DEF BLOCK_T, SIZE_T, EndOf
<1> DEFINE r == EndOf(b, n)
           z == [sz EXCEPT ![b] = n, ![r] = sz[b] - n - SIZE_T]
<1>0. /\ b \in Nat /\ sz[b] \in Nat /\ end \in Nat /\ end <= MaxHeap
      /\ b + 8 + sz[b] <= end \/ b + sz[b] = end
      /\ b + 16 <= end /\ sz[b] % 8 = 0
  BY DEF Addr, Laid, LaidIn
<1>a. sz[b] - n >= 24 /\ sz[b] - n - 8 \in Nat /\ (sz[b] - n - 8) % 8 = 0 /\ n >= 8
  <2>1. n >= 8
    OBVIOUS
  <2> QED BY <1>0, <2>1, WholeRest
<1>1. r \in Addr /\ r = b + 8 + n /\ r + 16 <= end /\ r # b
  <2>1. r = b + 8 + n
    OBVIOUS
  <2> HIDE DEF r
  <2>2. b + sz[b] <= end
    BY <1>0
  <2> QED BY <1>0, <1>a, <2>1, <2>2 DEF Addr
<1>2. ASSUME NEW c \in B, b < c PROVE b + sz[b] <= c
  BY <1>2, ApartLe DEF Laid
<1>3. r \notin B
  <2> SUFFICES ASSUME r \in B PROVE FALSE
    OBVIOUS
  <2>1. b < r
    BY <1>0, <1>1
  <2>2. b + sz[b] <= r
    BY <1>2, <2>1
  <2> HIDE DEF r
  <2> QED BY <1>0, <1>1, <1>a, <2>2
<1>4. /\ z \in [Addr -> Nat] /\ z[b] = n /\ z[r] = sz[b] - n - 8
      /\ \A c \in Addr : c # b /\ c # r => z[c] = sz[c]
  BY <1>0, <1>1, <1>a
<1> HIDE DEF r, z
<1>b. r + z[r] = b + sz[b]
  BY <1>0, <1>1, <1>4
<1>5. LaidIn(B \union {r}, z, end)
  <2> SUFFICES ASSUME NEW c \in B \union {r}
               PROVE  /\ z[c] >= SIZE_T /\ z[c] % SIZE_T = 0 /\ c + BLOCK_T <= end
                      /\ EndOf(c, z[c]) <= end \/ c + z[c] = end
    BY DEF LaidIn
  <2>1. CASE c = b
    BY <1>0, <1>1, <1>4, <1>a, <2>1
  <2>2. CASE c = r
    <3>1. z[r] >= 8 /\ z[r] % 8 = 0
      BY <1>0, <1>4, <1>a
    <3>2. r + 8 + z[r] <= end \/ r + z[r] = end
      BY <1>0, <1>1, <1>4, <1>b
    <3> QED BY <1>1, <2>2, <3>1, <3>2
  <2>3. CASE c # b /\ c # r
    BY <1>4, <2>3 DEF Laid, LaidIn
  <2> QED BY <2>1, <2>2, <2>3
<1>6. LaidApart(B \union {r}, z)
  <2> SUFFICES ASSUME NEW c \in B \union {r}, NEW d \in B \union {r}, c < d
               PROVE  c + 16 <= d /\ (c + 8 + z[c] <= d \/ c + z[c] = d)
    BY DEF LaidApart
  <2>0. c \in Nat /\ d \in Nat
    BY <1>1 DEF Addr
  <2>1. CASE c = b
    <3>1. CASE d = r
      BY <1>0, <1>1, <1>4, <1>a, <2>1, <3>1
    <3>2. CASE d # r
      <4>1. d \in B /\ b < d
        BY <2>1, <3>2
      <4>2. b + sz[b] <= d
        BY <1>2, <4>1
      <4> QED BY <1>0, <1>4, <1>a, <2>0, <2>1, <4>2
    <3> QED BY <3>1, <3>2
  <2>2. CASE c = r
    <3>1. d \in B /\ b < d
      BY <1>0, <1>1, <2>0, <2>2
    <3>2. b + 8 + sz[b] <= d \/ b + sz[b] = d
      BY <3>1 DEF Laid, LaidApart
    <3>3. r + 16 <= b + sz[b]
      BY <1>0, <1>1, <1>a
    <3>4. r + 16 <= d
      BY <1>0, <1>1, <2>0, <3>2, <3>3
    <3>5. r \in Nat /\ z[r] \in Nat
      BY <1>1, <1>4 DEF Addr
    <3>6. r + 8 + z[r] <= d \/ r + z[r] = d
      BY <1>0, <1>b, <2>0, <3>2, <3>5
    <3> QED BY <2>2, <3>4, <3>6
  <2>3. CASE c # b /\ c # r
    <3>1. c \in B /\ z[c] = sz[c] /\ sz[c] \in Nat
      BY <1>4, <2>3
    <3>2. CASE d = r
      <4>1. CASE c < b
        <5>1. c + sz[c] <= b /\ c + 16 <= b
          BY <3>1, <4>1, ApartLe DEF Laid
        <5> QED BY <1>0, <1>1, <2>0, <3>1, <3>2, <5>1
      <4>2. CASE b < c
        <5>1. b + sz[b] <= c
          BY <1>2, <3>1, <4>2
        <5> QED BY <1>0, <1>1, <1>a, <2>0, <3>2, <5>1
      <4> QED BY <1>0, <2>0, <2>3, <4>1, <4>2
    <3>3. CASE d # r
      BY <3>1, <3>3 DEF Laid, LaidApart
    <3> QED BY <3>2, <3>3
  <2> QED BY <2>1, <2>2, <2>3
<1> QED BY <1>1, <1>3, <1>4, <1>5, <1>6 DEF Laid, r, z

\* A new block at the old end of the heap.
LEMMA ExtendLaid ==
  ASSUME NEW B, B \subseteq Addr, NEW sz \in [Addr -> Nat], NEW end \in Addr,
         NEW new \in Addr,
         Laid(B, sz, end), NEW n \in Nat \ {0}, n % SIZE_T = 0,
         end + BLOCK_T <= new, EndOf(end, n) <= new \/ end + n = new
  PROVE  LET z == [sz EXCEPT ![end] = n]
         IN /\ z \in [Addr -> Nat] /\ z[end] = n /\ end \notin B
            /\ \A c \in B : z[c] = sz[c]
            /\ Laid(B \union {end}, z, new)
<1> USE HeapAssumption DEF BLOCK_T, SIZE_T, EndOf
<1> DEFINE z == [sz EXCEPT ![end] = n]
<1>0. end \in Nat /\ new \in Nat /\ n >= 8
  BY DEF Addr
<1>1. \A c \in B : /\ c \in Nat /\ sz[c] \in Nat /\ c + 16 <= end
                   /\ c + 8 + sz[c] <= end \/ c + sz[c] = end
                   /\ sz[c] >= 8 /\ sz[c] % 8 = 0
  BY DEF Laid, LaidIn, Addr
<1>2. end \notin B
  BY <1>0, <1>1
<1>3. z \in [Addr -> Nat] /\ z[end] = n /\ \A c \in B : z[c] = sz[c]
  BY <1>2
<1> HIDE DEF z
<1>4. LaidIn(B \union {end}, z, new)
  BY <1>0, <1>1, <1>3 DEF LaidIn
<1>5. LaidApart(B \union {end}, z)
  <2> SUFFICES ASSUME NEW c \in B \union {end}, NEW d \in B \union {end}, c < d
               PROVE  c + 16 <= d /\ (c + 8 + z[c] <= d \/ c + z[c] = d)
    BY DEF LaidApart
  <2>1. c \in B
    BY <1>0, <1>1
  <2>2. CASE d = end
    BY <1>0, <1>1, <1>3, <2>1, <2>2
  <2>3. CASE d # end
    BY <1>3, <2>1, <2>3 DEF Laid, LaidApart
  <2> QED BY <2>2, <2>3
<1> QED BY <1>2, <1>3, <1>4, <1>5 DEF Laid, z

\* coalesce_blocks: the absorbed block hands its place over.
LEMMA CoalesceLaid ==
  ASSUME NEW B, B \subseteq Addr, NEW sz \in [Addr -> Nat], NEW end \in Addr,
         Laid(B, sz, end), NEW b \in B, NEW c \in B, are_adjacent(sz, b, c)
  PROVE  LET z == [sz EXCEPT ![b] = @ + sz[c] + SIZE_T, ![c] = 0]
         IN /\ z \in [Addr -> Nat] /\ \A d \in B \ {b, c} : z[d] = sz[d]
            /\ Laid(B \ {c}, z, end)
<1> USE HeapAssumption DEF BLOCK_T, SIZE_T, EndOf, are_adjacent
<1> DEFINE z == [sz EXCEPT ![b] = @ + sz[c] + SIZE_T, ![c] = 0]
<1>0. /\ b \in Nat /\ c \in Nat /\ end \in Nat /\ sz[b] \in Nat /\ sz[c] \in Nat
      /\ c = b + 8 + sz[b] /\ (c + 8 + sz[c] <= end \/ c + sz[c] = end)
      /\ b + 16 <= end /\ c + 16 <= end /\ sz[b] >= 8 /\ sz[c] >= 8
      /\ sz[b] % 8 = 0 /\ sz[c] % 8 = 0
      /\ b \in Addr /\ c \in Addr
  BY DEF Laid, LaidIn, Addr
<1>a. c = b + 8 + sz[b] /\ b < c
  BY <1>0
<1>1. /\ z \in [Addr -> Nat] /\ z[b] = sz[b] + sz[c] + 8
      /\ \A d \in Addr : d # b /\ d # c => z[d] = sz[d]
  BY <1>0, <1>a
<1> HIDE DEF z
<1>b. z[b] >= 8 /\ z[b] % 8 = 0 /\ b + z[b] = c + sz[c]
  <2>1. \A x, y \in Nat : x % 8 = 0 /\ y % 8 = 0 => (x + y + 8) % 8 = 0
    OBVIOUS
  <2>2. (sz[b] + sz[c] + 8) % 8 = 0
    BY <1>0, <2>1
  <2> QED BY <1>0, <1>1, <1>a, <2>2
<1>2. ASSUME NEW d \in B, b < d, d # c PROVE c < d
  <2>0. d \in Nat
    BY DEF Addr
  <2> SUFFICES ASSUME d < c PROVE FALSE
    BY <1>0, <1>2, <2>0
  <2>1. b + sz[b] <= d
    BY <1>2, ApartLe DEF Laid
  <2>2. d + 16 <= c
    BY ApartLe DEF Laid
  <2> QED BY <1>0, <1>a, <2>0, <2>1, <2>2
<1>3. LaidIn(B \ {c}, z, end)
  <2> SUFFICES ASSUME NEW d \in B \ {c}
               PROVE  /\ z[d] >= 8 /\ z[d] % 8 = 0 /\ d + 16 <= end
                      /\ d + 8 + z[d] <= end \/ d + z[d] = end
    BY DEF LaidIn
  <2>1. CASE d = b
    <3>1. z[b] \in Nat
      BY <1>0, <1>1
    <3>2. b + 8 + z[b] <= end \/ b + z[b] = end
      BY <1>0, <1>b, <3>1 DEF Laid, LaidIn
    <3> QED BY <1>0, <1>b, <2>1, <3>2
  <2>2. CASE d # b
    BY <1>1, <2>2 DEF Laid, LaidIn
  <2> QED BY <2>1, <2>2
<1>4. LaidApart(B \ {c}, z)
  <2> SUFFICES ASSUME NEW d \in B \ {c}, NEW e \in B \ {c}, d < e
               PROVE  d + 16 <= e /\ (d + 8 + z[d] <= e \/ d + z[d] = e)
    BY DEF LaidApart
  <2>1. CASE d = b
    <3>1. c < e
      BY <1>2, <2>1
    <3>2. c + 16 <= e /\ (c + 8 + sz[c] <= e \/ c + sz[c] = e)
      BY <3>1 DEF Laid, LaidApart
    <3>3. z[b] \in Nat /\ e \in Nat
      BY <1>0, <1>1 DEF Addr
    <3> QED BY <1>0, <1>a, <1>b, <2>1, <3>2, <3>3
  <2>2. CASE d # b
    BY <1>1, <2>2 DEF Laid, LaidApart
  <2> QED BY <2>1, <2>2
<1> QED BY <1>1, <1>3, <1>4 DEF Laid, z

-----------------------------------------------------------------------------
(* The steps                                                               *)

\* Adding whole pages to a page-aligned address.
LEMMA AddPages ==
  ASSUME NEW P \in Nat \ {0}, NEW a \in Nat, NEW k \in Nat, a % P = 0
  PROVE  (a + k * P) % P = 0
<1>1. a = P * (a \div P)
  OBVIOUS
<1>2. PICK j \in Int : a = j * P
  BY <1>1
<1>3. a + k * P = (j + k) * P /\ j + k \in Int
  BY <1>2
<1>4. \A m \in Int : (m * P) % P = 0
  OBVIOUS
<1> QED BY <1>3, <1>4

\* Pages are whole words.
LEMMA WholePages ==
  ASSUME NEW P \in Nat \ {0}, NEW k \in Nat, P % 8 = 0
  PROVE  (k * P) % 8 = 0
<1>1. P = 8 * (P \div 8)
  OBVIOUS
<1>2. PICK j \in Int : P = j * 8
  BY <1>1
<1>3. k * P = (k * j) * 8 /\ k * j \in Int
  BY <1>2
<1>4. \A m \in Int : (m * 8) % 8 = 0
  OBVIOUS
<1> QED BY <1>3, <1>4

\* sbrk keeps the break page-aligned, and moves it by whole words and by at
\* least what was asked.
LEMMA SbrkRounds ==
  ASSUME WholeWords, TypeOK, NEW n \in Nat
  PROVE  /\ sbrk(n) \in Nat /\ sbrk(n) >= heap_end + n /\ sbrk(n) % PAGE_SIZE = 0
         /\ (sbrk(n) - heap_end) % SIZE_T = 0
<1>1. /\ heap_end \in Nat /\ heap_end % PAGE_SIZE = 0
      /\ PAGE_SIZE \in Nat \ {0} /\ PAGE_SIZE % 8 = 0
  BY HeapAssumption, PageAssumption DEF TypeOK, Addr, WholeWords, SIZE_T
<1> DEFINE q == (n + PAGE_SIZE - 1) \div PAGE_SIZE
<1>2. q \in Nat /\ q * PAGE_SIZE >= n
  BY <1>1
<1>3. sbrk(n) = heap_end + q * PAGE_SIZE
  BY DEF sbrk
<1> HIDE DEF q
<1>4. (heap_end + q * PAGE_SIZE) % PAGE_SIZE = 0
  BY <1>1, <1>2, AddPages
<1>5. heap_end + q * PAGE_SIZE \in Nat /\ heap_end + q * PAGE_SIZE >= heap_end + n
  BY <1>1, <1>2
<1>6. (q * PAGE_SIZE) % 8 = 0
  BY <1>1, <1>2, WholePages
<1>7. sbrk(n) - heap_end = q * PAGE_SIZE
  BY <1>1, <1>2, <1>3
<1> QED BY <1>3, <1>4, <1>5, <1>6, <1>7 DEF SIZE_T

\* A heap h beside the blocks L in use.
HeapOK(h, L, end) ==
  /\ h = [list |-> h.list, size |-> h.size]
  /\ h.list \in Seq(Addr) /\ h.size \in [Addr -> Nat] /\ L \subseteq Addr /\ end \in Addr
  /\ IsInjective(h.list) /\ Range(h.list) \intersect L = {}
  /\ Laid(Range(h.list) \union L, h.size, end)

\* coalesce_blocks on a list: its blocks stay laid out together with the
\* blocks in use, whose sizes it does not touch.
LEMMA CoalesceList ==
  ASSUME NEW h, NEW L, NEW end, HeapOK(h, L, end), NEW p \in 1..Len(h.list)
  PROVE  LET g == coalesce_blocks(h, p)
         IN /\ HeapOK(g, L, end) /\ p <= Len(g.list)
            /\ \A b \in L : g.size[b] = h.size[b]
<1> DEFINE list == h.list  sz == h.size  b == list[p]  c == list[p+1]
           z == [sz EXCEPT ![b] = @ + sz[c] + SIZE_T, ![c] = 0]
           g == coalesce_blocks(h, p)
<1>0. /\ h = [list |-> list, size |-> sz] /\ list \in Seq(Addr) /\ sz \in [Addr -> Nat]
      /\ L \subseteq Addr /\ end \in Addr
      /\ IsInjective(list) /\ Range(list) \intersect L = {}
      /\ Laid(Range(list) \union L, sz, end)
  BY DEF HeapOK
<1>1. Len(list) \in Nat /\ DOMAIN list = 1..Len(list) /\ Range(list) \subseteq Addr
  BY <1>0, LenProperties DEF Range
<1>2. g = IF p < Len(list) /\ are_adjacent(sz, b, c)
          THEN [list |-> RemoveAt(list, p+1), size |-> z] ELSE h
  BY DEF coalesce_blocks
<1> SUFFICES /\ HeapOK(g, L, end) /\ p <= Len(g.list)
             /\ \A d \in L : g.size[d] = sz[d]
  OBVIOUS
<1> HIDE DEF g
<1>3. CASE p < Len(list) /\ are_adjacent(sz, b, c)
  <2>1. p+1 \in 1..Len(list) /\ b \in Range(list) /\ c \in Range(list)
    BY <1>1, <1>3 DEF Range
  <2>2. g = [list |-> RemoveAt(list, p+1), size |-> z]
    BY <1>2, <1>3
  <2> HIDE DEF list, sz
  <2>3. /\ RemoveAt(list, p+1) \in Seq(Addr) /\ Len(RemoveAt(list, p+1)) = Len(list) - 1
        /\ Range(RemoveAt(list, p+1)) = Range(list) \ {c}
        /\ IsInjective(RemoveAt(list, p+1))
    BY <1>0, <2>1, RemoveAtList
  <2> HIDE DEF b, c
  <2>4. /\ z \in [Addr -> Nat]
        /\ \A d \in (Range(list) \union L) \ {b, c} : z[d] = sz[d]
        /\ Laid((Range(list) \union L) \ {c}, z, end)
    <3>1. /\ Range(list) \union L \subseteq Addr
          /\ b \in Range(list) \union L /\ c \in Range(list) \union L
      BY <1>0, <1>1, <2>1
    <3> QED BY <1>0, <1>3, <3>1, CoalesceLaid
  <2> HIDE DEF z
  <2>5. (Range(list) \union L) \ {c} = (Range(list) \ {c}) \union L
    BY <1>0, <2>1
  <2>6. \A d \in L : z[d] = sz[d]
    BY <1>0, <2>1, <2>4
  <2>7. p <= Len(list) - 1
    BY <1>1, <1>3
  <2>8. g.list = RemoveAt(list, p+1) /\ g.size = z
    BY <2>2
  <2>9. Range(g.list) \intersect L = {}
    BY <1>0, <2>3, <2>8
  <2> QED BY <1>0, <2>2, <2>3, <2>4, <2>5, <2>6, <2>7, <2>8, <2>9 DEF HeapOK
<1>4. CASE ~(p < Len(list) /\ are_adjacent(sz, b, c))
  <2>1. g = h
    BY <1>2, <1>4
  <2> QED BY <1>1, <2>1
<1> QED BY <1>3, <1>4

\* Requests for whole words.
Asked == {n \in Nat \ {0} : n % SIZE_T = 0}

\* split_block reserves a block for n bytes.
LEMMA SplitList ==
  ASSUME NEW h, NEW L, NEW end, HeapOK(h, L, end), NEW i \in 1..Len(h.list),
         NEW n \in Asked, h.size[h.list[i]] >= n
  PROVE  LET g == split_block(h, i, n)
         IN /\ HeapOK(g, L \union {h.list[i]}, end)
            /\ g.size[h.list[i]] >= n /\ \A b \in L : g.size[b] = h.size[b]
<1> USE DEF Asked
<1> DEFINE list == h.list  sz == h.size  b == list[i]  r == EndOf(b, n)
           z == [sz EXCEPT ![b] = n, ![r] = sz[b] - n - SIZE_T]
           B == Range(list) \union L
           g == split_block(h, i, n)
<1>0. /\ h = [list |-> list, size |-> sz] /\ list \in Seq(Addr) /\ sz \in [Addr -> Nat]
      /\ L \subseteq Addr /\ end \in Addr
      /\ IsInjective(list) /\ Range(list) \intersect L = {}
      /\ Laid(B, sz, end) /\ sz[b] >= n
  BY DEF HeapOK
<1>a. Len(list) \in Nat /\ DOMAIN list = 1..Len(list) /\ Range(list) \subseteq Addr
  BY <1>0, LenProperties DEF Range
<1>1. b \in Range(list) /\ b \in B /\ B \subseteq Addr /\ b \in Addr
  BY <1>0, <1>a DEF Range
<1>b. g = IF sz[b] - n > BLOCK_T
          THEN [list |-> [list EXCEPT ![i] = r], size |-> z]
          ELSE [h EXCEPT !.list = RemoveAt(list, i)]
  BY DEF split_block
<1> SUFFICES /\ HeapOK(g, L \union {b}, end)
             /\ g.size[b] >= n /\ \A c \in L : g.size[c] = sz[c]
  OBVIOUS
<1> HIDE DEF g, list, sz
<1>2. CASE sz[b] - n > BLOCK_T
  <2>1. g = [list |-> [list EXCEPT ![i] = r], size |-> z]
    BY <1>b, <1>2
  <2>2. /\ r \in Addr \ B /\ z \in [Addr -> Nat] /\ z[b] = n
        /\ \A c \in B : c # b => z[c] = sz[c]
        /\ Laid(B \union {r}, z, end)
    BY <1>0, <1>1, <1>2, SplitLaid
  <2> HIDE DEF r, z
  <2>3. /\ [list EXCEPT ![i] = r] \in Seq(Addr)
        /\ Range([list EXCEPT ![i] = r]) = (Range(list) \ {b}) \union {r}
        /\ IsInjective([list EXCEPT ![i] = r])
    <3>1. i \in 1..Len(list) /\ r \in Addr /\ r \notin Range(list)
      BY <2>2 DEF list
    <3> QED BY <1>0, <3>1, ReplaceList
  <2>4. B \union {r} = ((Range(list) \ {b}) \union {r}) \union (L \union {b})
    BY <1>1
  <2>5. ((Range(list) \ {b}) \union {r}) \intersect (L \union {b}) = {}
    BY <1>0, <1>1, <2>2
  <2>6. n >= n /\ \A c \in L : z[c] = sz[c]
    BY <1>0, <1>1, <2>2
  <2>7. g.list = [list EXCEPT ![i] = r] /\ g.size = z
    BY <2>1
  <2> HIDE DEF b, B
  <2> QED BY <1>0, <1>1, <2>1, <2>2, <2>3, <2>4, <2>5, <2>6, <2>7 DEF HeapOK
<1>3. CASE ~(sz[b] - n > BLOCK_T)
  <2>0. g = [h EXCEPT !.list = RemoveAt(list, i)]
    BY <1>b, <1>3
  <2>1. g.list = RemoveAt(list, i) /\ g.size = sz /\ g = [list |-> g.list, size |-> g.size]
    BY <1>0, <2>0
  <2>2. /\ RemoveAt(list, i) \in Seq(Addr)
        /\ Range(RemoveAt(list, i)) = Range(list) \ {b}
        /\ IsInjective(RemoveAt(list, i))
    <3>1. i \in 1..Len(list)
      BY DEF list
    <3> QED BY <1>0, <3>1, RemoveAtList
  <2>3. /\ B = (Range(list) \ {b}) \union (L \union {b})
        /\ (Range(list) \ {b}) \intersect (L \union {b}) = {}
    BY <1>0, <1>1
  <2> HIDE DEF b, B
  <2> QED BY <1>0, <1>1, <2>1, <2>2, <2>3 DEF HeapOK
<1> QED BY <1>2, <1>3

-----------------------------------------------------------------------------
(* HInv is inductive                                                       *)

TheHeap == [list |-> free_block_list, size |-> size]

\* HInv, as a statement about the heap and the blocks in use.
LEMMA HInvHeap ==
  HInv <=> TypeOK /\ HeapOK(TheHeap, Live, heap_end) /\ Served
<1>1. TheHeap.list = free_block_list /\ TheHeap.size = size
  BY DEF TheHeap
<1>2. Live \subseteq Addr
  BY DEF Live
<1> QED BY <1>1, <1>2 DEF HInv, TypeOK, HeapOK, NotFreeTwice, Blocks, Free, TheHeap

\* Granting block b: the blocks in use afterwards.
LEMMA LiveGrant ==
  ASSUME want \in [Addr -> Nat], NEW b \in Addr, NEW n \in Nat \ {0},
         want' = [want EXCEPT ![b] = n]
  PROVE  /\ want' \in [Addr -> Nat] /\ Live' = Live \union {b}
         /\ want'[b] = n /\ \A c \in Addr : c # b => want'[c] = want[c]
BY DEF Live

\* Taking block b back.
LEMMA LiveRelease ==
  ASSUME want \in [Addr -> Nat], NEW b \in Addr,
         want' = [want EXCEPT ![b] = 0]
  PROVE  /\ want' \in [Addr -> Nat] /\ Live' = Live \ {b}
         /\ \A c \in Addr : c # b => want'[c] = want[c]
BY DEF Live

\* The other direction, in the next state.
LEMMA HInvNext ==
  ASSUME TypeOK', Served', NEW g, HeapOK(g, Live', heap_end'),
         free_block_list' = g.list, size' = g.size
  PROVE  HInv'
<1>1. NotFreeTwice'
  BY DEF HeapOK, NotFreeTwice, Free
<1>2. Laid(Blocks', size', heap_end')
  BY DEF HeapOK, Blocks, Free
<1> QED BY <1>1, <1>2 DEF HInv, Laid, LaidIn, LaidApart

\* A block is handed out from a heap that is in order.
LEMMA GrantHInv ==
  ASSUME HInv, NEW b \in Addr, NEW n \in Nat \ {0}, NEW g, Grant(b, n, g),
         heap_end' \in Addr, heap_end' % PAGE_SIZE = 0, wasted' \subseteq Addr,
         HeapOK(g, Live \union {b}, heap_end'), g.size[b] >= n,
         \A c \in Live : g.size[c] = size[c]
  PROVE  HInv'
<1>1. /\ want' \in [Addr -> Nat] /\ Live' = Live \union {b}
      /\ want'[b] = n /\ \A c \in Addr : c # b => want'[c] = want[c]
  BY LiveGrant DEF HInv, TypeOK, Grant
<1>2. free_block_list' = g.list /\ size' = g.size
  BY DEF Grant
<1>3. Served'
  <2> SUFFICES ASSUME NEW c \in Live' PROVE want'[c] <= size'[c]
    BY DEF Served
  <2>1. CASE c = b
    BY <1>1, <1>2, <2>1 DEF HeapOK
  <2>2. CASE c # b
    <3>1. c \in Live /\ c \in Addr /\ want[c] <= size[c]
      BY <1>1, <2>2 DEF HInv, Served, Live
    <3> QED BY <1>1, <1>2, <2>2, <3>1
  <2> QED BY <2>1, <2>2
<1>4. TypeOK'
  BY <1>1, <1>2 DEF TypeOK, HeapOK
<1> QED BY <1>1, <1>2, <1>3, <1>4, HInvNext

\* kmalloc served from the free list.
LEMMA FirstFitHInv ==
  ASSUME WholeWords, HInv, NEW n \in Sizes, kmalloc_FirstFit(n)
  PROVE  HInv'
<1>0. n \in Nat \ {0} /\ n % SIZE_T = 0
  BY SizesAssumption DEF WholeWords
<1>n. n \in Asked
  BY <1>0 DEF Asked
<1>1. PICK i \in DOMAIN free_block_list :
        /\ size[free_block_list[i]] >= n
        /\ Grant(free_block_list[i], n, split_block(TheHeap, i, n))
  BY DEF kmalloc_FirstFit, TheHeap
<1> DEFINE b == free_block_list[i]  g == split_block(TheHeap, i, n)
<1>2. heap_end' = heap_end /\ wasted' = wasted
  BY DEF kmalloc_FirstFit
<1>3. /\ HeapOK(TheHeap, Live, heap_end) /\ TheHeap.list = free_block_list
      /\ TheHeap.size = size
  BY HInvHeap DEF TheHeap
<1>4. i \in 1..Len(free_block_list) /\ b \in Addr
  BY LenProperties DEF HInv, TypeOK
<1>5. /\ HeapOK(g, Live \union {b}, heap_end)
      /\ g.size[b] >= n /\ \A c \in Live : g.size[c] = size[c]
  <2>1. i \in 1..Len(TheHeap.list) /\ TheHeap.size[TheHeap.list[i]] >= n
    BY <1>1, <1>3, <1>4
  <2>0. HeapOK(TheHeap, Live, heap_end)
    BY <1>3
  <2>2. /\ HeapOK(g, Live \union {TheHeap.list[i]}, heap_end)
        /\ g.size[TheHeap.list[i]] >= n /\ \A c \in Live : g.size[c] = TheHeap.size[c]
    BY <1>n, <2>0, <2>1, SplitList, Zenon
  <2> HIDE DEF g
  <2> QED BY <1>3, <2>2
<1>6. /\ heap_end' \in Addr /\ heap_end' % PAGE_SIZE = 0 /\ wasted' \subseteq Addr
  BY <1>2 DEF HInv, TypeOK
<1> HIDE DEF b, g
<1>7. Grant(b, n, g)
  BY <1>1 DEF b, g
<1> QED BY <1>0, <1>2, <1>4, <1>5, <1>6, <1>7, GrantHInv

\* The heap after sbrk, with a new block of size m at the old break.
LEMMA SbrkHeap ==
  ASSUME WholeWords, HInv, NEW n \in Nat \ {0}, n % SIZE_T = 0,
         sbrk(n + SIZE_T) <= MaxHeap,
         NEW m \in Nat \ {0}, m % SIZE_T = 0,
         \/ EndOf(heap_end, m) <= sbrk(n + SIZE_T)
         \/ heap_end + m = sbrk(n + SIZE_T)
  PROVE  LET z == [size EXCEPT ![heap_end] = m]
         IN /\ heap_end \in Addr /\ sbrk(n + SIZE_T) \in Addr
            /\ sbrk(n + SIZE_T) >= heap_end + n + 8 /\ sbrk(n + SIZE_T) % PAGE_SIZE = 0
            /\ z \in [Addr -> Nat] /\ z[heap_end] = m /\ heap_end \notin Blocks
            /\ \A c \in Blocks : z[c] = size[c]
            /\ Laid(Blocks \union {heap_end}, z, sbrk(n + SIZE_T))
<1> DEFINE new == sbrk(n + SIZE_T)
<1>1. new \in Nat /\ new >= heap_end + n + 8 /\ new % PAGE_SIZE = 0
  <2>1. n + SIZE_T \in Nat /\ n + SIZE_T = n + 8
    BY DEF SIZE_T
  <2>2. new \in Nat /\ new >= heap_end + (n + SIZE_T) /\ new % PAGE_SIZE = 0
    BY <2>1, SbrkRounds DEF HInv
  <2> HIDE DEF new
  <2>3. heap_end \in Nat
    BY HeapAssumption DEF HInv, TypeOK, Addr
  <2> QED BY <2>1, <2>2, <2>3
<1>2. heap_end \in Addr /\ size \in [Addr -> Nat] /\ Blocks \subseteq Addr
  <2>1. Range(free_block_list) \subseteq Addr
    BY LenProperties DEF HInv, TypeOK, Range
  <2> QED BY <2>1 DEF HInv, TypeOK, Blocks, Live, Free
<1>3. new \in Addr
  BY <1>1, HeapAssumption DEF Addr
<1>4. Laid(Blocks, size, heap_end)
  BY DEF HInv
<1> HIDE DEF new
<1>5. heap_end + BLOCK_T <= new /\ (EndOf(heap_end, m) <= new \/ heap_end + m = new)
  <2>1. heap_end \in Nat /\ n >= 8
    BY <1>2, HeapAssumption DEF Addr, SIZE_T
  <2>2. EndOf(heap_end, m) <= new \/ heap_end + m = new
    BY DEF new
  <2> QED BY <1>1, <2>1, <2>2 DEF BLOCK_T
<1> DEFINE z == [size EXCEPT ![heap_end] = m]
<1>6. /\ z \in [Addr -> Nat] /\ z[heap_end] = m /\ heap_end \notin Blocks
      /\ \A c \in Blocks : z[c] = size[c]
      /\ Laid(Blocks \union {heap_end}, z, new)
  BY <1>2, <1>3, <1>4, <1>5, ExtendLaid
<1> QED BY <1>1, <1>2, <1>3, <1>6 DEF new

\* kmalloc when no free block is large enough.
LEMMA UnsatisfiedHInv ==
  ASSUME WholeWords, HInv, NEW n \in Sizes, kmalloc_Unsatisfied(n)
  PROVE  HInv'
<1> DEFINE new == sbrk(n + SIZE_T)  z == [size EXCEPT ![heap_end] = n]
           g == [list |-> free_block_list, size |-> z]
<1>0. n \in Nat \ {0} /\ n % SIZE_T = 0
  BY SizesAssumption DEF WholeWords
<1>1. /\ new <= MaxHeap /\ heap_end' = new /\ Grant(heap_end, n, g)
      /\ wasted' = wasted \union EndOf(heap_end, n)..new-1
  BY DEF kmalloc_Unsatisfied
<1>2. heap_end \in Nat /\ EndOf(heap_end, n) <= new /\ new \in Nat
  <2>1. n + SIZE_T \in Nat
    BY <1>0 DEF SIZE_T
  <2>2. new \in Nat /\ new >= heap_end + (n + SIZE_T)
    BY <2>1, SbrkRounds DEF HInv
  <2> HIDE DEF new
  <2>3. heap_end \in Nat
    BY HeapAssumption DEF HInv, TypeOK, Addr
  <2> QED BY <1>0, <2>2, <2>3 DEF SIZE_T, EndOf
<1>3. /\ heap_end \in Addr /\ new \in Addr
      /\ new >= heap_end + n + 8 /\ new % PAGE_SIZE = 0
      /\ z \in [Addr -> Nat] /\ z[heap_end] = n /\ heap_end \notin Blocks
      /\ \A c \in Blocks : z[c] = size[c]
      /\ Laid(Blocks \union {heap_end}, z, new)
  BY <1>0, <1>1, <1>2, SbrkHeap
<1> HIDE DEF new, z
<1>4. g.list = free_block_list /\ g.size = z /\ g = [list |-> g.list, size |-> g.size]
  OBVIOUS
<1> HIDE DEF g
<1>5. HeapOK(g, Live \union {heap_end}, new)
  <2>1. Range(g.list) \union (Live \union {heap_end}) = Blocks \union {heap_end}
    BY <1>4 DEF Blocks, Free
  <2>2. /\ g.list \in Seq(Addr) /\ IsInjective(g.list) /\ Live \subseteq Addr
        /\ Range(g.list) \intersect (Live \union {heap_end}) = {}
    BY <1>3, <1>4 DEF HInv, TypeOK, NotFreeTwice, Free, Blocks, Live
  <2> QED BY <1>3, <1>4, <2>1, <2>2 DEF HeapOK
<1>6. wasted' \subseteq Addr
  <2>1. EndOf(heap_end, n)..new-1 \subseteq Addr
    BY <1>0, <1>2, <1>3, HeapAssumption DEF EndOf, SIZE_T, Addr
  <2> QED BY <1>1, <2>1 DEF HInv, TypeOK
<1>7. g.size[heap_end] >= n /\ \A c \in Live : g.size[c] = size[c]
  BY <1>0, <1>3, <1>4 DEF Blocks
<1> QED BY <1>0, <1>1, <1>3, <1>5, <1>6, <1>7, GrantHInv

\* kmalloc when the free list is empty.
LEMMA NoBlocksHInv ==
  ASSUME WholeWords, HInv, NEW n \in Sizes, kmalloc_NoBlocks(n)
  PROVE  HInv'
<1> DEFINE new == sbrk(n + SIZE_T)  m == new - heap_end
           z == [size EXCEPT ![heap_end] = m]
           h == [list |-> <<heap_end>>, size |-> z]  g == split_block(h, 1, n)
<1>0. n \in Nat \ {0} /\ n % SIZE_T = 0
  BY SizesAssumption DEF WholeWords
<1>n. n \in Asked
  BY <1>0 DEF Asked
<1>1. /\ new <= MaxHeap /\ heap_end' = new /\ Grant(heap_end, n, g)
      /\ wasted' = wasted /\ free_block_list = <<>>
  BY DEF kmalloc_NoBlocks
<1>2. heap_end \in Nat /\ m \in Nat \ {0} /\ m >= n /\ heap_end + m = new /\ m % SIZE_T = 0
  <2>1. n + SIZE_T \in Nat
    BY <1>0 DEF SIZE_T
  <2>2. new \in Nat /\ new >= heap_end + (n + SIZE_T) /\ m % SIZE_T = 0
    BY <2>1, SbrkRounds DEF HInv
  <2> HIDE DEF new
  <2>3. heap_end \in Nat
    BY HeapAssumption DEF HInv, TypeOK, Addr
  <2> QED BY <1>0, <2>2, <2>3 DEF SIZE_T
<1> HIDE DEF m
<1>3. /\ heap_end \in Addr /\ new \in Addr /\ new % PAGE_SIZE = 0
      /\ z \in [Addr -> Nat] /\ z[heap_end] = m /\ heap_end \notin Blocks
      /\ \A c \in Blocks : z[c] = size[c]
      /\ Laid(Blocks \union {heap_end}, z, new)
  BY <1>0, <1>1, <1>2, SbrkHeap
<1> HIDE DEF new, z
<1>4. h.list = <<heap_end>> /\ h.size = z /\ h = [list |-> h.list, size |-> h.size]
  OBVIOUS
<1>5. Blocks = Live /\ Live \subseteq Addr
  BY <1>1 DEF Blocks, Free, Range, Live
<1> HIDE DEF h
<1>6. /\ h.list \in Seq(Addr) /\ Len(h.list) = 1 /\ h.list[1] = heap_end
      /\ Range(h.list) = {heap_end} /\ IsInjective(h.list)
  BY <1>3, <1>4 DEF Range, IsInjective
<1>7. HeapOK(h, Live, new)
  <2>1. Blocks \union {heap_end} = Range(h.list) \union Live
    BY <1>5, <1>6
  <2> QED BY <1>3, <1>4, <1>5, <1>6, <2>1 DEF HeapOK
<1>8. /\ HeapOK(g, Live \union {heap_end}, new)
      /\ g.size[heap_end] >= n /\ \A c \in Live : g.size[c] = h.size[c]
  <2>1. 1 \in 1..Len(h.list) /\ h.size[h.list[1]] >= n
    BY <1>2, <1>3, <1>4, <1>6
  <2>2. ASSUME NEW i \in 1..Len(h.list), h.size[h.list[i]] >= n
        PROVE  /\ HeapOK(split_block(h, i, n), Live \union {h.list[i]}, new)
               /\ split_block(h, i, n).size[h.list[i]] >= n
               /\ \A c \in Live : split_block(h, i, n).size[c] = h.size[c]
    BY <1>n, <1>7, <2>2, SplitList, Zenon
  <2>3. /\ HeapOK(g, Live \union {h.list[1]}, new)
        /\ g.size[h.list[1]] >= n /\ \A c \in Live : g.size[c] = h.size[c]
    BY <2>1, <2>2, Zenon
  <2> HIDE DEF g
  <2> QED BY <1>6, <2>3
<1>9. \A c \in Live : g.size[c] = size[c]
  BY <1>3, <1>4, <1>5, <1>8
<1>10. wasted' \subseteq Addr
  BY <1>1 DEF HInv, TypeOK
<1> HIDE DEF g
<1> QED BY <1>0, <1>1, <1>3, <1>8, <1>9, <1>10, GrantHInv

\* A block comes back to a heap that is in order.
LEMMA ReleaseHInv ==
  ASSUME HInv, NEW freed, NEW g, Release(freed, g),
         HeapOK(g, Live \ {freed}, heap_end),
         \A c \in Live \ {freed} : g.size[c] = size[c]
  PROVE  HInv'
<1>1. freed \in Live /\ freed \in Addr /\ UNCHANGED <<heap_end, wasted>>
  BY DEF Release, Live
<1>2. /\ want' \in [Addr -> Nat] /\ Live' = Live \ {freed}
      /\ \A c \in Addr : c # freed => want'[c] = want[c]
  BY <1>1, LiveRelease DEF HInv, TypeOK, Release
<1>3. free_block_list' = g.list /\ size' = g.size
  BY DEF Release
<1>4. Served'
  <2> SUFFICES ASSUME NEW c \in Live' PROVE want'[c] <= size'[c]
    BY DEF Served
  <2>1. c \in Live \ {freed} /\ c \in Addr /\ want[c] <= size[c]
    BY <1>2 DEF HInv, Served, Live
  <2> QED BY <1>2, <1>3, <2>1
<1>5. TypeOK'
  BY <1>1, <1>2, <1>3 DEF HInv, TypeOK, HeapOK
<1> QED BY <1>1, <1>2, <1>3, <1>4, <1>5, HInvNext

\* A freed block that was put into the list, before anything is coalesced.
LEMMA InsertedHeap ==
  ASSUME HInv, NEW freed \in Live, NEW l \in Seq(Addr), IsInjective(l),
         Range(l) = Range(free_block_list) \union {freed}
  PROVE  HeapOK([list |-> l, size |-> size], Live \ {freed}, heap_end)
<1> DEFINE h == [list |-> l, size |-> size]
<1>1. h.list = l /\ h.size = size /\ h = [list |-> h.list, size |-> h.size]
  OBVIOUS
<1> HIDE DEF h
<1>2. /\ Range(l) \union (Live \ {freed}) = Blocks
      /\ Range(l) \intersect (Live \ {freed}) = {}
      /\ Live \subseteq Addr
  BY DEF HInv, NotFreeTwice, Blocks, Free, Live
<1>3. HeapOK(h, Live \ {freed}, heap_end)
  BY <1>1, <1>2 DEF HeapOK, HInv, TypeOK
<1> QED BY <1>3 DEF h

\* Coalescing at p keeps what ReleaseHInv asks for.
LEMMA CoalescedHeap ==
  ASSUME HInv, NEW L, NEW h, HeapOK(h, L, heap_end), NEW p \in 1..Len(h.list),
         \A c \in L : h.size[c] = size[c]
  PROVE  LET g == coalesce_blocks(h, p)
         IN HeapOK(g, L, heap_end) /\ p <= Len(g.list) /\ \A c \in L : g.size[c] = size[c]
<1> DEFINE g == coalesce_blocks(h, p)
<1>1. /\ HeapOK(g, L, heap_end) /\ p <= Len(g.list)
      /\ \A c \in L : g.size[c] = h.size[c]
  BY CoalesceList
<1> HIDE DEF g
<1>2. HeapOK(g, L, heap_end) /\ p <= Len(g.list) /\ \A c \in L : g.size[c] = size[c]
  BY <1>1
<1> QED BY <1>2 DEF g

\* kfree into an empty list.
LEMMA FreeNoBlocksHInv ==
  ASSUME HInv, NEW freed \in Live, kfree_NoBlocks(freed)
  PROVE  HInv'
<1> DEFINE l == <<freed>>  g == [list |-> l, size |-> size]
<1>1. free_block_list = <<>> /\ Release(freed, g)
  BY DEF kfree_NoBlocks
<1>2. freed \in Addr
  BY DEF Live
<1>3. l \in Seq(Addr) /\ IsInjective(l) /\ Range(l) = Range(free_block_list) \union {freed}
  BY <1>1, <1>2 DEF IsInjective, Range
<1> HIDE DEF l
<1>4. HeapOK(g, Live \ {freed}, heap_end) /\ g.size = size
  BY <1>3, InsertedHeap
<1> HIDE DEF g
<1>5. \A c \in Live \ {freed} : g.size[c] = size[c]
  BY <1>4
<1> QED BY <1>1, <1>4, <1>5, ReleaseHInv

\* A sequence of length 1.
LEMMA OneElement ==
  ASSUME NEW S, NEW s \in Seq(S), Len(s) = 1
  PROVE  DOMAIN s = {1} /\ s[1] \in S
<1>1. DOMAIN s = 1..1
  OBVIOUS
<1>2. DOMAIN s = {1}
  BY <1>1
<1> QED BY <1>2, ElementOfSeq

\* kfree into a list of one block, on either side of it.
LEMMA FreeOneBlockHInv ==
  ASSUME HInv, NEW freed \in Live, kfree_OneBlock(freed)
  PROVE  HInv'
<1> DEFINE only == free_block_list[1]
           l == IF only < freed THEN <<only, freed>> ELSE <<freed, only>>
           h == [list |-> l, size |-> size]  g == coalesce_blocks(h, 1)
<1>1. Len(free_block_list) = 1 /\ Release(freed, g)
  BY DEF kfree_OneBlock
<1>2. /\ freed \in Addr /\ only \in Addr /\ only # freed
      /\ Range(free_block_list) = {only}
  <2>1. DOMAIN free_block_list = {1} /\ only \in Addr
    <3>1. free_block_list \in Seq(Addr)
      BY DEF HInv, TypeOK
    <3>2. Len(free_block_list) = 1
      BY <1>1
    <3> QED BY <3>1, <3>2, OneElement
  <2>2. Range(free_block_list) = {only}
    BY <2>1 DEF Range
  <2> HIDE DEF only
  <2>3. only # freed
    BY <2>2 DEF HInv, NotFreeTwice, Free
  <2> QED BY <2>1, <2>2, <2>3 DEF Live
<1> HIDE DEF only
<1>3. \A x, y \in Addr : x # y =>
        /\ <<x, y>> \in Seq(Addr) /\ Len(<<x, y>>) = 2
        /\ IsInjective(<<x, y>>) /\ Range(<<x, y>>) = {x, y}
  BY DEF IsInjective, Range
<1>4. /\ l \in Seq(Addr) /\ IsInjective(l) /\ Len(l) = 2
      /\ Range(l) = Range(free_block_list) \union {freed}
  <2>1. CASE only < freed
    BY <1>2, <1>3, <2>1
  <2>2. CASE ~(only < freed)
    BY <1>2, <1>3, <2>2
  <2> QED BY <2>1, <2>2
<1> HIDE DEF l
<1>5. HeapOK(h, Live \ {freed}, heap_end)
  BY <1>4, InsertedHeap
<1>6. h.list = l /\ h.size = size
  OBVIOUS
<1> HIDE DEF h
<1>7. HeapOK(g, Live \ {freed}, heap_end) /\ \A c \in Live \ {freed} : g.size[c] = size[c]
  <2>1. 1 \in 1..Len(h.list)
    <3>1. Len(h.list) = 2
      BY <1>4, <1>6
    <3> QED BY <3>1
  <2>2. \A c \in Live \ {freed} : h.size[c] = size[c]
    BY <1>6
  <2> QED BY <1>5, <2>1, <2>2, CoalescedHeap
<1> HIDE DEF g
<1> QED BY <1>1, <1>7, ReleaseHInv

\* kfree into a longer list, with both coalescings.
LEMMA FreeManyBlocksHInv ==
  ASSUME HInv, NEW freed \in Live, kfree_ManyBlocks(freed)
  PROVE  HInv'
<1>1. PICK p \in 2..Len(free_block_list)+1 :
        Release(freed, coalesce_blocks(coalesce_blocks(
          [list |-> InsertAt(free_block_list, p, freed), size |-> size], p), p-1))
  BY DEF kfree_ManyBlocks
<1> DEFINE l == InsertAt(free_block_list, p, freed)  h == [list |-> l, size |-> size]
           h1 == coalesce_blocks(h, p)  g == coalesce_blocks(h1, p-1)
           L == Live \ {freed}
<1>2. Len(free_block_list) \in Nat /\ p \in 1..Len(free_block_list)+1 /\ p-1 \in Nat \ {0}
  BY LenProperties DEF HInv, TypeOK
<1>3. /\ l \in Seq(Addr) /\ Len(l) = Len(free_block_list) + 1 /\ IsInjective(l)
      /\ Range(l) = Range(free_block_list) \union {freed}
  <2>1. /\ free_block_list \in Seq(Addr) /\ IsInjective(free_block_list)
        /\ freed \in Addr /\ freed \notin Range(free_block_list)
    BY DEF HInv, TypeOK, NotFreeTwice, Free, Live
  <2> QED BY <1>2, <2>1, InsertAtList
<1> HIDE DEF l
<1>4. HeapOK(h, L, heap_end) /\ h.list = l /\ h.size = size
  BY <1>3, InsertedHeap
<1> HIDE DEF h, L
<1>5. HeapOK(h1, L, heap_end) /\ p <= Len(h1.list) /\ \A c \in L : h1.size[c] = size[c]
  <2>1. p \in 1..Len(h.list) /\ \A c \in L : h.size[c] = size[c]
    BY <1>2, <1>3, <1>4
  <2>2. HeapOK(h, L, heap_end)
    BY <1>4
  <2> QED BY <2>1, <2>2, CoalescedHeap
<1> HIDE DEF h1
<1>6. HeapOK(g, L, heap_end) /\ \A c \in L : g.size[c] = size[c]
  <2>1. p-1 \in 1..Len(h1.list)
    <3>1. Len(h1.list) \in Nat
      BY <1>5, LenProperties DEF HeapOK
    <3> QED BY <1>2, <1>5, <3>1
  <2>2. HeapOK(h1, L, heap_end) /\ \A c \in L : h1.size[c] = size[c]
    BY <1>5
  <2> QED BY <2>1, <2>2, CoalescedHeap
<1>7. Release(freed, g)
  BY <1>1 DEF g, h1, h, l
<1> HIDE DEF g
<1> QED BY <1>6, <1>7, ReleaseHInv DEF L

\* The empty heap of kheap_allocator_init is in order.
LEMMA InitHInv == Init => HInv
<1> SUFFICES ASSUME Init PROVE HInv
  OBVIOUS
<1>1. Blocks = {} /\ Live = {} /\ Free = {}
  BY DEF Init, Blocks, Live, Free, Range
<1>2. TypeOK
  BY HeapAssumption, PageAssumption DEF Init, TypeOK, Addr
<1>3. NotFreeTwice
  BY <1>1 DEF Init, NotFreeTwice, IsInjective
<1> QED BY <1>1, <1>2, <1>3 DEF HInv, Laid, LaidIn, LaidApart, Served

\* Every call of kmalloc and kfree keeps the heap in order.
LEMMA StepHInv ==
  ASSUME WholeWords
  PROVE  HInv /\ [Next]_vars => HInv'
<1> SUFFICES ASSUME HInv, [Next]_vars PROVE HInv'
  OBVIOUS
<1>1. CASE UNCHANGED vars
  BY <1>1 DEF HInv, TypeOK, NotFreeTwice, Laid, LaidIn, LaidApart, Served, Blocks,
              Free, Live, vars
<1>2. ASSUME NEW n \in Sizes, kmalloc(n) PROVE HInv'
  <2>1. CASE kmalloc_TooMuch(n)
    BY <1>1, <2>1 DEF kmalloc_TooMuch
  <2> QED BY <1>2, <2>1, NoBlocksHInv, FirstFitHInv, UnsatisfiedHInv DEF kmalloc
<1>3. ASSUME NEW b \in Live, kfree(b) PROVE HInv'
  BY <1>3, FreeNoBlocksHInv, FreeOneBlockHInv, FreeManyBlocksHInv DEF kfree
<1> QED BY <1>1, <1>2, <1>3 DEF Next

\* Types, and the page alignment of the break.
THEOREM TypeSafe ==
  ASSUME WholeWords
  PROVE  Spec => []TypeOK
<1>1. HInv => TypeOK
  BY DEF HInv
<1> QED BY InitHInv, StepHInv, <1>1, PTL DEF Spec

\* If callers ask for whole words, the size and the next pointer of every block
\* are in mapped memory and in no other block's header: split_block never
\* leaves less than a block_t and a word.
THEOREM HeadersSafe ==
  ASSUME WholeWords
  PROVE  Spec => []HeadersInHeap
<1>1. HInv => HeadersInHeap
  BY DEF HInv, Laid, LaidIn, LaidApart, HeadersInHeap
<1> QED BY InitHInv, StepHInv, <1>1, PTL DEF Spec

\* A block is never in the list twice, nor in the list and in use.
THEOREM NeverFreeTwice ==
  ASSUME WholeWords
  PROVE  Spec => []NotFreeTwice
<1>1. HInv => NotFreeTwice
  BY DEF HInv
<1> QED BY InitHInv, StepHInv, <1>1, PTL DEF Spec

\* If callers ask for whole words, two callers never share one.
THEOREM PayloadsSafe ==
  ASSUME WholeWords
  PROVE  Spec => []PayloadsDisjoint
<1>1. HInv => PayloadsDisjoint
  <2> SUFFICES ASSUME HInv, NEW b \in Live, NEW c \in Live, b < c
               PROVE  b + SIZE_T + want[b] <= c + SIZE_T
    BY DEF PayloadsDisjoint
  <2>1. /\ b \in Nat /\ c \in Nat /\ size \in [Addr -> Nat] /\ want[b] \in Nat
        /\ size[b] \in Nat /\ b \in Blocks /\ c \in Blocks /\ Blocks \subseteq Addr
    <3>1. Range(free_block_list) \subseteq Addr
      BY LenProperties DEF HInv, TypeOK, Range
    <3> QED BY <3>1, HeapAssumption DEF HInv, TypeOK, Blocks, Free, Live, Addr
  <2>2. b + size[b] <= c
    BY <2>1, ApartLe DEF HInv, Laid
  <2>3. want[b] <= size[b]
    BY DEF HInv, Served
  <2> QED BY <2>1, <2>2, <2>3 DEF SIZE_T
<1> QED BY InitHInv, StepHInv, <1>1, PTL DEF Spec

-----------------------------------------------------------------------------
(* The order of the list, and the words it covers                          *)

Ordered(s) == \A i, j \in 2..Len(s) : i < j => s[i] < s[j]

\* Word w is in a block of the heap h, or in one of the blocks L in use.
Covers(h, L, w) == \E b \in Range(h.list) \union L : b <= w /\ w < EndOf(b, h.size[b])

\* Taking a block out leaves the others in order.
LEMMA RemoveOrdered ==
  ASSUME NEW s \in Seq(Addr), IsInjective(s), NEW i \in 1..Len(s), Ordered(s)
  PROVE  Ordered(RemoveAt(s, i))
<1> DEFINE t == RemoveAt(s, i)
<1>0. Len(s) \in Nat
  BY LenProperties
<1>1. /\ Len(t) = Len(s) - 1
      /\ \A k \in 1..Len(s)-1 : t[k] = IF k <= i-1 THEN s[k] ELSE s[k+1]
  BY RemoveAtList
<1> HIDE DEF t
<1> SUFFICES ASSUME NEW j \in 2..Len(t), NEW k \in 2..Len(t), j < k
             PROVE  t[j] < t[k]
  BY DEF Ordered, t
<1> DEFINE src(n) == IF n <= i-1 THEN n ELSE n+1
<1>2. src(j) \in 2..Len(s) /\ src(k) \in 2..Len(s) /\ src(j) < src(k)
  BY <1>0, <1>1
<1>3. t[j] = s[src(j)] /\ t[k] = s[src(k)]
  BY <1>0, <1>1
<1> HIDE DEF src
<1> QED BY <1>2, <1>3 DEF Ordered

\* Putting a block where kfree's loop stops keeps the order behind the head.
LEMMA InsertOrdered ==
  ASSUME NEW s \in Seq(Addr), IsInjective(s), Ordered(s), NEW p \in 2..Len(s)+1,
         NEW e \in Addr, e \notin Range(s),
         \A q \in 2..p-1 : s[q] < e, p <= Len(s) => s[p] >= e
  PROVE  Ordered(InsertAt(s, p, e))
<1> DEFINE t == InsertAt(s, p, e)
<1>0. /\ Len(s) \in Nat /\ DOMAIN s = 1..Len(s)
      /\ \A k \in 1..Len(s) : s[k] \in Int /\ s[k] # e
      /\ e \in Int
  <2>1. Len(s) \in Nat /\ DOMAIN s = 1..Len(s) /\ \A k \in 1..Len(s) : s[k] \in Addr
    BY LenProperties
  <2> QED BY <2>1, HeapAssumption DEF Addr, Range
<1>1. /\ Len(t) = Len(s) + 1
      /\ \A k \in 1..Len(s)+1 : t[k] = IF k < p THEN s[k] ELSE IF k = p THEN e ELSE s[k-1]
  <2>1. p \in 1..Len(s)+1
    BY <1>0
  <2> QED BY <2>1, InsertAtList
<1> HIDE DEF t
<1>2. \A k \in p..Len(s) : e < s[k]
  <2> SUFFICES ASSUME NEW k \in p..Len(s) PROVE e < s[k]
    OBVIOUS
  <2>1. p \in 2..Len(s) /\ k \in 2..Len(s) /\ s[p] >= e /\ s[p] # e
    BY <1>0
  <2>2. k = p \/ s[p] < s[k]
    BY <1>0, <2>1 DEF Ordered
  <2> QED BY <1>0, <2>1, <2>2
<1> SUFFICES ASSUME NEW j \in 2..Len(t), NEW k \in 2..Len(t), j < k
             PROVE  t[j] < t[k]
  BY DEF Ordered, t
<1>3. j \in 2..Len(s)+1 /\ k \in 2..Len(s)+1
  BY <1>1
<1>4. CASE k < p
  BY <1>0, <1>1, <1>3, <1>4 DEF Ordered
<1>5. CASE k = p
  <2>1. t[k] = e /\ t[j] = s[j] /\ j \in 2..p-1
    BY <1>0, <1>1, <1>3, <1>5
  <2> QED BY <2>1
<1>6. CASE k > p /\ j < p
  <2>1. t[k] = s[k-1] /\ t[j] = s[j] /\ j \in 2..Len(s) /\ k-1 \in 2..Len(s) /\ j < k-1
    BY <1>0, <1>1, <1>3, <1>6
  <2> QED BY <2>1 DEF Ordered
<1>7. CASE k > p /\ j = p
  <2>1. t[k] = s[k-1] /\ t[j] = e /\ k-1 \in p..Len(s)
    BY <1>0, <1>1, <1>3, <1>7
  <2> QED BY <1>2, <2>1
<1>8. CASE k > p /\ j > p
  <2>1. /\ t[k] = s[k-1] /\ t[j] = s[j-1]
        /\ j-1 \in 2..Len(s) /\ k-1 \in 2..Len(s) /\ j-1 < k-1
    BY <1>0, <1>1, <1>3, <1>8
  <2> QED BY <2>1 DEF Ordered
<1> QED BY <1>0, <1>3, <1>4, <1>5, <1>6, <1>7, <1>8

\* coalesce_blocks keeps the order and covers what was covered.
LEMMA CoalesceKeeps ==
  ASSUME NEW h, NEW L, NEW end, HeapOK(h, L, end), NEW p \in 1..Len(h.list)
  PROVE  LET g == coalesce_blocks(h, p)
         IN /\ Ordered(h.list) => Ordered(g.list)
            /\ \A w \in Int : Covers(h, L, w) => Covers(g, L, w)
<1> DEFINE list == h.list  sz == h.size  b == list[p]  c == list[p+1]
           z == [sz EXCEPT ![b] = @ + sz[c] + SIZE_T, ![c] = 0]
           g == coalesce_blocks(h, p)
<1>0. /\ list \in Seq(Addr) /\ sz \in [Addr -> Nat] /\ L \subseteq Addr
      /\ IsInjective(list) /\ Range(list) \intersect L = {}
  BY DEF HeapOK
<1>1. Len(list) \in Nat /\ DOMAIN list = 1..Len(list) /\ Range(list) \subseteq Addr
  BY <1>0, LenProperties DEF Range
<1>2. g = IF p < Len(list) /\ are_adjacent(sz, b, c)
          THEN [list |-> RemoveAt(list, p+1), size |-> z] ELSE h
  BY DEF coalesce_blocks
<1> SUFFICES /\ Ordered(list) => Ordered(g.list)
             /\ \A w \in Int : Covers(h, L, w) => Covers(g, L, w)
  OBVIOUS
<1> HIDE DEF g
<1>3. CASE p < Len(list) /\ are_adjacent(sz, b, c)
  <2>1. /\ p+1 \in 1..Len(list) /\ p # p+1 /\ b \in Range(list) /\ c \in Range(list)
        /\ b # c
    BY <1>0, <1>1, <1>3 DEF Range, IsInjective
  <2>2. g.list = RemoveAt(list, p+1) /\ g.size = z
    BY <1>2, <1>3
  <2>a. h.list = list /\ h.size = sz
    OBVIOUS
  <2> HIDE DEF list, sz
  <2>3. Range(RemoveAt(list, p+1)) = Range(list) \ {c}
    BY <1>0, <2>1, RemoveAtList
  <2>4. Ordered(list) => Ordered(RemoveAt(list, p+1))
    BY <1>0, <2>1, RemoveOrdered
  <2> HIDE DEF b, c
  <2>5. /\ b \in Int /\ c \in Int /\ sz[b] \in Nat /\ sz[c] \in Nat
        /\ c = b + 8 + sz[b] /\ z[b] = sz[b] + sz[c] + 8
        /\ \A d \in Addr : d # b /\ d # c => z[d] = sz[d]
    <3>1. b \in Addr /\ c \in Addr
      BY <1>1, <2>1
    <3> QED BY <1>0, <1>3, <2>1, <3>1, HeapAssumption DEF Addr, are_adjacent, EndOf, SIZE_T
  <2> HIDE DEF z
  <2>6. ASSUME NEW w \in Int, Covers(h, L, w) PROVE Covers(g, L, w)
    <3>1. PICK d \in Range(list) \union L : d <= w /\ w < d + 8 + sz[d]
      BY <2>6, <2>a DEF Covers, EndOf, SIZE_T
    <3>2. CASE d = b \/ d = c
      <4>0. /\ b \in Int /\ c \in Int /\ sz[b] \in Nat /\ sz[c] \in Nat
            /\ c = b + 8 + sz[b] /\ z[b] = sz[b] + sz[c] + 8
        BY <2>5
      <4>a. b <= w /\ w < b + 8 + z[b]
        <5>1. CASE d = b
          BY <3>1, <4>0, <5>1
        <5>2. CASE d = c
          BY <3>1, <4>0, <5>2
        <5> QED BY <3>2, <5>1, <5>2
      <4>1. b <= w /\ w < EndOf(b, z[b])
        BY <4>a DEF EndOf, SIZE_T
      <4>2. b \in Range(g.list) \union L
        BY <2>1, <2>2, <2>3
      <4> QED BY <2>2, <4>1, <4>2 DEF Covers
    <3>3. CASE d # b /\ d # c
      <4>1. d \in Addr /\ d \in Range(g.list) \union L
        BY <1>0, <1>1, <2>2, <2>3, <3>3
      <4>2. z[d] = sz[d]
        BY <2>5, <3>3, <4>1
      <4> QED BY <2>2, <3>1, <4>1, <4>2 DEF Covers, EndOf, SIZE_T
    <3> QED BY <3>2, <3>3
  <2> QED BY <2>2, <2>4, <2>6
<1>4. CASE ~(p < Len(list) /\ are_adjacent(sz, b, c))
  <2>1. g = h
    BY <1>2, <1>4
  <2> QED BY <2>1
<1> QED BY <1>3, <1>4

\* split_block keeps the order and covers what was covered.
LEMMA SplitKeeps ==
  ASSUME NEW h, NEW L, NEW end, HeapOK(h, L, end), NEW i \in 1..Len(h.list),
         NEW n \in Asked, h.size[h.list[i]] >= n
  PROVE  LET g == split_block(h, i, n)
         IN /\ Ordered(h.list) => Ordered(g.list)
            /\ \A w \in Int : Covers(h, L, w) => Covers(g, L \union {h.list[i]}, w)
<1> USE DEF Asked
<1> DEFINE list == h.list  sz == h.size  b == list[i]  r == EndOf(b, n)
           z == [sz EXCEPT ![b] = n, ![r] = sz[b] - n - SIZE_T]
           B == Range(list) \union L
           g == split_block(h, i, n)
<1>0. /\ h = [list |-> list, size |-> sz] /\ list \in Seq(Addr) /\ sz \in [Addr -> Nat]
      /\ L \subseteq Addr /\ end \in Addr
      /\ IsInjective(list) /\ Range(list) \intersect L = {}
      /\ Laid(B, sz, end) /\ sz[b] >= n
  BY DEF HeapOK
<1>a. Len(list) \in Nat /\ DOMAIN list = 1..Len(list) /\ Range(list) \subseteq Addr
  BY <1>0, LenProperties DEF Range
<1>1. b \in Range(list) /\ b \in B /\ B \subseteq Addr /\ b \in Addr
  BY <1>0, <1>a DEF Range
<1>b. g = IF sz[b] - n > BLOCK_T
          THEN [list |-> [list EXCEPT ![i] = r], size |-> z]
          ELSE [h EXCEPT !.list = RemoveAt(list, i)]
  BY DEF split_block
<1>c. i \in 1..Len(list) /\ h.list = list /\ h.size = sz
  OBVIOUS
<1> SUFFICES /\ Ordered(list) => Ordered(g.list)
             /\ \A w \in Int : Covers(h, L, w) => Covers(g, L \union {b}, w)
  OBVIOUS
<1> HIDE DEF g, list, sz
<1>2. CASE sz[b] - n > BLOCK_T
  <2>1. g.list = [list EXCEPT ![i] = r] /\ g.size = z
    BY <1>b, <1>2
  <2>2. /\ r \in Addr \ B /\ z \in [Addr -> Nat] /\ z[b] = n
        /\ \A c \in B : c # b => z[c] = sz[c]
        /\ Laid(B \union {r}, z, end)
    BY <1>0, <1>1, <1>2, SplitLaid
  <2>3. /\ b \in Int /\ sz[b] \in Nat /\ r = b + 8 + n /\ r < b + sz[b]
        /\ z[r] = sz[b] - n - 8
    <3>1. r \in Addr /\ r \notin B
      BY <2>2
    <3>2. b \in Int /\ sz[b] \in Nat /\ r = b + 8 + n
      BY <1>0, <1>1, HeapAssumption DEF Addr, EndOf, SIZE_T
    <3>3. z[r] = sz[b] - n - SIZE_T
      BY <1>0, <1>1, <3>1
    <3> HIDE DEF r, z, b
    <3> QED BY <1>2, <3>2, <3>3 DEF SIZE_T, BLOCK_T
  <2>4. /\ Len([list EXCEPT ![i] = r]) = Len(list)
        /\ \A k \in 1..Len(list) : [list EXCEPT ![i] = r][k] = IF k = i THEN r ELSE list[k]
    <3>1. r \in Addr
      BY <2>2
    <3> HIDE DEF r
    <3> QED BY <1>0, <1>a, <1>c, <3>1, ExceptSeq
  <2> HIDE DEF r, z
  <2>5. ASSUME Ordered(list) PROVE Ordered(g.list)
    <3> DEFINE t == g.list
    <3>1. /\ Len(t) = Len(list)
          /\ \A k \in 1..Len(list) : t[k] = IF k = i THEN r ELSE list[k]
      BY <2>1, <2>4
    <3> HIDE DEF t
    <3> SUFFICES ASSUME NEW j \in 2..Len(t), NEW k \in 2..Len(t), j < k
                 PROVE  t[j] < t[k]
      BY DEF Ordered, t
    <3>2. /\ j \in 2..Len(list) /\ k \in 2..Len(list) /\ list[j] < list[k]
          /\ j \in 1..Len(list) /\ k \in 1..Len(list)
      BY <1>a, <2>5, <3>1 DEF Ordered
    <3>3. list[j] \in B /\ list[k] \in B /\ list[j] \in Int /\ list[k] \in Int
      <4>1. list[j] \in B /\ list[k] \in B
        BY <1>a, <3>2 DEF Range
      <4> QED BY <1>1, <4>1, HeapAssumption DEF Addr
    <3>4. CASE j = i
      <4>1. b + sz[b] <= list[k]
        BY <1>0, <1>1, <3>2, <3>3, <3>4, ApartLe DEF Laid
      <4>2. t[j] = r /\ t[k] = list[k] /\ r \in Int
        BY <2>3, <3>1, <3>2, <3>4
      <4> DEFINE x == b + sz[b]
      <4>3. x \in Int /\ r < x /\ x <= list[k]
        BY <2>3, <4>1
      <4> HIDE DEF b, B, x
      <4> QED BY <3>3, <4>2, <4>3
    <3>5. CASE k = i
      <4>1. t[j] = list[j] /\ t[k] = r /\ list[j] < b
        BY <3>1, <3>2, <3>5
      <4> QED BY <2>3, <3>3, <4>1
    <3>6. CASE j # i /\ k # i
      BY <3>1, <3>2, <3>6
    <3> QED BY <3>4, <3>5, <3>6
  <2>6. ASSUME NEW w \in Int, Covers(h, L, w) PROVE Covers(g, L \union {b}, w)
    <3>0. \A x \in Range(list) \union L : x # b => x \in Range(g.list) \union L
      <4> SUFFICES ASSUME NEW x \in Range(list), x # b PROVE x \in Range(g.list)
        OBVIOUS
      <4>1. PICK k \in 1..Len(list) : x = list[k] /\ k # i
        BY <1>a DEF Range
      <4>2. k \in DOMAIN g.list /\ g.list[k] = x
        BY <1>a, <2>1, <2>4, <4>1
      <4> QED BY <4>2 DEF Range
    <3>1. PICK d \in Range(list) \union L : d <= w /\ w < d + 8 + sz[d]
      BY <2>6, <1>c DEF Covers, EndOf, SIZE_T
    <3>2. CASE d = b /\ w < r
      <4>1. b <= w /\ w < EndOf(b, g.size[b])
        BY <2>1, <2>2, <2>3, <3>1, <3>2 DEF EndOf, SIZE_T
      <4> QED BY <4>1 DEF Covers
    <3>3. CASE d = b /\ ~(w < r)
      <4>1. r <= w /\ w < EndOf(r, g.size[r])
        <5>1. w < b + 8 + sz[b]
          BY <3>1, <3>3
        <5>2. r \in Int /\ EndOf(r, g.size[r]) = b + 8 + sz[b]
          <6>1. g.size[r] = sz[b] - n - 8
            BY <2>1, <2>3
          <6>2. EndOf(r, g.size[r]) = r + 8 + (sz[b] - n - 8)
            BY <6>1 DEF EndOf, SIZE_T
          <6>3. \A x \in Int, y \in Nat :
                  x + 8 + n \in Int /\ (x + 8 + n) + 8 + (y - n - 8) = x + 8 + y
            OBVIOUS
          <6> QED BY <2>3, <6>2, <6>3
        <5> QED BY <3>3, <5>1, <5>2
      <4>2. r \in Range(g.list)
        BY <1>a, <1>c, <2>1, <2>4 DEF Range
      <4> QED BY <4>1, <4>2 DEF Covers
    <3>4. CASE d # b
      <4>1. z[d] = sz[d]
        BY <2>2, <3>4
      <4>2. d \in Range(g.list) \union L
        BY <3>0, <3>4
      <4> QED BY <2>1, <3>1, <4>1, <4>2 DEF Covers, EndOf, SIZE_T
    <3> QED BY <3>2, <3>3, <3>4
  <2> QED BY <2>5, <2>6
<1>3. CASE ~(sz[b] - n > BLOCK_T)
  <2>0. g = [h EXCEPT !.list = RemoveAt(list, i)]
    BY <1>b, <1>3
  <2>1. g.list = RemoveAt(list, i) /\ g.size = sz
    BY <1>0, <2>0
  <2>2. /\ RemoveAt(list, i) \in Seq(Addr)
        /\ Range(RemoveAt(list, i)) = Range(list) \ {b}
        /\ IsInjective(RemoveAt(list, i))
    <3>1. i \in 1..Len(list)
      BY <1>c
    <3> QED BY <1>0, <3>1, RemoveAtList
  <2>3. Ordered(list) => Ordered(RemoveAt(list, i))
    BY <1>0, <1>c, RemoveOrdered
  <2>4. Range(g.list) \union (L \union {b}) = Range(list) \union L
    BY <1>1, <2>1, <2>2
  <2>5. \A w : Covers(h, L, w) => Covers(g, L \union {b}, w)
    BY <1>c, <2>1, <2>4 DEF Covers
  <2> QED BY <2>1, <2>3, <2>5
<1> QED BY <1>2, <1>3

-----------------------------------------------------------------------------
\* kmalloc and kfree leave the heap g behind, with the blocks L in use.
LEMMA KeptNext ==
  ASSUME HInv, NothingLost, NEW g, NEW L, free_block_list' = g.list, size' = g.size,
         Live' = L, UNCHANGED <<heap_end, wasted>>, Ordered(g.list),
         \A w \in Int : Covers(TheHeap, Live, w) => Covers(g, L, w)
  PROVE  OrderedBehindHead' /\ NothingLost'
<1>1. OrderedBehindHead'
  BY DEF OrderedBehindHead, Ordered
<1>2. TheHeap.list = free_block_list /\ TheHeap.size = size
  BY DEF TheHeap
<1>3. ASSUME NEW w \in 0..heap_end-1, w \notin wasted
      PROVE  \E b \in Blocks' : b <= w /\ w < EndOf(b, size'[b])
  <2>1. \E b \in Blocks : b <= w /\ w < EndOf(b, size[b])
    BY <1>3 DEF NothingLost
  <2>2. Covers(TheHeap, Live, w)
    BY <1>2, <2>1 DEF Covers, Blocks, Free
  <2>3. w \in Int
    BY HeapAssumption DEF HInv, TypeOK, Addr
  <2>4. Covers(g, L, w)
    BY <2>2, <2>3
  <2>5. Blocks' = Range(g.list) \union L
    BY DEF Blocks, Free
  <2> QED BY <2>4, <2>5 DEF Covers
<1>4. NothingLost'
  BY <1>3 DEF NothingLost, EndOf
<1> QED BY <1>1, <1>4

\* kmalloc from the free list.
LEMMA FirstFitKeeps ==
  ASSUME WholeWords, HInv, OrderedBehindHead, NothingLost, NEW n \in Sizes, kmalloc_FirstFit(n)
  PROVE  OrderedBehindHead' /\ NothingLost'
<1>0. n \in Nat \ {0} /\ n % SIZE_T = 0
  BY SizesAssumption DEF WholeWords
<1>n. n \in Asked
  BY <1>0 DEF Asked
<1>1. PICK i \in DOMAIN free_block_list :
        /\ size[free_block_list[i]] >= n
        /\ Grant(free_block_list[i], n, split_block(TheHeap, i, n))
  BY DEF kmalloc_FirstFit, TheHeap
<1> DEFINE b == free_block_list[i]  g == split_block(TheHeap, i, n)
<1>2. heap_end' = heap_end /\ wasted' = wasted
  BY DEF kmalloc_FirstFit
<1>3. /\ HeapOK(TheHeap, Live, heap_end) /\ TheHeap.list = free_block_list
      /\ TheHeap.size = size
  BY HInvHeap DEF TheHeap
<1>4. i \in 1..Len(free_block_list) /\ b \in Addr
  BY LenProperties DEF HInv, TypeOK
<1>5. /\ Ordered(TheHeap.list) => Ordered(g.list)
      /\ \A w \in Int : Covers(TheHeap, Live, w) => Covers(g, Live \union {TheHeap.list[i]}, w)
  <2>1. i \in 1..Len(TheHeap.list) /\ TheHeap.size[TheHeap.list[i]] >= n
    BY <1>1, <1>3, <1>4
  <2>2. HeapOK(TheHeap, Live, heap_end)
    BY <1>3
  <2> QED BY <1>n, <2>1, <2>2, SplitKeeps
<1>6. TheHeap.list[i] = b /\ Ordered(TheHeap.list)
  BY <1>3 DEF OrderedBehindHead, Ordered
<1>7. free_block_list' = g.list /\ size' = g.size /\ want' = [want EXCEPT ![b] = n]
  BY <1>1 DEF Grant
<1> HIDE DEF b, g
<1>8. Live' = Live \union {b}
  BY <1>0, <1>4, <1>7, LiveGrant DEF HInv, TypeOK
<1> QED BY <1>2, <1>5, <1>6, <1>7, <1>8, KeptNext

\* What is left of new pages without a block is counted as wasted.
LEMMA UnsatisfiedKeeps ==
  ASSUME WholeWords, HInv, OrderedBehindHead, NothingLost, NEW n \in Sizes, kmalloc_Unsatisfied(n)
  PROVE  OrderedBehindHead' /\ NothingLost'
<1> DEFINE z == [size EXCEPT ![heap_end] = n]
<1>0. n \in Nat \ {0} /\ n % SIZE_T = 0
  BY SizesAssumption DEF WholeWords
<1>1. /\ free_block_list' = free_block_list /\ size' = z
      /\ want' = [want EXCEPT ![heap_end] = n]
      /\ wasted' = wasted \union EndOf(heap_end, n)..heap_end'-1
  BY DEF kmalloc_Unsatisfied, Grant
<1>2. /\ heap_end \in Addr /\ size \in [Addr -> Nat] /\ want \in [Addr -> Nat]
      /\ Blocks \subseteq Addr /\ \A c \in Blocks : c + BLOCK_T <= heap_end
  <2>1. Range(free_block_list) \subseteq Addr
    BY LenProperties DEF HInv, TypeOK, Range
  <2> QED BY <2>1 DEF HInv, TypeOK, Blocks, Live, Free, Laid, LaidIn
<1>3. z[heap_end] = n /\ \A c \in Blocks : z[c] = size[c]
  <2>1. heap_end \in Int /\ heap_end \notin Blocks
    BY <1>2, HeapAssumption DEF Addr, BLOCK_T
  <2> QED BY <1>2, <2>1
<1> HIDE DEF z
<1>4. Live' = Live \union {heap_end}
  BY <1>0, <1>1, <1>2, LiveGrant
<1>5. Blocks' = Blocks \union {heap_end}
  BY <1>1, <1>4 DEF Blocks, Free
<1>6. OrderedBehindHead'
  BY <1>1 DEF OrderedBehindHead
<1>7. ASSUME NEW w \in 0..heap_end'-1, w \notin wasted'
      PROVE  \E b \in Blocks' : b <= w /\ w < EndOf(b, size'[b])
  <2>0. heap_end \in Nat /\ heap_end' \in Nat /\ w \in Int
    <3>1. HInv'
      BY UnsatisfiedHInv
    <3> QED BY <1>2, <3>1, HeapAssumption DEF HInv, TypeOK, Addr
  <2>1. CASE w < heap_end
    <3>a. w \notin wasted
      BY <1>1, <1>7
    <3>1. w \in 0..heap_end-1 /\ w \notin wasted
      BY <2>0, <2>1, <3>a
    <3>2. PICK b \in Blocks : b <= w /\ w < EndOf(b, size[b])
      BY <3>1 DEF NothingLost
    <3> QED BY <1>1, <1>3, <1>5, <3>2
  <2>2. CASE ~(w < heap_end)
    <3>a. w \notin EndOf(heap_end, n)..heap_end'-1
      BY <1>1, <1>7
    <3>b1. w < heap_end'
      <4>1. \A x \in Int : \A v \in 0..x-1 : v < x
        OBVIOUS
      <4>2. heap_end' \in Int
        BY <2>0
      <4> QED BY <4>1, <4>2
    <3>b2. heap_end \in Nat /\ n \in Nat
      BY <1>0, <2>0
    <3>b3. EndOf(heap_end, n) \in Int
      BY <3>b2 DEF EndOf, SIZE_T
    <3>c. \A a, x, y \in Int : x \notin a..y-1 /\ x < y => x < a
      OBVIOUS
    <3>d. w \in Int /\ heap_end' \in Int /\ heap_end <= w
      BY <2>0, <2>2
    <3>e. w < EndOf(heap_end, n)
      BY <3>a, <3>b1, <3>b3, <3>c, <3>d, Zenon
    <3>1. w < EndOf(heap_end, n) /\ heap_end <= w
      BY <3>d, <3>e
    <3> QED BY <1>1, <1>3, <1>5, <3>1
  <2> QED BY <2>1, <2>2
<1>8. NothingLost'
  BY <1>7 DEF NothingLost, EndOf
<1> QED BY <1>6, <1>8

\* New pages become one block, which is split.
LEMMA NoBlocksKeeps ==
  ASSUME WholeWords, HInv, OrderedBehindHead, NothingLost, NEW n \in Sizes, kmalloc_NoBlocks(n)
  PROVE  OrderedBehindHead' /\ NothingLost'
<1> DEFINE new == sbrk(n + SIZE_T)  m == new - heap_end
           z == [size EXCEPT ![heap_end] = m]
           h == [list |-> <<heap_end>>, size |-> z]  g == split_block(h, 1, n)
<1>0. n \in Nat \ {0} /\ n % SIZE_T = 0
  BY SizesAssumption DEF WholeWords
<1>n. n \in Asked
  BY <1>0 DEF Asked
<1>1. /\ new <= MaxHeap /\ heap_end' = new /\ Grant(heap_end, n, g)
      /\ wasted' = wasted /\ free_block_list = <<>>
  BY DEF kmalloc_NoBlocks
<1>2. /\ heap_end \in Nat /\ new \in Nat /\ m \in Nat \ {0} /\ m >= n
      /\ heap_end + m = new /\ m % SIZE_T = 0
  <2>1. n + SIZE_T \in Nat
    BY <1>0 DEF SIZE_T
  <2>2. new \in Nat /\ new >= heap_end + (n + SIZE_T) /\ m % SIZE_T = 0
    BY <2>1, SbrkRounds DEF HInv
  <2> HIDE DEF new
  <2>3. heap_end \in Nat
    BY HeapAssumption DEF HInv, TypeOK, Addr
  <2> QED BY <1>0, <2>2, <2>3 DEF SIZE_T
<1> HIDE DEF m
<1>3. /\ heap_end \in Addr /\ new \in Addr /\ new % PAGE_SIZE = 0
      /\ z \in [Addr -> Nat] /\ z[heap_end] = m /\ heap_end \notin Blocks
      /\ \A c \in Blocks : z[c] = size[c]
      /\ Laid(Blocks \union {heap_end}, z, new)
  BY <1>0, <1>1, <1>2, SbrkHeap
<1> HIDE DEF new, z
<1>4. h.list = <<heap_end>> /\ h.size = z /\ h = [list |-> h.list, size |-> h.size]
  OBVIOUS
<1>5. Blocks = Live /\ Live \subseteq Addr
  BY <1>1 DEF Blocks, Free, Range, Live
<1> HIDE DEF h
<1>6. /\ h.list \in Seq(Addr) /\ Len(h.list) = 1 /\ h.list[1] = heap_end
      /\ Range(h.list) = {heap_end} /\ IsInjective(h.list)
  BY <1>3, <1>4 DEF Range, IsInjective
<1>7. HeapOK(h, Live, new)
  <2>1. Blocks \union {heap_end} = Range(h.list) \union Live
    BY <1>5, <1>6
  <2> QED BY <1>3, <1>4, <1>5, <1>6, <2>1 DEF HeapOK
<1>8. /\ Ordered(g.list)
      /\ \A w \in Int : Covers(h, Live, w) => Covers(g, Live \union {heap_end}, w)
  <2>1. 1 \in 1..Len(h.list) /\ h.size[h.list[1]] >= n
    BY <1>2, <1>3, <1>4, <1>6
  <2>2. /\ Ordered(h.list) => Ordered(g.list)
        /\ \A w \in Int : Covers(h, Live, w) => Covers(g, Live \union {h.list[1]}, w)
    BY <1>n, <1>7, <2>1, SplitKeeps
  <2>3. Ordered(h.list)
    BY <1>6 DEF Ordered
  <2> HIDE DEF g
  <2> QED BY <1>6, <2>2, <2>3
<1>9. free_block_list' = g.list /\ size' = g.size /\ Live' = Live \union {heap_end}
  BY <1>0, <1>1, <1>3, LiveGrant DEF Grant, HInv, TypeOK
<1> HIDE DEF g
<1>10. OrderedBehindHead'
  BY <1>8, <1>9 DEF OrderedBehindHead, Ordered
<1>11. ASSUME NEW w \in 0..heap_end'-1, w \notin wasted'
       PROVE  \E b \in Blocks' : b <= w /\ w < EndOf(b, size'[b])
  <2>0. w \in Int /\ w < new
    BY <1>1, <1>2
  <2>1. Covers(h, Live, w)
    <3>1. CASE w < heap_end
      <4>1. w \in 0..heap_end-1 /\ w \notin wasted
        BY <1>1, <1>2, <1>11, <2>0, <3>1
      <4>2. PICK b \in Live : b <= w /\ w < EndOf(b, size[b])
        BY <1>5, <4>1 DEF NothingLost
      <4>3. z[b] = size[b]
        BY <1>3, <1>5
      <4> QED BY <1>4, <4>2, <4>3 DEF Covers
    <3>2. CASE ~(w < heap_end)
      <4>1. heap_end <= w /\ w < EndOf(heap_end, z[heap_end])
        BY <1>2, <1>3, <2>0, <3>2 DEF EndOf, SIZE_T
      <4> QED BY <1>4, <1>6, <4>1 DEF Covers
    <3> QED BY <3>1, <3>2
  <2>2. Covers(g, Live \union {heap_end}, w)
    BY <1>8, <2>0, <2>1
  <2>3. Blocks' = Range(g.list) \union (Live \union {heap_end})
    BY <1>9 DEF Blocks, Free
  <2> QED BY <1>9, <2>2, <2>3 DEF Covers
<1>12. NothingLost'
  BY <1>11 DEF NothingLost, EndOf
<1> QED BY <1>10, <1>12

\* A freed block in the list covers what it covered in use.
LEMMA InsertedCovers ==
  ASSUME NEW freed \in Live, NEW l, Range(l) = Range(free_block_list) \union {freed}
  PROVE  \A w \in Int : Covers(TheHeap, Live, w)
                         => Covers([list |-> l, size |-> size], Live \ {freed}, w)
<1> DEFINE h == [list |-> l, size |-> size]
<1>1. h.list = l /\ h.size = size /\ TheHeap.list = free_block_list /\ TheHeap.size = size
  BY DEF TheHeap
<1>2. Range(h.list) \union (Live \ {freed}) = Range(TheHeap.list) \union Live
  BY <1>1
<1> HIDE DEF h
<1>3. \A w \in Int : Covers(TheHeap, Live, w) => Covers(h, Live \ {freed}, w)
  BY <1>1, <1>2 DEF Covers
<1> QED BY <1>3 DEF h

\* kfree leaves the heap g behind.
LEMMA ReleaseKeeps ==
  ASSUME HInv, NothingLost, NEW freed, NEW g, Release(freed, g), Ordered(g.list),
         \A w \in Int : Covers(TheHeap, Live, w) => Covers(g, Live \ {freed}, w)
  PROVE  OrderedBehindHead' /\ NothingLost'
<1>1. /\ freed \in Addr /\ UNCHANGED <<heap_end, wasted>>
      /\ free_block_list' = g.list /\ size' = g.size /\ want' = [want EXCEPT ![freed] = 0]
  BY DEF Release, Live
<1>2. Live' = Live \ {freed}
  BY <1>1, LiveRelease DEF HInv, TypeOK
<1> QED BY <1>1, <1>2, KeptNext

\* kfree into an empty list.
LEMMA FreeNoBlocksKeeps ==
  ASSUME HInv, NothingLost, NEW freed \in Live, kfree_NoBlocks(freed)
  PROVE  OrderedBehindHead' /\ NothingLost'
<1> DEFINE l == <<freed>>  g == [list |-> l, size |-> size]
<1>1. free_block_list = <<>> /\ Release(freed, g)
  BY DEF kfree_NoBlocks
<1>2. Range(l) = Range(free_block_list) \union {freed} /\ Len(l) = 1
  BY <1>1 DEF Range
<1>3. g.list = l
  OBVIOUS
<1> HIDE DEF l
<1>4. \A w \in Int : Covers(TheHeap, Live, w) => Covers(g, Live \ {freed}, w)
  BY <1>2, InsertedCovers
<1> HIDE DEF g
<1>5. Ordered(g.list)
  BY <1>2, <1>3 DEF Ordered
<1> QED BY <1>1, <1>4, <1>5, ReleaseKeeps

\* kfree into a list of one block.
LEMMA FreeOneBlockKeeps ==
  ASSUME HInv, NothingLost, NEW freed \in Live, kfree_OneBlock(freed)
  PROVE  OrderedBehindHead' /\ NothingLost'
<1> DEFINE only == free_block_list[1]
           l == IF only < freed THEN <<only, freed>> ELSE <<freed, only>>
           h == [list |-> l, size |-> size]  g == coalesce_blocks(h, 1)
<1>1. Len(free_block_list) = 1 /\ Release(freed, g)
  BY DEF kfree_OneBlock
<1>2. /\ freed \in Addr /\ only \in Addr /\ only # freed
      /\ Range(free_block_list) = {only}
  <2>1. DOMAIN free_block_list = {1} /\ only \in Addr
    <3>1. free_block_list \in Seq(Addr)
      BY DEF HInv, TypeOK
    <3>2. Len(free_block_list) = 1
      BY <1>1
    <3> QED BY <3>1, <3>2, OneElement
  <2>2. Range(free_block_list) = {only}
    BY <2>1 DEF Range
  <2> HIDE DEF only
  <2>3. only # freed
    BY <2>2 DEF HInv, NotFreeTwice, Free
  <2> QED BY <2>1, <2>2, <2>3 DEF Live
<1> HIDE DEF only
<1>3. \A x, y \in Addr : x # y =>
        /\ <<x, y>> \in Seq(Addr) /\ Len(<<x, y>>) = 2
        /\ IsInjective(<<x, y>>) /\ Range(<<x, y>>) = {x, y}
  BY DEF IsInjective, Range
<1>4. /\ l \in Seq(Addr) /\ IsInjective(l) /\ Len(l) = 2
      /\ Range(l) = Range(free_block_list) \union {freed}
  <2>1. CASE only < freed
    BY <1>2, <1>3, <2>1
  <2>2. CASE ~(only < freed)
    BY <1>2, <1>3, <2>2
  <2> QED BY <2>1, <2>2
<1> HIDE DEF l
<1>5. /\ HeapOK(h, Live \ {freed}, heap_end)
      /\ \A w \in Int : Covers(TheHeap, Live, w) => Covers(h, Live \ {freed}, w)
  BY <1>4, InsertedHeap, InsertedCovers
<1>6. h.list = l /\ Ordered(l) /\ 1 \in 1..Len(h.list)
  <2>1. h.list = l
    OBVIOUS
  <2>2. Ordered(l)
    BY <1>4 DEF Ordered
  <2>3. Len(h.list) = 2
    BY <1>4, <2>1
  <2> QED BY <2>1, <2>2, <2>3
<1> HIDE DEF h
<1>7. /\ Ordered(h.list) => Ordered(g.list)
      /\ \A w \in Int : Covers(h, Live \ {freed}, w) => Covers(g, Live \ {freed}, w)
  <2>1. HeapOK(h, Live \ {freed}, heap_end) /\ 1 \in 1..Len(h.list)
    BY <1>5, <1>6
  <2> QED BY <2>1, CoalesceKeeps
<1> HIDE DEF g
<1>8. \A w \in Int : Covers(TheHeap, Live, w) => Covers(g, Live \ {freed}, w)
  BY <1>5, <1>7
<1> QED BY <1>1, <1>6, <1>7, <1>8, ReleaseKeeps

\* kfree into a longer list: the loop finds the place that keeps the order.
LEMMA FreeManyBlocksKeeps ==
  ASSUME HInv, OrderedBehindHead, NothingLost, NEW freed \in Live, kfree_ManyBlocks(freed)
  PROVE  OrderedBehindHead' /\ NothingLost'
<1>1. PICK p \in 2..Len(free_block_list)+1 :
        /\ StopsAt(p, freed)
        /\ Release(freed, coalesce_blocks(coalesce_blocks(
             [list |-> InsertAt(free_block_list, p, freed), size |-> size], p), p-1))
  BY DEF kfree_ManyBlocks
<1> DEFINE l == InsertAt(free_block_list, p, freed)  h == [list |-> l, size |-> size]
           h1 == coalesce_blocks(h, p)  g == coalesce_blocks(h1, p-1)
           L == Live \ {freed}
<1>2. Len(free_block_list) \in Nat /\ p \in 1..Len(free_block_list)+1 /\ p-1 \in Nat \ {0}
  BY LenProperties DEF HInv, TypeOK
<1>a. /\ free_block_list \in Seq(Addr) /\ IsInjective(free_block_list)
      /\ freed \in Addr /\ freed \notin Range(free_block_list)
  BY DEF HInv, TypeOK, NotFreeTwice, Free, Live
<1>3. /\ l \in Seq(Addr) /\ Len(l) = Len(free_block_list) + 1 /\ IsInjective(l)
      /\ Range(l) = Range(free_block_list) \union {freed}
  BY <1>2, <1>a, InsertAtList
<1>b. Ordered(l)
  <2>1. Ordered(free_block_list)
    BY DEF OrderedBehindHead, Ordered
  <2>2. /\ \A q \in 2..p-1 : free_block_list[q] < freed
        /\ p <= Len(free_block_list) => free_block_list[p] >= freed
    BY <1>1 DEF StopsAt
  <2> QED BY <1>a, <2>1, <2>2, InsertOrdered
<1> HIDE DEF l
<1>4. /\ HeapOK(h, L, heap_end) /\ h.list = l /\ h.size = size
      /\ \A w \in Int : Covers(TheHeap, Live, w) => Covers(h, L, w)
  BY <1>3, InsertedHeap, InsertedCovers
<1> HIDE DEF h, L
<1>5. p \in 1..Len(h.list) /\ \A c \in L : h.size[c] = size[c]
  BY <1>2, <1>3, <1>4
<1>6. HeapOK(h1, L, heap_end) /\ p <= Len(h1.list) /\ \A c \in L : h1.size[c] = size[c]
  <2>1. HeapOK(h, L, heap_end)
    BY <1>4
  <2> QED BY <1>5, <2>1, CoalescedHeap
<1>7. /\ Ordered(h.list) => Ordered(h1.list)
      /\ \A w \in Int : Covers(h, L, w) => Covers(h1, L, w)
  <2>1. HeapOK(h, L, heap_end) /\ p \in 1..Len(h.list)
    BY <1>4, <1>5
  <2> QED BY <2>1, CoalesceKeeps
<1> HIDE DEF h1
<1>8. /\ Ordered(h1.list) => Ordered(g.list)
      /\ \A w \in Int : Covers(h1, L, w) => Covers(g, L, w)
  <2>1. p-1 \in 1..Len(h1.list)
    <3>1. Len(h1.list) \in Nat
      BY <1>6, LenProperties DEF HeapOK
    <3> QED BY <1>2, <1>6, <3>1
  <2>2. HeapOK(h1, L, heap_end)
    BY <1>6
  <2> QED BY <2>1, <2>2, CoalesceKeeps
<1>9. Release(freed, g)
  BY <1>1 DEF g, h1, h, l
<1> HIDE DEF g
<1>10. Ordered(g.list) /\ \A w \in Int : Covers(TheHeap, Live, w) => Covers(g, L, w)
  BY <1>b, <1>4, <1>7, <1>8
<1> QED BY <1>9, <1>10, ReleaseKeeps DEF L

OInv == HInv /\ OrderedBehindHead /\ NothingLost

\* Every call of kmalloc and kfree keeps the order and loses no word.
LEMMA StepOInv ==
  ASSUME WholeWords
  PROVE  OInv /\ [Next]_vars => OInv'
<1> SUFFICES ASSUME HInv, OrderedBehindHead, NothingLost, [Next]_vars
             PROVE  OrderedBehindHead' /\ NothingLost'
  BY StepHInv DEF OInv
<1>1. CASE UNCHANGED vars
  BY <1>1 DEF OrderedBehindHead, NothingLost, EndOf, Blocks, Free, Live, vars
<1>2. ASSUME NEW n \in Sizes, kmalloc(n) PROVE OrderedBehindHead' /\ NothingLost'
  <2>1. CASE kmalloc_TooMuch(n)
    BY <1>1, <2>1 DEF kmalloc_TooMuch
  <2> QED BY <1>2, <2>1, NoBlocksKeeps, FirstFitKeeps, UnsatisfiedKeeps DEF kmalloc
<1>3. ASSUME NEW b \in Live, kfree(b) PROVE OrderedBehindHead' /\ NothingLost'
  BY <1>3, FreeNoBlocksKeeps, FreeOneBlockKeeps, FreeManyBlocksKeeps DEF kfree
<1> QED BY <1>1, <1>2, <1>3 DEF Next

\* The empty heap.
LEMMA InitOInv == Init => OInv
<1> SUFFICES ASSUME Init PROVE OrderedBehindHead /\ NothingLost
  BY InitHInv DEF OInv
<1> QED BY DEF Init, OrderedBehindHead, NothingLost

\* The search of kfree may stop at the first greater block: behind its head the
\* list stays ordered.
THEOREM OrderSafe ==
  ASSUME WholeWords
  PROVE  Spec => []OrderedBehindHead
<1>1. OInv => OrderedBehindHead
  BY DEF OInv
<1> QED BY InitOInv, StepOInv, <1>1, PTL DEF Spec

\* No sequence of requests for whole words and of frees loses a byte of the
\* heap, the ends of the pages that the last branch of kmalloc takes excepted.
THEOREM LosesNothing ==
  ASSUME WholeWords
  PROVE  Spec => []NothingLost
<1>1. OInv => NothingLost
  BY DEF OInv
<1> QED BY InitOInv, StepOInv, <1>1, PTL DEF Spec
=============================================================================
