---------------------------- MODULE PagingProofs ----------------------------
(***************************************************************************)
(* Theorems about Paging, for every size of tables, machine, heap and set  *)
(* of pages that callers map, as long as memory lasts and the static       *)
(* tables are marked in the bitmap.                                        *)
(***************************************************************************)
EXTENDS Paging, FiniteSetTheorems, WellFoundedInduction, NaturalsInduction, TLAPS

N      == PA!nframes
Frames == 0..N-1

-----------------------------------------------------------------------------
(* Arithmetic                                                              *)

\* A frame number survives the way to an address and back.
LEMMA MulDiv ==
  ASSUME NEW P \in Nat \ {0}, NEW n \in Nat
  PROVE  n * P \in Nat /\ (n * P) \div P = n
OBVIOUS

\* Addresses of frames grow with their numbers.
LEMMA MulMono ==
  ASSUME NEW P \in Nat \ {0}, NEW i \in Nat, NEW n \in Nat
  PROVE  i < n <=> i * P < n * P
OBVIOUS

\* Quotient and remainder.
LEMMA DivMod ==
  ASSUME NEW P \in Nat \ {0}, NEW x \in Nat
  PROVE  /\ x \div P \in Nat /\ x % P \in 0..P-1
         /\ x = (x \div P) * P + (x % P)
OBVIOUS

\* There is one quotient.
LEMMA DivUnique ==
  ASSUME NEW P \in Nat \ {0}, NEW q \in Nat, NEW r \in 0..P-1
  PROVE  (q * P + r) \div P = q /\ (q * P + r) % P = r
OBVIOUS

\* Numbers below a product have their quotient below the factor.
LEMMA DivBound ==
  ASSUME NEW P \in Nat \ {0}, NEW n \in Nat, NEW x \in Nat, x < n * P
  PROVE  x \div P \in 0..n-1
OBVIOUS

\* Three digits to the base E.
LEMMA Digits ==
  ASSUME NEW E \in Nat \ {0}, NEW x \in Nat
  PROVE  /\ x \div (E * E) \in Nat
         /\ x = ((x \div (E * E)) * E + ((x \div E) % E)) * E + (x % E)
<1> DEFINE q == x \div E  r == x % E  p == q \div E  s == q % E
<1>1. q \in Nat /\ r \in 0..E-1 /\ x = q * E + r
  BY DivMod
<1>2. p \in Nat /\ s \in 0..E-1 /\ q = p * E + s
  BY <1>1, DivMod
<1> HIDE DEF q, r, p, s
<1>3. x = (p * E + s) * E + r
  BY <1>1, <1>2
<1>4. x = p * (E * E) + (s * E + r)
  BY <1>1, <1>2, <1>3
<1>5. s * E + r \in 0..E * E - 1
  <2>1. s * E \in Nat /\ s * E <= (E - 1) * E
    BY <1>2
  <2>2. (E - 1) * E = E * E - E
    OBVIOUS
  <2> QED BY <1>1, <2>1, <2>2
<1>6. E * E \in Nat \ {0}
  OBVIOUS
<1> DEFINE S == E * E  c == s * E + r
<1>7. S \in Nat \ {0} /\ c \in 0..S-1 /\ x = p * S + c
  BY <1>4, <1>5, <1>6
<1> HIDE DEF S, c
<1>8. x \div S = p
  BY <1>2, <1>7, DivUnique
<1> QED BY <1>2, <1>3, <1>8 DEF S, q, r, s

-----------------------------------------------------------------------------
(* Entries                                                                 *)

EntrySet == {Absent} \union {Entry(a) : a \in Nat} \union {LargePage(a) : a \in Nat}

\* An entry that leads to a table, or in the last level to a page.
Leads(e) == e.present /\ ~e.huge

\* What is in the fields of an entry.
LEMMA Fields ==
  /\ ~Absent.present /\ ~Absent.huge /\ Absent \in EntrySet
  /\ \A a \in Nat : /\ Entry(a).present /\ ~Entry(a).huge /\ Entry(a).address = a
                    /\ LargePage(a).present /\ LargePage(a).huge /\ LargePage(a).address = a
                    /\ Entry(a) \in EntrySet /\ LargePage(a) \in EntrySet
BY DEF Absent, Entry, LargePage, EntrySet

\* The fields say which entry it is.
LEMMA Shape ==
  ASSUME NEW e \in EntrySet
  PROVE  /\ e.address \in Nat
         /\ Leads(e) <=> e = Entry(e.address)
         /\ ~e.present <=> e = Absent
         /\ e.huge => e.present
BY DEF Absent, Entry, LargePage, EntrySet, Leads

\* What becomes of an entry that map_addr_in writes to.
LEMMA Filled ==
  ASSUME NEW a, NEW e \in EntrySet, ~e.huge
  PROVE  [present |-> TRUE, huge |-> e.huge, address |-> a] = Entry(a)
<1>1. e.huge = FALSE
  BY DEF EntrySet, Absent, Entry, LargePage
<1> QED BY <1>1 DEF Entry

-----------------------------------------------------------------------------
(* The machine                                                             *)

\* The numbers derived from the machine are what their names say.
LEMMA Machine ==
  /\ PAGE_SIZE \in Nat \ {0} /\ N \in Nat /\ PA!metadata_bytes \in Nat
  /\ PA!PAGE_SIZE = PAGE_SIZE
  /\ PA!Scanned \subseteq Frames
  /\ metadata_pages \in Nat
<1>1. PAGE_SIZE \in Nat \ {0}
  BY MachineAssumption
<1>2. PA!PAGE_SIZE = PAGE_SIZE
  BY DEF PA!PAGE_SIZE, PAGE_SIZE
<1> HIDE DEF PAGE_SIZE
<1>3. N \in Nat
  <2>1. memsize \div PAGE_SIZE \in Nat
    BY <1>1, DivMod, MachineAssumption
  <2> QED BY <1>2, <2>1, DivMod, MachineAssumption DEF N, PA!nframes
<1>4. PA!metadata_bytes \in Nat /\ 8 * PA!metadata_bytes <= N
  BY <1>3 DEF N, PA!metadata_bytes, PA!BYTE
<1>5. PA!Scanned \subseteq Frames
  BY <1>3, <1>4 DEF PA!Scanned, PA!BYTE, Frames
<1>6. metadata_pages \in Nat
  <2>1. N \div 2 + PAGE_SIZE - 1 \in Nat
    BY <1>1, <1>3
  <2> QED BY <1>1, <2>1, DivMod DEF metadata_pages, N
<1> QED BY <1>1, <1>2, <1>3, <1>4, <1>5, <1>6

\* A set of naturals that is not empty has a least element.
LEMMA Least ==
  ASSUME NEW A \in SUBSET Nat, A # {}
  PROVE  \E x \in A : \A y \in A : x <= y
<1>1. PICK x \in A : \A y \in A : ~(<<y, x>> \in OpToRel(<, Nat))
  BY WFMin, NatLessThanWellFounded, Zenon
<1>2. \A y \in A : ~(y < x)
  BY <1>1 DEF OpToRel
<1> QED BY <1>2

\* On a small machine the bound of the bitmap's operations is exact.
LEMMA LimitIs ==
  ASSUME Small
  PROVE  PA!Limit = N * PAGE_SIZE
<1> DEFINE b == N * PAGE_SIZE
<1>1. b \in Nat /\ b < W32
  BY Machine, MulDiv DEF Small, N
<1> HIDE DEF b
<1>2. b % W32 = b
  BY <1>1, MachineAssumption
<1> QED BY <1>2, Machine DEF PA!Limit, b, N

\* What is left of memory can be counted.
LEMMA AvailableFinite ==
  ASSUME NEW s
  PROVE  /\ PA!Available(s) \subseteq Frames /\ IsFiniteSet(PA!Available(s))
         /\ Cardinality(PA!Available(s)) \in Nat
<1>1. PA!Available(s) \subseteq Frames
  BY Machine DEF PA!Available
<1>2. IsFiniteSet(Frames)
  BY Machine, FS_Interval DEF Frames
<1>3. IsFiniteSet(PA!Available(s))
  BY <1>1, <1>2, FS_Subset, Zenon
<1> QED BY <1>1, <1>3, FS_CardinalityType

\* The frame that page_alloc picks is one that was not marked, and is marked
\* after that; one frame less is left.
LEMMA FreshFrame ==
  ASSUME Small, NEW m, m.frames \in SUBSET Frames,
         Cardinality(PA!Available(m.frames)) >= 1
  PROVE  /\ Fresh(m) \in Frames \ m.frames
         /\ PA!frame_set(m.frames, Fresh(m) * PAGE_SIZE) = m.frames \union {Fresh(m)}
         /\ Cardinality(PA!Available(m.frames \union {Fresh(m)}))
              = Cardinality(PA!Available(m.frames)) - 1
<1> DEFINE A == PA!Available(m.frames)
<1>1. A \subseteq Frames /\ IsFiniteSet(A) /\ A \in SUBSET Nat
  <2>1. A \subseteq Frames /\ IsFiniteSet(A)
    BY AvailableFinite
  <2> HIDE DEF A
  <2> QED BY <2>1 DEF Frames
<1>2. A # {}
  BY FS_EmptySet
<1>3. PA!first_free_frame(m.frames) # {} /\ PA!first_free_frame(m.frames) \subseteq A
  <2>1. PICK x \in A : \A y \in A : x <= y
    BY <1>1, <1>2, Least
  <2> QED BY <1>2, <2>1 DEF PA!first_free_frame
<1>4. Fresh(m) \in A
  BY <1>3 DEF Fresh
<1>5. Fresh(m) \in Frames \ m.frames
  BY <1>1, <1>4 DEF PA!Available
<1>6. PA!frame_set(m.frames, Fresh(m) * PAGE_SIZE) = m.frames \union {Fresh(m)}
  <2>1. PA!Limit = N * PAGE_SIZE
    BY LimitIs
  <2>2. Fresh(m) * PAGE_SIZE < N * PAGE_SIZE
    BY <1>5, Machine, MulMono DEF Frames
  <2>3. (Fresh(m) * PAGE_SIZE) \div PAGE_SIZE = Fresh(m)
    BY <1>5, Machine, MulDiv DEF Frames
  <2> QED BY <2>1, <2>2, <2>3, Machine DEF PA!frame_set
<1>7. PA!Available(m.frames \union {Fresh(m)}) = A \ {Fresh(m)}
  BY DEF PA!Available
<1>8. Cardinality(A \ {Fresh(m)}) = Cardinality(A) - 1
  BY <1>1, <1>4, FS_RemoveElement
<1> QED BY <1>5, <1>6, <1>7, <1>8

-----------------------------------------------------------------------------
(***************************************************************************)
(* The page tables as a tree.  lv gives every frame its level: 4 for the   *)
(* top-level table, 0 for a frame that is no table.                        *)
(***************************************************************************)
State == [frames : SUBSET Frames, mem : [Frames -> [Index -> EntrySet]]]

HighPml2s == {high_base_pml2s(k) : k \in 0..HIGH_TABLES-1}

\* Tables are frames that are marked in the bitmap.
Levels(m, lv) ==
  /\ lv \in [Frames -> 0..4]
  /\ high_base_pml4 \in Frames /\ lv[high_base_pml4] = 4
  /\ \A x \in Frames : lv[x] > 0 => x \in m.frames

\* An entry leads one level down; large pages are those of the high map.
Down(m, lv) ==
  \A t \in Frames, i \in Index :
    /\ lv[t] >= 2 /\ Leads(m.mem[t][i]) =>
         m.mem[t][i].address \in Frames /\ lv[m.mem[t][i].address] = lv[t] - 1
    /\ lv[t] >= 1 /\ m.mem[t][i].huge => t \in HighPml2s

\* Two entries never lead to the same table.
Apart(m, lv) ==
  \A s, t \in Frames, i, j \in Index :
    /\ lv[s] >= 2 /\ lv[t] >= 2
    /\ Leads(m.mem[s][i]) /\ Leads(m.mem[t][j])
    /\ m.mem[s][i].address = m.mem[t][j].address
    => s = t /\ i = j

\* A frame that is not marked is still clear.
Clear(m) == \A t \in Frames \ m.frames, i \in Index : m.mem[t][i] = Absent

\* The high map is as mmu_init made it.
HighMap(m, lv) ==
  /\ high_base_pml3 \in Frames /\ lv[high_base_pml3] = 3
  /\ m.mem[high_base_pml4][HIGH] = Entry(high_base_pml3)
  /\ \A k \in 0..HIGH_TABLES-1 :
       /\ high_base_pml2s(k) \in Frames /\ lv[high_base_pml2s(k)] = 2
       /\ m.mem[high_base_pml3][k] = Entry(high_base_pml2s(k))
       /\ \A i \in Index : m.mem[high_base_pml2s(k)][i] = LargePage(LargeFrame(k, i))

Tree(m, lv) ==
  /\ m \in State
  /\ Levels(m, lv) /\ Down(m, lv) /\ Apart(m, lv) /\ Clear(m) /\ HighMap(m, lv)

\* n is m with a new table g, to which entry i of table t leads.
Grown(m, n, t, i, g) ==
  /\ n \in State /\ g \in Frames \ m.frames
  /\ n.frames = m.frames \union {g}
  /\ \A s \in Frames, j \in Index :
       n.mem[s][j] = IF s = t /\ j = i THEN Entry(g) ELSE m.mem[s][j]

\* n is m with page a in entry i of table t.
Written(m, n, t, i, a) ==
  /\ n \in State /\ n.frames = m.frames
  /\ \A s \in Frames, j \in Index :
       n.mem[s][j] = IF s = t /\ j = i THEN Entry(a) ELSE m.mem[s][j]

-----------------------------------------------------------------------------
(* What the steps of map_addr_in do to the state                           *)

\* Allocating a frame marks it.
LEMMA AllocIs ==
  ASSUME Small, NEW m \in State, Cardinality(PA!Available(m.frames)) >= 1
  PROVE  /\ Alloc(m) = [frames |-> m.frames \union {Fresh(m)}, mem |-> m.mem]
         /\ Alloc(m) \in State
<1>1. Fresh(m) \in Frames \ m.frames
      /\ PA!frame_set(m.frames, Fresh(m) * PAGE_SIZE) = m.frames \union {Fresh(m)}
  <2>1. m.frames \in SUBSET Frames
    BY DEF State
  <2> QED BY <2>1, FreshFrame
<1> DEFINE fs == PA!frame_set(m.frames, Fresh(m) * PAGE_SIZE)
<1>2. Alloc(m) = [m EXCEPT !.frames = fs]
  BY DEF Alloc
<1>3. fs = m.frames \union {Fresh(m)}
  BY <1>1
<1> HIDE DEF fs
<1>4. Alloc(m) = [frames |-> fs, mem |-> m.mem]
  BY <1>2 DEF State
<1>5. fs \in SUBSET Frames
  BY <1>1, <1>3 DEF State
<1> QED BY <1>3, <1>4, <1>5 DEF State

\* An entry that is absent gets a new table.
LEMMA PresentGrows ==
  ASSUME Small, NEW m \in State, Cardinality(PA!Available(m.frames)) >= 1,
         NEW t \in Frames, NEW i \in Index, ~m.mem[t][i].present
  PROVE  Grown(m, Present(m, t, i), t, i, Fresh(m))
<1> DEFINE g == Fresh(m)  fs == m.frames \union {g}
           n == [frames |-> fs, mem |-> [m.mem EXCEPT ![t][i] = Entry(g)]]
<1>1. g \in Frames \ m.frames /\ g \in Nat
  <2>1. m.frames \in SUBSET Frames
    BY DEF State
  <2>2. g \in Frames \ m.frames
    BY <2>1, FreshFrame
  <2> HIDE DEF g
  <2> QED BY <2>2, Machine DEF Frames
<1>2. Present(m, t, i) = [Alloc(m) EXCEPT !.mem[t][i] = Entry(g)]
  BY DEF Present
<1>3. Alloc(m) = [frames |-> fs, mem |-> m.mem]
  BY AllocIs
<1> HIDE DEF g, fs
<1>4. Present(m, t, i) = n
  BY <1>2, <1>3
<1>5. Entry(g) \in EntrySet
  BY <1>1, Fields
<1>6. n.mem \in [Frames -> [Index -> EntrySet]]
  BY <1>5 DEF State
<1>7. \A s \in Frames, j \in Index :
        n.mem[s][j] = IF s = t /\ j = i THEN Entry(g) ELSE m.mem[s][j]
  BY DEF State
<1>8. n \in State /\ n.frames = m.frames \union {g}
  BY <1>1, <1>6 DEF State, fs
<1> QED BY <1>1, <1>4, <1>7, <1>8 DEF Grown, g

\* The last step writes an entry.
LEMMA LeafWrites ==
  ASSUME NEW m \in State, NEW t \in Frames, NEW i \in Index, NEW f \in Nat,
         ~m.mem[t][i].huge
  PROVE  Written(m, Leaf(m, t, i, f), t, i, f * PAGE_SIZE)
<1> DEFINE a == f * PAGE_SIZE  e == m.mem[t][i]
           n == [m EXCEPT !.mem = [m.mem EXCEPT ![t][i] = Entry(a)]]
<1>1. a \in Nat
  BY Machine, MulDiv
<1>2. e \in EntrySet
  BY DEF State
<1> HIDE DEF a
<1>3. [present |-> TRUE, huge |-> e.huge, address |-> a] = Entry(a)
  BY <1>2, Filled
<1>4. Leaf(m, t, i, f) = n
  BY <1>3 DEF Leaf, a, State
<1>5. Entry(a) \in EntrySet
  BY <1>1, Fields
<1>6. n.mem \in [Frames -> [Index -> EntrySet]]
  BY <1>5 DEF State
<1>7. \A s \in Frames, j \in Index :
        n.mem[s][j] = IF s = t /\ j = i THEN Entry(a) ELSE m.mem[s][j]
  BY DEF State
<1>8. n \in State /\ n.frames = m.frames
  BY <1>6 DEF State
<1> QED BY <1>4, <1>7, <1>8 DEF Written, a

-----------------------------------------------------------------------------
(* The tree grows and is written to                                        *)

\* Indices and addresses of the high map.
LEMMA HighNumbers ==
  /\ HIGH \in Index /\ HEAP \in Index /\ LOW \in Index
  /\ HIGH # HEAP /\ HIGH # LOW /\ HEAP # LOW
  /\ high_base_pml4 \in Nat /\ high_base_pml3 \in Nat
  /\ \A k \in 0..HIGH_TABLES-1 :
       /\ k \in Index /\ high_base_pml2s(k) \in Nat
       /\ \A i \in Index : LargeFrame(k, i) \in Nat
<1>1. ASSUME NEW k \in 0..HIGH_TABLES-1, NEW i \in Index
      PROVE  LargeFrame(k, i) \in Nat
  <2>1. k * ENTRIES \in Nat
    BY TablesAssumption
  <2>2. k * ENTRIES + i \in Nat
    BY <2>1, TablesAssumption DEF Index
  <2> DEFINE b == k * ENTRIES + i
  <2> HIDE DEF b
  <2>3. b \in Nat
    BY <2>2 DEF b
  <2>4. b * ENTRIES \in Nat
    BY <2>3, TablesAssumption
  <2> QED BY <2>4 DEF LargeFrame, b
<1> HIDE DEF LargeFrame
<1> QED
  BY <1>1, TablesAssumption
  DEF HIGH, HEAP, LOW, Index, high_base_pml4, high_base_pml3, high_base_pml2s

\* The entries of the high map are present.
LEMMA HighPresent ==
  ASSUME NEW m, NEW lv, Tree(m, lv)
  PROVE  /\ m.mem[high_base_pml4][HIGH].present
         /\ \A k \in 0..HIGH_TABLES-1 :
              /\ m.mem[high_base_pml3][k].present
              /\ \A i \in Index : m.mem[high_base_pml2s(k)][i].present
BY Fields, HighNumbers DEF Tree, HighMap

\* A new table under an entry that was absent.
LEMMA GrownTree ==
  ASSUME NEW m, NEW n, NEW lv, Tree(m, lv),
         NEW t \in Frames, NEW i \in Index, lv[t] >= 2, ~m.mem[t][i].present,
         NEW g, Grown(m, n, t, i, g)
  PROVE  Tree(n, [lv EXCEPT ![g] = lv[t] - 1])
<1> DEFINE lw == [lv EXCEPT ![g] = lv[t] - 1]
<1>1. lv \in [Frames -> 0..4] /\ g \in Frames \ m.frames /\ m \in State /\ n \in State
  BY DEF Tree, Levels, Grown
<1>2. lw \in [Frames -> 0..4] /\ \A x \in Frames : lw[x] = IF x = g THEN lv[t] - 1 ELSE lv[x]
  BY <1>1
<1>3. lv[g] = 0 /\ t # g
  BY <1>1 DEF Tree, Levels
<1>4. \A s \in Frames, j \in Index :
        n.mem[s][j] = IF s = t /\ j = i THEN Entry(g) ELSE m.mem[s][j]
  BY DEF Grown
<1>5. n.frames = m.frames \union {g}
  BY DEF Grown
<1>6. \A j \in Index : m.mem[g][j] = Absent /\ n.mem[g][j] = Absent
  BY <1>1, <1>3, <1>4 DEF Tree, Clear
<1>7. Entry(g).present /\ ~Entry(g).huge /\ Entry(g).address = g
  BY <1>1, Fields, Machine DEF Frames
<1>8. ~Absent.present /\ ~Absent.huge
  BY Fields
<1> HIDE DEF lw
<1>9. Levels(n, lw)
  BY <1>1, <1>2, <1>3, <1>5 DEF Tree, Levels
<1>10. Down(n, lw)
  <2> SUFFICES ASSUME NEW s \in Frames, NEW j \in Index
               PROVE  /\ lw[s] >= 2 /\ Leads(n.mem[s][j]) =>
                           n.mem[s][j].address \in Frames
                             /\ lw[n.mem[s][j].address] = lw[s] - 1
                      /\ lw[s] >= 1 /\ n.mem[s][j].huge => s \in HighPml2s
    BY DEF Down
  <2>1. CASE s = g
    BY <1>6, <1>8, <2>1 DEF Leads
  <2>2. CASE s = t /\ j = i
    BY <1>1, <1>2, <1>3, <1>4, <1>7, <2>2
  <2>3. CASE s # g /\ ~(s = t /\ j = i)
    <3>1. n.mem[s][j] = m.mem[s][j] /\ lw[s] = lv[s]
      BY <1>2, <1>4, <2>3
    <3>2. lv[s] >= 2 /\ Leads(m.mem[s][j]) =>
            m.mem[s][j].address \in Frames /\ lv[m.mem[s][j].address] = lv[s] - 1
      BY DEF Tree, Down
    <3>3. lv[s] >= 1 /\ m.mem[s][j].huge => s \in HighPml2s
      BY DEF Tree, Down
    <3>4. lv[s] >= 2 /\ Leads(m.mem[s][j]) => m.mem[s][j].address # g
      BY <1>1, <1>3, <3>2
    <3> QED BY <1>2, <3>1, <3>2, <3>3, <3>4
  <2> QED BY <2>1, <2>2, <2>3
<1>11. Apart(n, lw)
  <2> SUFFICES ASSUME NEW r \in Frames, NEW s \in Frames, NEW h \in Index, NEW j \in Index,
                      lw[r] >= 2, lw[s] >= 2, Leads(n.mem[r][h]), Leads(n.mem[s][j]),
                      n.mem[r][h].address = n.mem[s][j].address
               PROVE  r = s /\ h = j
    BY DEF Apart
  <2>1. r # g /\ s # g
    BY <1>6, <1>8 DEF Leads
  <2>2. lw[r] = lv[r] /\ lw[s] = lv[s]
    BY <1>2, <2>1
  <2>3. \A x \in Frames, y \in Index :
          lv[x] >= 2 /\ Leads(m.mem[x][y]) => m.mem[x][y].address # g
    <3> SUFFICES ASSUME NEW x \in Frames, NEW y \in Index, lv[x] >= 2, Leads(m.mem[x][y])
                 PROVE  m.mem[x][y].address # g
      OBVIOUS
    <3>1. lv[m.mem[x][y].address] = lv[x] - 1
      BY DEF Tree, Down
    <3> QED BY <1>1, <1>3, <3>1
  <2>4. CASE r = t /\ h = i
    BY <1>4, <1>7, <2>2, <2>3, <2>4
  <2>5. CASE s = t /\ j = i
    BY <1>4, <1>7, <2>2, <2>3, <2>5
  <2>6. CASE ~(r = t /\ h = i) /\ ~(s = t /\ j = i)
    <3>1. n.mem[r][h] = m.mem[r][h] /\ n.mem[s][j] = m.mem[s][j]
      BY <1>4, <2>6
    <3> QED BY <2>2, <3>1 DEF Tree, Apart
  <2> QED BY <2>4, <2>5, <2>6
<1>12. Clear(n)
  BY <1>1, <1>4, <1>5, <1>3 DEF Tree, Levels, Clear
<1>13. HighMap(n, lw)
  <2>1. HighMap(m, lv)
    BY DEF Tree
  <2>2. \A x \in Frames : lv[x] > 0 => lw[x] = lv[x]
    BY <1>2, <1>3
  <2>3. \A s \in Frames, j \in Index : m.mem[s][j].present => n.mem[s][j] = m.mem[s][j]
    BY <1>4
  <2>4. high_base_pml4 \in Frames
    BY DEF Tree, Levels
  <2> QED BY <2>1, <2>2, <2>3, <2>4, HighPresent, HighNumbers DEF HighMap
<1> QED BY <1>1, <1>9, <1>10, <1>11, <1>12, <1>13 DEF Tree, lw

\* A page in a table of the last level.
LEMMA WrittenTree ==
  ASSUME NEW m, NEW n, NEW lv, Tree(m, lv),
         NEW t \in Frames, NEW i \in Index, lv[t] = 1,
         NEW a \in Nat, Written(m, n, t, i, a)
  PROVE  Tree(n, lv)
<1>1. m \in State /\ n \in State /\ n.frames = m.frames /\ t \in m.frames
  BY DEF Tree, Levels, Written
<1>2. \A s \in Frames, j \in Index :
        n.mem[s][j] = IF s = t /\ j = i THEN Entry(a) ELSE m.mem[s][j]
  BY DEF Written
<1>3. Entry(a).present /\ ~Entry(a).huge
  BY Fields
<1>4. \A s \in Frames, j \in Index : s # t => n.mem[s][j] = m.mem[s][j]
  BY <1>2
<1>5. Levels(n, lv)
  BY <1>1 DEF Tree, Levels
<1>6. Down(n, lv)
  <2>1. Down(m, lv)
    BY DEF Tree
  <2> QED BY <1>2, <1>3, <2>1 DEF Down
<1>7. Apart(n, lv)
  <2>1. Apart(m, lv)
    BY DEF Tree
  <2> QED BY <1>4, <2>1 DEF Apart
<1>8. Clear(n)
  BY <1>1, <1>4 DEF Tree, Clear
<1>9. HighMap(n, lv)
  <2>1. HighMap(m, lv) /\ lv[high_base_pml4] = 4 /\ high_base_pml4 \in Frames
    BY DEF Tree, Levels
  <2> QED BY <1>4, <2>1, HighNumbers DEF HighMap
<1> QED BY <1>1, <1>5, <1>6, <1>7, <1>8, <1>9 DEF Tree

\* A frame marked that is no table.
LEMMA AllocTree ==
  ASSUME Small, NEW m, NEW lv, Tree(m, lv), Cardinality(PA!Available(m.frames)) >= 1
  PROVE  Tree(Alloc(m), lv) /\ lv[Fresh(m)] = 0
<1>1. m \in State /\ m.frames \in SUBSET Frames
  BY DEF Tree, State
<1>2. Fresh(m) \in Frames \ m.frames
  BY <1>1, FreshFrame
<1>3. Alloc(m) = [frames |-> m.frames \union {Fresh(m)}, mem |-> m.mem] /\ Alloc(m) \in State
  BY <1>1, AllocIs
<1>4. Alloc(m).mem = m.mem /\ m.frames \subseteq Alloc(m).frames
  BY <1>3
<1>5. Levels(Alloc(m), lv) /\ lv[Fresh(m)] = 0
  BY <1>2, <1>4 DEF Tree, Levels
<1> QED BY <1>3, <1>4, <1>5 DEF Tree, Down, Apart, Clear, HighMap

-----------------------------------------------------------------------------
(***************************************************************************)
(* The mapping that the tables implement: page v leads to address a.       *)
(***************************************************************************)
Walk(m, v, t3, t2, t1) ==
  /\ m.mem[high_base_pml4][v[1]] = Entry(t3)
  /\ m.mem[t3][v[2]] = Entry(t2)
  /\ m.mem[t2][v[3]] = Entry(t1)

Maps(m, v, a) ==
  \E t3, t2, t1 \in Frames : Walk(m, v, t3, t2, t1) /\ m.mem[t1][v[4]] = Entry(a)

\* A page is its four indices.
LEMMA PageIndices ==
  ASSUME NEW v \in Pages
  PROVE  /\ v[1] \in Index /\ v[2] \in Index /\ v[3] \in Index /\ v[4] \in Index
         /\ \A w \in Pages :
              v[1] = w[1] /\ v[2] = w[2] /\ v[3] = w[3] /\ v[4] = w[4] => v = w
BY DEF Pages

\* The tables on the way of a page have levels 3, 2 and 1.
LEMMA WalkLevels ==
  ASSUME NEW m, NEW lv, Tree(m, lv), NEW v \in Pages,
         NEW t3 \in Frames, NEW t2 \in Frames, NEW t1 \in Frames, Walk(m, v, t3, t2, t1)
  PROVE  lv[t3] = 3 /\ lv[t2] = 2 /\ lv[t1] = 1
<1>1. \A x \in Frames : Leads(Entry(x)) /\ Entry(x).address = x
  BY Fields, Machine DEF Frames, Leads
<1>2. \A t, x \in Frames, i \in Index :
        lv[t] >= 2 /\ m.mem[t][i] = Entry(x) => lv[x] = lv[t] - 1
  BY <1>1 DEF Tree, Down
<1>3. high_base_pml4 \in Frames /\ lv[high_base_pml4] = 4
  BY DEF Tree, Levels
<1>4. v[1] \in Index /\ v[2] \in Index /\ v[3] \in Index
  BY PageIndices
<1>5. lv[t3] = 3
  BY <1>2, <1>3, <1>4 DEF Walk
<1>6. lv[t2] = 2
  BY <1>2, <1>4, <1>5 DEF Walk
<1> QED BY <1>2, <1>4, <1>5, <1>6 DEF Walk

\* Two pages whose ways meet in a table of the last level differ in the last
\* index only.
LEMMA WalksApart ==
  ASSUME NEW m, NEW lv, Tree(m, lv), NEW v \in Pages, NEW w \in Pages,
         NEW t3 \in Frames, NEW t2 \in Frames, NEW t1 \in Frames, Walk(m, v, t3, t2, t1),
         NEW s3 \in Frames, NEW s2 \in Frames, NEW s1 \in Frames, Walk(m, w, s3, s2, s1),
         s1 = t1
  PROVE  v[1] = w[1] /\ v[2] = w[2] /\ v[3] = w[3]
<1>1. \A x \in Frames : Leads(Entry(x)) /\ Entry(x).address = x
  BY Fields, Machine DEF Frames, Leads
<1>2. \A s, t, x \in Frames, i, j \in Index :
        lv[s] >= 2 /\ lv[t] >= 2 /\ m.mem[s][i] = Entry(x) /\ m.mem[t][j] = Entry(x)
        => s = t /\ i = j
  <2> SUFFICES ASSUME NEW s \in Frames, NEW t \in Frames, NEW x \in Frames,
                      NEW i \in Index, NEW j \in Index, lv[s] >= 2, lv[t] >= 2,
                      m.mem[s][i] = Entry(x), m.mem[t][j] = Entry(x)
               PROVE  s = t /\ i = j
    OBVIOUS
  <2>1. Leads(m.mem[s][i]) /\ Leads(m.mem[t][j])
        /\ m.mem[s][i].address = m.mem[t][j].address
    BY <1>1
  <2> QED BY <2>1 DEF Tree, Apart
<1>3. high_base_pml4 \in Frames /\ lv[high_base_pml4] = 4
  BY DEF Tree, Levels
<1>4. v[1] \in Index /\ v[2] \in Index /\ v[3] \in Index
      /\ w[1] \in Index /\ w[2] \in Index /\ w[3] \in Index
  BY PageIndices
<1>5. lv[t3] = 3 /\ lv[t2] = 2 /\ lv[s3] = 3 /\ lv[s2] = 2
  <2>1. lv[t3] = 3 /\ lv[t2] = 2
    BY WalkLevels
  <2>2. lv[s3] = 3 /\ lv[s2] = 2
    BY WalkLevels
  <2> QED BY <2>1, <2>2
<1>6. t2 = s2 /\ v[3] = w[3]
  BY <1>2, <1>4, <1>5 DEF Walk
<1>7. t3 = s3 /\ v[2] = w[2]
  BY <1>2, <1>4, <1>5, <1>6 DEF Walk
<1>8. v[1] = w[1]
  BY <1>2, <1>3, <1>4, <1>7 DEF Walk
<1> QED BY <1>6, <1>7, <1>8

\* A new table is clear, so it maps nothing.
LEMMA GrownMaps ==
  ASSUME NEW m, NEW n, NEW lv, Tree(m, lv),
         NEW t \in Frames, NEW i \in Index, lv[t] >= 2, ~m.mem[t][i].present,
         NEW g, Grown(m, n, t, i, g), NEW v \in Pages, NEW a \in Nat
  PROVE  Maps(n, v, a) <=> Maps(m, v, a)
<1>1. g \in Frames \ m.frames /\ high_base_pml4 \in Frames
  BY DEF Grown, Tree, Levels
<1>2. \A s \in Frames, j \in Index :
        n.mem[s][j] = IF s = t /\ j = i THEN Entry(g) ELSE m.mem[s][j]
  BY DEF Grown
<1>3. t # g
  BY <1>1 DEF Tree, Levels
<1>4. \A j \in Index : n.mem[g][j] = Absent
  BY <1>1, <1>2, <1>3 DEF Tree, Clear
<1>5. \A x \in Nat : Entry(x).present /\ Entry(x).address = x /\ Entry(x) # Absent
  BY Fields
<1>6. \A x \in Frames : x \in Nat
  BY Machine DEF Frames
<1>7. v[1] \in Index /\ v[2] \in Index /\ v[3] \in Index /\ v[4] \in Index
  BY PageIndices
<1>8. \A s, x \in Frames, j \in Index : m.mem[s][j] = Entry(x) => n.mem[s][j] = Entry(x)
  BY <1>2, <1>5, <1>6
<1>9. \A s, x \in Frames, j \in Index :
        n.mem[s][j] = Entry(x) /\ x # g => m.mem[s][j] = Entry(x)
  BY <1>1, <1>2, <1>5, <1>6
<1>10. ASSUME Maps(m, v, a) PROVE Maps(n, v, a)
  <2>1. PICK t3, t2, t1 \in Frames : Walk(m, v, t3, t2, t1) /\ m.mem[t1][v[4]] = Entry(a)
    BY <1>10 DEF Maps
  <2>2. Walk(n, v, t3, t2, t1)
    BY <1>1, <1>7, <1>8, <2>1 DEF Walk
  <2>3. n.mem[t1][v[4]] = Entry(a)
    BY <1>2, <1>5, <1>7, <2>1
  <2> QED BY <2>2, <2>3 DEF Maps
<1>11. ASSUME Maps(n, v, a) PROVE Maps(m, v, a)
  <2>1. PICK t3, t2, t1 \in Frames : Walk(n, v, t3, t2, t1) /\ n.mem[t1][v[4]] = Entry(a)
    BY <1>11 DEF Maps
  <2>2. t3 # g /\ t2 # g /\ t1 # g
    BY <1>4, <1>5, <1>6, <1>7, <2>1 DEF Walk
  <2>3. Walk(m, v, t3, t2, t1)
    BY <1>1, <1>7, <1>9, <2>1, <2>2 DEF Walk
  <2>4. lv[t1] = 1
    BY <2>3, WalkLevels
  <2>5. m.mem[t1][v[4]] = Entry(a)
    BY <1>2, <1>7, <2>1, <2>4
  <2> QED BY <2>3, <2>5 DEF Maps
<1> QED BY <1>10, <1>11

\* Writing the entry of page v maps it and no other page.
LEMMA WrittenMaps ==
  ASSUME NEW m, NEW n, NEW lv, Tree(m, lv), NEW v \in Pages,
         NEW t3 \in Frames, NEW t2 \in Frames, NEW t1 \in Frames, Walk(m, v, t3, t2, t1),
         NEW a \in Nat, Written(m, n, t1, v[4], a)
  PROVE  \A w \in Pages, b \in Nat :
           Maps(n, w, b) <=> IF w = v THEN b = a ELSE Maps(m, w, b)
<1> SUFFICES ASSUME NEW w \in Pages, NEW b \in Nat
             PROVE  Maps(n, w, b) <=> IF w = v THEN b = a ELSE Maps(m, w, b)
  OBVIOUS
<1>1. \A s \in Frames, j \in Index :
        n.mem[s][j] = IF s = t1 /\ j = v[4] THEN Entry(a) ELSE m.mem[s][j]
  BY DEF Written
<1>2. Tree(n, lv)
  BY WalkLevels, WrittenTree, PageIndices
<1>3. v[4] \in Index /\ w[1] \in Index /\ w[2] \in Index /\ w[3] \in Index /\ w[4] \in Index
  BY PageIndices
<1>4. \A s3, s2, s1 \in Frames : Walk(m, w, s3, s2, s1) <=> Walk(n, w, s3, s2, s1)
  <2> SUFFICES ASSUME NEW s3 \in Frames, NEW s2 \in Frames, NEW s1 \in Frames
               PROVE  Walk(m, w, s3, s2, s1) <=> Walk(n, w, s3, s2, s1)
    OBVIOUS
  <2>1. \A s \in Frames, j \in Index : lv[s] >= 2 => n.mem[s][j] = m.mem[s][j]
    BY <1>1, WalkLevels
  <2>2. high_base_pml4 \in Frames /\ lv[high_base_pml4] = 4
    BY DEF Tree, Levels
  <2>3. ASSUME Walk(m, w, s3, s2, s1) PROVE Walk(n, w, s3, s2, s1)
    <3>1. lv[s3] = 3 /\ lv[s2] = 2
      BY <2>3, WalkLevels
    <3> QED BY <1>3, <2>1, <2>2, <2>3, <3>1 DEF Walk
  <2>4. ASSUME Walk(n, w, s3, s2, s1) PROVE Walk(m, w, s3, s2, s1)
    <3>1. lv[s3] = 3 /\ lv[s2] = 2
      BY <1>2, <2>4, WalkLevels
    <3> QED BY <1>3, <2>1, <2>2, <2>4, <3>1 DEF Walk
  <2> QED BY <2>3, <2>4
<1>5. \A x \in Nat : Entry(x).address = x
  BY Fields
<1>6. \A x \in Frames : x \in Nat
  BY Machine DEF Frames
<1>7. CASE w = v
  <2>1. n.mem[t1][v[4]] = Entry(a)
    BY <1>1, <1>3
  <2>2. Maps(n, v, a)
    BY <1>4, <1>7, <2>1 DEF Maps
  <2>3. ASSUME Maps(n, v, b) PROVE b = a
    <3>1. PICK s3, s2, s1 \in Frames : Walk(n, v, s3, s2, s1) /\ n.mem[s1][v[4]] = Entry(b)
      BY <2>3 DEF Maps
    <3>2. Walk(m, v, s3, s2, s1)
      BY <1>4, <1>7, <3>1
    <3>3. s1 = t1
      BY <1>5, <1>6, <3>2 DEF Walk
    <3> QED BY <1>5, <2>1, <3>1, <3>3
  <2> QED BY <1>7, <2>2, <2>3
<1>8. CASE w # v
  <2>1. ASSUME NEW s3 \in Frames, NEW s2 \in Frames, NEW s1 \in Frames, Walk(m, w, s3, s2, s1)
        PROVE  n.mem[s1][w[4]] = m.mem[s1][w[4]]
    <3>1. ~(s1 = t1 /\ w[4] = v[4])
      BY <1>8, <2>1, WalksApart, PageIndices
    <3> QED BY <1>1, <1>3, <3>1
  <2> QED BY <1>4, <1>8, <2>1 DEF Maps
<1> QED BY <1>7, <1>8

\* Marking a frame maps nothing.
LEMMA AllocMaps ==
  ASSUME Small, NEW m \in State, Cardinality(PA!Available(m.frames)) >= 1, NEW v, NEW a
  PROVE  Maps(Alloc(m), v, a) <=> Maps(m, v, a)
<1>1. Alloc(m).mem = m.mem
  BY AllocIs
<1> QED BY <1>1 DEF Maps, Walk

-----------------------------------------------------------------------------
(* map_addr_in                                                             *)

\* n has what m has, and maybe more tables.
Keeps(m, lv, n, lw) ==
  /\ Tree(n, lw)
  /\ m.frames \subseteq n.frames /\ \A y \in m.frames : lw[y] = lv[y]
  /\ \A s \in Frames, j \in Index : m.mem[s][j].present => n.mem[s][j] = m.mem[s][j]
  /\ \A w \in Pages, b \in Nat : Maps(n, w, b) <=> Maps(m, w, b)

LEMMA KeepsTrans ==
  ASSUME NEW m, NEW lv, NEW n, NEW lw, NEW o, NEW lx, Keeps(m, lv, n, lw), Keeps(n, lw, o, lx)
  PROVE  Keeps(m, lv, o, lx)
BY DEF Keeps

\* A level of the walk ends at a table of the level below.
LEMMA LevelStep ==
  ASSUME Small, NEW m, NEW lv, Tree(m, lv), NEW c \in Nat,
         Cardinality(PA!Available(m.frames)) >= c + 1,
         NEW t \in Frames, NEW i \in Index, lv[t] >= 2, ~m.mem[t][i].huge
  PROVE  LET n == Present(m, t, i)  x == n.mem[t][i].address
         IN \E lw : /\ Keeps(m, lv, n, lw)
                    /\ Cardinality(PA!Available(n.frames)) >= c
                    /\ x \in Frames /\ lw[x] = lv[t] - 1 /\ n.mem[t][i] = Entry(x)
<1> DEFINE n == Present(m, t, i)  x == n.mem[t][i].address
<1>1. m \in State /\ m.frames \in SUBSET Frames
  BY DEF Tree, State
<1>2. CASE m.mem[t][i].present
  <2>1. n = m
    BY <1>2 DEF Present
  <2>2. m.mem[t][i] \in EntrySet
    BY <1>1 DEF State
  <2>3. Leads(m.mem[t][i]) /\ m.mem[t][i] = Entry(m.mem[t][i].address)
    BY <1>2, <2>2, Shape DEF Leads
  <2>4. x \in Frames /\ lv[x] = lv[t] - 1
    BY <2>1, <2>3 DEF Tree, Down
  <2>5. Keeps(m, lv, n, lv)
    BY <2>1 DEF Keeps
  <2>6. Cardinality(PA!Available(m.frames)) \in Nat
    BY AvailableFinite
  <2>7. Cardinality(PA!Available(n.frames)) >= c
    BY <2>1, <2>6
  <2>8. n.mem[t][i] = Entry(x)
    BY <2>1, <2>3
  <2> QED BY <2>4, <2>5, <2>7, <2>8
<1>3. CASE ~m.mem[t][i].present
  <2> DEFINE g == Fresh(m)  lw == [lv EXCEPT ![g] = lv[t] - 1]
  <2>0. Cardinality(PA!Available(m.frames)) >= 1
        /\ Cardinality(PA!Available(m.frames)) \in Nat
    BY AvailableFinite
  <2>1. Grown(m, n, t, i, g)
    BY <1>1, <1>3, <2>0, PresentGrows
  <2>2. Tree(n, lw)
    BY <1>3, <2>1, GrownTree
  <2>3. g \in Frames \ m.frames
        /\ Cardinality(PA!Available(m.frames \union {g}))
             = Cardinality(PA!Available(m.frames)) - 1
    BY <1>1, <2>0, FreshFrame
  <2>4. \A w \in Pages, b \in Nat : Maps(n, w, b) <=> Maps(m, w, b)
    BY <1>3, <2>1, GrownMaps
  <2> HIDE DEF n, g
  <2>5. n.frames = m.frames \union {g} /\ n.mem[t][i] = Entry(g)
        /\ \A s \in Frames, j \in Index : m.mem[s][j].present => n.mem[s][j] = m.mem[s][j]
    BY <1>3, <2>1 DEF Grown
  <2>6. lv \in [Frames -> 0..4]
    BY DEF Tree, Levels
  <2>7. lw[g] = lv[t] - 1 /\ \A y \in m.frames : lw[y] = lv[y]
    BY <1>1, <2>3, <2>6
  <2>8. Keeps(m, lv, n, lw)
    BY <2>2, <2>4, <2>5, <2>7 DEF Keeps
  <2>9. Cardinality(PA!Available(n.frames)) >= c
    BY <2>0, <2>3, <2>5
  <2>10. x = g
    <3>1. g \in Nat
      BY <2>3, Machine DEF Frames
    <3> QED BY <2>5, <3>1, Fields
  <2> QED BY <2>3, <2>5, <2>7, <2>8, <2>9, <2>10 DEF n
<1> QED BY <1>2, <1>3

\* Outside the high map the walk does not come to a large page.
LEMMA OffHighMap ==
  ASSUME NEW m, NEW lv, Tree(m, lv), NEW v \in Pages, ~InHighMap(v),
         NEW t3 \in Frames, NEW t2 \in Frames,
         m.mem[high_base_pml4][v[1]] = Entry(t3), m.mem[t3][v[2]] = Entry(t2)
  PROVE  \A i \in Index : ~m.mem[t2][i].huge
<1>1. \A x \in Frames : Leads(Entry(x)) /\ Entry(x).address = x
  BY Fields, Machine DEF Frames, Leads
<1>2. \A s, t, x \in Frames, i, j \in Index :
        lv[s] >= 2 /\ lv[t] >= 2 /\ m.mem[s][i] = Entry(x) /\ m.mem[t][j] = Entry(x)
        => s = t /\ i = j
  <2> SUFFICES ASSUME NEW s \in Frames, NEW t \in Frames, NEW x \in Frames,
                      NEW i \in Index, NEW j \in Index, lv[s] >= 2, lv[t] >= 2,
                      m.mem[s][i] = Entry(x), m.mem[t][j] = Entry(x)
               PROVE  s = t /\ i = j
    OBVIOUS
  <2>1. Leads(m.mem[s][i]) /\ Leads(m.mem[t][j])
        /\ m.mem[s][i].address = m.mem[t][j].address
    BY <1>1
  <2> QED BY <2>1 DEF Tree, Apart
<1>3. high_base_pml4 \in Frames /\ lv[high_base_pml4] = 4
  BY DEF Tree, Levels
<1>4. v[1] \in Index /\ v[2] \in Index /\ HIGH \in Index
  BY PageIndices, HighNumbers
<1>5. lv[t3] = 3
  BY <1>1, <1>3, <1>4 DEF Tree, Down
<1>6. lv[t2] = 2
  BY <1>1, <1>4, <1>5 DEF Tree, Down
<1>7. ASSUME t2 \in HighPml2s PROVE FALSE
  <2>1. PICK k \in 0..HIGH_TABLES-1 : t2 = high_base_pml2s(k)
    BY <1>7 DEF HighPml2s
  <2>2. /\ high_base_pml3 \in Frames /\ lv[high_base_pml3] = 3 /\ k \in Index
        /\ m.mem[high_base_pml3][k] = Entry(t2)
        /\ m.mem[high_base_pml4][HIGH] = Entry(high_base_pml3)
    BY <2>1, HighNumbers DEF Tree, HighMap
  <2>3. t3 = high_base_pml3 /\ v[2] = k
    BY <1>2, <1>4, <1>5, <2>2
  <2>4. v[1] = HIGH
    <3>1. m.mem[high_base_pml4][v[1]] = Entry(high_base_pml3)
      BY <2>3
    <3>2. lv[high_base_pml4] >= 2
      BY <1>3
    <3>3. m.mem[high_base_pml4][HIGH] = Entry(high_base_pml3) /\ high_base_pml3 \in Frames
      BY <2>2
    <3>4. \A i, j \in Index : m.mem[high_base_pml4][i] = Entry(high_base_pml3)
                             /\ m.mem[high_base_pml4][j] = Entry(high_base_pml3) => i = j
      BY <1>2, <1>3, <3>2, <3>3
    <3> QED BY <1>4, <3>1, <3>3, <3>4
  <2>5. v[2] < HIGH_TABLES
    BY <2>3, TablesAssumption
  <2> QED BY <2>4, <2>5 DEF InHighMap
<1> QED BY <1>6, <1>7 DEF Tree, Down

\* map_addr_in maps the page and no other one.
LEMMA MapAddrIn ==
  ASSUME Small, NEW m, NEW lv, Tree(m, lv), Cardinality(PA!Available(m.frames)) >= 3,
         NEW v \in Pages, ~InHighMap(v), NEW f \in Nat
  PROVE  LET n == map_addr_in(m, high_base_pml4, v, f)
         IN \E lw : /\ Tree(n, lw)
                    /\ m.frames \subseteq n.frames /\ \A y \in m.frames : lw[y] = lv[y]
                    /\ \A w \in Pages, b \in Nat :
                         Maps(n, w, b) <=>
                           IF w = v THEN b = f * PAGE_SIZE ELSE Maps(m, w, b)
<1> DEFINE m1 == Present(m, high_base_pml4, v[1])   t3 == m1.mem[high_base_pml4][v[1]].address
           m2 == Present(m1, t3, v[2])              t2 == m2.mem[t3][v[2]].address
           m3 == Present(m2, t2, v[3])              t1 == m3.mem[t2][v[3]].address
           n  == Leaf(m3, t1, v[4], f)
<1>1. map_addr_in(m, high_base_pml4, v, f) = n
  BY DEF map_addr_in
<1>2. v[1] \in Index /\ v[2] \in Index /\ v[3] \in Index /\ v[4] \in Index
  BY PageIndices
<1>3. high_base_pml4 \in Frames /\ lv[high_base_pml4] = 4
  BY DEF Tree, Levels
<1>4. \A o, lx : Tree(o, lx) =>
        \A t \in Frames, i \in Index : lx[t] >= 3 => ~o.mem[t][i].huge
  <2> SUFFICES ASSUME NEW o, NEW lx, Tree(o, lx), NEW t \in Frames, NEW i \in Index,
                      lx[t] >= 3, o.mem[t][i].huge
               PROVE  FALSE
    OBVIOUS
  <2>1. lx[t] \in 0..4
    BY DEF Tree, Levels
  <2>2. t \in HighPml2s
    BY <2>1 DEF Tree, Down
  <2> QED BY <2>2 DEF Tree, HighMap, HighPml2s
<1>5. PICK l1 : /\ Keeps(m, lv, m1, l1) /\ Cardinality(PA!Available(m1.frames)) >= 2
                /\ t3 \in Frames /\ l1[t3] = 3 /\ m1.mem[high_base_pml4][v[1]] = Entry(t3)
  <2>1. ~m.mem[high_base_pml4][v[1]].huge
    BY <1>2, <1>3, <1>4
  <2> QED BY <1>2, <1>3, <2>1, LevelStep
<1> HIDE DEF m1
<1>6. Tree(m1, l1)
  BY <1>5 DEF Keeps
<1>7. PICK l2 : /\ Keeps(m1, l1, m2, l2) /\ Cardinality(PA!Available(m2.frames)) >= 1
                /\ t2 \in Frames /\ l2[t2] = 2 /\ m2.mem[t3][v[2]] = Entry(t2)
  <2>1. ~m1.mem[t3][v[2]].huge
    BY <1>2, <1>4, <1>5, <1>6
  <2> HIDE DEF t3
  <2> QED BY <1>2, <1>5, <1>6, <2>1, LevelStep
<1>8. Tree(m2, l2)
  BY <1>7 DEF Keeps
<1>9. m2.mem[high_base_pml4][v[1]] = Entry(t3)
  <2>1. m1.mem[high_base_pml4][v[1]].present
    BY <1>5, Fields, Machine DEF Frames
  <2> HIDE DEF t3, m2
  <2> QED BY <1>2, <1>3, <1>5, <1>7, <2>1 DEF Keeps
<1> HIDE DEF t3, m2
<1>10. PICK l3 : /\ Keeps(m2, l2, m3, l3)
                 /\ t1 \in Frames /\ l3[t1] = 1 /\ m3.mem[t2][v[3]] = Entry(t1)
  <2>1. ~m2.mem[t2][v[3]].huge
    BY <1>2, <1>5, <1>7, <1>8, <1>9, OffHighMap
  <2> HIDE DEF t2
  <2> QED BY <1>2, <1>7, <1>8, <2>1, LevelStep
<1> HIDE DEF t2, m3
<1>11. Tree(m3, l3)
  BY <1>10 DEF Keeps
<1>12. Walk(m3, v, t3, t2, t1)
  <2>1. m2.mem[high_base_pml4][v[1]].present /\ m2.mem[t3][v[2]].present
    BY <1>5, <1>7, <1>9, Fields, Machine DEF Frames
  <2>2. m3.mem[high_base_pml4][v[1]] = Entry(t3)
    BY <1>2, <1>3, <1>9, <1>10, <2>1 DEF Keeps
  <2>3. m3.mem[t3][v[2]] = Entry(t2)
    BY <1>2, <1>5, <1>7, <1>10, <2>1 DEF Keeps
  <2> QED BY <1>10, <2>2, <2>3 DEF Walk
<1> HIDE DEF t1
<1>13. f * PAGE_SIZE \in Nat
  BY Machine, MulDiv
<1>14. Written(m3, n, t1, v[4], f * PAGE_SIZE)
  <2>1. m3 \in State
    BY <1>11 DEF Tree
  <2>2. ~m3.mem[t1][v[4]].huge
    BY <1>2, <1>10, <1>11 DEF Tree, Down, HighMap, HighPml2s
  <2> QED BY <1>2, <1>10, <2>1, <2>2, LeafWrites
<1> HIDE DEF n
<1>15. Tree(n, l3) /\ n.frames = m3.frames
  <2>1. Tree(n, l3)
    BY <1>2, <1>10, <1>11, <1>13, <1>14, WrittenTree
  <2> QED BY <1>14, <2>1 DEF Written
<1>16. \A w \in Pages, b \in Nat :
         Maps(n, w, b) <=> IF w = v THEN b = f * PAGE_SIZE ELSE Maps(m3, w, b)
  BY <1>5, <1>7, <1>10, <1>11, <1>12, <1>13, <1>14, WrittenMaps
<1>17. Keeps(m, lv, m3, l3)
  <2>1. Keeps(m, lv, m2, l2)
    BY <1>5, <1>7, KeepsTrans
  <2> QED BY <1>10, <2>1, KeepsTrans
<1>18. /\ m.frames \subseteq n.frames /\ \A y \in m.frames : l3[y] = lv[y]
       /\ \A w \in Pages, b \in Nat : Maps(m3, w, b) <=> Maps(m, w, b)
  BY <1>15, <1>17 DEF Keeps
<1> HIDE DEF PAGE_SIZE
<1>19. \A w \in Pages, b \in Nat :
         Maps(n, w, b) <=> IF w = v THEN b = f * PAGE_SIZE ELSE Maps(m, w, b)
  BY <1>16, <1>18
<1> QED BY <1>1, <1>15, <1>18, <1>19

-----------------------------------------------------------------------------
(* The tables that mmu_init builds                                         *)

\* The frames of the tables in arrays.
HeapPml1s == 7..6 + HEAP_TABLES
HighRange == 7 + HEAP_TABLES..6 + HEAP_TABLES + HIGH_TABLES
LowPml1s  == 7 + HEAP_TABLES + HIGH_TABLES..6 + HEAP_TABLES + HIGH_TABLES + LOW_TABLES

\* The arrays as ranges of frames.
LEMMA Arrays ==
  ASSUME NEW t \in Nat
  PROVE  /\ (\E k \in 0..HEAP_TABLES-1 : t = heap_base_pml1(k)) <=> t \in HeapPml1s
         /\ (\E k \in 0..HIGH_TABLES-1 : t = high_base_pml2s(k)) <=> t \in HighRange
         /\ (\E k \in 0..LOW_TABLES-1 : t = low_base_pml2s(k)) <=> t \in LowPml1s
<1>1. (\E k \in 0..HEAP_TABLES-1 : t = heap_base_pml1(k)) <=> t \in HeapPml1s
  <2>1. ASSUME t \in HeapPml1s PROVE t - 7 \in 0..HEAP_TABLES-1 /\ t = heap_base_pml1(t - 7)
    BY <2>1, TablesAssumption DEF heap_base_pml1, HeapPml1s
  <2> QED BY <2>1, TablesAssumption DEF heap_base_pml1, HeapPml1s
<1>2. (\E k \in 0..HIGH_TABLES-1 : t = high_base_pml2s(k)) <=> t \in HighRange
  <2> DEFINE k0 == t - 7 - HEAP_TABLES
  <2>1. ASSUME t \in HighRange PROVE k0 \in 0..HIGH_TABLES-1 /\ t = high_base_pml2s(k0)
    BY <2>1, TablesAssumption DEF high_base_pml2s, HighRange
  <2> QED BY <2>1, TablesAssumption DEF high_base_pml2s, HighRange
<1>3. (\E k \in 0..LOW_TABLES-1 : t = low_base_pml2s(k)) <=> t \in LowPml1s
  <2> DEFINE k0 == t - 7 - HEAP_TABLES - HIGH_TABLES
  <2>1. ASSUME t \in LowPml1s PROVE k0 \in 0..LOW_TABLES-1 /\ t = low_base_pml2s(k0)
    BY <2>1, TablesAssumption DEF low_base_pml2s, LowPml1s
  <2> QED BY <2>1, TablesAssumption DEF low_base_pml2s, LowPml1s
<1> QED BY <1>1, <1>2, <1>3

\* The static tables one by one.
LEMMA StaticIs ==
  ASSUME NEW t \in Nat, NEW i \in Index
  PROVE  /\ t = 1 => StaticEntry(t, i) = IF i = HIGH THEN Entry(2) ELSE IF i = HEAP THEN Entry(5)
                                         ELSE IF i = LOW THEN Entry(3) ELSE Absent
         /\ t = 2 => StaticEntry(t, i) = IF i < HIGH_TABLES THEN Entry(7 + HEAP_TABLES + i) ELSE Absent
         /\ t = 3 => StaticEntry(t, i) = IF i = 0 THEN Entry(4) ELSE Absent
         /\ t = 4 => StaticEntry(t, i) = IF i < LOW_TABLES
                                         THEN Entry(7 + HEAP_TABLES + HIGH_TABLES + i) ELSE Absent
         /\ t = 5 => StaticEntry(t, i) = IF i = 0 THEN Entry(6) ELSE Absent
         /\ t = 6 => StaticEntry(t, i) = IF i < HEAP_TABLES THEN Entry(7 + i) ELSE Absent
         /\ t \in HeapPml1s => StaticEntry(t, i) = IF (t - 7) * ENTRIES + i < metadata_pages
                                  THEN Entry(first_free_frame + ((t - 7) * ENTRIES + i)) ELSE Absent
         /\ t \in HighRange => StaticEntry(t, i) = LargePage(LargeFrame(t - 7 - HEAP_TABLES, i))
         /\ t \in LowPml1s => StaticEntry(t, i) =
              IF t = 7 + HEAP_TABLES + HIGH_TABLES /\ i = 0 THEN Absent
              ELSE Entry((t - 7 - HEAP_TABLES - HIGH_TABLES) * ENTRIES + i)
         /\ t \notin StaticTables => StaticEntry(t, i) = Absent
<1> DEFINE A == \E k \in 0..HEAP_TABLES-1 : t = heap_base_pml1(k)
           B == \E k \in 0..HIGH_TABLES-1 : t = high_base_pml2s(k)
           C == \E k \in 0..LOW_TABLES-1 : t = low_base_pml2s(k)
<1>1. (A <=> t \in HeapPml1s) /\ (B <=> t \in HighRange) /\ (C <=> t \in LowPml1s)
  BY Arrays
<1>2. /\ t \in 1..6 => ~A /\ ~B /\ ~C
      /\ (A => ~B /\ ~C) /\ (B => ~C)
      /\ (A \/ B \/ C => t \notin 1..6 /\ t # 0)
      /\ t \notin StaticTables => t \notin 1..6 /\ ~A /\ ~B /\ ~C
  BY <1>1, TablesAssumption DEF HeapPml1s, HighRange, LowPml1s, StaticTables
<1> DEFINE SE == StaticEntry(t, i)
<1>3. SE =
  CASE t = high_base_pml4 ->
         (CASE i = HIGH -> Entry(high_base_pml3) [] i = HEAP -> Entry(heap_base_pml3)
            [] i = LOW -> Entry(low_base_pml4s(0)) [] OTHER -> Absent)
    [] t = high_base_pml3 ->
         IF i < HIGH_TABLES THEN Entry(high_base_pml2s(i)) ELSE Absent
    [] t = low_base_pml4s(0) -> IF i = 0 THEN Entry(low_base_pml4s(1)) ELSE Absent
    [] t = low_base_pml4s(1) ->
         IF i < LOW_TABLES THEN Entry(low_base_pml2s(i)) ELSE Absent
    [] t = heap_base_pml3 -> IF i = 0 THEN Entry(heap_base_pml2) ELSE Absent
    [] t = heap_base_pml2 ->
         IF i < HEAP_TABLES THEN Entry(heap_base_pml1(i)) ELSE Absent
    [] A ->
         LET n == (t - heap_base_pml1(0)) * ENTRIES + i
         IN IF n < metadata_pages THEN Entry(first_free_frame + n) ELSE Absent
    [] B -> LargePage(LargeFrame(t - high_base_pml2s(0), i))
    [] C -> IF t = low_base_pml2s(0) /\ i = 0 THEN Absent
            ELSE Entry((t - low_base_pml2s(0)) * ENTRIES + i)
    [] OTHER -> Absent
  BY DEF StaticEntry
<1>4. high_base_pml4 = 1 /\ high_base_pml3 = 2 /\ low_base_pml4s(0) = 3
      /\ low_base_pml4s(1) = 4 /\ heap_base_pml3 = 5 /\ heap_base_pml2 = 6
  BY DEF high_base_pml4, high_base_pml3, low_base_pml4s, heap_base_pml3, heap_base_pml2
<1>5. heap_base_pml1(0) = 7 /\ high_base_pml2s(0) = 7 + HEAP_TABLES
      /\ low_base_pml2s(0) = 7 + HEAP_TABLES + HIGH_TABLES
      /\ heap_base_pml1(i) = 7 + i /\ high_base_pml2s(i) = 7 + HEAP_TABLES + i
      /\ low_base_pml2s(i) = 7 + HEAP_TABLES + HIGH_TABLES + i
  BY TablesAssumption DEF heap_base_pml1, high_base_pml2s, low_base_pml2s, Index
<1>6. HIGH # HEAP /\ HIGH # LOW /\ HEAP # LOW
  BY HighNumbers
<1> HIDE DEF A, B, C, SE
<1>7. t = 1 => SE = IF i = HIGH THEN Entry(2) ELSE IF i = HEAP THEN Entry(5)
                    ELSE IF i = LOW THEN Entry(3) ELSE Absent
  BY <1>2, <1>3, <1>4, <1>6
<1>8. t = 2 => SE = IF i < HIGH_TABLES THEN Entry(7 + HEAP_TABLES + i) ELSE Absent
  BY <1>2, <1>3, <1>4, <1>5
<1>9. t = 3 => SE = IF i = 0 THEN Entry(4) ELSE Absent
  BY <1>2, <1>3, <1>4
<1>10. t = 4 => SE = IF i < LOW_TABLES
                     THEN Entry(7 + HEAP_TABLES + HIGH_TABLES + i) ELSE Absent
  BY <1>2, <1>3, <1>4, <1>5
<1>11. t = 5 => SE = IF i = 0 THEN Entry(6) ELSE Absent
  BY <1>2, <1>3, <1>4
<1>12. t = 6 => SE = IF i < HEAP_TABLES THEN Entry(7 + i) ELSE Absent
  BY <1>2, <1>3, <1>4, <1>5
<1>13. A => SE = IF (t - 7) * ENTRIES + i < metadata_pages
                 THEN Entry(first_free_frame + ((t - 7) * ENTRIES + i)) ELSE Absent
  BY <1>2, <1>3, <1>4, <1>5
<1>14. B => SE = LargePage(LargeFrame(t - (7 + HEAP_TABLES), i))
  BY <1>2, <1>3, <1>4, <1>5
<1>15. C => SE = IF t = 7 + HEAP_TABLES + HIGH_TABLES /\ i = 0 THEN Absent
                 ELSE Entry((t - (7 + HEAP_TABLES + HIGH_TABLES)) * ENTRIES + i)
  BY <1>2, <1>3, <1>4, <1>5
<1>16. t \notin StaticTables => SE = Absent
  BY <1>2, <1>3, <1>4
<1>17. t - (7 + HEAP_TABLES) = t - 7 - HEAP_TABLES
       /\ t - (7 + HEAP_TABLES + HIGH_TABLES) = t - 7 - HEAP_TABLES - HIGH_TABLES
  BY TablesAssumption
<1> QED BY <1>1, <1>7, <1>8, <1>9, <1>10, <1>11, <1>12, <1>13, <1>14, <1>15, <1>16, <1>17
        DEF SE

StaticLevel ==
  [x \in Frames |-> IF x = 1 THEN 4
                    ELSE IF x \in {2, 3, 5} THEN 3
                    ELSE IF x \in {4, 6} \union HighRange THEN 2
                    ELSE IF x \in HeapPml1s \union LowPml1s THEN 1 ELSE 0]

\* The entry that leads to a static table.
UpTable(a) == IF a \in {2, 3, 5} THEN 1 ELSE IF a = 4 THEN 3 ELSE IF a = 6 THEN 5
              ELSE IF a \in HeapPml1s THEN 6 ELSE IF a \in HighRange THEN 2 ELSE 4
UpIndex(a) == IF a = 2 THEN HIGH ELSE IF a = 5 THEN HEAP ELSE IF a = 3 THEN LOW
              ELSE IF a = 4 THEN 0 ELSE IF a = 6 THEN 0 ELSE IF a \in HeapPml1s THEN a - 7
              ELSE IF a \in HighRange THEN a - 7 - HEAP_TABLES
              ELSE a - 7 - HEAP_TABLES - HIGH_TABLES

\* The static tables are frames of the image.
LEMMA ImageFrames ==
  /\ first_free_frame \in Nat /\ first_free_page = first_free_frame * PAGE_SIZE
  /\ StaticTables \subseteq Frames
  /\ HeapPml1s \subseteq StaticTables /\ HighRange \subseteq StaticTables
  /\ LowPml1s \subseteq StaticTables /\ 1..6 \subseteq StaticTables
<1> DEFINE q == (kernel_end + PAGE_SIZE - 1) \div PAGE_SIZE
<1>1. q \in Nat
  <2>1. kernel_end + PAGE_SIZE - 1 \in Nat
    BY Machine, ImageAssumption
  <2> QED BY <2>1, Machine, DivMod
<1>2. first_free_page = q * PAGE_SIZE
  BY DEF first_free_page
<1>3. first_free_frame = q
  BY <1>1, <1>2, Machine, MulDiv DEF first_free_frame
<1> HIDE DEF q
<1>4. StaticTables \subseteq Frames
  BY <1>1, <1>3, ImageAssumption, TablesAssumption, Machine DEF StaticTables, Frames, N
<1>5. /\ HeapPml1s \subseteq StaticTables /\ HighRange \subseteq StaticTables
      /\ LowPml1s \subseteq StaticTables /\ 1..6 \subseteq StaticTables
  BY TablesAssumption DEF HeapPml1s, HighRange, LowPml1s, StaticTables
<1> QED BY <1>1, <1>2, <1>3, <1>4, <1>5

\* Every entry of a static table is an entry.
LEMMA StaticTyped ==
  ASSUME NEW t \in Nat, NEW i \in Index
  PROVE  StaticEntry(t, i) \in EntrySet
<1> DEFINE SE == StaticEntry(t, i)
<1>1. i \in Nat
  BY TablesAssumption DEF Index
<1>2. Absent \in EntrySet /\ \A a \in Nat : Entry(a) \in EntrySet /\ LargePage(a) \in EntrySet
  BY Fields
<1>3. CASE t \in 1..6
  <2>1. 7 + HEAP_TABLES + i \in Nat /\ 7 + HEAP_TABLES + HIGH_TABLES + i \in Nat /\ 7 + i \in Nat
    BY <1>1, TablesAssumption
  <2> QED BY <1>2, <1>3, <2>1, StaticIs
<1>4. CASE t \in HeapPml1s
  <2>1. t - 7 \in Nat
    BY <1>4, TablesAssumption DEF HeapPml1s
  <2>2. (t - 7) * ENTRIES \in Nat
    BY <2>1, TablesAssumption
  <2> DEFINE b == (t - 7) * ENTRIES + i
  <2>3. first_free_frame + b \in Nat
    BY <1>1, <2>2, ImageFrames
  <2>4. SE = IF b < metadata_pages THEN Entry(first_free_frame + b) ELSE Absent
    BY <1>4, StaticIs
  <2> HIDE DEF b, SE
  <2>5. SE \in EntrySet
    BY <1>2, <2>3, <2>4
  <2> QED BY <2>5 DEF SE
<1>5. CASE t \in HighRange
  <2>1. t - 7 - HEAP_TABLES \in 0..HIGH_TABLES-1
    BY <1>5, TablesAssumption DEF HighRange
  <2> QED BY <1>2, <1>5, <2>1, HighNumbers, StaticIs
<1>6. CASE t \in LowPml1s
  <2>1. t - 7 - HEAP_TABLES - HIGH_TABLES \in Nat
    BY <1>6, TablesAssumption DEF LowPml1s
  <2>2. (t - 7 - HEAP_TABLES - HIGH_TABLES) * ENTRIES \in Nat
    BY <2>1, TablesAssumption
  <2> DEFINE b == (t - 7 - HEAP_TABLES - HIGH_TABLES) * ENTRIES + i
  <2>3. b \in Nat
    BY <1>1, <2>2
  <2>4. SE = Absent \/ SE = Entry(b)
    BY <1>6, StaticIs
  <2> HIDE DEF b, SE
  <2>5. SE \in EntrySet
    BY <1>2, <2>3, <2>4
  <2> QED BY <2>5 DEF SE
<1>7. CASE t \notin StaticTables
  BY <1>2, <1>7, StaticIs
<1>8. t \in 1..6 \/ t \in HeapPml1s \/ t \in HighRange \/ t \in LowPml1s \/ t \notin StaticTables
  BY TablesAssumption DEF HeapPml1s, HighRange, LowPml1s, StaticTables
<1> QED BY <1>3, <1>4, <1>5, <1>6, <1>7, <1>8

\* Levels of the static tables.
LEMMA StaticLevels ==
  /\ StaticLevel \in [Frames -> 0..4]
  /\ StaticLevel[1] = 4 /\ StaticLevel[2] = 3 /\ StaticLevel[3] = 3 /\ StaticLevel[5] = 3
  /\ StaticLevel[4] = 2 /\ StaticLevel[6] = 2
  /\ \A x \in HighRange : StaticLevel[x] = 2
  /\ \A x \in HeapPml1s \union LowPml1s : StaticLevel[x] = 1
  /\ \A x \in Frames : StaticLevel[x] > 0 => x \in StaticTables
  /\ \A x \in Frames : StaticLevel[x] >= 2 => x \in 1..6 \/ x \in HighRange
<1>1. /\ \A x \in HighRange : x \notin 1..6
      /\ \A x \in HeapPml1s \union LowPml1s : x \notin 1..6 /\ x \notin HighRange
  BY TablesAssumption DEF HeapPml1s, HighRange, LowPml1s
<1>2. StaticTables \subseteq Frames /\ HeapPml1s \subseteq StaticTables
      /\ HighRange \subseteq StaticTables /\ LowPml1s \subseteq StaticTables
      /\ 1..6 \subseteq StaticTables
  BY ImageFrames
<1>3. \A x \in 1..6 : x \in Frames
  BY <1>2
<1> QED BY <1>1, <1>2, <1>3 DEF StaticLevel

\* Static entries lead one level down, each to a table of its own.
LEMMA StaticDown ==
  ASSUME NEW t \in Frames, NEW i \in Index, StaticLevel[t] >= 2, Leads(StaticEntry(t, i))
  PROVE  LET a == StaticEntry(t, i).address
         IN /\ a \in Frames /\ StaticLevel[a] = StaticLevel[t] - 1
            /\ t = UpTable(a) /\ i = UpIndex(a)
<1> DEFINE SE == StaticEntry(t, i)  a == SE.address
<1>1. t \in Nat /\ i \in Nat
  BY TablesAssumption, Machine DEF Index, Frames
<1>2. ~Leads(Absent) /\ \A x \in Nat : Entry(x).address = x /\ ~Leads(LargePage(x))
  BY Fields DEF Leads
<1>3. t \in 1..6
  <2>1. ASSUME t \in HighRange PROVE FALSE
    <3>1. t - 7 - HEAP_TABLES \in 0..HIGH_TABLES-1
      BY <2>1, TablesAssumption DEF HighRange
    <3> QED BY <1>1, <1>2, <2>1, <3>1, HighNumbers, StaticIs
  <2> QED BY <2>1, StaticLevels
<1>4. HIGH # HEAP /\ HIGH # LOW /\ HEAP # LOW
  BY HighNumbers
<1>5. \A x \in StaticTables : x \in Frames
  BY ImageFrames
<1> HIDE DEF a
<1>6. CASE t = 1
  <2>1. (i = HIGH /\ a = 2) \/ (i = HEAP /\ a = 5) \/ (i = LOW /\ a = 3)
    BY <1>1, <1>2, <1>6, StaticIs DEF a
  <2>2. a \in 1..6
    BY <2>1
  <2>3. a \in Frames
    BY <2>2, ImageFrames
  <2> QED BY <1>4, <1>6, <2>1, <2>3, StaticLevels DEF UpTable, UpIndex, a
<1>7. CASE t = 2
  <2>1. i < HIGH_TABLES /\ SE = Entry(7 + HEAP_TABLES + i)
    BY <1>1, <1>2, <1>7, StaticIs
  <2>2. a = 7 + HEAP_TABLES + i
    BY <1>1, <1>2, <2>1, TablesAssumption DEF a
  <2>3. a \in HighRange /\ a \notin HeapPml1s /\ a > 6 /\ i = a - 7 - HEAP_TABLES
    BY <1>1, <2>1, <2>2, TablesAssumption DEF HighRange, HeapPml1s
  <2>4. a \in Frames
    BY <2>3, ImageFrames
  <2>5. t = UpTable(a) /\ i = UpIndex(a)
    BY <1>7, <2>3 DEF UpTable, UpIndex
  <2> QED BY <1>7, <2>3, <2>4, <2>5, StaticLevels DEF a
<1>8. CASE t = 3
  <2>1. i = 0 /\ a = 4
    BY <1>1, <1>2, <1>8, StaticIs DEF a
  <2>2. a \in Frames
    BY <2>1, ImageFrames
  <2> QED BY <1>8, <2>1, <2>2, StaticLevels DEF UpTable, UpIndex, a
<1>9. CASE t = 4
  <2>1. i < LOW_TABLES /\ SE = Entry(7 + HEAP_TABLES + HIGH_TABLES + i)
    BY <1>1, <1>2, <1>9, StaticIs
  <2>2. a = 7 + HEAP_TABLES + HIGH_TABLES + i
    BY <1>1, <1>2, <2>1, TablesAssumption DEF a
  <2>3. a \in LowPml1s /\ a \notin HighRange /\ a \notin HeapPml1s /\ a > 6
        /\ i = a - 7 - HEAP_TABLES - HIGH_TABLES
    BY <1>1, <2>1, <2>2, TablesAssumption DEF HighRange, HeapPml1s, LowPml1s
  <2>4. a \in Frames
    BY <2>3, ImageFrames
  <2>5. t = UpTable(a) /\ i = UpIndex(a)
    BY <1>9, <2>3 DEF UpTable, UpIndex
  <2> QED BY <1>9, <2>3, <2>4, <2>5, StaticLevels DEF a
<1>10. CASE t = 5
  <2>1. i = 0 /\ a = 6
    BY <1>1, <1>2, <1>10, StaticIs DEF a
  <2>2. a \in Frames
    BY <2>1, ImageFrames
  <2> QED BY <1>10, <2>1, <2>2, StaticLevels DEF UpTable, UpIndex, a
<1>11. CASE t = 6
  <2>1. i < HEAP_TABLES /\ SE = Entry(7 + i)
    BY <1>1, <1>2, <1>11, StaticIs
  <2>2. a = 7 + i
    BY <1>1, <1>2, <2>1, TablesAssumption DEF a
  <2>3. a \in HeapPml1s /\ a > 6 /\ i = a - 7
    BY <1>1, <2>1, <2>2, TablesAssumption DEF HeapPml1s
  <2>4. a \in Frames
    BY <2>3, ImageFrames
  <2>5. t = UpTable(a) /\ i = UpIndex(a)
    BY <1>11, <2>3 DEF UpTable, UpIndex
  <2> QED BY <1>11, <2>3, <2>4, <2>5, StaticLevels DEF a
<1> QED BY <1>3, <1>6, <1>7, <1>8, <1>9, <1>10, <1>11 DEF a

\* At boot the static tables are marked, and nothing outside memory is.
LEMMA BootFrames ==
  ASSUME Small, ImageMarked, Init
  PROVE  frames \in SUBSET Frames /\ StaticTables \subseteq frames
<1>1. PICK tail \in SUBSET (PA!BYTE * PA!metadata_bytes .. PA!nframes - 1) :
        frames = PA!Reserved \union tail
  BY DEF Init
<1>2. tail \subseteq Frames
  BY <1>1, Machine DEF PA!BYTE, Frames, N
<1>3. \A f \in 0..N : f \in PA!Reserved <=> f * PAGE_SIZE < PA!unavail /\ f < N
  <2>1. \A f \in 0..N : f * PAGE_SIZE < N * PAGE_SIZE <=> f < N
    BY Machine, MulMono
  <2> HIDE DEF PAGE_SIZE
  <2> QED BY <2>1, LimitIs, Machine DEF PA!Reserved, N
<1>4. PA!Reserved \subseteq Frames
  <2>1. PA!Reserved \subseteq 0..N
    BY DEF PA!Reserved, N
  <2> QED BY <1>3, <2>1, Machine DEF Frames
<1>5. PA!unavail \in Nat /\ first_free_page <= PA!unavail
  <2> DEFINE x == first_free_page + PA!metadata_bytes  P == PAGE_SIZE
  <2>1. first_free_page \in Nat /\ P \in Nat \ {0} /\ PA!metadata_bytes \in Nat
    BY ImageFrames, Machine, MulDiv
  <2>2. x \in Nat /\ first_free_page <= x
    BY <2>1
  <2> HIDE DEF x, P
  <2>3. ((x + P - 1) \div P) * P \in Nat /\ x <= ((x + P - 1) \div P) * P
    BY <2>1, <2>2
  <2>4. PA!unavail = ((x + P - 1) \div P) * P
    BY Machine DEF PA!unavail, x, P
  <2> QED BY <2>1, <2>2, <2>3, <2>4
<1>6. ASSUME NEW t \in StaticTables PROVE t \in PA!Reserved
  <2>1. t \in Nat /\ t < first_free_frame /\ t \in Frames
    BY ImageFrames, TablesAssumption DEF StaticTables, ImageMarked
  <2>2. t * PAGE_SIZE < first_free_page
    BY <2>1, ImageFrames, Machine, MulMono
  <2>3. t * PAGE_SIZE \in Nat /\ first_free_page \in Nat
    BY <2>1, ImageFrames, Machine, MulDiv
  <2>4. t * PAGE_SIZE < PA!unavail
    BY <1>5, <2>2, <2>3
  <2> QED BY <1>3, <2>1, <2>4, Machine DEF Frames
<1> QED BY <1>1, <1>2, <1>4, <1>6

\* mmu_init builds a tree.
LEMMA BootTree ==
  ASSUME Small, ImageMarked, Init
  PROVE  Tree(Now, StaticLevel)
<1>1. frames \in SUBSET Frames /\ StaticTables \subseteq frames
  BY BootFrames
<1>2. mem = [t \in Frames |-> [i \in Index |-> StaticEntry(t, i)]]
  BY DEF Init, Frames, N
<1>3. Now.frames = frames /\ Now.mem = mem
  BY DEF Now
<1>4. \A t \in Frames : t \in Nat
  BY Machine DEF Frames
<1>5. \A t \in Frames, i \in Index : Now.mem[t][i] = StaticEntry(t, i)
  BY <1>2, <1>3
<1>6. Now \in State
  <2>1. \A t \in Frames, i \in Index : StaticEntry(t, i) \in EntrySet
    BY <1>4, StaticTyped
  <2>2. mem \in [Frames -> [Index -> EntrySet]]
    BY <1>2, <2>1
  <2> QED BY <1>1, <2>2 DEF State, Now
<1>7. Levels(Now, StaticLevel)
  <2>1. high_base_pml4 = 1 /\ 1 \in Frames
    BY ImageFrames DEF high_base_pml4
  <2> QED BY <1>1, <1>3, <2>1, StaticLevels DEF Levels
<1>8. \A t \in Frames : StaticLevel[t] \in 0..4
  BY StaticLevels
<1>9. Down(Now, StaticLevel)
  <2> SUFFICES ASSUME NEW t \in Frames, NEW i \in Index
               PROVE  /\ StaticLevel[t] >= 2 /\ Leads(StaticEntry(t, i)) =>
                           /\ StaticEntry(t, i).address \in Frames
                           /\ StaticLevel[StaticEntry(t, i).address] = StaticLevel[t] - 1
                      /\ StaticLevel[t] >= 1 /\ StaticEntry(t, i).huge => t \in HighPml2s
    BY <1>5 DEF Down
  <2>1. StaticLevel[t] >= 2 /\ Leads(StaticEntry(t, i)) =>
          /\ StaticEntry(t, i).address \in Frames
          /\ StaticLevel[StaticEntry(t, i).address] = StaticLevel[t] - 1
    BY StaticDown
  <2>2. ASSUME StaticEntry(t, i).huge, t \notin HighRange PROVE FALSE
    <3> DEFINE SE == StaticEntry(t, i)
    <3>2. i \in Nat /\ t \in Nat
      BY <1>4, TablesAssumption DEF Index
    <3>3. SE = Absent \/ \E a : SE = Entry(a)
      <4>1. t \in 1..6 \/ t \in HeapPml1s \/ t \in LowPml1s \/ t \notin StaticTables
        BY <2>2, <3>2, TablesAssumption DEF HeapPml1s, HighRange, LowPml1s, StaticTables
      <4>2. CASE t \in 1..6
        BY <3>2, <4>2, StaticIs
      <4>3. CASE t \in HeapPml1s
        BY <3>2, <4>3, StaticIs
      <4>4. CASE t \in LowPml1s
        BY <3>2, <4>4, StaticIs
      <4>5. CASE t \notin StaticTables
        BY <3>2, <4>5, StaticIs
      <4> QED BY <4>1, <4>2, <4>3, <4>4, <4>5
    <3>4. ~Absent.huge /\ \A a : ~Entry(a).huge
      BY DEF Absent, Entry
    <3> QED BY <2>2, <3>3, <3>4
  <2>3. t \in HighRange => t \in HighPml2s
    BY <1>4, Arrays DEF HighPml2s
  <2> QED BY <2>1, <2>2, <2>3
<1>10. Apart(Now, StaticLevel)
  <2> SUFFICES ASSUME NEW s \in Frames, NEW t \in Frames, NEW i \in Index, NEW j \in Index,
                      StaticLevel[s] >= 2, StaticLevel[t] >= 2,
                      Leads(StaticEntry(s, i)), Leads(StaticEntry(t, j)),
                      StaticEntry(s, i).address = StaticEntry(t, j).address
               PROVE  s = t /\ i = j
    BY <1>5 DEF Apart
  <2>1. s = UpTable(StaticEntry(s, i).address) /\ i = UpIndex(StaticEntry(s, i).address)
    BY StaticDown
  <2>2. t = UpTable(StaticEntry(t, j).address) /\ j = UpIndex(StaticEntry(t, j).address)
    BY StaticDown
  <2> QED BY <2>1, <2>2
<1>11. Clear(Now)
  BY <1>1, <1>3, <1>4, <1>5, StaticIs DEF Clear
<1>12. HighMap(Now, StaticLevel)
  <2>1. high_base_pml4 = 1 /\ high_base_pml3 = 2 /\ 1 \in Frames /\ 2 \in Frames
        /\ StaticLevel[2] = 3
    BY ImageFrames, StaticLevels DEF high_base_pml4, high_base_pml3
  <2>2. Now.mem[1][HIGH] = Entry(2)
    <3>1. HIGH \in Index /\ 1 \in Nat
      BY HighNumbers
    <3>2. StaticEntry(1, HIGH) = Entry(2)
      BY <3>1, StaticIs
    <3> QED BY <1>5, <2>1, <3>1, <3>2
  <2>3. ASSUME NEW k \in 0..HIGH_TABLES-1
        PROVE  /\ high_base_pml2s(k) \in Frames /\ StaticLevel[high_base_pml2s(k)] = 2
               /\ Now.mem[2][k] = Entry(high_base_pml2s(k))
               /\ \A i \in Index : Now.mem[high_base_pml2s(k)][i] = LargePage(LargeFrame(k, i))
    <3> DEFINE t == high_base_pml2s(k)
    <3>1. t \in HighRange /\ t \in Frames /\ k \in Index
      BY Arrays, HighNumbers, ImageFrames
    <3>2. t = 7 + HEAP_TABLES + k /\ k < HIGH_TABLES
      BY TablesAssumption DEF high_base_pml2s
    <3>3. t - 7 - HEAP_TABLES = k
      BY <3>2, TablesAssumption
    <3> HIDE DEF t
    <3>4. Now.mem[2][k] = Entry(t)
      BY <1>5, <2>1, <3>1, <3>2, StaticIs
    <3>5. \A i \in Index : Now.mem[t][i] = LargePage(LargeFrame(k, i))
      <4>1. \A i \in Index : StaticEntry(t, i) = LargePage(LargeFrame(t - 7 - HEAP_TABLES, i))
        BY <1>4, <3>1, StaticIs
      <4> QED BY <1>5, <3>1, <3>3, <4>1
    <3>6. StaticLevel[t] = 2
      BY <3>1, StaticLevels
    <3> QED BY <3>1, <3>4, <3>5, <3>6 DEF t
  <2> QED BY <2>1, <2>2, <2>3 DEF HighMap
<1> QED BY <1>6, <1>7, <1>9, <1>10, <1>11, <1>12 DEF Tree

-----------------------------------------------------------------------------
(* The steps of the system                                                 *)

TreeInv ==
  /\ heap_end \in Nat
  /\ \E lv : Tree(Now, lv) /\ \A x \in data : x \in frames /\ lv[x] = 0

\* Where a page of the heap is.
LEMMA HeapPageIs ==
  ASSUME NEW n \in Nat
  PROVE  HeapPage(n) \in Pages /\ ~InHighMap(HeapPage(n))
<1>1. \A x \in Nat : x % ENTRIES \in Index
  BY DivMod, TablesAssumption DEF Index
<1>2. n \div (ENTRIES * ENTRIES) \in Nat /\ n \div ENTRIES \in Nat
  BY Digits, DivMod, TablesAssumption
<1>3. /\ (n \div (ENTRIES * ENTRIES)) % ENTRIES \in Index
      /\ (n \div ENTRIES) % ENTRIES \in Index /\ n % ENTRIES \in Index
  BY <1>1, <1>2
<1> DEFINE a == (n \div (ENTRIES * ENTRIES)) % ENTRIES  b == (n \div ENTRIES) % ENTRIES
           c == n % ENTRIES
<1>4. HeapPage(n) = <<HEAP, a, b, c>> /\ a \in Index /\ b \in Index /\ c \in Index
  BY <1>3 DEF HeapPage
<1> HIDE DEF a, b, c
<1> QED BY <1>4, HighNumbers DEF Pages, InHighMap

\* What map_addr does: the page is mapped and no other one.
LEMMA MapStep ==
  ASSUME Small, KeepOffHighMap, MemoryLasts, NEW lv, Tree(Now, lv),
         NEW v \in Virt, NEW f \in Phys, map_addr(v, f)
  PROVE  \E lw : /\ Tree(Now', lw)
                 /\ frames \subseteq frames' /\ \A y \in frames : lw[y] = lv[y]
                 /\ \A w \in Pages, b \in Nat :
                      Maps(Now', w, b) <=>
                        IF w = v THEN b = f * PAGE_SIZE ELSE Maps(Now, w, b)
<1> DEFINE n == map_addr_in(Now, high_base_pml4, v, f)
<1>1. v \in Pages /\ ~InHighMap(v) /\ f \in Nat
  BY CallersAssumption DEF KeepOffHighMap
<1>2. Now.frames = frames
  BY DEF Now
<1>3. Cardinality(PA!Available(Now.frames)) >= 3
  BY <1>2, AvailableFinite DEF MemoryLasts
<1>4. PICK lw : /\ Tree(n, lw)
                /\ Now.frames \subseteq n.frames /\ \A y \in Now.frames : lw[y] = lv[y]
                /\ \A w \in Pages, b \in Nat :
                     Maps(n, w, b) <=> IF w = v THEN b = f * PAGE_SIZE ELSE Maps(Now, w, b)
  BY <1>1, <1>3, MapAddrIn
<1>5. frames' = n.frames /\ mem' = n.mem
  BY DEF map_addr
<1> HIDE DEF n
<1>6. Now' = n
  BY <1>4, <1>5 DEF Tree, State, Now
<1> QED BY <1>2, <1>4, <1>5, <1>6

\* What sbrk does: the next page of the heap gets a frame that is no table.
LEMMA SbrkStep ==
  ASSUME Small, MemoryLasts, heap_end \in Nat, NEW lv, Tree(Now, lv), sbrk
  PROVE  \E lw : /\ Tree(Now', lw)
                 /\ frames \subseteq frames' /\ \A y \in frames : lw[y] = lv[y]
                 /\ Fresh(Now) \in frames' /\ lw[Fresh(Now)] = 0 /\ Fresh(Now) \in Nat
                 /\ \A w \in Pages, b \in Nat :
                      Maps(Now', w, b) <=>
                        IF w = HeapPage(heap_end) THEN b = Fresh(Now) * PAGE_SIZE
                        ELSE Maps(Now, w, b)
<1> DEFINE f == Fresh(Now)  v == HeapPage(heap_end)  m == Alloc(Now)
           n == map_addr_in(m, high_base_pml4, v, f)
<1>1. v \in Pages /\ ~InHighMap(v)
  BY HeapPageIs
<1>2. Now.frames = frames /\ Now \in State /\ Now.frames \in SUBSET Frames
  BY DEF Now, Tree, State
<1>3. /\ Cardinality(PA!Available(Now.frames)) >= 4
      /\ Cardinality(PA!Available(Now.frames)) >= 1
      /\ Cardinality(PA!Available(Now.frames)) \in Nat
  BY <1>2, AvailableFinite DEF MemoryLasts
<1>4. f \in Frames \ frames /\ f \in Nat
      /\ Cardinality(PA!Available(frames \union {f})) = Cardinality(PA!Available(frames)) - 1
  <2>1. f \in Frames \ frames
        /\ Cardinality(PA!Available(frames \union {f})) = Cardinality(PA!Available(frames)) - 1
    BY <1>2, <1>3, FreshFrame
  <2> HIDE DEF f
  <2> QED BY <2>1, Machine DEF Frames
<1>5. m.frames = frames \union {f}
  BY <1>2, <1>3, AllocIs
<1>6. Tree(m, lv) /\ lv[f] = 0
  BY <1>3, AllocTree
<1>7. \A w, b : Maps(m, w, b) <=> Maps(Now, w, b)
  BY <1>2, <1>3, AllocMaps
<1>8. frames' = n.frames /\ mem' = n.mem
  BY DEF sbrk
<1>9. Cardinality(PA!Available(m.frames)) >= 3
  BY <1>2, <1>3, <1>4, <1>5
<1> HIDE DEF f, v, m
<1>10. PICK lw : /\ Tree(n, lw)
                 /\ m.frames \subseteq n.frames /\ \A y \in m.frames : lw[y] = lv[y]
                 /\ \A w \in Pages, b \in Nat :
                      Maps(n, w, b) <=> IF w = v THEN b = f * PAGE_SIZE ELSE Maps(m, w, b)
  BY <1>1, <1>4, <1>6, <1>9, MapAddrIn
<1> HIDE DEF n
<1>11. Now' = n
  BY <1>8, <1>10 DEF Tree, State, Now
<1>12. frames \subseteq frames' /\ f \in frames' /\ lw[f] = 0 /\ \A y \in frames : lw[y] = lv[y]
  BY <1>5, <1>6, <1>8, <1>10
<1> HIDE DEF PAGE_SIZE
<1>13. \A w \in Pages, b \in Nat :
         Maps(Now', w, b) <=> IF w = v THEN b = f * PAGE_SIZE ELSE Maps(Now, w, b)
  BY <1>7, <1>10, <1>11
<1> QED BY <1>4, <1>10, <1>11, <1>12, <1>13 DEF f, v

LEMMA TreeInit == Small /\ ImageMarked /\ Init => TreeInv
<1> SUFFICES ASSUME Small, ImageMarked, Init PROVE TreeInv
  OBVIOUS
<1>1. heap_end \in Nat /\ data = {}
  BY Machine DEF Init
<1> QED BY <1>1, BootTree DEF TreeInv

LEMMA TreeNext ==
  ASSUME Small, KeepOffHighMap
  PROVE  TreeInv /\ [MemoryLasts]_vars /\ [Next]_vars => TreeInv'
<1> SUFFICES ASSUME TreeInv, [MemoryLasts]_vars, [Next]_vars PROVE TreeInv'
  OBVIOUS
<1>1. PICK lv : Tree(Now, lv) /\ \A x \in data : x \in frames /\ lv[x] = 0
  BY DEF TreeInv
<1>2. heap_end \in Nat
  BY DEF TreeInv
<1>3. ASSUME NEW v \in Virt, NEW f \in Phys, map_addr(v, f), MemoryLasts PROVE TreeInv'
  <2>1. PICK lw : Tree(Now', lw) /\ frames \subseteq frames' /\ \A y \in frames : lw[y] = lv[y]
    BY <1>1, <1>3, MapStep
  <2>2. heap_end' = heap_end /\ data' = data
    BY <1>3 DEF map_addr
  <2> QED BY <1>1, <1>2, <2>1, <2>2 DEF TreeInv
<1>4. ASSUME sbrk, MemoryLasts PROVE TreeInv'
  <2>1. PICK lw : /\ Tree(Now', lw) /\ frames \subseteq frames' /\ \A y \in frames : lw[y] = lv[y]
                  /\ Fresh(Now) \in frames' /\ lw[Fresh(Now)] = 0
    BY <1>1, <1>2, <1>4, SbrkStep
  <2>2. heap_end' = heap_end + 1 /\ data' = data \union {Fresh(Now)}
    BY <1>4 DEF sbrk
  <2> QED BY <1>1, <1>2, <2>1, <2>2 DEF TreeInv
<1>5. CASE UNCHANGED vars
  BY <1>1, <1>2, <1>5 DEF vars, TreeInv, Now
<1>6. CASE ~UNCHANGED vars
  BY <1>3, <1>4, <1>6 DEF Next
<1> QED BY <1>5, <1>6

-----------------------------------------------------------------------------
(* The tables                                                              *)

\* The tables behind tables of one level are of the level below.
LEMMA BelowLevel ==
  ASSUME NEW lv, Tree(Now, lv), NEW k \in 2..4, NEW ts \in SUBSET Frames,
         \A t \in ts : lv[t] = k
  PROVE  Below(ts) \subseteq Frames /\ \A x \in Below(ts) : lv[x] = k - 1
<1> SUFFICES ASSUME NEW x \in Below(ts) PROVE x \in Frames /\ lv[x] = k - 1
  OBVIOUS
<1>1. PICK t \in ts, i \in Index, f \in Frames : mem[t][i] = Entry(f) /\ x = mem[t][i].address
  BY DEF Below, Frames, N
<1>2. Leads(mem[t][i]) /\ x = f
  BY <1>1, Fields, Machine DEF Leads, Frames
<1>3. Now.mem[t][i] = mem[t][i] /\ t \in Frames /\ lv[t] = k /\ k >= 2
  BY DEF Now
<1>4. mem[t][i].address \in Frames /\ lv[mem[t][i].address] = lv[t] - 1
  BY <1>2, <1>3 DEF Tree, Down
<1> QED BY <1>1, <1>3, <1>4

\* The sets of tables that the properties speak of, by level.
LEMMA TableLevels ==
  ASSUME NEW lv, Tree(Now, lv)
  PROVE  /\ Tables \subseteq Frames /\ \A t \in Tables : lv[t] \in 1..4
         /\ \A t \in Tables \ Pml1s : lv[t] >= 2
<1>1. high_base_pml4 \in Frames /\ lv[high_base_pml4] = 4
  BY DEF Tree, Levels
<1>2. Pml3s \subseteq Frames /\ \A x \in Pml3s : lv[x] = 3
  <2>1. {high_base_pml4} \in SUBSET Frames /\ \A t \in {high_base_pml4} : lv[t] = 4
    BY <1>1
  <2>2. Pml3s \subseteq Frames /\ \A x \in Pml3s : lv[x] = 4 - 1
    BY <2>1, BelowLevel DEF Pml3s
  <2> QED BY <2>2
<1>3. Pml2s \subseteq Frames /\ \A x \in Pml2s : lv[x] = 2
  <2>1. Pml2s \subseteq Frames /\ \A x \in Pml2s : lv[x] = 3 - 1
    BY <1>2, BelowLevel DEF Pml2s
  <2> QED BY <2>1
<1>4. Pml1s \subseteq Frames /\ \A x \in Pml1s : lv[x] = 1
  <2>1. Pml1s \subseteq Frames /\ \A x \in Pml1s : lv[x] = 2 - 1
    BY <1>3, BelowLevel DEF Pml1s
  <2> QED BY <2>1
<1> QED BY <1>1, <1>2, <1>3, <1>4 DEF Tables

\* The invariant says that the tables are a tree.
LEMMA TreeIsTree == TreeInv => TablesAreTree
<1> SUFFICES ASSUME TreeInv PROVE TablesAreTree
  OBVIOUS
<1>1. PICK lv : Tree(Now, lv) /\ \A x \in data : x \in frames /\ lv[x] = 0
  BY DEF TreeInv
<1>2. Now.mem = mem /\ Now.frames = frames
  BY DEF Now
<1>3. /\ Tables \subseteq Frames /\ \A t \in Tables : lv[t] \in 1..4
      /\ \A t \in Tables \ Pml1s : lv[t] >= 2
  BY <1>1, TableLevels
<1>4. Tables \intersect data = {}
  BY <1>1, <1>3
<1>5. Tables \subseteq frames
  BY <1>1, <1>2, <1>3 DEF Tree, Levels
<1> DEFINE slots == {<<t, i>> : t \in Tables \ Pml1s, i \in Index}
           used  == {s \in slots : mem[s[1]][s[2]].present /\ ~mem[s[1]][s[2]].huge}
<1>6. ASSUME NEW r \in used, NEW s \in used,
             mem[r[1]][r[2]].address = mem[s[1]][s[2]].address
      PROVE  r = s
  <2>1. PICK t \in Tables \ Pml1s, i \in Index : r = <<t, i>>
    OBVIOUS
  <2>2. PICK u \in Tables \ Pml1s, j \in Index : s = <<u, j>>
    OBVIOUS
  <2>3. Leads(mem[t][i]) /\ Leads(mem[u][j]) /\ mem[t][i].address = mem[u][j].address
    BY <1>6, <2>1, <2>2 DEF Leads
  <2>4. t \in Frames /\ u \in Frames /\ lv[t] >= 2 /\ lv[u] >= 2
    BY <1>3
  <2>5. t = u /\ i = j
    BY <1>1, <1>2, <2>3, <2>4 DEF Tree, Apart
  <2> QED BY <2>1, <2>2, <2>5
<1> QED BY <1>4, <1>5, <1>6 DEF TablesAreTree

-----------------------------------------------------------------------------
(* The high map                                                            *)

\* The invariant says that the high map is the identity.
LEMMA TreeHigh == HighMapCovers /\ TreeInv => HighIdentity
<1> SUFFICES ASSUME HighMapCovers, TreeInv, NEW f \in Frames
             PROVE  mmu_translate(mmu_to_virt(f)) = f
  BY DEF HighIdentity, Frames, N
<1>1. PICK lv : Tree(Now, lv)
  BY DEF TreeInv
<1> DEFINE E == ENTRIES  k == f \div (E * E)  i == (f \div E) % E  j == f % E
<1>2. E \in Nat \ {0} /\ f \in Nat /\ HIGH_TABLES \in Nat /\ HIGH_TABLES <= E
  BY TablesAssumption, Machine DEF Frames
<1>3. k \in Nat /\ f = (k * E + i) * E + j
  BY <1>2, Digits
<1>4. i \in Index /\ j \in Index /\ j \in Nat
  <2>1. f \div E \in Nat
    BY <1>2, DivMod
  <2> QED BY <1>2, <2>1, DivMod DEF Index
<1>5. k \in 0..HIGH_TABLES-1
  <2> DEFINE S == E * E
  <2>1. S \in Nat \ {0}
    BY <1>2
  <2>2. HIGH_TABLES * S = HIGH_TABLES * E * E
    BY <1>2
  <2>3. f < HIGH_TABLES * S
    <3>1. f < N /\ N \in Nat
      BY Machine DEF Frames
    <3>2. N <= HIGH_TABLES * S
      BY <2>2 DEF HighMapCovers, N
    <3> HIDE DEF S
    <3> QED BY <1>2, <2>1, <3>1, <3>2
  <2> HIDE DEF S
  <2>4. f \div S \in 0..HIGH_TABLES-1
    BY <1>2, <2>1, <2>3, DivBound
  <2> QED BY <2>4 DEF S
<1>6. k % E = k
  BY <1>2, <1>5
<1>7. mmu_to_virt(f) = <<HIGH, k, i, j>>
  BY <1>6 DEF mmu_to_virt
<1>8. LargeFrame(k, i) + j = f
  BY <1>3 DEF LargeFrame
<1> HIDE DEF E, k, i, j
<1>9. /\ mem[high_base_pml4][HIGH] = Entry(high_base_pml3)
      /\ mem[high_base_pml3][k] = Entry(high_base_pml2s(k))
      /\ mem[high_base_pml2s(k)][i] = LargePage(LargeFrame(k, i))
  BY <1>1, <1>4, <1>5 DEF Tree, HighMap, Now
<1>10. /\ Entry(high_base_pml3).present /\ Entry(high_base_pml3).address = high_base_pml3
       /\ Entry(high_base_pml2s(k)).present /\ ~Entry(high_base_pml2s(k)).huge
       /\ Entry(high_base_pml2s(k)).address = high_base_pml2s(k)
       /\ LargePage(LargeFrame(k, i)).present /\ LargePage(LargeFrame(k, i)).huge
       /\ LargePage(LargeFrame(k, i)).address = LargeFrame(k, i)
  BY <1>4, <1>5, Fields, HighNumbers
<1>11. mmu_translate(<<HIGH, k, i, j>>) = LargeFrame(k, i) + j
  BY <1>9, <1>10 DEF mmu_translate
<1> QED BY <1>7, <1>8, <1>11

-----------------------------------------------------------------------------
(* The look-ups                                                            *)

\* A place in a table is not a null pointer.
LEMMA PairNotNull ==
  ASSUME NEW a, NEW b
  PROVE  <<a, b>> # NULL
<1>1. 1 \in DOMAIN <<a, b>> /\ 1 \notin DOMAIN << >>
  OBVIOUS
<1> QED BY <1>1 DEF NULL

\* Outside the high map the three look-ups see the mapping.
LEMMA Lookups ==
  ASSUME NEW lv, Tree(Now, lv), NEW v \in Pages, ~InHighMap(v)
  PROVE  LET t == mmu_translate(v)  d == mmu_get_page_deep(v)  p == mmu_get_page(v)
         IN /\ t \in Nat \/ t \in {-1, -2, -3, -4}
            /\ d.ret = 0 <=> t >= 0
            /\ t < 0 => d.outs = -t
            /\ p = NULL <=> d.outs < 4
            /\ t >= 0 => mem[p[1]][p[2]] = Entry(t)
            /\ \A a \in Nat : Maps(Now, v, a) <=> t = a
<1> DEFINE e4 == mem[high_base_pml4][v[1]]  e3 == mem[e4.address][v[2]]
           e2 == mem[e3.address][v[3]]      e1 == mem[e2.address][v[4]]
           t == mmu_translate(v)  d == mmu_get_page_deep(v)  p == mmu_get_page(v)
<1>1. v[1] \in Index /\ v[2] \in Index /\ v[3] \in Index /\ v[4] \in Index
  BY PageIndices
<1>2. high_base_pml4 \in Frames /\ lv[high_base_pml4] = 4 /\ Now.mem = mem
  BY DEF Tree, Levels, Now
<1>3. \A s \in Frames, j \in Index : mem[s][j] \in EntrySet
  BY <1>2 DEF Tree, State
<1>4. \A s \in Frames, j \in Index :
        /\ mem[s][j].address \in Nat
        /\ Leads(mem[s][j]) <=> mem[s][j] = Entry(mem[s][j].address)
        /\ mem[s][j].huge => mem[s][j].present
  BY <1>3, Shape
<1>5. \A s \in Frames, j \in Index : lv[s] >= 2 /\ Leads(mem[s][j]) =>
        mem[s][j].address \in Frames /\ lv[mem[s][j].address] = lv[s] - 1
  BY <1>2 DEF Tree, Down
<1>6. \A s \in Frames, j \in Index : lv[s] \in {1, 3, 4} => ~mem[s][j].huge
  BY <1>2 DEF Tree, Down, HighMap, HighPml2s
<1>7. \A x \in Frames : x \in Nat
  BY Machine DEF Frames
<1>8. \A x \in Nat : Entry(x).present /\ Entry(x).address = x
  BY Fields
<1>9. \A a \in Nat : Maps(Now, v, a) =>
        e4.present /\ e3.present /\ e2.present /\ e1.present /\ a = e1.address
  <2> SUFFICES ASSUME NEW a \in Nat, Maps(Now, v, a)
               PROVE  e4.present /\ e3.present /\ e2.present /\ e1.present /\ a = e1.address
    OBVIOUS
  <2>1. PICK t3, t2, t1 \in Frames : Walk(Now, v, t3, t2, t1) /\ mem[t1][v[4]] = Entry(a)
    BY <1>2 DEF Maps
  <2>2. e4 = Entry(t3) /\ e4.present /\ e4.address = t3
    BY <1>2, <1>7, <1>8, <2>1 DEF Walk
  <2>3. e3 = Entry(t2) /\ e3.present /\ e3.address = t2
    BY <1>2, <1>7, <1>8, <2>1, <2>2 DEF Walk
  <2>4. e2 = Entry(t1) /\ e2.present /\ e2.address = t1
    BY <1>2, <1>7, <1>8, <2>1, <2>3 DEF Walk
  <2> QED BY <1>8, <2>1, <2>2, <2>3, <2>4
<1>10. /\ t = CASE ~e4.present -> -1
                [] e4.present /\ ~e3.present -> -2
                [] e4.present /\ e3.present /\ e3.huge -> e3.address + v[3] * ENTRIES + v[4]
                [] e4.present /\ e3.present /\ ~e3.huge /\ ~e2.present -> -3
                [] e4.present /\ e3.present /\ ~e3.huge /\ e2.present /\ e2.huge ->
                     e2.address + v[4]
                [] OTHER -> IF e1.present THEN e1.address ELSE -4
       /\ p = IF e4.present /\ e3.present /\ e2.present THEN <<e2.address, v[4]>> ELSE NULL
       /\ d.outs = IF ~e4.present THEN 1 ELSE IF ~e3.present THEN 2
                   ELSE IF ~e2.present THEN 3 ELSE 4
       /\ d.ret = IF d.outs = 4 /\ e1.present THEN 0 ELSE 1
  BY DEF mmu_translate, mmu_get_page, mmu_get_page_deep
<1> DEFINE Goal == /\ t \in Nat \/ t \in {-1, -2, -3, -4}
                   /\ d.ret = 0 <=> t >= 0
                   /\ t < 0 => d.outs = -t
                   /\ p = NULL <=> d.outs < 4
                   /\ t >= 0 => mem[p[1]][p[2]] = Entry(t)
                   /\ \A a \in Nat : Maps(Now, v, a) <=> t = a
<1> HIDE DEF t, d, p
<1>11. ASSUME NEW k \in 1..4, t = -k, d.ret = 1, d.outs = k, p = NULL <=> k < 4,
              \A a \in Nat : ~Maps(Now, v, a)
       PROVE  Goal
  <2>1. t \in {-1, -2, -3, -4} /\ t < 0 /\ ~(t >= 0) /\ -t = k
    BY <1>11
  <2>2. \A a \in Nat : t # a
    BY <2>1
  <2>3. p = NULL <=> d.outs < 4
    BY <1>11
  <2>4. ~(d.ret = 0)
    BY <1>11
  <2>5. \A a \in Nat : Maps(Now, v, a) <=> t = a
    BY <1>11, <2>2
  <2> QED BY <1>11, <2>1, <2>3, <2>4, <2>5
<1>12. CASE ~e4.present
  <2>1. t = -1 /\ d.outs = 1 /\ d.ret = 1 /\ p = NULL
    <3> HIDE DEF e4, e3, e2, e1
    <3> QED BY <1>10, <1>12
  <2>2. \A a \in Nat : ~Maps(Now, v, a)
    BY <1>9, <1>12
  <2>3. Goal
    BY <1>11, <2>1, <2>2
  <2> QED BY <2>3 DEF t, d, p
<1>13. CASE e4.present /\ ~e3.present
  <2>1. t = -2 /\ d.outs = 2 /\ d.ret = 1 /\ p = NULL
    <3> HIDE DEF e4, e3, e2, e1
    <3> QED BY <1>10, <1>13
  <2>2. \A a \in Nat : ~Maps(Now, v, a)
    BY <1>9, <1>13
  <2>3. Goal
    BY <1>11, <2>1, <2>2
  <2> QED BY <2>3 DEF t, d, p
<1>14. CASE e4.present /\ e3.present
  <2>1. e4.address \in Frames /\ lv[e4.address] = 3 /\ e4 = Entry(e4.address)
    BY <1>1, <1>2, <1>4, <1>5, <1>6, <1>14 DEF Leads
  <2>2. ~e3.huge
    BY <1>1, <1>6, <2>1
  <2>3. e3.address \in Frames /\ lv[e3.address] = 2 /\ e3 = Entry(e3.address)
    <3>1. e3 = mem[e4.address][v[2]]
      OBVIOUS
    <3> HIDE DEF e4, e3, e2, e1
    <3>2. Leads(mem[e4.address][v[2]])
      BY <1>14, <2>2, <3>1 DEF Leads
    <3> QED BY <1>1, <1>4, <1>5, <2>1, <3>1, <3>2
  <2>4. ~e2.huge
    BY <1>1, <1>2, <2>1, <2>3, OffHighMap
  <2>5. CASE ~e2.present
    <3>1. t = -3 /\ d.outs = 3 /\ d.ret = 1 /\ p = NULL
      <4> HIDE DEF e4, e3, e2, e1
      <4> QED BY <1>10, <1>14, <2>2, <2>5
    <3>2. \A a \in Nat : ~Maps(Now, v, a)
      BY <1>9, <2>5
    <3>3. Goal
      BY <1>11, <3>1, <3>2
    <3> QED BY <3>3 DEF t, d, p
  <2>6. CASE e2.present
    <3>1. e2.address \in Frames /\ lv[e2.address] = 1 /\ e2 = Entry(e2.address)
      <4>1. e2 = mem[e3.address][v[3]]
        OBVIOUS
      <4> HIDE DEF e4, e3, e2
      <4>2. Leads(mem[e3.address][v[3]])
        BY <2>4, <2>6, <4>1 DEF Leads
      <4> QED BY <1>1, <1>4, <1>5, <2>3, <4>1, <4>2
    <3>2. ~e1.huge /\ e1.address \in Nat /\ (e1.present => e1 = Entry(e1.address))
      <4>1. e1 = mem[e2.address][v[4]]
        OBVIOUS
      <4> HIDE DEF e4, e3, e2, e1
      <4> QED BY <1>1, <1>4, <1>6, <3>1, <4>1 DEF Leads
    <3>3. /\ t = IF e1.present THEN e1.address ELSE -4
          /\ d.outs = 4 /\ d.ret = IF e1.present THEN 0 ELSE 1
          /\ p = <<e2.address, v[4]>>
      <4> HIDE DEF e4, e3, e2, e1
      <4> QED BY <1>10, <1>14, <2>2, <2>4, <2>6
    <3>4. p # NULL /\ p[1] = e2.address /\ p[2] = v[4]
      <4> HIDE DEF e4, e3, e2
      <4> QED BY <3>3, PairNotNull
    <3>5. mem[p[1]][p[2]] = e1
      BY <3>4
    <3>6. e1.present => Maps(Now, v, e1.address)
      BY <1>2, <2>1, <2>3, <3>1, <3>2 DEF Maps, Walk
    <3> HIDE DEF e1, e2, e3, e4
    <3>7. CASE e1.present
      <4>1. t = e1.address /\ t \in Nat /\ d.ret = 0 /\ d.outs = 4
        BY <3>2, <3>3, <3>7
      <4>2. mem[p[1]][p[2]] = Entry(t)
        BY <3>2, <3>5, <3>7, <4>1
      <4>3. \A a \in Nat : Maps(Now, v, a) <=> t = a
        BY <1>9, <3>6, <3>7, <4>1
      <4>4. Goal
        BY <3>4, <4>1, <4>2, <4>3
      <4> QED BY <4>4 DEF t, d, p
    <3>8. CASE ~e1.present
      <4>1. t = -4 /\ d.ret = 1 /\ d.outs = 4
        BY <3>3, <3>8
      <4>2. \A a \in Nat : ~Maps(Now, v, a)
        BY <1>9, <3>8
      <4>3. Goal
        BY <1>11, <3>4, <4>1, <4>2
      <4> QED BY <4>3 DEF t, d, p
    <3> QED BY <3>7, <3>8
  <2> QED BY <2>5, <2>6
<1> QED BY <1>12, <1>13, <1>14

-----------------------------------------------------------------------------
(* The pages of the heap                                                   *)

\* The number of a page of the heap from its indices.
LEMMA HeapDigits ==
  ASSUME NEW n \in Nat, n < ENTRIES * ENTRIES * ENTRIES
  PROVE  n = (HeapPage(n)[2] * ENTRIES + HeapPage(n)[3]) * ENTRIES + HeapPage(n)[4]
<1> DEFINE E == ENTRIES  S == E * E  p == n \div S
<1>1. E \in Nat \ {0} /\ S \in Nat \ {0}
  BY TablesAssumption
<1>2. n = (p * E + ((n \div E) % E)) * E + (n % E)
  BY <1>1, Digits
<1>3. p \in 0..E-1
  <2>1. n < E * S
    BY <1>1
  <2> HIDE DEF S, E
  <2> QED BY <1>1, <2>1, DivBound
<1>4. p % E = p
  <2> HIDE DEF p, E
  <2> QED BY <1>1, <1>3
<1>5. HeapPage(n) = <<HEAP, p % E, (n \div E) % E, n % E>>
  BY DEF HeapPage
<1> HIDE DEF p, E
<1>6. HeapPage(n)[2] = p /\ HeapPage(n)[3] = (n \div E) % E /\ HeapPage(n)[4] = n % E
  BY <1>4, <1>5
<1> QED BY <1>2, <1>6 DEF E

\* Different pages of the heap are different pages.
LEMMA HeapInjective ==
  ASSUME NEW n \in Nat, NEW k \in Nat, n < ENTRIES * ENTRIES * ENTRIES,
         k < ENTRIES * ENTRIES * ENTRIES, HeapPage(n) = HeapPage(k)
  PROVE  n = k
<1>1. n = (HeapPage(n)[2] * ENTRIES + HeapPage(n)[3]) * ENTRIES + HeapPage(n)[4]
  BY HeapDigits
<1>2. k = (HeapPage(k)[2] * ENTRIES + HeapPage(k)[3]) * ENTRIES + HeapPage(k)[4]
  BY HeapDigits
<1> QED BY <1>1, <1>2

\* The pages behind the first entries of the heap's upper tables.
LEMMA HeapSmall ==
  ASSUME NEW b \in Index, NEW c \in Index
  PROVE  HeapPage(b * ENTRIES + c) = <<HEAP, 0, b, c>>
<1> DEFINE E == ENTRIES  n == b * E + c
<1>1. E \in Nat \ {0} /\ b \in 0..E-1 /\ c \in 0..E-1 /\ b \in Nat
  BY TablesAssumption DEF Index
<1> HIDE DEF E
<1>2. n \div E = b /\ n % E = c
  BY <1>1, DivUnique
<1>3. b % E = b
  BY <1>1
<1>4. n \div (E * E) = 0
  <2> DEFINE S == E * E
  <2>1. n \in 0..S-1 /\ S \in Nat \ {0}
    <3>1. b * E <= (E - 1) * E /\ b * E \in Nat
      BY <1>1
    <3>2. (E - 1) * E = E * E - E /\ E * E \in Nat \ {0}
      BY <1>1
    <3> QED BY <1>1, <3>1, <3>2
  <2> HIDE DEF S, n
  <2>2. (0 * S + n) \div S = 0
    BY <2>1, DivUnique
  <2>3. 0 * S + n = n
    BY <2>1
  <2> QED BY <2>2, <2>3 DEF S
<1>5. 0 % E = 0
  BY <1>1
<1>6. HeapPage(n) = <<HEAP, (n \div (E * E)) % E, (n \div E) % E, n % E>>
  BY DEF HeapPage, E
<1>7. HeapPage(n) = <<HEAP, 0, b, c>>
  BY <1>2, <1>3, <1>4, <1>5, <1>6
<1> QED BY <1>7 DEF E

\* At boot only the low map and the pages of the bitmap are mapped.
LEMMA BootMaps ==
  ASSUME Small, Init, NEW v \in Pages, ~InHighMap(v), NEW a \in Nat, Maps(Now, v, a)
  PROVE  InLowMap(v) \/ \E n \in 0..metadata_pages-1 : v = HeapPage(n)
<1>1. PICK t3, t2, t1 \in Frames : Walk(Now, v, t3, t2, t1) /\ Now.mem[t1][v[4]] = Entry(a)
  BY DEF Maps
<1>2. v[1] \in Index /\ v[2] \in Index /\ v[3] \in Index /\ v[4] \in Index
  BY PageIndices
<1>3. \A t \in Frames, i \in Index : Now.mem[t][i] = StaticEntry(t, i)
  BY DEF Init, Frames, N, Now
<1>4. \A t \in Frames : t \in Nat
  BY Machine DEF Frames
<1>5. high_base_pml4 = 1 /\ 1 \in Frames
  BY ImageFrames DEF high_base_pml4
<1>6. StaticEntry(1, v[1]) = Entry(t3) /\ StaticEntry(t3, v[2]) = Entry(t2)
      /\ StaticEntry(t2, v[3]) = Entry(t1) /\ StaticEntry(t1, v[4]) = Entry(a)
  BY <1>1, <1>2, <1>3, <1>5 DEF Walk
<1>7. \A x, y \in Nat : Entry(x) # Absent /\ (Entry(x) = Entry(y) => x = y)
  BY Fields
<1>8. (v[1] = HIGH /\ t3 = 2) \/ (v[1] = HEAP /\ t3 = 5) \/ (v[1] = LOW /\ t3 = 3)
  BY <1>2, <1>4, <1>6, <1>7, StaticIs
<1>9. CASE v[1] = HIGH /\ t3 = 2
  <2>1. v[2] < HIGH_TABLES
    BY <1>2, <1>4, <1>6, <1>7, <1>9, StaticIs
  <2> QED BY <1>9, <2>1 DEF InHighMap
<1>10. CASE v[1] = LOW /\ t3 = 3
  <2>1. v[2] = 0 /\ t2 = 4
    BY <1>2, <1>4, <1>6, <1>7, <1>10, StaticIs
  <2>2. v[3] < LOW_TABLES
    BY <1>2, <1>4, <1>6, <1>7, <2>1, StaticIs
  <2> QED BY <1>10, <2>1, <2>2 DEF InLowMap
<1>11. CASE v[1] = HEAP /\ t3 = 5
  <2>1. v[2] = 0 /\ t2 = 6
    BY <1>2, <1>4, <1>6, <1>7, <1>11, StaticIs
  <2>2. v[3] \in Nat /\ v[4] \in Nat
    BY <1>2, TablesAssumption DEF Index
  <2>3. v[3] < HEAP_TABLES /\ t1 = 7 + v[3]
    <3>1. StaticEntry(6, v[3]) = IF v[3] < HEAP_TABLES THEN Entry(7 + v[3]) ELSE Absent
      BY <1>2, StaticIs
    <3>2. 7 + v[3] \in Nat
      BY <2>2
    <3> QED BY <1>4, <1>6, <1>7, <2>1, <3>1, <3>2
  <2>4. t1 \in HeapPml1s /\ t1 - 7 = v[3]
    BY <2>2, <2>3, TablesAssumption DEF HeapPml1s
  <2> DEFINE n == v[3] * ENTRIES + v[4]
  <2>5. StaticEntry(t1, v[4]) = IF (t1 - 7) * ENTRIES + v[4] < metadata_pages
                          THEN Entry(first_free_frame + ((t1 - 7) * ENTRIES + v[4])) ELSE Absent
    BY <1>2, <1>4, <2>4, StaticIs
  <2>6. n < metadata_pages
    BY <1>6, <1>7, <2>4, <2>5
  <2>7. n \in Nat
    <3>1. v[3] * ENTRIES \in Nat
      BY <2>2, TablesAssumption
    <3> QED BY <2>2, <3>1
  <2>8. v = HeapPage(n)
    <3>1. HeapPage(n) = <<HEAP, 0, v[3], v[4]>>
      BY <1>2, HeapSmall
    <3>2. HeapPage(n) \in Pages
      BY <2>7, HeapPageIs
    <3> HIDE DEF n
    <3> QED BY <1>11, <2>1, <3>1, <3>2, PageIndices
  <2> HIDE DEF n
  <2>9. n \in 0..metadata_pages-1
    BY <2>6, <2>7, Machine
  <2> QED BY <2>8, <2>9
<1> QED BY <1>8, <1>9, <1>10, <1>11

-----------------------------------------------------------------------------
(***************************************************************************)
(* What is mapped: the pages that callers had mapped, to the addresses     *)
(* told, and the pages of the heap up to its end.                          *)
(***************************************************************************)
MapInv ==
  /\ heap_end \in metadata_pages..MaxHeapPages
  /\ told \in [Virt -> Nat \union {NoFrame}]
  /\ \A v \in Virt : told[v] = NoFrame => \A a \in Nat : ~Maps(Now, v, a)
  /\ \A v \in Virt : told[v] # NoFrame => Maps(Now, v, told[v] * PAGE_SIZE)
  /\ \A n \in metadata_pages..heap_end-1 : \E a \in Nat : Maps(Now, HeapPage(n), a)
  /\ \A n \in heap_end..MaxHeapPages : \A a \in Nat : ~Maps(Now, HeapPage(n), a)

LEMMA MapInit ==
  ASSUME Small, KeepOffHighMap, KeepOffKernel, HeapFits, Init
  PROVE  MapInv
<1>1. metadata_pages \in Nat /\ MaxHeapPages \in Nat /\ metadata_pages <= MaxHeapPages
      /\ heap_end = metadata_pages /\ told = [v \in Virt |-> NoFrame]
  BY Machine, TablesAssumption DEF Init, HeapFits
<1>2. ASSUME NEW v \in Virt, NEW a \in Nat PROVE ~Maps(Now, v, a)
  <2>1. v \in Pages /\ ~InHighMap(v) /\ ~InLowMap(v)
    BY CallersAssumption DEF KeepOffHighMap, KeepOffKernel
  <2>2. \A n \in 0..metadata_pages-1 : v # HeapPage(n)
    BY <1>1 DEF KeepOffKernel
  <2> QED BY <2>1, <2>2, BootMaps
<1>3. ASSUME NEW n \in metadata_pages..MaxHeapPages, NEW a \in Nat
      PROVE  ~Maps(Now, HeapPage(n), a)
  <2> DEFINE C == ENTRIES * ENTRIES * ENTRIES
  <2>1. C \in Nat /\ MaxHeapPages < C
    BY TablesAssumption DEF HeapFits
  <2> HIDE DEF C
  <2>2. n \in Nat /\ n < C
    BY <1>1, <2>1
  <2>3. HeapPage(n) \in Pages /\ ~InHighMap(HeapPage(n)) /\ HeapPage(n)[1] = HEAP
    BY <2>2, HeapPageIs DEF HeapPage
  <2>4. ~InLowMap(HeapPage(n))
    BY <2>3, HighNumbers DEF InLowMap
  <2>5. ASSUME NEW k \in 0..metadata_pages-1, HeapPage(n) = HeapPage(k) PROVE FALSE
    <3>1. k \in Nat /\ k < C /\ k # n
      BY <1>1, <2>1
    <3> QED BY <2>2, <2>5, <3>1, HeapInjective DEF C
  <2> QED BY <2>3, <2>4, <2>5, BootMaps
<1> QED BY <1>1, <1>2, <1>3 DEF MapInv, NoFrame

LEMMA MapNext ==
  ASSUME Small, KeepOffHighMap, KeepOffKernel, HeapFits
  PROVE  TreeInv /\ MapInv /\ [MemoryLasts]_vars /\ [Next]_vars => MapInv'
<1> SUFFICES ASSUME TreeInv, MapInv, [MemoryLasts]_vars, [Next]_vars PROVE MapInv'
  OBVIOUS
<1>1. PICK lv : Tree(Now, lv)
  BY DEF TreeInv
<1>2. metadata_pages \in Nat /\ MaxHeapPages \in Nat /\ heap_end \in Nat
      /\ metadata_pages <= heap_end /\ heap_end <= MaxHeapPages
  BY Machine, TablesAssumption DEF MapInv
<1>3. Virt \subseteq Pages /\ Phys \subseteq Nat /\ \A x \in Nat : x * PAGE_SIZE \in Nat
  BY CallersAssumption, Machine, MulDiv
<1>4. \A n \in 0..MaxHeapPages : HeapPage(n) \in Pages
  BY HeapPageIs
<1>5. \A n \in 0..MaxHeapPages, w \in Virt : w # HeapPage(n)
  BY DEF KeepOffKernel
<1>6. told \in [Virt -> Nat \union {NoFrame}]
  BY DEF MapInv
<1> HIDE DEF PAGE_SIZE
<1>7. ASSUME NEW v \in Virt, NEW f \in Phys, map_addr(v, f), MemoryLasts PROVE MapInv'
  <2>1. \A w \in Pages, b \in Nat :
          Maps(Now', w, b) <=> IF w = v THEN b = f * PAGE_SIZE ELSE Maps(Now, w, b)
    BY <1>1, <1>7, MapStep
  <2>2. heap_end' = heap_end /\ told' = [told EXCEPT ![v] = f]
    BY <1>7 DEF map_addr
  <2>3. f \in Nat /\ f # NoFrame
    BY <1>3 DEF NoFrame
  <2>4. \A w \in Virt : told'[w] = IF w = v THEN f ELSE told[w]
    BY <1>6, <2>2
  <2>5. told' \in [Virt -> Nat \union {NoFrame}]
    BY <1>6, <2>2, <2>3
  <2>6. ASSUME NEW w \in Virt, told'[w] = NoFrame, NEW a \in Nat PROVE ~Maps(Now', w, a)
    BY <1>3, <2>1, <2>3, <2>4, <2>6 DEF MapInv
  <2>7. ASSUME NEW w \in Virt, told'[w] # NoFrame PROVE Maps(Now', w, told'[w] * PAGE_SIZE)
    <3>1. CASE w = v
      BY <1>3, <2>1, <2>3, <2>4, <3>1
    <3>2. CASE w # v
      <4>1. told'[w] = told[w] /\ told[w] \in Nat
        BY <1>6, <2>4, <2>7, <3>2
      <4>2. Maps(Now, w, told[w] * PAGE_SIZE)
        BY <2>7, <4>1 DEF MapInv
      <4> QED BY <1>3, <2>1, <3>2, <4>1, <4>2
    <3> QED BY <3>1, <3>2
  <2>8. ASSUME NEW n \in 0..MaxHeapPages, NEW a \in Nat
        PROVE  Maps(Now', HeapPage(n), a) <=> Maps(Now, HeapPage(n), a)
    BY <1>4, <1>5, <2>1
  <2>9. \A n \in metadata_pages..heap_end'-1 : \E a \in Nat : Maps(Now', HeapPage(n), a)
    <3> SUFFICES ASSUME NEW n \in metadata_pages..heap_end-1
                 PROVE  \E a \in Nat : Maps(Now', HeapPage(n), a)
      BY <2>2
    <3>1. n \in 0..MaxHeapPages
      BY <1>2
    <3> QED BY <2>8, <3>1 DEF MapInv
  <2>10. \A n \in heap_end'..MaxHeapPages : \A a \in Nat : ~Maps(Now', HeapPage(n), a)
    <3> SUFFICES ASSUME NEW n \in heap_end..MaxHeapPages, NEW a \in Nat
                 PROVE  ~Maps(Now', HeapPage(n), a)
      BY <2>2
    <3>1. n \in 0..MaxHeapPages
      BY <1>2
    <3> QED BY <2>8, <3>1 DEF MapInv
  <2>11. heap_end' \in metadata_pages..MaxHeapPages
    BY <2>2 DEF MapInv
  <2> QED BY <2>5, <2>6, <2>7, <2>9, <2>10, <2>11 DEF MapInv
<1>8. ASSUME sbrk, MemoryLasts PROVE MapInv'
  <2> DEFINE v == HeapPage(heap_end)  f == Fresh(Now)
  <2>1. f \in Nat /\ \A w \in Pages, b \in Nat :
          Maps(Now', w, b) <=> IF w = v THEN b = f * PAGE_SIZE ELSE Maps(Now, w, b)
    BY <1>1, <1>2, <1>8, SbrkStep
  <2>2. heap_end' = heap_end + 1 /\ told' = told /\ heap_end < MaxHeapPages
    BY <1>8 DEF sbrk
  <2>3. ASSUME NEW n \in 0..MaxHeapPages, n # heap_end PROVE HeapPage(n) # v
    <3> DEFINE C == ENTRIES * ENTRIES * ENTRIES
    <3>1. C \in Nat /\ MaxHeapPages < C
      BY TablesAssumption DEF HeapFits
    <3> HIDE DEF C
    <3>2. n \in Nat /\ n < C /\ heap_end < C
      BY <1>2, <3>1
    <3> QED BY <1>2, <2>3, <3>2, HeapInjective DEF C
  <2>4. v \in Pages /\ \A w \in Virt : w # v
    BY <1>2, <1>4, <1>5
  <2> HIDE DEF v, f
  <2>5. \A w \in Virt, b \in Nat : Maps(Now', w, b) <=> Maps(Now, w, b)
    BY <1>3, <2>1, <2>4
  <2>6. ASSUME NEW w \in Virt, told'[w] = NoFrame, NEW a \in Nat PROVE ~Maps(Now', w, a)
    BY <2>2, <2>5, <2>6 DEF MapInv
  <2>7. ASSUME NEW w \in Virt, told'[w] # NoFrame PROVE Maps(Now', w, told'[w] * PAGE_SIZE)
    <3>1. told'[w] = told[w] /\ told[w] \in Nat
      BY <1>6, <2>2, <2>7
    <3>2. Maps(Now, w, told[w] * PAGE_SIZE)
      BY <2>7, <3>1 DEF MapInv
    <3> QED BY <1>3, <2>5, <3>1, <3>2
  <2>8. \A n \in metadata_pages..heap_end'-1 : \E a \in Nat : Maps(Now', HeapPage(n), a)
    <3> SUFFICES ASSUME NEW n \in metadata_pages..heap_end
                 PROVE  \E a \in Nat : Maps(Now', HeapPage(n), a)
      BY <1>2, <2>2
    <3>1. CASE n = heap_end
      <4>1. f * PAGE_SIZE \in Nat
        BY <1>3, <2>1
      <4>2. Maps(Now', v, f * PAGE_SIZE)
        BY <2>1, <2>4, <4>1
      <4> QED BY <3>1, <4>1, <4>2 DEF v
    <3>2. CASE n # heap_end
      <4>1. n \in 0..MaxHeapPages /\ n \in metadata_pages..heap_end-1
        BY <1>2, <3>2
      <4>2. HeapPage(n) \in Pages /\ HeapPage(n) # v
        BY <1>4, <2>3, <3>2, <4>1
      <4>3. PICK a \in Nat : Maps(Now, HeapPage(n), a)
        BY <4>1 DEF MapInv
      <4> QED BY <2>1, <4>2, <4>3
    <3> QED BY <3>1, <3>2
  <2>9. \A n \in heap_end'..MaxHeapPages : \A a \in Nat : ~Maps(Now', HeapPage(n), a)
    <3> SUFFICES ASSUME NEW n \in heap_end+1..MaxHeapPages, NEW a \in Nat
                 PROVE  ~Maps(Now', HeapPage(n), a)
      BY <2>2
    <3>1. n \in 0..MaxHeapPages /\ n # heap_end /\ n \in heap_end..MaxHeapPages
      BY <1>2
    <3>2. HeapPage(n) \in Pages /\ HeapPage(n) # v
      BY <1>4, <2>3, <3>1
    <3> QED BY <2>1, <3>1, <3>2 DEF MapInv
  <2>10. heap_end' \in metadata_pages..MaxHeapPages /\ told' \in [Virt -> Nat \union {NoFrame}]
    BY <1>2, <1>6, <2>2
  <2> QED BY <2>6, <2>7, <2>8, <2>9, <2>10 DEF MapInv
<1>9. CASE UNCHANGED vars
  BY <1>9 DEF vars, MapInv, Now
<1>10. CASE ~UNCHANGED vars
  BY <1>7, <1>8, <1>10 DEF Next
<1> QED BY <1>9, <1>10

\* The invariant says that pages are mapped one by one.
LEMMA MapIsIsolated ==
  ASSUME KeepOffHighMap, TreeInv, MapInv
  PROVE  MapsIsolated
<1>1. PICK lv : Tree(Now, lv)
  BY DEF TreeInv
<1>2. metadata_pages \in Nat /\ heap_end \in metadata_pages..MaxHeapPages /\ MaxHeapPages \in Nat
  BY Machine, TablesAssumption DEF MapInv
<1>3. ASSUME NEW v \in Pages, ~InHighMap(v)
      PROVE  /\ mmu_translate(v) \in Nat \/ mmu_translate(v) \in {-1, -2, -3, -4}
             /\ \A a \in Nat : Maps(Now, v, a) <=> mmu_translate(v) = a
  BY <1>1, <1>3, Lookups
<1>4. ASSUME NEW v \in Pages, ~InHighMap(v)
      PROVE  mmu_translate(v) < 0 <=> \A a \in Nat : ~Maps(Now, v, a)
  <2>1. /\ mmu_translate(v) \in Nat \/ mmu_translate(v) \in {-1, -2, -3, -4}
        /\ \A a \in Nat : Maps(Now, v, a) <=> mmu_translate(v) = a
    BY <1>3, <1>4
  <2> QED BY <2>1
<1>5. \A v \in Virt : v \in Pages /\ ~InHighMap(v)
  BY CallersAssumption DEF KeepOffHighMap
<1>6. \A n \in Nat : HeapPage(n) \in Pages /\ ~InHighMap(HeapPage(n))
  BY HeapPageIs
<1>7. \A v \in Virt : told[v] # NoFrame =>
        told[v] \in Nat /\ told[v] * PAGE_SIZE \in Nat /\ Maps(Now, v, told[v] * PAGE_SIZE)
  <2>1. \A v \in Virt : told[v] # NoFrame =>
          told[v] \in Nat /\ Maps(Now, v, told[v] * PAGE_SIZE)
    <3> HIDE DEF PAGE_SIZE
    <3> QED BY DEF MapInv
  <2> QED BY <2>1, Machine, MulDiv
<1> HIDE DEF PAGE_SIZE
<1>8. \A v \in Virt : told[v] = NoFrame <=> mmu_translate(v) < 0
  <2> SUFFICES ASSUME NEW v \in Virt PROVE told[v] = NoFrame <=> mmu_translate(v) < 0
    OBVIOUS
  <2>1. mmu_translate(v) < 0 <=> \A a \in Nat : ~Maps(Now, v, a)
    BY <1>4, <1>5
  <2>2. told[v] = NoFrame => \A a \in Nat : ~Maps(Now, v, a)
    BY DEF MapInv
  <2> QED BY <1>7, <2>1, <2>2
<1>9. ASSUME NEW v \in Virt, NEW w \in Virt, told[v] # NoFrame, told[w] # NoFrame
      PROVE  told[v] = told[w] <=> mmu_translate(v) = mmu_translate(w)
  <2>1. mmu_translate(v) = told[v] * PAGE_SIZE /\ mmu_translate(w) = told[w] * PAGE_SIZE
    BY <1>3, <1>5, <1>7, <1>9
  <2>2. told[v] * PAGE_SIZE = told[w] * PAGE_SIZE => told[v] = told[w]
    <3>1. (told[v] * PAGE_SIZE) \div PAGE_SIZE = told[v]
      BY <1>7, <1>9, Machine, MulDiv
    <3>2. (told[w] * PAGE_SIZE) \div PAGE_SIZE = told[w]
      BY <1>7, <1>9, Machine, MulDiv
    <3> QED BY <3>1, <3>2, Zenon
  <2> QED BY <2>1, <2>2
<1>10. ASSUME NEW v \in HeapPages PROVE mmu_translate(v) >= 0
  <2>1. PICK n \in metadata_pages..heap_end-1 : v = HeapPage(n)
    BY <1>10 DEF HeapPages
  <2>2. PICK a \in Nat : Maps(Now, v, a)
    BY <2>1 DEF MapInv
  <2>3. n \in Nat
    BY <1>2
  <2>4. mmu_translate(v) = a
    BY <1>3, <1>6, <2>1, <2>2, <2>3
  <2> QED BY <2>4
<1>11. mmu_translate(HeapPage(heap_end)) < 0
  <2>1. heap_end \in Nat /\ heap_end \in heap_end..MaxHeapPages
    BY <1>2
  <2>2. \A a \in Nat : ~Maps(Now, HeapPage(heap_end), a)
    BY <2>1 DEF MapInv
  <2> QED BY <1>4, <1>6, <2>1, <2>2
<1> QED BY <1>8, <1>9, <1>10, <1>11 DEF MapsIsolated

\* The invariant says that the look-ups agree.
LEMMA TreeLookups ==
  ASSUME KeepOffHighMap, TreeInv
  PROVE  LookupsAgree
<1>1. PICK lv : Tree(Now, lv)
  BY DEF TreeInv
<1>2. heap_end \in Nat /\ metadata_pages \in Nat
  BY Machine DEF TreeInv
<1> SUFFICES ASSUME NEW v \in Virt \union HeapPages \union {HeapPage(heap_end)}
             PROVE  LET t == mmu_translate(v)  d == mmu_get_page_deep(v)  p == mmu_get_page(v)
                    IN /\ d.ret = 0 <=> t >= 0
                       /\ t < 0 => d.outs = -t
                       /\ p = NULL <=> d.outs < 4
                       /\ t >= 0 => mem[p[1]][p[2]] = Entry(t)
  BY DEF LookupsAgree
<1>3. v \in Pages /\ ~InHighMap(v)
  <2>1. CASE v \in Virt
    BY <2>1, CallersAssumption DEF KeepOffHighMap
  <2>2. CASE v \in HeapPages
    <3>1. PICK n \in metadata_pages..heap_end-1 : v = HeapPage(n)
      BY <2>2 DEF HeapPages
    <3>2. n \in Nat
      BY <1>2
    <3> QED BY <3>1, <3>2, HeapPageIs
  <2>3. CASE v = HeapPage(heap_end)
    BY <1>2, <2>3, HeapPageIs
  <2> QED BY <2>1, <2>2, <2>3
<1> QED BY <1>1, <1>3, Lookups

-----------------------------------------------------------------------------
(* Theorems                                                                *)

\* Where the value kmain passes reaches the end of the image, as long as memory
\* lasts, whatever callers map outside the high map and however the heap grows, the kernel reaches every frame of the machine where
\* mmu_to_virt says: no step of map_addr_in writes to a table of the high map.
THEOREM HighMapSafe ==
  ASSUME Small, ImageMarked, HighMapCovers, KeepOffHighMap
  PROVE  Spec /\ [][MemoryLasts]_vars => []HighIdentity
<1>1. Init => TreeInv
  BY TreeInit
<1>2. TreeInv /\ [MemoryLasts]_vars /\ [Next]_vars => TreeInv'
  BY TreeNext
<1>3. TreeInv => HighIdentity
  BY TreeHigh
<1> QED BY <1>1, <1>2, <1>3, PTL DEF Spec

\* Where that value reaches the end of the image, and only as long as memory
\* lasts, the page tables are a tree of frames that are
\* marked in the bitmap, and none of them is a page of the heap: map_addr_in
\* never makes a table of a frame that is in use.
THEOREM TreeSafe ==
  ASSUME Small, ImageMarked, KeepOffHighMap
  PROVE  Spec /\ [][MemoryLasts]_vars => []TablesAreTree
<1>1. Init => TreeInv
  BY TreeInit
<1>2. TreeInv /\ [MemoryLasts]_vars /\ [Next]_vars => TreeInv'
  BY TreeNext
<1> QED BY <1>1, <1>2, TreeIsTree, PTL DEF Spec

\* Under the same conditions mmu_translate, mmu_get_page and mmu_get_page_deep
\* agree on every page that callers or the heap use.
THEOREM LookupsSafe ==
  ASSUME Small, ImageMarked, KeepOffHighMap
  PROVE  Spec /\ [][MemoryLasts]_vars => []LookupsAgree
<1>1. Init => TreeInv
  BY TreeInit
<1>2. TreeInv /\ [MemoryLasts]_vars /\ [Next]_vars => TreeInv'
  BY TreeNext
<1>3. TreeInv => LookupsAgree
  BY TreeLookups
<1> QED BY <1>1, <1>2, <1>3, PTL DEF Spec

\* Under the same conditions map_addr maps the page it is called with and
\* changes no other mapping, and sbrk maps the next page of the heap.
THEOREM IsolationSafe ==
  ASSUME Small, ImageMarked, KeepOffHighMap, KeepOffKernel, HeapFits
  PROVE  Spec /\ [][MemoryLasts]_vars => []MapsIsolated
<1>1. Init => TreeInv /\ MapInv
  BY TreeInit, MapInit
<1>2. TreeInv /\ MapInv /\ [MemoryLasts]_vars /\ [Next]_vars => TreeInv' /\ MapInv'
  BY TreeNext, MapNext
<1>3. TreeInv /\ MapInv => MapsIsolated
  BY MapIsIsolated
<1> QED BY <1>1, <1>2, <1>3, PTL DEF Spec
=============================================================================
