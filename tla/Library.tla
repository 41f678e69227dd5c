------------------------------ MODULE Library ------------------------------
(***************************************************************************)
(* Kernel code that calls the functions without state of their own: those  *)
(* of string.c on a byte memory, itoa, and the Multiboot parser.  "call"   *)
(* is the last call with its arguments and its result, "before" the memory *)
(* before it; the properties compare them with definitions of what the     *)
(* function is for, none of which is a loop.                               *)
(***************************************************************************)
EXTENDS Strings, Printk, Multiboot

CONSTANTS
  SIZE,        \* bytes of memory
  Bytes,       \* values of a byte
  Ints,        \* values of an int parameter c
  Numbers,     \* arguments of itoa
  Infos,       \* lists of tags the loader may pass
  TagTypes     \* tags looked for

ASSUME ByteAssumption == SIZE \in Nat /\ Bytes \subseteq 0..255 /\ Ints \subseteq Int

\* A number of 64 bits has at most 20 digits.
ASSUME NumberAssumption ==
  /\ Numbers \subseteq Nat
  /\ \A num \in Numbers, base \in {10, 16} : Len(Remainders(num, base)) <= 20

\* What a boot loader passes: tags that the only end tag ends, at most one of
\* them a memory map.  Nobody looks for the end tag.
ASSUME InfoAssumption ==
  /\ MULTIBOOT_TAG_TYPE_END \notin TagTypes
  /\ \A tags \in Infos :
       /\ Len(tags) \in Nat \ {0} /\ DOMAIN tags = 1..Len(tags)
       /\ \A i \in DOMAIN tags :
            /\ tags[i].size \in Nat \ {0}
            /\ tags[i].type = MULTIBOOT_TAG_TYPE_END <=> i = Len(tags)
            /\ tags[i].type = MULTIBOOT_TAG_TYPE_MMAP =>
                 /\ tags[i] = mmap_tag(tags[i].entries)
                 /\ tags[i].entries \in Seq([addr : Nat, len : Nat, type : Nat])
                 /\ \A j \in DOMAIN tags : tags[j].type = MULTIBOOT_TAG_TYPE_MMAP => j = i

Addr == 0..SIZE-1
None == [fn |-> "none"]

VARIABLES mem, call, before
vars == <<mem, call, before>>

Init == mem \in [Addr -> Bytes] /\ call = None /\ before = mem

-----------------------------------------------------------------------------
(* What callers owe                                                        *)

Fits(p, n)     == p + n <= SIZE
Terminated(s)  == \E p \in Addr : p >= s /\ mem[p] = 0
Apart(a, b, n) == a + n <= b \/ b + n <= a
\* Room for a string of length n at dest, apart from a source of that length
Room(dest, src, n) == Fits(dest, n) /\ Apart(dest, src, n)

\* The call c is made: it leaves the memory m.
Returns(c, m) == call' = c /\ before' = mem /\ mem' = m

\* The result has been used.
Done == call # None /\ call' = None /\ before' = mem /\ UNCHANGED mem

Search ==
  \E s \in Addr, c \in Ints, n \in 0..SIZE :
    \/ /\ Fits(s, n)
       /\ Returns([fn |-> "memchr", s |-> s, c |-> c, n |-> n, ret |-> memchr(mem, s, c, n)], mem)
    \/ /\ n = 0 /\ Terminated(s)
       /\ \/ Returns([fn |-> "strchr", s |-> s, c |-> c, ret |-> strchr(mem, s, c)], mem)
          \/ Returns([fn |-> "strrchr", s |-> s, c |-> c, ret |-> strrchr(mem, s, c)], mem)

Substring ==
  \E dom \in Addr, sub \in Addr :
    /\ Terminated(dom) /\ Terminated(sub)
    /\ Returns([fn |-> "strstr", s |-> dom, sub |-> sub, ret |-> strstr(mem, dom, sub)], mem)

Compare ==
  \E a \in Addr, b \in Addr, n \in 0..SIZE :
    \/ /\ Fits(a, n) /\ Fits(b, n)
       /\ Returns([fn |-> "memcmp", a |-> a, b |-> b, n |-> n, ret |-> memcmp(mem, a, b, n)], mem)
    \/ /\ Terminated(a) /\ Terminated(b)
       /\ \/ Returns([fn |-> "strncmp", a |-> a, b |-> b, n |-> n,
                      ret |-> strncmp(mem, a, b, n)], mem)
          \/ /\ n = SIZE
             /\ Returns([fn |-> "strcmp", a |-> a, b |-> b, n |-> n,
                         ret |-> strcmp(mem, a, b)], mem)

Move ==
  \E dest \in Addr, src \in Addr, n \in 0..SIZE :
    LET c(fn) == [fn |-> fn, dest |-> dest, src |-> src, n |-> n, ret |-> dest]
    IN /\ Fits(dest, n) /\ Fits(src, n)
       /\ \/ Apart(dest, src, n) /\ Returns(c("memcpy"), memcpy(mem, dest, src, n))
          \/ Returns(c("memmove"), memmove(mem, dest, src, n))

Fill ==
  \E s \in Addr, c \in Ints, n \in 0..SIZE :
    /\ Fits(s, n)
    /\ \E ret \in memset_returns(s, n) :
         Returns([fn |-> "memset", dest |-> s, c |-> c, n |-> n, ret |-> ret],
                 memset(mem, s, c, n))

CopyString ==
  \E dest \in Addr, src \in Addr, n \in 0..SIZE :
    LET c(fn) == [fn |-> fn, dest |-> dest, src |-> src, n |-> n, ret |-> dest]
    IN /\ Terminated(src)
       /\ \/ /\ n = strlen(mem, src) + 1 /\ Room(dest, src, n)
             /\ Returns(c("strcpy"), strcpy(mem, dest, src))
          \/ /\ Room(dest, src, n)
             /\ Returns(c("strncpy"), strncpy(mem, dest, src, n))

Concatenate ==
  \E dest \in Addr, src \in Addr, n \in 0..SIZE :
    LET c(fn) == [fn |-> fn, dest |-> dest, src |-> src, n |-> n, ret |-> dest]
    IN /\ Terminated(src) /\ Terminated(dest)
       /\ Room(dest, src, strlen(mem, dest) + strlen(mem, src) + 2)
       /\ \/ n = SIZE /\ Returns(c("strcat"), strcat(mem, dest, src))
          \/ Returns(c("strncat"), strncat(mem, dest, src, n))

Number ==
  \E num \in Numbers, base \in {10, 16}, below \in {NUL, "?"} :
    Returns([fn |-> "itoa", num |-> num, base |-> base, below |-> below,
             ret |-> Text(itoa(ZeroBuffer(below), num, base))], mem)

FindTag ==
  \E tags \in Infos, t \in TagTypes :
    Returns([fn |-> "find_tag", tags |-> tags, type |-> t,
             ret |-> multiboot_find_tag(tags, t)], mem)

MemoryEnd ==
  \E tags \in Infos :
    /\ \E i \in DOMAIN tags : tags[i].type = MULTIBOOT_TAG_TYPE_MMAP
    /\ Returns([fn |-> "memory_end", tags |-> tags,
                ret |-> multiboot_get_memory_end(tags)], mem)

\* Calls that do not look at the memory are made once, with all of it zero.
Next ==
  \/ /\ call = None
     /\ \/ Search \/ Substring \/ Compare \/ Move \/ Fill \/ CopyString \/ Concatenate
        \/ mem = [p \in Addr |-> 0] /\ (Number \/ FindTag \/ MemoryEnd)
  \/ Done

Spec == Init /\ [][Next]_vars

\* A caller that has its result goes on.
FairSpec == Spec /\ WF_vars(Done)

-----------------------------------------------------------------------------
(* Properties                                                              *)

FirstOf(S) == IF S = {} THEN NULL ELSE CHOOSE p \in S : \A q \in S : p <= q
LastOf(S)  == IF S = {} THEN NULL ELSE CHOOSE p \in S : \A q \in S : q <= p
\* Places of the characters of the string at s, before the call
Characters(s) == {p \in Addr : p >= s /\ \A q \in s..p : before[q] # 0}
Length(s)     == Cardinality(Characters(s))

\* The places of S that hold the character looked for
Places(S) == {p \in S : before[p] = call.c % 256}

\* memchr, strchr, strrchr and strstr return the first (the last) place where
\* what they look for is, and NULL when it is nowhere, at every length and up
\* to the last byte.  Of strchr and strrchr it speaks for characters below 128
\* only: FindsEveryByte is about the others.
SearchRight ==
  /\ call.fn = "memchr" => call.ret = FirstOf(Places(call.s..call.s+call.n-1))
  /\ call.fn = "strchr" /\ call.c % 256 < 128 =>
       call.ret = FirstOf(Places(Characters(call.s)))
  /\ call.fn = "strrchr" /\ call.c % 256 < 128 =>
       call.ret = LastOf(Places(Characters(call.s)))
  /\ call.fn = "strstr" =>
       call.ret = FirstOf({p \in call.s..call.s+Length(call.s)-Length(call.sub) :
                           \A i \in 0..Length(call.sub)-1 :
                             before[p + i] = before[call.sub + i]})

\* "Search in S for C until NUL byte" (string.c:109), "Find the last occurrence
\* of C in S" (string.c:181): the same of strchr and strrchr for every byte.
FindsEveryByte ==
  /\ call.fn = "strchr"  => call.ret = FirstOf(Places(Characters(call.s)))
  /\ call.fn = "strrchr" => call.ret = LastOf(Places(Characters(call.s)))

\* memcmp, strcmp and strncmp decide by the first difference: memcmp by unsigned
\* bytes, the others by signed ones and only among characters both strings
\* have, so that a string equals every longer one that begins with it.
CompareRight ==
  LET shared == IF call.fn = "memcmp" THEN call.n
                ELSE CHOOSE k \in 0..SIZE :
                       /\ k <= call.n /\ k <= Length(call.a) /\ k <= Length(call.b)
                       /\ k \in {call.n, Length(call.a), Length(call.b)}
      A(i) == before[call.a + i]
      B(i) == before[call.b + i]
      diff == FirstOf({i \in 0..shared-1 : A(i) # B(i)})
      Less == IF call.fn = "memcmp" THEN A(diff) < B(diff)
              ELSE (A(diff) > 127 /\ B(diff) < 128)
                     \/ ((A(diff) > 127 <=> B(diff) > 127) /\ A(diff) < B(diff))
  IN call.fn \in {"memcmp", "strcmp", "strncmp"} =>
       /\ call.ret = 0 <=> diff = NULL
       /\ call.ret < 0 <=> diff # NULL /\ Less

\* The functions that store leave at the destination what the source held
\* BEFORE the call, memmove also where the two overlap, and touch nothing else;
\* the others touch nothing at all.
StoreRight ==
  LET whole  == Length(call.src) + 1       \* the source with its terminator
      copied == IF call.fn \in {"strcpy", "strncpy"} /\ whole < call.n
                THEN whole ELSE call.n
  IN /\ call.fn \in {"memcpy", "memmove", "strcpy", "strncpy"} =>
          /\ call.ret = call.dest
          /\ \A p \in Addr :
               mem[p] = IF p \in call.dest..call.dest+copied-1
                        THEN before[call.src + p - call.dest] ELSE before[p]
     /\ call.fn \in {"memchr", "memcmp", "strchr", "strrchr", "strstr", "strcmp", "strncmp"} =>
          mem = before

\* "Append SRC onto DEST" (string.c:78), "Append no more than N characters from
\* SRC onto DEST." (string.c:91): behind the characters of dest come those of
\* src, and the terminator.
Appends ==
  call.fn \in {"strcat", "strncat"} =>
    LET len == IF call.n < Length(call.src) THEN call.n ELSE Length(call.src)
        end == call.dest + Length(call.dest)
    IN /\ \A i \in 0..len-1 : mem[end + i] = before[call.src + i]
       /\ mem[end + len] = 0

DigitValue(c) == (CHOOSE i \in 1..16 : digits[i] = c) - 1

\* What vprintk prints of a number where the byte below the buffer is 0: its
\* digits, most significant first and without leading zeros.
ItoaRight ==
  call.fn = "itoa" /\ call.below = NUL =>
    LET len == Len(call.ret)
        value[i \in 0..len] ==
          IF i = 0 THEN 0 ELSE value[i - 1] * call.base + DigitValue(call.ret[i])
    IN /\ value[len] = call.num
       /\ len > 1 => call.ret[1] # "0"

\* "\0 is not a part of buf" (printk.c:24): the reversal leaves the terminator
\* behind the digits, whatever byte lies below the buffer.
OnlyDigits ==
  call.fn = "itoa" =>
    \A i \in DOMAIN call.ret : \E d \in 1..16 : call.ret[i] = digits[d]

\* multiboot_find_tag returns the first tag of the type, and NULL exactly when
\* there is none, whatever the sizes of the tags before it.
TagFound ==
  call.fn = "find_tag" =>
    LET hits == {i \in DOMAIN call.tags : call.tags[i].type = call.type}
    IN call.ret = IF hits = {} THEN NO_TAG ELSE FirstOf(hits)

MemoryMap(tags) ==
  tags[CHOOSE i \in DOMAIN tags : tags[i].type = MULTIBOOT_TAG_TYPE_MMAP].entries
Available(map) == {i \in DOMAIN map : map[i].type = MULTIBOOT_MEMORY_AVAILABLE}

\* The end of memory is never beyond real memory: it is the last byte of an
\* available region, or 0.  page_allocator_init hands out frames up to it.
MemoryEndReal ==
  call.fn = "memory_end" =>
    LET map == MemoryMap(call.tags)
    IN call.ret \in {LastByte(map[i]) : i \in Available(map)} \union {0}

\* "Highest physicall address available" (kmain.c:26), on the machines the
\* parser's comment assumes: one contiguous block behind the first MiB.
MemoryEndHighest ==
  call.fn = "memory_end" =>
    LET map  == MemoryMap(call.tags)
        high == {i \in Available(map) : map[i].addr >= 1024}
    IN Cardinality(high) = 1 => \A i \in high : call.ret = LastByte(map[i])

\* At least one of these four comments is right about all calls.  A behaviour
\* that violates this refutes every one of them.
SomeCommentHolds ==
  []FindsEveryByte \/ []Appends \/ []OnlyDigits \/ []MemoryEndHighest
=============================================================================
