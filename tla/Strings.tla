------------------------------ MODULE Strings ------------------------------
(***************************************************************************)
(* kernel/string.c as operators on a byte memory m.  Pointers are indices  *)
(* of m, loops are recursive functions over the position they have         *)
(* reached.  char is signed on x86_64, unsigned char where the code says.  *)
(***************************************************************************)
EXTENDS Integers, FiniteSets

NULL == -1

Char(b)         == IF b > 127 THEN b - 256 ELSE b    \* a byte read as char
UnsignedChar(c) == c % 256                           \* an int cast to unsigned char

memchr(m, s, c, n) ==
  LET at[p \in s..s+n] ==
        IF p = s + n THEN NULL ELSE IF m[p] = UnsignedChar(c) THEN p ELSE at[p + 1]
  IN at[s]

memcmp(m, s1, s2, n) ==
  LET from[i \in 0..n] ==
        IF i = n THEN 0
        ELSE IF m[s1 + i] # m[s2 + i] THEN m[s1 + i] - m[s2 + i] ELSE from[i + 1]
  IN from[0]

\* while (n--) *pd++ = *ps++
CopyUp(m, dest, src, n) ==
  LET after[i \in 0..n] ==
        IF i = 0 THEN m ELSE [after[i - 1] EXCEPT ![dest + i - 1] = after[i - 1][src + i - 1]]
  IN after[n]

\* while (n--) *--pd = *--ps, from the ends
CopyDown(m, dest, src, n) ==
  LET after[i \in 0..n] ==
        IF i = 0 THEN m ELSE [after[i - 1] EXCEPT ![dest + n - i] = after[i - 1][src + n - i]]
  IN after[n]

memcpy(m, dest, src, n) == CopyUp(m, dest, src, n)

\* Fault: the directions are exchanged.
memmove_Backwards(m, dest, src, n) ==
  IF dest <= src THEN CopyDown(m, dest, src, n) ELSE CopyUp(m, dest, src, n)

memmove(m, dest, src, n) ==
  IF dest <= src THEN CopyUp(m, dest, src, n) ELSE CopyDown(m, dest, src, n)

memset(m, s, c, n) == [p \in DOMAIN m |-> IF p \in s..s+n-1 THEN UnsignedChar(c) ELSE m[p]]

\* The asm statement of memset moves rdi and does not say so: a build that
\* returns the register returns the end.
memset_returns(s, n) == {s, s + n}

\* Callers pass strings that end within the memory.
strlen(m, s) ==
  LET size == Cardinality(DOMAIN m)
      from[n \in 0..size] == IF n = size \/ m[s + n] = 0 THEN n ELSE from[n + 1]
  IN from[0]

\* What a loop copies that stops behind the terminator or after n bytes
UpTo(m, src, n) ==
  LET from[i \in 0..n] == IF i = n THEN n ELSE IF m[src + i] = 0 THEN i + 1 ELSE from[i + 1]
  IN from[0]

strcpy(m, dest, src)     == CopyUp(m, dest, src, strlen(m, src) + 1)
strncpy(m, dest, src, n) == CopyUp(m, dest, src, UpTo(m, src, n))

\* while (*dest++) ; leaves dest behind the terminator, and that is where the
\* copy begins.
strcat(m, dest, src) == strcpy(m, dest + strlen(m, dest) + 1, src)

\* The terminator that follows n characters has no place in UpTo.
strncat(m, dest, src, n) ==
  LET to  == dest + strlen(m, dest) + 1
      len == UpTo(m, src, n)
      cpy == CopyUp(m, to, src, len)
  IN IF n = 0 THEN m
     ELSE IF m[src + len - 1] = 0 THEN cpy ELSE [cpy EXCEPT ![to + len] = 0]

strchr(m, s, c) ==
  LET at[p \in s..s+strlen(m, s)] ==
        IF m[p] = 0 THEN NULL ELSE IF Char(m[p]) = UnsignedChar(c) THEN p ELSE at[p + 1]
  IN at[s]

\* Fault: the first occurrence ends the search.
strrchr_First(m, s, c) == strchr(m, s, c)

\* ret at p: the last occurrence before p
strrchr(m, s, c) ==
  LET end == s + strlen(m, s)
      ret[p \in s..end] ==
        IF p = s THEN NULL
        ELSE IF Char(m[p - 1]) = UnsignedChar(c) THEN p - 1 ELSE ret[p - 1]
  IN ret[end]

\* Fault: bytes are compared as unsigned.
Order_Unsigned(a, b) == IF a = b THEN 0 ELSE IF a < b THEN -1 ELSE 1

\* Result for two bytes that differ, as char
Order(a, b) == IF a = b THEN 0 ELSE IF Char(a) < Char(b) THEN -1 ELSE 1

\* At most n characters; the end of either string ends the comparison with 0.
strncmp(m, s1, s2, n) ==
  LET from[i \in 0..n] ==
        IF i = n \/ m[s1 + i] = 0 \/ m[s2 + i] = 0 THEN 0
        ELSE IF m[s1 + i] # m[s2 + i] THEN Order(m[s1 + i], m[s2 + i]) ELSE from[i + 1]
  IN from[0]

strcmp(m, s1, s2) == strncmp(m, s1, s2, strlen(m, s1) + 1)

\* memcmp at every place of dom where the rest is long enough
strstr(m, dom, sub) ==
  LET len == strlen(m, sub)
      end == dom + strlen(m, dom)
      at[p \in dom..end+1] ==
        IF end - p < len THEN NULL ELSE IF memcmp(m, p, sub, len) = 0 THEN p ELSE at[p + 1]
  IN IF len = 0 THEN dom ELSE at[dom]
=============================================================================
