------------------------------ MODULE Library ------------------------------
(***************************************************************************)
(* Functions of kernel/stdlibc.c and the page arithmetic of mem.c that the  *)
(* models of the file system and of the memory map call.  A char array is a *)
(* sequence of character codes.  No caller comes near 2^32, so the uint32_t *)
(* arithmetic does not wrap.                                               *)
(***************************************************************************)
EXTENDS Integers, Sequences

NUL  == 0
SP   == 32

-----------------------------------------------------------------------------
roundup(x, n)   == IF x % n = 0 THEN x ELSE n * (x \div n) + n
rounddown(x, n) == (x \div n) * n

MEM_PAGE_SIZE == 4096
mem_npage(size) == roundup(size, MEM_PAGE_SIZE) \div MEM_PAGE_SIZE

-----------------------------------------------------------------------------
\* strncmp(): the difference at the place where its loop stops, the end of one
\* of the strings, the first difference or the n-th character.
strncmp_short(s1, s2, n) ==                                        \* mutant
  LET Stops(i) == s1[i] = NUL \/ s2[i] = NUL \/ i + 1 >= n \/ s1[i] # s2[i]
      i == CHOOSE i \in DOMAIN s1 : Stops(i) /\ \A j \in 1 .. i - 1 : ~Stops(j)
  IN  s1[i] - s2[i]
strncmp(s1, s2, n) ==
  LET Stops(i) == s1[i] = NUL \/ s2[i] = NUL \/ i >= n \/ s1[i] # s2[i]
      i == CHOOSE i \in DOMAIN s1 : Stops(i) /\ \A j \in 1 .. i - 1 : ~Stops(j)
  IN  s1[i] - s2[i]
=============================================================================
