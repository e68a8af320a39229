-------------------------------- MODULE Strings -------------------------------
(***************************************************************************)
(* The string and memory functions of string.c on a memory of a few bytes. *)
(* A call takes any arguments its contract allows; its loops are recursive *)
(* functions of their variables that access one byte at a time in the      *)
(* order of the code, and a byte outside the memory does not exist.  Only  *)
(* strtok() and strsep() are called repeatedly: they keep a pointer        *)
(* between the calls.                                                      *)
(***************************************************************************)
EXTENDS Bits, Sequences, SequencesExt

CONSTANTS MemSize,            \* bytes of memory, the last of which is 0
          CharBits,           \* bits of a char: 8
          Blanks,             \* characters that are isspace()
          Lower,              \* tolower(), a function on the characters
          InvShort, InvChunk  \* memchr_inv(): 16 bytes and chunks of 8

Chars == 0 .. Pow2[CharBits] - 1
NonNul == Chars \ {0}
Addr == 0 .. MemSize - 1
Mem == [Addr -> Chars]
Null == -1
NoLimit == MemSize + 1   \* bytes, and a NUL is met before

ASSUME StringMemory == /\ MemSize \in Nat \ {0} /\ CharBits \in Nat \ {0}
                       /\ InvShort \in Nat /\ InvChunk \in Nat \ {0} /\ InvChunk <= InvShort
ASSUME StringChars == /\ Blanks \subseteq NonNul /\ Lower \in [Chars -> Chars]
                      /\ \A c \in Chars : (Lower[c] = 0) <=> (c = 0)

VARIABLE st

SignedChar(x) == LET y == x % Pow2[CharBits]
                 IN IF y >= Pow2[CharBits - 1] THEN y - Pow2[CharBits] ELSE y

-----------------------------------------------------------------------------
(* Reading. *)

(* From p on, n bytes at most, to the first that is one of C; and down.    *)
Seeks == [m : Mem, p : Int, n : Nat, C : SUBSET Chars]
Seek[r \in Seeks] ==
  IF r.n = 0 \/ r.m[r.p] \in r.C THEN r.p
  ELSE Seek[[m |-> r.m, p |-> r.p + 1, n |-> r.n - 1, C |-> r.C]]
SeekDown[r \in Seeks] ==
  IF r.n = 0 \/ r.m[r.p] \in r.C THEN r.p
  ELSE SeekDown[[m |-> r.m, p |-> r.p - 1, n |-> r.n - 1, C |-> r.C]]

Within(m, p, n, C) == Seek[[m |-> m, p |-> p, n |-> n, C |-> C]]
Until(m, p, C) == Within(m, p, NoLimit, C)
DownTo(m, p, e, C) == SeekDown[[m |-> m, p |-> e, n |-> e - p + 1, C |-> C]]

Strlen(m, s) == Until(m, s, {0}) - s
Strnlen(m, s, count) == Within(m, s, count, {0}) - s
Strchr(m, s, c) == LET p == Until(m, s, {c, 0}) IN IF m[p] = c THEN p ELSE Null
Strrchr(m, s, c) ==
  LET p == DownTo(m, s, s + Strlen(m, s), {c}) IN IF p >= s THEN p ELSE Null

(* The inner loops of strspn() and strpbrk().                              *)
Among(m, c, a) == m[Until(m, a, {c, 0})] # 0
Strspn(m, s, accept) == Until(m, s, {c \in Chars : c = 0 \/ ~Among(m, c, accept)}) - s
Strpbrk(m, s, ct) ==
  LET p == Until(m, s, {c \in Chars : c = 0 \/ Among(m, c, ct)}) IN IF m[p] = 0 THEN Null ELSE p

Memscan(m, s, c, n) == Within(m, s, n, {c})
Memchr(m, s, c, n) == LET p == Within(m, s, n, {c}) IN IF p = s + n THEN Null ELSE p
CheckBytes(m, s, c, n) ==
  LET p == Within(m, s, n, Chars \ {c}) IN IF p = s + n THEN Null ELSE p

(* Whole chunks, compared as one word, and the rest.                       *)
Areas == [m : Mem, p : Int, c : Chars, n : Nat]
CheckChunks[r \in Areas] ==
  IF r.n < InvChunk THEN CheckBytes(r.m, r.p, r.c, r.n)
  ELSE IF \E k \in 0 .. InvChunk - 1 : r.m[r.p + k] # r.c
  THEN CheckBytes(r.m, r.p, r.c, InvChunk)
  ELSE CheckChunks[[m |-> r.m, p |-> r.p + InvChunk, c |-> r.c, n |-> r.n - InvChunk]]
MemchrInv(m, s, c, n) ==
  LET prefix == (InvChunk - (s % InvChunk)) % InvChunk
      early == CheckBytes(m, s, c, prefix)
  IN IF n <= InvShort THEN CheckBytes(m, s, c, n)
     ELSE IF early # Null THEN early
     ELSE CheckChunks[[m |-> m, p |-> s + prefix, c |-> c, n |-> n - prefix]]

SkipSpaces(m, s) == Until(m, s, Chars \ Blanks)

(* Two areas, n bytes at most, to the first pair that is not the same      *)
(* under fold, or is one of end.                                           *)
Pairs == [m : Mem, a : Int, b : Int, n : Nat, fold : [Chars -> Chars], end : SUBSET Chars]
Agree[r \in Pairs] ==
  IF r.n = 0 \/ r.fold[r.m[r.a]] # r.fold[r.m[r.b]] \/ r.m[r.a] \in r.end THEN r
  ELSE Agree[[m |-> r.m, a |-> r.a + 1, b |-> r.b + 1, n |-> r.n - 1, fold |-> r.fold,
              end |-> r.end]]
Parting(m, a, b, n, fold, end) ==
  Agree[[m |-> m, a |-> a, b |-> b, n |-> n, fold |-> fold, end |-> end]]
Itself == [c \in Chars |-> c]

Memcmp(m, a, b, n) ==
  LET r == Parting(m, a, b, n, Itself, {}) IN IF r.n = 0 THEN 0 ELSE m[r.a] - m[r.b]

(* The difference is kept in a signed char.                                *)
Strncmp(m, a, b, n) ==
  LET r == Parting(m, a, b, n, Itself, {0}) IN IF r.n = 0 THEN 0 ELSE SignedChar(m[r.a] - m[r.b])
Strcmp(m, a, b) == Strncmp(m, a, b, NoLimit)

Strncasecmp(m, a, b, n) ==   \* 0 wraps: no limit
  LET r == Parting(m, a, b, IF n = 0 THEN NoLimit ELSE n, Lower, {0})
  IN IF r.n = 0 THEN 0 ELSE Lower[m[r.a]] - Lower[m[r.b]]
Strcasecmp(m, a, b) == Strncasecmp(m, a, b, 0)

(* Characters behind which a string ends are compared as they are.         *)
Strnicmp(m, a, b, n) ==
  LET r == Parting(m, a, b, n, Lower, {0})
  IN IF r.n = 0 THEN 0
     ELSE IF m[r.a] = 0 \/ m[r.b] = 0 THEN m[r.a] - m[r.b]
     ELSE Lower[m[r.a]] - Lower[m[r.b]]

(* l1 is what is left of the string, l2 the length of the one looked for.  *)
Substrings == [m : Mem, s : Int, t : Int, l1 : Nat, l2 : Nat \ {0}]
StrstrFrom[r \in Substrings] ==
  IF r.l1 < r.l2 THEN Null
  ELSE IF Memcmp(r.m, r.s, r.t, r.l2) = 0 THEN r.s
  ELSE StrstrFrom[[m |-> r.m, s |-> r.s + 1, t |-> r.t, l1 |-> r.l1 - 1, l2 |-> r.l2]]
Strstr(m, s, t) ==
  IF Strlen(m, t) = 0 THEN s
  ELSE StrstrFrom[[m |-> m, s |-> s, t |-> t, l1 |-> Strlen(m, s), l2 |-> Strlen(m, t)]]

-----------------------------------------------------------------------------
(* Writing. *)

Store(m, p, c) == [m EXCEPT ![p] = c]

(* n bytes at most, going on behind those of on.                           *)
Moves == [m : Mem, d : Int, s : Int, n : Nat, on : SUBSET Chars]
Copied(r) == Store(r.m, r.d, r.m[r.s])
Copy[r \in Moves] ==
  IF r.n = 0 THEN r
  ELSE IF r.m[r.s] \in r.on
  THEN Copy[[m |-> Copied(r), d |-> r.d + 1, s |-> r.s + 1, n |-> r.n - 1, on |-> r.on]]
  ELSE [m |-> Copied(r), d |-> r.d, s |-> r.s, n |-> r.n, on |-> r.on]
Move(m, d, s, n, on) == Copy[[m |-> m, d |-> d, s |-> s, n |-> n, on |-> on]]

(* From the last byte down.                                                *)
Blocks == {r \in [m : Mem, d : Int, s : Nat, n : Nat] : r.s + r.n <= MemSize}
CopyDown[r \in Blocks] ==
  IF r.n = 0 THEN r.m
  ELSE CopyDown[[m |-> Store(r.m, r.d + r.n - 1, r.m[r.s + r.n - 1]), d |-> r.d, s |-> r.s,
                 n |-> r.n - 1]]

Strncpy(m, d, s, count) == Move(m, d, s, count, NonNul).m
Strcpy(m, d, s) == Strncpy(m, d, s, NoLimit)
Strcat(m, d, s) == Strcpy(m, d + Strlen(m, d), s)
Strncat(m, d, s, count) ==
  LET r == Move(m, d + Strlen(m, d), s, count, NonNul)
  IN IF count = 0 THEN m ELSE IF r.n = 0 THEN Store(r.m, r.d, 0) ELSE r.m

Memcpy(m, d, s, n) == Move(m, d, s, n, Chars).m
MemmoveBug(m, d, s, n) == Memcpy(m, d, s, n)
Memmove(m, d, s, n) ==
  IF d <= s THEN Memcpy(m, d, s, n) ELSE CopyDown[[m |-> m, d |-> d, s |-> s, n |-> n]]

Strlcpy(m, d, s, size) ==
  LET ret == Strlen(m, s)
      len == IF ret >= size THEN size - 1 ELSE ret
  IN IF size = 0 THEN m ELSE Store(Memcpy(m, d, s, len), d + len, 0)

Fill[r \in Areas] ==
  IF r.n = 0 THEN r.m
  ELSE Fill[[m |-> Store(r.m, r.p, r.c), p |-> r.p + 1, c |-> r.c, n |-> r.n - 1]]
Memset(m, s, c, n) == Fill[[m |-> m, p |-> s, c |-> c, n |-> n]]

(* n pairs at most. *)
Swabs == [m : Mem, p : Int, n : Nat]
Swab[r \in Swabs] ==
  IF r.n > 0 /\ r.m[r.p] \in NonNul /\ r.m[r.p + 1] \in NonNul
  THEN Swab[[m |-> Store(Store(r.m, r.p, r.m[r.p + 1]), r.p + 1, r.m[r.p]), p |-> r.p + 2,
             n |-> r.n - 1]]
  ELSE r.m
Strswab(m, p) == Swab[[m |-> m, p |-> p, n |-> NoLimit]]

Strim(m, s) ==
  LET t == SkipSpaces(m, s)
      end == DownTo(m, t, t + Strlen(m, t) - 1, Chars \ Blanks)
  IN IF m[t] = 0 THEN m ELSE Store(m, end + 1, 0)

-----------------------------------------------------------------------------
(* The calls. *)

Holding(m) == [fn |-> "none", m |-> m, old |-> m, d |-> 0, s |-> 0, n |-> 0, ret |-> Null,
               next |-> Null, toks |-> <<>>]

StringsInit == \E m \in Mem : m[MemSize - 1] = 0 /\ st = Holding(m)

Answers(fn, d, s, n, m, ret, next, toks) ==
  st' = [fn |-> fn, m |-> m, old |-> st.old, d |-> d, s |-> s, n |-> n, ret |-> ret,
         next |-> next, toks |-> toks]
Called(fn, d, s, n, m, ret) == Answers(fn, d, s, n, m, ret, Null, <<>>)

Fresh == st.fn = "none"
Apart(d, k, s, l) == d + k <= s \/ s + l <= d
Size(s) == Strlen(st.m, s) + 1
Fits(d, k) == d + k <= MemSize

Copying(d, s, n) ==
  LET some == IF n < Size(s) THEN n ELSE Size(s)
      more == Strlen(st.m, d) + (IF n < Size(s) THEN n + 1 ELSE Size(s))
  IN
  \/ /\ n = 0 /\ Fits(d, Size(s)) /\ Apart(d, Size(s), s, Size(s))
     /\ Called("strcpy", d, s, n, Strcpy(st.m, d, s), d)
  \/ /\ Fits(d, some) /\ Apart(d, some, s, some)
     /\ Called("strncpy", d, s, n, Strncpy(st.m, d, s, n), d)
  \/ /\ Fits(d, n) /\ Apart(d, n, s, Size(s))
     /\ Called("strlcpy", d, s, n, Strlcpy(st.m, d, s, n), Strlen(st.m, s))
  \/ /\ n = 0 /\ Fits(d, Size(d) + Size(s) - 1) /\ Apart(d, Size(d) + Size(s) - 1, s, Size(s))
     /\ Called("strcat", d, s, n, Strcat(st.m, d, s), d)
  \/ /\ Fits(d, more) /\ Apart(d, more, s, Size(s))
     /\ Called("strncat", d, s, n, Strncat(st.m, d, s, n), d)
  \/ /\ Fits(d, n) /\ Fits(s, n) /\ Apart(d, n, s, n)
     /\ Called("memcpy", d, s, n, Memcpy(st.m, d, s, n), d)
  \/ /\ Fits(d, n) /\ Fits(s, n)
     /\ Called("memmove", d, s, n, Memmove(st.m, d, s, n), d)
Copies == Fresh /\ \E d, s \in Addr, n \in 0 .. MemSize : Copying(d, s, n)

Changes ==
  /\ Fresh
  /\ \/ \E d \in Addr, c \in Chars, n \in 0 .. MemSize :
          Fits(d, n) /\ Called("memset", d, c, n, Memset(st.m, d, c, n), d)
     \/ \E d \in Addr :
          \/ Called("strswab", d, 0, 0, Strswab(st.m, d), IF st.m[d] = 0 THEN Null ELSE d)
          \/ Called("strim", d, 0, 0, Strim(st.m, d), SkipSpaces(st.m, d))

Compares ==
  /\ Fresh
  /\ \E a, b \in Addr, n \in 0 .. MemSize :
       LET Read(fn, ret) == Called(fn, a, b, n, st.m, ret) IN
       \/ n = 0 /\ Read("strcmp", Strcmp(st.m, a, b))
       \/ Read("strncmp", Strncmp(st.m, a, b, n))
       \/ n = 0 /\ Read("strcasecmp", Strcasecmp(st.m, a, b))
       \/ n > 0 /\ Read("strncasecmp", Strncasecmp(st.m, a, b, n))
       \/ Read("strnicmp", Strnicmp(st.m, a, b, n))
       \/ Fits(a, n) /\ Fits(b, n) /\ Read("memcmp", Memcmp(st.m, a, b, n))

Searches ==
  /\ Fresh
  /\ \/ \E a, b \in Addr :
          LET Read(fn, ret) == Called(fn, a, b, 0, st.m, ret) IN
          \/ Read("strstr", Strstr(st.m, a, b))
          \/ Read("strspn", Strspn(st.m, a, b))
          \/ Read("strpbrk", Strpbrk(st.m, a, b))
     \/ \E a \in Addr, c \in Chars, n \in 0 .. MemSize :
          LET Read(fn, ret) == Called(fn, a, c, n, st.m, ret) IN
          \/ n = 0 /\ Read("strchr", Strchr(st.m, a, c))
          \/ n = 0 /\ Read("strrchr", Strrchr(st.m, a, c))
          \/ c = 0 /\ Fits(a, n) /\ Read("strnlen", Strnlen(st.m, a, n))
          \/ Fits(a, n) /\ Read("memchr", Memchr(st.m, a, c, n))
          \/ Fits(a, n) /\ Read("memscan", Memscan(st.m, a, c, n))
          \/ Fits(a, n) /\ Read("memchr_inv", MemchrInv(st.m, a, c, n))

(* strtok(): skip separators, then cut behind the token; the rest is kept  *)
(* in ___strtok.  strsep(): cut at the next separator.                     *)
Cut(p, s) ==
  LET end == Strpbrk(st.m, p, s)
  IN [m |-> IF end = Null THEN st.m ELSE Store(st.m, end, 0),
      next |-> IF end = Null THEN Null ELSE end + 1]

Token(fn, d, s, p) ==
  LET begin == IF fn = "strtok" THEN p + Strspn(st.m, p, s) ELSE p
      cut == Cut(begin, s)
  IN IF fn = "strtok" /\ st.m[begin] = 0
     THEN Answers(fn, d, s, 0, st.m, Null, Null, st.toks)
     ELSE Answers(fn, d, s, 0, cut.m, begin, cut.next, Append(st.toks, begin))

TokenFirst ==
  /\ Fresh
  /\ \E d, s \in Addr, fn \in {"strtok", "strsep"} :
       Apart(d, Size(d), s, Size(s)) /\ Token(fn, d, s, d)

TokenNext ==
  /\ st.fn \in {"strtok", "strsep"} /\ st.ret # Null
  /\ IF st.next = Null THEN Answers(st.fn, st.d, st.s, 0, st.m, Null, Null, st.toks)
     ELSE Token(st.fn, st.d, st.s, st.next)

StringsNext == Copies \/ Changes \/ Compares \/ Searches \/ TokenFirst \/ TokenNext

StringsSpec == StringsInit /\ [][StringsNext]_st

-----------------------------------------------------------------------------
(* What the functions are for, in terms of sequences. *)

Bytes(m, p, n) == [k \in 1 .. n |-> m[p + k - 1]]
StrAt(m, p) == Bytes(m, p, Strlen(m, p))
Lowered(s) == [k \in 1 .. Len(s) |-> Lower[s[k]]]
FirstOf(s, n) == SubSeq(s, 1, IF n < Len(s) THEN n ELSE Len(s))
Least(S) == IF S = {} THEN Null ELSE CHOOSE x \in S : \A y \in S : x <= y

(* Exactly the bytes text were written at p. *)
Wrote(old, new, p, text) ==
  new = [x \in Addr |-> IF x >= p /\ x < p + Len(text) THEN text[x - p + 1] ELSE old[x]]
WroteOnly(p, text) == Wrote(st.old, st.m, p, text)

CopiesExact ==
  LET src == StrAt(st.old, st.s)
      dst == StrAt(st.old, st.d)
  IN
  CASE st.fn = "strcpy" -> WroteOnly(st.d, src \o <<0>>)
    [] st.fn = "strncpy" -> WroteOnly(st.d, FirstOf(src \o <<0>>, st.n))
    [] st.fn = "strlcpy" -> /\ st.n > 0 => WroteOnly(st.d, FirstOf(src, st.n - 1) \o <<0>>)
                            /\ st.n = 0 => st.m = st.old
                            /\ st.ret = Len(src)
    [] st.fn = "strcat" -> WroteOnly(st.d, dst \o src \o <<0>>)
    [] st.fn = "strncat" -> WroteOnly(st.d, dst \o FirstOf(src, st.n) \o <<0>>)
    [] st.fn \in {"memcpy", "memmove"} -> WroteOnly(st.d, Bytes(st.old, st.s, st.n))
    [] st.fn = "memset" -> WroteOnly(st.d, [k \in 1 .. st.n |-> st.s])
    [] st.fn = "strswab" ->
         WroteOnly(st.d, [k \in 1 .. Len(dst) |->
                            IF k % 2 = 0 THEN dst[k - 1]
                            ELSE IF k < Len(dst) THEN dst[k + 1] ELSE dst[k]])
    [] st.fn = "strim" ->   \* the text without its blanks
         LET text == StrAt(st.m, st.ret)
             solid == {k \in 1 .. Len(dst) : dst[k] \notin Blanks}
         IN /\ text = IF solid = {} THEN <<>>
                      ELSE SubSeq(dst, Least(solid), CHOOSE k \in solid : \A j \in solid : j <= k)
            /\ \A x \in Addr : st.m[x] # st.old[x] => st.m[x] = 0
    [] OTHER -> TRUE

(* The searches and comparisons. *)
ReadsExact ==
  LET a == StrAt(st.old, st.d)
      Found(S) == st.ret = Least(S)
      Span == st.d .. st.d + Len(a)
      Area == st.d .. st.d + st.n - 1
      Same(x, y) == (st.ret = 0) <=> x = y
  IN
  CASE st.fn \in {"strcmp", "strncmp", "strcasecmp", "strncasecmp", "strnicmp"} ->
         LET b == StrAt(st.old, st.s) IN
         CASE st.fn = "strcmp" -> Same(a, b)
           [] st.fn = "strncmp" -> Same(FirstOf(a, st.n), FirstOf(b, st.n))
           [] st.fn = "strcasecmp" -> Same(Lowered(a), Lowered(b))
           [] OTHER -> Same(Lowered(FirstOf(a, st.n)), Lowered(FirstOf(b, st.n)))
    [] st.fn = "memcmp" ->
         LET differ == Least({k \in 0 .. st.n - 1 : st.m[st.d + k] # st.m[st.s + k]})
         IN IF differ = Null THEN st.ret = 0
            ELSE (st.ret > 0) <=> st.m[st.d + differ] > st.m[st.s + differ]
    [] st.fn = "strstr" ->
         LET b == StrAt(st.old, st.s)
         IN Found({p \in Span : p + Len(b) <= st.d + Len(a) /\ Bytes(st.m, p, Len(b)) = b})
    [] st.fn \in {"strspn", "strpbrk"} ->
         LET b == {c \in Chars : \E k \in 1 .. Len(StrAt(st.old, st.s)) : StrAt(st.old, st.s)[k] = c}
         IN IF st.fn = "strpbrk" THEN Found({p \in Span : st.m[p] \in b})
            ELSE st.ret = Least({k \in 0 .. Len(a) : k = Len(a) \/ a[k + 1] \notin b})
    [] st.fn = "strchr" -> Found({p \in Span : st.m[p] = st.s})
    [] st.fn = "strrchr" -> IF \E p \in Span : st.m[p] = st.s
                            THEN st.m[st.ret] = st.s /\ \A p \in Span : st.m[p] = st.s => p <= st.ret
                            ELSE st.ret = Null
    [] st.fn = "strnlen" -> st.ret = Len(FirstOf(a, st.n))
    [] st.fn = "memchr" -> Found({p \in Area : st.m[p] = st.s})
    [] st.fn = "memscan" -> Found({p \in Area : st.m[p] = st.s} \cup {st.d + st.n})
    [] st.fn = "memchr_inv" -> Found({p \in Area : st.m[p] # st.s})
    [] OTHER -> TRUE

(* When the tokens are at an end: strtok() has given every run of other    *)
(* characters, strsep() all that is between two separators; both have      *)
(* written nothing but NULs over separators.                               *)
TokensExact ==
  LET seps == {k \in Addr : Among(st.old, st.old[k], st.s)}
      last == st.d + Strlen(st.old, st.d)
      starts == {p \in st.d .. last :
                   IF st.fn = "strtok" THEN p < last /\ p \notin seps /\ (p > st.d => p - 1 \in seps)
                   ELSE p = st.d \/ p - 1 \in seps}
  IN st.fn \in {"strtok", "strsep"} =>
       /\ \A x \in Addr : st.m[x] # st.old[x] => x \in seps /\ x \in st.d .. last /\ st.m[x] = 0
       /\ \A k \in 1 .. Len(st.toks) :
            /\ st.toks[k] \in starts
            /\ k > 1 => st.toks[k] > st.toks[k - 1]
            /\ \A x \in st.toks[k] .. st.toks[k] + Strlen(st.m, st.toks[k]) - 1 : x \notin seps
       /\ st.ret = Null => ToSet(st.toks) = starts

(* Every function does to the memory, and returns, what its comment says   *)
(* of whole strings and areas, for overlapping areas where it allows them, *)
(* for lengths of 0, and without touching another byte.                    *)
StringsExact == CopiesExact /\ ReadsExact /\ TokensExact
=============================================================================
