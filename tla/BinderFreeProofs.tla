-------------------------- MODULE BinderFreeProofs --------------------------
(***************************************************************************)
(* What the allocator of the binder driver does when it frees a buffer:    *)
(* lists of buffers that tile the area, their pages, merging, and the      *)
(* account of the space for one-way calls.                                 *)
(***************************************************************************)
EXTENDS BinderAlloc, FiniteSetTheorems, WellFoundedInduction, TLAPS

\* The address at which page p begins, and the one at which buffer i ends.
Lo(p) == p * Page
EndOf(bufs, i) == IF i = Len(bufs) THEN AreaSize ELSE bufs[i + 1].at

Buffer == [at : Nat, free : BOOLEAN, size : Nat, async : BOOLEAN]

\* The buffers lie in the area one behind the other, and one that is in use has
\* no room for a header more than it was asked for.  The order is stated for any
\* two of them, not only for neighbours.
Tiled(bufs) ==
  /\ bufs \in Seq(Buffer) /\ bufs # <<>> /\ bufs[1].at = 0
  /\ \A j, k \in DOMAIN bufs : j < k => Data(bufs[j]) + bufs[j].size <= bufs[k].at
  /\ \A j \in DOMAIN bufs : Data(bufs[j]) + bufs[j].size <= AreaSize
  /\ \A j \in DOMAIN bufs : ~bufs[j].free => EndOf(bufs, j) <= Data(bufs[j]) + bufs[j].size + Header

\* No two neighbours are free.
Joined(bufs) == \A i \in DOMAIN bufs : i > 1 => ~(bufs[i - 1].free /\ bufs[i].free)

\* The header of a buffer, or what it holds, is on page p.
HeaderOn(b, p) == b.at < Lo(p) + Page /\ Lo(p) < Data(b)
DataOn(b, p) == ~b.free /\ b.size > 0 /\ Data(b) < Lo(p) + Page /\ Lo(p) < Data(b) + b.size
On(bufs, p) == \E j \in DOMAIN bufs : HeaderOn(bufs[j], p) \/ DataOn(bufs[j], p)
PagesOf(bufs) == {p \in Nat : On(bufs, p)}

\* Page p is between the header of buffer i and the next one.
Inside(bufs, i, p) == Data(bufs[i]) <= Lo(p) /\ Lo(p) + Page <= EndOf(bufs, i)

\* A state of the allocator in which everything but the merging is done.
States == [buffers : Seq(Buffer), pages : SUBSET Nat, async : Int, bug : BOOLEAN]
Good(s) == s \in States /\ Tiled(s.buffers) /\ s.pages = PagesOf(s.buffers) /\ s.bug = FALSE

\* A set of natural numbers has a least one.
LEMMA LeastNumber ==
  ASSUME NEW T \in SUBSET Nat, T # {}
  PROVE  \E m \in T : \A k \in T : m <= k
<1> DEFINE R == OpToRel(<, Nat)
<1>1. IsWellFoundedOn(R, Nat)
  BY NatLessThanWellFounded, Zenon
<1>2. \A x, y \in Nat : x < y => <<x, y>> \in R
  BY DEF OpToRel
<1> HIDE DEF R
<1>3. PICK m \in T : \A y \in T : ~(<<y, m>> \in R)
  BY <1>1, WFMin, Zenon
<1>4. \A k \in T : ~(k < m)
  BY <1>2, <1>3, Zenon
<1> QED BY <1>4

\* Pages that follow each other begin a page apart.
LEMMA PagesAscend ==
  ASSUME NEW p \in Nat, NEW q \in Nat
  PROVE  /\ Lo(p) \in Nat
         /\ p <= q => Lo(p) <= Lo(q)
         /\ q < p => Lo(q) + Page <= Lo(p)
<1>0. Page \in Nat
  BY LayoutAssumption
<1>1. \A d \in Nat : d * Page \in Nat
  BY <1>0
<1>2. ASSUME p <= q PROVE Lo(p) <= Lo(q)
  <2>1. q - p \in Nat /\ Lo(q) = Lo(p) + (q - p) * Page
    BY <1>0, <1>2 DEF Lo
  <2> QED BY <1>1, <2>1 DEF Lo
<1>3. ASSUME q < p PROVE Lo(q) + Page <= Lo(p)
  <2>1. p - q - 1 \in Nat /\ Lo(p) = Lo(q) + Page + (p - q - 1) * Page
    BY <1>0, <1>3 DEF Lo
  <2> QED BY <1>0, <1>1, <2>1 DEF Lo
<1> QED BY <1>1, <1>2, <1>3 DEF Lo

\* What ends below a page's end ends there with its last byte, too.
LEMMA LastByte ==
  ASSUME NEW a \in Nat, NEW b \in Nat, NEW e \in Nat, a <= b, b < e + Page
  PROVE  a - 1 < e + Page
BY LayoutAssumption

\* What PAGE_MASK and PAGE_ALIGN say about the pages around an address.
LEMMA PageArithmetic ==
  ASSUME NEW x \in Nat, NEW p \in Nat
  PROVE  /\ PageOf(x) \in Nat /\ PageAlign(x) \in Nat /\ Lo(p) \in Nat
         /\ p <= PageOf(x) <=> Lo(p) <= x
         /\ PageOf(x) <= p <=> x < Lo(p) + Page
         /\ PageAlign(x) <= p <=> x <= Lo(p)
<1>0. Page \in Nat \ {0}
  BY LayoutAssumption
<1>1. ASSUME NEW y \in Nat PROVE y \div Page \in Nat /\ Lo(y \div Page) <= y /\ y < Lo(y \div Page) + Page
  BY <1>0 DEF Lo
<1>2. /\ PageOf(x) \in Nat /\ Lo(PageOf(x)) <= x /\ x < Lo(PageOf(x)) + Page
  BY <1>1 DEF PageOf
<1>3. /\ PageAlign(x) \in Nat /\ Lo(PageAlign(x)) <= x + Page - 1 /\ x + Page - 1 < Lo(PageAlign(x)) + Page
  <2>1. x + Page - 1 \in Nat
    BY <1>0
  <2> QED BY <1>1, <2>1 DEF PageAlign
<1>4. p <= PageOf(x) <=> Lo(p) <= x
  BY <1>0, <1>2, PagesAscend
<1>5. PageOf(x) <= p <=> x < Lo(p) + Page
  BY <1>0, <1>2, PagesAscend
<1>6. PageAlign(x) <= p <=> x <= Lo(p)
  BY <1>0, <1>3, PagesAscend
<1> QED BY <1>2, <1>3, <1>4, <1>5, <1>6, PagesAscend

\* The area ends with a page.
LEMMA AreaEndsWithPage ==
  ASSUME NEW p \in Nat
  PROVE  /\ AreaSize \in Nat /\ Lo(p) \in Nat
         /\ Lo(p) < AreaSize => Lo(p) + Page <= AreaSize
<1>0. Page \in Nat /\ NumPages \in Nat
  BY LayoutAssumption
<1>1. AreaSize = Lo(NumPages)
  BY DEF AreaSize, Lo
<1>2. Lo(NumPages) \in Nat /\ Lo(p) \in Nat
  BY <1>0, PagesAscend
<1>3. CASE p < NumPages
  BY <1>0, <1>1, <1>2, <1>3, PagesAscend
<1>4. CASE ~(p < NumPages)
  BY <1>0, <1>1, <1>2, <1>4, PagesAscend
<1> QED BY <1>1, <1>2, <1>3, <1>4

\* Where buffer i and its neighbours lie.
LEMMA Neighbours ==
  ASSUME NEW bufs, Tiled(bufs), NEW i \in DOMAIN bufs
  PROVE  /\ bufs[i] \in Buffer /\ Data(bufs[i]) \in Nat /\ Data(bufs[i]) = bufs[i].at + Header
         /\ Header \in Nat /\ 0 < Header /\ Header < Page /\ Page \in Nat
         /\ EndOf(bufs, i) \in Nat /\ Data(bufs[i]) + bufs[i].size <= EndOf(bufs, i)
         /\ EndOf(bufs, i) <= AreaSize
         /\ BufferSize(bufs, i) = EndOf(bufs, i) - Data(bufs[i])
         /\ \A j \in DOMAIN bufs : /\ j < i => Data(bufs[j]) + bufs[j].size <= bufs[i].at
                                   /\ i < j => EndOf(bufs, i) <= bufs[j].at
<1>1. /\ Header \in Nat /\ 0 < Header /\ Header < Page /\ Page \in Nat
      /\ \A b \in Buffer : b.at \in Nat /\ b.size \in Nat /\ Data(b) \in Nat /\ Data(b) = b.at + Header
  BY LayoutAssumption DEF Data, Buffer
<1>2. /\ Len(bufs) \in Nat /\ DOMAIN bufs = 1 .. Len(bufs) /\ \A j \in DOMAIN bufs : bufs[j] \in Buffer
      /\ i \in 1 .. Len(bufs)
  BY DEF Tiled
<1>3. /\ \A j, k \in DOMAIN bufs : j < k => Data(bufs[j]) + bufs[j].size <= bufs[k].at
      /\ \A j \in DOMAIN bufs : Data(bufs[j]) + bufs[j].size <= AreaSize
  BY DEF Tiled
<1>4. AreaSize \in Nat
  BY AreaEndsWithPage
<1>5. CASE i = Len(bufs)
  BY <1>1, <1>2, <1>3, <1>4, <1>5 DEF EndOf, BufferSize
<1>6. CASE i # Len(bufs)
  <2>1. i + 1 \in DOMAIN bufs /\ EndOf(bufs, i) = bufs[i + 1].at /\ i < i + 1
    BY <1>2, <1>6 DEF EndOf
  <2>2. /\ EndOf(bufs, i) \in Nat /\ Data(bufs[i]) + bufs[i].size <= EndOf(bufs, i)
    BY <1>1, <1>2, <1>3, <2>1
  <2>3. EndOf(bufs, i) <= AreaSize
    <3>1. /\ bufs[i + 1].at \in Nat /\ bufs[i + 1].size \in Nat /\ Header \in Nat
          /\ Data(bufs[i + 1]) = bufs[i + 1].at + Header
      BY <1>1, <1>2, <2>1
    <3>2. Data(bufs[i + 1]) + bufs[i + 1].size <= AreaSize
      BY <1>3, <2>1
    <3> QED BY <1>4, <2>1, <3>1, <3>2
  <2>4. ASSUME NEW j \in DOMAIN bufs, i < j PROVE EndOf(bufs, i) <= bufs[j].at
    <3>1. CASE j = i + 1
      BY <1>1, <1>2, <2>1, <3>1
    <3>2. CASE j # i + 1
      <4>1. i + 1 < j
        BY <1>2, <2>4, <3>2
      <4>2. Data(bufs[i + 1]) + bufs[i + 1].size <= bufs[j].at
        BY <1>3, <2>1, <4>1
      <4>3. /\ bufs[i + 1].at \in Nat /\ bufs[i + 1].size \in Nat /\ Header \in Nat
            /\ Data(bufs[i + 1]) = bufs[i + 1].at + Header /\ bufs[j].at \in Nat
        BY <1>1, <1>2, <2>1
      <4> QED BY <2>1, <4>2, <4>3
    <3> QED BY <3>1, <3>2
  <2> QED BY <1>1, <1>2, <1>3, <1>6, <2>2, <2>3, <2>4 DEF BufferSize, EndOf
<1> QED BY <1>5, <1>6

\* On a page inside buffer i there is no header, and no other buffer's data.
LEMMA InsideIsClear ==
  ASSUME NEW bufs, Tiled(bufs), NEW i \in DOMAIN bufs, NEW p \in Nat, Inside(bufs, i, p),
         NEW j \in DOMAIN bufs
  PROVE  ~HeaderOn(bufs[j], p) /\ (j # i => ~DataOn(bufs[j], p))
<1>1. /\ Data(bufs[i]) \in Nat /\ Data(bufs[i]) = bufs[i].at + Header /\ bufs[i].at \in Nat
      /\ Header \in Nat /\ Page \in Nat /\ EndOf(bufs, i) \in Nat
      /\ j < i => Data(bufs[j]) + bufs[j].size <= bufs[i].at
      /\ i < j => EndOf(bufs, i) <= bufs[j].at
  BY Neighbours DEF Buffer
<1>2. /\ Data(bufs[j]) \in Nat /\ Data(bufs[j]) = bufs[j].at + Header /\ bufs[j].at \in Nat /\ bufs[j].size \in Nat
  BY Neighbours DEF Buffer
<1>3. Lo(p) \in Nat /\ Data(bufs[i]) <= Lo(p) /\ Lo(p) + Page <= EndOf(bufs, i)
  BY PagesAscend DEF Inside
<1>4. i \in Nat /\ j \in Nat
  BY DEF Tiled
<1>5. CASE j = i
  BY <1>1, <1>3, <1>5 DEF HeaderOn
<1>6. CASE j < i
  BY <1>1, <1>2, <1>3, <1>6 DEF HeaderOn, DataOn
<1>7. CASE i < j
  BY <1>1, <1>2, <1>3, <1>7 DEF HeaderOn, DataOn
<1> QED BY <1>4, <1>5, <1>6, <1>7

\* A page that lies across an end of the room of buffer i has a header on it.
LEMMA EdgeHasHeader ==
  ASSUME NEW bufs, Tiled(bufs), NEW i \in DOMAIN bufs, NEW p \in Nat, ~Inside(bufs, i, p),
         Data(bufs[i]) < Lo(p) + Page, Lo(p) < EndOf(bufs, i)
  PROVE  \/ HeaderOn(bufs[i], p)
         \/ i + 1 \in DOMAIN bufs /\ HeaderOn(bufs[i + 1], p)
<1>1. /\ Data(bufs[i]) \in Nat /\ Data(bufs[i]) = bufs[i].at + Header /\ bufs[i].at \in Nat
      /\ Header \in Nat /\ 0 < Header /\ Page \in Nat /\ EndOf(bufs, i) \in Nat
  BY Neighbours DEF Buffer
<1>2. AreaSize \in Nat /\ Lo(p) \in Nat /\ (Lo(p) < AreaSize => Lo(p) + Page <= AreaSize)
  BY AreaEndsWithPage
<1>3. CASE Lo(p) < Data(bufs[i])
  BY <1>1, <1>2, <1>3 DEF HeaderOn
<1>4. CASE ~(Lo(p) < Data(bufs[i]))
  <2>1. EndOf(bufs, i) < Lo(p) + Page
    BY <1>1, <1>2, <1>4 DEF Inside
  <2>2. i # Len(bufs)
    BY <1>1, <1>2, <2>1 DEF EndOf
  <2>3. i + 1 \in DOMAIN bufs /\ EndOf(bufs, i) = bufs[i + 1].at
    BY <2>2 DEF EndOf, Tiled
  <2>4. Data(bufs[i + 1]) = bufs[i + 1].at + Header /\ bufs[i + 1].at \in Nat
    BY <2>3, Neighbours DEF Buffer
  <2> QED BY <1>1, <1>2, <2>1, <2>3, <2>4 DEF HeaderOn
<1> QED BY <1>3, <1>4

\* The list without its i-th element.
LEMMA RemovedIs ==
  ASSUME NEW X, NEW s \in Seq(X), NEW i \in DOMAIN s, NEW t, t = Removed(s, i)
  PROVE  /\ t \in Seq(X) /\ Len(t) = Len(s) - 1 /\ DOMAIN t = 1 .. Len(t)
         /\ \A k \in DOMAIN t : /\ k < i => k \in DOMAIN s /\ t[k] = s[k]
                                /\ ~(k < i) => k + 1 \in DOMAIN s /\ t[k] = s[k + 1]
<1>1. Len(s) \in Nat /\ i \in 1 .. Len(s) /\ DOMAIN s = 1 .. Len(s) /\ \A k \in 1 .. Len(s) : s[k] \in X
  OBVIOUS
<1>2. t = [k \in 1 .. Len(s) - 1 |-> IF k < i THEN s[k] ELSE s[k + 1]]
  BY DEF Removed
<1>3. Len(s) - 1 \in Nat /\ DOMAIN t = 1 .. Len(s) - 1
  BY <1>1, <1>2
<1>4. \A k \in 1 .. Len(s) - 1 : t[k] = (IF k < i THEN s[k] ELSE s[k + 1]) /\ t[k] \in X
  BY <1>1, <1>2
<1>5. t \in [1 .. Len(s) - 1 -> X]
  BY <1>2, <1>4
<1>6. t \in Seq(X) /\ Len(t) = Len(s) - 1
  BY <1>3, <1>5
<1> QED BY <1>1, <1>3, <1>4, <1>6

\* A free buffer that becomes part of the free one before it.
LEMMA RemovalKeepsTiled ==
  ASSUME NEW bufs, Tiled(bufs), NEW i \in DOMAIN bufs, i > 1, bufs[i - 1].free,
         NEW t, t = Removed(bufs, i)
  PROVE  Tiled(t)
<1>1. /\ bufs \in Seq(Buffer) /\ Len(bufs) \in Nat /\ DOMAIN bufs = 1 .. Len(bufs) /\ i \in 1 .. Len(bufs)
      /\ bufs[1].at = 0
  BY DEF Tiled
<1>2. /\ t \in Seq(Buffer) /\ Len(t) = Len(bufs) - 1 /\ DOMAIN t = 1 .. Len(t)
      /\ \A k \in DOMAIN t : /\ k < i => k \in DOMAIN bufs /\ t[k] = bufs[k]
                             /\ ~(k < i) => k + 1 \in DOMAIN bufs /\ t[k] = bufs[k + 1]
  <2>1. bufs \in Seq(Buffer)
    BY <1>1
  <2> QED BY <2>1, RemovedIs
<1>3. t # <<>> /\ t[1].at = 0
  <2>1. 1 \in DOMAIN t /\ 1 < i
    BY <1>1, <1>2
  <2> QED BY <1>1, <1>2, <2>1
<1>4. \A j, k \in DOMAIN t : j < k => Data(t[j]) + t[j].size <= t[k].at
  <2> SUFFICES ASSUME NEW j \in DOMAIN t, NEW k \in DOMAIN t, j < k
               PROVE  Data(t[j]) + t[j].size <= t[k].at
    OBVIOUS
  <2>1. PICK u \in DOMAIN bufs, v \in DOMAIN bufs : t[j] = bufs[u] /\ t[k] = bufs[v] /\ u < v
    <3>1. CASE k < i
      BY <1>1, <1>2, <3>1
    <3>2. CASE ~(k < i) /\ j < i
      BY <1>1, <1>2, <3>2
    <3>3. CASE ~(j < i)
      BY <1>1, <1>2, <3>3
    <3> QED BY <3>1, <3>2, <3>3
  <2> QED BY <2>1 DEF Tiled
<1>5. \A j \in DOMAIN t : Data(t[j]) + t[j].size <= AreaSize
  BY <1>2 DEF Tiled
<1>6. ASSUME NEW j \in DOMAIN t, ~t[j].free
      PROVE  EndOf(t, j) <= Data(t[j]) + t[j].size + Header
  <2>0. \A k \in DOMAIN bufs : ~bufs[k].free => EndOf(bufs, k) <= Data(bufs[k]) + bufs[k].size + Header
    BY DEF Tiled
  <2>1. CASE ~(j < i)
    <3>1. EndOf(t, j) = EndOf(bufs, j + 1) /\ j + 1 \in DOMAIN bufs /\ t[j] = bufs[j + 1]
      <4>0. j = Len(bufs) - 1 <=> j + 1 = Len(bufs)
        <5>1. j \in 1 .. Len(bufs) - 1 /\ Len(bufs) \in Nat
          BY <1>1, <1>2
        <5> QED BY <5>1
      <4>1. j + 1 \in DOMAIN bufs /\ t[j] = bufs[j + 1] /\ (j = Len(t) <=> j + 1 = Len(bufs))
        BY <1>2, <2>1, <4>0
      <4>2. j # Len(t) => j + 1 \in DOMAIN t /\ ~(j + 1 < i)
        BY <1>1, <1>2, <2>1, SMTT(20)
      <4>3. j # Len(t) => t[j + 1] = bufs[(j + 1) + 1]
        BY <1>2, <4>2
      <4> QED BY <4>1, <4>3 DEF EndOf
    <3> QED BY <1>6, <2>0, <3>1
  <2>2. CASE j < i
    <3>1. j # i - 1
      BY <1>2, <1>6, <2>2
    <3>2. /\ j \in DOMAIN bufs /\ t[j] = bufs[j] /\ j # Len(t) /\ j # Len(bufs)
          /\ j + 1 \in DOMAIN t /\ j + 1 < i
      BY <1>1, <1>2, <2>2, <3>1
    <3>3. EndOf(t, j) = EndOf(bufs, j)
      BY <1>2, <3>2 DEF EndOf
    <3> QED BY <1>6, <2>0, <3>2, <3>3
  <2> QED BY <2>1, <2>2
<1> QED BY <1>2, <1>3, <1>4, <1>5, <1>6 DEF Tiled

\* The pages of a header are the ones between its first and its last.
LEMMA HeaderSpans ==
  ASSUME NEW b \in Buffer, NEW p \in Nat
  PROVE  /\ StartPage(b) \in Nat /\ EndPage(b) \in Nat
         /\ HeaderOn(b, p) <=> StartPage(b) <= p /\ p <= EndPage(b)
         /\ StartPage(b) <= EndPage(b) /\ EndPage(b) <= StartPage(b) + 1
         /\ p = StartPage(b) <=> Lo(p) <= b.at /\ b.at < Lo(p) + Page
         /\ p = EndPage(b) <=> Lo(p) < Data(b) /\ Data(b) <= Lo(p) + Page
<1>1. /\ Header \in Nat /\ 0 < Header /\ Header < Page /\ Page \in Nat /\ b.at \in Nat
      /\ Data(b) = b.at + Header /\ b.at + Header - 1 \in Nat
  BY LayoutAssumption DEF Buffer, Data
<1>2. /\ StartPage(b) \in Nat /\ Lo(p) \in Nat
      /\ p <= StartPage(b) <=> Lo(p) <= b.at
      /\ StartPage(b) <= p <=> b.at < Lo(p) + Page
  BY <1>1, PageArithmetic, Zenon DEF StartPage
<1>3. /\ EndPage(b) \in Nat
      /\ p <= EndPage(b) <=> Lo(p) <= b.at + Header - 1
      /\ EndPage(b) <= p <=> b.at + Header - 1 < Lo(p) + Page
  BY <1>1, PageArithmetic, Zenon DEF EndPage
<1>4. StartPage(b) <= EndPage(b)
  <2>1. StartPage(b) <= EndPage(b) <=> Lo(StartPage(b)) <= b.at + Header - 1
    BY <1>1, <1>2, PageArithmetic, Zenon DEF EndPage
  <2>2. Lo(StartPage(b)) <= b.at /\ Lo(StartPage(b)) \in Nat
    <3>1. b.at \in Nat /\ StartPage(b) \in Nat /\ StartPage(b) <= StartPage(b)
      BY <1>1, <1>2
    <3> QED BY <3>1, PageArithmetic DEF StartPage
  <2> QED BY <1>1, <2>1, <2>2
<1>5. EndPage(b) <= StartPage(b) + 1
  <2> DEFINE q == StartPage(b)
  <2>1. q + 1 \in Nat /\ Lo(q) \in Nat /\ Lo(q) + Page <= Lo(q + 1) /\ Lo(q + 1) \in Nat
    BY <1>2, PagesAscend
  <2>2. b.at < Lo(q) + Page
    <3>1. b.at \in Nat /\ StartPage(b) \in Nat /\ StartPage(b) <= StartPage(b)
      BY <1>1, <1>2
    <3> QED BY <3>1, PageArithmetic DEF StartPage
  <2>3. EndPage(b) <= q + 1 <=> b.at + Header - 1 < Lo(q + 1) + Page
    BY <1>1, <2>1, PageArithmetic, Zenon DEF EndPage
  <2> QED BY <1>1, <2>1, <2>2, <2>3
<1> QED BY <1>1, <1>2, <1>3, <1>4, <1>5 DEF HeaderOn

\* binder_delete_free_buffer frees the pages of a header that are neither the
\* last one of the header before nor the first one of the header behind.
LEMMA HeaderPagesAre ==
  ASSUME NEW bufs, Tiled(bufs), NEW i \in DOMAIN bufs, i > 1, NEW p
  PROVE  p \in HeaderPages(bufs, i) <=>
           /\ p \in Nat /\ HeaderOn(bufs[i], p)
           /\ p # EndPage(bufs[i - 1])
           /\ ~(i < Len(bufs) /\ p = StartPage(bufs[i + 1]))
<1>1. /\ Len(bufs) \in Nat /\ DOMAIN bufs = 1 .. Len(bufs) /\ i \in 1 .. Len(bufs) /\ i - 1 \in DOMAIN bufs
      /\ bufs[i] \in Buffer /\ bufs[i - 1] \in Buffer
      /\ i < Len(bufs) => i + 1 \in DOMAIN bufs /\ bufs[i + 1] \in Buffer
  BY DEF Tiled
<1> DEFINE q == StartPage(bufs[i])
           r == EndPage(bufs[i])
           x == EndPage(bufs[i - 1])
           y == StartPage(bufs[i + 1])
<1>2. q \in Nat /\ r \in Nat /\ q <= r /\ r <= q + 1
  BY <1>1, HeaderSpans
<1>3. x \in Nat /\ x <= q
  <2>1. x \in Nat
    BY <1>1, HeaderSpans
  <2>2. Lo(q) \in Nat /\ bufs[i].at < Lo(q) + Page
    BY <1>1, <1>2, HeaderSpans, PagesAscend
  <2>3. Data(bufs[i - 1]) <= bufs[i].at /\ bufs[i].at \in Nat /\ Data(bufs[i - 1]) \in Nat
    <3>1. i - 1 < i /\ i \in DOMAIN bufs
      BY <1>1
    <3>2. Data(bufs[i - 1]) + bufs[i - 1].size <= bufs[i].at
      BY <1>1, <3>1, Neighbours
    <3>3. Data(bufs[i - 1]) \in Nat /\ bufs[i - 1].size \in Nat /\ bufs[i].at \in Nat
      BY <1>1, Neighbours DEF Buffer
    <3> QED BY <3>2, <3>3
  <2>4. /\ bufs[i - 1].at + Header - 1 \in Nat /\ Data(bufs[i - 1]) = bufs[i - 1].at + Header
        /\ bufs[i - 1].at \in Nat /\ Header \in Nat /\ Page \in Nat
    BY <1>1, LayoutAssumption DEF Buffer, Data
  <2>5. x <= q <=> bufs[i - 1].at + Header - 1 < Lo(q) + Page
    BY <1>2, <2>4, PageArithmetic, Zenon DEF EndPage
  <2> QED BY <2>1, <2>2, <2>3, <2>4, <2>5
<1>4. i < Len(bufs) => y \in Nat /\ r <= y
  <2> SUFFICES ASSUME i < Len(bufs) PROVE y \in Nat /\ r <= y
    OBVIOUS
  <2>1. y \in Nat
    BY <1>1, HeaderSpans
  <2>2. Lo(y) \in Nat /\ bufs[i + 1].at < Lo(y) + Page
    BY <1>1, <2>1, HeaderSpans, PagesAscend
  <2>3. Data(bufs[i]) <= bufs[i + 1].at /\ bufs[i + 1].at \in Nat
    <3>1. i < i + 1
      BY <1>1
    <3>2. Data(bufs[i]) + bufs[i].size <= bufs[i + 1].at
      BY <1>1, <3>1, Neighbours
    <3>3. Data(bufs[i]) \in Nat /\ bufs[i].size \in Nat /\ bufs[i + 1].at \in Nat
      BY <1>1, Neighbours DEF Buffer
    <3> QED BY <3>2, <3>3
  <2>4. /\ bufs[i].at + Header - 1 \in Nat /\ Data(bufs[i]) = bufs[i].at + Header
        /\ bufs[i].at \in Nat /\ Header \in Nat /\ Page \in Nat
    BY <1>1, LayoutAssumption, SMTT(20) DEF Buffer, Data
  <2>5. r <= y <=> bufs[i].at + Header - 1 < Lo(y) + Page
    BY <2>1, <2>4, PageArithmetic, Zenon DEF EndPage
  <2> HIDE DEF y
  <2>6. bufs[i].at + Header - 1 < Lo(y) + Page
    <3>1. bufs[i].at + Header <= bufs[i + 1].at /\ bufs[i].at + Header \in Nat
      BY <2>3, <2>4
    <3>2. bufs[i].at + Header - 1 = (bufs[i].at + Header) - 1
      BY <2>4
    <3> QED BY <2>2, <2>3, <3>1, <3>2, LastByte, Zenon
  <2> QED BY <2>1, <2>5, <2>6
<1>5. p \in Nat => (HeaderOn(bufs[i], p) <=> q <= p /\ p <= r)
  BY <1>1, HeaderSpans
<1> DEFINE after == i < Len(bufs) /\ y = r
           start == x # q /\ ~(after /\ q = r)
           end == ~(x = q /\ q = r) /\ ~after
<1>6. HeaderPages(bufs, i) =
        IF start \/ end THEN (IF start THEN q ELSE r) .. (IF end THEN r ELSE q) ELSE {}
  BY DEF HeaderPages
<1> HIDE DEF q, r, x, y
<1>7. p \in HeaderPages(bufs, i) <=> p \in Nat /\ q <= p /\ p <= r /\ p # x /\ ~(i < Len(bufs) /\ p = y)
  <2>1. CASE start /\ end
    BY <1>2, <1>3, <1>4, <1>6, <2>1
  <2>2. CASE start /\ ~end
    BY <1>2, <1>3, <1>4, <1>6, <2>2
  <2>3. CASE ~start /\ end
    BY <1>2, <1>3, <1>4, <1>6, <2>3
  <2>4. CASE ~start /\ ~end
    BY <1>2, <1>3, <1>4, <1>6, <2>4
  <2> QED BY <2>1, <2>2, <2>3, <2>4
<1> QED BY <1>5, <1>7 DEF q, r, x, y

\* Those are the pages that nothing but this header is on.
LEMMA HeaderPagesAreFree ==
  ASSUME NEW bufs, Tiled(bufs), NEW i \in DOMAIN bufs, i > 1, bufs[i].free, bufs[i - 1].free,
         NEW p \in Nat
  PROVE  p \in HeaderPages(bufs, i) <=>
           /\ HeaderOn(bufs[i], p)
           /\ \A j \in DOMAIN bufs \ {i} : ~HeaderOn(bufs[j], p) /\ ~DataOn(bufs[j], p)
<1>1. /\ Len(bufs) \in Nat /\ DOMAIN bufs = 1 .. Len(bufs) /\ i \in 1 .. Len(bufs)
      /\ i - 1 \in DOMAIN bufs \ {i} /\ i - 1 < i
      /\ i < Len(bufs) => i + 1 \in DOMAIN bufs \ {i} /\ i < i + 1
      /\ \A j \in DOMAIN bufs : bufs[j] \in Buffer
  BY DEF Tiled
<1>2. p \in HeaderPages(bufs, i) <=>
           /\ HeaderOn(bufs[i], p)
           /\ p # EndPage(bufs[i - 1])
           /\ ~(i < Len(bufs) /\ p = StartPage(bufs[i + 1]))
  BY HeaderPagesAre
<1>3. p = EndPage(bufs[i - 1]) => HeaderOn(bufs[i - 1], p)
  BY <1>1, HeaderSpans
<1>4. i < Len(bufs) /\ p = StartPage(bufs[i + 1]) => HeaderOn(bufs[i + 1], p)
  BY <1>1, HeaderSpans
<1>5. ASSUME p \in HeaderPages(bufs, i), NEW j \in DOMAIN bufs \ {i}
      PROVE  ~HeaderOn(bufs[j], p) /\ ~DataOn(bufs[j], p)
  <2>0. j \in DOMAIN bufs /\ Lo(p) \in Nat /\ j \in Int /\ i \in Int
    BY <1>1, PagesAscend
  <2>1. /\ bufs[j].at \in Nat /\ bufs[j].size \in Nat /\ Data(bufs[j]) \in Nat /\ Data(bufs[j]) = bufs[j].at + Header
        /\ Header \in Nat /\ 0 < Header /\ Page \in Nat
    BY <2>0, Neighbours DEF Buffer
  <2>2. /\ bufs[i].at \in Nat /\ Data(bufs[i]) = bufs[i].at + Header
        /\ bufs[i].at < Lo(p) + Page /\ Lo(p) < Data(bufs[i])
    BY <1>2, <1>5, Neighbours DEF Buffer, HeaderOn
  <2>3. CASE j < i
    <3>1. Data(bufs[i - 1]) <= Lo(p)
      <4>1. ~(Lo(p) < Data(bufs[i - 1]) /\ Data(bufs[i - 1]) <= Lo(p) + Page)
        BY <1>1, <1>2, <1>5, HeaderSpans
      <4>2. Data(bufs[i - 1]) + bufs[i - 1].size <= bufs[i].at
        BY <1>1, Neighbours
      <4>3. Data(bufs[i - 1]) \in Nat /\ bufs[i - 1].size \in Nat
        BY <1>1, Neighbours DEF Buffer
      <4> QED BY <2>0, <2>1, <2>2, <4>1, <4>2, <4>3
    <3>2. CASE j = i - 1
      BY <2>0, <2>1, <3>1, <3>2 DEF HeaderOn, DataOn
    <3>3. CASE j # i - 1
      <4>1. j < i - 1
        BY <2>0, <2>3, <3>3
      <4>2. Data(bufs[j]) + bufs[j].size <= bufs[i - 1].at
        BY <1>1, <2>0, <4>1, Neighbours, Zenon
      <4>3. Data(bufs[i - 1]) = bufs[i - 1].at + Header /\ bufs[i - 1].at \in Nat
        BY <1>1, Neighbours DEF Buffer
      <4> QED BY <2>0, <2>1, <3>1, <4>2, <4>3 DEF HeaderOn, DataOn
    <3> QED BY <3>2, <3>3
  <2>4. CASE i < j
    <3>0. i < Len(bufs) /\ i + 1 \in DOMAIN bufs /\ i < i + 1
      BY <1>1, <2>0, <2>4
    <3>1. Lo(p) + Page <= bufs[i + 1].at
      <4>1. ~(Lo(p) <= bufs[i + 1].at /\ bufs[i + 1].at < Lo(p) + Page)
        BY <1>1, <1>2, <1>5, <3>0, HeaderSpans, Zenon
      <4>2. Data(bufs[i]) + bufs[i].size <= bufs[i + 1].at
        BY <3>0, Neighbours
      <4>3. bufs[i + 1].at \in Nat /\ bufs[i].size \in Nat
        BY <3>0, Neighbours DEF Buffer
      <4> QED BY <2>0, <2>1, <2>2, <4>1, <4>2, <4>3
    <3>2. bufs[i + 1].at <= bufs[j].at
      <4>1. EndOf(bufs, i) = bufs[i + 1].at
        BY <1>1, <3>0 DEF EndOf
      <4> QED BY <2>0, <2>4, <4>1, Neighbours
    <3>3. bufs[i + 1].at \in Nat
      BY <3>0, Neighbours DEF Buffer
    <3> QED BY <2>0, <2>1, <3>1, <3>2, <3>3 DEF HeaderOn, DataOn
  <2> QED BY <2>0, <2>3, <2>4
<1> QED BY <1>1, <1>2, <1>3, <1>4, <1>5

\* What is on a page when buffer i has gone.
LEMMA OnRemoved ==
  ASSUME NEW bufs \in Seq(Buffer), NEW i \in DOMAIN bufs, NEW t, t = Removed(bufs, i), NEW p
  PROVE  On(t, p) <=> \E j \in DOMAIN bufs \ {i} : HeaderOn(bufs[j], p) \/ DataOn(bufs[j], p)
<1>1. /\ Len(bufs) \in Nat /\ DOMAIN bufs = 1 .. Len(bufs) /\ i \in 1 .. Len(bufs)
      /\ Len(t) = Len(bufs) - 1 /\ DOMAIN t = 1 .. Len(t)
      /\ \A k \in DOMAIN t : /\ k < i => k \in DOMAIN bufs /\ t[k] = bufs[k]
                             /\ ~(k < i) => k + 1 \in DOMAIN bufs /\ t[k] = bufs[k + 1]
  BY RemovedIs
<1>2. ASSUME NEW k \in DOMAIN t PROVE \E j \in DOMAIN bufs \ {i} : t[k] = bufs[j]
  <2>1. CASE k < i
    BY <1>1, <2>1
  <2>2. CASE ~(k < i)
    BY <1>1, <2>2
  <2> QED BY <2>1, <2>2
<1>3. ASSUME NEW j \in DOMAIN bufs \ {i} PROVE \E k \in DOMAIN t : t[k] = bufs[j]
  <2>1. CASE j < i
    <3>1. j \in DOMAIN t
      BY <1>1, <2>1
    <3> QED BY <1>1, <2>1, <3>1
  <2>2. CASE ~(j < i)
    <3>1. j - 1 \in DOMAIN t /\ ~(j - 1 < i) /\ (j - 1) + 1 = j
      BY <1>1, <2>2
    <3> QED BY <1>1, <3>1
  <2> QED BY <2>1, <2>2
<1> QED BY <1>2, <1>3 DEF On

\* binder_delete_free_buffer frees the pages that are no longer needed.
LEMMA DeleteFreeIsGood ==
  ASSUME NEW s, Good(s), NEW i \in DOMAIN s.buffers, i > 1, s.buffers[i].free, s.buffers[i - 1].free,
         NEW t, t = DeleteFree(s, i)
  PROVE  Good(t) /\ t.buffers = Removed(s.buffers, i) /\ t.async = s.async
<1> DEFINE bufs == s.buffers
           range == HeaderPages(bufs, i)
<1>1. s \in States /\ Tiled(bufs) /\ s.pages = PagesOf(bufs) /\ s.bug = FALSE /\ bufs \in Seq(Buffer)
  BY DEF Good, Tiled
<1>2. \A p \in Nat : p \in range <=>
        /\ HeaderOn(bufs[i], p)
        /\ \A j \in DOMAIN bufs \ {i} : ~HeaderOn(bufs[j], p) /\ ~DataOn(bufs[j], p)
  BY <1>1, HeaderPagesAreFree
<1>3. range \subseteq Nat
  BY <1>1, HeaderPagesAre
<1>4. range \subseteq s.pages
  BY <1>1, <1>2, <1>3 DEF PagesOf, On
<1>5. /\ t.buffers = Removed(bufs, i) /\ t.pages = s.pages \ range /\ t.async = s.async
      /\ t.bug = ((s.bug \/ ~(range \subseteq s.pages)) \/ ~bufs[i - 1].free)
      /\ t = [buffers |-> t.buffers, pages |-> t.pages, async |-> t.async, bug |-> t.bug]
  BY <1>1, Zenon DEF DeleteFree, FreeRange, States
<1> HIDE DEF bufs, range
<1>6. t.bug = FALSE
  BY <1>1, <1>4, <1>5, Zenon DEF bufs
<1>7. Tiled(t.buffers) /\ t.buffers \in Seq(Buffer)
  <2>1. Tiled(t.buffers)
    BY <1>1, <1>5, RemovalKeepsTiled DEF bufs
  <2> QED BY <2>1 DEF Tiled
<1>8. t.pages = PagesOf(t.buffers)
  <2>1. \A p : On(t.buffers, p) <=> \E j \in DOMAIN bufs \ {i} : HeaderOn(bufs[j], p) \/ DataOn(bufs[j], p)
    BY <1>1, <1>5, OnRemoved DEF bufs
  <2>2. ~bufs[i].free = FALSE
    BY DEF bufs
  <2>3. \A p \in Nat : On(bufs, p) /\ p \notin range <=> On(t.buffers, p)
    BY <1>2, <2>1, <2>2 DEF On, DataOn, bufs
  <2> QED BY <1>1, <1>3, <1>5, <2>3 DEF PagesOf
<1>9. t \in States
  <2>1. t.pages \in SUBSET Nat /\ t.async \in Int
    BY <1>1, <1>5, <1>8 DEF PagesOf, States
  <2> QED BY <1>5, <1>6, <1>7, <2>1, Zenon DEF States
<1> QED BY <1>5, <1>6, <1>7, <1>8, <1>9 DEF Good, bufs

\* Freed before the merging: the buffer is marked free, the pages inside it and
\* the space for one-way calls are given back.
Idle(at) == [at |-> at, free |-> TRUE, size |-> 0, async |-> FALSE]
Held(b) == IF b.async THEN b.size + Header ELSE 0
Marked(s, i) ==
  LET b == s.buffers[i]
      range == PageAlign(Data(b)) .. PageOf(Data(b) + BufferSize(s.buffers, i)) - 1
  IN  [FreeRange(s, range) EXCEPT
         !.buffers[i] = [@ EXCEPT !.free = TRUE, !.size = 0, !.async = FALSE],
         !.async = IF b.async THEN @ + b.size + Header ELSE @]

\* What is left of a buffer that is freed.
LEMMA IdleIsBuffer ==
  /\ \A at \in Nat : Idle(at) \in Buffer
  /\ \A b \in Buffer : [b EXCEPT !.free = TRUE, !.size = 0, !.async = FALSE] = Idle(b.at)
<1>1. ASSUME NEW at \in Nat PROVE Idle(at) \in Buffer
  BY DEF Idle, Buffer
<1>2. ASSUME NEW b \in Buffer
      PROVE  [b EXCEPT !.free = TRUE, !.size = 0, !.async = FALSE] = Idle(b.at)
  <2>1. PICK at \in Nat, free \in BOOLEAN, size \in Nat, async \in BOOLEAN :
           b = [at |-> at, free |-> free, size |-> size, async |-> async]
    BY DEF Buffer
  <2> DEFINE c == [b EXCEPT !.free = TRUE, !.size = 0, !.async = FALSE]
  <2>2. DOMAIN b = {"at", "free", "size", "async"} /\ b.at = at
    BY <2>1
  <2>3. /\ c = [x \in DOMAIN b |-> c[x]] /\ DOMAIN c = DOMAIN b
        /\ c.at = b.at /\ c.free = TRUE /\ c.size = 0 /\ c.async = FALSE
    BY <2>2, Zenon
  <2> HIDE DEF c
  <2>4. Idle(b.at) = [x \in DOMAIN b |-> Idle(b.at)[x]]
    BY <2>2 DEF Idle
  <2>5. \A x \in DOMAIN b : c[x] = Idle(b.at)[x]
    BY <2>2, <2>3, Zenon DEF Idle
  <2>6. c = Idle(b.at)
    BY <2>3, <2>4, <2>5
  <2> QED BY <2>6 DEF c
<1> QED BY <1>1, <1>2, Zenon

\* A buffer that is no longer in use stays where it is.
LEMMA MarkKeepsTiled ==
  ASSUME NEW bufs, Tiled(bufs), NEW i \in DOMAIN bufs,
         NEW t, t = [bufs EXCEPT ![i] = Idle(bufs[i].at)]
  PROVE  /\ Tiled(t) /\ Len(t) = Len(bufs) /\ DOMAIN t = DOMAIN bufs
         /\ t[i] = Idle(bufs[i].at) /\ \A j \in DOMAIN bufs \ {i} : t[j] = bufs[j]
<1>1. bufs \in Seq(Buffer) /\ bufs[i].at \in Nat /\ Idle(bufs[i].at) \in Buffer
  <2>1. bufs \in Seq(Buffer)
    BY DEF Tiled
  <2>2. bufs[i].at \in Nat
    BY Neighbours DEF Buffer
  <2> QED BY <2>1, <2>2, IdleIsBuffer, Zenon
<1>2. /\ t \in Seq(Buffer) /\ Len(t) = Len(bufs) /\ DOMAIN t = DOMAIN bufs /\ DOMAIN bufs = 1 .. Len(bufs)
      /\ t[i] = Idle(bufs[i].at) /\ \A j \in DOMAIN bufs \ {i} : t[j] = bufs[j]
  BY <1>1
<1>3. \A j \in DOMAIN bufs : /\ t[j].at = bufs[j].at /\ Data(t[j]) = Data(bufs[j])
                             /\ t[j].size = IF j = i THEN 0 ELSE bufs[j].size
  BY <1>2 DEF Data, Idle
<1>4. /\ \A j \in DOMAIN bufs : /\ bufs[j].at \in Nat /\ bufs[j].size \in Nat /\ Data(bufs[j]) \in Nat
                                /\ Data(bufs[j]) + bufs[j].size <= AreaSize
      /\ \A j, k \in DOMAIN bufs : j < k => Data(bufs[j]) + bufs[j].size <= bufs[k].at
      /\ AreaSize \in Nat
  BY Neighbours, AreaEndsWithPage, Zenon DEF Tiled, Buffer
<1>5. \A j, k \in DOMAIN t : j < k => Data(t[j]) + t[j].size <= t[k].at
  BY <1>2, <1>3, <1>4
<1>6. \A j \in DOMAIN t : Data(t[j]) + t[j].size <= AreaSize
  BY <1>2, <1>3, <1>4
<1>7. ASSUME NEW j \in DOMAIN t, ~t[j].free PROVE EndOf(t, j) <= Data(t[j]) + t[j].size + Header
  <2>1. j # i
    BY <1>2, <1>7 DEF Idle
  <2>2. EndOf(t, j) = EndOf(bufs, j)
    <3>1. j # Len(bufs) => j + 1 \in DOMAIN bufs
      BY <1>2
    <3> QED BY <1>2, <1>3, <3>1 DEF EndOf
  <2>3. t[j] = bufs[j] /\ j \in DOMAIN bufs
    BY <1>2, <2>1
  <2> QED BY <1>7, <2>2, <2>3 DEF Tiled
<1>8. t # <<>> /\ t[1].at = 0
  BY <1>2, <1>3 DEF Tiled
<1> QED BY <1>2, <1>5, <1>6, <1>7, <1>8, Zenon DEF Tiled

\* binder_free_buf frees the pages between the headers, all of which are there.
LEMMA MarkedIsGood ==
  ASSUME NEW s, Good(s), NEW i \in DOMAIN s.buffers, ~s.buffers[i].free, NEW t, t = Marked(s, i)
  PROVE  /\ Good(t) /\ t.buffers = [s.buffers EXCEPT ![i] = Idle(s.buffers[i].at)]
         /\ t.async = s.async + Held(s.buffers[i])
<1> DEFINE bufs == s.buffers
           b == bufs[i]
           range == PageAlign(Data(b)) .. PageOf(Data(b) + BufferSize(bufs, i)) - 1
<1>1. s \in States /\ Tiled(bufs) /\ s.pages = PagesOf(bufs) /\ s.bug = FALSE /\ bufs \in Seq(Buffer)
  BY DEF Good, Tiled
<1>2. /\ b \in Buffer /\ Data(b) \in Nat /\ EndOf(bufs, i) \in Nat /\ Header \in Nat /\ Header < Page /\ Page \in Nat
      /\ Data(b) + b.size <= EndOf(bufs, i) /\ BufferSize(bufs, i) = EndOf(bufs, i) - Data(b)
  BY <1>1, Neighbours
<1>3. EndOf(bufs, i) <= Data(b) + b.size + Header
  BY <1>1 DEF Tiled
<1>4. b.at \in Nat /\ b.size \in Nat /\ b.async \in BOOLEAN
  BY <1>2 DEF Buffer
<1>5. \A p : p \in range <=> p \in Nat /\ Inside(bufs, i, p)
  <2>1. Data(b) + BufferSize(bufs, i) = EndOf(bufs, i)
    BY <1>2
  <2>2. PageAlign(Data(b)) \in Nat /\ PageOf(EndOf(bufs, i)) \in Nat
    BY <1>2, PageArithmetic
  <2>3. \A p : p \in range <=> p \in Nat /\ PageAlign(Data(b)) <= p /\ p + 1 <= PageOf(EndOf(bufs, i))
    BY <2>1, <2>2
  <2>4. ASSUME NEW p \in Nat
        PROVE  /\ PageAlign(Data(b)) <= p <=> Data(b) <= Lo(p)
               /\ p + 1 <= PageOf(EndOf(bufs, i)) <=> Lo(p) + Page <= EndOf(bufs, i)
    <3>1. PageAlign(Data(b)) <= p <=> Data(b) <= Lo(p)
      BY <1>2, PageArithmetic, Zenon
    <3>2. p + 1 <= PageOf(EndOf(bufs, i)) <=> Lo(p + 1) <= EndOf(bufs, i)
      <4>1. p + 1 \in Nat
        OBVIOUS
      <4> QED BY <1>2, <4>1, PageArithmetic, Zenon
    <3>3. Lo(p + 1) = Lo(p) + Page
      BY <1>2 DEF Lo
    <3> QED BY <3>1, <3>2, <3>3
  <2> QED BY <2>3, <2>4 DEF Inside
<1>6. /\ t.pages = s.pages \ range /\ t.bug = (s.bug \/ ~(range \subseteq s.pages))
      /\ t = [buffers |-> t.buffers, pages |-> t.pages, async |-> t.async, bug |-> t.bug]
  BY <1>1, Zenon DEF Marked, FreeRange, States
<1>7. t.async = s.async + Held(b) /\ t.async \in Int
  <2>1. t.async = IF b.async THEN s.async + b.size + Header ELSE s.async
    BY <1>1 DEF Marked, FreeRange, States
  <2>2. s.async \in Int
    BY <1>1 DEF States
  <2> QED BY <1>2, <1>4, <2>1, <2>2 DEF Held
<1>8. t.buffers = [bufs EXCEPT ![i] = Idle(b.at)]
  <2>1. t.buffers = [bufs EXCEPT ![i] = [b EXCEPT !.free = TRUE, !.size = 0, !.async = FALSE]]
    BY <1>1 DEF Marked, FreeRange, States
  <2>2. [b EXCEPT !.free = TRUE, !.size = 0, !.async = FALSE] = Idle(b.at)
    BY <1>2, IdleIsBuffer, Zenon
  <2> QED BY <2>1, <2>2
<1> HIDE DEF bufs, b, range
<1>9. /\ Tiled(t.buffers) /\ Len(t.buffers) = Len(bufs) /\ DOMAIN t.buffers = DOMAIN bufs
      /\ t.buffers[i] = Idle(b.at) /\ \A j \in DOMAIN bufs \ {i} : t.buffers[j] = bufs[j]
  BY <1>1, <1>8, MarkKeepsTiled DEF bufs, b
<1>10. ASSUME NEW p \in range PROVE p \in Nat /\ On(bufs, p)
  <2>1. p \in Nat /\ Lo(p) \in Nat /\ Data(b) <= Lo(p) /\ Lo(p) + Page <= EndOf(bufs, i)
    BY <1>5, PagesAscend DEF Inside, b
  <2>2. DataOn(b, p)
    BY <1>2, <1>3, <1>4, <2>1 DEF DataOn, b, bufs
  <2> QED BY <2>1, <2>2 DEF On, b, bufs
<1>11. t.bug = FALSE
  BY <1>1, <1>6, <1>10, Zenon DEF PagesOf
<1>12. ASSUME NEW p \in Nat PROVE On(t.buffers, p) <=> On(bufs, p) /\ p \notin range
  <2>0. i \in DOMAIN bufs /\ ~DataOn(Idle(b.at), p) /\ (HeaderOn(Idle(b.at), p) <=> HeaderOn(b, p)) /\ b = bufs[i]
    BY DEF DataOn, HeaderOn, Data, Idle, bufs, b
  <2>1. On(t.buffers, p) <=> \/ HeaderOn(b, p)
                             \/ \E j \in DOMAIN bufs \ {i} : HeaderOn(bufs[j], p) \/ DataOn(bufs[j], p)
    BY <1>9, <2>0 DEF On
  <2>2. On(bufs, p) <=> \/ HeaderOn(b, p) \/ DataOn(b, p)
                        \/ \E j \in DOMAIN bufs \ {i} : HeaderOn(bufs[j], p) \/ DataOn(bufs[j], p)
    BY <2>0 DEF On
  <2>3. ASSUME p \in range PROVE ~On(t.buffers, p)
    BY <1>1, <1>5, <2>0, <2>1, <2>3, InsideIsClear
  <2>4. ASSUME DataOn(b, p), p \notin range PROVE On(t.buffers, p)
    <3>1. /\ ~Inside(bufs, i, p) /\ Lo(p) \in Nat /\ Data(bufs[i]) < Lo(p) + Page /\ Lo(p) < EndOf(bufs, i)
      BY <1>2, <1>4, <1>5, <2>4, PagesAscend DEF DataOn, b
    <3>2. HeaderOn(bufs[i], p) \/ (i + 1 \in DOMAIN bufs /\ HeaderOn(bufs[i + 1], p))
      BY <1>1, <2>0, <3>1, EdgeHasHeader
    <3>3. i + 1 # i
      BY <1>1, <2>0
    <3> QED BY <2>0, <2>1, <3>2, <3>3
  <2> QED BY <2>1, <2>2, <2>3, <2>4
<1>13. t.pages = PagesOf(t.buffers)
  BY <1>1, <1>6, <1>12 DEF PagesOf
<1>14. t \in States
  <2>1. t.buffers \in Seq(Buffer) /\ t.pages \in SUBSET Nat
    BY <1>9, <1>13 DEF Tiled, PagesOf
  <2> QED BY <1>6, <1>7, <1>11, <2>1, Zenon DEF States
<1> QED BY <1>7, <1>8, <1>9, <1>11, <1>13, <1>14 DEF Good, bufs, b

-----------------------------------------------------------------------------
\* P has the sums of the first elements of w.
IsSum(w, P) ==
  /\ P \in [0 .. Len(w) -> Int] /\ P[0] = 0
  /\ \A n \in 1 .. Len(w) : P[n] = P[n - 1] + w[n]

\* Total computes such sums.
LEMMA TotalIs ==
  ASSUME NEW w \in Seq(Int), NEW P, IsSum(w, P)
  PROVE  Total(w) = P[Len(w)] /\ Total(w) \in Int
<1> DEFINE sum == CHOOSE g : g = [n \in 0 .. Len(w) |-> IF n = 0 THEN 0 ELSE g[n - 1] + w[n]]
<1>1. Total(w) = sum[Len(w)]
  BY DEF Total
<1>2. Len(w) \in Nat /\ P \in [0 .. Len(w) -> Int] /\ P[0] = 0 /\ \A n \in 1 .. Len(w) : P[n] = P[n - 1] + w[n]
  BY DEF IsSum
<1>3. P = [n \in 0 .. Len(w) |-> IF n = 0 THEN 0 ELSE P[n - 1] + w[n]]
  BY <1>2
<1>4. sum = [n \in 0 .. Len(w) |-> IF n = 0 THEN 0 ELSE sum[n - 1] + w[n]]
  BY <1>3, Zenon
<1> HIDE DEF sum
<1> DEFINE T == {n \in 0 .. Len(w) : sum[n] # P[n]}
<1>5. T = {}
  <2> SUFFICES ASSUME T # {} PROVE FALSE
    OBVIOUS
  <2>1. PICK m \in T : \A k \in T : m <= k
    <3>1. T \in SUBSET Nat
      BY <1>2
    <3> QED BY <3>1, LeastNumber, Zenon
  <2>2. m \in 0 .. Len(w) /\ sum[m] # P[m]
    OBVIOUS
  <2>3. m # 0
    BY <1>2, <1>4, <2>2
  <2>4. m - 1 \in 0 .. Len(w) /\ sum[m - 1] = P[m - 1]
    <3>1. m - 1 \in 0 .. Len(w) /\ ~(m <= m - 1)
      BY <1>2, <2>2, <2>3
    <3> QED BY <2>1, <3>1
  <2>5. sum[m] = sum[m - 1] + w[m]
    BY <1>4, <2>2, <2>3, Zenon
  <2>6. P[m] = P[m - 1] + w[m]
    BY <1>2, <2>2, <2>3
  <2> QED BY <2>2, <2>4, <2>5, <2>6
<1> QED BY <1>1, <1>2, <1>5

\* Every list of numbers has its sums.
LEMMA SumsExist ==
  ASSUME NEW w \in Seq(Int)
  PROVE  \E P : IsSum(w, P)
<1> DEFINE Sums(n, Q) == /\ Q \in [0 .. n -> Int] /\ Q[0] = 0
                         /\ \A k \in 1 .. n : Q[k] = Q[k - 1] + w[k]
           T == {n \in 0 .. Len(w) : ~\E Q : Sums(n, Q)}
<1>1. Len(w) \in Nat /\ \A n \in 1 .. Len(w) : w[n] \in Int
  OBVIOUS
<1>2. T = {}
  <2> SUFFICES ASSUME T # {} PROVE FALSE
    OBVIOUS
  <2>1. PICK m \in T : \A k \in T : m <= k
    <3>1. T \in SUBSET Nat
      BY <1>1
    <3> HIDE DEF T
    <3> QED BY <3>1, LeastNumber, Zenon
  <2>2. m \in 0 .. Len(w) /\ ~\E Q : Sums(m, Q)
    OBVIOUS
  <2>3. m # 0
    <3>1. Sums(0, [n \in 0 .. 0 |-> 0])
      OBVIOUS
    <3> QED BY <2>2, <3>1, Zenon
  <2>4. m - 1 \in 0 .. Len(w) /\ m - 1 \in Nat /\ m \in 1 .. Len(w)
    BY <1>1, <2>2, <2>3
  <2>5. PICK Q : Sums(m - 1, Q)
    <3>1. ~(m <= m - 1)
      BY <2>4
    <3> QED BY <2>1, <2>4, <3>1, Zenon
  <2> DEFINE R == [n \in 0 .. m |-> IF n < m THEN Q[n] ELSE Q[m - 1] + w[m]]
  <2>6. Q[m - 1] \in Int /\ w[m] \in Int /\ \A n \in 0 .. m : n < m => Q[n] \in Int
    BY <1>1, <2>4, <2>5
  <2>7. R \in [0 .. m -> Int]
    BY <2>6
  <2>8. R[0] = 0
    BY <2>4, <2>5
  <2>9. ASSUME NEW k \in 1 .. m PROVE R[k] = R[k - 1] + w[k]
    <3>1. CASE k = m
      BY <2>4, <3>1
    <3>2. CASE k # m
      <4>1. k \in 1 .. m - 1 /\ k - 1 < m /\ k < m /\ k \in 0 .. m /\ k - 1 \in 0 .. m
        BY <2>4, <2>9, <3>2
      <4> QED BY <2>5, <4>1
    <3> QED BY <3>1, <3>2
  <2>10. Sums(m, R)
    <3> HIDE DEF R
    <3> QED BY <2>7, <2>8, <2>9
  <2> QED BY <2>2, <2>10, Zenon
<1>3. \E Q : Sums(Len(w), Q)
  <2>1. Len(w) \in 0 .. Len(w)
    BY <1>1
  <2> QED BY <1>2, <2>1, Zenon
<1> QED BY <1>3 DEF IsSum

\* The sum of a list without one of its elements.
LEMMA TotalRemoved ==
  ASSUME NEW w \in Seq(Int), NEW i \in DOMAIN w
  PROVE  Total(Removed(w, i)) = Total(w) - w[i]
<1>1. PICK P : IsSum(w, P)
  BY SumsExist
<1> DEFINE len == Len(w)
           t == Removed(w, i)
           Q == [n \in 0 .. len - 1 |-> IF n < i THEN P[n] ELSE P[n + 1] - w[i]]
<1>2. len \in Nat /\ i \in 1 .. len /\ P \in [0 .. len -> Int] /\ P[0] = 0
  BY <1>1 DEF IsSum
<1>3. \A n \in 1 .. len : w[n] \in Int /\ P[n] = P[n - 1] + w[n]
  BY <1>1 DEF IsSum
<1>4. Total(w) = P[len]
  BY <1>1, TotalIs
<1>5. /\ t \in Seq(Int) /\ Len(t) = len - 1 /\ DOMAIN t = 1 .. len - 1
      /\ \A k \in DOMAIN t : /\ k < i => t[k] = w[k]
                             /\ ~(k < i) => t[k] = w[k + 1]
  BY RemovedIs
<1>6. w[i] \in Int
  OBVIOUS
<1> HIDE DEF t, len
<1>7. \A n \in 0 .. len : P[n] \in Int
  BY <1>2
<1>8. \A n \in 0 .. len - 1 : n \in 0 .. len /\ n + 1 \in 0 .. len
  BY <1>2
<1>9. Q \in [0 .. len - 1 -> Int] /\ Q[0] = 0
  BY <1>2, <1>6, <1>7, <1>8
<1>10. ASSUME NEW n \in 1 .. len - 1 PROVE Q[n] = Q[n - 1] + t[n]
  <2>0. /\ n \in 0 .. len - 1 /\ n - 1 \in 0 .. len - 1 /\ n \in DOMAIN t /\ n \in 1 .. len /\ n + 1 \in 1 .. len
        /\ (n - 1) + 1 = n /\ (n + 1) - 1 = n /\ i \in Int /\ n \in Int
    BY <1>2, <1>5
  <2>1. P[n] = P[n - 1] + w[n] /\ w[n] \in Int /\ P[n] \in Int /\ P[n - 1] \in Int
    BY <1>3, <1>7, <1>8, <2>0, Zenon
  <2>2. P[n + 1] = P[n] + w[n + 1] /\ w[n + 1] \in Int
    <3>1. P[n + 1] = P[(n + 1) - 1] + w[n + 1] /\ w[n + 1] \in Int
      BY <1>3, <2>0
    <3> QED BY <2>0, <3>1
  <2>3. /\ Q[n] = IF n < i THEN P[n] ELSE P[n + 1] - w[i]
        /\ Q[n - 1] = IF n - 1 < i THEN P[n - 1] ELSE P[(n - 1) + 1] - w[i]
    BY <2>0
  <2>4. t[n] = IF n < i THEN w[n] ELSE w[n + 1]
    BY <1>5, <2>0
  <2> HIDE DEF Q
  <2>5. CASE n < i
    <3>1. n - 1 < i
      BY <2>0, <2>5
    <3> QED BY <2>1, <2>3, <2>4, <2>5, <3>1
  <2>6. CASE n = i
    <3>1. n - 1 < i /\ ~(n < i)
      BY <2>0, <2>6
    <3> QED BY <2>1, <2>2, <2>3, <2>4, <2>6, <3>1, SMTT(20)
  <2>7. CASE n > i
    <3>1. ~(n - 1 < i) /\ ~(n < i)
      BY <2>0, <2>7
    <3>2. Q[n - 1] = P[n] - w[i]
      BY <2>0, <2>3, <3>1
    <3> QED BY <1>6, <2>1, <2>2, <2>3, <2>4, <3>1, <3>2
  <2> QED BY <2>0, <2>5, <2>6, <2>7
<1>11. IsSum(t, Q)
  <2> HIDE DEF Q
  <2> QED BY <1>5, <1>9, <1>10 DEF IsSum
<1>12. Total(t) = Q[len - 1]
  BY <1>5, <1>11, TotalIs
<1>13. Q[len - 1] = P[len] - w[i]
  <2>1. len - 1 \in 0 .. len - 1 /\ (len - 1) + 1 = len /\ len \in 1 .. len
    BY <1>2
  <2>2. Q[len - 1] = IF len - 1 < i THEN P[len - 1] ELSE P[len] - w[i]
    BY <2>1
  <2>3. P[len] = P[len - 1] + w[len] /\ P[len - 1] \in Int
    BY <1>3, <1>7, <1>8, <2>1
  <2>4. len - 1 < i => i = len
    BY <1>2
  <2> QED BY <1>6, <2>2, <2>3, <2>4
<1> QED BY <1>4, <1>12, <1>13 DEF t

\* The sum of a list one of whose elements is replaced.
LEMMA TotalReplaced ==
  ASSUME NEW w \in Seq(Int), NEW i \in DOMAIN w, NEW x \in Int
  PROVE  Total([w EXCEPT ![i] = x]) = Total(w) - w[i] + x
<1>1. PICK P : IsSum(w, P)
  BY SumsExist
<1> DEFINE len == Len(w)
           t == [w EXCEPT ![i] = x]
           Q == [n \in 0 .. len |-> IF n < i THEN P[n] ELSE P[n] - w[i] + x]
<1>2. len \in Nat /\ i \in 1 .. len /\ P \in [0 .. len -> Int] /\ P[0] = 0
  BY <1>1 DEF IsSum
<1>3. \A n \in 1 .. len : w[n] \in Int /\ P[n] = P[n - 1] + w[n]
  BY <1>1 DEF IsSum
<1>4. Total(w) = P[len]
  BY <1>1, TotalIs
<1>5. /\ t \in Seq(Int) /\ Len(t) = len /\ t[i] = x /\ \A n \in 1 .. len : n # i => t[n] = w[n]
  OBVIOUS
<1>6. w[i] \in Int
  OBVIOUS
<1> HIDE DEF t, len
<1>7. \A n \in 0 .. len : P[n] \in Int
  BY <1>2
<1>8. Q \in [0 .. len -> Int] /\ Q[0] = 0
  BY <1>2, <1>6, <1>7
<1>9. ASSUME NEW n \in 1 .. len PROVE Q[n] = Q[n - 1] + t[n]
  <2>0. n \in 0 .. len /\ n - 1 \in 0 .. len /\ n \in Int /\ i \in Int
    BY <1>2
  <2>1. P[n] = P[n - 1] + w[n] /\ w[n] \in Int /\ P[n - 1] \in Int
    BY <1>3, <1>7, <2>0
  <2>2. /\ Q[n] = IF n < i THEN P[n] ELSE P[n] - w[i] + x
        /\ Q[n - 1] = IF n - 1 < i THEN P[n - 1] ELSE P[n - 1] - w[i] + x
    BY <2>0
  <2>3. t[n] = IF n = i THEN x ELSE w[n]
    BY <1>5
  <2> HIDE DEF Q
  <2>4. CASE n < i
    BY <2>0, <2>1, <2>2, <2>3, <2>4
  <2>5. CASE n = i
    BY <1>6, <2>0, <2>1, <2>2, <2>3, <2>5
  <2>6. CASE n > i
    BY <1>6, <2>0, <2>1, <2>2, <2>3, <2>6
  <2> QED BY <2>0, <2>4, <2>5, <2>6
<1>10. IsSum(t, Q)
  <2> HIDE DEF Q
  <2> QED BY <1>5, <1>8, <1>9 DEF IsSum
<1>11. Total(t) = Q[len]
  BY <1>5, <1>10, TotalIs
<1>12. Q[len] = P[len] - w[i] + x
  BY <1>2
<1> QED BY <1>4, <1>11, <1>12 DEF t

\* The list with another element in front of its i-th.
LEMMA InsertedIs ==
  ASSUME NEW X, NEW s \in Seq(X), NEW i \in 1 .. Len(s) + 1, NEW x \in X, NEW t, t = Inserted(s, i, x)
  PROVE  /\ t \in Seq(X) /\ Len(t) = Len(s) + 1 /\ DOMAIN t = 1 .. Len(t) /\ i \in DOMAIN t /\ t[i] = x
         /\ \A k \in DOMAIN t : /\ k < i => k \in DOMAIN s /\ t[k] = s[k]
                                /\ k > i => k - 1 \in DOMAIN s /\ t[k] = s[k - 1]
         /\ Removed(t, i) = s
<1>1. Len(s) \in Nat /\ DOMAIN s = 1 .. Len(s) /\ i \in Nat /\ s = [k \in 1 .. Len(s) |-> s[k]]
  OBVIOUS
<1>2. t = [k \in 1 .. Len(s) + 1 |-> IF k < i THEN s[k] ELSE IF k = i THEN x ELSE s[k - 1]]
  BY DEF Inserted
<1>3. \A k \in 1 .. Len(s) + 1 :
        /\ k < i => k \in DOMAIN s /\ t[k] = s[k]
        /\ k > i => k - 1 \in DOMAIN s /\ t[k] = s[k - 1]
        /\ k = i => t[k] = x
        /\ t[k] \in X
  <2> SUFFICES ASSUME NEW k \in 1 .. Len(s) + 1
               PROVE  /\ k < i => k \in DOMAIN s /\ t[k] = s[k]
                      /\ k > i => k - 1 \in DOMAIN s /\ t[k] = s[k - 1]
                      /\ k = i => t[k] = x
                      /\ t[k] \in X
    OBVIOUS
  <2>1. CASE k < i
    BY <1>1, <1>2, <2>1
  <2>2. CASE k = i
    BY <1>1, <1>2, <2>2
  <2>3. CASE k > i
    <3>1. k - 1 \in DOMAIN s /\ ~(k < i) /\ k # i
      BY <1>1, <2>3
    <3>2. t[k] = s[k - 1]
      BY <1>2, <3>1
    <3> QED BY <1>1, <2>3, <3>1, <3>2
  <2> QED BY <1>1, <2>1, <2>2, <2>3
<1>4. t \in [1 .. Len(s) + 1 -> X]
  BY <1>2, <1>3
<1>5. Len(s) + 1 \in Nat /\ t \in Seq(X) /\ Len(t) = Len(s) + 1 /\ DOMAIN t = 1 .. Len(s) + 1
  BY <1>1, <1>4
<1>6. Removed(t, i) = s
  <2>1. Removed(t, i) = [k \in 1 .. Len(s) |-> IF k < i THEN t[k] ELSE t[k + 1]]
    <3>1. Len(t) - 1 = Len(s)
      BY <1>1, <1>5
    <3> QED BY <3>1 DEF Removed
  <2>2. ASSUME NEW k \in 1 .. Len(s) PROVE (IF k < i THEN t[k] ELSE t[k + 1]) = s[k]
    <3>1. CASE k < i
      <4>1. k \in 1 .. Len(s) + 1
        BY <1>1
      <4> QED BY <1>3, <3>1, <4>1
    <3>2. CASE ~(k < i)
      <4>1. k + 1 \in 1 .. Len(s) + 1 /\ k + 1 > i /\ (k + 1) - 1 = k
        BY <1>1, <3>2
      <4> QED BY <1>3, <3>2, <4>1
    <3> QED BY <3>1, <3>2
  <2>3. [k \in 1 .. Len(s) |-> IF k < i THEN t[k] ELSE t[k + 1]] = [k \in 1 .. Len(s) |-> s[k]]
    BY <2>2
  <2> QED BY <1>1, <2>1, <2>3
<1> QED BY <1>1, <1>3, <1>5, <1>6

-----------------------------------------------------------------------------
\* What each buffer takes of the space for one-way calls; one that is free takes
\* nothing.
Weights(bufs) == [j \in DOMAIN bufs |-> IF bufs[j].async THEN bufs[j].size + Header ELSE 0]
Unclaimed(bufs) == \A j \in DOMAIN bufs : bufs[j].free => ~bufs[j].async

\* The weights of a list of buffers are numbers.
LEMMA WeightsAre ==
  ASSUME NEW bufs \in Seq(Buffer)
  PROVE  /\ Weights(bufs) \in Seq(Int) /\ Len(Weights(bufs)) = Len(bufs)
         /\ DOMAIN Weights(bufs) = DOMAIN bufs
         /\ \A j \in DOMAIN bufs : Weights(bufs)[j] = Held(bufs[j]) /\ Held(bufs[j]) \in Int
<1>1. /\ Len(bufs) \in Nat /\ DOMAIN bufs = 1 .. Len(bufs) /\ \A j \in DOMAIN bufs : bufs[j] \in Buffer
  OBVIOUS
<1>2. ASSUME NEW b \in Buffer PROVE Held(b) \in Int
  BY LayoutAssumption DEF Held, Buffer
<1>3. Weights(bufs) = [j \in 1 .. Len(bufs) |-> Held(bufs[j])]
  BY <1>1 DEF Weights, Held
<1>4. \A j \in 1 .. Len(bufs) : Held(bufs[j]) \in Int
  BY <1>1, <1>2
<1> HIDE DEF Held
<1>5. Weights(bufs) \in [1 .. Len(bufs) -> Int]
  BY <1>3, <1>4
<1>6. Weights(bufs) \in Seq(Int) /\ Len(Weights(bufs)) = Len(bufs)
  BY <1>1, <1>5
<1> QED BY <1>1, <1>3, <1>4, <1>6

\* A buffer that takes nothing can be removed and inserted without a difference.
LEMMA WeightRemoved ==
  ASSUME NEW bufs \in Seq(Buffer), NEW i \in DOMAIN bufs, ~bufs[i].async, Unclaimed(bufs)
  PROVE  /\ Total(Weights(Removed(bufs, i))) = Total(Weights(bufs))
         /\ Unclaimed(Removed(bufs, i))
<1> DEFINE t == Removed(bufs, i)
<1>1. /\ t \in Seq(Buffer) /\ Len(t) = Len(bufs) - 1 /\ DOMAIN t = 1 .. Len(t)
      /\ \A k \in DOMAIN t : /\ k < i => k \in DOMAIN bufs /\ t[k] = bufs[k]
                             /\ ~(k < i) => k + 1 \in DOMAIN bufs /\ t[k] = bufs[k + 1]
  BY RemovedIs
<1>2. /\ Weights(bufs) \in Seq(Int) /\ Len(Weights(bufs)) = Len(bufs) /\ DOMAIN Weights(bufs) = DOMAIN bufs
      /\ Weights(bufs)[i] = 0
  BY WeightsAre DEF Held
<1>3. Weights(t) = Removed(Weights(bufs), i)
  <2>1. Removed(Weights(bufs), i) =
          [k \in 1 .. Len(bufs) - 1 |-> IF k < i THEN Weights(bufs)[k] ELSE Weights(bufs)[k + 1]]
    BY <1>2 DEF Removed
  <2>2. \A j \in DOMAIN bufs : Weights(bufs)[j] = Held(bufs[j])
    BY WeightsAre
  <2>3. ASSUME NEW k \in DOMAIN t
        PROVE  Held(t[k]) = IF k < i THEN Weights(bufs)[k] ELSE Weights(bufs)[k + 1]
    BY <1>1, <2>2
  <2>4. Weights(t) = [k \in DOMAIN t |-> Held(t[k])]
    BY DEF Weights, Held
  <2> QED BY <1>1, <2>1, <2>3, <2>4
<1>4. Total(Removed(Weights(bufs), i)) = Total(Weights(bufs)) - 0
  BY <1>2, TotalRemoved
<1>5. Total(Weights(bufs)) \in Int
  BY <1>2, SumsExist, TotalIs
<1>6. Unclaimed(t)
  BY <1>1 DEF Unclaimed
<1> QED BY <1>3, <1>4, <1>5, <1>6

\* What merging free buffers leaves alone: the buffers in use, and what they take
\* of the space for one-way calls.
Kept(s, t) ==
  /\ InUse(t.buffers) = InUse(s.buffers) /\ t.async = s.async
  /\ Unclaimed(s.buffers) =>
       Unclaimed(t.buffers) /\ Total(Weights(t.buffers)) = Total(Weights(s.buffers))

\* No two neighbours are free, except for buffer i and the ones next to it.
JoinedBut(bufs, i) ==
  \A k \in DOMAIN bufs : k > 1 /\ k # i /\ k # i + 1 => ~(bufs[k - 1].free /\ bufs[k].free)

\* A merge leaves the buffers in use alone.
LEMMA DeleteFreeKeeps ==
  ASSUME NEW s, Good(s), NEW i \in DOMAIN s.buffers, i > 1, s.buffers[i].free, s.buffers[i - 1].free,
         NEW t, t = DeleteFree(s, i)
  PROVE  Good(t) /\ Kept(s, t) /\ t.buffers = Removed(s.buffers, i)
<1> DEFINE bufs == s.buffers
           rest == t.buffers
<1>1. Good(t) /\ rest = Removed(bufs, i) /\ t.async = s.async
  BY DeleteFreeIsGood
<1>2. bufs \in Seq(Buffer) /\ i \in DOMAIN bufs /\ bufs[i].free
  BY DEF Good, Tiled
<1> HIDE DEF bufs, rest
<1>3. /\ Len(bufs) \in Nat /\ DOMAIN bufs = 1 .. Len(bufs) /\ i \in 1 .. Len(bufs)
      /\ Len(rest) = Len(bufs) - 1 /\ DOMAIN rest = 1 .. Len(rest)
      /\ \A k \in DOMAIN rest : /\ k < i => k \in DOMAIN bufs /\ rest[k] = bufs[k]
                                /\ ~(k < i) => k + 1 \in DOMAIN bufs /\ rest[k] = bufs[k + 1]
  BY <1>1, <1>2, RemovedIs
<1>4. InUse(rest) \subseteq InUse(bufs)
  BY <1>3 DEF InUse
<1>5. InUse(bufs) \subseteq InUse(rest)
  <2> SUFFICES ASSUME NEW j \in DOMAIN bufs, ~bufs[j].free PROVE \E k \in DOMAIN rest : rest[k] = bufs[j]
    BY DEF InUse
  <2>1. j # i
    BY <1>2
  <2>2. CASE j < i
    <3>1. j \in DOMAIN rest
      BY <1>3, <2>2
    <3> QED BY <1>3, <2>2, <3>1
  <2>3. CASE ~(j < i)
    <3>1. j - 1 \in DOMAIN rest /\ ~(j - 1 < i) /\ (j - 1) + 1 = j
      BY <1>3, <2>1, <2>3
    <3> QED BY <1>3, <3>1
  <2> QED BY <2>2, <2>3
<1>6. Unclaimed(bufs) => Unclaimed(rest) /\ Total(Weights(rest)) = Total(Weights(bufs))
  <2> SUFFICES ASSUME Unclaimed(bufs) PROVE Unclaimed(rest) /\ Total(Weights(rest)) = Total(Weights(bufs))
    OBVIOUS
  <2>1. ~bufs[i].async
    BY <1>2 DEF Unclaimed
  <2> QED BY <1>1, <1>2, <2>1, WeightRemoved
<1> QED BY <1>1, <1>4, <1>5, <1>6, Zenon DEF Kept, bufs, rest

\* binder_free_buf joins the buffer with both neighbours: no two free ones are left
\* next to each other.
LEMMA MergedIs ==
  ASSUME NEW s, Good(s), NEW i \in DOMAIN s.buffers, s.buffers[i].free, JoinedBut(s.buffers, i),
         NEW t, t = Merged(s, i)
  PROVE  Good(t) /\ Kept(s, t) /\ Joined(t.buffers)
<1>1. /\ s.buffers \in Seq(Buffer) /\ Len(s.buffers) \in Nat /\ DOMAIN s.buffers = 1 .. Len(s.buffers)
      /\ i \in 1 .. Len(s.buffers)
  BY DEF Good, Tiled
<1> DEFINE u == IF i < Len(s.buffers) /\ s.buffers[i + 1].free THEN DeleteFree(s, i + 1) ELSE s
<1>2. t = IF i > 1 /\ u.buffers[i - 1].free THEN DeleteFree(u, i) ELSE u
  BY DEF Merged
<1>3. /\ Good(u) /\ Kept(s, u) /\ i \in DOMAIN u.buffers /\ u.buffers[i].free
      /\ \A k \in DOMAIN u.buffers : k > 1 /\ k # i => ~(u.buffers[k - 1].free /\ u.buffers[k].free)
  <2>1. CASE i < Len(s.buffers) /\ s.buffers[i + 1].free
    <3>0. u = DeleteFree(s, i + 1)
      BY <2>1
    <3> HIDE DEF u
    <3>1. u = DeleteFree(s, i + 1) /\ i + 1 \in DOMAIN s.buffers /\ i + 1 > 1 /\ (i + 1) - 1 = i
      BY <1>1, <2>1, <3>0
    <3>2. Good(u) /\ Kept(s, u) /\ u.buffers = Removed(s.buffers, i + 1)
      BY <2>1, <3>1, DeleteFreeKeeps
    <3>3. /\ Len(u.buffers) = Len(s.buffers) - 1 /\ DOMAIN u.buffers = 1 .. Len(u.buffers)
          /\ \A k \in DOMAIN u.buffers :
                /\ k < i + 1 => k \in DOMAIN s.buffers /\ u.buffers[k] = s.buffers[k]
                /\ ~(k < i + 1) => k + 1 \in DOMAIN s.buffers /\ u.buffers[k] = s.buffers[k + 1]
      <4> DEFINE bufs == s.buffers
                 rest == u.buffers
      <4>1. bufs \in Seq(Buffer) /\ i + 1 \in DOMAIN bufs /\ rest = Removed(bufs, i + 1)
        BY <1>1, <3>1, <3>2
      <4> HIDE DEF bufs, rest
      <4>2. /\ Len(rest) = Len(bufs) - 1 /\ DOMAIN rest = 1 .. Len(rest)
            /\ \A k \in DOMAIN rest :
                  /\ k < i + 1 => k \in DOMAIN bufs /\ rest[k] = bufs[k]
                  /\ ~(k < i + 1) => k + 1 \in DOMAIN bufs /\ rest[k] = bufs[k + 1]
        BY <4>1, RemovedIs
      <4> QED BY <4>2 DEF bufs, rest
    <3>4. i \in DOMAIN u.buffers /\ i < i + 1
      BY <1>1, <2>1, <3>3
    <3>5. ASSUME NEW k \in DOMAIN u.buffers, k > 1, k # i
          PROVE  ~(u.buffers[k - 1].free /\ u.buffers[k].free)
      <4>0. k - 1 \in DOMAIN u.buffers /\ k \in Int
        BY <1>1, <3>3, <3>5
      <4>1. CASE k < i
        <5>1. /\ k < i + 1 /\ k - 1 < i + 1 /\ k # i + 1
          BY <1>1, <4>0, <4>1
        <5> QED BY <3>3, <3>5, <4>0, <5>1 DEF JoinedBut
      <4>2. CASE k = i + 1
        <5>1. /\ k - 1 < i + 1 /\ ~(k < i + 1) /\ k - 1 = i
          BY <1>1, <4>2
        <5>2. k + 1 \in DOMAIN s.buffers /\ u.buffers[k] = s.buffers[k + 1]
          BY <3>3, <5>1
        <5>3. k + 1 > 1 /\ k + 1 # i /\ k + 1 # i + 1 /\ (k + 1) - 1 = i + 1
          BY <1>1, <4>2
        <5>4. ~(s.buffers[i + 1].free /\ s.buffers[k + 1].free)
          BY <5>2, <5>3 DEF JoinedBut
        <5> QED BY <2>1, <5>2, <5>4
      <4>3. CASE k > i + 1
        <5>1. /\ ~(k < i + 1) /\ ~(k - 1 < i + 1) /\ (k - 1) + 1 = k /\ k + 1 > 1 /\ k + 1 # i /\ k + 1 # i + 1 /\ (k + 1) - 1 = k
          BY <1>1, <4>0, <4>3
        <5>2. k + 1 \in DOMAIN s.buffers /\ u.buffers[k] = s.buffers[k + 1] /\ u.buffers[k - 1] = s.buffers[k]
          BY <3>3, <4>0, <5>1
        <5>3. ~(s.buffers[k].free /\ s.buffers[k + 1].free)
          BY <5>1, <5>2 DEF JoinedBut
        <5> QED BY <5>2, <5>3
      <4> QED BY <1>1, <3>5, <4>0, <4>1, <4>2, <4>3
    <3> QED BY <3>2, <3>3, <3>4, <3>5
  <2>2. CASE ~(i < Len(s.buffers) /\ s.buffers[i + 1].free)
    <3>1. u = s
      BY <2>2
    <3> HIDE DEF u
    <3>2. ASSUME NEW k \in DOMAIN s.buffers, k > 1, k # i PROVE ~(s.buffers[k - 1].free /\ s.buffers[k].free)
      <4>1. CASE k = i + 1
        BY <1>1, <2>2, <4>1
      <4>2. CASE k # i + 1
        BY <3>2, <4>2 DEF JoinedBut
      <4> QED BY <4>1, <4>2
    <3> QED BY <3>1, <3>2 DEF Kept
  <2> QED BY <2>1, <2>2, Zenon
<1> HIDE DEF u
<1>4. CASE i > 1 /\ u.buffers[i - 1].free
  <2>1. t = DeleteFree(u, i)
    BY <1>2, <1>4
  <2>2. Good(t) /\ Kept(u, t) /\ t.buffers = Removed(u.buffers, i)
    BY <1>3, <1>4, <2>1, DeleteFreeKeeps
  <2>3. u.buffers \in Seq(Buffer) /\ DOMAIN u.buffers = 1 .. Len(u.buffers) /\ Len(u.buffers) \in Nat
    BY <1>3 DEF Good, Tiled
  <2>4. /\ Len(t.buffers) = Len(u.buffers) - 1 /\ DOMAIN t.buffers = 1 .. Len(t.buffers)
        /\ \A k \in DOMAIN t.buffers :
              /\ k < i => k \in DOMAIN u.buffers /\ t.buffers[k] = u.buffers[k]
              /\ ~(k < i) => k + 1 \in DOMAIN u.buffers /\ t.buffers[k] = u.buffers[k + 1]
    <3> DEFINE bufs == u.buffers
               rest == t.buffers
    <3>1. bufs \in Seq(Buffer) /\ i \in DOMAIN bufs /\ rest = Removed(bufs, i)
      BY <1>3, <2>2, <2>3
    <3> HIDE DEF bufs, rest
    <3>2. /\ Len(rest) = Len(bufs) - 1 /\ DOMAIN rest = 1 .. Len(rest)
          /\ \A k \in DOMAIN rest :
                /\ k < i => k \in DOMAIN bufs /\ rest[k] = bufs[k]
                /\ ~(k < i) => k + 1 \in DOMAIN bufs /\ rest[k] = bufs[k + 1]
      BY <3>1, RemovedIs
    <3> QED BY <3>2 DEF bufs, rest
  <2>5. ASSUME NEW k \in DOMAIN t.buffers, k > 1 PROVE ~(t.buffers[k - 1].free /\ t.buffers[k].free)
    <3>0. k - 1 \in DOMAIN t.buffers /\ k \in Int /\ i \in Int
      BY <1>1, <2>3, <2>4, <2>5
    <3>1. CASE k < i
      <4>1. k - 1 < i /\ k # i
        BY <3>0, <3>1
      <4> QED BY <1>3, <2>4, <2>5, <3>0, <3>1, <4>1
    <3>2. CASE ~(k < i)
      <4>1. k + 1 \in DOMAIN u.buffers /\ t.buffers[k] = u.buffers[k + 1] /\ k + 1 > 1 /\ k + 1 # i /\ (k + 1) - 1 = k
        BY <2>4, <2>5, <3>0, <3>2
      <4>2. ~(u.buffers[k].free /\ u.buffers[k + 1].free)
        BY <1>3, <4>1
      <4>3. t.buffers[k - 1].free => u.buffers[k].free
        <5>1. CASE k = i
          BY <1>3, <5>1
        <5>2. CASE k # i
          <6>1. ~(k - 1 < i) /\ (k - 1) + 1 = k
            BY <3>0, <3>2, <5>2
          <6> QED BY <2>4, <3>0, <6>1
        <5> QED BY <5>1, <5>2
      <4> QED BY <4>1, <4>2, <4>3
    <3> QED BY <3>1, <3>2
  <2> QED BY <1>3, <2>2, <2>5 DEF Kept, Joined
<1>5. CASE ~(i > 1 /\ u.buffers[i - 1].free)
  <2>1. t = u
    BY <1>2, <1>5
  <2> QED BY <1>3, <1>5, <2>1 DEF Joined
<1> QED BY <1>4, <1>5

\* free_async_space and the buffers of one-way calls make half of the area.
Accounted(s) == Unclaimed(s.buffers) /\ s.async = AreaSize \div 2 - Total(Weights(s.buffers))

\* binder_free_buf frees one buffer and keeps all the rest.
LEMMA FreedIs ==
  ASSUME NEW s, Good(s), Joined(s.buffers), NEW i \in DOMAIN s.buffers, ~s.buffers[i].free,
         NEW t, t = Freed(s, i)
  PROVE  /\ Good(t) /\ Joined(t.buffers)
         /\ InUse(t.buffers) = InUse(s.buffers) \ {s.buffers[i]} /\ s.buffers[i] \in InUse(s.buffers)
         /\ Accounted(s) => Accounted(t)
<1> DEFINE u == Marked(s, i)
           bufs == s.buffers
           b == bufs[i]
           rest == u.buffers
<1>1. t = Merged(u, i)
  BY DEF Freed, Marked
<1>2. Good(u) /\ rest = [bufs EXCEPT ![i] = Idle(b.at)] /\ u.async = s.async + Held(b)
  BY MarkedIsGood
<1>3. bufs \in Seq(Buffer) /\ i \in DOMAIN bufs /\ ~b.free /\ Tiled(bufs) /\ Joined(bufs) /\ b = bufs[i] /\ b \in Buffer
  <2>1. bufs \in Seq(Buffer)
    BY DEF Good, Tiled
  <2> QED BY <2>1 DEF Good
<1> HIDE DEF u, bufs, b, rest
<1>4. /\ DOMAIN rest = DOMAIN bufs /\ rest[i] = Idle(b.at) /\ \A j \in DOMAIN bufs \ {i} : rest[j] = bufs[j]
      /\ DOMAIN bufs = 1 .. Len(bufs) /\ Len(bufs) \in Nat /\ rest \in Seq(Buffer)
  <2>1. /\ DOMAIN rest = DOMAIN bufs /\ rest[i] = Idle(b.at) /\ \A j \in DOMAIN bufs \ {i} : rest[j] = bufs[j]
    BY <1>2, <1>3, MarkKeepsTiled
  <2>2. rest \in Seq(Buffer)
    BY <1>2 DEF Good, Tiled, rest
  <2> QED BY <1>3, <2>1, <2>2
<1>5. JoinedBut(rest, i)
  <2> SUFFICES ASSUME NEW k \in DOMAIN rest, k > 1, k # i, k # i + 1
               PROVE  ~(rest[k - 1].free /\ rest[k].free)
    BY DEF JoinedBut
  <2>1. k - 1 \in DOMAIN bufs \ {i} /\ k \in DOMAIN bufs \ {i}
    BY <1>3, <1>4
  <2>2. ~(bufs[k - 1].free /\ bufs[k].free)
    BY <1>3, <2>1 DEF Joined
  <2> QED BY <1>4, <2>1, <2>2
<1>6. Good(t) /\ Kept(u, t) /\ Joined(t.buffers)
  <2>1. rest[i].free /\ i \in DOMAIN rest
    BY <1>3, <1>4 DEF Idle
  <2> QED BY <1>1, <1>2, <1>5, <2>1, MergedIs DEF rest
<1>7. InUse(rest) = InUse(bufs) \ {b} /\ b \in InUse(bufs)
  <2>1. ASSUME NEW j \in DOMAIN bufs \ {i} PROVE bufs[j] # b
    <3>1. bufs[j].at # b.at
      <4>1. j \in DOMAIN bufs /\ j \in Int /\ i \in Int
        BY <1>3, <1>4
      <4>2. /\ j < i => Data(bufs[j]) + bufs[j].size <= b.at
            /\ i < j => Data(b) + b.size <= bufs[j].at
        BY <1>3, <4>1 DEF Tiled
      <4>3. /\ Data(bufs[j]) = bufs[j].at + Header /\ bufs[j].at \in Nat /\ bufs[j].size \in Nat
            /\ Header \in Nat /\ 0 < Header
        BY <1>3, <4>1, Neighbours DEF Buffer
      <4>4. Data(b) = b.at + Header /\ b.at \in Nat /\ b.size \in Nat
        BY <1>3, Neighbours DEF Buffer
      <4> QED BY <2>1, <4>1, <4>2, <4>3, <4>4
    <3> QED BY <3>1
  <2>2. rest[i].free
    BY <1>4 DEF Idle
  <2> QED BY <1>3, <1>4, <2>1, <2>2 DEF InUse
<1>8. Accounted(s) => Accounted(u)
  <2> SUFFICES ASSUME Accounted(s) PROVE Accounted(u)
    OBVIOUS
  <2>1. Unclaimed(bufs) /\ s.async = AreaSize \div 2 - Total(Weights(bufs))
    BY DEF Accounted, bufs
  <2>2. Unclaimed(rest)
    BY <1>4, <2>1 DEF Unclaimed, Idle
  <2>3. Weights(rest) = [Weights(bufs) EXCEPT ![i] = 0]
    <3>1. /\ Weights(rest) = [j \in DOMAIN bufs |-> Weights(rest)[j]]
          /\ Weights(bufs) = [j \in DOMAIN bufs |-> Weights(bufs)[j]]
      BY <1>4 DEF Weights
    <3>2. Weights(rest)[i] = 0
      BY <1>3, <1>4, SMTT(20) DEF Weights, Idle
    <3>3. \A j \in DOMAIN bufs \ {i} : Weights(rest)[j] = Weights(bufs)[j]
      BY <1>4 DEF Weights
    <3> QED BY <1>3, <3>1, <3>2, <3>3
  <2>4. /\ Weights(bufs) \in Seq(Int) /\ i \in DOMAIN Weights(bufs) /\ Weights(bufs)[i] = Held(b) /\ Held(b) \in Int
    BY <1>3, WeightsAre
  <2>5. Total(Weights(rest)) = Total(Weights(bufs)) - Held(b) + 0
    <3> DEFINE w == Weights(bufs)
    <3>1. w \in Seq(Int) /\ i \in DOMAIN w /\ 0 \in Int
      BY <2>4
    <3> HIDE DEF w
    <3>2. Total([w EXCEPT ![i] = 0]) = Total(w) - w[i] + 0
      BY <3>1, TotalReplaced
    <3> QED BY <2>3, <2>4, <3>2 DEF w
  <2>6. Total(Weights(bufs)) \in Int
    BY <2>4, SumsExist, TotalIs
  <2>7. AreaSize \div 2 \in Int
    <3>1. AreaSize \in Nat
      BY AreaEndsWithPage
    <3> QED BY <3>1
  <2>8. u.async = AreaSize \div 2 - Total(Weights(rest))
    BY <1>2, <2>1, <2>4, <2>5, <2>6, <2>7
  <2> QED BY <2>2, <2>8 DEF Accounted, rest
<1>9. Accounted(u) => Accounted(t)
  BY <1>6 DEF Accounted, Kept
<1> QED BY <1>6, <1>7, <1>8, <1>9 DEF Kept, bufs, b, rest

-----------------------------------------------------------------------------
\* What holds of the allocator's state while the area is there.
Sound(s) == Good(s) /\ Joined(s.buffers) /\ Accounted(s)

\* The first buffer in use, if there is one.
LEMMA FirstInUseIs ==
  ASSUME NEW bufs \in Seq(Buffer), InUse(bufs) # {}
  PROVE  FirstInUse(bufs) \in DOMAIN bufs /\ ~bufs[FirstInUse(bufs)].free
<1> DEFINE T == {j \in DOMAIN bufs : ~bufs[j].free}
<1>1. T \in SUBSET Nat /\ DOMAIN bufs = 1 .. Len(bufs) /\ Len(bufs) \in Nat
  OBVIOUS
<1>2. T # {}
  BY DEF InUse
<1>3. PICK m \in T : \A k \in T : m <= k
  <2> HIDE DEF T
  <2> QED BY <1>1, <1>2, LeastNumber
<1>4. m \in DOMAIN bufs /\ ~bufs[m].free /\ \A j \in 1 .. m - 1 : bufs[j].free
  <2>1. ASSUME NEW j \in 1 .. m - 1 PROVE bufs[j].free
    <3>1. j \in DOMAIN bufs /\ ~(m <= j)
      BY <1>1
    <3> QED BY <1>3, <3>1
  <2> QED BY <2>1
<1> QED BY <1>4 DEF FirstInUse

\* One turn of the loop that frees what is left.
Turn(s) == Freed(s, FirstInUse(s.buffers))

\* The turns of that loop are defined, however many there are.
LEMMA TurnsExist ==
  ASSUME NEW s, NEW n \in Nat
  PROVE  \E g : g = [k \in 0 .. n |-> IF k = 0 THEN s ELSE Turn(g[k - 1])]
<1> DEFINE Turns(m, g) == g = [k \in 0 .. m |-> IF k = 0 THEN s ELSE Turn(g[k - 1])]
           T == {m \in 0 .. n : ~\E g : Turns(m, g)}
<1>1. T = {}
  <2> SUFFICES ASSUME T # {} PROVE FALSE
    OBVIOUS
  <2>1. PICK m \in T : \A k \in T : m <= k
    <3>1. T \in SUBSET Nat
      OBVIOUS
    <3> HIDE DEF T
    <3> QED BY <3>1, LeastNumber
  <2>2. m \in 0 .. n /\ ~\E g : Turns(m, g)
    OBVIOUS
  <2>3. m # 0
    <3> DEFINE g == [k \in 0 .. 0 |-> s]
    <3>1. g = [k \in 0 .. 0 |-> IF k = 0 THEN s ELSE Turn(g[k - 1])]
      OBVIOUS
    <3> QED BY <2>2, <3>1, Zenon
  <2>4. m - 1 \in 0 .. n /\ m - 1 \in Nat /\ m \in Nat /\ ~(m <= m - 1)
    BY <2>2, <2>3
  <2>5. PICK g : Turns(m - 1, g)
    BY <2>1, <2>4
  <2> DEFINE h == [k \in 0 .. m |-> IF k < m THEN g[k] ELSE Turn(g[m - 1])]
  <2>6. ASSUME NEW k \in 0 .. m PROVE h[k] = IF k = 0 THEN s ELSE Turn(h[k - 1])
    <3>1. CASE k = 0
      <4>1. 0 \in 0 .. m - 1 /\ 0 < m /\ k < m
        BY <2>4, <3>1
      <4> QED BY <2>5, <3>1, <4>1
    <3>2. CASE k # 0
      <4>1. k - 1 \in 0 .. m - 1 /\ k - 1 \in 0 .. m /\ k - 1 < m
        BY <2>4, <2>6, <3>2
      <4>2. h[k - 1] = g[k - 1]
        BY <4>1
      <4>3. h[k] = Turn(g[k - 1])
        <5>1. CASE k = m
          BY <2>4, <5>1
        <5>2. CASE k # m
          <6>1. k < m /\ k \in 0 .. m - 1
            BY <2>4, <2>6, <5>2
          <6> QED BY <2>5, <3>2, <6>1
        <5> QED BY <5>1, <5>2
      <4> QED BY <3>2, <4>2, <4>3
    <3> QED BY <3>1, <3>2
  <2>7. Turns(m, h)
    <3>1. h = [k \in 0 .. m |-> h[k]]
      OBVIOUS
    <3> HIDE DEF h
    <3> QED BY <2>6, <3>1, Zenon
  <2> QED BY <2>2, <2>7, Zenon
<1>2. n \in 0 .. n
  OBVIOUS
<1> QED BY <1>1, <1>2, Zenon

\* The loop frees all buffers.
LEMMA FreedFirstIs ==
  ASSUME NEW s, Sound(s), IsFiniteSet(InUse(s.buffers)), NEW n, n = Cardinality(InUse(s.buffers)),
         NEW t, t = FreedFirst(s, n)
  PROVE  Sound(t) /\ InUse(t.buffers) = {}
<1> DEFINE after == CHOOSE g : g = [k \in 0 .. n |-> IF k = 0 THEN s ELSE Turn(g[k - 1])]
<1>0. n \in Nat
  BY FS_CardinalityType
<1>1. t = after[n]
  BY DEF FreedFirst, Turn
<1>2. after = [k \in 0 .. n |-> IF k = 0 THEN s ELSE Turn(after[k - 1])]
  BY <1>0, TurnsExist
<1> HIDE DEF after
<1> DEFINE Done(k) == /\ Sound(after[k]) /\ IsFiniteSet(InUse(after[k].buffers))
                      /\ Cardinality(InUse(after[k].buffers)) = n - k
           T == {k \in 0 .. n : ~Done(k)}
<1>3. after[0] = s /\ \A k \in 1 .. n : after[k] = Turn(after[k - 1])
  BY <1>0, <1>2
<1>4. T = {}
  <2> SUFFICES ASSUME T # {} PROVE FALSE
    OBVIOUS
  <2>1. PICK m \in T : \A k \in T : m <= k
    <3>1. T \in SUBSET Nat
      BY <1>0
    <3> HIDE DEF T
    <3> QED BY <3>1, LeastNumber
  <2>2. m \in 0 .. n /\ ~Done(m)
    OBVIOUS
  <2>3. m # 0
    <3>1. Done(0)
      BY <1>0, <1>3
    <3> QED BY <2>2, <3>1
  <2>4. m - 1 \in 0 .. n /\ ~(m <= m - 1) /\ m \in 1 .. n /\ m \in Int
    BY <1>0, <2>2, <2>3
  <2>5. Done(m - 1)
    BY <2>1, <2>4
  <2> DEFINE a == after[m - 1]
             z == after[m]
             i == FirstInUse(a.buffers)
  <2>6. /\ Good(a) /\ Joined(a.buffers) /\ Accounted(a) /\ IsFiniteSet(InUse(a.buffers))
        /\ Cardinality(InUse(a.buffers)) = n - (m - 1)
    BY <2>5 DEF Sound
  <2>7. InUse(a.buffers) # {}
    <3>1. n - (m - 1) # 0
      BY <1>0, <2>4
    <3> QED BY <2>6, <3>1, FS_EmptySet
  <2>8. z = Freed(a, i)
    BY <1>3, <2>4 DEF Turn
  <2>9. i \in DOMAIN a.buffers /\ ~a.buffers[i].free
    <3>1. a.buffers \in Seq(Buffer)
      BY <2>6, Zenon DEF Good, Tiled
    <3> QED BY <2>7, <3>1, FirstInUseIs
  <2> HIDE DEF a, z, i, Done
  <2>10. /\ Good(z) /\ Joined(z.buffers) /\ Accounted(z)
         /\ InUse(z.buffers) = InUse(a.buffers) \ {a.buffers[i]} /\ a.buffers[i] \in InUse(a.buffers)
    BY <2>6, <2>8, <2>9, FreedIs, Zenon
  <2>11. /\ IsFiniteSet(InUse(z.buffers))
         /\ Cardinality(InUse(z.buffers)) = Cardinality(InUse(a.buffers)) - 1
    BY <2>6, <2>10, FS_RemoveElement, Zenon
  <2>12. Cardinality(InUse(z.buffers)) = n - m
    BY <1>0, <2>4, <2>6, <2>11
  <2>13. Done(m)
    BY <2>10, <2>11, <2>12, Zenon DEF Done, Sound, z
  <2> QED BY <2>2, <2>13
<1>5. Done(n)
  <2>1. n \in 0 .. n
    BY <1>0
  <2> QED BY <1>4, <2>1
<1>6. Sound(t) /\ IsFiniteSet(InUse(t.buffers)) /\ Cardinality(InUse(t.buffers)) = 0
  BY <1>0, <1>1, <1>5
<1> QED BY <1>6, FS_EmptySet

=============================================================================
