----------------------------- MODULE BinderAlloc -----------------------------
(***************************************************************************)
(* The buffer allocator of the binder driver (modules/anbox/binder/        *)
(* binder.c): the mmap'ed area of one process, the list of buffers that    *)
(* tile it, and the pages behind it that are present.  Everything runs     *)
(* under binder_main_lock.  Addresses and sizes are in words, to which the *)
(* driver aligns every size; a page is known by its number.                *)
(***************************************************************************)
EXTENDS Integers, Sequences, FiniteSets

CONSTANTS
  Page,      \* words of a page
  Header,    \* words of a struct binder_buffer
  NumPages,  \* pages of the area
  Sizes      \* sizes that are asked for

ASSUME LayoutAssumption ==
  /\ Page \in Nat \ {0} /\ Header \in 1..Page - 1 /\ NumPages \in Nat \ {0}
  /\ Sizes \subseteq Nat

VARIABLES
  vma,         \* proc->vma: "none", "open", or "closed" for good
  buffers,     \* proc->buffers, by address: [at, free, size, async]
  pages,       \* the pages that are allocated and mapped
  asyncSpace,  \* proc->free_async_space
  bug          \* a BUG_ON was hit, or a page freed that is not there

vars == <<vma, buffers, pages, asyncSpace, bug>>

AreaSize == NumPages * Page

Data(b) == b.at + Header

\* binder_buffer_size: up to the next buffer, or to the end of the area.
BufferSize(bufs, i) ==
  (IF i = Len(bufs) THEN AreaSize ELSE bufs[i + 1].at) - Data(bufs[i])

PageOf(addr) == addr \div Page                  \* addr & PAGE_MASK
PageAlign(addr) == (addr + Page - 1) \div Page  \* PAGE_ALIGN(addr)

StartPage(b) == PageOf(b.at)
EndPage(b) == PageOf(b.at + Header - 1)

Min2(a, b) == IF a < b THEN a ELSE b

\* A list with x in front of its i-th element, and one without it.
Inserted(s, i, x) ==
  [j \in 1 .. Len(s) + 1 |-> IF j < i THEN s[j] ELSE IF j = i THEN x ELSE s[j - 1]]
Removed(s, i) == [j \in 1 .. Len(s) - 1 |-> IF j < i THEN s[j] ELSE s[j + 1]]

-----------------------------------------------------------------------------
Init ==
  /\ vma = "none" /\ buffers = <<>> /\ pages = {} /\ asyncSpace = 0 /\ bug = FALSE

\* binder_mmap that succeeds; one that fails leaves everything as it was.
Mmap ==
  /\ vma = "none" /\ vma' = "open"
  /\ buffers' = <<[at |-> 0, free |-> TRUE, size |-> 0, async |-> FALSE]>>
  /\ pages' = {0} /\ asyncSpace' = AreaSize \div 2
  /\ UNCHANGED bug

\* The smallest free buffers that are large enough.  They are searched in a tree
\* ordered by size, whose shape decides between equal ones.
BestFits(size) ==
  LET fits == {i \in DOMAIN buffers : buffers[i].free /\ BufferSize(buffers, i) >= size}
  IN  {i \in fits : \A j \in fits : BufferSize(buffers, i) <= BufferSize(buffers, j)}

\* What binder_alloc_buf takes from a buffer of that room: the new buffer, and
\* the header of the one made of the rest.  A rest of a header or less (the four
\* bytes added in the code are less than a word) stays with the new buffer.
Wanted(size, room) ==
  IF room = size THEN room
  ELSE IF size + Header >= room THEN size ELSE size + Header

\* Mutant of NewPages: the page the next header lies on is mapped again.
NewPagesNotCapped(b, wanted, room) == PageAlign(Data(b)) .. PageAlign(Data(b) + wanted) - 1

\* The pages to be mapped for it.  The last page is there if another buffer
\* begins on it.
NewPages(b, wanted, room) ==
  PageAlign(Data(b)) .. Min2(PageAlign(Data(b) + wanted), PageOf(Data(b) + room)) - 1

\* The list after buffer i was taken, and the pages mapped for it.
Taken(i, size, async) ==
  LET b == buffers[i]
      room == BufferSize(buffers, i)
      wanted == Wanted(size, room)
      used == [buffers EXCEPT ![i] = [@ EXCEPT !.free = FALSE, !.size = size, !.async = async]]
      rest == [at |-> Data(b) + size, free |-> TRUE, size |-> 0, async |-> FALSE]
  IN  [buffers |-> IF wanted = size THEN used ELSE Inserted(used, i + 1, rest),
       new |-> NewPages(b, wanted, room)]

\* binder_alloc_buf that succeeds.  One that fails changes nothing: pages mapped
\* before the one that cannot be are freed again.
AllocBuf(size, async) ==
  /\ vma = "open"
  /\ async => asyncSpace >= size + Header
  /\ \E i \in BestFits(size) :
       LET t == Taken(i, size, async)
       IN  /\ buffers' = t.buffers
           /\ pages' = pages \cup t.new
           /\ bug' = (bug \/ pages \cap t.new # {})
  /\ asyncSpace' = IF async THEN asyncSpace - (size + Header) ELSE asyncSpace
  /\ UNCHANGED vma

-----------------------------------------------------------------------------
\* binder_update_page_range(proc, 0, ...); s has the list, the pages and bug.
FreeRange(s, range) ==
  [s EXCEPT !.pages = @ \ range, !.bug = @ \/ ~(range \subseteq s.pages)]

\* Mutant of HeaderPages: the next buffer's header is not looked at.
HeaderPagesIgnoreNext(bufs, i) ==
  LET b == bufs[i]
      before == EndPage(bufs[i - 1]) = StartPage(b)
      freeStart == ~before
      freeEnd == ~(before /\ EndPage(b) = StartPage(b))
  IN  IF freeStart \/ freeEnd
        THEN (IF freeStart THEN StartPage(b) ELSE EndPage(b)) ..
             (IF freeEnd THEN EndPage(b) ELSE StartPage(b))
        ELSE {}

\* The pages of a header that no neighbour's header shares.
HeaderPages(bufs, i) ==
  LET b == bufs[i]
      before == EndPage(bufs[i - 1]) = StartPage(b)
      after == i < Len(bufs) /\ StartPage(bufs[i + 1]) = EndPage(b)
      onePage == StartPage(b) = EndPage(b)
      freeStart == ~before /\ ~(after /\ onePage)
      freeEnd == ~(before /\ onePage) /\ ~after
  IN  IF freeStart \/ freeEnd
        THEN (IF freeStart THEN StartPage(b) ELSE EndPage(b)) ..
             (IF freeEnd THEN EndPage(b) ELSE StartPage(b))
        ELSE {}

\* binder_delete_free_buffer: buffer i becomes part of the free one before it.
DeleteFree(s, i) ==
  [FreeRange(s, HeaderPages(s.buffers, i)) EXCEPT
     !.buffers = Removed(@, i), !.bug = @ \/ ~s.buffers[i - 1].free]

\* Mutant of Merged: only the next buffer is looked at.
MergedNextOnly(s, i) == IF i < Len(s.buffers) /\ s.buffers[i + 1].free THEN DeleteFree(s, i + 1) ELSE s

\* A buffer that was just freed is joined with the next one and the one before.
Merged(s, i) ==
  LET t == IF i < Len(s.buffers) /\ s.buffers[i + 1].free THEN DeleteFree(s, i + 1) ELSE s
  IN  IF i > 1 /\ t.buffers[i - 1].free THEN DeleteFree(t, i) ELSE t

\* Mutant of Freed: the asynchronous space is given back without the header.
FreedWithoutHeader(s, i) ==
  LET b == s.buffers[i]
      range == PageAlign(Data(b)) .. PageOf(Data(b) + BufferSize(s.buffers, i)) - 1
  IN  Merged([FreeRange(s, range) EXCEPT
                !.buffers[i] = [@ EXCEPT !.free = TRUE, !.size = 0, !.async = FALSE],
                !.async = IF b.async THEN @ + b.size ELSE @], i)

\* binder_free_buf.
Freed(s, i) ==
  LET b == s.buffers[i]
      range == PageAlign(Data(b)) .. PageOf(Data(b) + BufferSize(s.buffers, i)) - 1
  IN  Merged([FreeRange(s, range) EXCEPT
                !.buffers[i] = [@ EXCEPT !.free = TRUE, !.size = 0, !.async = FALSE],
                !.async = IF b.async THEN @ + b.size + Header ELSE @], i)

State == [buffers |-> buffers, pages |-> pages, async |-> asyncSpace, bug |-> bug]

Becomes(s) ==
  /\ buffers' = s.buffers /\ pages' = s.pages /\ asyncSpace' = s.async /\ bug' = s.bug

\* BC_FREE_BUFFER, or the sender of a transaction that fails.
FreeBuf(i) ==
  /\ i \in DOMAIN buffers /\ ~buffers[i].free
  /\ Becomes(Freed(State, i))
  /\ UNCHANGED vma

\* binder_vma_close: nothing is allocated any more.
VmaClose == vma = "open" /\ vma' = "closed" /\ UNCHANGED <<buffers, pages, asyncSpace, bug>>

\* The buffers in use, and the first of them: rb_first(&proc->allocated_buffers).
InUse(bufs) == {bufs[i] : i \in {j \in DOMAIN bufs : ~bufs[j].free}}
FirstInUse(bufs) == CHOOSE i \in DOMAIN bufs : ~bufs[i].free /\ \A j \in 1 .. i - 1 : bufs[j].free

\* n turns of the loop in binder_deferred_release that frees what is left.
FreedFirst(s, n) ==
  LET after[k \in 0..n] ==
        IF k = 0 THEN s ELSE Freed(after[k - 1], FirstInUse(after[k - 1].buffers))
  IN  after[n]

\* The end of binder_deferred_release: the buffers that are left, first to last,
\* then the pages that remain, with the area itself.
Release ==
  /\ vma = "closed" /\ vma' = "released"
  /\ Becomes([FreedFirst(State, Cardinality(InUse(buffers))) EXCEPT !.pages = {}])

Next ==
  \/ Mmap \/ VmaClose \/ Release
  \/ \E size \in Sizes, async \in BOOLEAN : AllocBuf(size, async)
  \/ \E i \in DOMAIN buffers : FreeBuf(i)

Spec == Init /\ [][Next]_vars

-----------------------------------------------------------------------------
\* The values of the allocator's variables.
TypeOK ==
  /\ vma \in {"none", "open", "closed", "released"}
  /\ buffers \in Seq([at : 0..AreaSize - Header, free : BOOLEAN, size : Sizes \cup {0},
                      async : BOOLEAN])
  /\ pages \subseteq 0..NumPages - 1
  /\ asyncSpace \in 0..AreaSize \div 2 /\ bug \in BOOLEAN

\* The buffers tile the area: the first begins where the area does, each has room
\* for what it was asked for before the next one begins, and two neighbours are
\* never both free, so that free space is not lost to fragments (binder_free_buf,
\* binder.c:919-940).  When the process is released a single one is left.
AreaIsTiled ==
  /\ vma # "none" => buffers # <<>> /\ buffers[1].at = 0
  /\ \A i \in DOMAIN buffers :
       /\ BufferSize(buffers, i) >= buffers[i].size
       /\ i > 1 => ~(buffers[i - 1].free /\ buffers[i].free)
  /\ vma = "released" => Len(buffers) = 1

\* The pages something lies on: a header, or what a buffer in use was asked for.
Needed ==
  (UNION {StartPage(buffers[i]) .. EndPage(buffers[i]) : i \in DOMAIN buffers}) \cup
  (UNION {PageOf(Data(buffers[i])) .. PageOf(Data(buffers[i]) + buffers[i].size - 1) :
            i \in {j \in DOMAIN buffers : ~buffers[j].free /\ buffers[j].size > 0}})

\* A page is present exactly when a header or a buffer in use needs it: the driver
\* neither touches a page that is not there nor keeps one for nothing, whatever
\* headers share a page or lie across two (binder.c:787-798, 850-882, 914-917).
PagesAreNeeded == pages = IF vma = "released" THEN {} ELSE Needed

\* No page is mapped twice, none is freed that is not there, and a buffer is only
\* merged into a free one: the BUG_ONs at binder.c:656 and 847-849.
NoAssertionFails == ~bug

\* The sum of a list of numbers.
Total(w) ==
  LET sum[n \in 0..Len(w)] == IF n = 0 THEN 0 ELSE sum[n - 1] + w[n]
  IN  sum[Len(w)]

\* What transactions without a reply may still use is half of the area less the
\* buffers they hold, headers included; the process gets all of it back
\* (binder.c:750-756, 820-825, 906-912).
AsyncSpaceIsAccounted ==
  vma # "none" =>
    asyncSpace = AreaSize \div 2 -
      Total([i \in DOMAIN buffers |-> IF buffers[i].async THEN buffers[i].size + Header ELSE 0])
=============================================================================
