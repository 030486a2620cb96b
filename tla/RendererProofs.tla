--------------------------- MODULE RendererProofs ---------------------------
(***************************************************************************)
(* Proofs about the handle tables of the Renderer: every entry has a       *)
(* thread that will remove it, a thread can flush what it draws to, a      *)
(* handle keeps its meaning, a thread that ends takes only what it         *)
(* created, and a window draws into the colour buffer its handle names.    *)
(***************************************************************************)
EXTENDS Renderer, Integers, WellFoundedInduction, TLAPS

\* The handle counter stays.
LEMMA CounterStays ==
  ASSUME NEW m, NEW n \in 0 .. m, NEW k, k = n
  PROVE  n <= k
OBVIOUS

\* The counter is increased.
LEMMA CounterGrows ==
  ASSUME NEW n \in Nat, NEW k, k = n + 1
  PROVE  n <= k
OBVIOUS

SurfaceRecord(s) == s = [attached |-> s.attached, readCtx |-> s.readCtx, drawCtx |-> s.drawCtx]
InfoType ==
  [ctx : Contexts \cup {None}, draw : Windows \cup {None}, read : Windows \cup {None},
   contextSet : SUBSET Handles, windowSet : SUBSET Handles]
ContextTable(table) == table \in [DOMAIN table -> Contexts] /\ DOMAIN table \subseteq Handles
WindowRecord == [win : Windows, cb : Handles \cup {None}]
WindowTable(table) == table \in [DOMAIN table -> WindowRecord] /\ DOMAIN table \subseteq Handles
SurfaceTable(table) ==
  table = [w \in Windows |-> table[w]] /\ \A w \in Windows : SurfaceRecord(table[w])

TypeInv ==
  /\ nextHandle \in 0 .. MaxHandle
  /\ ContextTable(contexts) /\ WindowTable(windows) /\ SurfaceTable(surface)
  /\ info \in [Threads -> InfoType]
  /\ pc \in [Threads -> {"run", "unbound", "drained", "exited"}]
  /\ creator \in [Contexts -> Threads \cup {None}]

\* A thread has a context and two surfaces current, or nothing; after its loop nothing.
Current(inf, at) ==
  \A t \in Threads : /\ inf[t].ctx = None <=> inf[t].draw = None
                     /\ inf[t].ctx = None <=> inf[t].read = None
                     /\ at[t] # "run" => inf[t].ctx = None

CurrentInv == Current(info, pc)

IInv == TypeInv /\ TablesAreTracked /\ CurrentInv

\* A context in a thread's set was created by that thread.
Created ==
  \A t \in Threads : \A h \in info[t].contextSet \cap DOMAIN contexts : creator[contexts[h]] = t

\* A context has a creator as long as it is alive.
AliveAreCreated ==
  \A c \in Contexts : creator[c] # None <=> c \in ContextsAlive(contexts, windows, info, surface)

\* The counter is past every handle it gave.
Counted == \A t \in Threads : \A h \in info[t].contextSet \cup info[t].windowSet : h <= nextHandle

\* Until the counter wraps around: every handle was made by it, a context has one
\* handle, exists with its creator, and is in its creator's set only.
CreatedInv == Counted /\ AliveAreCreated /\ Created

\* A set of natural numbers that is not empty has a least element.
LEMMA LowestIsLeast ==
  ASSUME NEW S \in SUBSET Nat, S # {}
  PROVE  Lowest(S) \in S /\ \A m \in S : Lowest(S) <= m
<1> DEFINE R == OpToRel(<, Nat)
<1>1. PICK n \in S : \A m \in S : ~(<<m, n>> \in R)
  BY NatLessThanWellFounded, WFMin, Zenon
<1>2. \A m \in S : m < n => <<m, n>> \in R
  BY DEF OpToRel
<1> HIDE DEF R
<1>3. \A m \in S : ~(m < n)
  BY <1>1, <1>2, Zenon
<1>4. \A m \in S : n <= m
  BY <1>3
<1> QED BY <1>4, Zenon DEF Lowest

\* Counting modulo M.
LEMMA Modulo ==
  ASSUME NEW M \in Nat, NEW x \in Nat, x < M
  PROVE  x % M = x /\ (x + M) % M = x
OBVIOUS

\* A remainder is smaller than the divisor.
LEMMA ModuloType ==
  ASSUME NEW M \in Nat, M > 0, NEW x \in Nat
  PROVE  x % M \in 0 .. (M - 1)
OBVIOUS

\* genHandle gives a handle that neither table uses.  A free handle is ahead of
\* the counter by 1 .. MaxHandle + 1, so the search finds one.
LEMMA GenHandleIsNew ==
  ASSUME TypeInv, CanGenHandle
  PROVE  /\ GenHandle \in Handles
         /\ GenHandle \notin DOMAIN contexts /\ GenHandle \notin DOMAIN windows
         /\ (nextHandle < MaxHandle /\ ~HandleInUse(nextHandle + 1)) => GenHandle = nextHandle + 1
<1> DEFINE M == MaxHandle + 1
           F == {k \in 1 .. M : ~HandleInUse(Ahead(k))}
<1>1. MaxHandle \in Nat /\ M \in Nat /\ nextHandle \in Nat /\ nextHandle < M
  BY RendererAssumption DEF TypeInv
<1>2. PICK h \in 1 .. MaxHandle : ~HandleInUse(h)
  BY DEF CanGenHandle, Handles
<1>3. \E k \in 1 .. M : Ahead(k) = h
  <2>1. CASE h > nextHandle
    <3>1. (h - nextHandle) \in 1 .. M /\ nextHandle + (h - nextHandle) = h
      BY <1>1, <2>1
    <3>2. h % M = h
      BY <1>1, Modulo
    <3> QED BY <3>1, <3>2 DEF Ahead
  <2>2. CASE h <= nextHandle
    <3>1. (h + M - nextHandle) \in 1 .. M /\ nextHandle + (h + M - nextHandle) = h + M
      BY <1>1, <2>2
    <3>2. (h + M) % M = h
      BY <1>1, Modulo
    <3> QED BY <3>1, <3>2 DEF Ahead
  <2> QED BY <1>1, <2>1, <2>2
<1>4. F \in SUBSET Nat /\ F # {}
  BY <1>1, <1>2, <1>3
<1>5. Lowest(F) \in F /\ \A m \in F : Lowest(F) <= m
  BY <1>4, LowestIsLeast
<1>6. GenHandle = Ahead(Lowest(F))
  BY DEF GenHandle
<1>7. ~HandleInUse(GenHandle)
  BY <1>5, <1>6
<1>8. GenHandle \in 0 .. MaxHandle
  <2>1. nextHandle + Lowest(F) \in Nat
    BY <1>1, <1>5
  <2>2. (nextHandle + Lowest(F)) % M \in 0 .. (M - 1)
    <3> HIDE DEF F, M
    <3> QED BY <1>1, <2>1, ModuloType DEF M
  <2> QED BY <1>1, <1>6, <2>2 DEF Ahead
<1>9. ASSUME nextHandle < MaxHandle, ~HandleInUse(nextHandle + 1)
      PROVE  GenHandle = nextHandle + 1
  <2>1. Ahead(1) = nextHandle + 1
    BY <1>1, <1>9, Modulo DEF Ahead
  <2>2. 1 \in F
    BY <1>1, <1>9, <2>1
  <2>3. Lowest(F) = 1
    <3> HIDE DEF F
    <3>1. Lowest(F) <= 1
      BY <1>5, <2>2
    <3>2. Lowest(F) \in 1 .. M
      BY <1>5 DEF F
    <3> QED BY <1>1, <3>1, <3>2
  <2> QED BY <1>6, <2>1, <2>3
<1> QED BY <1>7, <1>8, <1>9 DEF HandleInUse, Handles

\* A step leaves tables and records of their types.
LEMMA BecomesKeepsType ==
  ASSUME TypeInv, NEW t \in Threads, NEW ctxs, NEW wins, NEW inf, NEW surf,
         Becomes(t, ctxs, wins, inf, surf),
         ContextTable(ctxs), WindowTable(wins), SurfaceTable(surf), inf \in [Threads -> InfoType],
         nextHandle' \in 0 .. MaxHandle,
         pc' \in [Threads -> {"run", "unbound", "drained", "exited"}]
  PROVE  TypeInv'
<1>1. contexts' = ctxs /\ windows' = wins /\ info' = inf
  BY DEF Becomes
<1>2. SurfaceTable(surface')
  <2>1. \A w \in Windows : surface'[w] = surf[w] \/ surface'[w] = FreshSurface
    BY DEF Becomes
  <2>2. SurfaceRecord(FreshSurface)
    BY DEF SurfaceRecord, FreshSurface
  <2>3. surface' = [w \in Windows |-> surface'[w]]
    BY DEF Becomes
  <2> QED BY <2>1, <2>2, <2>3 DEF SurfaceTable
<1>3. creator' \in [Contexts -> Threads \cup {None}]
  BY DEF Becomes, TypeInv
<1> QED BY <1>1, <1>2, <1>3 DEF TypeInv, ContextTable, WindowTable, SurfaceTable

\* What is current is in the threads' records.
LEMMA BecomesKeepsCurrent ==
  ASSUME NEW t \in Threads, NEW ctxs, NEW wins, NEW inf, NEW surf,
         Becomes(t, ctxs, wins, inf, surf), Current(inf, pc')
  PROVE  CurrentInv'
BY Zenon DEF Becomes, CurrentInv, Current

\* Initially nothing is in the tables and nothing is current.
LEMMA InitIInv == Init => IInv
<1> SUFFICES ASSUME Init PROVE IInv
  OBVIOUS
<1>1. ContextTable(contexts) /\ WindowTable(windows) /\ DOMAIN contexts = {} /\ DOMAIN windows = {}
  BY DEF Init, Empty, ContextTable, WindowTable
<1>2. SurfaceTable(surface)
  BY DEF Init, SurfaceTable, SurfaceRecord, FreshSurface
<1>3. info \in [Threads -> InfoType]
  BY DEF Init, FreshInfo, InfoType
<1>4. TypeInv
  BY <1>1, <1>2, <1>3, RendererAssumption DEF Init, TypeInv
<1>5. CurrentInv
  BY DEF Init, CurrentInv, Current, FreshInfo
<1> QED BY <1>1, <1>4, <1>5 DEF IInv, TablesAreTracked

\* A table with one more entry, or with some entries less.
LEMMA ContextTables ==
  ASSUME NEW table, ContextTable(table)
  PROVE  /\ \A h \in Handles, c \in Contexts : ContextTable(With(table, h, c))
         /\ \A S : ContextTable(Restrict(table, DOMAIN table \ S))
BY DEF ContextTable, With, Restrict

\* The same for windows.
LEMMA WindowTables ==
  ASSUME NEW table, WindowTable(table)
  PROVE  /\ \A h \in Handles, w \in WindowRecord : WindowTable(With(table, h, w))
         /\ \A S : WindowTable(Restrict(table, DOMAIN table \ S))
BY DEF WindowTable, With, Restrict

\* A thread's record with another set of contexts, or of windows.
LEMMA InfoWithSets ==
  ASSUME TypeInv, NEW t \in Threads, NEW S \in SUBSET Handles
  PROVE  /\ [info EXCEPT ![t].contextSet = S] \in [Threads -> InfoType]
         /\ [info EXCEPT ![t].windowSet = S] \in [Threads -> InfoType]
         /\ [info EXCEPT ![t].contextSet = S][t] = [info[t] EXCEPT !.contextSet = S]
         /\ [info EXCEPT ![t].windowSet = S][t] = [info[t] EXCEPT !.windowSet = S]
         /\ \A u \in Threads \ {t} : /\ [info EXCEPT ![t].contextSet = S][u] = info[u]
                                     /\ [info EXCEPT ![t].windowSet = S][u] = info[u]
<1>1. info \in [Threads -> InfoType] /\ info[t] \in InfoType
  BY DEF TypeInv
<1>2. [info[t] EXCEPT !.contextSet = S] \in InfoType /\ [info[t] EXCEPT !.windowSet = S] \in InfoType
  BY <1>1 DEF InfoType
<1> QED BY <1>1, <1>2

\* inf is info with another set of contexts, or of windows, for t; a thread that
\* is past its loop stays so.
SetsContexts(inf, t, S) == inf = [info EXCEPT ![t].contextSet = S]
SetsWindows(inf, t, S) == inf = [info EXCEPT ![t].windowSet = S]
NoneLeaves(at) == \A u \in Threads : at[u] # "run" => pc[u] # "run"

\* inf has the same current for every thread as info.
Agrees(inf) ==
  \A u \in Threads : inf[u].ctx = info[u].ctx /\ inf[u].draw = info[u].draw /\ inf[u].read = info[u].read

\* What is current does not depend on those sets, nor on how far a thread is
\* after it has unbound.
LEMMA CurrentWithoutSets ==
  ASSUME CurrentInv, NEW inf, Agrees(inf), NEW at, NoneLeaves(at)
  PROVE  Current(inf, at)
BY Zenon DEF CurrentInv, Current, NoneLeaves, Agrees

\* The records inf differ from info in t's set of contexts, which is S.
HasContextSet(inf, t, S) ==
  /\ inf \in [Threads -> InfoType] /\ Agrees(inf)
  /\ inf[t].contextSet = S
  /\ \A u \in Threads : inf[u].windowSet = info[u].windowSet
  /\ \A u \in Threads \ {t} : inf[u].contextSet = info[u].contextSet

\* The sets of an updated record, and what is not in it.
LEMMA WithContextSet ==
  ASSUME TypeInv, NEW t \in Threads, NEW S \in SUBSET Handles, NEW inf, SetsContexts(inf, t, S)
  PROVE  HasContextSet(inf, t, S)
<1>1. /\ inf \in [Threads -> InfoType] /\ inf[t] = [info[t] EXCEPT !.contextSet = S]
      /\ \A u \in Threads \ {t} : inf[u] = info[u]
  BY InfoWithSets, Zenon DEF SetsContexts
<1>2. info[t] \in InfoType
  BY DEF TypeInv
<1>3. /\ inf[t].contextSet = S /\ inf[t].windowSet = info[t].windowSet
      /\ inf[t].ctx = info[t].ctx /\ inf[t].draw = info[t].draw /\ inf[t].read = info[t].read
  BY <1>1, <1>2 DEF InfoType
<1>4. Agrees(inf)
  BY <1>1, <1>3, Zenon DEF Agrees
<1> QED BY <1>1, <1>3, <1>4, Zenon DEF HasContextSet

\* The records inf differ from info in t's set of windows, which is S.
HasWindowSet(inf, t, S) ==
  /\ inf \in [Threads -> InfoType] /\ Agrees(inf)
  /\ inf[t].windowSet = S
  /\ \A u \in Threads : inf[u].contextSet = info[u].contextSet
  /\ \A u \in Threads \ {t} : inf[u].windowSet = info[u].windowSet

\* The same for the windows.
LEMMA WithWindowSet ==
  ASSUME TypeInv, NEW t \in Threads, NEW S \in SUBSET Handles, NEW inf, SetsWindows(inf, t, S)
  PROVE  HasWindowSet(inf, t, S)
<1>1. /\ inf \in [Threads -> InfoType] /\ inf[t] = [info[t] EXCEPT !.windowSet = S]
      /\ \A u \in Threads \ {t} : inf[u] = info[u]
  BY InfoWithSets, Zenon DEF SetsWindows
<1>2. info[t] \in InfoType
  BY DEF TypeInv
<1>3. /\ inf[t].windowSet = S /\ inf[t].contextSet = info[t].contextSet
      /\ inf[t].ctx = info[t].ctx /\ inf[t].draw = info[t].draw /\ inf[t].read = info[t].read
  BY <1>1, <1>2 DEF InfoType
<1>4. Agrees(inf)
  BY <1>1, <1>3, Zenon DEF Agrees
<1> QED BY <1>1, <1>3, <1>4, Zenon DEF HasWindowSet

\* The surfaces new are those of surf with d and r bound to the context c.
BoundTo(new, surf, d, r, c) ==
  /\ SurfaceTable(new) /\ new[d].drawCtx = c /\ new[r].readCtx = c
  /\ \A w \in Windows \ {d, r} : new[w] = surf[w]

\* WindowSurface::bind on two surfaces, which may be one and the same.
LEMMA Bound ==
  ASSUME NEW surf, SurfaceTable(surf), NEW d \in Windows, NEW r \in Windows, NEW c
  PROVE  BoundTo(Bind(surf, d, r, c), surf, d, r, c)
<1> DEFINE one == [surf EXCEPT ![d].drawCtx = c]
           two == [one EXCEPT ![r].readCtx = c]
<1>1. Bind(surf, d, r, c) = two
  BY DEF Bind
<1>2. one[d] = [attached |-> surf[d].attached, readCtx |-> surf[d].readCtx, drawCtx |-> c]
  <2>1. surf[d] = [attached |-> surf[d].attached, readCtx |-> surf[d].readCtx, drawCtx |-> surf[d].drawCtx]
    BY DEF SurfaceTable, SurfaceRecord
  <2>2. one[d] = [surf[d] EXCEPT !.drawCtx = c]
    BY DEF SurfaceTable
  <2> QED BY <2>1, <2>2
<1>3. one = [w \in Windows |-> one[w]] /\ \A w \in Windows \ {d} : one[w] = surf[w]
  BY DEF SurfaceTable
<1>4. \A w \in Windows : SurfaceRecord(one[w])
  BY <1>2, <1>3 DEF SurfaceTable, SurfaceRecord
<1> HIDE DEF one
<1>5. two[r] = [attached |-> one[r].attached, readCtx |-> c, drawCtx |-> one[r].drawCtx]
  <2>1. one[r] = [attached |-> one[r].attached, readCtx |-> one[r].readCtx, drawCtx |-> one[r].drawCtx]
    BY <1>4 DEF SurfaceRecord
  <2>2. two[r] = [one[r] EXCEPT !.readCtx = c]
    BY <1>3
  <2> QED BY <2>1, <2>2
<1>6. two = [w \in Windows |-> two[w]] /\ \A w \in Windows \ {r} : two[w] = one[w]
  BY <1>3
<1> HIDE DEF two
<1>7. \A w \in Windows : SurfaceRecord(two[w])
  BY <1>4, <1>5, <1>6, Zenon DEF SurfaceRecord
<1>8. two[d].drawCtx = c /\ two[r].readCtx = c
  BY <1>2, <1>5, <1>6
<1>9. SurfaceTable(two)
  BY <1>6, <1>7, Zenon DEF SurfaceTable
<1>10. \A w \in Windows \ {d, r} : two[w] = surf[w]
  BY <1>3, <1>6, Zenon
<1> QED BY <1>1, <1>8, <1>9, <1>10, Zenon DEF BoundTo

\* A handle is free for a context: one is alive less than there may be.
LEMMA FreeContext ==
  ASSUME NEW S, Contexts \ S # {}
  PROVE  Lowest(Contexts \ S) \in Contexts \ S
<1>1. Contexts \ S \in SUBSET Nat
  BY RendererAssumption DEF Contexts
<1> QED BY <1>1, LowestIsLeast

\* The same for windows.
LEMMA FreeWindow ==
  ASSUME NEW S, Windows \ S # {}
  PROVE  Lowest(Windows \ S) \in Windows \ S
<1>1. Windows \ S \in SUBSET Nat
  BY RendererAssumption DEF Windows
<1> QED BY <1>1, LowestIsLeast

\* createRenderContext: the new entry is in the set of its thread.
LEMMA CreateContextKeepsIInv ==
  ASSUME IInv, NEW t \in Threads, CreateRenderContext(t)
  PROVE  IInv'
<1> DEFINE free == Contexts \ ContextsAlive(contexts, windows, info, surface)
           ctxs == With(contexts, GenHandle, Lowest(free))
           inf == [info EXCEPT ![t].contextSet = @ \cup {GenHandle}]
           S == info[t].contextSet \cup {GenHandle}
<1>1. /\ TypeInv /\ CurrentInv /\ TablesAreTracked /\ CanGenHandle /\ free # {}
      /\ Becomes(t, ctxs, windows, inf, surface) /\ nextHandle' = GenHandle /\ pc' = pc /\ pc[t] = "run"
  BY DEF IInv, CreateRenderContext
<1>2. GenHandle \in Handles
  BY <1>1, GenHandleIsNew
<1>3. Lowest(free) \in Contexts
  BY <1>1, FreeContext, Zenon
<1>4. ContextTable(ctxs) /\ DOMAIN ctxs = DOMAIN contexts \cup {GenHandle}
  <2>1. ContextTable(contexts)
    BY <1>1 DEF TypeInv
  <2>2. ContextTable(ctxs)
    BY <1>2, <1>3, <2>1, ContextTables
  <2> QED BY <2>2 DEF With
<1>5. S \in SUBSET Handles /\ SetsContexts(inf, t, S)
  BY <1>1, <1>2 DEF TypeInv, InfoType, SetsContexts
<1> HIDE DEF ctxs, inf, S, free
<1>6. /\ inf \in [Threads -> InfoType] /\ Agrees(inf)
      /\ inf[t].contextSet = S
      /\ \A u \in Threads : inf[u].windowSet = info[u].windowSet
      /\ \A u \in Threads \ {t} : inf[u].contextSet = info[u].contextSet
  <2>1. TypeInv
    BY <1>1, Zenon
  <2>2. HasContextSet(inf, t, S)
    BY <1>5, <2>1, WithContextSet, Zenon
  <2> QED BY <2>2, Zenon DEF HasContextSet
<1>7. TypeInv'
  <2>1. GenHandle \in 0 .. MaxHandle
    BY <1>2, RendererAssumption DEF Handles
  <2> QED BY <1>1, <1>4, <1>6, <2>1, BecomesKeepsType DEF TypeInv
<1>8. CurrentInv'
  <2>1. NoneLeaves(pc')
    BY <1>1 DEF NoneLeaves
  <2>2. Current(inf, pc')
    BY <1>1, <1>6, <2>1, CurrentWithoutSets, Zenon
  <2> QED BY <1>1, <2>2, BecomesKeepsCurrent, Zenon
<1>9. TablesAreTracked'
  <2>1. contexts' = ctxs /\ windows' = windows /\ info' = inf
    BY <1>1 DEF Becomes
  <2>2. \A h \in DOMAIN ctxs : \E u \in Threads : pc[u] # "exited" /\ h \in inf[u].contextSet
    BY <1>1, <1>4, <1>6 DEF TablesAreTracked, S
  <2> QED BY <1>1, <1>6, <2>1, <2>2 DEF TablesAreTracked
<1> QED BY <1>7, <1>8, <1>9 DEF IInv

\* createWindowSurface: the same for the table of windows.
LEMMA CreateWindowKeepsIInv ==
  ASSUME IInv, NEW t \in Threads, CreateWindowSurface(t)
  PROVE  IInv'
<1> DEFINE free == Windows \ WindowsAlive(windows, info)
           wins == With(windows, GenHandle, [win |-> Lowest(free), cb |-> None])
           inf == [info EXCEPT ![t].windowSet = @ \cup {GenHandle}]
           S == info[t].windowSet \cup {GenHandle}
<1>1. /\ TypeInv /\ CurrentInv /\ TablesAreTracked /\ CanGenHandle /\ free # {}
      /\ Becomes(t, contexts, wins, inf, surface) /\ nextHandle' = GenHandle /\ pc' = pc /\ pc[t] = "run"
  BY DEF IInv, CreateWindowSurface
<1>2. GenHandle \in Handles
  BY <1>1, GenHandleIsNew
<1>3. [win |-> Lowest(free), cb |-> None] \in WindowRecord
  BY <1>1, FreeWindow DEF WindowRecord
<1>4. WindowTable(wins) /\ DOMAIN wins = DOMAIN windows \cup {GenHandle}
  <2>1. WindowTable(windows)
    BY <1>1, Zenon DEF TypeInv
  <2>2. WindowTable(wins)
    BY <1>2, <1>3, <2>1, WindowTables, Zenon
  <2> QED BY <2>2, Zenon DEF With
<1>5. S \in SUBSET Handles /\ SetsWindows(inf, t, S)
  BY <1>1, <1>2 DEF TypeInv, InfoType, SetsWindows
<1> HIDE DEF wins, inf, S, free
<1>6. /\ inf \in [Threads -> InfoType] /\ Agrees(inf)
      /\ inf[t].windowSet = S
      /\ \A u \in Threads : inf[u].contextSet = info[u].contextSet
      /\ \A u \in Threads \ {t} : inf[u].windowSet = info[u].windowSet
  <2>1. TypeInv
    BY <1>1, Zenon
  <2>2. HasWindowSet(inf, t, S)
    BY <1>5, <2>1, WithWindowSet, Zenon
  <2> QED BY <2>2, Zenon DEF HasWindowSet
<1>7. TypeInv'
  <2>1. GenHandle \in 0 .. MaxHandle
    BY <1>2, RendererAssumption DEF Handles
  <2> QED BY <1>1, <1>4, <1>6, <2>1, BecomesKeepsType DEF TypeInv
<1>8. CurrentInv'
  <2>1. NoneLeaves(pc')
    BY <1>1 DEF NoneLeaves
  <2>2. Current(inf, pc')
    BY <1>1, <1>6, <2>1, CurrentWithoutSets, Zenon
  <2> QED BY <1>1, <2>2, BecomesKeepsCurrent, Zenon
<1>9. TablesAreTracked'
  <2>1. contexts' = contexts /\ windows' = wins /\ info' = inf
    BY <1>1 DEF Becomes
  <2>2. \A h \in DOMAIN wins : \E u \in Threads : pc[u] \in {"run", "unbound"} /\ h \in inf[u].windowSet
    BY <1>1, <1>4, <1>6 DEF TablesAreTracked, S
  <2> QED BY <1>1, <1>6, <2>1, <2>2 DEF TablesAreTracked
<1> QED BY <1>7, <1>8, <1>9 DEF IInv

\* destroyRenderContext: the other threads keep what the table keeps.
LEMMA DestroyContextKeepsIInv ==
  ASSUME IInv, NEW t \in Threads, NEW h, DestroyRenderContext(t, h)
  PROVE  IInv'
<1> DEFINE ctxs == Restrict(contexts, DOMAIN contexts \ {h})
           S == info[t].contextSet \ {h}
           inf == [info EXCEPT ![t].contextSet = S]
<1>1. /\ TypeInv /\ CurrentInv /\ TablesAreTracked
      /\ Becomes(t, ctxs, windows, inf, surface) /\ nextHandle' = nextHandle
      /\ pc' = pc /\ pc[t] = "run"
  BY DEF IInv, DestroyRenderContext
<1>2. ContextTable(ctxs) /\ DOMAIN ctxs = DOMAIN contexts \ {h}
  BY <1>1, ContextTables, Zenon DEF TypeInv, Restrict
<1>3. S \in SUBSET Handles /\ SetsContexts(inf, t, S)
  BY <1>1 DEF TypeInv, InfoType, SetsContexts
<1>4. NoneLeaves(pc') /\ pc' \in [Threads -> {"run", "unbound", "drained", "exited"}]
  BY <1>1 DEF NoneLeaves, TypeInv
<1> HIDE DEF ctxs, inf, S
<1>5. /\ inf \in [Threads -> InfoType] /\ Agrees(inf)
      /\ inf[t].contextSet = S
      /\ \A u \in Threads : inf[u].windowSet = info[u].windowSet
      /\ \A u \in Threads \ {t} : inf[u].contextSet = info[u].contextSet
  <2>1. TypeInv
    BY <1>1, Zenon
  <2>2. HasContextSet(inf, t, S)
    BY <1>3, <2>1, WithContextSet, Zenon
  <2> QED BY <2>2, Zenon DEF HasContextSet
<1>6. TypeInv'
  BY <1>1, <1>2, <1>4, <1>5, BecomesKeepsType DEF TypeInv
<1>7. CurrentInv'
  <2>1. Current(inf, pc')
    BY <1>1, <1>4, <1>5, CurrentWithoutSets, Zenon
  <2> QED BY <1>1, <2>1, BecomesKeepsCurrent, Zenon
<1>8. TablesAreTracked'
  <2>1. contexts' = ctxs /\ windows' = windows /\ info' = inf
    BY <1>1 DEF Becomes
  <2>2. ASSUME NEW g \in DOMAIN ctxs
        PROVE  \E u \in Threads : pc'[u] # "exited" /\ g \in inf[u].contextSet
    <3>1. PICK u \in Threads : pc[u] # "exited" /\ g \in info[u].contextSet
      BY <1>1, <1>2, <2>2 DEF TablesAreTracked
    <3>2. CASE u = t
      BY <1>1, <1>2, <1>5, <2>2, <3>1, <3>2 DEF S, TypeInv
    <3>3. CASE u # t
      BY <1>1, <1>5, <3>1, <3>3 DEF TypeInv
    <3> QED BY <3>2, <3>3
  <2>3. \A g \in DOMAIN windows : \E u \in Threads : pc'[u] \in {"run", "unbound"} /\ g \in info[u].windowSet
    BY <1>1 DEF TablesAreTracked, TypeInv
  <2> QED BY <1>1, <1>5, <2>1, <2>2, <2>3 DEF TablesAreTracked
<1> QED BY <1>6, <1>7, <1>8 DEF IInv

\* drainRenderContext: the thread's set leaves the table with the thread.
LEMMA DrainContextKeepsIInv ==
  ASSUME IInv, NEW t \in Threads, DrainRenderContext(t)
  PROVE  IInv'
<1> DEFINE ctxs == Restrict(contexts, DOMAIN contexts \ info[t].contextSet)
           S == {}
           inf == [info EXCEPT ![t].contextSet = S]
<1>1. /\ TypeInv /\ CurrentInv /\ TablesAreTracked
      /\ Becomes(t, ctxs, windows, inf, surface) /\ nextHandle' = nextHandle
      /\ pc' = [pc EXCEPT ![t] = "exited"] /\ pc[t] = "drained"
  BY DEF IInv, DrainRenderContext
<1>2. ContextTable(ctxs) /\ DOMAIN ctxs = DOMAIN contexts \ info[t].contextSet
  BY <1>1, ContextTables, Zenon DEF TypeInv, Restrict
<1>3. S \in SUBSET Handles /\ SetsContexts(inf, t, S)
  BY <1>1 DEF TypeInv, InfoType, SetsContexts
<1>4. NoneLeaves(pc') /\ pc' \in [Threads -> {"run", "unbound", "drained", "exited"}]
  BY <1>1 DEF NoneLeaves, TypeInv
<1> HIDE DEF ctxs, inf, S
<1>5. /\ inf \in [Threads -> InfoType] /\ Agrees(inf)
      /\ inf[t].contextSet = S
      /\ \A u \in Threads : inf[u].windowSet = info[u].windowSet
      /\ \A u \in Threads \ {t} : inf[u].contextSet = info[u].contextSet
  <2>1. TypeInv
    BY <1>1, Zenon
  <2>2. HasContextSet(inf, t, S)
    BY <1>3, <2>1, WithContextSet, Zenon
  <2> QED BY <2>2, Zenon DEF HasContextSet
<1>6. TypeInv'
  BY <1>1, <1>2, <1>4, <1>5, BecomesKeepsType DEF TypeInv
<1>7. CurrentInv'
  <2>1. Current(inf, pc')
    BY <1>1, <1>4, <1>5, CurrentWithoutSets, Zenon
  <2> QED BY <1>1, <2>1, BecomesKeepsCurrent, Zenon
<1>8. TablesAreTracked'
  <2>1. contexts' = ctxs /\ windows' = windows /\ info' = inf
    BY <1>1 DEF Becomes
  <2>2. ASSUME NEW g \in DOMAIN ctxs
        PROVE  \E u \in Threads : pc'[u] # "exited" /\ g \in inf[u].contextSet
    <3>1. PICK u \in Threads : pc[u] # "exited" /\ g \in info[u].contextSet
      BY <1>1, <1>2, <2>2, Zenon DEF TablesAreTracked
    <3>2. CASE u = t
      BY <1>1, <1>2, <1>5, <2>2, <3>1, <3>2 DEF S, TypeInv
    <3>3. CASE u # t
      BY <1>1, <1>5, <3>1, <3>3 DEF TypeInv
    <3> QED BY <3>2, <3>3
  <2>3. \A g \in DOMAIN windows : \E u \in Threads : pc'[u] \in {"run", "unbound"} /\ g \in info[u].windowSet
    BY <1>1 DEF TablesAreTracked, TypeInv
  <2> QED BY <1>1, <1>5, <2>1, <2>2, <2>3 DEF TablesAreTracked
<1> QED BY <1>6, <1>7, <1>8 DEF IInv

\* destroyWindowSurface: as for a context.
LEMMA DestroyWindowKeepsIInv ==
  ASSUME IInv, NEW t \in Threads, NEW h, DestroyWindowSurface(t, h)
  PROVE  IInv'
<1> DEFINE wins == Restrict(windows, DOMAIN windows \ {h})
           S == info[t].windowSet \ {h}
           inf == [info EXCEPT ![t].windowSet = S]
<1>1. /\ TypeInv /\ CurrentInv /\ TablesAreTracked
      /\ Becomes(t, contexts, wins, inf, surface) /\ nextHandle' = nextHandle
      /\ pc' = pc /\ pc[t] = "run"
  BY DEF IInv, DestroyWindowSurface
<1>2. WindowTable(wins) /\ DOMAIN wins = DOMAIN windows \ {h}
  BY <1>1, WindowTables, Zenon DEF TypeInv, Restrict
<1>3. S \in SUBSET Handles /\ SetsWindows(inf, t, S)
  BY <1>1 DEF TypeInv, InfoType, SetsWindows
<1>4. NoneLeaves(pc') /\ pc' \in [Threads -> {"run", "unbound", "drained", "exited"}]
  BY <1>1 DEF NoneLeaves, TypeInv
<1> HIDE DEF wins, inf, S
<1>5. /\ inf \in [Threads -> InfoType] /\ Agrees(inf)
      /\ inf[t].windowSet = S
      /\ \A u \in Threads : inf[u].contextSet = info[u].contextSet
      /\ \A u \in Threads \ {t} : inf[u].windowSet = info[u].windowSet
  <2>1. TypeInv
    BY <1>1, Zenon
  <2>2. HasWindowSet(inf, t, S)
    BY <1>3, <2>1, WithWindowSet, Zenon
  <2> QED BY <2>2, Zenon DEF HasWindowSet
<1>6. TypeInv'
  BY <1>1, <1>2, <1>4, <1>5, BecomesKeepsType DEF TypeInv
<1>7. CurrentInv'
  <2>1. Current(inf, pc')
    BY <1>1, <1>4, <1>5, CurrentWithoutSets, Zenon
  <2> QED BY <1>1, <2>1, BecomesKeepsCurrent, Zenon
<1>8. TablesAreTracked'
  <2>1. contexts' = contexts /\ windows' = wins /\ info' = inf
    BY <1>1 DEF Becomes
  <2>2. ASSUME NEW g \in DOMAIN wins
        PROVE  \E u \in Threads : pc'[u] \in {"run", "unbound"} /\ g \in inf[u].windowSet
    <3>1. PICK u \in Threads : pc[u] \in {"run", "unbound"} /\ g \in info[u].windowSet
      BY <1>1, <1>2, <2>2 DEF TablesAreTracked
    <3>2. CASE u = t
      BY <1>1, <1>2, <1>5, <2>2, <3>1, <3>2 DEF S, TypeInv
    <3>3. CASE u # t
      BY <1>1, <1>5, <3>1, <3>3, Zenon DEF TypeInv
    <3> QED BY <3>2, <3>3
  <2>3. \A g \in DOMAIN contexts : \E u \in Threads : pc'[u] # "exited" /\ g \in info[u].contextSet
    BY <1>1 DEF TablesAreTracked, TypeInv
  <2> QED BY <1>1, <1>5, <2>1, <2>2, <2>3 DEF TablesAreTracked
<1> QED BY <1>6, <1>7, <1>8 DEF IInv

\* drainWindowSurface: the thread's windows leave the table.
LEMMA DrainWindowKeepsIInv ==
  ASSUME IInv, NEW t \in Threads, DrainWindowSurface(t)
  PROVE  IInv'
<1> DEFINE mine == info[t].windowSet \cap DOMAIN windows
           wins == Restrict(windows, DOMAIN windows \ mine)
           S == {}
           inf == [info EXCEPT ![t].windowSet = S]
<1>1. /\ TypeInv /\ CurrentInv /\ TablesAreTracked
      /\ Becomes(t, contexts, wins, inf, surface) /\ nextHandle' = nextHandle
      /\ pc' = [pc EXCEPT ![t] = "drained"] /\ pc[t] = "unbound"
  BY DEF IInv, DrainWindowSurface
<1>2. WindowTable(wins) /\ DOMAIN wins = DOMAIN windows \ mine
  BY <1>1, WindowTables, Zenon DEF TypeInv, Restrict
<1>3. S \in SUBSET Handles /\ SetsWindows(inf, t, S)
  BY <1>1 DEF TypeInv, InfoType, SetsWindows
<1>4. NoneLeaves(pc') /\ pc' \in [Threads -> {"run", "unbound", "drained", "exited"}]
  BY <1>1 DEF NoneLeaves, TypeInv
<1> HIDE DEF wins, inf, S
<1>5. /\ inf \in [Threads -> InfoType] /\ Agrees(inf)
      /\ inf[t].windowSet = S
      /\ \A u \in Threads : inf[u].contextSet = info[u].contextSet
      /\ \A u \in Threads \ {t} : inf[u].windowSet = info[u].windowSet
  <2>1. TypeInv
    BY <1>1, Zenon
  <2>2. HasWindowSet(inf, t, S)
    BY <1>3, <2>1, WithWindowSet, Zenon
  <2> QED BY <2>2, Zenon DEF HasWindowSet
<1>6. TypeInv'
  BY <1>1, <1>2, <1>4, <1>5, BecomesKeepsType, Zenon DEF TypeInv
<1>7. CurrentInv'
  <2>1. Current(inf, pc')
    BY <1>1, <1>4, <1>5, CurrentWithoutSets, Zenon
  <2> QED BY <1>1, <2>1, BecomesKeepsCurrent, Zenon
<1>8. TablesAreTracked'
  <2>1. contexts' = contexts /\ windows' = wins /\ info' = inf
    BY <1>1 DEF Becomes
  <2>2. ASSUME NEW g \in DOMAIN wins
        PROVE  \E u \in Threads : pc'[u] \in {"run", "unbound"} /\ g \in inf[u].windowSet
    <3>1. PICK u \in Threads : pc[u] \in {"run", "unbound"} /\ g \in info[u].windowSet
      BY <1>1, <1>2, <2>2 DEF TablesAreTracked
    <3>2. CASE u = t
      BY <1>1, <1>2, <1>5, <2>2, <3>1, <3>2 DEF S, TypeInv
    <3>3. CASE u # t
      BY <1>1, <1>5, <3>1, <3>3 DEF TypeInv
    <3> QED BY <3>2, <3>3
  <2>3. \A g \in DOMAIN contexts : \E u \in Threads : pc'[u] # "exited" /\ g \in info[u].contextSet
    BY <1>1 DEF TablesAreTracked, TypeInv
  <2> QED BY <1>1, <1>5, <2>1, <2>2, <2>3 DEF TablesAreTracked
<1> QED BY <1>6, <1>7, <1>8 DEF IInv

\* A thread's record with another context and other surfaces current.
Holding(t, c, d, r) == [info EXCEPT ![t].ctx = c, ![t].draw = d, ![t].read = r]

\* What such a record is, and that the others stay.
LEMMA InfoHolding ==
  ASSUME TypeInv, NEW t \in Threads, NEW c, NEW d, NEW r
  PROVE  /\ Holding(t, c, d, r)[t] = [ctx |-> c, draw |-> d, read |-> r,
                                      contextSet |-> info[t].contextSet, windowSet |-> info[t].windowSet]
         /\ \A u \in Threads \ {t} : Holding(t, c, d, r)[u] = info[u]
         /\ Holding(t, c, d, r) = [u \in Threads |-> Holding(t, c, d, r)[u]]
<1> DEFINE one == [info EXCEPT ![t].ctx = c]
           two == [one EXCEPT ![t].draw = d]
           three == [two EXCEPT ![t].read = r]
<1>1. Holding(t, c, d, r) = three
  BY DEF Holding
<1>2. info = [u \in Threads |-> info[u]]
      /\ info[t] = [ctx |-> info[t].ctx, draw |-> info[t].draw, read |-> info[t].read,
                    contextSet |-> info[t].contextSet, windowSet |-> info[t].windowSet]
  BY DEF TypeInv, InfoType
<1>3. /\ one[t] = [ctx |-> c, draw |-> info[t].draw, read |-> info[t].read,
                   contextSet |-> info[t].contextSet, windowSet |-> info[t].windowSet]
      /\ \A u \in Threads \ {t} : one[u] = info[u]
      /\ one = [u \in Threads |-> one[u]]
  <2>1. one[t] = [info[t] EXCEPT !.ctx = c]
    BY <1>2
  <2> QED BY <1>2, <2>1
<1> HIDE DEF one
<1>4. /\ two[t] = [ctx |-> c, draw |-> d, read |-> info[t].read,
                   contextSet |-> info[t].contextSet, windowSet |-> info[t].windowSet]
      /\ \A u \in Threads \ {t} : two[u] = info[u]
      /\ two = [u \in Threads |-> two[u]]
  <2>1. two[t] = [one[t] EXCEPT !.draw = d]
    BY <1>3
  <2> QED BY <1>3, <2>1
<1> HIDE DEF two
<1>5. /\ three[t] = [ctx |-> c, draw |-> d, read |-> r,
                     contextSet |-> info[t].contextSet, windowSet |-> info[t].windowSet]
      /\ \A u \in Threads \ {t} : three[u] = info[u]
      /\ three = [u \in Threads |-> three[u]]
  <2>1. three[t] = [two[t] EXCEPT !.read = r]
    BY <1>4
  <2> QED BY <1>4, <2>1
<1> HIDE DEF three
<1> QED BY <1>1, <1>5

\* bindContext: eglMakeCurrent has refused what is current elsewhere.
LEMMA BindKeepsIInv ==
  ASSUME IInv, NEW t \in Threads, NEW hc, NEW hd, NEW hr, BindContext(t, hc, hd, hr)
  PROVE  IInv'
<1> DEFINE c == contexts[hc]
           d == windows[hd].win
           r == windows[hr].win
           inf == Holding(t, c, d, r)
           surf == Bind(surface, d, r, c)
<1>1. /\ TypeInv /\ CurrentInv /\ TablesAreTracked /\ MakesCurrent(t, c, d, r)
      /\ Becomes(t, contexts, windows, inf, surf) /\ nextHandle' = nextHandle
      /\ pc' = pc /\ pc[t] = "run" /\ hc \in DOMAIN contexts /\ hd \in DOMAIN windows /\ hr \in DOMAIN windows
  BY DEF IInv, BindContext, Holding
<1>2. c \in Contexts /\ d \in Windows /\ r \in Windows
  BY <1>1 DEF TypeInv, ContextTable, WindowTable, WindowRecord
<1>3. c # None /\ d # None /\ r # None
  BY <1>2, RendererAssumption DEF Contexts, Windows, None
<1>4. /\ SurfaceTable(surf) /\ surf[d].drawCtx = c /\ surf[r].readCtx = c
      /\ \A w \in Windows \ {d, r} : surf[w] = surface[w]
  <2>1. SurfaceTable(surface)
    BY <1>1, Zenon DEF TypeInv
  <2>2. BoundTo(surf, surface, d, r, c)
    BY <1>2, <2>1, Bound, Zenon
  <2> QED BY <2>2, Zenon DEF BoundTo
<1> HIDE DEF c, d, r, surf
<1>5. /\ inf[t] = [ctx |-> c, draw |-> d, read |-> r,
                   contextSet |-> info[t].contextSet, windowSet |-> info[t].windowSet]
      /\ \A u \in Threads \ {t} : inf[u] = info[u]
      /\ inf = [u \in Threads |-> inf[u]]
  BY <1>1, InfoHolding
<1> HIDE DEF inf
<1>6. inf \in [Threads -> InfoType]
  <2>1. inf[t] \in InfoType
    BY <1>1, <1>2, <1>5 DEF TypeInv, InfoType
  <2> QED BY <1>1, <1>5, <2>1 DEF TypeInv
<1>7. Current(inf, pc')
  <2>1. /\ inf[t].ctx = c /\ inf[t].draw = d /\ inf[t].read = r
    BY <1>5
  <2> QED BY <1>1, <1>3, <1>5, <2>1 DEF CurrentInv, Current
<1>8. TypeInv'
  BY <1>1, <1>4, <1>6, BecomesKeepsType, Zenon DEF TypeInv
<1>9. CurrentInv'
  BY <1>1, <1>6, <1>7, BecomesKeepsCurrent
<1>10. TablesAreTracked'
  <2>1. contexts' = contexts /\ windows' = windows /\ info' = inf
    BY <1>1 DEF Becomes
  <2>2. \A u \in Threads : inf[u].contextSet = info[u].contextSet /\ inf[u].windowSet = info[u].windowSet
    BY <1>5
  <2> QED BY <1>1, <2>1, <2>2 DEF TablesAreTracked
<1> QED BY <1>8, <1>9, <1>10 DEF IInv

\* bindContext(0, 0, 0), by the client or at the end of the thread.
LEMMA UnboundKeepsIInv ==
  ASSUME IInv, NEW t \in Threads, Unbound(t), nextHandle' = nextHandle, pc[t] = "run",
         pc' = pc \/ pc' = [pc EXCEPT ![t] = "unbound"]
  PROVE  IInv'
<1> DEFINE inf == Holding(t, None, None, None)
           surf == IF info[t].draw = None THEN surface ELSE Bind(surface, info[t].draw, info[t].read, None)
<1>1. TypeInv /\ CurrentInv /\ TablesAreTracked /\ Becomes(t, contexts, windows, inf, surf)
  BY Zenon DEF IInv, Unbound, Holding
<1>2. /\ SurfaceTable(surf)
      /\ info[t].draw # None => \A w \in Windows \ {info[t].draw, info[t].read} : surf[w] = surface[w]
  <2>1. CASE info[t].draw = None
    BY <1>1, <2>1 DEF TypeInv
  <2>2. CASE info[t].draw # None
    <3>1. info[t].draw \in Windows /\ info[t].read \in Windows
      BY <1>1, <2>2, Zenon DEF TypeInv, InfoType, CurrentInv, Current
    <3>2. SurfaceTable(surface)
      BY <1>1, Zenon DEF TypeInv
    <3>3. BoundTo(Bind(surface, info[t].draw, info[t].read, None), surface, info[t].draw, info[t].read, None)
      BY <3>1, <3>2, Bound, Zenon
    <3>4. surf = Bind(surface, info[t].draw, info[t].read, None)
      BY <2>2, Zenon
    <3> QED BY <3>3, <3>4, Zenon DEF BoundTo
  <2> QED BY <2>1, <2>2, Zenon
<1>3. info[t].draw = None => surf = surface
  OBVIOUS
<1> HIDE DEF surf
<1>4. /\ inf[t] = [ctx |-> None, draw |-> None, read |-> None,
                   contextSet |-> info[t].contextSet, windowSet |-> info[t].windowSet]
      /\ \A u \in Threads \ {t} : inf[u] = info[u]
      /\ inf = [u \in Threads |-> inf[u]]
  BY <1>1, InfoHolding
<1> HIDE DEF inf
<1>5. inf \in [Threads -> InfoType]
  <2>1. inf[t] \in InfoType
    BY <1>1, <1>4 DEF TypeInv, InfoType
  <2> QED BY <1>1, <1>4, <2>1 DEF TypeInv
<1>6. Current(inf, pc')
  <2>1. inf[t].ctx = None /\ inf[t].draw = None /\ inf[t].read = None
    BY <1>4
  <2>2. \A u \in Threads : pc'[u] # "run" => u = t \/ pc[u] # "run"
    BY <1>1, Zenon DEF TypeInv
  <2> QED BY <1>1, <1>4, <2>1, <2>2 DEF CurrentInv, Current
<1>7. pc' \in [Threads -> {"run", "unbound", "drained", "exited"}]
  BY <1>1 DEF TypeInv
<1>8. TypeInv'
  BY <1>1, <1>2, <1>5, <1>7, BecomesKeepsType, Zenon DEF TypeInv
<1>9. CurrentInv'
  BY <1>1, <1>5, <1>6, BecomesKeepsCurrent
<1>10. TablesAreTracked'
  <2>1. contexts' = contexts /\ windows' = windows /\ info' = inf
    BY <1>1 DEF Becomes
  <2>2. \A u \in Threads : inf[u].contextSet = info[u].contextSet /\ inf[u].windowSet = info[u].windowSet
    BY <1>4
  <2>3. \A u \in Threads : /\ pc[u] # "exited" => pc'[u] # "exited"
                           /\ pc[u] \in {"run", "unbound"} => pc'[u] \in {"run", "unbound"}
    BY <1>1 DEF TypeInv
  <2> QED BY <1>1, <2>1, <2>2, <2>3 DEF TablesAreTracked
<1> QED BY <1>8, <1>9, <1>10 DEF IInv

\* setWindowSurfaceColorBuffer changes neither the windows' names nor what is current.
LEMMA SetColorBufferKeepsIInv ==
  ASSUME IInv, NEW t \in Threads, NEW hw, NEW h \in Handles, SetWindowSurfaceColorBuffer(t, hw, h)
  PROVE  IInv' /\ DOMAIN windows' = DOMAIN windows /\ \A g \in DOMAIN windows : windows'[g].win = windows[g].win
<1> DEFINE v == windows[hw].win
           wins == [windows EXCEPT ![hw].cb = h]
           b == colorbuffers[h].cb
           surf == [surface EXCEPT ![v].attached = b]
<1>1. /\ TypeInv /\ CurrentInv /\ TablesAreTracked /\ hw \in DOMAIN windows
      /\ Becomes(t, contexts, wins, info, surf) /\ nextHandle' = nextHandle /\ pc' = pc
  BY DEF IInv, SetWindowSurfaceColorBuffer
<1>2. v \in Windows /\ windows[hw] = [win |-> v, cb |-> windows[hw].cb]
  BY <1>1 DEF TypeInv, WindowTable, WindowRecord
<1>3. /\ wins[hw] = [win |-> v, cb |-> h] /\ DOMAIN wins = DOMAIN windows
      /\ \A g \in DOMAIN windows \ {hw} : wins[g] = windows[g]
      /\ wins = [g \in DOMAIN windows |-> wins[g]]
  <2>1. wins[hw] = [windows[hw] EXCEPT !.cb = h]
    BY <1>1 DEF TypeInv, WindowTable
  <2>2. wins[hw] = [win |-> v, cb |-> h]
    <3> HIDE DEF v, wins
    <3> QED BY <1>2, <2>1
  <2> QED BY <1>1, <2>2 DEF TypeInv, WindowTable
<1> HIDE DEF wins, b
<1>4. WindowTable(wins) /\ \A g \in DOMAIN windows : wins[g].win = windows[g].win
  <2>1. wins[hw] \in WindowRecord
    BY <1>2, <1>3 DEF WindowRecord
  <2> QED BY <1>1, <1>2, <1>3, <2>1 DEF TypeInv, WindowTable
<1> HIDE DEF v
<1>5. /\ surf[v] = [attached |-> b, readCtx |-> surface[v].readCtx, drawCtx |-> surface[v].drawCtx]
      /\ \A w \in Windows \ {v} : surf[w] = surface[w]
      /\ surf = [w \in Windows |-> surf[w]]
  <2>1. surface[v] = [attached |-> surface[v].attached, readCtx |-> surface[v].readCtx,
                      drawCtx |-> surface[v].drawCtx]
    BY <1>1, <1>2 DEF TypeInv, SurfaceTable, SurfaceRecord
  <2>2. surf[v] = [surface[v] EXCEPT !.attached = b]
    BY <1>1, <1>2 DEF TypeInv, SurfaceTable
  <2>3. surf[v] = [attached |-> b, readCtx |-> surface[v].readCtx, drawCtx |-> surface[v].drawCtx]
    <3> HIDE DEF surf
    <3> QED BY <2>1, <2>2
  <2> QED BY <1>1, <2>3, Zenon DEF TypeInv, SurfaceTable
<1> HIDE DEF surf
<1>6. SurfaceTable(surf)
  BY <1>1, <1>5 DEF TypeInv, SurfaceTable, SurfaceRecord
<1>7. \A w \in Windows : surf[w].readCtx = surface[w].readCtx /\ surf[w].drawCtx = surface[w].drawCtx
  BY <1>5
<1>8. Current(info, pc')
  BY <1>1, Zenon DEF CurrentInv, Current
<1>9. TypeInv'
  BY <1>1, <1>4, <1>6, BecomesKeepsType DEF TypeInv
<1>10. CurrentInv'
  BY <1>1, <1>8, BecomesKeepsCurrent DEF TypeInv
<1>11. contexts' = contexts /\ windows' = wins /\ info' = info
  BY <1>1 DEF Becomes
<1>12. TablesAreTracked'
  BY <1>1, <1>3, <1>11 DEF TablesAreTracked
<1> QED BY <1>3, <1>4, <1>9, <1>10, <1>11, <1>12 DEF IInv

\* The steps on colour buffers leave contexts, windows and threads alone.
LEMMA ColorBufferStepsKeepIInv ==
  ASSUME IInv, UNCHANGED <<contexts, windows, surface, info, pc, creator>>,
         nextHandle' \in 0 .. MaxHandle
  PROVE  IInv'
BY Zenon DEF IInv, TypeInv, CurrentInv, Current, TablesAreTracked, ContextTable, WindowTable, SurfaceTable

\* createColorBuffer takes its handle from the same counter.
LEMMA CreateColorBufferKeepsIInv ==
  ASSUME IInv, NEW t \in Threads, CreateColorBuffer(t)
  PROVE  IInv'
<1>1. TypeInv /\ CanGenHandle
  BY DEF IInv, CreateColorBuffer
<1>2. GenHandle \in 0 .. MaxHandle
  BY <1>1, GenHandleIsNew, RendererAssumption DEF Handles
<1> QED BY <1>2, ColorBufferStepsKeepIInv DEF CreateColorBuffer

\* Every step keeps the invariant.
LEMMA NextIInv == IInv /\ [Next]_vars => IInv'
<1> SUFFICES ASSUME IInv, [Next]_vars PROVE IInv'
  OBVIOUS
<1>1. CASE UNCHANGED vars
  BY <1>1, Zenon DEF vars, IInv, TypeInv, CurrentInv, Current, TablesAreTracked, ContextTable, WindowTable, SurfaceTable
<1>2. ASSUME NEW t \in Threads, ClientStep(t) PROVE IInv'
  <2>1. CASE CreateRenderContext(t)
    BY <2>1, CreateContextKeepsIInv
  <2>2. CASE CreateWindowSurface(t)
    BY <2>2, CreateWindowKeepsIInv
  <2>3. CASE CreateColorBuffer(t)
    BY <2>3, CreateColorBufferKeepsIInv
  <2>4. CASE UnbindContext(t)
    BY <2>4, UnboundKeepsIInv DEF UnbindContext
  <2>5. ASSUME NEW h \in Handles, DestroyRenderContext(t, h) PROVE IInv'
    BY <2>5, DestroyContextKeepsIInv
  <2>6. ASSUME NEW h \in Handles, DestroyWindowSurface(t, h) PROVE IInv'
    BY <2>6, DestroyWindowKeepsIInv
  <2>7. ASSUME NEW h \in Handles, OpenColorBuffer(t, h) \/ CloseColorBuffer(t, h) PROVE IInv'
    <3>1. nextHandle' \in 0 .. MaxHandle
      BY <2>7 DEF OpenColorBuffer, CloseColorBuffer, IInv, TypeInv
    <3> QED BY <2>7, <3>1, ColorBufferStepsKeepIInv DEF OpenColorBuffer, CloseColorBuffer
  <2>8. ASSUME NEW h \in Handles, NEW w \in Handles, NEW r \in Handles, BindContext(t, h, w, r) PROVE IInv'
    BY <2>8, BindKeepsIInv
  <2>9. ASSUME NEW w \in Handles, NEW h \in Handles, SetWindowSurfaceColorBuffer(t, w, h) PROVE IInv'
    BY <2>9, SetColorBufferKeepsIInv
  <2> QED BY <1>2, <2>1, <2>2, <2>3, <2>4, <2>5, <2>6, <2>7, <2>8, <2>9 DEF ClientStep
<1>3. ASSUME NEW t \in Threads, ExitStep(t) PROVE IInv'
  <2>1. CASE ThreadUnbinds(t)
    BY <2>1, UnboundKeepsIInv, Zenon DEF ThreadUnbinds
  <2>2. CASE DrainWindowSurface(t)
    BY <2>2, DrainWindowKeepsIInv
  <2>3. CASE DrainRenderContext(t)
    BY <2>3, DrainContextKeepsIInv
  <2> QED BY <1>3, <2>1, <2>2, <2>3 DEF ExitStep
<1> QED BY <1>1, <1>2, <1>3 DEF Next

\* The invariant holds in every state.
THEOREM Invariance == Spec => []IInv
<1> QED BY InitIInv, NextIInv, PTL DEF Spec

\* Every context and window of the tables is in the set of a thread that will
\* drain it (genHandle, the destroy and the drain operations).
THEOREM EntriesAreTracked == Spec => []TablesAreTracked
<1>1. IInv => TablesAreTracked
  BY DEF IInv
<1> QED BY <1>1, Invariance, PTL

\* A handle that is in use before and after a step names the same object.
StableStep ==
  /\ \A h \in DOMAIN contexts \cap DOMAIN contexts' : contexts'[h] = contexts[h]
  /\ \A h \in DOMAIN windows \cap DOMAIN windows' : windows'[h].win = windows[h].win

\* No step changes what a handle means, wherever the counter is.
LEMMA StepsAreStable == IInv /\ [Next]_vars => StableStep
<1> SUFFICES ASSUME IInv, [Next]_vars PROVE StableStep
  OBVIOUS
<1>0. TypeInv
  BY DEF IInv
<1>1. CASE UNCHANGED vars
  BY <1>1 DEF vars, StableStep
<1>2. ASSUME NEW t \in Threads, ClientStep(t) PROVE StableStep
  <2>1. CASE CreateRenderContext(t)
    <3>1. CanGenHandle /\ windows' = windows
      BY <2>1 DEF CreateRenderContext, Becomes
    <3>2. \E c : contexts' = With(contexts, GenHandle, c)
      BY <2>1 DEF CreateRenderContext, Becomes
    <3>3. GenHandle \notin DOMAIN contexts
      BY <1>0, <3>1, GenHandleIsNew
    <3> QED BY <3>1, <3>2, <3>3 DEF StableStep, With
  <2>2. CASE CreateWindowSurface(t)
    <3>1. CanGenHandle /\ contexts' = contexts
      BY <2>2 DEF CreateWindowSurface, Becomes
    <3>2. \E w : windows' = With(windows, GenHandle, w)
      BY <2>2 DEF CreateWindowSurface, Becomes
    <3>3. GenHandle \notin DOMAIN windows
      BY <1>0, <3>1, GenHandleIsNew
    <3> QED BY <3>1, <3>2, <3>3 DEF StableStep, With
  <2>3. CASE CreateColorBuffer(t)
    BY <2>3 DEF CreateColorBuffer, StableStep
  <2>4. CASE UnbindContext(t)
    BY <2>4 DEF UnbindContext, Unbound, Becomes, StableStep
  <2>5. ASSUME NEW h \in Handles, DestroyRenderContext(t, h) PROVE StableStep
    BY <2>5 DEF DestroyRenderContext, Becomes, Restrict, StableStep
  <2>6. ASSUME NEW h \in Handles, DestroyWindowSurface(t, h) PROVE StableStep
    BY <2>6 DEF DestroyWindowSurface, Becomes, Restrict, StableStep
  <2>7. ASSUME NEW h \in Handles, OpenColorBuffer(t, h) \/ CloseColorBuffer(t, h) PROVE StableStep
    BY <2>7 DEF OpenColorBuffer, CloseColorBuffer, StableStep
  <2>8. ASSUME NEW h \in Handles, NEW w \in Handles, NEW r \in Handles, BindContext(t, h, w, r)
        PROVE  StableStep
    BY <2>8 DEF BindContext, Becomes, StableStep
  <2>9. ASSUME NEW w \in Handles, NEW h \in Handles, SetWindowSurfaceColorBuffer(t, w, h) PROVE StableStep
    <3>1. contexts' = contexts
      BY <2>9 DEF SetWindowSurfaceColorBuffer, Becomes
    <3> QED BY <2>9, <3>1, SetColorBufferKeepsIInv DEF StableStep
  <2> QED BY <1>2, <2>1, <2>2, <2>3, <2>4, <2>5, <2>6, <2>7, <2>8, <2>9 DEF ClientStep
<1>3. ASSUME NEW t \in Threads, ExitStep(t) PROVE StableStep
  <2>1. CASE ThreadUnbinds(t)
    BY <2>1 DEF ThreadUnbinds, Unbound, Becomes, StableStep
  <2>2. CASE DrainWindowSurface(t)
    BY <2>2 DEF DrainWindowSurface, Becomes, Restrict, StableStep
  <2>3. CASE DrainRenderContext(t)
    BY <2>3 DEF DrainRenderContext, Becomes, Restrict, StableStep
  <2> QED BY <1>3, <2>1, <2>2, <2>3 DEF ExitStep
<1> QED BY <1>1, <1>2, <1>3 DEF Next

\* A handle names one context or one window until it is destroyed, also when the
\* counter of genHandle has wrapped around.
THEOREM HandlesAreStable == Spec => HandleIsStable
<1>1. IInv /\ [Next]_vars =>
        [/\ \A h \in DOMAIN contexts \cap DOMAIN contexts' : contexts'[h] = contexts[h]
         /\ \A h \in DOMAIN windows \cap DOMAIN windows' : windows'[h].win = windows[h].win]_vars
  BY StepsAreStable DEF StableStep
<1> QED BY <1>1, Invariance, PTL DEF Spec, HandleIsStable

\* The contexts alive after a step are those its new tables refer to.
LEMMA AliveAfter ==
  ASSUME NEW t \in Threads, NEW ctxs, NEW wins, NEW inf, NEW surf,
         Becomes(t, ctxs, wins, inf, surf), WindowTable(wins), inf \in [Threads -> InfoType]
  PROVE  ContextsAlive(contexts', windows', info', surface') = ContextsAlive(ctxs, wins, inf, surf)
<1>1. contexts' = ctxs /\ windows' = wins /\ info' = inf
  BY DEF Becomes
<1>2. WindowsAlive(wins, inf) \subseteq Windows
  BY DEF WindowsAlive, WindowTable, WindowRecord, InfoType
<1>3. \A w \in WindowsAlive(wins, inf) : surface'[w] = surf[w]
  BY <1>2 DEF Becomes
<1> QED BY <1>1, <1>3, Zenon DEF ContextsAlive

\* Every context in a thread's set and in the table was there before, or is a new
\* one of thread t.
KeepsOrCreates(t, ctxs, inf) ==
  \A u \in Threads : \A h \in inf[u].contextSet \cap DOMAIN ctxs :
    \/ h \in info[u].contextSet /\ h \in DOMAIN contexts /\ ctxs[h] = contexts[h]
    \/ u = t /\ ctxs[h] \notin ContextsAlive(contexts, windows, info, surface)

\* Such a step keeps the creators.
LEMMA BecomesKeepsCreated ==
  ASSUME AliveAreCreated, Created, NEW t \in Threads,
         NEW ctxs, NEW wins, NEW inf, NEW surf,
         Becomes(t, ctxs, wins, inf, surf),
         ContextTable(ctxs), WindowTable(wins), inf \in [Threads -> InfoType],
         KeepsOrCreates(t, ctxs, inf)
  PROVE  AliveAreCreated' /\ Created'
<1> DEFINE alive == ContextsAlive(ctxs, wins, inf, surf)
<1>1. t # None /\ \A u \in Threads : u # None
  BY RendererAssumption
<1>2. \A c \in Contexts : creator'[c] = IF c \notin alive THEN None
                                        ELSE IF creator[c] = None THEN t ELSE creator[c]
  BY DEF Becomes
<1>3. contexts' = ctxs /\ info' = inf
  BY DEF Becomes
<1>4. \A h \in DOMAIN ctxs : ctxs[h] \in alive /\ ctxs[h] \in Contexts
  <2>1. \A c \in Contexts : c # None
    BY RendererAssumption DEF Contexts, None
  <2> QED BY <2>1 DEF ContextsAlive, ContextTable, Range
<1>5. AliveAreCreated'
  <2>1. ContextsAlive(contexts', windows', info', surface') = alive
    BY AliveAfter, Zenon
  <2> HIDE DEF alive
  <2> QED BY <1>1, <1>2, <2>1, Zenon DEF AliveAreCreated
<1> HIDE DEF alive
<1>6. Created'
  <2> SUFFICES ASSUME NEW u \in Threads, NEW h \in inf[u].contextSet \cap DOMAIN ctxs
               PROVE  creator'[ctxs[h]] = u
    BY <1>3, Zenon DEF Created
  <2>1. CASE h \in info[u].contextSet /\ h \in DOMAIN contexts /\ ctxs[h] = contexts[h]
    <3>1. creator[ctxs[h]] = u
      BY <2>1, Zenon DEF Created
    <3> QED BY <1>1, <1>2, <1>4, <3>1, Zenon
  <2>2. CASE u = t /\ ctxs[h] \notin ContextsAlive(contexts, windows, info, surface)
    <3>1. creator[ctxs[h]] = None
      BY <1>4, <2>2, Zenon DEF AliveAreCreated
    <3> QED BY <1>2, <1>4, <2>2, <3>1, Zenon
  <2> QED BY <2>1, <2>2, Zenon DEF KeepsOrCreates
<1> QED BY <1>5, <1>6

\* Until the counter wraps around, the next handle is the counter's next value.
LEMMA NextHandle ==
  ASSUME MaxCreations <= MaxHandle, IInv, Counted, CanGenHandle
  PROVE  GenHandle = nextHandle + 1
<1>1. TypeInv /\ nextHandle \in Nat /\ MaxCreations \in Nat /\ MaxHandle \in Nat
  BY RendererAssumption DEF IInv, TypeInv
<1>2. nextHandle < MaxHandle
  BY <1>1 DEF CanGenHandle
<1>3. \A h \in DOMAIN contexts \cup DOMAIN windows : h <= nextHandle
  BY DEF IInv, TablesAreTracked, Counted
<1>4. ~HandleInUse(nextHandle + 1)
  BY <1>1, <1>3 DEF HandleInUse
<1> QED BY <1>1, <1>2, <1>4, GenHandleIsNew

\* A step that only takes entries out of the tables and handles out of the sets.
Shrinks ==
  /\ nextHandle' = nextHandle
  /\ \A u \in Threads : /\ info'[u].contextSet \subseteq info[u].contextSet
                        /\ info'[u].windowSet \subseteq info[u].windowSet
  /\ \A h \in DOMAIN contexts' : h \in DOMAIN contexts /\ contexts'[h] = contexts[h]

\* Such a step keeps the creators, too.
LEMMA ShrinkingKeepsCreated ==
  ASSUME CreatedInv, TypeInv', NEW t \in Threads,
         NEW ctxs, NEW wins, NEW inf, NEW surf,
         Becomes(t, ctxs, wins, inf, surf), Shrinks
  PROVE  CreatedInv'
<1>1. contexts' = ctxs /\ windows' = wins /\ info' = inf
  BY DEF Becomes
<1>2. ContextTable(ctxs) /\ WindowTable(wins) /\ inf \in [Threads -> InfoType]
  BY <1>1 DEF TypeInv, ContextTable, WindowTable
<1>3. KeepsOrCreates(t, ctxs, inf)
  BY <1>1, Zenon DEF Shrinks, KeepsOrCreates
<1>4. AliveAreCreated' /\ Created'
  BY <1>2, <1>3, BecomesKeepsCreated DEF CreatedInv
<1>5. Counted'
  BY DEF Counted, Shrinks, CreatedInv
<1> QED BY <1>4, <1>5 DEF CreatedInv

\* The new context's handle is in no other set, and no thread has created it yet.
LEMMA CreateContextKeepsCreated ==
  ASSUME MaxCreations <= MaxHandle, IInv, IInv', CreatedInv, NEW t \in Threads, CreateRenderContext(t)
  PROVE  CreatedInv'
<1> DEFINE free == Contexts \ ContextsAlive(contexts, windows, info, surface)
           ctxs == With(contexts, GenHandle, Lowest(free))
           inf == [info EXCEPT ![t].contextSet = @ \cup {GenHandle}]
           S == info[t].contextSet \cup {GenHandle}
<1>1. /\ TypeInv /\ CurrentInv /\ CanGenHandle /\ free # {} /\ Counted
      /\ Becomes(t, ctxs, windows, inf, surface) /\ nextHandle' = GenHandle /\ pc' = pc
  BY DEF IInv, CreateRenderContext, CreatedInv
<1>2. GenHandle = nextHandle + 1 /\ GenHandle \in Handles /\ nextHandle \in Nat
  <2>1. GenHandle = nextHandle + 1
    BY <1>1, NextHandle
  <2>2. GenHandle \in Handles
    BY <1>1, GenHandleIsNew
  <2> QED BY <1>1, <2>1, <2>2 DEF TypeInv
<1>3. Lowest(free) \in free
  BY <1>1, FreeContext
<1>4. S \in SUBSET Handles /\ SetsContexts(inf, t, S)
  BY <1>1, <1>2 DEF TypeInv, InfoType, SetsContexts
<1>6. contexts' = ctxs /\ windows' = windows /\ info' = inf
  BY <1>1 DEF Becomes
<1>7. ContextTable(ctxs) /\ WindowTable(windows)
  BY <1>6, Zenon DEF IInv, TypeInv, ContextTable
<1>8. /\ DOMAIN ctxs = DOMAIN contexts \cup {GenHandle} /\ ctxs[GenHandle] = Lowest(free)
      /\ \A h \in DOMAIN contexts \ {GenHandle} : ctxs[h] = contexts[h]
  BY DEF With
<1> HIDE DEF ctxs, inf, S
<1>9. /\ inf \in [Threads -> InfoType] /\ inf[t].contextSet = S
      /\ \A u \in Threads : inf[u].windowSet = info[u].windowSet
      /\ \A u \in Threads \ {t} : inf[u].contextSet = info[u].contextSet
  <2>1. TypeInv
    BY <1>1, Zenon
  <2>2. HasContextSet(inf, t, S)
    BY <1>4, <2>1, WithContextSet, Zenon
  <2> QED BY <2>2, Zenon DEF HasContextSet
<1>10. ASSUME NEW u \in Threads PROVE GenHandle \notin info[u].contextSet
  <2>1. \A h \in info[u].contextSet : h <= nextHandle
    BY <1>1 DEF Counted
  <2> QED BY <1>2, <2>1
<1>11. KeepsOrCreates(t, ctxs, inf)
  <2> SUFFICES ASSUME NEW u \in Threads, NEW h \in inf[u].contextSet \cap DOMAIN ctxs
               PROVE  \/ h \in info[u].contextSet /\ h \in DOMAIN contexts /\ ctxs[h] = contexts[h]
                      \/ u = t /\ ctxs[h] \notin ContextsAlive(contexts, windows, info, surface)
    BY DEF KeepsOrCreates
  <2>1. CASE h = GenHandle
    <3>1. u = t
      BY <1>9, <1>10, <2>1, Zenon
    <3> QED BY <1>3, <1>8, <2>1, <3>1
  <2>2. CASE h # GenHandle
    BY <1>8, <1>9, <2>2, Zenon DEF S
  <2> QED BY <2>1, <2>2
<1>12. AliveAreCreated' /\ Created'
  BY <1>1, <1>7, <1>9, <1>11, BecomesKeepsCreated, Zenon DEF CreatedInv
<1>13. Counted'
  <2>1. ASSUME NEW u \in Threads, NEW h \in inf[u].contextSet \cup inf[u].windowSet
        PROVE  h <= nextHandle + 1
    <3>1. h = nextHandle + 1 \/ h \in info[u].contextSet \cup info[u].windowSet
      BY <1>2, <1>9 DEF S
    <3>2. h \in Int
      <4>1. h \in Handles
        BY <1>9, <2>1, Zenon DEF InfoType
      <4>2. Handles \subseteq Int
        BY DEF Handles
      <4> QED BY <4>1, <4>2, Zenon
    <3> QED BY <1>1, <1>2, <3>1, <3>2 DEF Counted
  <2> QED BY <1>1, <1>2, <1>6, <2>1 DEF Counted
<1> QED BY <1>12, <1>13 DEF CreatedInv

\* A new window leaves the contexts as they are and counts on.
LEMMA CreateWindowKeepsCreated ==
  ASSUME MaxCreations <= MaxHandle, IInv, IInv', CreatedInv, NEW t \in Threads, CreateWindowSurface(t)
  PROVE  CreatedInv'
<1> DEFINE wins == With(windows, GenHandle,
                        [win |-> Lowest(Windows \ WindowsAlive(windows, info)), cb |-> None])
           inf == [info EXCEPT ![t].windowSet = @ \cup {GenHandle}]
           S == info[t].windowSet \cup {GenHandle}
<1>1. /\ TypeInv /\ CurrentInv /\ CanGenHandle /\ Counted
      /\ Becomes(t, contexts, wins, inf, surface) /\ nextHandle' = GenHandle /\ pc' = pc
  BY DEF IInv, CreateWindowSurface, CreatedInv
<1>2. GenHandle = nextHandle + 1 /\ GenHandle \in Handles /\ nextHandle \in Nat
  <2>1. GenHandle = nextHandle + 1
    BY <1>1, NextHandle
  <2>2. GenHandle \in Handles
    BY <1>1, GenHandleIsNew
  <2> QED BY <1>1, <2>1, <2>2 DEF TypeInv
<1>3. S \in SUBSET Handles /\ SetsWindows(inf, t, S)
  BY <1>1, <1>2 DEF TypeInv, InfoType, SetsWindows
<1>5. contexts' = contexts /\ windows' = wins /\ info' = inf
  BY <1>1 DEF Becomes
<1>6. ContextTable(contexts) /\ WindowTable(wins)
  BY <1>5 DEF IInv, TypeInv, WindowTable
<1> HIDE DEF wins, inf, S
<1>7. /\ inf \in [Threads -> InfoType] /\ inf[t].windowSet = S
      /\ \A u \in Threads : inf[u].contextSet = info[u].contextSet
      /\ \A u \in Threads \ {t} : inf[u].windowSet = info[u].windowSet
  <2>1. TypeInv
    BY <1>1, Zenon
  <2>2. HasWindowSet(inf, t, S)
    BY <1>3, <2>1, WithWindowSet, Zenon
  <2> QED BY <2>2, Zenon DEF HasWindowSet
<1>8. KeepsOrCreates(t, contexts, inf)
  BY <1>7, Zenon DEF KeepsOrCreates
<1>9. AliveAreCreated' /\ Created'
  BY <1>1, <1>6, <1>7, <1>8, BecomesKeepsCreated, Zenon DEF CreatedInv
<1>10. Counted'
  <2>1. ASSUME NEW u \in Threads, NEW h \in inf[u].contextSet \cup inf[u].windowSet
        PROVE  h <= nextHandle + 1
    <3>1. h = nextHandle + 1 \/ h \in info[u].contextSet \cup info[u].windowSet
      BY <1>2, <1>7 DEF S
    <3>2. h \in Int
      BY <1>1, <1>7 DEF InfoType, Handles
    <3> QED BY <1>1, <1>2, <3>1, <3>2 DEF Counted
  <2> QED BY <1>1, <1>2, <1>5, <2>1 DEF Counted
<1> QED BY <1>9, <1>10 DEF CreatedInv

\* A new colour buffer only counts on.
LEMMA CreateColorBufferKeepsCreated ==
  ASSUME MaxCreations <= MaxHandle, IInv, CreatedInv, NEW t \in Threads, CreateColorBuffer(t)
  PROVE  CreatedInv'
<1>1. /\ CanGenHandle /\ nextHandle' = GenHandle
      /\ UNCHANGED <<contexts, windows, surface, info, creator>>
  BY DEF CreateColorBuffer
<1>2. nextHandle' = nextHandle + 1 /\ nextHandle \in Int
  BY <1>1, NextHandle DEF CreatedInv, IInv, TypeInv
<1>3. \A u \in Threads : \A h \in info[u].contextSet \cup info[u].windowSet : h \in Int
  BY DEF IInv, TypeInv, InfoType, Handles
<1>4. Counted'
  BY <1>1, <1>2, <1>3 DEF Counted, CreatedInv
<1>5. AliveAreCreated' /\ Created'
  BY <1>1, Zenon DEF CreatedInv, AliveAreCreated, Created
<1> QED BY <1>4, <1>5 DEF CreatedInv

\* A step shrinks if it takes handles out of one of t's sets and entries out of the
\* table.
LEMMA SmallerSets ==
  ASSUME IInv, NEW t \in Threads, NEW S \in SUBSET Handles,
         nextHandle' = nextHandle,
         \A h \in DOMAIN contexts' : h \in DOMAIN contexts /\ contexts'[h] = contexts[h],
         \/ SetsContexts(info', t, S) /\ S \subseteq info[t].contextSet
         \/ SetsWindows(info', t, S) /\ S \subseteq info[t].windowSet
  PROVE  Shrinks
<1>1. TypeInv /\ CurrentInv /\ NoneLeaves(pc)
  BY DEF IInv, NoneLeaves
<1>2. CASE SetsContexts(info', t, S) /\ S \subseteq info[t].contextSet
  <2>0. SetsContexts(info', t, S)
    BY <1>2
  <2>1. /\ info'[t].contextSet = S
        /\ \A u \in Threads : info'[u].windowSet = info[u].windowSet
        /\ \A u \in Threads \ {t} : info'[u].contextSet = info[u].contextSet
    <3>1. /\ info'[t] = [info[t] EXCEPT !.contextSet = S]
          /\ \A u \in Threads \ {t} : info'[u] = info[u]
      BY <1>1, <2>0, InfoWithSets, Zenon DEF SetsContexts
    <3>2. info[t] \in InfoType
      BY <1>1 DEF TypeInv
    <3> QED BY <3>1, <3>2 DEF InfoType
  <2> QED BY <1>2, <2>1 DEF Shrinks
<1>3. CASE SetsWindows(info', t, S) /\ S \subseteq info[t].windowSet
  <2>0. SetsWindows(info', t, S)
    BY <1>3
  <2>1. /\ info'[t].windowSet = S
        /\ \A u \in Threads : info'[u].contextSet = info[u].contextSet
        /\ \A u \in Threads \ {t} : info'[u].windowSet = info[u].windowSet
    <3>1. /\ info'[t] = [info[t] EXCEPT !.windowSet = S]
          /\ \A u \in Threads \ {t} : info'[u] = info[u]
      BY <1>1, <2>0, InfoWithSets, Zenon DEF SetsWindows
    <3>2. info[t] \in InfoType
      BY <1>1, Zenon DEF TypeInv
    <3> QED BY <3>1, <3>2 DEF InfoType
  <2> QED BY <1>3, <2>1 DEF Shrinks
<1> QED BY <1>2, <1>3

\* Making something else current leaves the sets as they are.
LEMMA HoldingShrinks ==
  ASSUME IInv, NEW t \in Threads, NEW c, NEW d, NEW r, NEW surf,
         Becomes(t, contexts, windows, Holding(t, c, d, r), surf), nextHandle' = nextHandle
  PROVE  Shrinks
<1>1. contexts' = contexts /\ info' = Holding(t, c, d, r) /\ TypeInv
  BY Zenon DEF Becomes, IInv
<1>2. /\ info'[t] = [ctx |-> c, draw |-> d, read |-> r,
                     contextSet |-> info[t].contextSet, windowSet |-> info[t].windowSet]
      /\ \A u \in Threads \ {t} : info'[u] = info[u]
  BY <1>1, InfoHolding
<1>3. info'[t].contextSet = info[t].contextSet /\ info'[t].windowSet = info[t].windowSet
  BY <1>2
<1>4. \A u \in Threads : /\ info'[u].contextSet = info[u].contextSet
                         /\ info'[u].windowSet = info[u].windowSet
  BY <1>2, <1>3, Zenon
<1> QED BY <1>1, <1>4, Zenon DEF Shrinks

\* The client's other operations and the end of a thread shrink the sets.
LEMMA OthersShrink ==
  ASSUME IInv, NEW t \in Threads, NEW h,
         \/ UnbindContext(t) \/ ThreadUnbinds(t) \/ DrainWindowSurface(t) \/ DrainRenderContext(t)
         \/ DestroyRenderContext(t, h) \/ DestroyWindowSurface(t, h)
         \/ \E w, r : BindContext(t, h, w, r)
         \/ \E w : SetWindowSurfaceColorBuffer(t, w, h)
  PROVE  Shrinks /\ \E ctxs, wins, inf, surf : Becomes(t, ctxs, wins, inf, surf)
<1>0. TypeInv /\ info[t].contextSet \subseteq Handles /\ info[t].windowSet \subseteq Handles
  BY Zenon DEF IInv, TypeInv, InfoType
<1>2. CASE UnbindContext(t) \/ ThreadUnbinds(t)
  <2>1. PICK surf : Becomes(t, contexts, windows, Holding(t, None, None, None), surf)
    BY <1>2 DEF UnbindContext, ThreadUnbinds, Unbound, Holding
  <2>2. nextHandle' = nextHandle
    BY <1>2, Zenon DEF UnbindContext, ThreadUnbinds
  <2> QED BY <2>1, <2>2, HoldingShrinks, Zenon
<1>3. CASE \E w, r : BindContext(t, h, w, r)
  <2>1. PICK w, r : BindContext(t, h, w, r)
    BY <1>3
  <2>2. PICK c, d, e, surf : Becomes(t, contexts, windows, Holding(t, c, d, e), surf)
    BY <2>1, Zenon DEF BindContext, Holding
  <2>3. nextHandle' = nextHandle
    BY <2>1, Zenon DEF BindContext
  <2> QED BY <2>2, <2>3, HoldingShrinks, Zenon
<1>4. CASE \E w : SetWindowSurfaceColorBuffer(t, w, h)
  <2>1. PICK wins, surf : Becomes(t, contexts, wins, info, surf)
    BY <1>4 DEF SetWindowSurfaceColorBuffer
  <2>2. nextHandle' = nextHandle /\ contexts' = contexts /\ info' = info
    BY <1>4, <2>1, Zenon DEF SetWindowSurfaceColorBuffer, Becomes
  <2> QED BY <2>1, <2>2, Zenon DEF Shrinks
<1>5. CASE DrainWindowSurface(t)
  <2>1. /\ SetsWindows(info', t, {}) /\ contexts' = contexts /\ nextHandle' = nextHandle
        /\ \E wins, inf : Becomes(t, contexts, wins, inf, surface)
    BY <1>5, Zenon DEF DrainWindowSurface, Becomes, SetsWindows
  <2>2. {} \in SUBSET Handles /\ {} \subseteq info[t].windowSet
    OBVIOUS
  <2>3. Shrinks
    BY <2>1, <2>2, SmallerSets, Zenon
  <2> QED BY <2>1, <2>3
<1>6. CASE DrainRenderContext(t)
  <2>1. /\ SetsContexts(info', t, {}) /\ nextHandle' = nextHandle
        /\ \A g \in DOMAIN contexts' : g \in DOMAIN contexts /\ contexts'[g] = contexts[g]
        /\ \E ctxs, inf : Becomes(t, ctxs, windows, inf, surface)
    BY <1>6, Zenon DEF DrainRenderContext, Becomes, SetsContexts, Restrict
  <2>2. {} \in SUBSET Handles /\ {} \subseteq info[t].contextSet
    BY Zenon
  <2>3. Shrinks
    BY <2>1, <2>2, SmallerSets, Zenon
  <2> QED BY <2>1, <2>3, Zenon
<1>7. CASE DestroyRenderContext(t, h)
  <2>1. /\ SetsContexts(info', t, info[t].contextSet \ {h}) /\ nextHandle' = nextHandle
        /\ \A g \in DOMAIN contexts' : g \in DOMAIN contexts /\ contexts'[g] = contexts[g]
        /\ \E ctxs, inf : Becomes(t, ctxs, windows, inf, surface)
    BY <1>7, Zenon DEF DestroyRenderContext, Becomes, SetsContexts, Restrict
  <2>2. info[t].contextSet \ {h} \in SUBSET Handles
    BY <1>0, Zenon
  <2>3. Shrinks
    BY <2>1, <2>2, SmallerSets, Zenon
  <2> QED BY <2>1, <2>3, Zenon
<1>8. CASE DestroyWindowSurface(t, h)
  <2>1. /\ SetsWindows(info', t, info[t].windowSet \ {h}) /\ nextHandle' = nextHandle /\ contexts' = contexts
        /\ \E wins, inf : Becomes(t, contexts, wins, inf, surface)
    BY <1>8, Zenon DEF DestroyWindowSurface, Becomes, SetsWindows
  <2>2. info[t].windowSet \ {h} \in SUBSET Handles
    BY <1>0
  <2>3. Shrinks
    BY <2>1, <2>2, SmallerSets, Zenon
  <2> QED BY <2>1, <2>3, Zenon
<1> QED BY <1>2, <1>3, <1>4, <1>5, <1>6, <1>7, <1>8, Zenon

\* Every step keeps the creators until the counter wraps around.
LEMMA NextCreatedInv ==
  ASSUME MaxCreations <= MaxHandle, IInv, IInv', CreatedInv, [Next]_vars
  PROVE  CreatedInv'
<1>0. TypeInv'
  BY DEF IInv
<1>1. CASE UNCHANGED vars
  BY <1>1, Zenon DEF vars, CreatedInv, Counted, AliveAreCreated, Created
<1>2. ASSUME NEW t \in Threads, ClientStep(t) PROVE CreatedInv'
  <2>1. CASE CreateRenderContext(t)
    BY <2>1, CreateContextKeepsCreated
  <2>2. CASE CreateWindowSurface(t)
    BY <2>2, CreateWindowKeepsCreated
  <2>3. CASE CreateColorBuffer(t)
    BY <2>3, CreateColorBufferKeepsCreated
  <2>4. CASE UnbindContext(t)
    BY <1>0, <2>4, OthersShrink, ShrinkingKeepsCreated
  <2>5. ASSUME NEW h \in Handles, OpenColorBuffer(t, h) \/ CloseColorBuffer(t, h) PROVE CreatedInv'
    BY <2>5 DEF OpenColorBuffer, CloseColorBuffer, CreatedInv, Counted, AliveAreCreated, Created
  <2>6. ASSUME NEW h \in Handles, \/ DestroyRenderContext(t, h) \/ DestroyWindowSurface(t, h)
                                  \/ \E w, r : BindContext(t, h, w, r)
                                  \/ \E w : SetWindowSurfaceColorBuffer(t, w, h)
        PROVE  CreatedInv'
    BY <1>0, <2>6, OthersShrink, ShrinkingKeepsCreated
  <2> QED BY <1>2, <2>1, <2>2, <2>3, <2>4, <2>5, <2>6 DEF ClientStep
<1>3. ASSUME NEW t \in Threads, ExitStep(t) PROVE CreatedInv'
  BY <1>0, <1>3, OthersShrink, ShrinkingKeepsCreated DEF ExitStep
<1> QED BY <1>1, <1>2, <1>3 DEF Next

\* What drainRenderContext takes out of the table, its thread has created.
LEMMA DrainsOwn ==
  ASSUME IInv, CreatedInv, [Next]_vars, NEW t \in Threads, pc[t] = "drained", pc'[t] = "exited",
         NEW h \in DOMAIN contexts, h \notin DOMAIN contexts'
  PROVE  creator[contexts[h]] = t
<1>0. TypeInv
  BY DEF IInv
<1>1. DrainRenderContext(t)
  <2>1. PICK u \in Threads : ClientStep(u) \/ ExitStep(u)
    BY DEF Next, vars
  <2>2. ~ClientStep(u)
    BY Zenon DEF ClientStep, CreateRenderContext, CreateWindowSurface, CreateColorBuffer, UnbindContext,
           DestroyRenderContext, DestroyWindowSurface, OpenColorBuffer, CloseColorBuffer,
           BindContext, SetWindowSurfaceColorBuffer
  <2>3. u = t
    BY <1>0, <2>1, <2>2 DEF ExitStep, ThreadUnbinds, DrainWindowSurface, DrainRenderContext, TypeInv
  <2>4. pc[t] # "run" /\ pc[t] # "unbound"
    OBVIOUS
  <2> QED BY <2>1, <2>2, <2>3, <2>4 DEF ExitStep, ThreadUnbinds, DrainWindowSurface
<1>2. contexts' = Restrict(contexts, DOMAIN contexts \ info[t].contextSet)
  BY <1>1 DEF DrainRenderContext, Becomes
<1>3. h \in info[t].contextSet
  BY <1>2 DEF Restrict
<1> QED BY <1>3 DEF CreatedInv, Created

\* Initially nothing was created.
LEMMA InitCreatedInv == Init => CreatedInv
<1> SUFFICES ASSUME Init PROVE CreatedInv
  OBVIOUS
<1>1. DOMAIN contexts = {} /\ DOMAIN windows = {}
  BY DEF Init, Empty
<1>2. \A t \in Threads : /\ info[t].ctx = None /\ info[t].draw = None /\ info[t].read = None
                         /\ info[t].contextSet = {} /\ info[t].windowSet = {}
  BY DEF Init, FreshInfo
<1>3. WindowsAlive(windows, info) = {}
  BY <1>1, <1>2 DEF WindowsAlive
<1>4. ContextsAlive(contexts, windows, info, surface) = {}
  BY <1>1, <1>2, <1>3 DEF ContextsAlive, Range
<1> QED BY <1>1, <1>2, <1>4 DEF Init, CreatedInv, Counted, AliveAreCreated, Created

\* The end of a thread takes out of the table only contexts that this thread has
\* created, as long as the counter of genHandle does not wrap around: a handle
\* given twice may be in the set of a thread that created its first bearer.
THEOREM DrainsWhatItCreated == MaxCreations <= MaxHandle => (Spec => DrainsOnlyItsOwn)
<1> SUFFICES ASSUME MaxCreations <= MaxHandle PROVE Spec => DrainsOnlyItsOwn
  OBVIOUS
<1>1. IInv /\ IInv' /\ CreatedInv /\ [Next]_vars => CreatedInv'
  BY NextCreatedInv
<1>2. IInv /\ CreatedInv /\ [Next]_vars =>
        [\A t \in Threads : pc[t] = "drained" /\ pc'[t] = "exited" =>
           \A h \in DOMAIN contexts : h \notin DOMAIN contexts' => creator[contexts[h]] = t]_vars
  BY DrainsOwn
<1> QED BY <1>1, <1>2, InitCreatedInv, Invariance, PTL DEF Spec, DrainsOnlyItsOwn

-----------------------------------------------------------------------------
BufferRecord(b) == b = [cb |-> b.cb, refcount |-> b.refcount]
BufferTable(table) == DOMAIN table \subseteq Handles /\ \A h \in DOMAIN table : BufferRecord(table[h])

\* Until the counter wraps around: a handle that is given next is neither in the
\* table of colour buffers nor recorded by a window, and no two handles name one
\* window surface, so that what is attached through one is not named by another.
NamesInv ==
  /\ BufferTable(colorbuffers)
  /\ \A h \in DOMAIN colorbuffers : h <= nextHandle
  /\ \A h \in DOMAIN windows : windows[h].cb <= nextHandle
  /\ \A g, h \in DOMAIN windows : windows[g].win = windows[h].win => g = h
  /\ WindowNamesItsBuffer

\* A table of colour buffers with entries of another one.
Subtable(new, old) ==
  /\ BufferTable(new)
  /\ \A h \in DOMAIN new : h \in DOMAIN old /\ new[h].cb = old[h].cb

\* Another reference count leaves such a table.
LEMMA RecountedIsSubtable ==
  ASSUME NEW old, NEW cbs, Subtable(cbs, old), NEW h \in DOMAIN cbs, NEW n
  PROVE  Subtable([cbs EXCEPT ![h].refcount = n], old)
<1> DEFINE new == [cbs EXCEPT ![h].refcount = n]
<1>1. new[h] = [cbs[h] EXCEPT !.refcount = n] /\ DOMAIN new = DOMAIN cbs
      /\ \A g \in DOMAIN cbs \ {h} : new[g] = cbs[g]
  OBVIOUS
<1>2. cbs[h] = [cb |-> cbs[h].cb, refcount |-> cbs[h].refcount]
  BY DEF Subtable, BufferTable, BufferRecord
<1> HIDE DEF new
<1>3. new[h] = [cb |-> cbs[h].cb, refcount |-> n]
  BY <1>1, <1>2
<1>4. BufferRecord(new[h]) /\ new[h].cb = cbs[h].cb
  BY <1>3 DEF BufferRecord
<1>5. Subtable(new, old)
  BY <1>1, <1>4, Zenon DEF Subtable, BufferTable
<1> QED BY <1>5 DEF new

\* A reference less leaves such a table.
LEMMA DroppedIsSubtable ==
  ASSUME NEW old, NEW cbs, Subtable(cbs, old), NEW h
  PROVE  Subtable(Dropped(cbs, h), old)
<1>1. CASE h \notin DOMAIN cbs
  BY <1>1, Zenon DEF Dropped
<1>2. CASE h \in DOMAIN cbs /\ cbs[h].refcount = 1
  <2>1. Dropped(cbs, h) = Restrict(cbs, DOMAIN cbs \ {h})
    BY <1>2, Zenon DEF Dropped
  <2> QED BY <2>1 DEF Restrict, Subtable, BufferTable
<1>3. CASE h \in DOMAIN cbs /\ cbs[h].refcount # 1
  <2> DEFINE n == cbs[h].refcount - 1
  <2>1. Dropped(cbs, h) = [cbs EXCEPT ![h].refcount = n]
    BY <1>3, Zenon DEF Dropped
  <2> HIDE DEF n
  <2>2. h \in DOMAIN cbs
    BY <1>3
  <2>3. Subtable([cbs EXCEPT ![h].refcount = n], old)
    BY <2>2, RecountedIsSubtable, Zenon
  <2> QED BY <2>1, <2>3, Zenon
<1> QED BY <1>1, <1>2, <1>3, Zenon

\* One turn of the loop in drainWindowSurface.
GiveBack(mine, cbs, h) == IF h \in mine THEN Dropped(cbs, windows[h].cb) ELSE cbs

\* The loop has a result: the least number of turns without one would have a
\* turn less with one.
LEMMA TurnsExist ==
  ASSUME NEW mine, NEW n \in Nat
  PROVE  \E g : g = [h \in 0 .. n |-> IF h = 0 THEN colorbuffers ELSE GiveBack(mine, g[h - 1], h)]
<1> DEFINE Turns(m, g) == g = [h \in 0 .. m |-> IF h = 0 THEN colorbuffers ELSE GiveBack(mine, g[h - 1], h)]
           T == {m \in 0 .. n : ~\E g : Turns(m, g)}
<1>1. T = {}
  <2> SUFFICES ASSUME T # {} PROVE FALSE
    OBVIOUS
  <2>1. PICK m \in T : \A k \in T : m <= k
    <3>1. T \in SUBSET Nat
      OBVIOUS
    <3> HIDE DEF T
    <3> QED BY <3>1, LowestIsLeast, Zenon
  <2>2. m \in 0 .. n /\ ~\E g : Turns(m, g)
    OBVIOUS
  <2>3. m # 0
    <3> DEFINE g == [h \in 0 .. 0 |-> colorbuffers]
    <3>1. g = [h \in 0 .. 0 |-> IF h = 0 THEN colorbuffers ELSE GiveBack(mine, g[h - 1], h)]
      OBVIOUS
    <3> QED BY <2>2, <3>1, Zenon
  <2>4. m - 1 \in 0 .. n /\ m - 1 \in Nat /\ m \in Nat /\ ~(m <= m - 1)
    BY <2>2, <2>3
  <2>5. PICK g : Turns(m - 1, g)
    BY <2>1, <2>4, Zenon
  <2> DEFINE f == [h \in 0 .. m |-> IF h < m THEN g[h] ELSE GiveBack(mine, g[m - 1], m)]
  <2>6. ASSUME NEW k \in 0 .. m
        PROVE  f[k] = IF k = 0 THEN colorbuffers ELSE GiveBack(mine, f[k - 1], k)
    <3>1. CASE k = 0
      <4>1. 0 \in 0 .. m - 1 /\ 0 < m /\ k < m
        BY <2>4, <3>1
      <4> QED BY <2>5, <3>1, <4>1
    <3>2. CASE k # 0
      <4>1. k - 1 \in 0 .. m - 1 /\ k - 1 \in 0 .. m /\ k - 1 < m
        BY <2>4, <2>6, <3>2
      <4>2. f[k - 1] = g[k - 1]
        BY <4>1, Zenon
      <4>3. f[k] = GiveBack(mine, g[k - 1], k)
        <5>1. CASE k = m
          BY <2>4, <5>1
        <5>2. CASE k # m
          <6>1. k < m /\ k \in 0 .. m - 1
            BY <2>4, <2>6, <5>2
          <6> QED BY <2>5, <3>2, <6>1
        <5> QED BY <5>1, <5>2, Zenon
      <4> QED BY <3>2, <4>2, <4>3
    <3> QED BY <3>1, <3>2
  <2>7. Turns(m, f)
    <3>1. f = [h \in 0 .. m |-> f[h]]
      OBVIOUS
    <3> HIDE DEF f
    <3> QED BY <2>6, <3>1, Zenon
  <2> QED BY <2>2, <2>7, Zenon
<1>2. n \in 0 .. n
  OBVIOUS
<1> QED BY <1>1, <1>2

\* What is left after the loop was there before it.
LEMMA GivenBackIsSubtable ==
  ASSUME NEW mine, BufferTable(colorbuffers)
  PROVE  Subtable(GivenBack(mine), colorbuffers)
<1> DEFINE n == MaxHandle
           after == CHOOSE g : g = [h \in 0 .. n |-> IF h = 0 THEN colorbuffers ELSE GiveBack(mine, g[h - 1], h)]
<1>0. n \in Nat
  BY RendererAssumption
<1>1. GivenBack(mine) = after[n]
  BY DEF GivenBack, GiveBack
<1>2. after = [h \in 0 .. n |-> IF h = 0 THEN colorbuffers ELSE GiveBack(mine, after[h - 1], h)]
  BY <1>0, TurnsExist
<1> HIDE DEF after, n
<1>3. after[0] = colorbuffers /\ \A k \in 1 .. n : after[k] = GiveBack(mine, after[k - 1], k)
  BY <1>0, <1>2
<1> DEFINE T == {k \in 0 .. n : ~Subtable(after[k], colorbuffers)}
<1>4. T = {}
  <2> SUFFICES ASSUME T # {} PROVE FALSE
    OBVIOUS
  <2>1. PICK m \in T : \A k \in T : m <= k
    <3>1. T \in SUBSET Nat
      BY <1>0
    <3> HIDE DEF T
    <3> QED BY <3>1, LowestIsLeast, Zenon
  <2>2. m \in 0 .. n /\ ~Subtable(after[m], colorbuffers)
    OBVIOUS
  <2>3. m # 0
    BY <1>3, <2>2 DEF Subtable
  <2>4. m - 1 \in 0 .. n /\ ~(m <= m - 1) /\ m \in 1 .. n
    BY <1>0, <2>2, <2>3
  <2>5. Subtable(after[m - 1], colorbuffers)
    BY <2>1, <2>4
  <2>6. after[m] = GiveBack(mine, after[m - 1], m)
    BY <1>3, <2>4
  <2> QED BY <2>2, <2>5, <2>6, DroppedIsSubtable DEF GiveBack
<1>5. n \in 0 .. n
  BY <1>0
<1> QED BY <1>1, <1>4, <1>5

\* The surfaces of these windows become what surf says.
SurfacesStay(wins, surf) ==
  \A h \in DOMAIN wins : surface'[wins[h].win] = surf[wins[h].win]

\* A window in the table is alive, so its surface stays as the step leaves it.
LEMMA TableKeepsSurfaces ==
  ASSUME NEW t, NEW ctxs, NEW wins, NEW inf, NEW surf,
         Becomes(t, ctxs, wins, inf, surf), WindowTable(wins)
  PROVE  SurfacesStay(wins, surf)
<1>1. ASSUME NEW h \in DOMAIN wins PROVE surface'[wins[h].win] = surf[wins[h].win]
  <2>1. wins[h].win \in Windows
    BY DEF WindowTable, WindowRecord
  <2>2. wins[h].win # None
    BY <2>1 DEF Windows, None
  <2>3. wins[h].win \in WindowsAlive(wins, inf)
    BY <2>2 DEF WindowsAlive
  <2> QED BY <2>1, <2>3 DEF Becomes
<1> QED BY <1>1, Zenon DEF SurfacesStay

\* The same colour buffers are attached.
SameAttached(new, old) == \A v \in Windows : new[v].attached = old[v].attached

\* What is attached to a surface does not change when it is bound.
LEMMA BindKeepsAttached ==
  ASSUME NEW surf, SurfaceTable(surf), NEW d \in Windows, NEW r \in Windows, NEW c
  PROVE  SameAttached(Bind(surf, d, r, c), surf)
<1> DEFINE one == [surf EXCEPT ![d].drawCtx = c]
           two == [one EXCEPT ![r].readCtx = c]
<1>1. Bind(surf, d, r, c) = two
  BY DEF Bind
<1>2. DOMAIN one = Windows /\ one[d] = [surf[d] EXCEPT !.drawCtx = c] /\ \A v \in Windows \ {d} : one[v] = surf[v]
  BY DEF SurfaceTable
<1>3. \A v \in Windows : one[v].attached = surf[v].attached /\ "attached" \in DOMAIN one[v]
  <2>1. \A v \in Windows : surf[v] = [attached |-> surf[v].attached, readCtx |-> surf[v].readCtx, drawCtx |-> surf[v].drawCtx]
    BY DEF SurfaceTable, SurfaceRecord
  <2>2. ASSUME NEW v \in Windows PROVE "attached" \in DOMAIN surf[v]
    <3>1. PICK a, b, e : surf[v] = [attached |-> a, readCtx |-> b, drawCtx |-> e]
      BY <2>1, Zenon
    <3>2. DOMAIN [attached |-> a, readCtx |-> b, drawCtx |-> e] = {"attached", "readCtx", "drawCtx"}
      OBVIOUS
    <3> QED BY <3>1, <3>2
  <2> HIDE DEF one
  <2>3. one[d].attached = surf[d].attached /\ "attached" \in DOMAIN one[d]
    BY <1>2, <2>2
  <2> QED BY <1>2, <2>2, <2>3
<1> HIDE DEF one
<1>4. two[r] = [one[r] EXCEPT !.readCtx = c] /\ \A v \in Windows \ {r} : two[v] = one[v]
  BY <1>2
<1> HIDE DEF two
<1>5. two[r].attached = one[r].attached
  BY <1>3, <1>4, Zenon
<1>6. SameAttached(two, surf)
  BY <1>3, <1>4, <1>5 DEF SameAttached
<1> QED BY <1>1, <1>6

\* A step after which the windows and the colour buffers are among those before it.
LEMMA NamesAreKept ==
  ASSUME IInv, IInv', NamesInv, nextHandle <= nextHandle', Subtable(colorbuffers', colorbuffers),
         \A h \in DOMAIN windows' : /\ h \in DOMAIN windows /\ windows'[h] = windows[h]
                                    /\ surface'[windows[h].win].attached = surface[windows[h].win].attached
  PROVE  NamesInv'
<1>1. nextHandle \in Int /\ nextHandle' \in Int
  BY DEF IInv, TypeInv
<1>2. \A h \in DOMAIN colorbuffers : h \in Int
  BY DEF NamesInv, BufferTable, Handles
<1>3. \A h \in DOMAIN windows : windows[h].cb \in Int
  BY DEF IInv, TypeInv, WindowTable, WindowRecord, Handles, None
<1>4. BufferTable(colorbuffers')
  BY DEF Subtable
<1>5. \A h \in DOMAIN colorbuffers' : h <= nextHandle'
  <2> SUFFICES ASSUME NEW h \in DOMAIN colorbuffers' PROVE h <= nextHandle'
    OBVIOUS
  <2>1. h \in DOMAIN colorbuffers /\ h \in Int
    BY <1>2, Zenon DEF Subtable
  <2>2. h <= nextHandle
    BY <2>1 DEF NamesInv
  <2> QED BY <1>1, <2>1, <2>2
<1>6. \A h \in DOMAIN windows' : windows'[h].cb <= nextHandle'
  <2> SUFFICES ASSUME NEW h \in DOMAIN windows' PROVE windows'[h].cb <= nextHandle'
    OBVIOUS
  <2>1. h \in DOMAIN windows /\ windows'[h] = windows[h]
    BY Zenon
  <2>2. windows[h].cb <= nextHandle /\ windows[h].cb \in Int
    BY <1>3, <2>1, Zenon DEF NamesInv
  <2> QED BY <1>1, <2>1, <2>2
<1>7. \A g, h \in DOMAIN windows' : windows'[g].win = windows'[h].win => g = h
  BY DEF NamesInv
<1>8. WindowNamesItsBuffer'
  BY DEF NamesInv, WindowNamesItsBuffer, Subtable
<1> QED BY <1>4, <1>5, <1>6, <1>7, <1>8, Zenon DEF NamesInv

\* A new window has no colour buffer yet, and its surface is nobody else's.
LEMMA CreateWindowKeepsNames ==
  ASSUME MaxCreations <= MaxHandle, IInv, IInv', CreatedInv, NamesInv, NEW t \in Threads, CreateWindowSurface(t)
  PROVE  NamesInv'
<1> DEFINE free == Windows \ WindowsAlive(windows, info)
           w == Lowest(free)
           wins == With(windows, GenHandle, [win |-> w, cb |-> None])
           inf == [info EXCEPT ![t].windowSet = @ \cup {GenHandle}]
<1>1. /\ TypeInv /\ CanGenHandle /\ free # {} /\ Counted /\ colorbuffers' = colorbuffers
      /\ Becomes(t, contexts, wins, inf, surface) /\ nextHandle' = GenHandle
  BY DEF IInv, CreateWindowSurface, CreatedInv
<1>2. nextHandle' = nextHandle + 1 /\ nextHandle \in Nat /\ GenHandle \notin DOMAIN windows
  <2>1. GenHandle = nextHandle + 1
    BY <1>1, NextHandle
  <2>2. GenHandle \notin DOMAIN windows
    BY <1>1, GenHandleIsNew
  <2> QED BY <1>1, <2>1, <2>2 DEF TypeInv
<1>3. w \in free
  BY <1>1, FreeWindow
<1>4. /\ DOMAIN wins = DOMAIN windows \cup {GenHandle} /\ wins[GenHandle] = [win |-> w, cb |-> None]
      /\ \A h \in DOMAIN windows : wins[h] = windows[h]
  BY <1>2, Zenon DEF With
<1>5. wins[GenHandle].win = w /\ wins[GenHandle].cb = None
  <2> HIDE DEF wins, w
  <2> QED BY <1>4
<1> HIDE DEF wins, inf, w
<1>6. windows' = wins
  BY <1>1, Zenon DEF Becomes
<1>7. WindowTable(wins)
  BY <1>6 DEF IInv, TypeInv, WindowTable
<1>8. \A h \in DOMAIN wins : surface'[wins[h].win] = surface[wins[h].win]
  <2>1. SurfacesStay(wins, surface)
    BY <1>1, <1>7, TableKeepsSurfaces, Zenon
  <2> QED BY <2>1, Zenon DEF SurfacesStay
<1>9. \A h \in DOMAIN windows : windows[h].win # w
  <2>1. \A h \in DOMAIN windows : windows[h].win \in Windows /\ windows[h].win # None
    BY <1>1 DEF TypeInv, WindowTable, WindowRecord, Windows, None
  <2> QED BY <1>3, <2>1, Zenon DEF WindowsAlive
<1>10. \A h \in DOMAIN colorbuffers : h \in Int /\ h # None /\ h <= nextHandle
  BY DEF NamesInv, BufferTable, Handles, None
<1>11. \A h \in DOMAIN windows : windows[h].cb \in Int /\ windows[h].cb <= nextHandle
  BY <1>1 DEF NamesInv, TypeInv, WindowTable, WindowRecord, Handles, None
<1>12. \A h \in DOMAIN colorbuffers : h <= nextHandle'
  BY <1>2, <1>10
<1>13. ASSUME NEW h \in DOMAIN wins PROVE wins[h].cb <= nextHandle'
  <2>1. CASE h = GenHandle
    BY <1>2, <1>5, <2>1 DEF None
  <2>2. CASE h # GenHandle
    BY <1>2, <1>4, <1>11, <2>2
  <2> QED BY <2>1, <2>2
<1>14. ASSUME NEW g \in DOMAIN wins, NEW h \in DOMAIN wins, wins[g].win = wins[h].win PROVE g = h
  BY <1>4, <1>5, <1>9, <1>14, Zenon DEF NamesInv
<1>15. WindowNamesItsBuffer'
  <2> SUFFICES ASSUME NEW h \in DOMAIN wins, wins[h].cb \in DOMAIN colorbuffers
               PROVE  colorbuffers[wins[h].cb].cb = surface'[wins[h].win].attached
    BY <1>1, <1>6, Zenon DEF WindowNamesItsBuffer
  <2>1. h # GenHandle
    BY <1>5, <1>10, Zenon
  <2>2. h \in DOMAIN windows /\ wins[h] = windows[h]
    BY <1>4, <2>1, Zenon
  <2> QED BY <1>8, <2>2, Zenon DEF NamesInv, WindowNamesItsBuffer
<1>16. BufferTable(colorbuffers)
  BY DEF NamesInv
<1> QED BY <1>1, <1>6, <1>12, <1>13, <1>14, <1>15, <1>16, Zenon DEF NamesInv

\* A new colour buffer has a handle that no window has recorded.
LEMMA CreateColorBufferKeepsNames ==
  ASSUME MaxCreations <= MaxHandle, IInv, CreatedInv, NamesInv, NEW t \in Threads, CreateColorBuffer(t)
  PROVE  NamesInv'
<1>0. PICK b : colorbuffers' = With(colorbuffers, GenHandle, [cb |-> b, refcount |-> 1])
  BY Zenon DEF CreateColorBuffer
<1> DEFINE cbs == With(colorbuffers, GenHandle, [cb |-> b, refcount |-> 1])
<1>1. /\ CanGenHandle /\ nextHandle' = GenHandle /\ colorbuffers' = cbs /\ windows' = windows /\ surface' = surface
  BY <1>0, Zenon DEF CreateColorBuffer
<1>2. GenHandle = nextHandle + 1 /\ nextHandle \in Nat /\ GenHandle \in Handles
  <2>1. GenHandle = nextHandle + 1
    BY <1>1, NextHandle DEF CreatedInv
  <2>2. GenHandle \in Handles
    BY <1>1, GenHandleIsNew DEF IInv
  <2> QED BY <2>1, <2>2 DEF IInv, TypeInv
<1>3. /\ DOMAIN cbs = DOMAIN colorbuffers \cup {GenHandle} /\ cbs[GenHandle] = [cb |-> b, refcount |-> 1]
      /\ \A h \in DOMAIN colorbuffers \ {GenHandle} : cbs[h] = colorbuffers[h]
  BY Zenon DEF With
<1> HIDE DEF cbs
<1>4. \A h \in DOMAIN colorbuffers : h \in Int /\ h <= nextHandle
  BY DEF NamesInv, BufferTable, Handles
<1>5. \A h \in DOMAIN windows : windows[h].cb \in Int /\ windows[h].cb <= nextHandle
  BY DEF NamesInv, IInv, TypeInv, WindowTable, WindowRecord, Handles, None
<1>6. BufferTable(cbs)
  <2>1. BufferRecord(cbs[GenHandle])
    BY <1>3, Zenon DEF BufferRecord
  <2> QED BY <1>2, <1>3, <2>1, Zenon DEF NamesInv, BufferTable
<1>7. \A h \in DOMAIN cbs : h <= nextHandle + 1
  <2>1. ASSUME NEW h \in DOMAIN cbs PROVE h = GenHandle \/ h \in DOMAIN colorbuffers
    BY <1>3, Zenon
  <2>2. ASSUME NEW h \in DOMAIN colorbuffers PROVE h <= nextHandle + 1
    BY <1>2, <1>4
  <2>3. GenHandle <= nextHandle + 1
    BY <1>2
  <2> QED BY <2>1, <2>2, <2>3, Zenon
<1>8. \A h \in DOMAIN windows : windows[h].cb <= nextHandle + 1 /\ windows[h].cb # GenHandle
  BY <1>2, <1>5
<1>9. WindowNamesItsBuffer'
  <2> SUFFICES ASSUME NEW h \in DOMAIN windows, windows[h].cb \in DOMAIN cbs
               PROVE  cbs[windows[h].cb].cb = surface[windows[h].win].attached
    BY <1>1, Zenon DEF WindowNamesItsBuffer
  <2>1. windows[h].cb \in DOMAIN colorbuffers /\ cbs[windows[h].cb] = colorbuffers[windows[h].cb]
    BY <1>3, <1>8, Zenon
  <2> QED BY <2>1, Zenon DEF NamesInv, WindowNamesItsBuffer
<1>10. \A g, h \in DOMAIN windows : windows[g].win = windows[h].win => g = h
  BY DEF NamesInv
<1> QED BY <1>1, <1>2, <1>6, <1>7, <1>8, <1>9, <1>10, Zenon DEF NamesInv

\* setWindowSurfaceColorBuffer attaches the buffer that the recorded handle names.
LEMMA SetColorBufferKeepsNames ==
  ASSUME IInv, IInv', NamesInv, NEW t \in Threads, NEW hw, NEW h, SetWindowSurfaceColorBuffer(t, hw, h)
  PROVE  NamesInv'
<1> DEFINE w == windows[hw].win
           b == colorbuffers[h].cb
           wins == [windows EXCEPT ![hw].cb = h]
           surf == [surface EXCEPT ![w].attached = b]
<1>1. /\ hw \in DOMAIN windows /\ h \in DOMAIN colorbuffers /\ TypeInv /\ SurfaceTable(surface)
      /\ Becomes(t, contexts, wins, info, surf) /\ colorbuffers' = colorbuffers /\ nextHandle' = nextHandle
  BY DEF SetWindowSurfaceColorBuffer, IInv, TypeInv
<1>2. windows[hw] \in WindowRecord /\ w \in Windows
  BY <1>1 DEF TypeInv, WindowTable, WindowRecord
<1>3. /\ DOMAIN wins = DOMAIN windows /\ \A g \in DOMAIN windows \ {hw} : wins[g] = windows[g]
      /\ wins[hw].win = w /\ wins[hw].cb = h
  <2>1. DOMAIN wins = DOMAIN windows /\ \A g \in DOMAIN windows \ {hw} : wins[g] = windows[g]
    OBVIOUS
  <2>2. wins[hw] = [windows[hw] EXCEPT !.cb = h]
    BY <1>1
  <2>3. DOMAIN windows[hw] = {"win", "cb"}
    BY <1>2 DEF WindowRecord
  <2> HIDE DEF wins
  <2>4. wins[hw].win = w /\ wins[hw].cb = h
    BY <2>2, <2>3
  <2> QED BY <2>1, <2>4
<1>4. surf[w].attached = b /\ \A v \in Windows \ {w} : surf[v] = surface[v]
  <2>1. DOMAIN surface = Windows /\ SurfaceRecord(surface[w])
    BY <1>1, <1>2, Zenon DEF SurfaceTable
  <2>2. DOMAIN surface[w] = {"attached", "readCtx", "drawCtx"}
    BY <2>1, Zenon DEF SurfaceRecord
  <2> HIDE DEF w, b
  <2>3. surf[w] = [surface[w] EXCEPT !.attached = b] /\ \A v \in Windows \ {w} : surf[v] = surface[v]
    BY <1>2, <2>1, Zenon
  <2> HIDE DEF surf
  <2> QED BY <2>2, <2>3
<1> HIDE DEF wins, surf, w, b
<1>5. windows' = wins
  BY <1>1 DEF Becomes
<1>6. WindowTable(wins)
  BY <1>5 DEF IInv, TypeInv, WindowTable
<1>7. \A g \in DOMAIN wins : surface'[wins[g].win] = surf[wins[g].win]
  <2>1. SurfacesStay(wins, surf)
    BY <1>1, <1>6, TableKeepsSurfaces, Zenon
  <2> QED BY <2>1, Zenon DEF SurfacesStay
<1>8. \A g \in DOMAIN windows : wins[g].win = windows[g].win
  BY <1>3, Zenon DEF w
<1>9. \A g, k \in DOMAIN windows : windows[g].win = windows[k].win => g = k
  BY DEF NamesInv
<1>10. ASSUME NEW g \in DOMAIN windows PROVE wins[g].cb <= nextHandle
  BY <1>1, <1>3, Zenon DEF NamesInv
<1>11. ASSUME NEW g \in DOMAIN windows, wins[g].cb \in DOMAIN colorbuffers
       PROVE  colorbuffers[wins[g].cb].cb = surface'[wins[g].win].attached
  <2>1. CASE g = hw
    BY <1>3, <1>4, <1>7, <2>1, Zenon DEF b
  <2>2. CASE g # hw
    <3>1. windows[g].win # w /\ windows[g].win \in Windows /\ wins[g] = windows[g]
      BY <1>1, <1>3, <1>9, <2>2 DEF w, TypeInv, WindowTable, WindowRecord
    <3>2. surface'[windows[g].win] = surface[windows[g].win]
      BY <1>3, <1>4, <1>7, <3>1, Zenon
    <3> QED BY <1>11, <3>1, <3>2, Zenon DEF NamesInv, WindowNamesItsBuffer
  <2> QED BY <2>1, <2>2, Zenon
<1>12. WindowNamesItsBuffer'
  BY <1>1, <1>3, <1>5, <1>11, Zenon DEF WindowNamesItsBuffer
<1>13. BufferTable(colorbuffers) /\ \A g \in DOMAIN colorbuffers : g <= nextHandle
  BY Zenon DEF NamesInv
<1>14. \A g, k \in DOMAIN windows' : windows'[g].win = windows'[k].win => g = k
  BY <1>3, <1>5, <1>8, <1>9, Zenon
<1>15. \A g \in DOMAIN windows' : windows'[g].cb <= nextHandle'
  BY <1>1, <1>3, <1>5, <1>10, Zenon
<1>16. BufferTable(colorbuffers') /\ \A g \in DOMAIN colorbuffers' : g <= nextHandle'
  BY <1>1, <1>13, Zenon
<1> QED BY <1>12, <1>14, <1>15, <1>16, Zenon DEF NamesInv

\* Opening and closing a colour buffer keeps what the handles name.
LEMMA ColorBufferStepsKeepNames ==
  ASSUME IInv, IInv', NamesInv, NEW t \in Threads, NEW h, OpenColorBuffer(t, h) \/ CloseColorBuffer(t, h)
  PROVE  NamesInv'
<1>1. windows' = windows /\ surface' = surface /\ nextHandle' = nextHandle /\ nextHandle \in Int
  BY DEF OpenColorBuffer, CloseColorBuffer, IInv, TypeInv
<1>2. BufferTable(colorbuffers) /\ Subtable(colorbuffers, colorbuffers)
  BY DEF NamesInv, Subtable
<1>3. Subtable(colorbuffers', colorbuffers)
  <2>1. CASE OpenColorBuffer(t, h)
    <3>1. h \in DOMAIN colorbuffers
          /\ colorbuffers' = [colorbuffers EXCEPT ![h].refcount = colorbuffers[h].refcount + 1]
      BY <2>1, Zenon DEF OpenColorBuffer
    <3> QED BY <1>2, <3>1, RecountedIsSubtable, Zenon
  <2>2. CASE CloseColorBuffer(t, h)
    BY <1>2, <2>2, DroppedIsSubtable DEF CloseColorBuffer
  <2> QED BY <2>1, <2>2
<1> QED BY <1>1, <1>3, NamesAreKept

\* A step that leaves windows and colour buffers out at most, and attaches nothing.
LEMMA ShrinkingKeepsNames ==
  ASSUME IInv, IInv', NamesInv, NEW t, NEW ctxs, NEW wins, NEW inf, NEW surf,
         Becomes(t, ctxs, wins, inf, surf),
         nextHandle <= nextHandle', Subtable(colorbuffers', colorbuffers),
         \A g \in DOMAIN wins : g \in DOMAIN windows /\ wins[g] = windows[g],
         SameAttached(surf, surface)
  PROVE  NamesInv'
<1>1. windows' = wins
  BY Zenon DEF Becomes
<1>2. WindowTable(windows') /\ WindowTable(wins)
  BY <1>1, Zenon DEF IInv, TypeInv
<1>3. \A g \in DOMAIN wins : wins[g].win \in Windows
  BY <1>1, <1>2 DEF WindowTable, WindowRecord
<1>4. \A g \in DOMAIN wins : surface'[wins[g].win] = surf[wins[g].win]
  <2>1. SurfacesStay(wins, surf)
    BY <1>2, TableKeepsSurfaces, Zenon
  <2> QED BY <2>1, Zenon DEF SurfacesStay
<1> QED BY <1>1, <1>3, <1>4, NamesAreKept, Zenon DEF SameAttached

\* The same when no handle is given out and the colour buffers stay as they are.
LEMMA QuietStepKeepsNames ==
  ASSUME IInv, IInv', NamesInv, NEW t, NEW ctxs, NEW wins, NEW inf, NEW surf,
         Becomes(t, ctxs, wins, inf, surf), nextHandle' = nextHandle, colorbuffers' = colorbuffers,
         \A g \in DOMAIN wins : g \in DOMAIN windows /\ wins[g] = windows[g],
         SameAttached(surf, surface)
  PROVE  NamesInv'
<1>1. nextHandle \in 0 .. MaxHandle
  BY Zenon DEF IInv, TypeInv
<1>2. nextHandle <= nextHandle'
  BY <1>1, CounterStays, Zenon
<1>3. BufferTable(colorbuffers)
  BY Zenon DEF NamesInv
<1>4. Subtable(colorbuffers', colorbuffers)
  BY <1>3, Zenon DEF Subtable
<1> QED BY <1>2, <1>4, ShrinkingKeepsNames, Zenon

\* Making a context current, or none, attaches nothing.
LEMMA BindingKeepsNames ==
  ASSUME IInv, IInv', NamesInv, NEW t \in Threads, NEW h,
         \/ UnbindContext(t) \/ ThreadUnbinds(t)
         \/ \E w, r : BindContext(t, h, w, r)
  PROVE  NamesInv'
<1>1. TypeInv /\ SurfaceTable(surface)
  BY Zenon DEF IInv, TypeInv
<1>2. CASE UnbindContext(t) \/ ThreadUnbinds(t)
  <2>1. nextHandle' = nextHandle /\ colorbuffers' = colorbuffers /\ Unbound(t)
    BY <1>2, Zenon DEF UnbindContext, ThreadUnbinds
  <2>2. CASE info[t].draw = None
    <3>1. PICK inf : Becomes(t, contexts, windows, inf, surface)
      BY <2>1, <2>2, Zenon DEF Unbound
    <3>2. SameAttached(surface, surface)
      BY Zenon DEF SameAttached
    <3> QED BY <2>1, <3>1, <3>2, QuietStepKeepsNames, Zenon
  <2>3. CASE info[t].draw # None
    <3>1. PICK inf : Becomes(t, contexts, windows, inf, Bind(surface, info[t].draw, info[t].read, None))
      BY <2>1, <2>3, Zenon DEF Unbound
    <3>2. info[t].draw \in Windows \cup {None} /\ info[t].read \in Windows \cup {None}
      BY <1>1 DEF TypeInv, InfoType
    <3>3. info[t].read # None
      BY <2>3, Zenon DEF IInv, CurrentInv, Current
    <3>4. info[t].draw \in Windows /\ info[t].read \in Windows
      BY <2>3, <3>2, <3>3, Zenon
    <3>5. SameAttached(Bind(surface, info[t].draw, info[t].read, None), surface)
      BY <1>1, <3>4, BindKeepsAttached, Zenon
    <3> QED BY <2>1, <3>1, <3>5, QuietStepKeepsNames, Zenon
  <2> QED BY <2>2, <2>3, Zenon
<1>3. ASSUME NEW w, NEW r, BindContext(t, h, w, r) PROVE NamesInv'
  <2>1. PICK inf : Becomes(t, contexts, windows, inf, Bind(surface, windows[w].win, windows[r].win, contexts[h]))
    BY <1>3, Zenon DEF BindContext
  <2>2. /\ nextHandle' = nextHandle /\ colorbuffers' = colorbuffers
        /\ w \in DOMAIN windows /\ r \in DOMAIN windows
    BY <1>3, Zenon DEF BindContext
  <2>3. windows[w].win \in Windows /\ windows[r].win \in Windows
    BY <1>1, <2>2 DEF TypeInv, WindowTable, WindowRecord
  <2>4. SameAttached(Bind(surface, windows[w].win, windows[r].win, contexts[h]), surface)
    BY <1>1, <2>3, BindKeepsAttached, Zenon
  <2> QED BY <2>1, <2>2, <2>4, QuietStepKeepsNames, Zenon
<1> QED BY <1>2, <1>3, Zenon

\* Windows that are destroyed or drained are left out, contexts have no buffers.
LEMMA LeavingKeepsNames ==
  ASSUME IInv, IInv', NamesInv, NEW t \in Threads, NEW h,
         \/ DrainWindowSurface(t) \/ DrainRenderContext(t)
         \/ DestroyRenderContext(t, h) \/ DestroyWindowSurface(t, h)
  PROVE  NamesInv'
<1>1. \A S : \A g \in DOMAIN Restrict(windows, DOMAIN windows \ S) :
        g \in DOMAIN windows /\ Restrict(windows, DOMAIN windows \ S)[g] = windows[g]
  BY Zenon DEF Restrict
<1>0. SameAttached(surface, surface)
  BY Zenon DEF SameAttached
<1>2. CASE DrainWindowSurface(t)
  <2>1. PICK mine, inf : /\ nextHandle' = nextHandle /\ colorbuffers' = GivenBack(mine)
                         /\ Becomes(t, contexts, Restrict(windows, DOMAIN windows \ mine), inf, surface)
    BY <1>2, Zenon DEF DrainWindowSurface
  <2>2. BufferTable(colorbuffers) /\ nextHandle \in 0 .. MaxHandle
    BY Zenon DEF NamesInv, IInv, TypeInv
  <2>3. Subtable(colorbuffers', colorbuffers)
    BY <2>1, <2>2, GivenBackIsSubtable, Zenon
  <2>4. nextHandle <= nextHandle'
    BY <2>1, <2>2, CounterStays, Zenon
  <2> QED BY <1>0, <1>1, <2>1, <2>3, <2>4, ShrinkingKeepsNames, Zenon
<1>3. CASE DestroyWindowSurface(t, h)
  <2>1. PICK inf : /\ nextHandle' = nextHandle /\ colorbuffers' = colorbuffers
                   /\ Becomes(t, contexts, Restrict(windows, DOMAIN windows \ {h}), inf, surface)
    BY <1>3, Zenon DEF DestroyWindowSurface
  <2> QED BY <1>0, <1>1, <2>1, QuietStepKeepsNames, Zenon
<1>4. CASE DrainRenderContext(t) \/ DestroyRenderContext(t, h)
  <2>1. PICK ctxs, inf : /\ nextHandle' = nextHandle /\ colorbuffers' = colorbuffers
                         /\ Becomes(t, ctxs, windows, inf, surface)
    BY <1>4, Zenon DEF DrainRenderContext, DestroyRenderContext
  <2> QED BY <1>0, <2>1, QuietStepKeepsNames, Zenon
<1> QED BY <1>2, <1>3, <1>4, Zenon

\* A new context takes a handle, and no window or buffer changes.
LEMMA CreateContextKeepsNames ==
  ASSUME MaxCreations <= MaxHandle, IInv, IInv', CreatedInv, NamesInv, NEW t \in Threads, CreateRenderContext(t)
  PROVE  NamesInv'
<1>1. PICK ctxs, inf : /\ nextHandle' = GenHandle /\ CanGenHandle /\ colorbuffers' = colorbuffers
                       /\ Becomes(t, ctxs, windows, inf, surface)
  BY Zenon DEF CreateRenderContext
<1>2. nextHandle \in Nat /\ TypeInv /\ Counted
  BY DEF IInv, TypeInv, CreatedInv
<1>3. GenHandle = nextHandle + 1
  BY <1>1, <1>2, NextHandle
<1>4. nextHandle <= nextHandle'
  BY <1>1, <1>2, <1>3, CounterGrows, Zenon
<1>5. Subtable(colorbuffers', colorbuffers) /\ SameAttached(surface, surface)
  BY <1>1, Zenon DEF NamesInv, Subtable, SameAttached
<1> QED BY <1>1, <1>4, <1>5, ShrinkingKeepsNames, Zenon

\* Every step keeps what the handles name until the counter wraps around.
LEMMA NextNamesInv ==
  ASSUME MaxCreations <= MaxHandle, IInv, IInv', CreatedInv, NamesInv, [Next]_vars
  PROVE  NamesInv'
<1>1. CASE UNCHANGED vars
  BY <1>1, Zenon DEF vars, NamesInv, WindowNamesItsBuffer
<1>2. ASSUME NEW t \in Threads, ClientStep(t) PROVE NamesInv'
  <2>1. CASE CreateRenderContext(t)
    BY <2>1, CreateContextKeepsNames, Zenon
  <2>2. CASE CreateWindowSurface(t)
    BY <2>2, CreateWindowKeepsNames
  <2>3. CASE CreateColorBuffer(t)
    BY <2>3, CreateColorBufferKeepsNames
  <2>4. ASSUME NEW h \in Handles, OpenColorBuffer(t, h) \/ CloseColorBuffer(t, h) PROVE NamesInv'
    BY <2>4, ColorBufferStepsKeepNames
  <2>5. ASSUME NEW h, DestroyRenderContext(t, h) \/ DestroyWindowSurface(t, h) PROVE NamesInv'
    BY <2>5, LeavingKeepsNames, Zenon
  <2>6. ASSUME NEW h, UnbindContext(t) \/ \E w, r : BindContext(t, h, w, r) PROVE NamesInv'
    BY <2>6, BindingKeepsNames, Zenon
  <2>7. ASSUME NEW w \in Handles, NEW h \in Handles, SetWindowSurfaceColorBuffer(t, w, h) PROVE NamesInv'
    BY <2>7, SetColorBufferKeepsNames
  <2> QED BY <1>2, <2>1, <2>2, <2>3, <2>4, <2>5, <2>7, <2>6, Zenon DEF ClientStep
<1>3. ASSUME NEW t \in Threads, ExitStep(t) PROVE NamesInv'
  BY <1>3, BindingKeepsNames, LeavingKeepsNames, Zenon DEF ExitStep
<1> QED BY <1>1, <1>2, <1>3 DEF Next

\* Initially there is nothing to name.
LEMMA InitNamesInv == Init => NamesInv
<1> SUFFICES ASSUME Init PROVE NamesInv
  OBVIOUS
<1>1. DOMAIN colorbuffers = {} /\ DOMAIN windows = {}
  BY DEF Init, Empty
<1> QED BY <1>1 DEF NamesInv, BufferTable, WindowNamesItsBuffer

\* As long as the counter of genHandle does not wrap around, the colour buffer
\* attached to a window is the one its recorded handle names: genHandle does not
\* look at m_colorbuffers, so a handle given twice may name another buffer.
THEOREM WindowsNameTheirBuffers == MaxCreations <= MaxHandle => (Spec => []WindowNamesItsBuffer)
<1> SUFFICES ASSUME MaxCreations <= MaxHandle PROVE Spec => []WindowNamesItsBuffer
  OBVIOUS
<1>1. IInv /\ IInv' /\ CreatedInv /\ [Next]_vars => CreatedInv'
  BY NextCreatedInv
<1>2. IInv /\ IInv' /\ CreatedInv /\ NamesInv /\ [Next]_vars => NamesInv'
  BY NextNamesInv
<1>3. NamesInv => WindowNamesItsBuffer
  BY DEF NamesInv
<1> QED BY <1>1, <1>2, <1>3, InitCreatedInv, InitNamesInv, Invariance, PTL DEF Spec

-----------------------------------------------------------------------------
(***************************************************************************)
(* What a thread draws to.  EGL lets a thread make current only what is    *)
(* current to no other thread; the window a thread draws to is of the size *)
(* of its colour buffer.  Both hold until a pbuffer is lost.               *)
(***************************************************************************)
PbufferRecord(p) == p = [size |-> p.size, lost |-> p.lost]
PbufferTable(pbs) == pbs = [w \in Windows |-> pbs[w]] /\ \A w \in Windows : PbufferRecord(pbs[w])

LostIn(pbs) == {w \in Windows : pbs[w].lost}

\* Thread t has surfaces current, and they are not lost.
Whole(inf, L, t) == inf[t].ctx # None /\ inf[t].draw \notin L

\* Two threads have no surface in common.
Apart(inf, t, u) ==
  /\ inf[u].draw # inf[t].draw /\ inf[u].draw # inf[t].read
  /\ inf[u].read # inf[t].draw /\ inf[u].read # inf[t].read

\* A thread loses both its surfaces or none.
BothLost(inf, L) == \A t \in Threads : inf[t].ctx # None => (inf[t].draw \in L <=> inf[t].read \in L)

\* As long as it has lost none its surfaces know its context, and nothing of it
\* is current to another thread.
Draws(inf, surf, L) ==
  /\ BothLost(inf, L)
  /\ \A t \in Threads : Whole(inf, L, t) =>
       /\ surf[inf[t].draw].drawCtx = inf[t].ctx /\ surf[inf[t].read].readCtx = inf[t].ctx
       /\ \A u \in Threads \ {t} : Apart(inf, t, u) /\ (Whole(inf, L, u) => inf[u].ctx # inf[t].ctx)

\* A window that is not lost has the size of its colour buffer.
Sized(surf, pbs) ==
  \A w \in Windows \ LostIn(pbs) : surf[w].attached # None => pbs[w].size = SizeOf[surf[w].attached]

\* A window that is gone has no colour buffer.
Cleared == \A w \in Windows \ WindowsAlive(windows, info) : surface[w].attached = None

DrawInv ==
  PbufferTable(pbuffer) /\ Draws(info, surface, LostIn(pbuffer)) /\ Sized(surface, pbuffer) /\ Cleared

\* A thread with a context current has two windows current.
LEMMA CurrentWindows ==
  ASSUME NEW inf \in [Threads -> InfoType], NEW at, Current(inf, at), NEW u \in Threads, inf[u].ctx # None
  PROVE  inf[u].draw \in Windows /\ inf[u].read \in Windows /\ inf[u].draw # None /\ inf[u].read # None
<1>1. inf[u].draw # None /\ inf[u].read # None
  BY Zenon DEF Current
<1>2. inf[u] \in InfoType
  OBVIOUS
<1> QED BY <1>1, <1>2 DEF InfoType

\* The surfaces of thread u are the ones of surf.
StaysCurrent(inf, surf, u) ==
  /\ inf[u].draw \in Windows /\ inf[u].read \in Windows
  /\ surface'[inf[u].draw] = surf[inf[u].draw] /\ surface'[inf[u].read] = surf[inf[u].read]

\* What is current stays alive with its surfaces.
LEMMA CurrentSurfacesStay ==
  ASSUME IInv', NEW t \in Threads, NEW ctxs, NEW wins, NEW inf, NEW surf,
         Becomes(t, ctxs, wins, inf, surf), NEW u \in Threads, inf[u].ctx # None
  PROVE  StaysCurrent(inf, surf, u)
<1>1. info' = inf /\ inf \in [Threads -> InfoType] /\ Current(inf, pc')
  BY DEF Becomes, IInv, TypeInv, CurrentInv
<1>2. inf[u].draw \in Windows /\ inf[u].read \in Windows /\ inf[u].draw # None /\ inf[u].read # None
  BY <1>1, CurrentWindows, Zenon
<1>3. {inf[u].draw, inf[u].read} \subseteq WindowsAlive(wins, inf)
  BY <1>2 DEF WindowsAlive
<1>4. \A w \in Windows : w \in WindowsAlive(wins, inf) => surface'[w] = surf[w]
  BY DEF Becomes
<1> QED BY <1>2, <1>3, <1>4, Zenon DEF StaysCurrent

\* A window that dies takes what was attached to it along.
LEMMA BecomesKeepsDraws ==
  ASSUME IInv', NEW t \in Threads, NEW ctxs, NEW wins, NEW inf, NEW surf,
         Becomes(t, ctxs, wins, inf, surf),
         PbufferTable(pbuffer'), Draws(inf, surf, LostIn(pbuffer')), Sized(surf, pbuffer')
  PROVE  DrawInv'
<1> DEFINE L == LostIn(pbuffer')
<1>1. info' = inf /\ windows' = wins
  BY DEF Becomes
<1>2. Draws(inf, surface', L)
  <2> HIDE DEF L
  <2>1. ASSUME NEW u \in Threads, Whole(inf, L, u)
        PROVE  surface'[inf[u].draw] = surf[inf[u].draw] /\ surface'[inf[u].read] = surf[inf[u].read]
    <3>1. inf[u].ctx # None
      BY <2>1, Zenon DEF Whole
    <3>2. StaysCurrent(inf, surf, u)
      BY <3>1, CurrentSurfacesStay, Zenon
    <3> QED BY <3>2, Zenon DEF StaysCurrent
  <2>2. Draws(inf, surf, L)
    BY DEF L
  <2> QED BY <2>1, <2>2, Zenon DEF Draws
<1>3. \A w \in Windows : /\ surface'[w] = surf[w] \/ surface'[w] = FreshSurface
                         /\ w \notin WindowsAlive(wins, inf) => surface'[w] = FreshSurface
  BY DEF Becomes
<1>4. FreshSurface.attached = None
  BY DEF FreshSurface
<1>5. Sized(surface', pbuffer')
  BY <1>3, <1>4, Zenon DEF Sized
<1>6. \A w \in Windows \ WindowsAlive(wins, inf) : surface'[w].attached = None
  BY <1>3, <1>4, Zenon
<1> QED BY <1>1, <1>2, <1>5, <1>6, Zenon DEF DrawInv, Cleared

\* Sizes and attached buffers are as before, and nothing that was lost is found.
LEMMA SizedStays ==
  ASSUME NEW surf, NEW new, NEW pbs, NEW more, Sized(surf, pbs), SameAttached(new, surf),
         \A w \in Windows : more[w].size = pbs[w].size, LostIn(pbs) \subseteq LostIn(more)
  PROVE  Sized(new, more)
BY Zenon DEF Sized, SameAttached

\* Lose adds windows to the lost ones.
LEMMA LoseLoses ==
  ASSUME NEW pbs, NEW X
  PROVE  /\ PbufferTable(Lose(pbs, X)) /\ LostIn(Lose(pbs, X)) = LostIn(pbs) \cup (X \cap Windows)
         /\ \A w \in Windows : Lose(pbs, X)[w].size = pbs[w].size
<1> DEFINE new == Lose(pbs, X)
<1>1. \A w \in Windows : new[w] = [size |-> pbs[w].size, lost |-> pbs[w].lost \/ w \in X]
  BY DEF Lose
<1>2. new = [w \in Windows |-> new[w]]
  BY DEF Lose
<1> HIDE DEF new
<1>3. ASSUME NEW w \in Windows
      PROVE  /\ new[w].size = pbs[w].size /\ (new[w].lost <=> pbs[w].lost \/ w \in X)
             /\ PbufferRecord(new[w])
  <2> DEFINE l == pbs[w].lost \/ w \in X
             p == [size |-> pbs[w].size, lost |-> l]
  <2>1. new[w] = p
    BY <1>1, Zenon
  <2>2. p.size = pbs[w].size /\ p.lost = l
    <3> HIDE DEF l
    <3> QED OBVIOUS
  <2> HIDE DEF p
  <2>3. PbufferRecord(p)
    BY <2>2 DEF p, PbufferRecord
  <2> QED BY <2>1, <2>2, <2>3, Zenon
<1>4. \A w \in Windows : PbufferRecord(new[w])
  BY <1>3, Zenon
<1>5. PbufferTable(new)
  BY <1>2, <1>4, Zenon DEF PbufferTable
<1>6. LostIn(new) = LostIn(pbs) \cup (X \cap Windows)
  BY <1>3, Zenon DEF LostIn
<1> QED BY <1>3, <1>5, <1>6, Zenon DEF new

\* More windows may be lost, as long as no thread loses only one of its two.
LEMMA DrawsWithMoreLost ==
  ASSUME NEW inf, NEW surf, NEW L, NEW X, Draws(inf, surf, L), BothLost(inf, L \cup X)
  PROVE  Draws(inf, surf, L \cup X)
<1>1. \A u \in Threads : Whole(inf, L \cup X, u) => Whole(inf, L, u)
  BY Zenon DEF Whole
<1> QED BY <1>1, Zenon DEF Draws

\* The surfaces that are current to the threads of U.
HeldBy(inf, U) == UNION {{inf[u].draw, inf[u].read} : u \in U}

\* The threads of U lose what they have current, and the windows W with them.
LEMMA LosesWhatIsHeld ==
  ASSUME NEW inf, NEW surf, NEW L, Draws(inf, surf, L), NEW U \in SUBSET Threads, NEW W,
         \A u \in Threads : inf[u].ctx # None /\ (inf[u].draw \in W \/ inf[u].read \in W) => u \in U
  PROVE  Draws(inf, surf, L \cup (W \cup HeldBy(inf, U)))
<1> DEFINE X == W \cup HeldBy(inf, U)
<1>1. ASSUME NEW u \in Threads, inf[u].ctx # None, u \in U
      PROVE  inf[u].draw \in X /\ inf[u].read \in X
  BY <1>1 DEF HeldBy
<1>2. ASSUME NEW u \in Threads, inf[u].ctx # None, u \notin U, Whole(inf, L, u)
      PROVE  inf[u].draw \notin X /\ inf[u].read \notin X
  <2>1. inf[u].draw \notin W /\ inf[u].read \notin W
    BY <1>2, Zenon
  <2>2. \A v \in U : Apart(inf, u, v)
    BY <1>2, Zenon DEF Draws
  <2> QED BY <2>1, <2>2, Zenon DEF HeldBy, Apart
<1> HIDE DEF X
<1>3. ASSUME NEW u \in Threads, inf[u].ctx # None
      PROVE  inf[u].draw \in L \cup X <=> inf[u].read \in L \cup X
  <2>1. inf[u].draw \in L <=> inf[u].read \in L
    BY <1>3, Zenon DEF Draws, BothLost
  <2>2. CASE u \in U
    BY <1>1, <1>3, <2>2, Zenon
  <2>3. CASE u \notin U /\ Whole(inf, L, u)
    BY <1>2, <1>3, <2>1, <2>3, Zenon
  <2>4. CASE ~Whole(inf, L, u)
    BY <1>3, <2>1, <2>4, Zenon DEF Whole
  <2> QED BY <2>2, <2>3, <2>4, Zenon
<1>4. BothLost(inf, L \cup X)
  BY <1>3, Zenon DEF BothLost
<1>5. Draws(inf, surf, L \cup X)
  BY <1>4, DrawsWithMoreLost, Zenon
<1> QED BY <1>5, Zenon DEF X

\* The sets of contexts and windows have nothing to do with what is current.
LEMMA SetsAgree ==
  ASSUME TypeInv, NEW t \in Threads, NEW S
  PROVE  Agrees([info EXCEPT ![t].contextSet = S]) /\ Agrees([info EXCEPT ![t].windowSet = S])
<1>1. info = [u \in Threads |-> info[u]]
      /\ info[t] = [ctx |-> info[t].ctx, draw |-> info[t].draw, read |-> info[t].read,
                    contextSet |-> info[t].contextSet, windowSet |-> info[t].windowSet]
  BY DEF TypeInv, InfoType
<1> DEFINE one == [info EXCEPT ![t].contextSet = S]
           two == [info EXCEPT ![t].windowSet = S]
<1>2. /\ one[t] = [info[t] EXCEPT !.contextSet = S] /\ two[t] = [info[t] EXCEPT !.windowSet = S]
      /\ \A u \in Threads \ {t} : one[u] = info[u] /\ two[u] = info[u]
  BY <1>1
<1> HIDE DEF one, two
<1>3. /\ one[t].ctx = info[t].ctx /\ one[t].draw = info[t].draw /\ one[t].read = info[t].read
      /\ two[t].ctx = info[t].ctx /\ two[t].draw = info[t].draw /\ two[t].read = info[t].read
  BY <1>1, <1>2
<1>4. Agrees(one) /\ Agrees(two)
  BY <1>2, <1>3, Zenon DEF Agrees
<1> QED BY <1>4 DEF one, two

\* What is drawn to depends on what is current only.
LEMMA DrawsAgrees ==
  ASSUME NEW inf, Agrees(inf), NEW surf, NEW L, Draws(info, surf, L)
  PROVE  Draws(inf, surf, L)
<1>1. \A u \in Threads : Whole(inf, L, u) <=> Whole(info, L, u)
  BY Zenon DEF Agrees, Whole
<1>2. \A t, u \in Threads : Apart(info, t, u) => Apart(inf, t, u)
  BY Zenon DEF Agrees, Apart
<1>3. BothLost(inf, L)
  BY Zenon DEF Agrees, BothLost, Draws
<1>4. ASSUME NEW t \in Threads, Whole(inf, L, t)
      PROVE  /\ surf[inf[t].draw].drawCtx = inf[t].ctx /\ surf[inf[t].read].readCtx = inf[t].ctx
             /\ \A u \in Threads \ {t} : Apart(inf, t, u) /\ (Whole(inf, L, u) => inf[u].ctx # inf[t].ctx)
  <2>1. /\ surf[info[t].draw].drawCtx = info[t].ctx /\ surf[info[t].read].readCtx = info[t].ctx
        /\ \A u \in Threads \ {t} : Apart(info, t, u) /\ (Whole(info, L, u) => info[u].ctx # info[t].ctx)
    BY <1>1, <1>4, Zenon DEF Draws
  <2>2. \A u \in Threads \ {t} : Apart(inf, t, u)
    BY <1>2, <2>1, Zenon
  <2>3. \A u \in Threads \ {t} : Whole(inf, L, u) => inf[u].ctx # inf[t].ctx
    BY <1>1, <2>1, Zenon DEF Agrees
  <2> QED BY <2>1, <2>2, <2>3, Zenon DEF Agrees
<1> QED BY <1>3, <1>4, Zenon DEF Draws

\* The steps that change tables and sets only.
LEMMA TableStepKeepsDraws ==
  ASSUME IInv', DrawInv, NEW t \in Threads, NEW ctxs, NEW wins, NEW inf,
         Becomes(t, ctxs, wins, inf, surface), Agrees(inf), pbuffer' = pbuffer
  PROVE  DrawInv'
<1>1. PbufferTable(pbuffer') /\ Sized(surface, pbuffer') /\ Draws(info, surface, LostIn(pbuffer'))
  BY Zenon DEF DrawInv
<1>2. Draws(inf, surface, LostIn(pbuffer'))
  BY <1>1, DrawsAgrees, Zenon
<1> QED BY <1>1, <1>2, BecomesKeepsDraws, Zenon

\* createRenderContext, destroyRenderContext, destroyWindowSurface and the drains.
LEMMA TableStepsKeepDraws ==
  ASSUME IInv, IInv', DrawInv, NEW t \in Threads, NEW h,
         \/ CreateRenderContext(t) \/ DestroyRenderContext(t, h) \/ DestroyWindowSurface(t, h)
         \/ DrainWindowSurface(t) \/ DrainRenderContext(t)
  PROVE  DrawInv'
<1>1. pbuffer' = pbuffer
  BY Zenon DEF CreateRenderContext, DestroyRenderContext, DestroyWindowSurface, DrainWindowSurface, DrainRenderContext
<1>2. \E ctxs, wins, S : \/ Becomes(t, ctxs, wins, [info EXCEPT ![t].contextSet = S], surface)
                         \/ Becomes(t, ctxs, wins, [info EXCEPT ![t].windowSet = S], surface)
  <2>1. CASE CreateRenderContext(t)
    BY <2>1, Zenon DEF CreateRenderContext
  <2>2. CASE DestroyRenderContext(t, h)
    BY <2>2, Zenon DEF DestroyRenderContext
  <2>3. CASE DestroyWindowSurface(t, h)
    BY <2>3, Zenon DEF DestroyWindowSurface
  <2>4. CASE DrainWindowSurface(t)
    BY <2>4, Zenon DEF DrainWindowSurface
  <2>5. CASE DrainRenderContext(t)
    BY <2>5, Zenon DEF DrainRenderContext
  <2> QED BY <2>1, <2>2, <2>3, <2>4, <2>5, Zenon
<1>3. PICK ctxs, wins, S : \/ Becomes(t, ctxs, wins, [info EXCEPT ![t].contextSet = S], surface)
                           \/ Becomes(t, ctxs, wins, [info EXCEPT ![t].windowSet = S], surface)
  BY <1>2, Zenon
<1>4. TypeInv
  BY Zenon DEF IInv
<1>5. Agrees([info EXCEPT ![t].contextSet = S]) /\ Agrees([info EXCEPT ![t].windowSet = S])
  BY <1>4, SetsAgree, Zenon
<1> QED BY <1>1, <1>3, <1>5, TableStepKeepsDraws, Zenon

\* Windows that no thread has current may be lost or not.
LEMMA DrawsSameLost ==
  ASSUME NEW inf, NEW surf, NEW L, NEW M, Draws(inf, surf, L),
         \A u \in Threads : inf[u].ctx # None =>
           (inf[u].draw \in L <=> inf[u].draw \in M) /\ (inf[u].read \in L <=> inf[u].read \in M)
  PROVE  Draws(inf, surf, M)
<1>1. \A u \in Threads : Whole(inf, M, u) <=> Whole(inf, L, u)
  BY Zenon DEF Whole
<1>2. BothLost(inf, M)
  BY Zenon DEF BothLost, Draws
<1> QED BY <1>1, <1>2, Zenon DEF Draws

\* A new window: nobody has it current and nothing is attached to it.
LEMMA CreateWindowKeepsDraws ==
  ASSUME IInv, IInv', DrawInv, NEW t \in Threads, CreateWindowSurface(t)
  PROVE  DrawInv'
<1> DEFINE alive == WindowsAlive(windows, info)
           w == Lowest(Windows \ alive)
           wins == With(windows, GenHandle, [win |-> w, cb |-> None])
           S == info[t].windowSet \cup {GenHandle}
           inf == [info EXCEPT ![t].windowSet = S]
<1>1. Becomes(t, contexts, wins, inf, surface) /\ Windows \ alive # {}
  BY Zenon DEF CreateWindowSurface
<1>2. PICK size : pbuffer' = [pbuffer EXCEPT ![w] = [size |-> size, lost |-> FALSE]]
  BY Zenon DEF CreateWindowSurface
<1>3. w \in Windows /\ w \notin alive
  BY <1>1, FreeWindow, Zenon
<1>4. TypeInv /\ Current(info, pc) /\ info \in [Threads -> InfoType]
  BY DEF IInv, CurrentInv, TypeInv
<1>5. Agrees(inf)
  BY <1>4, SetsAgree, Zenon
<1> HIDE DEF w, inf, wins, S
<1>6. /\ pbuffer' = [v \in Windows |-> pbuffer'[v]] /\ pbuffer'[w] = [size |-> size, lost |-> FALSE]
      /\ \A v \in Windows \ {w} : pbuffer'[v] = pbuffer[v]
  BY <1>2, <1>3, Zenon DEF DrawInv, PbufferTable
<1>7. PbufferTable(pbuffer')
  <2>1. PbufferRecord(pbuffer'[w])
    BY <1>6 DEF PbufferRecord
  <2> QED BY <1>6, <2>1, Zenon DEF DrawInv, PbufferTable
<1>8. LostIn(pbuffer') = LostIn(pbuffer) \ {w}
  <2>1. ~pbuffer'[w].lost
    BY <1>6
  <2> QED BY <1>6, <2>1, Zenon DEF LostIn
<1>9. Sized(surface, pbuffer')
  <2>1. surface[w].attached = None
    BY <1>3, Zenon DEF DrawInv, Cleared
  <2> QED BY <1>6, <1>8, <2>1, Zenon DEF DrawInv, Sized
<1>10. \A u \in Threads : info[u].ctx # None => info[u].draw # w /\ info[u].read # w
  <2>1. ASSUME NEW u \in Threads, info[u].ctx # None PROVE info[u].draw # None /\ info[u].read # None
    BY <1>4, <2>1, CurrentWindows, Zenon
  <2>2. ASSUME NEW u \in Threads, info[u].ctx # None PROVE info[u].draw \in alive /\ info[u].read \in alive
    BY <2>1, <2>2 DEF WindowsAlive
  <2> QED BY <1>3, <2>2, Zenon
<1>11. Draws(info, surface, LostIn(pbuffer'))
  <2>1. \A v : v # w => (v \in LostIn(pbuffer) <=> v \in LostIn(pbuffer'))
    BY <1>8, Zenon
  <2>2. Draws(info, surface, LostIn(pbuffer))
    BY Zenon DEF DrawInv
  <2> QED BY <1>10, <2>1, <2>2, DrawsSameLost, Zenon
<1>12. Draws(inf, surface, LostIn(pbuffer'))
  BY <1>5, <1>11, DrawsAgrees, Zenon
<1> QED BY <1>1, <1>7, <1>9, <1>12, BecomesKeepsDraws, Zenon

\* A thread is intact when it has surfaces current and has lost none.
LEMMA WholeIsIntact ==
  ASSUME IInv, DrawInv, NEW u \in Threads
  PROVE  Intact(u) <=> Whole(info, LostIn(pbuffer), u)
<1>1. Current(info, pc) /\ info \in [Threads -> InfoType]
  BY DEF IInv, CurrentInv, TypeInv
<1>2. info[u].ctx = None <=> info[u].draw = None
  BY <1>1, Zenon DEF Current
<1>3. CASE info[u].ctx = None
  BY <1>2, <1>3, Zenon DEF Intact, Whole
<1>4. CASE info[u].ctx # None
  <2>1. info[u].draw \in Windows /\ info[u].read \in Windows
    BY <1>1, <1>4, CurrentWindows, Zenon
  <2>2. info[u].draw \in LostIn(pbuffer) <=> info[u].read \in LostIn(pbuffer)
    BY <1>4, Zenon DEF DrawInv, Draws, BothLost
  <2> QED BY <1>2, <1>4, <2>1, <2>2, Zenon DEF Intact, Whole, LostIn
<1> QED BY <1>3, <1>4

\* bindContext: what is current to another thread that is intact was refused.
LEMMA BoundDraws ==
  ASSUME NEW inf, NEW new, NEW surf, NEW L, NEW M, Draws(inf, surf, L), NEW t \in Threads,
         NEW c, NEW d \in Windows, NEW r \in Windows,
         c # None, \A u \in Threads : inf[u].ctx = None => inf[u].draw \notin {d, r} /\ inf[u].read \notin {d, r},
         new[t].ctx = c, new[t].draw = d, new[t].read = r, \A u \in Threads \ {t} : new[u] = inf[u],
         \A u \in Threads \ {t} : Whole(inf, L, u) =>
            /\ inf[u].ctx # c /\ {inf[u].draw, inf[u].read} \cap {d, r} = {}
            /\ inf[u].draw \in Windows /\ inf[u].read \in Windows,
         NEW bound, BoundTo(bound, surf, d, r, c),
         M = L \cup (IF d \in L \/ r \in L THEN {d, r} ELSE {})
  PROVE  Draws(new, bound, M)
<1>1. d \in M <=> r \in M
  BY Zenon
<1>2. \A u \in Threads \ {t} : Whole(inf, L, u) =>
        /\ inf[u].draw \notin M /\ inf[u].read \notin M
  BY Zenon DEF Draws, BothLost, Whole
<1>3. \A u \in Threads \ {t} : inf[u].ctx # None /\ ~Whole(inf, L, u) =>
        inf[u].draw \in L /\ inf[u].read \in L
  BY Zenon DEF Draws, BothLost, Whole
<1>4. BothLost(new, M)
  BY <1>1, <1>2, <1>3, Zenon DEF BothLost
<1>5. \A u \in Threads \ {t} : Whole(new, M, u) => Whole(inf, L, u)
  BY <1>3, Zenon DEF Whole
<1>6. ASSUME Whole(new, M, t), NEW u \in Threads \ {t}
      PROVE  Apart(new, t, u) /\ (Whole(new, M, u) => new[u].ctx # new[t].ctx)
  <2>1. d \notin L /\ r \notin L
    BY <1>6, Zenon DEF Whole
  <2>2. inf[u].draw \notin {d, r} /\ inf[u].read \notin {d, r}
    <3>1. CASE inf[u].ctx = None
      BY <3>1, Zenon
    <3>2. CASE Whole(inf, L, u)
      BY <3>2, Zenon
    <3>3. CASE inf[u].ctx # None /\ ~Whole(inf, L, u)
      BY <1>3, <2>1, <3>3, Zenon
    <3> QED BY <3>1, <3>2, <3>3, Zenon
  <2> QED BY <1>5, <2>2, Zenon DEF Apart
<1>7. Whole(new, M, t) => bound[new[t].draw].drawCtx = new[t].ctx /\ bound[new[t].read].readCtx = new[t].ctx
  BY Zenon DEF BoundTo
<1>8. ASSUME NEW v \in Threads \ {t}, Whole(new, M, v)
      PROVE  /\ bound[new[v].draw].drawCtx = new[v].ctx /\ bound[new[v].read].readCtx = new[v].ctx
             /\ \A u \in Threads \ {v} : Apart(new, v, u) /\ (Whole(new, M, u) => new[u].ctx # new[v].ctx)
  <2>1. Whole(inf, L, v) /\ new[v] = inf[v]
    BY <1>5, <1>8, Zenon
  <2>2. /\ surf[inf[v].draw].drawCtx = inf[v].ctx /\ surf[inf[v].read].readCtx = inf[v].ctx
        /\ \A u \in Threads \ {v} : Apart(inf, v, u) /\ (Whole(inf, L, u) => inf[u].ctx # inf[v].ctx)
    BY <2>1, Zenon DEF Draws
  <2>3. /\ inf[v].ctx # c /\ inf[v].draw \notin {d, r} /\ inf[v].read \notin {d, r}
        /\ inf[v].draw \in Windows /\ inf[v].read \in Windows
    BY <2>1, Zenon
  <2>4. bound[inf[v].draw] = surf[inf[v].draw] /\ bound[inf[v].read] = surf[inf[v].read]
    BY <2>3, Zenon DEF BoundTo
  <2>5. ASSUME NEW u \in Threads \ {v}
        PROVE  Apart(new, v, u) /\ (Whole(new, M, u) => new[u].ctx # new[v].ctx)
    <3>1. CASE u = t
      BY <2>1, <2>3, <3>1, Zenon DEF Apart
    <3>2. CASE u # t
      <4>1. new[u] = inf[u] /\ (Whole(new, M, u) => Whole(inf, L, u))
        BY <1>5, <3>2, Zenon
      <4>2. Apart(inf, v, u) /\ (Whole(inf, L, u) => inf[u].ctx # inf[v].ctx)
        BY <2>2, <2>5, Zenon
      <4> QED BY <2>1, <4>1, <4>2, Zenon DEF Apart
    <3> QED BY <3>1, <3>2, Zenon
  <2> QED BY <2>1, <2>2, <2>4, <2>5, Zenon
<1>9. ASSUME NEW v \in Threads, Whole(new, M, v)
      PROVE  /\ bound[new[v].draw].drawCtx = new[v].ctx /\ bound[new[v].read].readCtx = new[v].ctx
             /\ \A u \in Threads \ {v} : Apart(new, v, u) /\ (Whole(new, M, u) => new[u].ctx # new[v].ctx)
  <2>1. CASE v = t
    BY <1>6, <1>7, <1>9, <2>1, Zenon
  <2>2. CASE v # t
    BY <1>8, <1>9, <2>2, Zenon
  <2> QED BY <2>1, <2>2, Zenon
<1> QED BY <1>4, <1>9, Zenon DEF Draws

\* bindContext keeps what the threads draw to.
LEMMA BindKeepsDraws ==
  ASSUME IInv, IInv', DrawInv, NEW t \in Threads, NEW hc, NEW hd, NEW hr, BindContext(t, hc, hd, hr)
  PROVE  DrawInv'
<1> DEFINE c == contexts[hc]
           d == windows[hd].win
           r == windows[hr].win
           inf == Holding(t, c, d, r)
           surf == Bind(surface, d, r, c)
           L == LostIn(pbuffer)
           X == IF d \in L \/ r \in L THEN {d, r} ELSE {}
<1>1. /\ TypeInv /\ Current(info, pc) /\ info \in [Threads -> InfoType] /\ SurfaceTable(surface)
      /\ hc \in DOMAIN contexts /\ hd \in DOMAIN windows /\ hr \in DOMAIN windows
  BY DEF IInv, CurrentInv, TypeInv, BindContext
<1>2. c \in Contexts /\ d \in Windows /\ r \in Windows
  BY <1>1 DEF TypeInv, ContextTable, WindowTable, WindowRecord
<1>3. c # None /\ d # None /\ r # None
  BY <1>2, RendererAssumption DEF Contexts, Windows, None
<1>4. /\ MakesCurrent(t, c, d, r) /\ Becomes(t, contexts, windows, inf, surf)
      /\ pbuffer' = Lose(pbuffer, IF pbuffer[d].lost \/ pbuffer[r].lost THEN {d, r} ELSE {})
  BY Zenon DEF BindContext, Holding
<1>5. pbuffer' = Lose(pbuffer, X)
  BY <1>2, <1>4, Zenon DEF LostIn
<1>6. BoundTo(surf, surface, d, r, c) /\ SameAttached(surf, surface)
  BY <1>1, <1>2, Bound, BindKeepsAttached, Zenon
<1>7. /\ inf[t] = [ctx |-> c, draw |-> d, read |-> r,
                   contextSet |-> info[t].contextSet, windowSet |-> info[t].windowSet]
      /\ \A u \in Threads \ {t} : inf[u] = info[u]
  BY <1>1, InfoHolding
<1> HIDE DEF c, d, r, inf, surf, L, X
<1>8. inf[t].ctx = c /\ inf[t].draw = d /\ inf[t].read = r
  BY <1>7
<1>9. \A u \in Threads : info[u].ctx = None => info[u].draw \notin {d, r} /\ info[u].read \notin {d, r}
  BY <1>1, <1>3, Zenon DEF Current
<1>10. ASSUME NEW u \in Threads \ {t}, Whole(info, L, u)
       PROVE  /\ info[u].ctx # c /\ {info[u].draw, info[u].read} \cap {d, r} = {}
              /\ info[u].draw \in Windows /\ info[u].read \in Windows
  <2>1. Intact(u)
    BY <1>10, WholeIsIntact, Zenon DEF L
  <2>2. info[u].ctx # None
    BY <1>10, Zenon DEF Whole
  <2>3. info[u].draw \in Windows /\ info[u].read \in Windows
    BY <1>1, <2>2, CurrentWindows, Zenon
  <2> QED BY <1>4, <2>1, <2>3, Zenon DEF MakesCurrent
<1>11. /\ PbufferTable(pbuffer') /\ LostIn(pbuffer') = L \cup (X \cap Windows)
       /\ \A w \in Windows : pbuffer'[w].size = pbuffer[w].size
  BY <1>5, LoseLoses, Zenon DEF L
<1>12. X \cap Windows = X
  BY <1>2, Zenon DEF X
<1>13. LostIn(pbuffer') = L \cup X
  BY <1>11, <1>12, Zenon
<1>14. Draws(info, surface, L) /\ Sized(surface, pbuffer)
  BY Zenon DEF DrawInv, L
<1>15. Draws(inf, surf, LostIn(pbuffer'))
  <2> DEFINE M == LostIn(pbuffer')
  <2> HIDE DEF M
  <2>1. M = L \cup (IF d \in L \/ r \in L THEN {d, r} ELSE {})
    BY <1>13, Zenon DEF M, X
  <2>2. Draws(inf, surf, M)
    BY <1>2, <1>3, <1>6, <1>7, <1>8, <1>9, <1>10, <1>14, <2>1, BoundDraws, Zenon
  <2> QED BY <2>2, Zenon DEF M
<1>16. Sized(surf, pbuffer')
  <2>1. LostIn(pbuffer) \subseteq LostIn(pbuffer')
    BY <1>13, Zenon DEF L
  <2> QED BY <1>6, <1>11, <1>14, <2>1, SizedStays, Zenon
<1> QED BY <1>4, <1>11, <1>15, <1>16, BecomesKeepsDraws, Zenon

\* Thread t has nothing current in new; the others have what they have in inf.
LetsGo(new, inf, t) ==
  /\ new[t].ctx = None /\ new[t].draw = None /\ new[t].read = None
  /\ \A u \in Threads \ {t} : new[u] = inf[u]

\* The surfaces of the other threads that are whole stay.
OthersKeep(free, surf, inf, L, t) ==
  \A u \in Threads \ {t} : Whole(inf, L, u) =>
    /\ free[inf[u].draw] = surf[inf[u].draw] /\ free[inf[u].read] = surf[inf[u].read]
    /\ inf[u].draw # None /\ inf[u].read # None

\* A surface that is unbound is bound to no other thread that is whole.
LEMMA UnboundDraws ==
  ASSUME NEW inf, NEW new, NEW surf, NEW L, Draws(inf, surf, L), NEW t \in Threads,
         LetsGo(new, inf, t), NEW free, OthersKeep(free, surf, inf, L, t)
  PROVE  Draws(new, free, L)
<1>1. BothLost(new, L)
  BY Zenon DEF BothLost, Draws, LetsGo
<1>2. ~Whole(new, L, t) /\ \A u \in Threads \ {t} : Whole(new, L, u) <=> Whole(inf, L, u)
  BY Zenon DEF Whole, LetsGo
<1>3. ASSUME NEW v \in Threads, Whole(new, L, v)
      PROVE  /\ free[new[v].draw].drawCtx = new[v].ctx /\ free[new[v].read].readCtx = new[v].ctx
             /\ \A u \in Threads \ {v} : Apart(new, v, u) /\ (Whole(new, L, u) => new[u].ctx # new[v].ctx)
  <2>1. v # t /\ Whole(inf, L, v) /\ new[v] = inf[v]
    BY <1>2, <1>3, Zenon DEF LetsGo
  <2>2. /\ surf[inf[v].draw].drawCtx = inf[v].ctx /\ surf[inf[v].read].readCtx = inf[v].ctx
        /\ \A u \in Threads \ {v} : Apart(inf, v, u) /\ (Whole(inf, L, u) => inf[u].ctx # inf[v].ctx)
    BY <2>1, Zenon DEF Draws
  <2>3. ASSUME NEW u \in Threads \ {v}
        PROVE  Apart(new, v, u) /\ (Whole(new, L, u) => new[u].ctx # new[v].ctx)
    <3>1. CASE u = t
      BY <1>2, <2>1, <3>1, Zenon DEF Apart, LetsGo, OthersKeep
    <3>2. CASE u # t
      BY <1>2, <2>1, <2>2, <3>2, Zenon DEF Apart, LetsGo
    <3> QED BY <3>1, <3>2, Zenon
  <2> QED BY <2>1, <2>2, <2>3, Zenon DEF OthersKeep
<1> QED BY <1>1, <1>3, Zenon DEF Draws

\* bindContext(0, 0, 0) keeps what the other threads draw to.
LEMMA UnboundKeepsDraws ==
  ASSUME IInv, IInv', DrawInv, NEW t \in Threads, Unbound(t), pbuffer' = pbuffer
  PROVE  DrawInv'
<1> DEFINE inf == Holding(t, None, None, None)
           d == info[t].draw
           r == info[t].read
           surf == IF d = None THEN surface ELSE Bind(surface, d, r, None)
           L == LostIn(pbuffer)
<1>1. Becomes(t, contexts, windows, inf, surf)
  BY Zenon DEF Unbound, Holding
<1>2. TypeInv /\ Current(info, pc) /\ info \in [Threads -> InfoType] /\ SurfaceTable(surface)
  BY DEF IInv, CurrentInv, TypeInv
<1>3. d # None => /\ d \in Windows /\ r \in Windows
                  /\ BoundTo(surf, surface, d, r, None) /\ SameAttached(surf, surface)
  <2>1. ASSUME d # None PROVE d \in Windows /\ r \in Windows
    <3>1. info[t].ctx # None
      BY <1>2, <2>1, Zenon DEF Current
    <3> QED BY <1>2, <3>1, CurrentWindows, Zenon
  <2>2. d # None => surf = Bind(surface, d, r, None)
    BY Zenon
  <2> HIDE DEF surf, d, r
  <2> QED BY <1>2, <2>1, <2>2, Bound, BindKeepsAttached, Zenon
<1>4. d = None => surf = surface
  BY Zenon
<1>5. /\ inf[t] = [ctx |-> None, draw |-> None, read |-> None,
                   contextSet |-> info[t].contextSet, windowSet |-> info[t].windowSet]
      /\ \A u \in Threads \ {t} : inf[u] = info[u]
  BY <1>2, InfoHolding
<1> HIDE DEF inf, surf, L
<1>6. inf[t].ctx = None /\ inf[t].draw = None /\ inf[t].read = None
  BY <1>5
<1>7. Draws(info, surface, L) /\ Sized(surface, pbuffer) /\ PbufferTable(pbuffer)
  BY Zenon DEF DrawInv, L
<1>8. ASSUME NEW u \in Threads \ {t}, Whole(info, L, u)
      PROVE  /\ surf[info[u].draw] = surface[info[u].draw] /\ surf[info[u].read] = surface[info[u].read]
             /\ info[u].draw # None /\ info[u].read # None
  <2>1. info[u].ctx # None
    BY <1>8, Zenon DEF Whole
  <2>2. /\ info[u].draw \in Windows /\ info[u].read \in Windows
        /\ info[u].draw # None /\ info[u].read # None
    BY <1>2, <2>1, CurrentWindows, Zenon
  <2>3. info[u].draw \notin {d, r} /\ info[u].read \notin {d, r}
    BY <1>7, <1>8, Zenon DEF Draws, Apart
  <2>4. CASE d = None
    BY <1>4, <2>2, <2>4, Zenon
  <2>5. CASE d # None
    BY <1>3, <2>2, <2>3, <2>5, Zenon DEF BoundTo
  <2> QED BY <2>4, <2>5, Zenon
<1>9. Draws(inf, surf, L)
  <2>1. LetsGo(inf, info, t)
    BY <1>5, <1>6, Zenon DEF LetsGo
  <2>2. OthersKeep(surf, surface, info, L, t)
    BY <1>8, Zenon DEF OthersKeep
  <2> QED BY <1>7, <2>1, <2>2, UnboundDraws, Zenon
<1>10. Sized(surf, pbuffer)
  <2>1. SameAttached(surf, surface)
    BY <1>3, <1>4, Zenon DEF SameAttached
  <2> QED BY <1>7, <2>1, Zenon DEF Sized, SameAttached
<1>11. Draws(inf, surf, LostIn(pbuffer')) /\ Sized(surf, pbuffer') /\ PbufferTable(pbuffer')
  BY <1>7, <1>9, <1>10, Zenon DEF L
<1> QED BY <1>1, <1>11, BecomesKeepsDraws, Zenon

\* What is attached to a surface has nothing to do with its contexts.
LEMMA DrawsSameContexts ==
  ASSUME NEW surf, NEW new, NEW L, Draws(info, surf, L),
         \A u \in Threads : info[u].ctx # None => info[u].draw \in Windows /\ info[u].read \in Windows,
         \A w \in Windows : new[w].readCtx = surf[w].readCtx /\ new[w].drawCtx = surf[w].drawCtx
  PROVE  Draws(info, new, L)
BY Zenon DEF Draws, Whole

\* The threads that have window v current.
UsersOf(v) == {u \in Threads : v \in {info[u].draw, info[u].read}}

\* The pbuffers with the one of v in another size.
WithSize(v, size) == [pbuffer EXCEPT ![v].size = size]

\* Such pbuffers, and that nothing is lost by it.
LEMMA SizeChanges ==
  ASSUME PbufferTable(pbuffer), NEW v \in Windows, NEW size
  PROVE  /\ LostIn(WithSize(v, size)) = LostIn(pbuffer)
         /\ WithSize(v, size)[v].size = size
         /\ \A w \in Windows \ {v} : WithSize(v, size)[w] = pbuffer[w]
<1> DEFINE new == WithSize(v, size)
<1>1. pbuffer[v] = [size |-> pbuffer[v].size, lost |-> pbuffer[v].lost]
  BY DEF PbufferTable, PbufferRecord
<1>2. /\ new[v] = [pbuffer[v] EXCEPT !.size = size]
      /\ \A w \in Windows \ {v} : new[w] = pbuffer[w]
  BY DEF PbufferTable, WithSize
<1> HIDE DEF new
<1>3. new[v].size = size /\ new[v].lost = pbuffer[v].lost
  BY <1>1, <1>2
<1>4. LostIn(new) = LostIn(pbuffer)
  BY <1>2, <1>3, Zenon DEF LostIn
<1> QED BY <1>2, <1>3, <1>4, Zenon DEF new

\* What a resize leaves: the pbuffers as they are, one more size and some lost by
\* other threads, or the window lost by all.
LEMMA ResizeOutcomes ==
  ASSUME NEW t, NEW v, NEW size, pbuffer' \in Resized(t, v, size)
  PROVE  \/ pbuffer' = pbuffer /\ pbuffer[v].size = size
         \/ pbuffer' = Lose(WithSize(v, size), {} \cup HeldBy(info, UsersOf(v) \ {t}))
         \/ pbuffer' = Lose(pbuffer, {v} \cup HeldBy(info, UsersOf(v)))
<1>1. CASE pbuffer[v].size = size
  BY <1>1, Zenon DEF Resized
<1>2. CASE pbuffer[v].size # size
  <2>1. \/ pbuffer' = Lose(WithSize(v, size), HeldBy(info, UsersOf(v) \ {t}))
        \/ pbuffer' = Lose(pbuffer, {v} \cup HeldBy(info, UsersOf(v)))
    BY <1>2, Zenon DEF Resized, WithSize, HeldBy, UsersOf
  <2>2. \A S : {} \cup S = S
    BY Zenon
  <2> QED BY <2>1, <2>2, Zenon
<1> QED BY <1>1, <1>2

\* The surfaces surf are those there are, but with b attached to v.
Attaches(surf, v, b) ==
  /\ surf[v].attached = b /\ \A w \in Windows \ {v} : surf[w] = surface[w]
  /\ \A w \in Windows : surf[w].readCtx = surface[w].readCtx /\ surf[w].drawCtx = surface[w].drawCtx

\* WindowSurface::resize: a window has the new size or is lost, and so is all
\* that is current together with it.
LEMMA ResizeKeepsDraws ==
  ASSUME IInv, DrawInv, NEW t \in Threads, NEW v \in Windows, NEW b, NEW surf, Attaches(surf, v, b),
         pbuffer' \in Resized(t, v, SizeOf[b])
  PROVE  PbufferTable(pbuffer') /\ Draws(info, surf, LostIn(pbuffer')) /\ Sized(surf, pbuffer')
<1> DEFINE L == LostIn(pbuffer)
<1>1. Current(info, pc) /\ info \in [Threads -> InfoType]
  BY DEF IInv, CurrentInv, TypeInv
<1>2. \A u \in Threads : info[u].ctx # None => info[u].draw \in Windows /\ info[u].read \in Windows
  BY <1>1, CurrentWindows, Zenon
<1>3. Draws(info, surf, L)
  <2>1. Draws(info, surface, L)
    BY Zenon DEF DrawInv
  <2> HIDE DEF L
  <2> QED BY <1>2, <2>1, DrawsSameContexts, Zenon DEF Attaches
<1>4. \A u \in UsersOf(v) : u \in Threads /\ info[u].draw \in Windows /\ info[u].read \in Windows
  <2>1. v # None
    BY DEF Windows, None
  <2>2. \A u \in UsersOf(v) : u \in Threads /\ info[u].ctx # None
    BY <1>1, <2>1, Zenon DEF UsersOf, Current
  <2> QED BY <1>2, <2>2, Zenon
<1>5. PbufferTable(pbuffer) /\ Sized(surface, pbuffer)
  BY Zenon DEF DrawInv
<1>6. CASE pbuffer' = pbuffer /\ pbuffer[v].size = SizeOf[b]
  <2>1. Sized(surf, pbuffer)
    BY <1>5, <1>6, Zenon DEF Sized, Attaches
  <2> QED BY <1>3, <1>5, <1>6, <2>1, Zenon
<1>7. CASE pbuffer' = Lose(WithSize(v, SizeOf[b]), {} \cup HeldBy(info, UsersOf(v) \ {t}))
  <2> DEFINE U == UsersOf(v) \ {t}
             X == {} \cup HeldBy(info, U)
             mid == WithSize(v, SizeOf[b])
  <2>1. X \subseteq Windows
    BY <1>4 DEF HeldBy
  <2>2. /\ LostIn(mid) = L /\ mid[v].size = SizeOf[b]
        /\ \A w \in Windows \ {v} : mid[w] = pbuffer[w]
    BY <1>5, SizeChanges, Zenon
  <2>3. U \in SUBSET Threads
    BY DEF UsersOf
  <2>4. Draws(info, surf, L \cup X)
    <3> HIDE DEF U, L
    <3>1. \A u \in Threads : info[u].ctx # None /\ (info[u].draw \in {} \/ info[u].read \in {}) => u \in U
      BY Zenon
    <3> QED BY <1>3, <2>3, <3>1, LosesWhatIsHeld, Zenon
  <2> HIDE DEF X, mid, L
  <2>5. /\ PbufferTable(Lose(mid, X)) /\ LostIn(Lose(mid, X)) = LostIn(mid) \cup (X \cap Windows)
        /\ \A w \in Windows : Lose(mid, X)[w].size = mid[w].size
    BY LoseLoses, Zenon
  <2>6. pbuffer' = Lose(mid, X)
    BY <1>7, Zenon DEF mid, X
  <2>7. X \cap Windows = X
    BY <2>1, Zenon
  <2>8. LostIn(pbuffer') = L \cup X
    BY <2>2, <2>5, <2>6, <2>7, Zenon
  <2>9. Sized(surf, pbuffer')
    <3>1. ASSUME NEW w \in Windows, w \notin L \cup X, surf[w].attached # None
          PROVE  pbuffer'[w].size = SizeOf[surf[w].attached]
      <4>1. pbuffer'[w].size = mid[w].size
        BY <2>5, <2>6, Zenon
      <4>2. CASE w = v
        BY <2>2, <4>1, <4>2, Zenon DEF Attaches
      <4>3. CASE w # v
        <5>1. surf[w] = surface[w] /\ mid[w] = pbuffer[w]
          BY <2>2, <4>3, Zenon DEF Attaches
        <5>2. pbuffer[w].size = SizeOf[surface[w].attached]
          BY <1>5, <3>1, <5>1, Zenon DEF Sized, L
        <5> QED BY <4>1, <5>1, <5>2, Zenon
      <4> QED BY <4>2, <4>3
    <3> QED BY <2>8, <3>1, Zenon DEF Sized
  <2> QED BY <2>4, <2>5, <2>6, <2>8, <2>9, Zenon
<1>8. CASE pbuffer' = Lose(pbuffer, {v} \cup HeldBy(info, UsersOf(v)))
  <2> DEFINE U == UsersOf(v)
             X == {v} \cup HeldBy(info, U)
  <2>1. X \subseteq Windows
    BY <1>4 DEF HeldBy
  <2>2. U \in SUBSET Threads
    BY DEF UsersOf
  <2>3. \A u \in Threads : info[u].ctx # None /\ (info[u].draw \in {v} \/ info[u].read \in {v}) => u \in U
    BY Zenon DEF UsersOf
  <2>4. Draws(info, surf, L \cup X)
    <3> HIDE DEF U, L
    <3> QED BY <1>3, <2>2, <2>3, LosesWhatIsHeld, Zenon
  <2>5. v \in X
    BY Zenon
  <2> HIDE DEF X, L
  <2>6. /\ PbufferTable(Lose(pbuffer, X)) /\ LostIn(Lose(pbuffer, X)) = LostIn(pbuffer) \cup (X \cap Windows)
        /\ \A w \in Windows : Lose(pbuffer, X)[w].size = pbuffer[w].size
    BY LoseLoses, Zenon
  <2>7. pbuffer' = Lose(pbuffer, X)
    BY <1>8, Zenon DEF X
  <2>8. X \cap Windows = X
    BY <2>1, Zenon
  <2>9. LostIn(pbuffer') = L \cup X
    BY <2>6, <2>7, <2>8, Zenon DEF L
  <2>10. Sized(surf, pbuffer')
    <3>1. ASSUME NEW w \in Windows, w \notin L \cup X, surf[w].attached # None
          PROVE  pbuffer'[w].size = SizeOf[surf[w].attached]
      <4>1. pbuffer'[w].size = pbuffer[w].size
        BY <2>6, <2>7, Zenon
      <4>2. surf[w] = surface[w]
        BY <2>5, <3>1, Zenon DEF Attaches
      <4>3. pbuffer[w].size = SizeOf[surface[w].attached]
        BY <1>5, <3>1, <4>2, Zenon DEF Sized, L
      <4> QED BY <4>1, <4>2, <4>3, Zenon
    <3> QED BY <2>9, <3>1, Zenon DEF Sized
  <2> QED BY <2>4, <2>6, <2>7, <2>9, <2>10, Zenon
<1> QED BY <1>6, <1>7, <1>8, ResizeOutcomes, Zenon

\* setWindowSurfaceColorBuffer attaches the buffer and resizes the window to it.
LEMMA SetColorBufferKeepsDraws ==
  ASSUME IInv, IInv', DrawInv, NEW t \in Threads, NEW hw, NEW h, SetWindowSurfaceColorBuffer(t, hw, h)
  PROVE  DrawInv'
<1> DEFINE v == windows[hw].win
           b == colorbuffers[h].cb
           wins == [windows EXCEPT ![hw].cb = h]
           surf == [surface EXCEPT ![v].attached = b]
<1>1. /\ hw \in DOMAIN windows /\ Becomes(t, contexts, wins, info, surf)
      /\ pbuffer' \in Resized(t, v, SizeOf[b])
  BY Zenon DEF SetWindowSurfaceColorBuffer
<1>2. v \in Windows /\ SurfaceTable(surface)
  BY <1>1 DEF IInv, TypeInv, WindowTable, WindowRecord
<1> HIDE DEF v, b, wins
<1>3. surf[v] = [surface[v] EXCEPT !.attached = b] /\ \A w \in Windows \ {v} : surf[w] = surface[w]
  BY <1>2 DEF SurfaceTable
<1> HIDE DEF surf
<1>4. surf[v].attached = b /\ surf[v].readCtx = surface[v].readCtx /\ surf[v].drawCtx = surface[v].drawCtx
  <2>1. surface[v] = [attached |-> surface[v].attached, readCtx |-> surface[v].readCtx,
                      drawCtx |-> surface[v].drawCtx]
    BY <1>2 DEF SurfaceTable, SurfaceRecord
  <2> QED BY <1>3, <2>1
<1>5. Attaches(surf, v, b)
  BY <1>3, <1>4, Zenon DEF Attaches
<1>6. PbufferTable(pbuffer') /\ Draws(info, surf, LostIn(pbuffer')) /\ Sized(surf, pbuffer')
  BY <1>1, <1>2, <1>5, ResizeKeepsDraws, Zenon
<1> QED BY <1>1, <1>6, BecomesKeepsDraws, Zenon

\* The other steps leave windows, threads and pbuffers alone.
LEMMA QuietStepKeepsDraws ==
  ASSUME DrawInv, UNCHANGED <<windows, surface, info, pbuffer>>
  PROVE  DrawInv'
BY Zenon DEF DrawInv, Cleared

\* Every step keeps what the threads draw to.
LEMMA NextDrawInv ==
  ASSUME IInv, IInv', DrawInv, [Next]_vars
  PROVE  DrawInv'
<1>1. CASE UNCHANGED vars
  BY <1>1, QuietStepKeepsDraws, Zenon DEF vars
<1>2. ASSUME NEW t \in Threads, ClientStep(t) PROVE DrawInv'
  <2>1. CASE CreateRenderContext(t)
    BY <2>1, TableStepsKeepDraws, Zenon
  <2>2. CASE CreateWindowSurface(t)
    BY <2>2, CreateWindowKeepsDraws, Zenon
  <2>3. CASE CreateColorBuffer(t)
    BY <2>3, QuietStepKeepsDraws, Zenon DEF CreateColorBuffer
  <2>4. CASE UnbindContext(t)
    BY <2>4, UnboundKeepsDraws, Zenon DEF UnbindContext
  <2>5. ASSUME NEW h \in Handles, DestroyRenderContext(t, h) \/ DestroyWindowSurface(t, h) PROVE DrawInv'
    BY <2>5, TableStepsKeepDraws, Zenon
  <2>6. ASSUME NEW h \in Handles, OpenColorBuffer(t, h) \/ CloseColorBuffer(t, h) PROVE DrawInv'
    BY <2>6, QuietStepKeepsDraws, Zenon DEF OpenColorBuffer, CloseColorBuffer
  <2>7. ASSUME NEW h \in Handles, NEW w \in Handles, NEW r \in Handles, BindContext(t, h, w, r) PROVE DrawInv'
    BY <2>7, BindKeepsDraws, Zenon
  <2>8. ASSUME NEW w \in Handles, NEW h \in Handles, SetWindowSurfaceColorBuffer(t, w, h) PROVE DrawInv'
    BY <2>8, SetColorBufferKeepsDraws, Zenon
  <2> QED BY <1>2, <2>1, <2>2, <2>3, <2>4, <2>5, <2>6, <2>7, <2>8, Zenon DEF ClientStep
<1>3. ASSUME NEW t \in Threads, ExitStep(t) PROVE DrawInv'
  <2>1. CASE ThreadUnbinds(t)
    BY <2>1, UnboundKeepsDraws, Zenon DEF ThreadUnbinds
  <2>2. CASE DrainWindowSurface(t) \/ DrainRenderContext(t)
    BY <2>2, TableStepsKeepDraws, Zenon
  <2> QED BY <1>3, <2>1, <2>2, Zenon DEF ExitStep
<1> QED BY <1>1, <1>2, <1>3 DEF Next

\* Initially nothing is current and nothing is attached.
LEMMA InitDrawInv == Init => DrawInv
<1> SUFFICES ASSUME Init PROVE DrawInv
  OBVIOUS
<1>1. \A w \in Windows : pbuffer[w] = [size |-> 0, lost |-> FALSE] /\ surface[w] = FreshSurface
  BY DEF Init
<1>2. PbufferTable(pbuffer)
  BY DEF Init, PbufferTable, PbufferRecord
<1>3. \A w \in Windows : surface[w].attached = None
  BY <1>1 DEF FreshSurface
<1>4. \A u \in Threads : info[u].ctx = None
  BY DEF Init, FreshInfo
<1>5. Draws(info, surface, LostIn(pbuffer))
  BY <1>4, Zenon DEF Draws, BothLost, Whole
<1> QED BY <1>2, <1>3, <1>5, Zenon DEF DrawInv, Sized, Cleared

\* A thread that draws to a window can flush it by every handle of the window, as
\* long as the window has an area and no pbuffer was lost: bindContext,
\* WindowSurface::bind and WindowSurface::resize agree on what is current and on
\* the size that flushColorBuffer compares.
THEOREM DrawingThreadsFlush == Spec => []CurrentSurfaceFlushes
<1>1. ASSUME IInv, DrawInv PROVE CurrentSurfaceFlushes
  <2> SUFFICES ASSUME NEW t \in Threads, Intact(t)
               PROVE  /\ \A h \in DOMAIN windows :
                           windows[h].win = info[t].draw /\ pbuffer[info[t].draw].size # 0 =>
                             FlushWindowSurfaceColorBuffer(t, h)
                      /\ surface[info[t].draw].drawCtx = info[t].ctx
                      /\ surface[info[t].read].readCtx = info[t].ctx
    BY Zenon DEF CurrentSurfaceFlushes
  <2> DEFINE L == LostIn(pbuffer)
             d == info[t].draw
  <2>1. Whole(info, L, t) /\ \A u \in Threads : Intact(u) => Whole(info, L, u)
    BY <1>1, WholeIsIntact, Zenon
  <2>2. /\ surface[d].drawCtx = info[t].ctx /\ surface[info[t].read].readCtx = info[t].ctx
        /\ \A u \in Threads \ {t} : Apart(info, t, u) /\ (Whole(info, L, u) => info[u].ctx # info[t].ctx)
    BY <1>1, <2>1, Zenon DEF DrawInv, Draws
  <2>3. info[t].ctx # None /\ d \notin L
    BY <2>1, Zenon DEF Whole
  <2>4. MakesCurrent(t, info[t].ctx, d, d)
    BY <2>1, <2>2, Zenon DEF MakesCurrent, Apart
  <2>5. d \in Windows
    <3>1. Current(info, pc) /\ info \in [Threads -> InfoType]
      BY <1>1 DEF IInv, CurrentInv, TypeInv
    <3> QED BY <2>3, <3>1, CurrentWindows, Zenon
  <2>6. surface[d].attached # None => pbuffer[d].size = SizeOf[surface[d].attached]
    BY <1>1, <2>3, <2>5, Zenon DEF DrawInv, Sized
  <2>7. pbuffer[d].size # 0 => FlushColorBuffer(t, d)
    BY <2>2, <2>3, <2>4, <2>6, Zenon DEF FlushColorBuffer
  <2> QED BY <2>2, <2>7, Zenon DEF FlushWindowSurfaceColorBuffer
<1>2. IInv /\ IInv' /\ DrawInv /\ [Next]_vars => DrawInv'
  BY NextDrawInv
<1> QED BY <1>1, <1>2, InitDrawInv, Invariance, PTL DEF Spec
=============================================================================
