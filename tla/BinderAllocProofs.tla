------------------------- MODULE BinderAllocProofs -------------------------
(***************************************************************************)
(* Proofs about the allocator of the binder driver, for pages and headers  *)
(* of any size, areas of any length and any sizes of buffers.              *)
(***************************************************************************)
EXTENDS BinderFreeProofs

\* A buffer that was taken.
Busy(at, size, async) == [at |-> at, free |-> FALSE, size |-> size, async |-> async]
Share(size, async) == IF async THEN size + Header ELSE 0

\* A free buffer is taken, as a whole or in part.
Takes(bufs, i, size, async, used) ==
  /\ Tiled(bufs) /\ Joined(bufs) /\ Unclaimed(bufs)
  /\ i \in DOMAIN bufs /\ bufs[i].free /\ size \in Nat /\ async \in BOOLEAN
  /\ Data(bufs[i]) + size <= EndOf(bufs, i)
  /\ used = [bufs EXCEPT ![i] = Busy(bufs[i].at, size, async)]

\* The list after that, before the rest is split off.
LEMMA TakenList ==
  ASSUME NEW bufs, NEW i, NEW size, NEW async, NEW used, Takes(bufs, i, size, async, used)
  PROVE  /\ used \in Seq(Buffer) /\ Len(used) = Len(bufs) /\ DOMAIN used = DOMAIN bufs
         /\ DOMAIN bufs = 1 .. Len(bufs) /\ Len(bufs) \in Nat /\ i \in 1 .. Len(bufs)
         /\ used[i] = Busy(bufs[i].at, size, async) /\ \A j \in DOMAIN bufs \ {i} : used[j] = bufs[j]
         /\ \A j \in DOMAIN bufs : used[j].at = bufs[j].at /\ Data(used[j]) = Data(bufs[j])
                                   /\ EndOf(used, j) = EndOf(bufs, j)
<1>1. /\ bufs \in Seq(Buffer) /\ i \in DOMAIN bufs /\ size \in Nat /\ async \in BOOLEAN
      /\ used = [bufs EXCEPT ![i] = Busy(bufs[i].at, size, async)]
  BY DEF Takes, Tiled
<1>2. bufs[i] \in Buffer /\ bufs[i].at \in Nat
  BY Neighbours DEF Takes, Buffer
<1>3. Busy(bufs[i].at, size, async) \in Buffer
  BY <1>1, <1>2 DEF Busy, Buffer
<1>4. /\ used \in Seq(Buffer) /\ Len(used) = Len(bufs) /\ DOMAIN used = DOMAIN bufs
      /\ DOMAIN bufs = 1 .. Len(bufs) /\ Len(bufs) \in Nat /\ i \in 1 .. Len(bufs)
      /\ used[i] = Busy(bufs[i].at, size, async) /\ \A j \in DOMAIN bufs \ {i} : used[j] = bufs[j]
  BY <1>1, <1>3
<1>5. \A j \in DOMAIN bufs : used[j].at = bufs[j].at /\ Data(used[j]) = Data(bufs[j])
  BY <1>4 DEF Busy, Data
<1>6. \A j \in DOMAIN bufs : j # Len(bufs) => j + 1 \in DOMAIN bufs
  BY <1>4
<1> QED BY <1>4, <1>5, <1>6 DEF EndOf

\* The buffers lie one behind the other as before.
LEMMA TakenInOrder ==
  ASSUME NEW bufs, NEW i, NEW size, NEW async, NEW used, Takes(bufs, i, size, async, used)
  PROVE  /\ \A j, k \in DOMAIN used : j < k => Data(used[j]) + used[j].size <= used[k].at
         /\ \A j \in DOMAIN used : Data(used[j]) + used[j].size <= AreaSize
         /\ \A j \in DOMAIN used \ {i} : ~used[j].free => EndOf(used, j) <= Data(used[j]) + used[j].size + Header
         /\ used # <<>> /\ used[1].at = 0
<1>1. /\ DOMAIN used = DOMAIN bufs /\ Len(used) = Len(bufs) /\ i \in DOMAIN bufs /\ Tiled(bufs) /\ DOMAIN bufs = 1 .. Len(bufs)
      /\ Len(bufs) \in Nat /\ used[i].size = size /\ size \in Nat /\ \A j \in DOMAIN bufs \ {i} : used[j] = bufs[j]
      /\ \A j \in DOMAIN bufs : used[j].at = bufs[j].at /\ Data(used[j]) = Data(bufs[j])
                                /\ EndOf(used, j) = EndOf(bufs, j)
  <2>1. used[i].size = size /\ size \in Nat /\ Tiled(bufs)
    BY TakenList DEF Takes, Busy
  <2> QED BY <2>1, TakenList, SMTT(20)
<1>2. /\ Data(bufs[i]) \in Nat /\ Data(bufs[i]) + size <= EndOf(bufs, i) /\ EndOf(bufs, i) \in Nat
      /\ EndOf(bufs, i) <= AreaSize /\ \A k \in DOMAIN bufs : i < k => EndOf(bufs, i) <= bufs[k].at
      /\ AreaSize \in Nat
  BY <1>1, Neighbours, AreaEndsWithPage, Zenon DEF Takes
<1>3. \A j \in DOMAIN bufs : bufs[j].at \in Nat
  BY <1>1, Neighbours DEF Buffer
<1>4. ASSUME NEW j \in DOMAIN used, NEW k \in DOMAIN used, j < k
      PROVE  Data(used[j]) + used[j].size <= used[k].at
  <2>1. CASE j = i
    BY <1>1, <1>2, <1>3, <1>4, <2>1, SMTT(20)
  <2>2. CASE j # i
    BY <1>1, <1>4, <2>2 DEF Tiled
  <2> QED BY <2>1, <2>2
<1>5. ASSUME NEW j \in DOMAIN used PROVE Data(used[j]) + used[j].size <= AreaSize
  <2>1. CASE j = i
    BY <1>1, <1>2, <2>1
  <2>2. CASE j # i
    BY <1>1, <2>2 DEF Tiled
  <2> QED BY <2>1, <2>2
<1>6. ASSUME NEW j \in DOMAIN used \ {i}, ~used[j].free
      PROVE  EndOf(used, j) <= Data(used[j]) + used[j].size + Header
  BY <1>1, <1>6 DEF Tiled
<1>7. used # <<>> /\ used[1].at = 0
  <2>1. bufs # <<>> /\ bufs[1].at = 0 /\ bufs \in Seq(Buffer)
    BY <1>1 DEF Tiled
  <2>2. 1 \in DOMAIN bufs
    BY <1>1, <2>1
  <2> QED BY <1>1, <2>1, <2>2
<1> QED BY <1>4, <1>5, <1>6, <1>7

\* What it is on, and what it takes of the space for one-way calls.
LEMMA TakenNeeds ==
  ASSUME NEW bufs, NEW i, NEW size, NEW async, NEW used, Takes(bufs, i, size, async, used)
  PROVE  /\ \A p \in Nat : On(used, p) <=> On(bufs, p) \/ DataOn(used[i], p)
         /\ Unclaimed(used)
         /\ Total(Weights(used)) = Total(Weights(bufs)) + Share(size, async)
         /\ Share(size, async) \in Int /\ Total(Weights(bufs)) \in Int
<1>1. /\ used \in Seq(Buffer) /\ DOMAIN used = DOMAIN bufs /\ i \in DOMAIN bufs
      /\ used[i] = Busy(bufs[i].at, size, async) /\ \A j \in DOMAIN bufs \ {i} : used[j] = bufs[j]
      /\ bufs \in Seq(Buffer) /\ bufs[i].free /\ Unclaimed(bufs) /\ size \in Nat /\ async \in BOOLEAN
  BY TakenList DEF Takes, Tiled
<1>2. ASSUME NEW p \in Nat PROVE On(used, p) <=> On(bufs, p) \/ DataOn(used[i], p)
  <2>1. (HeaderOn(used[i], p) <=> HeaderOn(bufs[i], p)) /\ ~DataOn(bufs[i], p)
    BY <1>1 DEF HeaderOn, DataOn, Data, Busy
  <2> QED BY <1>1, <2>1 DEF On
<1>3. Unclaimed(used)
  BY <1>1 DEF Unclaimed, Busy
<1>4. Share(size, async) \in Int
  BY <1>1, LayoutAssumption DEF Share
<1> DEFINE w == Weights(bufs)
           x == Share(size, async)
<1>5. w \in Seq(Int) /\ i \in DOMAIN w /\ w[i] = 0
  BY <1>1, WeightsAre, Zenon DEF Held, Unclaimed
<1>6. Weights(used) = [w EXCEPT ![i] = x]
  <2>1. /\ Weights(used) = [j \in DOMAIN bufs |-> Weights(used)[j]]
        /\ w = [j \in DOMAIN bufs |-> w[j]]
    BY <1>1 DEF Weights
  <2>2. Weights(used)[i] = x
    BY <1>1 DEF Weights, Busy, Share
  <2>3. \A j \in DOMAIN bufs \ {i} : Weights(used)[j] = w[j]
    BY <1>1 DEF Weights
  <2> HIDE DEF w, x
  <2> QED BY <1>1, <2>1, <2>2, <2>3
<1>7. x \in Int
  BY <1>4
<1> HIDE DEF w, x
<1>8. Total([w EXCEPT ![i] = x]) = Total(w) - w[i] + x
  BY <1>5, <1>7, TotalReplaced
<1>9. Total(w) \in Int
  BY <1>5, SumsExist, TotalIs
<1>10. Total(Weights(used)) = Total(w) + x
  BY <1>5, <1>6, <1>7, <1>8, <1>9
<1> QED BY <1>2, <1>3, <1>4, <1>9, <1>10 DEF w, x

\* A buffer that is taken as a whole: the list tiles the area again.
LEMMA WholeIsTaken ==
  ASSUME NEW bufs, NEW i, NEW size, NEW async, NEW used, Takes(bufs, i, size, async, used),
         EndOf(bufs, i) <= Data(bufs[i]) + size + Header
  PROVE  Tiled(used) /\ Joined(used)
<1>1. /\ used \in Seq(Buffer) /\ DOMAIN used = DOMAIN bufs /\ i \in DOMAIN bufs /\ ~used[i].free
      /\ used[i].size = size /\ \A j \in DOMAIN bufs \ {i} : used[j] = bufs[j]
      /\ Data(used[i]) = Data(bufs[i]) /\ EndOf(used, i) = EndOf(bufs, i)
  <2>1. used[i] = Busy(bufs[i].at, size, async)
    BY TakenList
  <2>2. ~used[i].free /\ used[i].size = size
    BY <2>1 DEF Busy
  <2> QED BY <2>2, TakenList
<1>2. EndOf(used, i) <= Data(used[i]) + used[i].size + Header
  BY <1>1
<1>3. Tiled(used)
  BY <1>1, <1>2, TakenInOrder DEF Tiled
<1>4. Joined(bufs) /\ DOMAIN bufs = 1 .. Len(bufs) /\ Len(bufs) \in Nat
  BY TakenList DEF Takes
<1>5. ASSUME NEW j \in DOMAIN used, j > 1 PROVE ~(used[j - 1].free /\ used[j].free)
  <2>1. j - 1 \in DOMAIN bufs /\ ~(bufs[j - 1].free /\ bufs[j].free)
    BY <1>1, <1>4, <1>5 DEF Joined
  <2> QED BY <1>1, <2>1
<1> QED BY <1>3, <1>5 DEF Joined

\* A buffer of which a part is taken, and the rest of it is a buffer of its own.
Splits(bufs, i, size, async, used, split) ==
  /\ Takes(bufs, i, size, async, used)
  /\ Data(bufs[i]) + size + Header < EndOf(bufs, i)
  /\ split = Inserted(used, i + 1, Idle(Data(bufs[i]) + size))

\* The list after that.
LEMMA SplitList ==
  ASSUME NEW bufs, NEW i, NEW size, NEW async, NEW used, NEW split,
         Splits(bufs, i, size, async, used, split)
  PROVE  /\ split \in Seq(Buffer) /\ Len(split) = Len(bufs) + 1 /\ DOMAIN split = 1 .. Len(split)
         /\ i + 1 \in DOMAIN split /\ split[i + 1] = Idle(Data(bufs[i]) + size)
         /\ \A k \in DOMAIN split : /\ k < i + 1 => k \in DOMAIN used /\ split[k] = used[k]
                                    /\ k > i + 1 => k - 1 \in DOMAIN used /\ split[k] = used[k - 1]
         /\ Removed(split, i + 1) = used
         /\ Len(bufs) \in Nat /\ i \in 1 .. Len(bufs) /\ DOMAIN used = 1 .. Len(bufs)
         /\ Len(used) = Len(bufs) /\ Idle(Data(bufs[i]) + size) \in Buffer
         /\ Data(bufs[i]) \in Nat /\ size \in Nat
<1>1. /\ Takes(bufs, i, size, async, used)
      /\ split = Inserted(used, i + 1, Idle(Data(bufs[i]) + size))
  BY DEF Splits
<1>2. /\ used \in Seq(Buffer) /\ Len(used) = Len(bufs) /\ DOMAIN used = 1 .. Len(bufs)
      /\ Len(bufs) \in Nat /\ i \in 1 .. Len(bufs) /\ i + 1 \in 1 .. Len(used) + 1
  BY <1>1, TakenList
<1>3. Data(bufs[i]) \in Nat /\ size \in Nat
  BY <1>1, Neighbours DEF Takes
<1>4. Idle(Data(bufs[i]) + size) \in Buffer
  BY <1>3 DEF Idle, Buffer
<1> DEFINE x == Idle(Data(bufs[i]) + size)
           h == i + 1
<1>5. split = Inserted(used, h, x) /\ x \in Buffer /\ h \in 1 .. Len(used) + 1
  BY <1>1, <1>2, <1>4
<1> HIDE DEF x, h
<1>6. /\ split \in Seq(Buffer) /\ Len(split) = Len(used) + 1 /\ DOMAIN split = 1 .. Len(split)
      /\ h \in DOMAIN split /\ split[h] = x
      /\ \A k \in DOMAIN split : /\ k < h => k \in DOMAIN used /\ split[k] = used[k]
                                 /\ k > h => k - 1 \in DOMAIN used /\ split[k] = used[k - 1]
      /\ Removed(split, h) = used
  <2>1. used \in Seq(Buffer)
    BY <1>2
  <2> HIDE DEF Buffer
  <2> QED BY <1>5, <2>1, InsertedIs
<1> QED BY <1>2, <1>3, <1>4, <1>6 DEF x, h

\* It tiles the area.
LEMMA SplitIsTiled ==
  ASSUME NEW bufs, NEW i, NEW size, NEW async, NEW used, NEW split,
         Splits(bufs, i, size, async, used, split)
  PROVE  Tiled(split)
<1> DEFINE d == Data(bufs[i])
           e == EndOf(bufs, i)
<1>1. /\ split \in Seq(Buffer) /\ Len(split) = Len(bufs) + 1 /\ DOMAIN split = 1 .. Len(split)
      /\ i + 1 \in DOMAIN split /\ split[i + 1] = Idle(d + size)
      /\ \A k \in DOMAIN split : /\ k < i + 1 => k \in DOMAIN used /\ split[k] = used[k]
                                 /\ k > i + 1 => k - 1 \in DOMAIN used /\ split[k] = used[k - 1]
      /\ Len(bufs) \in Nat /\ i \in 1 .. Len(bufs) /\ DOMAIN used = 1 .. Len(bufs)
      /\ Len(used) = Len(bufs) /\ d \in Nat /\ size \in Nat
  BY SplitList
<1>2. Takes(bufs, i, size, async, used) /\ d + size + Header < e /\ Tiled(bufs) /\ i \in DOMAIN bufs
  BY DEF Splits, Takes
<1>3. /\ \A j, k \in DOMAIN used : j < k => Data(used[j]) + used[j].size <= used[k].at
      /\ \A j \in DOMAIN used : Data(used[j]) + used[j].size <= AreaSize
      /\ \A j \in DOMAIN used \ {i} : ~used[j].free => EndOf(used, j) <= Data(used[j]) + used[j].size + Header
      /\ used # <<>> /\ used[1].at = 0
  BY <1>2, TakenInOrder
<1>4. /\ e \in Nat /\ e <= AreaSize /\ \A k \in DOMAIN bufs : i < k => e <= bufs[k].at
      /\ bufs[i].at \in Nat /\ d = bufs[i].at + Header /\ Header \in Nat /\ AreaSize \in Nat
  BY <1>2, Neighbours, AreaEndsWithPage DEF Buffer
<1>5. /\ DOMAIN used = DOMAIN bufs /\ used[i] = Busy(bufs[i].at, size, async) /\ used \in Seq(Buffer)
      /\ \A j \in DOMAIN bufs : used[j].at = bufs[j].at
  BY <1>2, TakenList
<1>6. /\ Data(split[i + 1]) = d + size + Header /\ split[i + 1].size = 0 /\ split[i + 1].at = d + size
      /\ split[i + 1].free
  BY <1>1 DEF Idle, Data
<1>7. Data(used[i]) = d /\ used[i].size = size /\ used[i].at = bufs[i].at
  BY <1>5 DEF Busy, Data
<1>8. \A j \in DOMAIN used : used[j].at \in Nat /\ used[j].size \in Nat /\ Data(used[j]) \in Nat
  <2>1. \A j \in DOMAIN used : used[j] \in Buffer
    BY <1>1, <1>5
  <2>2. Header \in Nat
    BY <1>4
  <2> QED BY <2>1, <2>2 DEF Buffer, Data
<1> HIDE DEF d, e
<1>0. /\ d \in Nat /\ size \in Nat /\ Header \in Nat /\ e \in Nat /\ i \in Nat /\ AreaSize \in Nat
      /\ d = bufs[i].at + Header /\ bufs[i].at \in Nat /\ d + size + Header < e /\ e <= AreaSize
  BY <1>1, <1>2, <1>4
<1>9. \A j \in DOMAIN used : j < i + 1 => Data(used[j]) + used[j].size <= d + size
  <2> SUFFICES ASSUME NEW j \in DOMAIN used, j < i + 1
               PROVE  Data(used[j]) + used[j].size <= d + size
    OBVIOUS
  <2>1. CASE j = i
    BY <1>7, <2>1, <1>1
  <2>2. CASE j < i
    <3>1. Data(used[j]) + used[j].size <= used[i].at /\ i \in DOMAIN used
      BY <1>1, <1>3, <2>2
    <3>2. Data(used[j]) \in Nat /\ used[j].size \in Nat
      BY <1>8
    <3> QED BY <1>0, <1>7, <3>1, <3>2
  <2> QED BY <2>1, <2>2, <1>1
<1>10. \A j \in DOMAIN used : j > i => d + size + Header <= used[j].at
  <2> SUFFICES ASSUME NEW j \in DOMAIN used, j > i PROVE d + size + Header <= used[j].at
    OBVIOUS
  <2>1. j \in DOMAIN bufs /\ i < j /\ used[j].at = bufs[j].at /\ used[j].at \in Nat
    BY <1>1, <1>5, <1>8
  <2>2. e <= used[j].at
    BY <1>4, <2>1
  <2> QED BY <1>0, <2>1, <2>2
<1>11. ASSUME NEW j \in DOMAIN split, NEW k \in DOMAIN split, j < k
       PROVE  Data(split[j]) + split[j].size <= split[k].at
  <2>1. CASE j < i + 1 /\ k < i + 1
    BY <1>1, <1>3, <1>11, <2>1
  <2>2. CASE j < i + 1 /\ k = i + 1
    BY <1>1, <1>6, <1>9, <2>2
  <2>3. CASE j < i + 1 /\ k > i + 1
    <3>1. j \in DOMAIN used /\ k - 1 \in DOMAIN used /\ j < k - 1 /\ split[j] = used[j] /\ split[k] = used[k - 1]
      BY <1>1, <2>3
    <3> QED BY <1>3, <3>1
  <2>4. CASE j = i + 1 /\ k > i + 1
    <3>1. k - 1 \in DOMAIN used /\ k - 1 > i /\ split[k] = used[k - 1]
      BY <1>1, <2>4
    <3>2. d + size + Header <= used[k - 1].at
      BY <1>10, <3>1
    <3> QED BY <1>0, <1>6, <2>4, <3>1, <3>2
  <2>5. CASE j > i + 1 /\ k > i + 1
    <3>1. j - 1 \in DOMAIN used /\ k - 1 \in DOMAIN used /\ j - 1 < k - 1 /\ split[j] = used[j - 1] /\ split[k] = used[k - 1]
      BY <1>1, <1>11, <2>5
    <3> QED BY <1>3, <3>1
  <2> QED BY <1>1, <1>11, <2>1, <2>2, <2>3, <2>4, <2>5
<1>12. ASSUME NEW j \in DOMAIN split PROVE Data(split[j]) + split[j].size <= AreaSize
  <2>1. CASE j < i + 1
    BY <1>1, <1>3, <2>1
  <2>2. CASE j = i + 1
    BY <1>0, <1>6, <2>2
  <2>3. CASE j > i + 1
    BY <1>1, <1>3, <2>3
  <2> QED BY <1>1, <2>1, <2>2, <2>3
<1>13. ASSUME NEW j \in DOMAIN split, ~split[j].free
       PROVE  EndOf(split, j) <= Data(split[j]) + split[j].size + Header
  <2>1. CASE j < i
    <3>1. /\ j \in DOMAIN used /\ j + 1 \in DOMAIN split /\ split[j] = used[j] /\ split[j + 1] = used[j + 1]
          /\ j # Len(split) /\ j # Len(used) /\ j # i
      BY <1>1, <2>1
    <3>2. EndOf(split, j) = EndOf(used, j)
      BY <3>1 DEF EndOf
    <3> QED BY <1>3, <1>13, <3>1, <3>2
  <2>2. CASE j = i
    <3>1. j # Len(split) /\ split[j] = used[i]
      BY <1>1, <2>2, SMTT(20)
    <3>2. EndOf(split, j) = d + size
      BY <1>6, <2>2, <3>1 DEF EndOf
    <3> QED BY <1>1, <1>4, <1>7, <3>1, <3>2
  <2>3. CASE j = i + 1
    BY <1>6, <1>13, <2>3
  <2>4. CASE j > i + 1
    <3>1. /\ j - 1 \in DOMAIN used \ {i} /\ split[j] = used[j - 1] /\ (j = Len(split) <=> j - 1 = Len(used))
          /\ (j # Len(split) => j + 1 \in DOMAIN split /\ split[j + 1] = used[j - 1 + 1])
      <4>0. /\ Len(split) = Len(bufs) + 1 /\ Len(used) = Len(bufs) /\ Len(bufs) \in Nat /\ i \in Nat
            /\ j \in 1 .. Len(split) /\ DOMAIN split = 1 .. Len(split)
        BY <1>1
      <4>1. j - 1 \in DOMAIN used \ {i} /\ split[j] = used[j - 1] /\ (j = Len(split) <=> j - 1 = Len(used))
        <5>1. j - 1 \in DOMAIN used /\ split[j] = used[j - 1]
          BY <1>1, <2>4
        <5> QED BY <4>0, <5>1, <2>4
      <4>2. ASSUME j # Len(split) PROVE j + 1 \in DOMAIN split /\ split[j + 1] = used[j - 1 + 1]
        <5>1. j + 1 \in DOMAIN split /\ j + 1 > i + 1 /\ j + 1 - 1 = j - 1 + 1
          BY <4>0, <2>4, <4>2
        <5>2. split[j + 1] = used[j + 1 - 1]
          BY <1>1, <5>1
        <5> QED BY <5>1, <5>2
      <4> QED BY <4>1, <4>2
    <3>2. EndOf(split, j) = EndOf(used, j - 1)
      BY <3>1 DEF EndOf
    <3> QED BY <1>3, <1>13, <3>1, <3>2
  <2> QED BY <1>1, <2>1, <2>2, <2>3, <2>4
<1>14. split # <<>> /\ split[1].at = 0
  BY <1>1, <1>3
<1> QED BY <1>1, <1>11, <1>12, <1>13, <1>14 DEF Tiled

\* No two neighbours of it are free: the buffer after the one that was split is not.
LEMMA SplitIsJoined ==
  ASSUME NEW bufs, NEW i, NEW size, NEW async, NEW used, NEW split,
         Splits(bufs, i, size, async, used, split)
  PROVE  Joined(split)
<1>1. /\ DOMAIN split = 1 .. Len(split) /\ Len(split) = Len(bufs) + 1
      /\ \A k \in DOMAIN split : /\ k < i + 1 => k \in DOMAIN used /\ split[k] = used[k]
                                 /\ k > i + 1 => k - 1 \in DOMAIN used /\ split[k] = used[k - 1]
      /\ Len(bufs) \in Nat /\ i \in 1 .. Len(bufs) /\ DOMAIN used = 1 .. Len(bufs)
  BY SplitList
<1>2. Takes(bufs, i, size, async, used) /\ bufs[i].free /\ Joined(bufs)
  BY DEF Splits, Takes
<1>3. used[i] = Busy(bufs[i].at, size, async) /\ \A j \in 1 .. Len(bufs) : j # i => used[j] = bufs[j]
  BY <1>1, <1>2, TakenList, SMTT(20)
<1>4. ~used[i].free
  BY <1>3, SMTT(20) DEF Busy
<1>5. \A j \in 1 .. Len(bufs) : j > 1 => ~(bufs[j - 1].free /\ bufs[j].free)
  BY <1>1, <1>2, TakenList, Zenon DEF Joined
<1>6. ASSUME NEW j \in 1 .. Len(bufs), j > 1 PROVE ~(used[j - 1].free /\ used[j].free)
  <2>1. j - 1 \in 1 .. Len(bufs) /\ ~(bufs[j - 1].free /\ bufs[j].free)
    BY <1>1, <1>5, <1>6
  <2> QED BY <1>3, <1>4, <2>1
<1>7. ASSUME NEW j \in DOMAIN split, j > 1 PROVE ~(split[j - 1].free /\ split[j].free)
  <2>0. j \in Nat /\ i \in Nat /\ j - 1 \in DOMAIN split
    BY <1>1, <1>7
  <2>1. CASE j < i + 1
    <3>1. j \in 1 .. Len(bufs) /\ j - 1 < i + 1 /\ split[j] = used[j]
      BY <1>1, <2>1
    <3>2. split[j - 1] = used[j - 1]
      BY <1>1, <2>0, <3>1
    <3> QED BY <1>6, <1>7, <3>1, <3>2
  <2>2. CASE j = i + 1
    <3>1. split[j - 1] = used[j - 1] /\ j - 1 = i
      BY <1>1, <2>0, <2>2
    <3> QED BY <1>4, <3>1
  <2>3. CASE j = i + 2
    <3>1. j - 1 \in 1 .. Len(bufs) /\ split[j] = used[j - 1] /\ j - 1 = i + 1
      BY <1>1, <2>0, <2>3
    <3>2. used[j - 1] = bufs[j - 1] /\ ~bufs[j - 1].free
      BY <1>1, <1>2, <1>3, <1>5, <3>1, <2>3, SMTT(20)
    <3> QED BY <3>1, <3>2
  <2>4. CASE j > i + 2
    <3>1. j - 1 \in 1 .. Len(bufs) /\ split[j] = used[j - 1] /\ j - 1 > i + 1 /\ j - 1 > 1
      BY <1>1, <2>0, <2>4
    <3>2. split[j - 1] = used[j - 1 - 1]
      BY <1>1, <2>0, <3>1
    <3> QED BY <1>6, <3>1, <3>2
  <2> QED BY <2>0, <2>1, <2>2, <2>3, <2>4
<1> QED BY <1>7 DEF Joined

\* What is on a page, and what the one-way calls hold.
LEMMA SplitNeeds ==
  ASSUME NEW bufs, NEW i, NEW size, NEW async, NEW used, NEW split,
         Splits(bufs, i, size, async, used, split)
  PROVE  /\ \A p \in Nat : On(split, p) <=> \/ On(bufs, p) \/ DataOn(used[i], p)
                                            \/ HeaderOn(Idle(Data(bufs[i]) + size), p)
         /\ Unclaimed(split)
         /\ Total(Weights(split)) = Total(Weights(bufs)) + Share(size, async)
<1> DEFINE h == i + 1
           x == Idle(Data(bufs[i]) + size)
<1>1. /\ split \in Seq(Buffer) /\ h \in DOMAIN split /\ split[h] = x /\ Removed(split, h) = used
      /\ DOMAIN split = 1 .. Len(split)
      /\ \A k \in DOMAIN split : /\ k < h => k \in DOMAIN used /\ split[k] = used[k]
                                 /\ k > h => k - 1 \in DOMAIN used /\ split[k] = used[k - 1]
  BY SplitList, SMTT(20)
<1>2. /\ \A p \in Nat : On(used, p) <=> On(bufs, p) \/ DataOn(used[i], p)
      /\ Unclaimed(used)
      /\ Total(Weights(used)) = Total(Weights(bufs)) + Share(size, async)
  BY TakenNeeds DEF Splits
<1>3. ~x.async /\ x.free
  BY DEF Idle
<1> HIDE DEF h, x
<1>4. h \in Int
  BY <1>1
<1>5. Unclaimed(split)
  <2> SUFFICES ASSUME NEW k \in DOMAIN split, split[k].free PROVE ~split[k].async
    BY DEF Unclaimed
  <2>1. CASE k = h
    BY <1>1, <1>3, <2>1
  <2>2. CASE k < h
    BY <1>1, <1>2, <2>2 DEF Unclaimed
  <2>3. CASE k > h
    BY <1>1, <1>2, <2>3 DEF Unclaimed
  <2> QED BY <1>1, <1>4, <2>1, <2>2, <2>3
<1>6. Total(Weights(used)) = Total(Weights(split))
  BY <1>1, <1>3, <1>5, WeightRemoved
<1>7. ASSUME NEW p \in Nat PROVE On(split, p) <=> On(used, p) \/ HeaderOn(x, p)
  <2>1. On(used, p) <=> \E j \in DOMAIN split \ {h} : HeaderOn(split[j], p) \/ DataOn(split[j], p)
    BY <1>1, OnRemoved
  <2>2. ~DataOn(x, p)
    BY <1>3 DEF DataOn
  <2> QED BY <1>1, <2>1, <2>2 DEF On
<1> QED BY <1>2, <1>5, <1>6, <1>7 DEF x

\* The pages that are mapped for a buffer lie between its header and the next one.
LEMMA NewPagesAre ==
  ASSUME NEW bufs, Tiled(bufs), NEW i \in DOMAIN bufs, NEW wanted \in Nat,
         Data(bufs[i]) + wanted <= EndOf(bufs, i)
  PROVE  /\ NewPages(bufs[i], wanted, BufferSize(bufs, i)) \subseteq Nat
         /\ \A p \in Nat : p \in NewPages(bufs[i], wanted, BufferSize(bufs, i)) <=>
                             Inside(bufs, i, p) /\ Lo(p) < Data(bufs[i]) + wanted
<1> DEFINE d == Data(bufs[i])
           e == EndOf(bufs, i)
           z == d + wanted
           from == PageAlign(d)
           to == PageAlign(z)
           last == PageOf(e)
<1>1. d \in Nat /\ e \in Nat /\ BufferSize(bufs, i) = e - d /\ z \in Nat
  BY Neighbours
<1>2. d + BufferSize(bufs, i) = e
  BY <1>1
<1>3. NewPages(bufs[i], wanted, BufferSize(bufs, i)) = from .. Min2(to, last) - 1
  BY <1>2 DEF NewPages
<1> HIDE DEF d, e, z
<1>4. from \in Nat /\ to \in Nat /\ last \in Nat
  BY <1>1, PageArithmetic
<1>5. ASSUME NEW p \in Nat PROVE p \in from .. Min2(to, last) - 1 <=> d <= Lo(p) /\ Lo(p) + Page <= e /\ Lo(p) < z
  <2>1. (from <= p <=> d <= Lo(p)) /\ (to <= p <=> z <= Lo(p)) /\ Lo(p) \in Nat
    BY <1>1, PageArithmetic
  <2>2. last <= p <=> e < Lo(p) + Page
    BY <1>1, PageArithmetic
  <2> HIDE DEF from, to, last
  <2>3. p \in from .. Min2(to, last) - 1 <=> from <= p /\ ~(to <= p) /\ ~(last <= p)
    BY <1>4 DEF Min2
  <2>4. Page \in Nat
    BY LayoutAssumption
  <2> QED BY <1>1, <2>1, <2>2, <2>3, <2>4
<1>6. from .. Min2(to, last) - 1 \subseteq Nat
  <2> HIDE DEF from, to, last
  <2> QED BY <1>4 DEF Min2
<1> QED BY <1>3, <1>5, <1>6 DEF Inside, d, e, z

\* The pages that are needed after a free buffer was taken, of which those
\* before Data(b) + wanted come to be needed: the ones that were, and the new ones.
LEMMA NewPagesAreMissing ==
  ASSUME NEW bufs, Tiled(bufs), NEW i \in DOMAIN bufs, bufs[i].free, NEW wanted \in Nat,
         Data(bufs[i]) + wanted <= EndOf(bufs, i), NEW after,
         NEW new, new = NewPages(bufs[i], wanted, BufferSize(bufs, i)),
         \A p \in Nat : On(after, p) <=> \/ On(bufs, p)
                                         \/ /\ wanted > 0 /\ Data(bufs[i]) < Lo(p) + Page
                                            /\ Lo(p) < Data(bufs[i]) + wanted
  PROVE  PagesOf(bufs) \cap new = {} /\ PagesOf(bufs) \cup new = PagesOf(after)
<1> DEFINE d == Data(bufs[i])
           e == EndOf(bufs, i)
<1>1. new \subseteq Nat /\ \A p \in Nat : p \in new <=> Inside(bufs, i, p) /\ Lo(p) < d + wanted
  BY NewPagesAre
<1>2. d \in Nat /\ e \in Nat /\ Page \in Nat /\ 0 < Page /\ d + wanted <= e
  BY Neighbours, SMTT(20)
<1>3. ASSUME NEW p \in Nat, Inside(bufs, i, p) PROVE ~On(bufs, p)
  <2>1. ~DataOn(bufs[i], p)
    BY DEF DataOn
  <2>2. \A j \in DOMAIN bufs : ~HeaderOn(bufs[j], p) /\ (j # i => ~DataOn(bufs[j], p))
    BY <1>3, InsideIsClear
  <2> QED BY <2>1, <2>2 DEF On
<1>4. ASSUME NEW p \in Nat PROVE On(after, p) <=> On(bufs, p) \/ p \in new
  <2>0. Lo(p) \in Nat
    BY PagesAscend
  <2>1. ASSUME p \in new PROVE On(after, p)
    <3>1. d <= Lo(p) /\ Lo(p) < d + wanted
      BY <1>1, <2>1 DEF Inside
    <3> HIDE DEF d, e
    <3>2. wanted > 0 /\ d < Lo(p) + Page
      BY <1>2, <2>0, <3>1
    <3> QED BY <3>1, <3>2 DEF d
  <2>2. ASSUME On(after, p), ~On(bufs, p), p \notin new PROVE FALSE
    <3>1. d < Lo(p) + Page /\ Lo(p) < d + wanted /\ ~Inside(bufs, i, p)
      BY <1>1, <2>2
    <3> HIDE DEF d, e
    <3>2. Lo(p) < e
      BY <1>2, <2>0, <3>1
    <3>3. \/ HeaderOn(bufs[i], p)
          \/ i + 1 \in DOMAIN bufs /\ HeaderOn(bufs[i + 1], p)
      BY <3>1, <3>2, EdgeHasHeader DEF d, e
    <3> QED BY <2>2, <3>3 DEF On
  <2> QED BY <2>1, <2>2
<1>5. PagesOf(bufs) \cap new = {}
  BY <1>1, <1>3 DEF PagesOf
<1> QED BY <1>1, <1>4, <1>5 DEF PagesOf

\* What becomes of a buffer that is taken.
LEMMA TakenIsBusy ==
  ASSUME NEW b \in Buffer, NEW size, NEW async
  PROVE  [b EXCEPT !.free = FALSE, !.size = size, !.async = async] = Busy(b.at, size, async)
<1> DEFINE c == [b EXCEPT !.free = FALSE, !.size = size, !.async = async]
<1>1. DOMAIN b = {"at", "free", "size", "async"}
  BY DEF Buffer
<1>2. /\ c = [x \in DOMAIN b |-> c[x]] /\ DOMAIN c = DOMAIN b
      /\ c.at = b.at /\ c.free = FALSE /\ c.size = size /\ c.async = async
  BY <1>1, Zenon
<1> HIDE DEF c
<1>3. Busy(b.at, size, async) = [x \in DOMAIN b |-> Busy(b.at, size, async)[x]]
  BY <1>1 DEF Busy
<1>4. \A x \in DOMAIN b : c[x] = Busy(b.at, size, async)[x]
  BY <1>1, <1>2, Zenon DEF Busy
<1>5. c = Busy(b.at, size, async)
  BY <1>2, <1>3, <1>4
<1> QED BY <1>5 DEF c

\* What binder_alloc_buf makes of a sound state.
LEMMA TakenIs ==
  ASSUME NEW bufs, bufs = buffers, Tiled(bufs), Joined(bufs), Unclaimed(bufs),
         NEW size \in Nat, NEW async \in BOOLEAN, NEW i \in BestFits(size),
         NEW t, t = Taken(i, size, async)
  PROVE  /\ Tiled(t.buffers) /\ Joined(t.buffers) /\ Unclaimed(t.buffers)
         /\ PagesOf(bufs) \cap t.new = {} /\ PagesOf(bufs) \cup t.new = PagesOf(t.buffers)
         /\ Total(Weights(t.buffers)) = Total(Weights(bufs)) + Share(size, async)
         /\ Share(size, async) \in Int /\ Total(Weights(bufs)) \in Int
<1> DEFINE b == bufs[i]
           d == Data(b)
           e == EndOf(bufs, i)
           room == BufferSize(bufs, i)
           wanted == Wanted(size, room)
           used == [bufs EXCEPT ![i] = Busy(b.at, size, async)]
           split == Inserted(used, i + 1, Idle(d + size))
<1>1. i \in DOMAIN bufs /\ b.free /\ room >= size
  BY DEF BestFits
<1>2. /\ b \in Buffer /\ d \in Nat /\ e \in Nat /\ room = e - d /\ Header \in Nat /\ 0 < Header
  BY <1>1, Neighbours
<1>3. t.buffers = (IF wanted = size THEN used ELSE split) /\ t.new = NewPages(b, wanted, room)
  <2>1. [b EXCEPT !.free = FALSE, !.size = size, !.async = async] = Busy(b.at, size, async)
    <3> HIDE DEF b
    <3> QED BY <1>2, TakenIsBusy, Zenon
  <2>2. used = [buffers EXCEPT ![i] = [@ EXCEPT !.free = FALSE, !.size = size, !.async = async]]
    BY <2>1, Zenon
  <2>3. split = Inserted(used, i + 1, [at |-> Data(buffers[i]) + size, free |-> TRUE, size |-> 0, async |-> FALSE])
    BY DEF Idle
  <2>4. room = BufferSize(buffers, i) /\ wanted = Wanted(size, BufferSize(buffers, i)) /\ b = buffers[i]
    OBVIOUS
  <2> HIDE DEF used, split, room, wanted, b
  <2> QED BY <2>2, <2>3, <2>4 DEF Taken
<1>4. Takes(bufs, i, size, async, used)
  <2>1. d + size <= e
    <3> HIDE DEF d, e, room
    <3> QED BY <1>1, <1>2
  <2> QED BY <1>1, <2>1 DEF Takes
<1>5. used[i] = Busy(b.at, size, async)
  BY <1>4, TakenList
<1>6. \A p \in Nat : DataOn(used[i], p) <=> size > 0 /\ d < Lo(p) + Page /\ Lo(p) < d + size
  BY <1>5 DEF DataOn, Busy, Data
<1>7. \A p \in Nat : HeaderOn(Idle(d + size), p) <=> d + size < Lo(p) + Page /\ Lo(p) < d + size + Header
  BY DEF HeaderOn, Idle, Data
<1>8. Share(size, async) \in Int /\ Total(Weights(bufs)) \in Int
  BY <1>4, TakenNeeds
<1>9. Page \in Nat /\ 0 < Page
  BY LayoutAssumption
<1> HIDE DEF used, split, d, e, room
<1>10. CASE size + Header >= room
  <2>1. wanted = size
    BY <1>10 DEF Wanted
  <2>2. e <= d + size + Header /\ d + size <= e
    BY <1>1, <1>2, <1>10
  <2>3. Tiled(used) /\ Joined(used)
    BY <1>4, <2>2, WholeIsTaken DEF d, e
  <2>4. /\ \A p \in Nat : On(used, p) <=> On(bufs, p) \/ DataOn(used[i], p)
        /\ Unclaimed(used) /\ Total(Weights(used)) = Total(Weights(bufs)) + Share(size, async)
    BY <1>4, TakenNeeds
  <2>5. \A p \in Nat : On(used, p) <=> On(bufs, p) \/ (size > 0 /\ d < Lo(p) + Page /\ Lo(p) < d + size)
    BY <1>6, <2>4
  <2>6. t.new = NewPages(b, size, room) /\ t.buffers = used
    BY <1>3, <2>1
  <2>7. PagesOf(bufs) \cap t.new = {} /\ PagesOf(bufs) \cup t.new = PagesOf(used)
    BY <1>1, <2>2, <2>5, <2>6, NewPagesAreMissing, SMTT(20) DEF d, e, room
  <2> QED BY <1>8, <2>3, <2>4, <2>6, <2>7
<1>11. CASE ~(size + Header >= room)
  <2>0. room \in Int
    BY <1>2
  <2>1. wanted = size + Header /\ wanted # size
    BY <1>2, <1>11, <2>0 DEF Wanted
  <2>2. d + size + Header < e /\ d + (size + Header) <= e
    BY <1>1, <1>2, <1>11
  <2>3. Splits(bufs, i, size, async, used, split)
    BY <1>4, <2>2 DEF Splits, d, e, split
  <2>4. Tiled(split) /\ Joined(split)
    BY <2>3, SplitIsTiled, SplitIsJoined, SMTT(20)
  <2>5. /\ \A p \in Nat : On(split, p) <=> On(bufs, p) \/ DataOn(used[i], p) \/ HeaderOn(Idle(d + size), p)
        /\ Unclaimed(split) /\ Total(Weights(split)) = Total(Weights(bufs)) + Share(size, async)
    BY <2>3, SplitNeeds, SMTT(20) DEF d
  <2>6. ASSUME NEW p \in Nat
        PROVE  On(split, p) <=> \/ On(bufs, p)
                                \/ size + Header > 0 /\ d < Lo(p) + Page /\ Lo(p) < d + (size + Header)
    <3>1. Lo(p) \in Nat
      BY PagesAscend
    <3>2. DataOn(used[i], p) \/ HeaderOn(Idle(d + size), p) <=>
            size + Header > 0 /\ d < Lo(p) + Page /\ Lo(p) < d + (size + Header)
      BY <1>2, <1>6, <1>7, <1>9, <3>1
    <3> QED BY <2>5, <3>2
  <2>7. t.new = NewPages(b, size + Header, room) /\ t.buffers = split
    BY <1>3, <2>1
  <2>8. size + Header \in Nat
    BY <1>2
  <2>9. PagesOf(bufs) \cap t.new = {} /\ PagesOf(bufs) \cup t.new = PagesOf(split)
    BY <1>1, <2>2, <2>6, <2>7, <2>8, NewPagesAreMissing, SMTT(20) DEF d, e, room
  <2> QED BY <1>8, <2>4, <2>5, <2>7, <2>9, Zenon
<1> QED BY <1>10, <1>11

-----------------------------------------------------------------------------
\* The pages the model's property names are the ones something lies on.
LEMMA NeededIs ==
  ASSUME Tiled(buffers)
  PROVE  Needed = PagesOf(buffers)
<1>1. ASSUME NEW i \in DOMAIN buffers
      PROVE  /\ StartPage(buffers[i]) .. EndPage(buffers[i]) \subseteq Nat
             /\ PageOf(Data(buffers[i])) .. PageOf(Data(buffers[i]) + buffers[i].size - 1) \subseteq Nat
             /\ \A p \in Nat : p \in StartPage(buffers[i]) .. EndPage(buffers[i]) <=> HeaderOn(buffers[i], p)
             /\ \A p \in Nat : ~buffers[i].free /\ buffers[i].size > 0 =>
                  (p \in PageOf(Data(buffers[i])) .. PageOf(Data(buffers[i]) + buffers[i].size - 1)
                     <=> DataOn(buffers[i], p))
  <2> DEFINE b == buffers[i]
             at == b.at
             d == Data(b)
             size == b.size
             x == at + Header - 1
             y == d + size - 1
  <2>1. at \in Nat /\ d \in Nat /\ d = at + Header /\ size \in Nat /\ Header \in Nat /\ 0 < Header
    BY Neighbours DEF Buffer
  <2> HIDE DEF b, at, d, size
  <2>2. x \in Nat /\ y \in Nat /\ Page \in Nat
    BY <2>1, LayoutAssumption
  <2> HIDE DEF x, y
  <2>3. PageOf(at) \in Nat /\ PageOf(x) \in Nat /\ PageOf(d) \in Nat /\ PageOf(y) \in Nat
    BY <2>1, <2>2, PageArithmetic
  <2>4. PageOf(at) .. PageOf(x) \subseteq Nat /\ PageOf(d) .. PageOf(y) \subseteq Nat
    BY <2>3
  <2>5. ASSUME NEW p \in Nat
        PROVE  /\ p \in PageOf(at) .. PageOf(x) <=> at < Lo(p) + Page /\ Lo(p) < d
               /\ size > 0 => (p \in PageOf(d) .. PageOf(y) <=> d < Lo(p) + Page /\ Lo(p) < d + size)
    <3>1. /\ Lo(p) \in Nat /\ (PageOf(at) <= p <=> at < Lo(p) + Page) /\ (p <= PageOf(x) <=> Lo(p) <= x)
      BY <2>1, <2>2, PageArithmetic, Zenon
    <3>2. (PageOf(d) <= p <=> d < Lo(p) + Page) /\ (p <= PageOf(y) <=> Lo(p) <= y)
      BY <2>1, <2>2, PageArithmetic
    <3>3. (Lo(p) <= x <=> Lo(p) < d) /\ (Lo(p) <= y <=> Lo(p) < d + size)
      BY <2>1, <3>1 DEF x, y
    <3>4. p \in PageOf(at) .. PageOf(x) <=> PageOf(at) <= p /\ p <= PageOf(x)
      BY <2>3
    <3>5. p \in PageOf(d) .. PageOf(y) <=> PageOf(d) <= p /\ p <= PageOf(y)
      BY <2>3
    <3> QED BY <3>1, <3>2, <3>3, <3>4, <3>5
  <2> QED BY <2>4, <2>5 DEF StartPage, EndPage, HeaderOn, DataOn, b, at, d, size, x, y
<1> DEFINE H(i) == StartPage(buffers[i]) .. EndPage(buffers[i])
           D(i) == PageOf(Data(buffers[i])) .. PageOf(Data(buffers[i]) + buffers[i].size - 1)
           B == {j \in DOMAIN buffers : ~buffers[j].free /\ buffers[j].size > 0}
<1>2. \A p : p \in Needed <=> (\E i \in DOMAIN buffers : p \in H(i)) \/ (\E i \in B : p \in D(i))
  <2>1. Needed = (UNION {H(i) : i \in DOMAIN buffers}) \cup (UNION {D(i) : i \in B})
    BY DEF Needed
  <2> DEFINE U == UNION {H(i) : i \in DOMAIN buffers}
             V == UNION {D(i) : i \in B}
  <2> HIDE DEF H, D, B
  <2>2. \A p : p \in U <=> \E i \in DOMAIN buffers : p \in H(i)
    BY Zenon
  <2>3. \A p : p \in V <=> \E i \in B : p \in D(i)
    BY Zenon
  <2> HIDE DEF U, V
  <2>4. Needed = U \cup V
    BY <2>1 DEF U, V
  <2> QED BY <2>2, <2>3, <2>4
<1>3. /\ \A i \in DOMAIN buffers : H(i) \subseteq Nat /\ D(i) \subseteq Nat
      /\ \A p \in Nat, i \in DOMAIN buffers : p \in H(i) <=> HeaderOn(buffers[i], p)
      /\ \A p \in Nat, i \in B : p \in D(i) <=> DataOn(buffers[i], p)
  BY <1>1
<1>4. \A p \in Nat, i \in DOMAIN buffers : DataOn(buffers[i], p) => i \in B
  BY DEF DataOn
<1>5. B \subseteq DOMAIN buffers
  OBVIOUS
<1> HIDE DEF H, D, B
<1>6. Needed \subseteq Nat
  BY <1>2, <1>3, <1>5
<1>7. \A p \in Nat : p \in Needed <=> On(buffers, p)
  BY <1>2, <1>3, <1>4, <1>5 DEF On
<1> QED BY <1>6, <1>7, Zenon DEF PagesOf

\* There are finitely many buffers in use.
LEMMA FiniteInUse ==
  ASSUME NEW bufs \in Seq(Buffer)
  PROVE  IsFiniteSet(InUse(bufs))
<1> DEFINE D == {j \in DOMAIN bufs : ~bufs[j].free}
           f == [j \in D |-> bufs[j]]
<1>1. IsFiniteSet(1 .. Len(bufs)) /\ D \subseteq 1 .. Len(bufs)
  BY FS_Interval
<1>2. IsFiniteSet(D)
  BY <1>1, FS_Subset
<1>3. InUse(bufs) = {f[j] : j \in D}
  BY Zenon DEF InUse
<1>4. f \in Surjection(D, InUse(bufs))
  BY <1>3 DEF Surjection, InUse
<1> QED BY <1>2, <1>4, FS_Surjection

\* binder_mmap: one free buffer, whose header is on the first page.
LEMMA MmapIsSound ==
  ASSUME NEW s, s = [buffers |-> <<Idle(0)>>, pages |-> {0}, async |-> AreaSize \div 2, bug |-> FALSE]
  PROVE  Sound(s)
<1> DEFINE bufs == <<Idle(0)>>
<1>0. s.buffers = bufs /\ s.pages = {0} /\ s.async = AreaSize \div 2 /\ s.bug = FALSE
  OBVIOUS
<1>1. Idle(0) \in Buffer /\ Idle(0).at = 0 /\ Idle(0).free /\ Idle(0).size = 0 /\ ~Idle(0).async
      /\ Data(Idle(0)) = Header
  <2>1. Header \in Nat
    BY LayoutAssumption
  <2>2. Idle(0) \in Buffer
    BY IdleIsBuffer, Zenon
  <2>3. Idle(0).at = 0 /\ Idle(0).free /\ Idle(0).size = 0 /\ ~Idle(0).async
    BY DEF Idle
  <2> QED BY <2>1, <2>2, <2>3 DEF Data
<1>2. bufs \in Seq(Buffer) /\ Len(bufs) = 1 /\ DOMAIN bufs = {1} /\ bufs[1] = Idle(0) /\ bufs # <<>>
  BY <1>1
<1> HIDE DEF bufs
<1>3. Header \in Nat /\ Page \in Nat /\ 0 < Header /\ Header < Page /\ NumPages \in Nat /\ 1 <= NumPages
  BY LayoutAssumption
<1>4. AreaSize \in Nat /\ Page <= AreaSize
  <2>1. Lo(1) <= Lo(NumPages) /\ Lo(NumPages) \in Nat
    BY <1>3, PagesAscend
  <2>2. Lo(1) = Page /\ Lo(NumPages) = AreaSize
    BY <1>3 DEF Lo, AreaSize
  <2> QED BY <2>1, <2>2
<1>5. Tiled(bufs)
  BY <1>1, <1>2, <1>3, <1>4 DEF Tiled
<1>6. Joined(bufs) /\ Unclaimed(bufs)
  BY <1>1, <1>2 DEF Joined, Unclaimed
<1>7. PagesOf(bufs) = {0}
  <2>1. ASSUME NEW p \in Nat PROVE On(bufs, p) <=> p = 0
    <3>1. On(bufs, p) <=> Lo(p) < Header
      <4>1. ~DataOn(bufs[1], p)
        BY <1>1, <1>2 DEF DataOn
      <4>2. Lo(p) \in Nat
        BY PagesAscend
      <4>3. HeaderOn(bufs[1], p) <=> Lo(p) < Header
        BY <1>1, <1>2, <1>3, <4>2 DEF HeaderOn
      <4> QED BY <1>2, <4>1, <4>3 DEF On
    <3>2. CASE p = 0
      BY <1>3, <3>1, <3>2 DEF Lo
    <3>3. CASE p # 0
      <4>1. Lo(1) <= Lo(p) /\ Lo(1) = Page /\ Lo(p) \in Nat
        <5>1. 1 <= p
          BY <3>3
        <5>2. Lo(1) = Page
          BY <1>3 DEF Lo
        <5> QED BY <5>1, <5>2, PagesAscend
      <4> QED BY <1>3, <3>1, <3>3, <4>1
    <3> QED BY <3>2, <3>3
  <2> QED BY <2>1 DEF PagesOf
<1>8. AreaSize \div 2 \in Int
  BY <1>4
<1>9. Total(Weights(bufs)) = 0
  <2> DEFINE w == Weights(bufs)
  <2>1. w \in Seq(Int) /\ w = <<0>>
    <3>1. w = [j \in {1} |-> 0]
      BY <1>1, <1>2 DEF Weights
    <3>2. w \in Seq(Int)
      BY <1>2, WeightsAre
    <3> QED BY <3>1, <3>2
  <2> HIDE DEF w
  <2>2. Len(w) = 1 /\ w[1] = 0
    BY <2>1
  <2>3. PICK P : IsSum(w, P)
    BY <2>1, SumsExist, Zenon
  <2>4. Total(w) = P[Len(w)]
    BY <2>1, <2>3, TotalIs, Zenon
  <2>5. P[1] = 0
    BY <2>2, <2>3 DEF IsSum
  <2> QED BY <2>2, <2>4, <2>5 DEF w
<1>10. Good(s)
  <2>1. s \in States
    BY <1>2, <1>8 DEF States, bufs
  <2> QED BY <1>0, <1>5, <1>7, <2>1 DEF Good
<1>11. Accounted(s)
  BY <1>0, <1>6, <1>8, <1>9 DEF Accounted
<1> QED BY <1>0, <1>6, <1>10, <1>11 DEF Sound

\* binder_alloc_buf: what is sound stays so, and no page is mapped twice.
LEMMA AllocIsSound ==
  ASSUME Sound(State), NEW size \in Nat, NEW async \in BOOLEAN, NEW i \in BestFits(size),
         NEW t, t = Taken(i, size, async),
         NEW u, u = [buffers |-> t.buffers, pages |-> pages \cup t.new,
                     async |-> asyncSpace - Share(size, async), bug |-> FALSE]
  PROVE  Sound(u) /\ pages \cap t.new = {} /\ asyncSpace \in Int
<1> DEFINE bufs == buffers
           a == t.buffers
<1>1. /\ Tiled(bufs) /\ Joined(bufs) /\ Unclaimed(bufs) /\ pages = PagesOf(bufs)
      /\ asyncSpace = AreaSize \div 2 - Total(Weights(bufs)) /\ asyncSpace \in Int
  BY Zenon DEF Sound, Good, Accounted, State, States
<1>2. /\ Tiled(a) /\ Joined(a) /\ Unclaimed(a)
      /\ PagesOf(bufs) \cap t.new = {} /\ PagesOf(bufs) \cup t.new = PagesOf(a)
      /\ Total(Weights(a)) = Total(Weights(bufs)) + Share(size, async)
      /\ Share(size, async) \in Int /\ Total(Weights(bufs)) \in Int
  <2>1. PICK l : l = buffers
    OBVIOUS
  <2>2. Tiled(l) /\ Joined(l) /\ Unclaimed(l)
    BY <1>1, <2>1
  <2>3. /\ Tiled(t.buffers) /\ Joined(t.buffers) /\ Unclaimed(t.buffers)
        /\ PagesOf(l) \cap t.new = {} /\ PagesOf(l) \cup t.new = PagesOf(t.buffers)
        /\ Total(Weights(t.buffers)) = Total(Weights(l)) + Share(size, async)
        /\ Share(size, async) \in Int /\ Total(Weights(l)) \in Int
    BY <2>1, <2>2, TakenIs, SMTT(20)
  <2> QED BY <2>1, <2>3
<1>3. /\ u.buffers = a /\ u.pages = PagesOf(a) /\ u.bug = FALSE
      /\ u.async = asyncSpace - Share(size, async)
  BY <1>1, <1>2
<1>4. AreaSize \div 2 \in Int
  BY AreaEndsWithPage
<1> HIDE DEF a, bufs
<1>5. u.async = AreaSize \div 2 - Total(Weights(a)) /\ u.async \in Int
  BY <1>1, <1>2, <1>3, <1>4, SMTT(20)
<1>6. u \in States
  <2>1. PagesOf(a) \in SUBSET Nat /\ a \in Seq(Buffer)
    BY <1>2 DEF PagesOf, Tiled
  <2>2. u = [buffers |-> u.buffers, pages |-> u.pages, async |-> u.async, bug |-> u.bug]
    OBVIOUS
  <2>3. u.buffers \in Seq(Buffer) /\ u.pages \in SUBSET Nat /\ u.async \in Int /\ u.bug \in BOOLEAN
    BY <1>3, <1>5, <2>1
  <2> QED BY <2>2, <2>3 DEF States
<1> QED BY <1>1, <1>2, <1>3, <1>5, <1>6, SMTT(20) DEF Sound, Good, Accounted

-----------------------------------------------------------------------------
\* What every step preserves.  While the area is there its state is sound; when
\* it was released a list without a buffer in use is left, and no page.
IInv ==
  /\ vma \in {"none", "open", "closed", "released"}
  /\ vma = "none" => buffers = <<>> /\ pages = {} /\ bug = FALSE
  /\ vma \in {"open", "closed"} => Sound(State)
  /\ vma = "released" => /\ Tiled(buffers) /\ Joined(buffers) /\ Accounted(State)
                         /\ pages = {} /\ bug = FALSE /\ InUse(buffers) = {}

\* It holds when the driver is opened.
LEMMA InitIInv ==
  ASSUME Init
  PROVE  IInv
BY DEF Init, IInv

\* A state whose parts are those of s.
LEMMA StateIs ==
  ASSUME NEW s \in States, Becomes(s)
  PROVE  State' = s
<1>1. State' = [buffers |-> s.buffers, pages |-> s.pages, async |-> s.async, bug |-> s.bug]
  BY DEF State, Becomes
<1>2. s = [buffers |-> s.buffers, pages |-> s.pages, async |-> s.async, bug |-> s.bug]
  BY DEF States
<1> QED BY <1>1, <1>2

\* The step that frees what is left and the area with it.
LEMMA ReleaseIInv ==
  ASSUME IInv, Release
  PROVE  IInv'
<1> DEFINE n == Cardinality(InUse(buffers))
           t == FreedFirst(State, n)
           u == [t EXCEPT !.pages = {}]
<1>1. Sound(State) /\ State.buffers = buffers /\ vma' = "released" /\ Becomes(u)
  BY DEF IInv, Release, State
<1>2. IsFiniteSet(InUse(buffers))
  BY <1>1, FiniteInUse DEF Sound, Good, Tiled
<1>3. Sound(t) /\ InUse(t.buffers) = {}
  BY <1>1, <1>2, FreedFirstIs
<1> HIDE DEF t
<1>4. t \in States /\ t.bug = FALSE /\ Tiled(t.buffers) /\ Joined(t.buffers) /\ Accounted(t)
  BY <1>3 DEF Sound, Good
<1>5. u.buffers = t.buffers /\ u.pages = {} /\ u.async = t.async /\ u.bug = FALSE
  BY <1>4 DEF States
<1> HIDE DEF u
<1>6. buffers' = t.buffers /\ pages' = {} /\ asyncSpace' = t.async /\ bug' = FALSE
  BY <1>1, <1>5 DEF Becomes
<1>7. Accounted(State')
  <2>1. State'.buffers = t.buffers /\ State'.async = t.async
    BY <1>6 DEF State
  <2> QED BY <1>4, <2>1 DEF Accounted
<1> QED BY <1>1, <1>3, <1>4, <1>6, <1>7 DEF IInv

\* Every step keeps it.
LEMMA NextIInv ==
  ASSUME IInv, [Next]_vars
  PROVE  IInv'
<1>1. CASE Mmap
  <2>1. Sound(State')
    <3>1. State' = [buffers |-> <<Idle(0)>>, pages |-> {0}, async |-> AreaSize \div 2, bug |-> FALSE]
      BY <1>1, Zenon DEF IInv, Mmap, State, Idle
    <3> QED BY <3>1, MmapIsSound
  <2> QED BY <1>1, <2>1 DEF IInv, Mmap
<1>2. CASE VmaClose
  <2>1. State' = State /\ vma' = "closed" /\ Sound(State)
    BY <1>2 DEF VmaClose, State, IInv
  <2> QED BY <2>1 DEF IInv
<1>3. CASE Release
  BY <1>3, ReleaseIInv
<1>4. ASSUME NEW size \in Sizes, NEW async \in BOOLEAN, AllocBuf(size, async) PROVE IInv'
  <2>1. vma = "open" /\ vma' = "open" /\ Sound(State) /\ bug = FALSE /\ size \in Nat
    BY <1>4, LayoutAssumption DEF AllocBuf, IInv, Sound, Good, State
  <2>2. PICK i \in BestFits(size) :
          LET t == Taken(i, size, async)
          IN  /\ buffers' = t.buffers
              /\ pages' = pages \cup t.new
              /\ bug' = (bug \/ pages \cap t.new # {})
    BY <1>4 DEF AllocBuf
  <2> DEFINE t == Taken(i, size, async)
             u == [buffers |-> t.buffers, pages |-> pages \cup t.new,
                   async |-> asyncSpace - Share(size, async), bug |-> FALSE]
  <2>3. buffers' = t.buffers /\ pages' = pages \cup t.new /\ bug' = (bug \/ pages \cap t.new # {})
    BY <2>2
  <2>4. Sound(u) /\ pages \cap t.new = {} /\ asyncSpace \in Int
    BY <2>1, AllocIsSound
  <2> HIDE DEF t
  <2>5. asyncSpace' = asyncSpace - Share(size, async)
    BY <1>4, <2>4, SMTT(20) DEF AllocBuf, Share
  <2>6. State' = u
    BY <2>1, <2>3, <2>4, <2>5, Zenon DEF State
  <2> HIDE DEF u
  <2>7. Sound(State')
    BY <2>4, <2>6
  <2> QED BY <2>1, <2>7 DEF IInv
<1>5. ASSUME NEW i \in DOMAIN buffers, FreeBuf(i) PROVE IInv'
  <2>1. i \in DOMAIN buffers /\ ~buffers[i].free /\ Becomes(Freed(State, i)) /\ vma' = vma
    BY <1>5 DEF FreeBuf
  <2>2. vma \in {"open", "closed"}
    <3>1. vma # "none"
      BY <2>1 DEF IInv
    <3>2. vma # "released"
      BY <2>1 DEF IInv, InUse
    <3> QED BY <3>1, <3>2 DEF IInv
  <2>3. Sound(State) /\ State.buffers = buffers
    BY <2>2 DEF IInv, State
  <2> DEFINE t == Freed(State, i)
  <2>4. Sound(t)
    BY <2>1, <2>3, FreedIs DEF Sound
  <2> HIDE DEF t
  <2>5. State' = t
    BY <2>1, <2>4, StateIs DEF Sound, Good, t
  <2>6. Sound(State')
    BY <2>4, <2>5
  <2> QED BY <2>1, <2>2, <2>6 DEF IInv
<1>6. CASE UNCHANGED vars
  <2>1. vma' = vma /\ buffers' = buffers /\ pages' = pages /\ bug' = bug /\ State' = State
    BY <1>6 DEF vars, State
  <2> QED BY <2>1 DEF IInv
<1> QED BY <1>1, <1>2, <1>3, <1>4, <1>5, <1>6 DEF Next

\* The invariant implies the properties of binder.c that the model states.
LEMMA IInvImplies ==
  ASSUME IInv
  PROVE  AreaIsTiled /\ PagesAreNeeded /\ NoAssertionFails /\ AsyncSpaceIsAccounted
<1>1. CASE vma = "none"
  <2>1. buffers = <<>> /\ pages = {} /\ bug = FALSE /\ DOMAIN buffers = {}
    BY <1>1 DEF IInv
  <2>2. Needed = {}
    BY <2>1 DEF Needed
  <2>3. AreaIsTiled
    BY <1>1, <2>1 DEF AreaIsTiled
  <2> QED BY <1>1, <2>1, <2>2, <2>3 DEF PagesAreNeeded, NoAssertionFails, AsyncSpaceIsAccounted
<1>2. CASE vma # "none"
  <2>1. Tiled(buffers) /\ Joined(buffers) /\ Accounted(State) /\ bug = FALSE
    BY <1>2 DEF IInv, Sound, Good, State
  <2>2. AreaIsTiled
    <3>1. buffers # <<>> /\ buffers[1].at = 0 /\ buffers \in Seq(Buffer)
      BY <2>1 DEF Tiled
    <3>2. ASSUME NEW i \in DOMAIN buffers
          PROVE  /\ BufferSize(buffers, i) >= buffers[i].size
                 /\ i > 1 => ~(buffers[i - 1].free /\ buffers[i].free)
      <4>1. /\ EndOf(buffers, i) \in Nat /\ Data(buffers[i]) \in Nat /\ buffers[i].size \in Nat
            /\ Data(buffers[i]) + buffers[i].size <= EndOf(buffers, i)
            /\ BufferSize(buffers, i) = EndOf(buffers, i) - Data(buffers[i])
        BY <2>1, Neighbours DEF Buffer
      <4>2. BufferSize(buffers, i) >= buffers[i].size
        BY <4>1
      <4> QED BY <2>1, <4>2 DEF Joined
    <3>3. ASSUME vma = "released" PROVE Len(buffers) = 1
      <4>1. \A j \in DOMAIN buffers : buffers[j].free
        BY <3>3 DEF IInv, InUse
      <4>2. Len(buffers) \in Nat /\ DOMAIN buffers = 1 .. Len(buffers) /\ Len(buffers) # 0
        BY <3>1
      <4>3. CASE Len(buffers) >= 2
        <5>1. 2 \in DOMAIN buffers /\ 1 \in DOMAIN buffers
          BY <4>2, <4>3
        <5>2. PICK k : k = 2
          OBVIOUS
        <5>3. k \in DOMAIN buffers /\ k > 1 /\ k - 1 \in DOMAIN buffers
          BY <5>1, <5>2
        <5>4. ~(buffers[k - 1].free /\ buffers[k].free)
          BY <2>1, <5>3 DEF Joined
        <5> QED BY <4>1, <5>3, <5>4
      <4> QED BY <4>2, <4>3
    <3> QED BY <3>1, <3>2, <3>3 DEF AreaIsTiled
  <2>3. PagesAreNeeded
    <3>1. CASE vma = "released"
      BY <3>1 DEF IInv, PagesAreNeeded
    <3>2. CASE vma # "released"
      <4>1. pages = PagesOf(buffers)
        BY <1>2, <3>2 DEF IInv, Sound, Good, State
      <4> QED BY <2>1, <3>2, <4>1, NeededIs DEF PagesAreNeeded
    <3> QED BY <3>1, <3>2
  <2>4. AsyncSpaceIsAccounted
    <3>1. asyncSpace = AreaSize \div 2 - Total(Weights(buffers))
      BY <2>1 DEF Accounted, State
    <3> QED BY <3>1 DEF AsyncSpaceIsAccounted, Weights
  <2> QED BY <2>1, <2>2, <2>3, <2>4 DEF NoAssertionFails
<1> QED BY <1>1, <1>2

\* The inductive invariant holds in every state of the allocator.
THEOREM Invariance == Spec => []IInv
<1> QED BY InitIInv, NextIInv, PTL DEF Spec

\* The buffers of a process tile its area, none smaller than what was asked for,
\* no two free ones side by side, and a single one is left in the end
\* (binder_alloc_buf, binder_free_buf, binder_deferred_release).
THEOREM AreaStaysTiled == Spec => []AreaIsTiled
<1> QED BY Invariance, IInvImplies, PTL

\* The pages that are present are exactly those a header or a buffer in use lies
\* on, whatever headers share or straddle (binder_update_page_range and the
\* ranges its callers compute).
THEOREM PagesFollowNeed == Spec => []PagesAreNeeded
<1> QED BY Invariance, IInvImplies, PTL

\* No page is mapped twice or freed when it is not there, and a buffer is merged
\* into a free one only: the BUG_ONs of the allocator never fire.
THEOREM AssertionsHold == Spec => []NoAssertionFails
<1> QED BY Invariance, IInvImplies, PTL

\* The space left for one-way calls is half of the area less what they hold, over
\* every order in which buffers are taken, split, freed and joined.
THEOREM AsyncSpaceBalances == Spec => []AsyncSpaceIsAccounted
<1> QED BY Invariance, IInvImplies, PTL
=============================================================================
