----------------------------- MODULE SessionProofs -----------------------------
(***************************************************************************)
(* Proofs about the parts of the session manager that talk to others.      *)
(*   - The calls to Android (AndroidApiStub): the closure of a call runs at *)
(*     most once, and a call that reports a timeout was not completed.     *)
(*   - The calls to the container manager (SessionManager): no closure runs *)
(*     twice.                                                              *)
(*   - The ADB proxy (AdbProxy): the port has one owner.                   *)
(***************************************************************************)
EXTENDS AndroidApiStub, SessionManager, AdbProxy, FiniteSetTheorems, SequenceTheorems, TLAPS

\* A cache: finitely many calls by their ids.
IsCache(cache) == cache = [i \in DOMAIN cache |-> cache[i]] /\ IsFiniteSet(DOMAIN cache)

AllCalls == Callers \X Nat

TypeInv ==
  /\ pc \in [Callers -> {"idle", "id", "store", "save", "send", "wait"}]
  /\ chan \in [Callers -> Links] /\ calls \in [Callers -> Nat] /\ link \in Links
  /\ outcome = [c \in Callers |-> outcome[c]]
  /\ pending = [l \in Links |-> pending[l]] /\ \A l \in Links : IsCache(pending[l])
  /\ completed \in Seq(AllCalls) /\ received = Len(completed)

\* The calls that were begun and are no longer between their begin and their
\* entry in a cache.
Begun ==
  {x \in AllCalls : /\ x[2] <= calls[x[1]]
                    /\ pc[x[1]] \in {"id", "store", "save"} => x[2] < calls[x[1]]}

CallsIn(cache) == {cache[i] : i \in DOMAIN cache}

\* A call is in one cache at most, under one id, until it is completed.
PendingInv ==
  /\ \A l \in Links : CallsIn(pending[l]) \subseteq Begun
  /\ \A k \in DOMAIN completed : completed[k] \in Begun
  /\ \A l \in Links : \A k \in DOMAIN completed : completed[k] \notin CallsIn(pending[l])
  /\ \A l \in Links : \A i, j \in DOMAIN pending[l] : i # j => pending[l][i] # pending[l][j]
  /\ \A l, m \in Links : l # m => CallsIn(pending[l]) \cap CallsIn(pending[m]) = {}

IInv == TypeInv /\ PendingInv /\ CompletedOnce

\* A sequence without an element twice; two without a common element; a sequence
\* of elements of two others.
Once(s) == \A i, j \in DOMAIN s : i # j => s[i] # s[j]
Apart(s, t) == \A i \in DOMAIN s : \A j \in DOMAIN t : s[i] # t[j]
From(u, s, t) ==
  \A i \in DOMAIN u : (\E k \in DOMAIN s : u[i] = s[k]) \/ (\E k \in DOMAIN t : u[i] = t[k])

\* SetToSeq lists the elements of a finite set once.
LEMMA SetToSeqLists ==
  ASSUME NEW S, IsFiniteSet(S)
  PROVE  /\ SetToSeq(S) \in Seq(S)
         /\ Once(SetToSeq(S))
<1>1. Cardinality(S) \in Nat /\ ExistsBijection(1..Cardinality(S), S)
  BY FS_CardinalityType
<1>2. \E f \in [1..Cardinality(S) -> S] : IsInjective(f)
  BY <1>1 DEF ExistsBijection, Bijection, Injection, IsInjective
<1>3. SetToSeq(S) \in [1..Cardinality(S) -> S] /\ IsInjective(SetToSeq(S))
  BY <1>2 DEF SetToSeq
<1> HIDE DEF SetToSeq
<1>4. SetToSeq(S) \in Seq(S)
  BY <1>1, <1>3
<1> QED BY <1>3, <1>4 DEF IsInjective, Once

\* No element twice, in neither of two sequences nor in both.
LEMMA JoinedOnce ==
  ASSUME NEW X, NEW s \in Seq(X), NEW t \in Seq(X),
         Once(s), Once(t), Apart(s, t)
  PROVE  /\ s \o t \in Seq(X) /\ Len(s \o t) = Len(s) + Len(t)
         /\ From(s \o t, s, t) /\ Once(s \o t)
<1> DEFINE u == s \o t
<1>1. /\ u \in Seq(X) /\ Len(u) = Len(s) + Len(t) /\ DOMAIN u = 1 .. (Len(s) + Len(t))
      /\ DOMAIN s = 1 .. Len(s) /\ DOMAIN t = 1 .. Len(t) /\ Len(s) \in Nat /\ Len(t) \in Nat
  OBVIOUS
<1>2. \A i \in 1 .. (Len(s) + Len(t)) : u[i] = IF i <= Len(s) THEN s[i] ELSE t[i - Len(s)]
  OBVIOUS
<1> HIDE DEF u
<1>3. ASSUME NEW i \in DOMAIN u
      PROVE  \/ i \in DOMAIN s /\ u[i] = s[i]
             \/ i - Len(s) \in DOMAIN t /\ u[i] = t[i - Len(s)]
  BY <1>1, <1>2, <1>3
<1>4. ASSUME NEW i \in DOMAIN u, NEW j \in DOMAIN u, i # j PROVE u[i] # u[j]
  <2>1. i \in Int /\ j \in Int /\ i - Len(s) # j - Len(s)
    BY <1>1, <1>4
  <2> QED BY <1>3, <1>4, <2>1 DEF Once, Apart
<1> QED BY <1>1, <1>3, <1>4 DEF u, Once, From

\* What the invariant needs of a step that completes no call: the caches and the
\* calls completed stay, and a call that was begun stays so.
LEMMA NothingCompleted ==
  ASSUME IInv, TypeInv', UNCHANGED <<pending, completed>>, Begun \subseteq Begun'
  PROVE  IInv'
BY DEF IInv, PendingInv, CallsIn, CompletedOnce

\* A call stays begun when a thread moves on after it has saved its call, and
\* when a thread comes nearer to that.
LEMMA BegunStays ==
  ASSUME TypeInv, NEW c \in Callers, NEW l, pc' = [pc EXCEPT ![c] = l], calls' = calls,
         pc[c] \in {"id", "store", "save"} \/ l \notin {"id", "store", "save"},
         NEW x \in Begun
  PROVE  x \in Begun'
<1>1. x \in AllCalls /\ x[1] \in Callers
  BY DEF Begun, AllCalls
<1>2. CASE x[1] = c
  BY <1>1, <1>2 DEF Begun, TypeInv
<1>3. CASE x[1] # c
  BY <1>1, <1>3 DEF Begun, TypeInv
<1> QED BY <1>2, <1>3

\* expect_result begins a call that is in no cache yet.
LEMMA ExpectKeepsIInv ==
  ASSUME IInv, NEW c \in Callers, Expect(c)
  PROVE  IInv'
<1>1. TypeInv'
  BY DEF IInv, Expect, Goto, TypeInv, IsCache
<1>2. ASSUME NEW x \in Begun PROVE x \in Begun'
  <2>1. x \in AllCalls /\ x[1] \in Callers /\ x[2] \in Nat /\ calls[x[1]] \in Nat
    BY <1>2 DEF Begun, AllCalls, IInv, TypeInv
  <2>2. CASE x[1] = c
    <3>1. calls'[c] = calls[c] + 1
      BY DEF Expect, IInv, TypeInv
    <3> QED BY <1>2, <2>1, <2>2, <3>1 DEF Begun
  <2>3. CASE x[1] # c
    BY <1>2, <2>1, <2>3 DEF Begun, Expect, Goto, IInv, TypeInv
  <2> QED BY <2>2, <2>3
<1> QED BY <1>1, <1>2, NothingCompleted DEF Expect

\* The steps of a thread that leave the caches alone.
LEMMA MovesKeepIInv ==
  ASSUME IInv, NEW c \in Callers,
         \/ LoadId(c) \/ StoreId(c) \/ Return(c) \/ TimeOut(c)
         \/ Send(c) /\ up /\ chan[c] = link
  PROVE  IInv'
<1>0. TypeInv
  BY DEF IInv
<1>1. PICK l \in {"store", "save", "wait", "idle"} :
         /\ pc' = [pc EXCEPT ![c] = l]
         /\ pc[c] \in {"id", "store", "save"} \/ l \notin {"id", "store", "save"}
  BY Zenon DEF LoadId, StoreId, Return, TimeOut, Returns, Send, Goto
<1>2. /\ UNCHANGED <<pending, completed, received, calls, chan, link>>
      /\ outcome' = outcome \/ \E o : outcome' = [outcome EXCEPT ![c] = o]
  BY Zenon DEF LoadId, StoreId, Return, TimeOut, Returns, Send, Goto
<1>3. TypeInv'
  <2>1. outcome' = [d \in Callers |-> outcome'[d]]
    BY <1>0, <1>2 DEF TypeInv
  <2>2. pc' \in [Callers -> {"idle", "id", "store", "save", "send", "wait"}]
    BY <1>0, <1>1 DEF TypeInv
  <2> QED BY <1>0, <1>2, <2>1, <2>2 DEF TypeInv, IsCache
<1>4. ASSUME NEW x \in Begun PROVE x \in Begun'
  BY <1>0, <1>1, <1>2, <1>4, BegunStays, Zenon
<1> QED BY <1>2, <1>3, <1>4, NothingCompleted

\* The steps of the other end and of the reader that leave the caches alone.
LEMMA OthersKeepIInv ==
  ASSUME IInv, Populate \/ Disconnect \/ Connect
  PROVE  IInv'
<1>1. UNCHANGED <<pc, calls, chan, pending, completed, received, outcome>> /\ link' \in Links
  <2>1. link \in 1 .. MaxLinks /\ MaxLinks \in Nat
    BY StubAssumption DEF IInv, TypeInv, Links
  <2>2. link' = link \/ (link' = link + 1 /\ link < MaxLinks)
    <3>1. CASE Populate
      BY <3>1 DEF Populate
    <3>2. CASE Disconnect
      BY <3>2 DEF Disconnect
    <3>3. CASE Connect
      BY <3>3 DEF Connect
    <3> QED BY <3>1, <3>2, <3>3
  <2>3. link' \in 1 .. MaxLinks
    BY <2>1, <2>2
  <2> QED BY <2>3 DEF Populate, Disconnect, Connect, Links
<1>2. TypeInv'
  BY <1>1 DEF IInv, TypeInv, IsCache
<1>3. Begun \subseteq Begun'
  BY <1>1 DEF Begun
<1> QED BY <1>1, <1>2, <1>3, NothingCompleted

\* save_completion_details: the call was in no cache and is not completed, as
\* it was begun last by its thread and not saved yet.
LEMMA SaveKeepsIInv ==
  ASSUME IInv, NEW c \in Callers, Save(c), NEW h, h = chan[c], NEW me, me = ThisCall(c)
  PROVE  IInv'
<1> DEFINE cache == Saved(pending[h], id[c], me)
<1>1. /\ TypeInv /\ PendingInv /\ CompletedOnce /\ pc[c] = "save" /\ pc' = [pc EXCEPT ![c] = "send"]
      /\ pending' = [pending EXCEPT ![h] = cache]
      /\ UNCHANGED <<chan, calls, link, received, completed, outcome>>
  BY DEF IInv, Save, Goto
<1>2. h \in Links /\ IsCache(pending[h]) /\ calls[c] \in Nat
  BY <1>1 DEF TypeInv
<1>3. me \notin Begun
  <2>1. me[1] = c /\ me[2] = calls[c]
    BY DEF ThisCall
  <2> QED BY <1>1, <1>2, <2>1 DEF Begun
<1>4. me \in Begun'
  <2>1. me[1] = c /\ me[2] = calls[c] /\ me \in AllCalls
    BY <1>2 DEF ThisCall, AllCalls
  <2>2. pc'[c] = "send"
    BY <1>1 DEF TypeInv
  <2> QED BY <1>1, <1>2, <2>1, <2>2 DEF Begun, ThisCall, AllCalls
<1>5. Begun \subseteq Begun'
  BY <1>1, BegunStays, Zenon
<1>6. /\ DOMAIN cache = DOMAIN pending[h] \cup {id[c]} /\ cache[id[c]] = me
      /\ \A i \in DOMAIN pending[h] : i # id[c] => cache[i] = pending[h][i]
  BY DEF Saved
<1>7. IsCache(cache)
  <2>1. IsFiniteSet(DOMAIN pending[h] \cup {id[c]})
    BY <1>2, FS_AddElement DEF IsCache
  <2> QED BY <1>6, <2>1 DEF IsCache, Saved
<1> HIDE DEF cache
<1>8. pending'[h] = cache /\ \A l \in Links \ {h} : pending'[l] = pending[l]
  BY <1>1, <1>2 DEF TypeInv
<1>9. \A x \in CallsIn(pending'[h]) : x = me \/ x \in CallsIn(pending[h])
  BY <1>6, <1>8 DEF CallsIn
<1>10. \A l \in Links \ {h} : CallsIn(pending'[l]) = CallsIn(pending[l])
  BY <1>8 DEF CallsIn
<1>11. TypeInv'
  <2>1. pending' = [l \in Links |-> pending'[l]]
    BY <1>1, <1>2 DEF TypeInv
  <2>2. \A l \in Links : IsCache(pending'[l])
    BY <1>1, <1>7, <1>8 DEF TypeInv
  <2>3. pc' \in [Callers -> {"idle", "id", "store", "save", "send", "wait"}]
    BY <1>1 DEF TypeInv
  <2> QED BY <1>1, <2>1, <2>2, <2>3 DEF TypeInv
<1>12. PendingInv'
  <2>1. \A l \in Links : \A x \in CallsIn(pending[l]) : x # me
    BY <1>1, <1>3 DEF PendingInv
  <2>2. \A k \in DOMAIN completed : completed[k] # me
    BY <1>1, <1>3 DEF PendingInv
  <2>3. \A l \in Links : CallsIn(pending'[l]) \subseteq Begun'
    BY <1>1, <1>4, <1>5, <1>9, <1>10 DEF PendingInv
  <2>4. \A k \in DOMAIN completed' : completed'[k] \in Begun'
    BY <1>1, <1>5 DEF PendingInv
  <2>5. \A l \in Links : \A k \in DOMAIN completed' : completed'[k] \notin CallsIn(pending'[l])
    BY <1>1, <1>9, <1>10, <2>2 DEF PendingInv
  <2>6. \A l \in Links : \A i, j \in DOMAIN pending'[l] : i # j => pending'[l][i] # pending'[l][j]
    <3>1. \A i, j \in DOMAIN cache : i # j => cache[i] # cache[j]
      <4>1. \A i \in DOMAIN pending[h] : pending[h][i] # me
        BY <1>2, <2>1 DEF CallsIn
      <4>2. \A i, j \in DOMAIN pending[h] : i # j => pending[h][i] # pending[h][j]
        BY <1>1, <1>2 DEF PendingInv
      <4> QED BY <1>6, <4>1, <4>2
    <3> QED BY <1>1, <1>8, <3>1 DEF PendingInv
  <2>7. \A l, m \in Links : l # m => CallsIn(pending'[l]) \cap CallsIn(pending'[m]) = {}
    BY <1>1, <1>2, <1>9, <1>10, <2>1 DEF PendingInv
  <2> QED BY <2>3, <2>4, <2>5, <2>6, <2>7 DEF PendingInv
<1>13. CompletedOnce'
  BY <1>1 DEF CompletedOnce
<1> QED BY <1>11, <1>12, <1>13 DEF IInv

\* The cache of channel h becomes what is left of it without the calls of s.
Leaves(h, left, s) ==
  /\ pending' = [pending EXCEPT ![h] = left] /\ IsCache(left)
  /\ \A i \in DOMAIN left : i \in DOMAIN pending[h] /\ left[i] = pending[h][i]
  /\ \A i \in DOMAIN left : \A k \in DOMAIN s : left[i] # s[k]

\* Calls of one cache are completed and leave it.
LEMMA CompletionKeepsIInv ==
  ASSUME IInv, NEW h \in Links, NEW s, s \in Seq(CallsIn(pending[h])),
         Once(s), Complete(s), NEW left, Leaves(h, left, s),
         UNCHANGED <<calls, chan, link>>, pc' \in [Callers -> {"idle", "id", "store", "save", "send", "wait"}],
         outcome' = [c \in Callers |-> outcome'[c]],
         Begun \subseteq Begun'
  PROVE  IInv'
<1>1. TypeInv /\ PendingInv /\ CompletedOnce
  BY DEF IInv
<1>2. pending'[h] = left /\ \A l \in Links \ {h} : pending'[l] = pending[l]
  BY <1>1 DEF TypeInv, Leaves
<1>3. \A l \in Links : CallsIn(pending'[l]) \subseteq CallsIn(pending[l])
  BY <1>2 DEF CallsIn, Leaves
<1>4. \A k \in DOMAIN s : s[k] \in CallsIn(pending[h])
  OBVIOUS
<1>5. CallsIn(pending[h]) \subseteq AllCalls
  BY <1>1 DEF PendingInv, Begun
<1>6. s \in Seq(AllCalls) /\ completed \in Seq(AllCalls)
  BY <1>1, <1>5 DEF TypeInv
<1>7. Apart(completed, s) /\ Once(completed)
  BY <1>1, <1>4 DEF PendingInv, Apart, CompletedOnce, Once
<1>8. /\ completed' \in Seq(AllCalls) /\ Len(completed') = Len(completed) + Len(s)
      /\ \A i \in DOMAIN completed' : (\E k \in DOMAIN completed : completed'[i] = completed[k])
                                      \/ (\E k \in DOMAIN s : completed'[i] = s[k])
      /\ \A i, j \in DOMAIN completed' : i # j => completed'[i] # completed'[j]
  <2> DEFINE u == completed \o s
  <2>3. u \in Seq(AllCalls) /\ Len(u) = Len(completed) + Len(s) /\ From(u, completed, s) /\ Once(u)
    BY <1>6, <1>7, JoinedOnce
  <2> HIDE DEF u
  <2>4. completed' = u
    BY DEF u, Complete
  <2> QED BY <2>3, <2>4 DEF Once, From
<1>9. TypeInv'
  <2>1. received' = Len(completed')
    BY <1>1, <1>8 DEF TypeInv, Complete
  <2>2. pending' = [l \in Links |-> pending'[l]]
    BY <1>1 DEF TypeInv, Leaves
  <2>3. \A l \in Links : IsCache(pending'[l])
    BY <1>1, <1>2 DEF TypeInv, Leaves
  <2> QED BY <1>1, <1>8, <2>1, <2>2, <2>3 DEF TypeInv
<1>10. PendingInv'
  <2>1. \A l \in Links : CallsIn(pending'[l]) \subseteq Begun'
    BY <1>1, <1>3 DEF PendingInv
  <2>2. \A k \in DOMAIN completed' : completed'[k] \in Begun'
    BY <1>1, <1>4, <1>8 DEF PendingInv
  <2>3. ASSUME NEW l \in Links, NEW k \in DOMAIN completed' PROVE completed'[k] \notin CallsIn(pending'[l])
    <3>1. CASE \E n \in DOMAIN completed : completed'[k] = completed[n]
      BY <1>1, <1>3, <3>1, Zenon DEF PendingInv
    <3>2. CASE \E n \in DOMAIN s : completed'[k] = s[n]
      <4>1. PICK n \in DOMAIN s : completed'[k] = s[n]
        BY <3>2
      <4>2. CASE l = h
        BY <1>2, <4>1, <4>2 DEF CallsIn, Leaves
      <4>3. CASE l # h
        <5>1. s[n] \notin CallsIn(pending[l])
          BY <1>1, <1>4, <4>3, Zenon DEF PendingInv
        <5> QED BY <1>3, <4>1, <5>1
      <4> QED BY <4>2, <4>3
    <3> QED BY <1>8, <3>1, <3>2
  <2>4. \A l \in Links : \A i, j \in DOMAIN pending'[l] : i # j => pending'[l][i] # pending'[l][j]
    BY <1>1, <1>2 DEF PendingInv, Leaves
  <2>5. \A l, m \in Links : l # m => CallsIn(pending'[l]) \cap CallsIn(pending'[m]) = {}
    BY <1>1, <1>3, Zenon DEF PendingInv
  <2> QED BY <2>1, <2>2, <2>3, <2>4, <2>5, Zenon DEF PendingInv
<1>11. CompletedOnce'
  BY <1>8 DEF CompletedOnce
<1> QED BY <1>9, <1>10, <1>11 DEF IInv

\* A send that fails completes all calls of the channel's cache.
LEMMA FailedSendKeepsIInv ==
  ASSUME IInv, NEW c \in Callers, Send(c), ~(up /\ chan[c] = link)
  PROVE  IInv'
<1>1. PICK h \in Links : h = chan[c]
  BY DEF IInv, TypeInv
<1>2. PICK s : s = SetToSeq(CallsIn(pending[h]))
  OBVIOUS
<1>3. /\ Complete(s) /\ pending' = [pending EXCEPT ![h] = <<>>] /\ pc' = [pc EXCEPT ![c] = "idle"]
      /\ outcome' = [outcome EXCEPT ![c] = "send failed"] /\ UNCHANGED <<calls, chan, link>>
  <2>1. /\ ForceCompletion(chan[c]) /\ pc' = [pc EXCEPT ![c] = "idle"]
        /\ outcome' = [outcome EXCEPT ![c] = "send failed"] /\ UNCHANGED <<calls, chan, link>>
    BY Zenon DEF Send, Goto
  <2>2. Complete(s) /\ pending' = [pending EXCEPT ![h] = <<>>]
    BY <1>1, <1>2, <2>1, Zenon DEF ForceCompletion, CallsIn
  <2> QED BY <2>1, <2>2, Zenon
<1>4. s \in Seq(CallsIn(pending[h])) /\ Once(s)
  <2>1. IsFiniteSet(CallsIn(pending[h]))
    <3>1. IsFiniteSet(DOMAIN pending[h])
      BY DEF IInv, TypeInv, IsCache
    <3>2. pending[h] \in Surjection(DOMAIN pending[h], CallsIn(pending[h]))
      BY DEF IInv, TypeInv, IsCache, CallsIn, Surjection
    <3> QED BY <3>1, <3>2, FS_Surjection DEF ExistsSurjection
  <2> QED BY <1>2, <2>1, SetToSeqLists
<1>5. IsCache(<<>>) /\ DOMAIN <<>> = {}
  BY FS_EmptySet DEF IsCache
<1>6. Begun \subseteq Begun'
  BY <1>3, BegunStays, Zenon DEF IInv
<1>7. pc' \in [Callers -> {"idle", "id", "store", "save", "send", "wait"}]
  BY <1>3, Zenon DEF IInv, TypeInv
<1>8. outcome' = [d \in Callers |-> outcome'[d]]
  BY <1>3, Zenon DEF IInv, TypeInv
<1>9. Leaves(h, <<>>, s)
  BY <1>3, <1>5, Zenon DEF Leaves
<1> QED BY <1>1, <1>3, <1>4, <1>6, <1>7, <1>8, <1>9, CompletionKeepsIInv, Zenon

\* An answer completes the call under its id, if the cache still has it.
LEMMA ResponseKeepsIInv ==
  ASSUME IInv, CompleteResponse
  PROVE  IInv'
<1>0. TypeInv /\ UNCHANGED <<pc, calls, chan, link, outcome>>
  BY DEF IInv, CompleteResponse
<1>1. Begun \subseteq Begun'
  BY <1>0 DEF Begun
<1>2. PICK h \in Links : h = link
  BY <1>0 DEF TypeInv
<1>5. PICK i : i = Head(inflight)
  OBVIOUS
<1>3. CASE i \in DOMAIN pending[h]
  <2> DEFINE x == pending[h][i]
             left == [j \in DOMAIN pending[h] \ {i} |-> pending[h][j]]
  <2>1. Complete(<<x>>) /\ pending' = [pending EXCEPT ![h] = left]
    BY <1>2, <1>3, <1>5 DEF CompleteResponse
  <2>2. x \in CallsIn(pending[h])
    BY <1>3 DEF CallsIn
  <2>3. <<x>> \in Seq(CallsIn(pending[h])) /\ Once(<<x>>) /\ \A k \in DOMAIN <<x>> : <<x>>[k] = x
    <3> HIDE DEF x
    <3> QED BY <2>2 DEF Once
  <2>4. IsCache(left)
    <3>1. IsFiniteSet(DOMAIN pending[h])
      BY <1>0 DEF TypeInv, IsCache
    <3>2. IsFiniteSet(DOMAIN left)
      BY <3>1, FS_Subset
    <3> QED BY <3>2 DEF IsCache
  <2>5. \A j \in DOMAIN left : j \in DOMAIN pending[h] /\ left[j] = pending[h][j] /\ left[j] # x
    BY <1>3 DEF IInv, PendingInv
  <2> HIDE DEF x, left
  <2>6. \A j \in DOMAIN left : \A k \in DOMAIN <<x>> : left[j] # <<x>>[k]
    BY <2>3, <2>5
  <2>7. PICK s : s = <<x>>
    BY Zenon
  <2>8. s \in Seq(CallsIn(pending[h])) /\ Once(s) /\ Complete(s) /\ \A j \in DOMAIN left : \A k \in DOMAIN s : left[j] # s[k]
    BY <2>1, <2>3, <2>6, <2>7
  <2>9. /\ pc' \in [Callers -> {"idle", "id", "store", "save", "send", "wait"}]
        /\ outcome' = [d \in Callers |-> outcome'[d]]
    BY <1>0 DEF TypeInv
  <2>10. \A j \in DOMAIN left : j \in DOMAIN pending[h] /\ left[j] = pending[h][j]
    BY <2>5
  <2>11. Leaves(h, left, s)
    BY <2>1, <2>4, <2>8, <2>10 DEF Leaves
  <2> QED BY <1>0, <1>1, <2>8, <2>9, <2>11, CompletionKeepsIInv
<1>4. CASE i \notin DOMAIN pending[h]
  <2>1. UNCHANGED <<received, completed, pending>>
    BY <1>2, <1>4, <1>5 DEF CompleteResponse
  <2>2. TypeInv'
    BY <1>0, <2>1 DEF TypeInv, IsCache
  <2> QED BY <1>1, <2>1, <2>2, NothingCompleted
<1> QED BY <1>3, <1>4

\* Initially nothing was begun.
LEMMA InitIInv == Init => IInv
<1> SUFFICES ASSUME Init PROVE IInv
  OBVIOUS
<1>1. 1 \in Links
  BY StubAssumption DEF Links
<1>2. IsCache(<<>>) /\ DOMAIN <<>> = {}
  BY FS_EmptySet DEF IsCache
<1>3. \A l \in Links : pending[l] = <<>>
  BY DEF Init
<1>4. completed \in Seq(AllCalls) /\ Len(completed) = 0 /\ DOMAIN completed = {}
  BY DEF Init
<1>5. TypeInv
  BY <1>1, <1>2, <1>3, <1>4 DEF Init, TypeInv
<1>6. \A l \in Links : CallsIn(pending[l]) = {}
  BY <1>2, <1>3 DEF CallsIn
<1>7. PendingInv
  BY <1>2, <1>3, <1>4, <1>6, Zenon DEF PendingInv
<1> QED BY <1>4, <1>5, <1>7 DEF IInv, CompletedOnce

\* Every step keeps the invariant.
LEMMA NextIInv == IInv /\ [Next]_vars => IInv'
<1> SUFFICES ASSUME IInv, [Next]_vars PROVE IInv'
  OBVIOUS
<1>1. CASE UNCHANGED vars
  <2>1. TypeInv'
    BY <1>1 DEF vars, IInv, TypeInv, IsCache
  <2>2. Begun \subseteq Begun' /\ UNCHANGED <<pending, completed>>
    BY <1>1 DEF vars, Begun
  <2> QED BY <2>1, <2>2, NothingCompleted
<1>2. ASSUME NEW c \in Callers, CallerStep(c) PROVE IInv'
  <2>1. CASE Expect(c)
    BY <2>1, ExpectKeepsIInv
  <2>2. CASE Save(c)
    BY <2>2, SaveKeepsIInv
  <2>3. CASE LoadId(c) \/ StoreId(c) \/ Return(c) \/ TimeOut(c)
    BY <2>3, MovesKeepIInv
  <2>4. CASE Send(c)
    BY <2>4, MovesKeepIInv, FailedSendKeepsIInv
  <2> QED BY <1>2, <2>1, <2>2, <2>3, <2>4 DEF CallerStep
<1>3. CASE Populate \/ Disconnect \/ Connect
  BY <1>3, OthersKeepIInv
<1>4. CASE CompleteResponse
  BY <1>4, ResponseKeepsIInv
<1> QED BY <1>1, <1>2, <1>3, <1>4 DEF Next

\* The invariant holds in every state.
THEOREM Invariance == Spec => []IInv
<1> QED BY InitIInv, NextIInv, PTL DEF Spec

\* The closure of a call runs once at most: complete_response and
\* force_completion take a call out of its cache before they run its closure.
THEOREM ClosuresRunOnce == Spec => []CompletedOnce
<1>1. IInv => CompletedOnce
  BY DEF IInv
<1> QED BY <1>1, Invariance, PTL

\* Nothing received, nothing completed.
LEMMA NothingReceived ==
  ASSUME TypeInv, ~(received > 0)
  PROVE  DOMAIN completed = {}
<1>1. completed \in Seq(AllCalls) /\ received = Len(completed)
  BY DEF TypeInv
<1>2. Len(completed) \in Nat /\ DOMAIN completed = 1 .. Len(completed)
  BY <1>1, LenProperties
<1> QED BY <1>1, <1>2

\* Only a thread whose wait ran out while nothing at all was received reports a
\* timeout.
LEMMA TimeoutStep ==
  ASSUME IInv, [Next]_vars, NEW c \in Callers,
         pc[c] = "wait", pc'[c] = "idle", outcome'[c] = "timed out"
  PROVE  ThisCall(c) \notin Range(completed)
<1>0. TypeInv
  BY Zenon DEF IInv
<1>1. TimeOut(c)
  <2>1. pc' # pc
    BY <1>0, Zenon
  <2>2. PICK d \in Callers : CallerStep(d)
    BY <2>1, Zenon DEF Next, vars, Populate, CompleteResponse, Disconnect, Connect
  <2>3. \E l : pc' = [pc EXCEPT ![d] = l]
    BY <2>2, Zenon DEF CallerStep, Expect, LoadId, StoreId, Save, Send, Return, TimeOut, Returns, Goto
  <2>4. d = c
    BY <1>0, <2>3, Zenon DEF TypeInv
  <2>5. Return(c) \/ TimeOut(c)
    BY <2>2, <2>4, Zenon DEF CallerStep, Expect, LoadId, StoreId, Save, Send
  <2>6. ~Return(c)
    BY <1>0, Zenon DEF Return, Returns, TypeInv
  <2> QED BY <2>5, <2>6, Zenon
<1>2. ~(received > 0)
  BY <1>0, <1>1, Zenon DEF TimeOut, Returns, TypeInv
<1>3. DOMAIN completed = {}
  BY <1>0, <1>2, NothingReceived, Zenon
<1> QED BY <1>3, Zenon DEF Range

\* A call that reports a timeout was not completed: wait_for_pending gave up, and
\* has_result found that the handle never received anything.
THEOREM TimeoutsAreReal == Spec => TimeoutIsReal
<1>1. IInv /\ [Next]_vars =>
        [\A c \in Callers :
           pc[c] = "wait" /\ pc'[c] = "idle" /\ outcome'[c] = "timed out"
             => ThisCall(c) \notin Range(completed)]_vars
  BY TimeoutStep, Zenon
<1> QED BY <1>1, Invariance, PTL DEF Spec, TimeoutIsReal

-----------------------------------------------------------------------------
(***************************************************************************)
(* The session manager as a client of the container manager.               *)
(***************************************************************************)
\* A call is pending, completed, or not begun; only one of these at a time.
ClientBegun(c) == IF c = "start" THEN starter \notin {"queued", "save"} ELSE main # "run"

ClientInv ==
  /\ pendingCalls \subseteq Calls
  /\ runs \in [Calls -> 0 .. 1] /\ handleReceived = runs
  /\ \A c \in Calls : c \in pendingCalls => runs[c] = 0
  /\ \A c \in Calls : ~ClientBegun(c) => c \notin pendingCalls /\ runs[c] = 0

\* The closures of pending calls have not run, so running them is safe; this is
\* all that complete_response and force_completion do.
LEMMA RunClosuresOnce ==
  ASSUME ClientInv, NEW C, C \subseteq pendingCalls, RunClosures(C), pendingCalls' = pendingCalls \ C,
         \A c \in Calls : ClientBegun(c)' = ClientBegun(c)
  PROVE  ClientInv'
BY DEF ClientInv, RunClosures

\* A call is saved by the thread that begins it, once.
LEMMA SaveOnce ==
  ASSUME ClientInv, NEW c \in Calls, ~ClientBegun(c), SaveCompletionDetails(c), ClientBegun(c)',
         \A d \in Calls : d # c => ClientBegun(d)' = ClientBegun(d)
  PROVE  ClientInv'
BY DEF ClientInv, SaveCompletionDetails

\* force_completion takes every pending call out of the cache and runs it.
LEMMA SendThrowsOnce ==
  ASSUME ClientInv, SendThrows, \A c \in Calls : ClientBegun(c)' = ClientBegun(c)
  PROVE  ClientInv'
<1>1. RunClosures(pendingCalls) /\ pendingCalls' = pendingCalls \ pendingCalls
  BY DEF SendThrows, ForceCompletionOfAll
<1> QED BY <1>1, RunClosuresOnce

\* Every step of the session manager keeps it.
LEMMA ClientInvariance == ClientInv /\ [SessionNext]_sessionVars => ClientInv'
<1> SUFFICES ASSUME ClientInv, [SessionNext]_sessionVars PROVE ClientInv'
  OBVIOUS
<1> USE DEF ClientBegun
<1>1. CASE StartBegin
  BY <1>1 DEF StartBegin, clientVars, ClientInv
<1>2. CASE StartSave
  BY <1>2, SaveOnce DEF StartSave, Calls
<1>3. CASE StartSend
  <2>1. CASE Sends("start")
    BY <1>3, <2>1 DEF StartSend, Sends, clientVars, ClientInv
  <2>2. CASE SendThrows
    BY <1>3, <2>2, SendThrowsOnce DEF StartSend
  <2> QED BY <1>3, <2>1, <2>2 DEF StartSend
<1>4. CASE StartReturns
  BY <1>4 DEF StartReturns, clientVars, ClientInv
<1>5. CASE ReadPopulate
  BY <1>5 DEF ReadPopulate, ClientInv
<1>6. CASE ReadComplete
  <2>1. pendingCalls' = pendingCalls \ ({answer.call} \cap pendingCalls)
    BY <1>6 DEF ReadComplete
  <2> QED BY <1>6, <2>1, RunClosuresOnce DEF ReadComplete
<1>7. CASE ReadFails
  BY <1>7 DEF ReadFails, clientVars, ClientInv
<1>8. CASE StopSave
  BY <1>8, SaveOnce DEF StopSave, Calls
<1>9. CASE StopSend
  <2>1. CASE Sends("stop")
    BY <1>9, <2>1 DEF StopSend, Sends, clientVars, ClientInv
  <2>2. CASE SendThrows
    BY <1>9, <2>2, SendThrowsOnce DEF StopSend
  <2> QED BY <1>9, <2>1, <2>2 DEF StopSend
<1>10. CASE StopReturns \/ StopTimesOut \/ Halt \/ Join
  BY <1>10 DEF StopReturns, StopTimesOut, Halt, Join, clientVars, ClientInv
<1>11. CASE Signal \/ Answer \/ Die \/ UNCHANGED sessionVars
  BY <1>11 DEF Signal, Answer, Die, clientVars, sessionVars, ClientInv
<1> QED
  BY <1>1, <1>2, <1>3, <1>4, <1>5, <1>6, <1>7, <1>8, <1>9, <1>10, <1>11
  DEF SessionNext, StarterStep, ReaderStep, MainStep

\* The closure of a start or stop call runs once at most, in every order of the
\* answer, the failing sends and the end of the session
\* (pending_call_cache.cpp:46-69).
THEOREM NoClosureRunsTwice == SessionSpec => []ClosureRunsOnce
<1>1. SessionInit => ClientInv
  BY DEF SessionInit, ClientInv, ClientBegun, Calls
<1>2. ClientInv => ClosureRunsOnce
  <2> SUFFICES ASSUME ClientInv, NEW c \in Calls PROVE runs[c] <= 1
    BY DEF ClosureRunsOnce
  <2>1. runs[c] \in 0 .. 1
    BY DEF ClientInv
  <2> QED BY <2>1
<1> QED BY <1>1, <1>2, ClientInvariance, PTL DEF SessionSpec

-----------------------------------------------------------------------------
(***************************************************************************)
(* The ADB proxy.                                                          *)
(***************************************************************************)
\* Whoever has a connector, or is about to make one, holds the lock; a connection
\* that is being destroyed has none left when it unlocks.
OwnerInv ==
  /\ connector \subseteq Conns /\ DOMAIN socket = Conns
  /\ PortHasOneOwner
  /\ \A c \in Conns : socket[c] = "opening" => lock = c
  /\ \A c \in Conns : socket[c] \in {"unlocking", "dropping"} => c \notin connector

\* A connection that gets the free lock finds no connector.
LEMMA LockedOwns ==
  ASSUME OwnerInv, NEW c \in Conns, lock = 0, Owns(c), connector' = connector
  PROVE  OwnerInv'
<1>1. connector = {} /\ \A d \in Conns : socket[d] # "opening"
  BY DEF OwnerInv, PortHasOneOwner, Conns
<1>2. lock' = c /\ socket' = [socket EXCEPT ![c] = "opening"]
  BY DEF Owns
<1>3. \A d \in Conns : socket'[d] = "opening" => d = c
  BY <1>1, <1>2 DEF OwnerInv
<1> QED BY <1>1, <1>2, <1>3 DEF OwnerInv, PortHasOneOwner

\* It makes its connector with the lock.
LEMMA WaitingOwns ==
  ASSUME OwnerInv, NEW c \in Conns, WaitForHost(c)
  PROVE  OwnerInv'
<1>1. /\ socket[c] = "opening" /\ socket' = [socket EXCEPT ![c] = "open"] /\ lock' = lock
      /\ connector' = {c} \/ connector' = connector
  BY DEF WaitForHost
<1>2. lock = c
  BY <1>1 DEF OwnerInv
<1>3. \A d \in Conns : d # c => socket'[d] = socket[d]
  BY <1>1 DEF OwnerInv
<1>4. socket'[c] = "open" /\ DOMAIN socket' = Conns
  BY <1>1 DEF OwnerInv
<1> QED BY <1>1, <1>2, <1>3, <1>4 DEF OwnerInv, PortHasOneOwner

\* A connection that is destroyed gives the port up ...
LEMMA DestroyedGivesUp ==
  ASSUME OwnerInv, NEW c \in Conns, Destroy(c)
  PROVE  OwnerInv'
<1>1. /\ socket' = [socket EXCEPT ![c] = "unlocking"] /\ lock' = lock
      /\ connector' = connector \ {c}
  BY DEF Destroy
<1>2. \A d \in Conns : d # c => socket'[d] = socket[d]
  BY <1>1 DEF OwnerInv
<1>3. socket'[c] = "unlocking" /\ DOMAIN socket' = Conns
  BY <1>1 DEF OwnerInv
<1> QED BY <1>1, <1>2, <1>3 DEF OwnerInv, PortHasOneOwner

\* ... and then the lock.
LEMMA UnlockedOwnsNothing ==
  ASSUME OwnerInv, NEW c \in Conns, Unlock(c)
  PROVE  OwnerInv'
<1>1. /\ socket[c] = "unlocking" /\ socket' = [socket EXCEPT ![c] = "dropping"]
      /\ lock' = IF lock = c THEN 0 ELSE lock
      /\ connector' = connector
  BY DEF Unlock, hostVars
<1>2. \A d \in Conns : d # c => socket'[d] = socket[d]
  BY <1>1 DEF OwnerInv
<1>3. socket'[c] = "dropping" /\ DOMAIN socket' = Conns
  BY <1>1 DEF OwnerInv
<1>4. c \notin connector
  BY <1>1 DEF OwnerInv
<1>5. lock = c => connector = {} /\ \A d \in Conns : socket[d] # "opening"
  BY <1>1, <1>4 DEF OwnerInv, PortHasOneOwner
<1> QED BY <1>1, <1>2, <1>3, <1>4, <1>5 DEF OwnerInv, PortHasOneOwner

\* The sockets that go last are not the port's.
LEMMA DroppedOwnsNothing ==
  ASSUME OwnerInv, NEW c \in Conns, DropSockets(c)
  PROVE  OwnerInv'
<1>1. /\ socket' = [socket EXCEPT ![c] = "removed"] /\ lock' = lock
      /\ connector' = connector \ {c}
  BY DEF DropSockets
<1>2. \A d \in Conns : d # c => socket'[d] = socket[d]
  BY <1>1 DEF OwnerInv
<1>3. socket'[c] = "removed" /\ DOMAIN socket' = Conns
  BY <1>1 DEF OwnerInv
<1> QED BY <1>1, <1>2, <1>3 DEF OwnerInv, PortHasOneOwner

\* The other steps change neither the lock nor the connectors, and no socket to
\* one that is being opened or destroyed.
LEMMA OthersKeepOwner ==
  ASSUME OwnerInv, lock' = lock, connector' = connector,
         \/ socket' = socket
         \/ \E c \in Conns, v \in {"backlog", "accepted", "naming", "open", "unnamed"} :
              socket' = [socket EXCEPT ![c] = v]
  PROVE  OwnerInv'
BY DEF OwnerInv, PortHasOneOwner

\* Every step keeps the owner of the port.
LEMMA NextKeepsOwner ==
  ASSUME OwnerInv, [AdbNext]_adbVars
  PROVE  OwnerInv'
<1>1. CASE UNCHANGED adbVars
  BY <1>1, OthersKeepOwner DEF adbVars, netVars, procVars, hostVars
<1>2. CASE GuestRestarts
  BY <1>2, OthersKeepOwner DEF GuestRestarts, netVars, procVars, hostVars
<1>3. ASSUME NEW c \in Conns, \/ GuestOpens(c) \/ GuestNames(c) \/ GuestWrites(c) \/ GuestCloses(c)
                              \/ HostConnects(c) \/ HostDrops(c)
      PROVE  OwnerInv'
  BY <1>3, OthersKeepOwner, Zenon
     DEF GuestOpens, GuestNames, GuestWrites, GuestCloses, HostConnects, HostDrops,
         netVars, procVars, hostVars
<1>4. ASSUME NEW c \in Conns, \/ Reactor(c) \/ Identified(c) \/ Unidentified(c)
                              \/ RunAccept(c) \/ RunHost(c) \/ RunHostRead(c)
      PROVE  OwnerInv'
  BY <1>4, OthersKeepOwner, Zenon
     DEF Reactor, AcceptReady, ReadReady, HostReadReady, Identified, Unidentified,
         RunAccept, RunHost, RunHostRead, netVars, procVars, hostVars
<1>5. ASSUME NEW c \in Conns, Locked(c) PROVE OwnerInv'
  BY <1>5, LockedOwns DEF Locked, hostVars
<1>6. ASSUME NEW c \in Conns, RunRead(c) PROVE OwnerInv'
  <2>1. CASE Destroy(c)
    BY <2>1, DestroyedGivesUp
  <2>2. CASE AcceptCommand(c)
    BY <2>2, LockedOwns, OthersKeepOwner DEF AcceptCommand, hostVars
  <2>3. CASE Proxy(c) \/ StartCommand(c) \/ (ReadNext(c) /\ UNCHANGED <<guestVars, procVars, hostVars>>)
    BY <2>3, OthersKeepOwner DEF Proxy, StartCommand, ReadNext, procVars, hostVars
  <2> QED BY <1>6, <2>1, <2>2, <2>3, Zenon DEF RunRead
<1>7. ASSUME NEW c \in Conns, Continues(c) PROVE OwnerInv'
  BY <1>4, <1>7, WaitingOwns, UnlockedOwnsNothing, DroppedOwnsNothing DEF Continues
<1> QED BY <1>1, <1>2, <1>3, <1>4, <1>5, <1>6, <1>7 DEF AdbNext, Handler

\* The port the host's adb connects to never has two owners, for any number of
\* connections, workers and hosts: it changes hands only with the lock, in the
\* order in which the processor is destroyed (lines 60-64, 73, 115-121).
THEOREM ThePortHasOneOwner == AdbSpec => []PortHasOneOwner
<1>1. AdbInit => OwnerInv
  BY DEF AdbInit, OwnerInv, PortHasOneOwner
<1>2. OwnerInv /\ [AdbNext]_adbVars => OwnerInv'
  BY NextKeepsOwner
<1>3. OwnerInv => PortHasOneOwner
  BY DEF OwnerInv
<1> QED BY <1>1, <1>2, <1>3, PTL DEF AdbSpec
=============================================================================
