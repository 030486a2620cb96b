------------------------ MODULE MessageFramingProofs ------------------------
(***************************************************************************)
(* Proofs about MessageFraming: however the bytes are cut into pieces, the *)
(* receiver dispatches what was sent.                                      *)
(***************************************************************************)
EXTENDS MessageFraming, SequenceTheorems, WellFoundedInduction, TLAPS

(***************************************************************************)
(* Sizes in headers.                                                       *)
(***************************************************************************)
\* The lowest digit and the rest.
LEMMA DigitSplit ==
  ASSUME NEW n \in Nat
  PROVE  /\ Quotient(n) \in Nat /\ n % ByteBase \in Bytes
         /\ n = Quotient(n) * ByteBase + (n % ByteBase)
<1>1. ByteBase \in Nat /\ ByteBase > 0
  BY FramingAssumption
<1>2. n \div ByteBase \in Nat /\ n % ByteBase \in 0..(ByteBase - 1)
  BY <1>1
<1>3. n = (n \div ByteBase) * ByteBase + (n % ByteBase)
  BY <1>1
<1> QED BY <1>2, <1>3 DEF Quotient, Bytes

\* What has d + 1 digits has d digits without the lowest.
LEMMA QuotientBound ==
  ASSUME NEW n \in Nat, NEW b \in Nat, n < b * ByteBase
  PROVE  Quotient(n) < b
<1>1. PICK q \in Nat, r \in Nat : q = Quotient(n) /\ n = q * ByteBase + r
  <2>1. Quotient(n) \in Nat /\ n % ByteBase \in Bytes
        /\ n = Quotient(n) * ByteBase + (n % ByteBase)
    BY DigitSplit
  <2>2. n % ByteBase \in Nat
    BY <2>1, FramingAssumption DEF Bytes
  <2> QED BY <2>1, <2>2, Zenon
<1>2. ASSUME q >= b PROVE FALSE
  <2>1. q * ByteBase >= b * ByteBase /\ q * ByteBase \in Nat /\ b * ByteBase \in Nat
    BY <1>1, <1>2, FramingAssumption
  <2> QED BY <1>1, <2>1
<1> QED BY <1>1, <1>2

\* A digit is what it is.
LEMMA OneDigit ==
  ASSUME NEW n \in Nat, n < ByteBase
  PROVE  n % ByteBase = n /\ Quotient(n) = 0
BY FramingAssumption DEF Quotient

\* The digits of a size give no more than the size, and the size if it has not
\* more than three of them.
LEMMA ThreeDigits ==
  ASSUME NEW n \in Nat
  PROVE  \E x, y, z \in Bytes :
           /\ Digits3(n) = <<x, y, z>> /\ (x * ByteBase + y) * ByteBase + z <= n
           /\ n < ByteBase * ByteBase * ByteBase => (x * ByteBase + y) * ByteBase + z = n
<1> DEFINE q == Quotient(n)
           p == Quotient(q)
<1>1. ByteBase \in Nat /\ ByteBase > 0 /\ ByteBase * ByteBase \in Nat
  BY FramingAssumption
<1>2. q \in Nat /\ n % ByteBase \in Bytes /\ n = q * ByteBase + (n % ByteBase)
  BY DigitSplit
<1>3. n < ByteBase * ByteBase * ByteBase => q < ByteBase * ByteBase
  BY <1>1, QuotientBound
<1> HIDE DEF q
<1>4. p \in Nat /\ q % ByteBase \in Bytes /\ q = p * ByteBase + (q % ByteBase)
  BY <1>2, DigitSplit
<1>5. q < ByteBase * ByteBase => p < ByteBase
  BY <1>1, <1>2, QuotientBound
<1> HIDE DEF p
<1>6. p % ByteBase \in Bytes /\ p = Quotient(p) * ByteBase + (p % ByteBase) /\ Quotient(p) \in Nat
  BY <1>4, DigitSplit
<1>7. p < ByteBase => p % ByteBase = p
  BY <1>4, OneDigit
<1>8. Digits3(n) = <<p % ByteBase, q % ByteBase, n % ByteBase>>
  BY DEF Digits3, p, q
<1>9. PICK x \in Bytes, y \in Bytes, z \in Bytes :
        x = p % ByteBase /\ y = q % ByteBase /\ z = n % ByteBase
  BY <1>2, <1>4, <1>6, Zenon
<1>10. q = p * ByteBase + y /\ n = q * ByteBase + z
  BY <1>2, <1>4, <1>9
<1>11. x \in Nat /\ y \in Nat /\ z \in Nat
  BY <1>1 DEF Bytes
<1>12. x <= p
  <2>1. p = Quotient(p) * ByteBase + x /\ Quotient(p) * ByteBase \in Nat
    BY <1>1, <1>6, <1>9
  <2> QED BY <1>4, <1>11, <2>1
<1>13. (x * ByteBase + y) * ByteBase + z <= n
  <2>1. x * ByteBase <= p * ByteBase /\ x * ByteBase \in Nat /\ p * ByteBase \in Nat
    BY <1>1, <1>4, <1>11, <1>12
  <2>2. x * ByteBase + y <= q /\ x * ByteBase + y \in Nat
    BY <1>2, <1>10, <1>11, <2>1
  <2>3. (x * ByteBase + y) * ByteBase <= q * ByteBase
    BY <1>1, <1>2, <2>2
  <2>4. (x * ByteBase + y) * ByteBase \in Nat /\ q * ByteBase \in Nat
    BY <1>1, <1>2, <2>2
  <2> QED BY <1>10, <1>11, <2>3, <2>4
<1>14. ASSUME n < ByteBase * ByteBase * ByteBase
       PROVE  (x * ByteBase + y) * ByteBase + z = n
  <2>1. x = p
    BY <1>3, <1>5, <1>7, <1>9, <1>14, Zenon
  <2> QED BY <1>10, <2>1
<1> QED BY <1>8, <1>9, <1>13, <1>14, Zenon

\* Four digits give a size that has not more than four of them.
LEMMA FourDigits ==
  ASSUME NEW n \in Nat, n < ByteBase * ByteBase * ByteBase * ByteBase
  PROVE  \E w, x, y, z \in Bytes :
           /\ Digits4(n) = <<w>> \o <<x, y, z>>
           /\ ((w * ByteBase + x) * ByteBase + y) * ByteBase + z = n
<1> DEFINE q == Quotient(n)
<1>1. q \in Nat /\ n % ByteBase \in Bytes /\ n = q * ByteBase + (n % ByteBase)
  BY DigitSplit
<1>2. ByteBase * ByteBase * ByteBase \in Nat
  BY FramingAssumption
<1>3. q < ByteBase * ByteBase * ByteBase
  BY <1>2, QuotientBound
<1>4. Digits4(n) = <<Quotient(Quotient(q)) % ByteBase>> \o <<Quotient(q) % ByteBase, q % ByteBase, n % ByteBase>>
  BY DEF Digits4, Digits3
<1> HIDE DEF q
<1>5. PICK w \in Bytes, x \in Bytes, y \in Bytes :
        Digits3(q) = <<w, x, y>> /\ (w * ByteBase + x) * ByteBase + y = q
  <2>1. \E x, y, z \in Bytes :
          /\ Digits3(q) = <<x, y, z>> /\ (x * ByteBase + y) * ByteBase + z <= q
          /\ q < ByteBase * ByteBase * ByteBase => (x * ByteBase + y) * ByteBase + z = q
    BY <1>1, ThreeDigits
  <2> QED BY <1>3, <2>1, Zenon
<1>6. w = Quotient(Quotient(q)) % ByteBase /\ x = Quotient(q) % ByteBase /\ y = q % ByteBase
  BY <1>5 DEF Digits3
<1>7. PICK z \in Bytes : z = n % ByteBase
  BY <1>1, Zenon
<1>8. Digits4(n) = <<w>> \o <<x, y, z>>
  BY <1>4, <1>6, <1>7, Zenon
<1>9. ((w * ByteBase + x) * ByteBase + y) * ByteBase + z = n
  BY <1>1, <1>5, <1>7, Zenon
<1> QED BY <1>8, <1>9, Zenon

-----------------------------------------------------------------------------
(***************************************************************************)
(* Sequences.                                                              *)
(***************************************************************************)
\* The beginning of a sequence that two others begin.
LEMMA CommonBeginning ==
  ASSUME NEW S, NEW a \in Seq(S), NEW b \in Seq(S), NEW c \in Seq(S), NEW d \in Seq(S),
         a \o b = c \o d
  PROVE  \A i \in 1..Len(c) : i <= Len(a) => a[i] = c[i]
<1> SUFFICES ASSUME NEW i \in 1..Len(c), i <= Len(a) PROVE a[i] = c[i]
  OBVIOUS
<1>1. (a \o b)[i] = a[i] /\ (c \o d)[i] = c[i]
  BY ConcatProperties
<1> QED BY <1>1

Regrouped(s, t, u) == (s \o t) \o u = s \o (t \o u)

\* Concatenation is associative.
LEMMA Regrouping ==
  ASSUME NEW S, NEW s \in Seq(S), NEW t \in Seq(S), NEW u \in Seq(S)
  PROVE  Regrouped(s, t, u)
<1> DEFINE x == (s \o t) \o u
           y == s \o (t \o u)
<1>1. s \o t \in Seq(S) /\ t \o u \in Seq(S)
  BY ConcatProperties
<1>2. x \in Seq(S) /\ y \in Seq(S) /\ Len(x) = Len(y)
  BY <1>1
<1>3. ASSUME NEW i \in 1..Len(x) PROVE x[i] = y[i]
  BY <1>1, <1>2
<1> HIDE DEF x, y
<1>4. x = y
  BY <1>2, <1>3, SeqEqual
<1> QED BY <1>4 DEF x, y, Regrouped

\* A common beginning can be dropped.
LEMMA SameBeginning ==
  ASSUME NEW S, NEW s \in Seq(S), NEW t \in Seq(S), NEW v \in Seq(S), s \o t = s \o v
  PROVE  t = v
<1>1. Len(s) + Len(t) = Len(s) + Len(v) /\ Len(s) \in Nat /\ Len(t) \in Nat /\ Len(v) \in Nat
  BY ConcatProperties
<1>2. Len(t) = Len(v)
  BY <1>1
<1>3. ASSUME NEW i \in 1..Len(t) PROVE t[i] = v[i]
  <2>1. (s \o t)[Len(s) + i] = t[i] /\ (s \o v)[Len(s) + i] = v[i]
    BY <1>1, <1>2
  <2> QED BY <2>1
<1> QED BY <1>2, <1>3, SeqEqual

\* After leaves what is behind the first n.
LEMMA AfterIs ==
  ASSUME NEW S, NEW a \in Seq(S), NEW n \in 0..Len(a)
  PROVE  /\ After(a, n) \in Seq(S) /\ Len(After(a, n)) = Len(a) - n
         /\ \A i \in 1..(Len(a) - n) : After(a, n)[i] = a[n + i]
         /\ SubSeq(a, 1, n) \in Seq(S) /\ Len(SubSeq(a, 1, n)) = n
         /\ a = SubSeq(a, 1, n) \o After(a, n)
<1>1. n + 1 \in 1..(Len(a) + 1) /\ Len(a) \in Nat
  OBVIOUS
<1>2. After(a, n) \in Seq(S) /\ Len(After(a, n)) = Len(a) - n
      /\ \A i \in 1..(Len(a) - n) : After(a, n)[i] = a[n + i]
  BY <1>1 DEF After
<1>3. SubSeq(a, 1, n) \in Seq(S) /\ Len(SubSeq(a, 1, n)) = n
  BY <1>1
<1>4. a = SubSeq(a, 1, n) \o After(a, n)
  <2>1. 1 \in 1..(Len(a) + 1) /\ n \in 1 - 1 .. Len(a) /\ Len(a) \in n .. Len(a)
    BY <1>1
  <2>2. SubSeq(a, 1, n) \o SubSeq(a, n + 1, Len(a)) = SubSeq(a, 1, Len(a))
    BY <2>1, ConcatAdjacentSubSeq, Zenon
  <2> QED BY <2>2, SubSeqFull, Zenon DEF After
<1> QED BY <1>2, <1>3, <1>4

\* What is left of a behind c begins d.
Splits(a, b, c, d) == After(a, Len(c)) \o b = d

\* A sequence that reaches beyond c in c \o d is c and what comes after.
LEMMA SplitAt ==
  ASSUME NEW S, NEW a \in Seq(S), NEW b \in Seq(S), NEW c \in Seq(S), NEW d \in Seq(S),
         a \o b = c \o d, Len(c) <= Len(a)
  PROVE  Splits(a, b, c, d)
<1> DEFINE x == SubSeq(a, 1, Len(c))
           y == After(a, Len(c))
<1>1. Len(c) \in 0..Len(a)
  OBVIOUS
<1>2. x \in Seq(S) /\ Len(x) = Len(c) /\ y \in Seq(S) /\ a = x \o y
  <2> DEFINE n == Len(c)
  <2> HIDE DEF n
  <2>1. n \in 0..Len(a)
    BY <1>1, Zenon DEF n
  <2>2. /\ SubSeq(a, 1, n) \in Seq(S) /\ Len(SubSeq(a, 1, n)) = n
        /\ After(a, n) \in Seq(S) /\ a = SubSeq(a, 1, n) \o After(a, n)
    BY <2>1, AfterIs, Zenon
  <2> QED BY <2>2, Zenon DEF n
<1>3. \A i \in 1..Len(c) : x[i] = c[i]
  BY <1>1, CommonBeginning
<1>4. x = c
  BY <1>2, <1>3, SeqEqual
<1> HIDE DEF x, y
<1>5. c \o (y \o b) = c \o d
  <2>1. (c \o y) \o b = c \o (y \o b)
    <3>1. Regrouped(c, y, b)
      BY <1>2, Regrouping, Zenon
    <3> QED BY <3>1 DEF Regrouped
  <2> QED BY <2>1, <1>2, <1>4, Zenon
<1>6. y \o b \in Seq(S)
  BY <1>2
<1>7. y \o b = d
  BY <1>5, <1>6, SameBeginning, Zenon
<1> QED BY <1>4, <1>7 DEF x, y, Splits

-----------------------------------------------------------------------------
(***************************************************************************)
(* Messages and their bytes.                                               *)
(***************************************************************************)
Kinds == {"rpc", "qemud", "at"}
Dispatched == [type : Bytes, body : Seq(Bytes)]

\* A body is a sequence.
LEMMA StringsAre ==
  ASSUME NEW B, NEW L \in SUBSET Nat, NEW s \in Strings(B, L)
  PROVE  s \in Seq(B) /\ Len(s) \in L /\ \A i \in 1..Len(s) : s[i] \in B
<1>1. PICK n \in L : s \in [1..n -> B]
  BY DEF Strings
<1>2. n \in Nat
  OBVIOUS
<1>3. s \in Seq(B) /\ Len(s) = n
  BY <1>1, <1>2
<1> QED BY <1>1, <1>3

\* What can be sent.
LEMMA MessagesAre ==
  ASSUME NEW k \in Kinds, NEW m \in Messages(k)
  PROVE  /\ m \in Dispatched /\ m = [type |-> m.type, body |-> m.body] /\ Len(m.body) \in Nat
         /\ k # "rpc" => m.type = Invocation
         /\ k = "qemud" => Len(m.body) \in QemudSizes
         /\ k = "at" => \A i \in 1..Len(m.body) : m.body[i] # EndOfLine
<1>1. 0 \in Bytes /\ BodyBytes \subseteq Bytes
  BY FramingAssumption DEF Bytes
<1>2. BodyLengths \in SUBSET Nat /\ LineLengths \in SUBSET Nat
  BY FramingAssumption
<1>3. CASE k = "rpc"
  <2>1. m \in [type : Bytes, body : Strings(BodyBytes, BodyLengths)]
    BY <1>3 DEF Messages
  <2>2. m.body \in Seq(BodyBytes)
    BY <1>2, <2>1, StringsAre
  <2>3. m.body \in Seq(Bytes)
    BY <2>2, <1>1, SeqMonotonic
  <2>4. m \in Dispatched /\ m = [type |-> m.type, body |-> m.body]
    BY <2>1, <2>3 DEF Dispatched
  <2> QED BY <1>3, <2>3, <2>4
<1>4. CASE k = "qemud"
  <2>0. BodyLengths \cap QemudSizes \in SUBSET Nat
    BY <1>2, Zenon
  <2>1. m \in [type : {Invocation}, body : Strings(BodyBytes, BodyLengths \cap QemudSizes)]
    BY <1>4 DEF Messages
  <2>2. m.body \in Seq(BodyBytes) /\ Len(m.body) \in QemudSizes
    BY <2>0, <2>1, StringsAre
  <2>3. m.body \in Seq(Bytes)
    BY <2>2, <1>1, SeqMonotonic
  <2>4. m \in Dispatched /\ m = [type |-> m.type, body |-> m.body] /\ m.type = Invocation
    BY <1>1, <2>1, <2>3 DEF Dispatched, Invocation
  <2> QED BY <1>4, <2>2, <2>3, <2>4
<1>5. CASE k = "at"
  <2>1. m \in [type : {Invocation}, body : Strings(Bytes \ {EndOfLine}, LineLengths)]
    BY <1>5 DEF Messages
  <2>2. m.body \in Seq(Bytes \ {EndOfLine})
        /\ \A i \in 1..Len(m.body) : m.body[i] \in Bytes \ {EndOfLine}
    BY <1>2, <2>1, StringsAre
  <2>3. m.body \in Seq(Bytes)
    BY <2>2, SeqMonotonic
  <2>4. m \in Dispatched /\ m = [type |-> m.type, body |-> m.body] /\ m.type = Invocation
    BY <1>1, <2>1, <2>3 DEF Dispatched, Invocation
  <2> QED BY <1>5, <2>2, <2>3, <2>4
<1> QED BY <1>3, <1>4, <1>5 DEF Kinds

\* Headers put together.
LEMMA ThreeAndOne ==
  ASSUME NEW w \in Bytes, NEW x \in Bytes, NEW y \in Bytes, NEW z \in Bytes
  PROVE  <<w, x, y>> \o <<z>> = <<w, x, y, z>>
<1> DEFINE s == <<w, x, y>> \o <<z>>
           t == <<w, x, y, z>>
<1>1. s \in Seq(Bytes) /\ t \in Seq(Bytes) /\ Len(s) = 4 /\ Len(t) = 4
  OBVIOUS
<1>2. \A i \in 1..4 : s[i] = t[i]
  OBVIOUS
<1> HIDE DEF s, t
<1>3. s = t
  BY <1>1, <1>2, SeqEqual
<1> QED BY <1>3 DEF s, t

\* And the same with one byte in front.
LEMMA OneAndThree ==
  ASSUME NEW w \in Bytes, NEW x \in Bytes, NEW y \in Bytes, NEW z \in Bytes
  PROVE  <<w>> \o <<x, y, z>> = <<w, x, y, z>>
<1> DEFINE s == <<w>> \o <<x, y, z>>
           t == <<w, x, y, z>>
<1>1. s \in Seq(Bytes) /\ t \in Seq(Bytes) /\ Len(s) = 4 /\ Len(t) = 4
  OBVIOUS
<1>2. \A i \in 1..4 : s[i] = t[i]
  OBVIOUS
<1> HIDE DEF s, t
<1>3. s = t
  BY <1>1, <1>2, SeqEqual
<1> QED BY <1>3 DEF s, t

\* Four bytes in front of a body.
HeadAndBody(e, w, x, y, z, body) ==
  /\ e \in Seq(Bytes) /\ Len(e) = 4 + Len(body)
  /\ e[1] = w /\ e[2] = x /\ e[3] = y /\ e[4] = z
  /\ \A i \in 1..Len(body) : e[4 + i] = body[i]

\* The header is found in front of the body.
LEMMA FourAndBody ==
  ASSUME NEW w \in Bytes, NEW x \in Bytes, NEW y \in Bytes, NEW z \in Bytes,
         NEW body \in Seq(Bytes), NEW e, e = <<w, x, y, z>> \o body
  PROVE  HeadAndBody(e, w, x, y, z, body)
<1>1. <<w, x, y, z>> \in Seq(Bytes) /\ Len(<<w, x, y, z>>) = 4
  OBVIOUS
<1> QED BY <1>1 DEF HeadAndBody

\* The size of a message of the rpc layer has three bytes at most.
Fits(k, m) == k = "rpc" => Len(m.body) < ByteBase * ByteBase * ByteBase

\* A message of the rpc layer: three bytes of the size, the type, the body.
LEMMA EncodeRpc ==
  ASSUME NEW m \in Messages("rpc"), NEW e, e = Encode("rpc", m)
  PROVE  /\ e \in Seq(Bytes) /\ Len(e) = 4 + Len(m.body) /\ e[4] = m.type
         /\ Value3(e) \in Nat /\ Value3(e) <= Len(m.body)
         /\ Fits("rpc", m) => Value3(e) = Len(m.body)
         /\ \A i \in 1..Len(m.body) : e[4 + i] = m.body[i]
<1>1. m \in Dispatched /\ Len(m.body) \in Nat
  BY MessagesAre DEF Kinds
<1>2. PICK x \in Bytes, y \in Bytes, z \in Bytes :
        /\ Digits3(Len(m.body)) = <<x, y, z>>
        /\ (x * ByteBase + y) * ByteBase + z <= Len(m.body)
        /\ Fits("rpc", m) => (x * ByteBase + y) * ByteBase + z = Len(m.body)
  BY <1>1, ThreeDigits, Zenon DEF Fits
<1>3. m.type \in Bytes /\ m.body \in Seq(Bytes)
  BY <1>1 DEF Dispatched
<1>4. <<x, y, z>> \o <<m.type>> = <<x, y, z, m.type>>
  BY <1>3, ThreeAndOne
<1>5. e = <<x, y, z, m.type>> \o m.body
  BY <1>2, <1>4 DEF Encode
<1>6. HeadAndBody(e, x, y, z, m.type, m.body)
  BY <1>3, <1>5, FourAndBody, Zenon
<1>7. Value3(e) = (x * ByteBase + y) * ByteBase + z
  BY <1>6, Zenon DEF Value3, HeadAndBody
<1>8. Value3(e) \in Nat
  <2>1. x \in Nat /\ y \in Nat /\ z \in Nat /\ ByteBase \in Nat
    BY FramingAssumption DEF Bytes
  <2> QED BY <1>7, <2>1
<1> QED BY <1>2, <1>6, <1>7, <1>8, Zenon DEF HeadAndBody

\* A command of qemud: the size in four digits, the body.
LEMMA EncodeQemud ==
  ASSUME NEW m \in Messages("qemud"), NEW e, e = Encode("qemud", m)
  PROVE  /\ e \in Seq(Bytes) /\ Len(e) = 4 + Len(m.body)
         /\ Value4(e) = Len(m.body)
         /\ \A i \in 1..Len(m.body) : e[4 + i] = m.body[i]
<1>0. m \in Dispatched /\ Len(m.body) \in Nat /\ Len(m.body) \in QemudSizes
  BY MessagesAre DEF Kinds
<1>1. Len(m.body) < ByteBase * ByteBase * ByteBase * ByteBase
  <2>1. ByteBase * ByteBase * ByteBase * ByteBase \in Nat
    BY FramingAssumption
  <2> QED BY <1>0, <2>1 DEF QemudSizes
<1>2. PICK w \in Bytes, x \in Bytes, y \in Bytes, z \in Bytes :
        /\ Digits4(Len(m.body)) = <<w>> \o <<x, y, z>>
        /\ ((w * ByteBase + x) * ByteBase + y) * ByteBase + z = Len(m.body)
  BY <1>0, <1>1, FourDigits, Zenon
<1>4. m.body \in Seq(Bytes)
  BY <1>0 DEF Dispatched
<1>5. <<w>> \o <<x, y, z>> = <<w, x, y, z>>
  BY OneAndThree
<1>6. e = <<w, x, y, z>> \o m.body
  BY <1>2, <1>5 DEF Encode
<1>7. HeadAndBody(e, w, x, y, z, m.body)
  BY <1>4, <1>6, FourAndBody, Zenon
<1> QED BY <1>2, <1>7, Zenon DEF Value3, Value4, HeadAndBody

\* A line of AT commands: the body and the end of the line.
LEMMA EncodeAt ==
  ASSUME NEW m \in Messages("at"), NEW e, e = Encode("at", m)
  PROVE  /\ e \in Seq(Bytes) /\ Len(e) = Len(m.body) + 1
         /\ e[Len(m.body) + 1] = EndOfLine
         /\ \A i \in 1..Len(m.body) : e[i] = m.body[i] /\ e[i] # EndOfLine
<1>1. m \in Dispatched /\ \A i \in 1..Len(m.body) : m.body[i] # EndOfLine
  BY MessagesAre DEF Kinds
<1>2. m.body \in Seq(Bytes) /\ <<EndOfLine>> \in Seq(Bytes)
  BY <1>1, FramingAssumption DEF Dispatched, Bytes, EndOfLine
<1>3. e = m.body \o <<EndOfLine>>
  BY DEF Encode
<1> QED BY <1>1, <1>2, <1>3

-----------------------------------------------------------------------------
(***************************************************************************)
(* One step of the loops.                                                  *)
(***************************************************************************)
LoopStates == [buf : Seq(Bytes), out : Seq(Dispatched), more : BOOLEAN]

\* A size is a number.
LEMMA ValuesAreNumbers ==
  ASSUME NEW buf \in Seq(Bytes), Len(buf) >= 4
  PROVE  Value3(buf) \in Nat /\ Value4(buf) \in Nat /\ buf[4] \in Bytes
<1>1. /\ buf[1] \in Nat /\ buf[2] \in Nat /\ buf[3] \in Nat /\ buf[4] \in Nat /\ buf[4] \in Bytes
      /\ ByteBase \in Nat
  BY FramingAssumption DEF Bytes
<1>2. buf[1] * ByteBase \in Nat
  BY <1>1
<1>3. (buf[1] * ByteBase + buf[2]) * ByteBase \in Nat
  BY <1>1, <1>2
<1>4. Value3(buf) \in Nat
  BY <1>1, <1>3 DEF Value3
<1>5. Value3(buf) * ByteBase \in Nat
  BY <1>1, <1>4
<1> QED BY <1>1, <1>4, <1>5 DEF Value4

\* A buffer is empty, has a part of a header, or has a header.
LEMMA LengthCases ==
  ASSUME NEW n \in Nat
  PROVE  n = 0 \/ n \in 1..3 \/ n >= 4
OBVIOUS

\* With a part of a header, no size is small enough.
LEMMA ShortHeader ==
  ASSUME NEW n \in 1..3
  PROVE  /\ \A size \in Nat : n < size + 4
         /\ \A i \in 1..4 : ~(i <= n) => i \in 2..4
OBVIOUS

\* What stands behind the end of the buffer never makes a message whole: a
\* buffer without a whole header waits.
LEMMA RpcStepIs ==
  ASSUME NEW st \in LoopStates, NEW past \in [2..4 -> Bytes], NEW new, new = RpcStep(st, past)
  PROVE  \/ new = Stop(st) /\ (Len(st.buf) < 4 \/ Len(st.buf) < 4 + Value3(st.buf))
         \/ /\ Len(st.buf) >= 4 /\ Len(st.buf) >= 4 + Value3(st.buf)
            /\ new = [buf |-> After(st.buf, 4 + Value3(st.buf)), more |-> TRUE,
                      out |-> IF st.buf[4] \in {Invocation, Response}
                                THEN Append(st.out, [type |-> st.buf[4],
                                       body |-> SubSeq(st.buf, 5, 4 + Value3(st.buf))])
                                ELSE st.out]
<1> DEFINE head == Header(st.buf, past)
           size == Value3(head)
<1>1. st.buf \in Seq(Bytes) /\ Len(st.buf) \in Nat
  BY DEF LoopStates
<1>2. CASE Len(st.buf) = 0
  <2>1. new = Stop(st)
    BY <1>2 DEF RpcStep
  <2> QED BY <1>2, <2>1
<1>3. CASE Len(st.buf) \in 1..3
  <2>1. \A i \in 1..4 : head[i] \in Nat
    <3>1. ASSUME NEW i \in 1..4 PROVE head[i] \in Bytes
      <4>1. CASE i <= Len(st.buf)
        BY <1>1, <4>1 DEF Header
      <4>2. CASE ~(i <= Len(st.buf))
        <5>1. i \in 2..4
          BY <1>3, <4>2, ShortHeader, Zenon
        <5>2. past[i] \in Bytes
          BY <5>1
        <5> QED BY <4>2, <5>2 DEF Header
      <4> QED BY <4>1, <4>2
    <3>2. Bytes \subseteq Nat
      BY FramingAssumption DEF Bytes
    <3> HIDE DEF head
    <3> QED BY <3>1, <3>2, Zenon
  <2>2. head[1] * ByteBase \in Nat /\ ByteBase \in Nat
    BY <2>1, FramingAssumption
  <2>3. (head[1] * ByteBase + head[2]) * ByteBase \in Nat
    BY <2>1, <2>2
  <2> HIDE DEF head
  <2>4. size \in Nat
    BY <2>1, <2>3 DEF Value3
  <2> HIDE DEF size
  <2>5. Len(st.buf) < size + 4
    BY <1>3, <2>4, ShortHeader, Zenon
  <2>6. new = Stop(st)
    BY <2>5 DEF RpcStep, head, size
  <2> QED BY <1>3, <2>6
<1>4. CASE Len(st.buf) >= 4
  <2>1. head[1] = st.buf[1] /\ head[2] = st.buf[2] /\ head[3] = st.buf[3] /\ head[4] = st.buf[4]
    BY <1>1, <1>4 DEF Header
  <2> HIDE DEF head
  <2>2. size = Value3(st.buf)
    BY <2>1 DEF Value3
  <2>3. size \in Nat /\ Value3(st.buf) \in Nat /\ size + 4 = 4 + size
    BY <1>1, <1>4, <2>2, ValuesAreNumbers
  <2> HIDE DEF size
  <2>4. Len(st.buf) # 0
    BY <1>4
  <2>5. CASE Len(st.buf) < size + 4
    <3>1. new = Stop(st)
      BY <2>5 DEF RpcStep, head, size
    <3> QED BY <3>1, <2>2, <2>3, <2>5
  <2>6. CASE ~(Len(st.buf) < size + 4)
    <3>1. new = [buf |-> After(st.buf, 4 + size), more |-> TRUE,
                 out |-> IF head[4] \in {Invocation, Response}
                           THEN Append(st.out, [type |-> head[4], body |-> SubSeq(st.buf, 5, 4 + size)])
                           ELSE st.out]
      BY <2>4, <2>6 DEF RpcStep, head, size
    <3>2. Len(st.buf) >= 4 + size
      BY <1>1, <2>3, <2>6
    <3> QED BY <1>4, <2>1, <2>2, <3>1, <3>2
  <2> QED BY <2>5, <2>6
<1>5. Len(st.buf) = 0 \/ Len(st.buf) \in 1..3 \/ Len(st.buf) >= 4
  BY <1>1, LengthCases, Zenon
<1> QED BY <1>2, <1>3, <1>4, <1>5, Zenon

\* The body behind a header, and what is left of the buffer.
LEMMA BodyIs ==
  ASSUME NEW buf \in Seq(Bytes), NEW size \in Nat, Len(buf) >= 4 + size
  PROVE  /\ SubSeq(buf, 5, 4 + size) \in Seq(Bytes) /\ Len(SubSeq(buf, 5, 4 + size)) = size
         /\ \A i \in 1..size : SubSeq(buf, 5, 4 + size)[i] = buf[4 + i]
         /\ After(buf, 4 + size) \in Seq(Bytes) /\ Len(After(buf, 4 + size)) < Len(buf)
<1>1. Len(buf) \in Nat /\ 4 + size \in 0..Len(buf) /\ \A i \in 5..(4 + size) : i \in 1..Len(buf)
  OBVIOUS
<1>2. \A i \in 5..(4 + size) : buf[i] \in Bytes
  BY <1>1, ElementOfSeq
<1>3. /\ SubSeq(buf, 5, 4 + size) \in Seq(Bytes)
      /\ Len(SubSeq(buf, 5, 4 + size)) = IF 5 <= 4 + size THEN (4 + size) - 5 + 1 ELSE 0
      /\ \A i \in 1..((4 + size) - 5 + 1) : SubSeq(buf, 5, 4 + size)[i] = buf[5 + i - 1]
  BY <1>2, SubSeqProperties
<1>4. After(buf, 4 + size) \in Seq(Bytes) /\ Len(After(buf, 4 + size)) = Len(buf) - (4 + size)
  BY <1>1, AfterIs
<1>5. Len(After(buf, 4 + size)) < Len(buf)
  BY <1>1, <1>4
<1>6. Len(SubSeq(buf, 5, 4 + size)) = size
  BY <1>3
<1>7. ASSUME NEW i \in 1..size PROVE SubSeq(buf, 5, 4 + size)[i] = buf[4 + i]
  <2>1. i \in 1..((4 + size) - 5 + 1) /\ 5 + i - 1 = 4 + i
    OBVIOUS
  <2> QED BY <1>3, <2>1
<1> QED BY <1>3, <1>4, <1>5, <1>6, <1>7

\* A buffer with a header: that of e; and with the body: all of e.
Begins(buf, rest, e, body, tail) ==
  /\ \A i \in 1..4 : buf[i] = e[i]
  /\ Len(buf) >= 4 + Len(body) => /\ SubSeq(buf, 5, 4 + Len(body)) = body
                                  /\ After(buf, 4 + Len(body)) \o rest = tail

\* A buffer that begins like a message with a header.
LEMMA BeginsLike ==
  ASSUME NEW buf \in Seq(Bytes), NEW rest \in Seq(Bytes), NEW e \in Seq(Bytes), NEW tail \in Seq(Bytes),
         NEW body \in Seq(Bytes), buf \o rest = e \o tail, Len(e) = 4 + Len(body),
         \A i \in 1..Len(body) : e[4 + i] = body[i], Len(buf) >= 4
  PROVE  Begins(buf, rest, e, body, tail)
<1>1. \A i \in 1..Len(e) : i <= Len(buf) => buf[i] = e[i]
  BY CommonBeginning
<1>2. Len(buf) \in Nat /\ Len(body) \in Nat
  OBVIOUS
<1>3. \A i \in 1..4 : buf[i] = e[i]
  BY <1>1, <1>2
<1>4. ASSUME Len(buf) >= 4 + Len(body)
      PROVE  SubSeq(buf, 5, 4 + Len(body)) = body /\ After(buf, 4 + Len(body)) \o rest = tail
  <2>1. After(buf, Len(e)) \o rest = tail
    <3>1. Len(e) <= Len(buf)
      BY <1>4
    <3>2. Splits(buf, rest, e, tail)
      BY <3>1, SplitAt, Zenon
    <3> QED BY <3>2 DEF Splits
  <2> DEFINE b == SubSeq(buf, 5, 4 + Len(body))
  <2>2. b \in Seq(Bytes) /\ Len(b) = Len(body) /\ \A i \in 1..Len(body) : b[i] = buf[4 + i]
    BY <1>2, <1>4, BodyIs
  <2> HIDE DEF b
  <2>3. ASSUME NEW i \in 1..Len(body) PROVE b[i] = body[i]
    <3>1. 4 + i \in 1..Len(e) /\ 4 + i <= Len(buf)
      BY <1>2, <1>4
    <3> QED BY <1>1, <2>2, <3>1, Zenon
  <2>4. b = body
    BY <2>2, <2>3, SeqEqual
  <2> QED BY <2>1, <2>4 DEF b
<1> QED BY <1>3, <1>4 DEF Begins

\* What a step leaves is a state of the loop; one that goes on took a byte.
StepIsSound(st, new) == new \in LoopStates /\ (new.more => Len(new.buf) < Len(st.buf))

\* The step took message m, which the bytes of the buffer and the rest began with.
Takes(k, st, new, m, rest, tail) ==
  /\ new.buf \o rest = tail
  /\ new.out = IF Dispatches(k, m) THEN Append(st.out, m) ELSE st.out

\* A loop that ends is in a state of the loop.
LEMMA StopIsSound ==
  ASSUME NEW st \in LoopStates
  PROVE  StepIsSound(st, Stop(st)) /\ ~Stop(st).more
BY DEF StepIsSound, Stop, LoopStates

\* process_data of the rpc layer takes a message.
LEMMA RpcIsSound ==
  ASSUME NEW st \in LoopStates, NEW past \in [2..4 -> Bytes], NEW new, new = RpcStep(st, past)
  PROVE  StepIsSound(st, new)
<1> DEFINE size == Value3(st.buf)
           body == SubSeq(st.buf, 5, 4 + size)
<1>1. CASE new = Stop(st)
  BY <1>1, StopIsSound
<1>2. CASE /\ Len(st.buf) >= 4 /\ Len(st.buf) >= 4 + size
           /\ new = [buf |-> After(st.buf, 4 + size), more |-> TRUE,
                     out |-> IF st.buf[4] \in {Invocation, Response}
                               THEN Append(st.out, [type |-> st.buf[4], body |-> body])
                               ELSE st.out]
  <2>1. st.buf \in Seq(Bytes) /\ st.out \in Seq(Dispatched)
    BY DEF LoopStates
  <2>2. size \in Nat /\ st.buf[4] \in Bytes
    BY <1>2, <2>1, ValuesAreNumbers
  <2> HIDE DEF size
  <2>3. body \in Seq(Bytes) /\ After(st.buf, 4 + size) \in Seq(Bytes)
        /\ Len(After(st.buf, 4 + size)) < Len(st.buf)
    BY <1>2, <2>1, <2>2, BodyIs
  <2> HIDE DEF body
  <2>4. [type |-> st.buf[4], body |-> body] \in Dispatched
    BY <2>2, <2>3 DEF Dispatched
  <2>5. Append(st.out, [type |-> st.buf[4], body |-> body]) \in Seq(Dispatched)
    BY <2>1, <2>4, AppendProperties
  <2>6. new.out \in Seq(Dispatched) /\ new \in LoopStates
    BY <1>2, <2>1, <2>3, <2>5 DEF LoopStates
  <2> QED BY <1>2, <2>3, <2>6 DEF StepIsSound
<1> QED BY <1>1, <1>2, RpcStepIs

\* What a step of process_data does.
RpcOutcome(st, new) ==
  \/ new = Stop(st)
  \/ /\ Len(st.buf) >= 4 /\ Len(st.buf) >= 4 + Value3(st.buf)
     /\ new = [buf |-> After(st.buf, 4 + Value3(st.buf)), more |-> TRUE,
               out |-> IF st.buf[4] \in {Invocation, Response}
                         THEN Append(st.out, [type |-> st.buf[4],
                                body |-> SubSeq(st.buf, 5, 4 + Value3(st.buf))])
                         ELSE st.out]

\* It is one of the two.
LEMMA RpcStepOutcome ==
  ASSUME NEW st \in LoopStates, NEW past \in [2..4 -> Bytes]
  PROVE  RpcOutcome(st, RpcStep(st, past))
BY RpcStepIs, Zenon DEF RpcOutcome

\* process_data of the rpc layer waits or takes the message that comes next.
LEMMA RpcTakes ==
  ASSUME NEW st \in LoopStates, NEW past \in [2..4 -> Bytes], NEW new, new = RpcStep(st, past),
         NEW rest \in Seq(Bytes), NEW tail \in Seq(Bytes), NEW m \in Messages("rpc"),
         Fits("rpc", m), st.buf \o rest = Encode("rpc", m) \o tail
  PROVE  new = Stop(st) \/ Takes("rpc", st, new, m, rest, tail)
<1> DEFINE e == Encode("rpc", m)
           size == Value3(st.buf)
           body == SubSeq(st.buf, 5, 4 + size)
<1>0. RpcOutcome(st, new)
  BY RpcStepOutcome, Zenon
<1>1. SUFFICES ASSUME /\ Len(st.buf) >= 4 /\ Len(st.buf) >= 4 + size
                      /\ new = [buf |-> After(st.buf, 4 + size), more |-> TRUE,
                                out |-> IF st.buf[4] \in {Invocation, Response}
                                          THEN Append(st.out, [type |-> st.buf[4], body |-> body])
                                          ELSE st.out]
               PROVE  Takes("rpc", st, new, m, rest, tail)
  BY <1>0, Zenon DEF RpcOutcome
<1>2. st.buf \in Seq(Bytes) /\ st.buf \o rest = e \o tail
  BY DEF LoopStates
<1>3. m \in Dispatched /\ m = [type |-> m.type, body |-> m.body]
  BY MessagesAre DEF Kinds
<1>4. m.body \in Seq(Bytes)
  BY <1>3 DEF Dispatched
<1>5. /\ e \in Seq(Bytes) /\ Len(e) = 4 + Len(m.body)
      /\ Value3(e) = Len(m.body) /\ e[4] = m.type
      /\ \A i \in 1..Len(m.body) : e[4 + i] = m.body[i]
  BY EncodeRpc
<1> HIDE DEF e
<1>6. Begins(st.buf, rest, e, m.body, tail)
  BY <1>1, <1>2, <1>4, <1>5, BeginsLike, Zenon
<1>7. size = Len(m.body)
  BY <1>5, <1>6 DEF Value3, Begins
<1>8. st.buf[4] = m.type
  BY <1>5, <1>6 DEF Begins
<1> HIDE DEF size
<1>9. body = m.body /\ After(st.buf, 4 + size) \o rest = tail
  BY <1>1, <1>6, <1>7, Zenon DEF Begins
<1>10. [type |-> st.buf[4], body |-> body] = m
  BY <1>3, <1>8, <1>9
<1>11. Dispatches("rpc", m) <=> m.type \in {Invocation, Response}
  BY DEF Dispatches
<1> HIDE DEF body
<1> QED BY <1>1, <1>8, <1>9, <1>10, <1>11 DEF Takes

\* process_commands of qemud.
LEMMA QemudStepIs ==
  ASSUME NEW st \in LoopStates, NEW new, new = QemudStep(st)
  PROVE  \/ new = Stop(st) /\ (Len(st.buf) < 4 \/ Len(st.buf) < 4 + Value4(st.buf))
         \/ /\ Len(st.buf) >= 4 /\ Len(st.buf) >= 4 + Value4(st.buf) /\ Value4(st.buf) \in Nat
            /\ new = [buf |-> After(st.buf, 4 + Value4(st.buf)),
                      more |-> Len(After(st.buf, 4 + Value4(st.buf))) # 4 + Value4(st.buf),
                      out |-> Append(st.out, [type |-> Invocation,
                                              body |-> SubSeq(st.buf, 5, 4 + Value4(st.buf))])]
<1> DEFINE consumed == 4 + Value4(st.buf)
<1>1. st.buf \in Seq(Bytes) /\ Len(st.buf) \in Nat
  BY DEF LoopStates
<1>2. CASE Len(st.buf) < 4
  BY <1>2 DEF QemudStep
<1>3. CASE ~(Len(st.buf) < 4) /\ Len(st.buf) < consumed
  BY <1>3 DEF QemudStep
<1>4. CASE ~(Len(st.buf) < 4) /\ ~(Len(st.buf) < consumed)
  <2>1. Len(st.buf) >= 4
    BY <1>1, <1>4
  <2>2. Value4(st.buf) \in Nat
    BY <1>1, <2>1, ValuesAreNumbers
  <2>3. Len(st.buf) >= consumed
    BY <1>1, <1>4, <2>2
  <2> QED BY <1>4, <2>1, <2>2, <2>3 DEF QemudStep
<1> QED BY <1>2, <1>3, <1>4

\* process_commands of qemud takes a command.
LEMMA QemudIsSound ==
  ASSUME NEW st \in LoopStates, NEW new, new = QemudStep(st)
  PROVE  StepIsSound(st, new)
<1> DEFINE size == Value4(st.buf)
           body == SubSeq(st.buf, 5, 4 + size)
<1>1. CASE new = Stop(st)
  BY <1>1, StopIsSound
<1>2. CASE /\ Len(st.buf) >= 4 /\ Len(st.buf) >= 4 + size /\ size \in Nat
           /\ new = [buf |-> After(st.buf, 4 + size), more |-> Len(After(st.buf, 4 + size)) # 4 + size,
                     out |-> Append(st.out, [type |-> Invocation, body |-> body])]
  <2>1. st.buf \in Seq(Bytes) /\ st.out \in Seq(Dispatched)
    BY DEF LoopStates
  <2> HIDE DEF size
  <2>2. body \in Seq(Bytes) /\ After(st.buf, 4 + size) \in Seq(Bytes)
        /\ Len(After(st.buf, 4 + size)) < Len(st.buf)
    BY <1>2, <2>1, BodyIs
  <2> HIDE DEF body
  <2>3. [type |-> Invocation, body |-> body] \in Dispatched
    BY <2>2, FramingAssumption DEF Dispatched, Bytes, Invocation
  <2>4. Append(st.out, [type |-> Invocation, body |-> body]) \in Seq(Dispatched)
    BY <2>1, <2>3, AppendProperties
  <2>5. new \in LoopStates
    BY <1>2, <2>2, <2>4 DEF LoopStates
  <2> QED BY <1>2, <2>2, <2>5 DEF StepIsSound
<1> QED BY <1>1, <1>2, QemudStepIs

\* process_commands of qemud waits or takes the command that comes next.
LEMMA QemudTakes ==
  ASSUME NEW st \in LoopStates, NEW new, new = QemudStep(st),
         NEW rest \in Seq(Bytes), NEW tail \in Seq(Bytes), NEW m \in Messages("qemud"),
         st.buf \o rest = Encode("qemud", m) \o tail
  PROVE  new = Stop(st) \/ Takes("qemud", st, new, m, rest, tail)
<1> DEFINE e == Encode("qemud", m)
           size == Value4(st.buf)
           body == SubSeq(st.buf, 5, 4 + size)
<1>1. SUFFICES ASSUME /\ Len(st.buf) >= 4 /\ Len(st.buf) >= 4 + size
                      /\ new = [buf |-> After(st.buf, 4 + size),
                                more |-> Len(After(st.buf, 4 + size)) # 4 + size,
                                out |-> Append(st.out, [type |-> Invocation, body |-> body])]
               PROVE  Takes("qemud", st, new, m, rest, tail)
  BY QemudStepIs
<1>2. st.buf \in Seq(Bytes) /\ st.buf \o rest = e \o tail
  BY DEF LoopStates
<1>3. m \in Dispatched /\ m = [type |-> m.type, body |-> m.body] /\ m.type = Invocation
  BY MessagesAre DEF Kinds
<1>4. m.body \in Seq(Bytes)
  BY <1>3 DEF Dispatched
<1>5. /\ e \in Seq(Bytes) /\ Len(e) = 4 + Len(m.body) /\ Value4(e) = Len(m.body)
      /\ \A i \in 1..Len(m.body) : e[4 + i] = m.body[i]
  BY EncodeQemud
<1> HIDE DEF e
<1>6. Begins(st.buf, rest, e, m.body, tail)
  BY <1>1, <1>2, <1>4, <1>5, BeginsLike, Zenon
<1>7. size = Len(m.body)
  BY <1>5, <1>6 DEF Value3, Value4, Begins
<1> HIDE DEF size
<1>8. body = m.body /\ After(st.buf, 4 + size) \o rest = tail
  BY <1>1, <1>6, <1>7 DEF Begins
<1>9. [type |-> Invocation, body |-> body] = m
  BY <1>3, <1>8
<1>10. Dispatches("qemud", m)
  BY DEF Dispatches
<1> HIDE DEF body
<1> QED BY <1>1, <1>8, <1>9, <1>10 DEF Takes

\* The first end of a line.
FirstEnd(buf, at) ==
  at \in 1..Len(buf) /\ buf[at] = EndOfLine /\ \A j \in 1..Len(buf) : buf[j] = EndOfLine => at <= j

\* The lowest of a set of numbers.
LEMMA LowestExists ==
  ASSUME NEW T \in SUBSET Nat, T # {}
  PROVE  \E m \in T : \A j \in T : m <= j
<1> DEFINE R == OpToRel(<, Nat)
<1>1. PICK n \in T : \A m \in T : ~(<<m, n>> \in R)
  BY NatLessThanWellFounded, WFMin, Zenon
<1>2. \A m \in T : m < n => <<m, n>> \in R
  BY DEF OpToRel
<1> HIDE DEF R
<1>3. \A m \in T : ~(m < n)
  BY <1>1, <1>2, Zenon
<1> QED BY <1>3

\* process_data of the AT parser: no end of a line, or the first one.
LEMMA AtStepIs ==
  ASSUME NEW st \in LoopStates, NEW new, new = AtStep(st)
  PROVE  \/ new = Stop(st) /\ \A i \in 1..Len(st.buf) : st.buf[i] # EndOfLine
         \/ \E at \in 1..Len(st.buf) :
              /\ FirstEnd(st.buf, at)
              /\ new = [buf |-> After(st.buf, at), more |-> TRUE,
                        out |-> IF SubSeq(st.buf, 1, at - 1) # <<>>
                                     /\ Head(SubSeq(st.buf, 1, at - 1)) = AT
                                  THEN Append(st.out, [type |-> Invocation,
                                                       body |-> SubSeq(st.buf, 1, at - 1)])
                                  ELSE st.out]
<1> DEFINE ends == {i \in 1..Len(st.buf) : st.buf[i] = EndOfLine}
           at == CHOOSE i \in ends : \A j \in ends : i <= j
<1>1. CASE ends = {}
  BY <1>1, Zenon DEF AtStep
<1>2. CASE ends # {}
  <2>1. ends \in SUBSET Nat
    OBVIOUS
  <2>2. \E i \in ends : \A j \in ends : i <= j
    <3> HIDE DEF ends
    <3> QED BY <1>2, <2>1, LowestExists, Zenon
  <2>3. at \in ends /\ \A j \in ends : at <= j
    <3> HIDE DEF ends
    <3> QED BY <2>2, Zenon
  <2>4. new = [buf |-> After(st.buf, at), more |-> TRUE,
               out |-> IF SubSeq(st.buf, 1, at - 1) # <<>> /\ Head(SubSeq(st.buf, 1, at - 1)) = AT
                         THEN Append(st.out, [type |-> Invocation, body |-> SubSeq(st.buf, 1, at - 1)])
                         ELSE st.out]
    BY <1>2, Zenon DEF AtStep
  <2> HIDE DEF at
  <2>5. FirstEnd(st.buf, at) /\ at \in 1..Len(st.buf)
    BY <2>3 DEF FirstEnd
  <2> QED BY <2>4, <2>5, Zenon
<1> QED BY <1>1, <1>2, Zenon

\* The line in front of an end.
LEMMA LineIs ==
  ASSUME NEW buf \in Seq(Bytes), NEW at \in 1..Len(buf)
  PROVE  /\ SubSeq(buf, 1, at - 1) \in Seq(Bytes) /\ Len(SubSeq(buf, 1, at - 1)) = at - 1
         /\ \A i \in 1..(at - 1) : SubSeq(buf, 1, at - 1)[i] = buf[i]
         /\ After(buf, at) \in Seq(Bytes) /\ Len(After(buf, at)) < Len(buf)
<1>1. at - 1 \in 0..Len(buf) /\ at \in 0..Len(buf) /\ Len(buf) \in Nat
  OBVIOUS
<1>2. SubSeq(buf, 1, at - 1) \in Seq(Bytes) /\ Len(SubSeq(buf, 1, at - 1)) = at - 1
  BY <1>1, AfterIs
<1>3. \A i \in 1..(at - 1) : SubSeq(buf, 1, at - 1)[i] = buf[i]
  BY <1>1
<1>4. After(buf, at) \in Seq(Bytes) /\ Len(After(buf, at)) = Len(buf) - at
  BY <1>1, AfterIs
<1> QED BY <1>1, <1>2, <1>3, <1>4

\* process_data of the AT parser takes a line.
LEMMA AtIsSound ==
  ASSUME NEW st \in LoopStates, NEW new, new = AtStep(st)
  PROVE  StepIsSound(st, new)
<1>1. CASE new = Stop(st)
  BY <1>1, StopIsSound
<1>2. ASSUME NEW at \in 1..Len(st.buf),
             new = [buf |-> After(st.buf, at), more |-> TRUE,
                    out |-> IF SubSeq(st.buf, 1, at - 1) # <<>> /\ Head(SubSeq(st.buf, 1, at - 1)) = AT
                              THEN Append(st.out, [type |-> Invocation, body |-> SubSeq(st.buf, 1, at - 1)])
                              ELSE st.out]
      PROVE  StepIsSound(st, new)
  <2> DEFINE line == SubSeq(st.buf, 1, at - 1)
  <2>1. st.buf \in Seq(Bytes) /\ st.out \in Seq(Dispatched)
    BY DEF LoopStates
  <2>2. line \in Seq(Bytes) /\ After(st.buf, at) \in Seq(Bytes)
        /\ Len(After(st.buf, at)) < Len(st.buf)
    BY <2>1, LineIs
  <2> HIDE DEF line
  <2>3. [type |-> Invocation, body |-> line] \in Dispatched
    BY <2>2, FramingAssumption DEF Dispatched, Bytes, Invocation
  <2>4. Append(st.out, [type |-> Invocation, body |-> line]) \in Seq(Dispatched)
    BY <2>1, <2>3, AppendProperties
  <2>5. new \in LoopStates
    BY <1>2, <2>1, <2>2, <2>4 DEF LoopStates, line
  <2>6. new.buf = After(st.buf, at)
    BY <1>2
  <2> QED BY <2>2, <2>5, <2>6 DEF StepIsSound
<1> QED BY <1>1, <1>2, AtStepIs, Zenon

\* process_data of the AT parser waits or takes the line that comes next.
LEMMA AtTakes ==
  ASSUME NEW st \in LoopStates, NEW new, new = AtStep(st),
         NEW rest \in Seq(Bytes), NEW tail \in Seq(Bytes), NEW m \in Messages("at"),
         st.buf \o rest = Encode("at", m) \o tail
  PROVE  new = Stop(st) \/ Takes("at", st, new, m, rest, tail)
<1> DEFINE e == Encode("at", m)
<1>1. SUFFICES ASSUME NEW at \in 1..Len(st.buf), FirstEnd(st.buf, at),
                      new = [buf |-> After(st.buf, at), more |-> TRUE,
                             out |-> IF SubSeq(st.buf, 1, at - 1) # <<>>
                                          /\ Head(SubSeq(st.buf, 1, at - 1)) = AT
                                       THEN Append(st.out, [type |-> Invocation,
                                                            body |-> SubSeq(st.buf, 1, at - 1)])
                                       ELSE st.out]
               PROVE  Takes("at", st, new, m, rest, tail)
  BY AtStepIs, Zenon
<1>2. st.buf \in Seq(Bytes) /\ st.buf \o rest = e \o tail
  BY DEF LoopStates
<1>3. m \in Dispatched /\ m = [type |-> m.type, body |-> m.body] /\ m.type = Invocation
  BY MessagesAre DEF Kinds
<1>4. m.body \in Seq(Bytes)
  BY <1>3 DEF Dispatched
<1>5. /\ e \in Seq(Bytes) /\ Len(e) = Len(m.body) + 1 /\ e[Len(m.body) + 1] = EndOfLine
      /\ \A i \in 1..Len(m.body) : e[i] = m.body[i] /\ e[i] # EndOfLine
  BY EncodeAt
<1> HIDE DEF e
<1>6. \A i \in 1..Len(e) : i <= Len(st.buf) => st.buf[i] = e[i]
  BY <1>2, <1>5, CommonBeginning
<1>7. at = Len(e)
  <2>1. Len(m.body) \in Nat /\ Len(e) \in 1..Len(e) /\ Len(st.buf) \in Nat
    BY <1>2, <1>4, <1>5
  <2>2. ASSUME at < Len(e) PROVE FALSE
    <3>1. at \in 1..Len(m.body) /\ at \in 1..Len(e) /\ at <= Len(st.buf)
      BY <1>5, <2>1, <2>2
    <3> QED BY <1>1, <1>5, <1>6, <3>1, Zenon DEF FirstEnd
  <2>3. ASSUME at > Len(e) PROVE FALSE
    <3>1. Len(e) \in 1..Len(st.buf) /\ Len(e) \in 1..Len(e) /\ Len(e) <= Len(st.buf)
          /\ ~(at <= Len(e))
      BY <2>1, <2>3
    <3>2. st.buf[Len(e)] = EndOfLine
      BY <1>5, <1>6, <3>1, Zenon
    <3> QED BY <1>1, <3>1, <3>2 DEF FirstEnd
  <2> QED BY <2>1, <2>2, <2>3
<1> DEFINE line == SubSeq(st.buf, 1, at - 1)
<1>8. line \in Seq(Bytes) /\ Len(line) = at - 1 /\ \A i \in 1..(at - 1) : line[i] = st.buf[i]
  BY <1>2, LineIs
<1> HIDE DEF line
<1>9. at - 1 = Len(m.body)
  BY <1>4, <1>5, <1>7
<1>10. ASSUME NEW i \in 1..Len(line) PROVE line[i] = m.body[i]
  <2>1. i \in 1..(at - 1) /\ i \in 1..Len(m.body) /\ i \in 1..Len(e) /\ i <= Len(st.buf)
    BY <1>8, <1>9, <1>7
  <2> QED BY <1>5, <1>6, <1>8, <2>1, Zenon
<1>11. line = m.body
  BY <1>4, <1>8, <1>9, <1>10, SeqEqual, Zenon
<1>12. After(st.buf, at) \o rest = tail
  <2>1. Len(e) <= Len(st.buf)
    BY <1>7
  <2>2. Splits(st.buf, rest, e, tail)
    BY <1>2, <1>5, <2>1, SplitAt, Zenon
  <2> QED BY <1>7, <2>2 DEF Splits
<1>13. [type |-> Invocation, body |-> line] = m
  BY <1>3, <1>11
<1>14. Dispatches("at", m) <=> line # <<>> /\ Head(line) = AT
  BY <1>11 DEF Dispatches
<1>15. new.buf = After(st.buf, at)
  BY <1>1
<1>16. new.out = IF line # <<>> /\ Head(line) = AT
                   THEN Append(st.out, [type |-> Invocation, body |-> line]) ELSE st.out
  BY <1>1 DEF line
<1> QED BY <1>12, <1>13, <1>14, <1>15, <1>16 DEF Takes

\* Any step that is taken leaves a state of the loop, and takes a byte if the
\* loop goes on.
LEMMA StepSound ==
  ASSUME NEW k \in Kinds, NEW st \in LoopStates, NEW past \in [2..4 -> Bytes]
  PROVE  /\ Step(k, st, past) \in LoopStates
         /\ ~st.more => Step(k, st, past) = st
         /\ st.more => StepIsSound(st, Step(k, st, past))
<1>1. st.more \in BOOLEAN
  BY DEF LoopStates
<1>2. CASE ~st.more
  BY <1>2 DEF Step
<1>3. CASE st.more
  <2>1. CASE k = "rpc"
    <3>1. Step(k, st, past) = RpcStep(st, past)
      BY <1>3, <2>1 DEF Step
    <3>2. StepIsSound(st, Step(k, st, past))
      BY <3>1, RpcIsSound, Zenon
    <3> QED BY <1>3, <3>2 DEF StepIsSound
  <2>2. CASE k = "qemud"
    <3>1. Step(k, st, past) = QemudStep(st)
      BY <1>3, <2>2 DEF Step
    <3>2. StepIsSound(st, Step(k, st, past))
      BY <3>1, QemudIsSound, Zenon
    <3> QED BY <1>3, <3>2 DEF StepIsSound
  <2>3. CASE k = "at"
    <3>1. Step(k, st, past) = AtStep(st)
      BY <1>3, <2>3 DEF Step
    <3>2. StepIsSound(st, Step(k, st, past))
      BY <3>1, AtIsSound, Zenon
    <3> QED BY <1>3, <3>2 DEF StepIsSound
  <2> QED BY <2>1, <2>2, <2>3 DEF Kinds
<1> QED BY <1>2, <1>3

\* A step waits or takes the message that comes next.
LEMMA StepTakes ==
  ASSUME NEW k \in Kinds, NEW st \in LoopStates, NEW past \in [2..4 -> Bytes], st.more,
         NEW rest \in Seq(Bytes), NEW tail \in Seq(Bytes), NEW m \in Messages(k),
         Fits(k, m), st.buf \o rest = Encode(k, m) \o tail
  PROVE  Step(k, st, past) = Stop(st) \/ Takes(k, st, Step(k, st, past), m, rest, tail)
<1>1. CASE k = "rpc"
  <2>1. Step(k, st, past) = RpcStep(st, past)
    BY <1>1 DEF Step
  <2> QED BY <1>1, <2>1, RpcTakes, Zenon
<1>2. CASE k = "qemud"
  <2>1. Step(k, st, past) = QemudStep(st)
    BY <1>2 DEF Step
  <2> QED BY <1>2, <2>1, QemudTakes, Zenon
<1>3. CASE k = "at"
  <2>1. Step(k, st, past) = AtStep(st)
    BY <1>3 DEF Step
  <2> QED BY <1>3, <2>1, AtTakes, Zenon
<1> QED BY <1>1, <1>2, <1>3, Zenon DEF Kinds

\* With no message left to come nothing is taken.
LEMMA StepWaits ==
  ASSUME NEW k \in Kinds, NEW st \in LoopStates, NEW past \in [2..4 -> Bytes], st.more,
         st.buf = <<>>
  PROVE  Step(k, st, past) = Stop(st)
<1>1. Len(st.buf) = 0
  OBVIOUS
<1>2. CASE k = "rpc"
  BY <1>1, <1>2 DEF Step, RpcStep
<1>3. CASE k = "qemud"
  BY <1>1, <1>3 DEF Step, QemudStep
<1>4. CASE k = "at"
  <2>1. {i \in 1..Len(st.buf) : st.buf[i] = EndOfLine} = {}
    BY <1>1
  <2> QED BY <1>4, <2>1 DEF Step, AtStep
<1> QED BY <1>2, <1>3, <1>4 DEF Kinds

-----------------------------------------------------------------------------
(***************************************************************************)
(* The messages sent.                                                      *)
(***************************************************************************)
NextUpto(k, ms, before, n) ==
  [bytes |-> before.bytes \o Encode(k, ms[n]),
   out |-> IF Dispatches(k, ms[n]) THEN Append(before.out, ms[n]) ELSE before.out]

SolvesUpto(k, ms, N, g) ==
  g = [n \in 0..N |-> IF n = 0 THEN [bytes |-> <<>>, out |-> <<>>] ELSE NextUpto(k, ms, g[n - 1], n)]

\* The recursion has a solution.
LEMMA UptoExists ==
  ASSUME NEW k, NEW ms, NEW N \in Nat
  PROVE  \E g : SolvesUpto(k, ms, N, g)
<1> DEFINE first == [bytes |-> <<>>, out |-> <<>>]
           Solves(m, g) == g = [n \in 0..m |-> IF n = 0 THEN first ELSE NextUpto(k, ms, g[n - 1], n)]
           T == {m \in Nat : ~\E g : Solves(m, g)}
<1> HIDE DEF first
<1>1. T = {}
  <2> SUFFICES ASSUME T # {} PROVE FALSE
    OBVIOUS
  <2>1. PICK m \in T : \A j \in T : m <= j
    <3>1. T \in SUBSET Nat
      OBVIOUS
    <3> HIDE DEF T
    <3> QED BY <3>1, LowestExists, Zenon
  <2>2. m \in Nat /\ ~\E g : Solves(m, g)
    OBVIOUS
  <2>3. m # 0
    <3> DEFINE g == [n \in 0..0 |-> first]
    <3>1. g = [n \in 0..0 |-> IF n = 0 THEN first ELSE NextUpto(k, ms, g[n - 1], n)]
      OBVIOUS
    <3> QED BY <2>2, <3>1, Zenon
  <2>4. m - 1 \in Nat /\ ~(m <= m - 1)
    BY <2>2, <2>3
  <2>5. PICK g : Solves(m - 1, g)
    BY <2>1, <2>4, Zenon
  <2> DEFINE f == [n \in 0..m |-> IF n < m THEN g[n] ELSE NextUpto(k, ms, g[m - 1], m)]
  <2>6. ASSUME NEW n \in 0..m
        PROVE  f[n] = IF n = 0 THEN first ELSE NextUpto(k, ms, f[n - 1], n)
    <3>1. CASE n = 0
      <4>1. 0 \in 0..(m - 1) /\ 0 < m /\ n < m
        BY <2>4, <3>1
      <4> QED BY <2>5, <3>1, <4>1
    <3>2. CASE n # 0
      <4>1. n - 1 \in 0..(m - 1) /\ n - 1 \in 0..m /\ n - 1 < m
        BY <2>4, <3>2
      <4>2. f[n - 1] = g[n - 1]
        BY <4>1, Zenon
      <4>3. CASE n = m
        <5>1. f[n] = NextUpto(k, ms, g[m - 1], m)
          BY <2>2, <4>3
        <5> QED BY <3>2, <4>2, <4>3, <5>1
      <4>4. CASE n # m
        <5>1. n < m /\ n \in 0..(m - 1)
          BY <2>2, <4>4
        <5>2. f[n] = g[n]
          BY <5>1
        <5>3. g[n] = NextUpto(k, ms, g[n - 1], n)
          BY <2>5, <3>2, <5>1
        <5> QED BY <3>2, <4>2, <5>2, <5>3
      <4> QED BY <4>3, <4>4
    <3> QED BY <3>1, <3>2
  <2>7. f = [n \in 0..m |-> IF n = 0 THEN first ELSE NextUpto(k, ms, f[n - 1], n)]
    <3>1. f = [n \in 0..m |-> f[n]]
      OBVIOUS
    <3> HIDE DEF f
    <3> QED BY <2>6, <3>1, Zenon
  <2> HIDE DEF f
  <2> QED BY <2>2, <2>7
<1>2. \E g : Solves(N, g)
  BY <1>1, Zenon
<1> QED BY <1>2 DEF first, SolvesUpto

\* What the recursion says.
IsUpto(k, ms, u) ==
  /\ u[0] = [bytes |-> <<>>, out |-> <<>>]
  /\ \A n \in 1..Len(ms) : u[n] = NextUpto(k, ms, u[n - 1], n)

\* Upto is the solution of its recursion.
LEMMA UptoIs ==
  ASSUME NEW k, NEW ms, Len(ms) \in Nat
  PROVE  IsUpto(k, ms, Upto(k, ms))
<1> DEFINE N == Len(ms)
           u == CHOOSE g : SolvesUpto(k, ms, N, g)
<1>1. Upto(k, ms) = u
  BY DEF Upto, NextUpto, SolvesUpto
<1>2. \E g : SolvesUpto(k, ms, N, g)
  BY UptoExists, Zenon
<1>3. SolvesUpto(k, ms, N, u)
  BY <1>2, Zenon
<1> HIDE DEF u
<1>4. 0 \in 0..N /\ \A n \in 1..N : n \in 0..N /\ n # 0
  OBVIOUS
<1> QED BY <1>1, <1>3, <1>4 DEF IsUpto, SolvesUpto

\* A pair of bytes and messages.
UptoType(x) == x.bytes \in Seq(Bytes) /\ x.out \in Seq(Dispatched)

\* The bytes of a message.
LEMMA EncodeIs ==
  ASSUME NEW k \in Kinds, NEW m \in Messages(k)
  PROVE  Encode(k, m) \in Seq(Bytes)
BY EncodeRpc, EncodeQemud, EncodeAt DEF Kinds

\* One message more.
LEMMA NextUptoIs ==
  ASSUME NEW k \in Kinds, NEW ms \in Seq(Messages(k)), NEW n \in 1..Len(ms), NEW x, UptoType(x)
  PROVE  UptoType(NextUpto(k, ms, x, n))
<1>1. ms[n] \in Messages(k)
  OBVIOUS
<1>2. Encode(k, ms[n]) \in Seq(Bytes) /\ ms[n] \in Dispatched
  BY <1>1, EncodeIs, MessagesAre
<1>3. x.bytes \o Encode(k, ms[n]) \in Seq(Bytes)
  BY <1>2, ConcatProperties DEF UptoType
<1>4. Append(x.out, ms[n]) \in Seq(Dispatched)
  BY <1>2, AppendProperties DEF UptoType
<1> QED BY <1>3, <1>4 DEF UptoType, NextUpto

\* Bytes and messages at every place.
LEMMA UptoTypes ==
  ASSUME NEW k \in Kinds, NEW ms \in Seq(Messages(k)), NEW u, IsUpto(k, ms, u)
  PROVE  \A n \in 0..Len(ms) : UptoType(u[n])
<1> DEFINE T == {n \in 0..Len(ms) : ~UptoType(u[n])}
<1>1. T = {}
  <2> SUFFICES ASSUME T # {} PROVE FALSE
    OBVIOUS
  <2>1. PICK m \in T : \A j \in T : m <= j
    <3>1. T \in SUBSET Nat
      OBVIOUS
    <3> HIDE DEF T
    <3> QED BY <3>1, LowestExists, Zenon
  <2>2. m \in 0..Len(ms) /\ ~UptoType(u[m])
    OBVIOUS
  <2>3. m # 0
    <3>1. u[0] = [bytes |-> <<>>, out |-> <<>>]
      BY DEF IsUpto
    <3>2. UptoType(u[0])
      BY <3>1 DEF UptoType
    <3> QED BY <2>2, <3>2
  <2>4. m - 1 \in 0..Len(ms) /\ ~(m <= m - 1) /\ m \in 1..Len(ms)
    BY <2>2, <2>3
  <2>5. UptoType(u[m - 1])
    BY <2>1, <2>4
  <2>6. u[m] = NextUpto(k, ms, u[m - 1], m)
    BY <2>4 DEF IsUpto
  <2> QED BY <2>2, <2>4, <2>5, <2>6, NextUptoIs, Zenon
<1> QED BY <1>1

Grown(u, j, n) == \E t \in Seq(Bytes) : u[n].bytes = u[j].bytes \o t

\* The bytes up to a message begin the bytes up to a later one.
LEMMA UptoGrows ==
  ASSUME NEW k \in Kinds, NEW ms \in Seq(Messages(k)), NEW u, IsUpto(k, ms, u), NEW j \in 0..Len(ms)
  PROVE  \A n \in j..Len(ms) : Grown(u, j, n)
<1> DEFINE T == {n \in j..Len(ms) : ~Grown(u, j, n)}
<1>0. \A n \in 0..Len(ms) : UptoType(u[n])
  BY UptoTypes
<1>1. T = {}
  <2> SUFFICES ASSUME T # {} PROVE FALSE
    OBVIOUS
  <2>1. PICK m \in T : \A i \in T : m <= i
    <3>1. T \in SUBSET Nat
      OBVIOUS
    <3> HIDE DEF T
    <3> QED BY <3>1, LowestExists, Zenon
  <2>2. m \in j..Len(ms) /\ ~Grown(u, j, m)
    OBVIOUS
  <2>3. u[j].bytes \in Seq(Bytes)
    BY <1>0 DEF UptoType
  <2>4. m # j
    <3>1. u[j].bytes = u[j].bytes \o <<>> /\ <<>> \in Seq(Bytes)
      BY <2>3, ConcatEmptySeq
    <3> QED BY <2>2, <3>1, Zenon DEF Grown
  <2>5. m - 1 \in j..Len(ms) /\ ~(m <= m - 1) /\ m \in 1..Len(ms)
    BY <2>2, <2>4
  <2>6. PICK t \in Seq(Bytes) : u[m - 1].bytes = u[j].bytes \o t
    <3>1. Grown(u, j, m - 1)
      BY <2>1, <2>5
    <3> QED BY <3>1, Zenon DEF Grown
  <2>7. u[m].bytes = u[m - 1].bytes \o Encode(k, ms[m])
    <3>1. u[m] = NextUpto(k, ms, u[m - 1], m)
      BY <2>5 DEF IsUpto
    <3>2. NextUpto(k, ms, u[m - 1], m).bytes = u[m - 1].bytes \o Encode(k, ms[m])
      BY Zenon DEF NextUpto
    <3> QED BY <3>1, <3>2, Zenon
  <2>8. Encode(k, ms[m]) \in Seq(Bytes)
    BY <2>5, EncodeIs
  <2>9. Regrouped(u[j].bytes, t, Encode(k, ms[m]))
    BY <2>3, <2>8, Regrouping, Zenon
  <2>10. u[m].bytes = u[j].bytes \o (t \o Encode(k, ms[m]))
    BY <2>6, <2>7, <2>9, Zenon DEF Regrouped
  <2>11. t \o Encode(k, ms[m]) \in Seq(Bytes)
    BY <2>8, ConcatProperties
  <2> QED BY <2>2, <2>10, <2>11, Zenon DEF Grown
<1> QED BY <1>1

\* The bytes behind those of the first j messages are the next message and others.
LEMMA UptoNext ==
  ASSUME NEW k \in Kinds, NEW ms \in Seq(Messages(k)), NEW u, IsUpto(k, ms, u),
         NEW j \in 0..Len(ms), j # Len(ms)
  PROVE  \E t \in Seq(Bytes) : /\ u[Len(ms)].bytes = u[j].bytes \o (Encode(k, ms[j + 1]) \o t)
                               /\ u[Len(ms)].bytes = u[j + 1].bytes \o t
<1> DEFINE e == Encode(k, ms[j + 1])
<1>1. j + 1 \in 1..Len(ms) /\ j + 1 \in 0..Len(ms) /\ (j + 1) - 1 = j /\ Len(ms) \in (j + 1)..Len(ms)
  OBVIOUS
<1>2. PICK t \in Seq(Bytes) : u[Len(ms)].bytes = u[j + 1].bytes \o t
  <2>1. Grown(u, j + 1, Len(ms))
    BY <1>1, UptoGrows, Zenon
  <2> QED BY <2>1, Zenon DEF Grown
<1>3. u[j + 1] = NextUpto(k, ms, u[j], j + 1)
  <2>1. u[j + 1] = NextUpto(k, ms, u[(j + 1) - 1], j + 1)
    BY <1>1 DEF IsUpto
  <2> QED BY <1>1, <2>1
<1>4. NextUpto(k, ms, u[j], j + 1).bytes = u[j].bytes \o e
  BY Zenon DEF NextUpto
<1>5. e \in Seq(Bytes) /\ u[j].bytes \in Seq(Bytes)
  BY <1>1, EncodeIs, UptoTypes DEF UptoType
<1> HIDE DEF e
<1>6. Regrouped(u[j].bytes, e, t)
  BY <1>5, Regrouping, Zenon
<1>7. u[Len(ms)].bytes = u[j].bytes \o (e \o t)
  BY <1>2, <1>3, <1>4, <1>6, Zenon DEF Regrouped
<1> QED BY <1>2, <1>7, Zenon DEF e

\* A message more changes nothing for the first ones.
LEMMA UptoAppend ==
  ASSUME NEW k \in Kinds, NEW ms \in Seq(Messages(k)), NEW m \in Messages(k),
         NEW u, IsUpto(k, ms, u), NEW v, IsUpto(k, Append(ms, m), v)
  PROVE  /\ \A n \in 0..Len(ms) : v[n] = u[n]
         /\ v[Len(ms) + 1].bytes = u[Len(ms)].bytes \o Encode(k, m)
<1> DEFINE T == {n \in 0..Len(ms) : v[n] # u[n]}
           more == Append(ms, m)
<1>0. /\ Len(more) = Len(ms) + 1 /\ Len(ms) \in Nat /\ more[Len(ms) + 1] = m
      /\ \A i \in 1..Len(ms) : more[i] = ms[i]
  OBVIOUS
<1> HIDE DEF more
<1>1. v[0] = u[0] /\ \A n \in 1..Len(more) : v[n] = NextUpto(k, more, v[n - 1], n)
  BY DEF IsUpto, more
<1>2. T = {}
  <2> SUFFICES ASSUME T # {} PROVE FALSE
    OBVIOUS
  <2>1. PICK i \in T : \A j \in T : i <= j
    <3>1. T \in SUBSET Nat
      OBVIOUS
    <3> HIDE DEF T
    <3> QED BY <3>1, LowestExists, Zenon
  <2>2. i \in 0..Len(ms) /\ v[i] # u[i]
    OBVIOUS
  <2>3. i # 0
    BY <1>1, <2>2
  <2>4. i - 1 \in 0..Len(ms) /\ ~(i <= i - 1) /\ i \in 1..Len(ms) /\ i \in 1..Len(more)
    BY <1>0, <2>2, <2>3
  <2>5. v[i - 1] = u[i - 1]
    BY <2>1, <2>4
  <2>6. u[i] = NextUpto(k, ms, u[i - 1], i)
    BY <2>4 DEF IsUpto
  <2>7. v[i] = NextUpto(k, more, v[i - 1], i)
    BY <1>1, <2>4, Zenon
  <2>8. more[i] = ms[i]
    BY <1>0, <2>4, Zenon
  <2>9. NextUpto(k, more, u[i - 1], i) = NextUpto(k, ms, u[i - 1], i)
    BY <2>8 DEF NextUpto
  <2> QED BY <2>2, <2>5, <2>6, <2>7, <2>9, Zenon
<1>3. ASSUME NEW n \in 0..Len(ms) PROVE v[n] = u[n]
  BY <1>2
<1>4. Len(ms) + 1 \in 1..Len(more) /\ (Len(ms) + 1) - 1 = Len(ms) /\ Len(ms) \in 0..Len(ms)
  BY <1>0
<1>5. v[Len(ms) + 1] = NextUpto(k, more, v[Len(ms)], Len(ms) + 1)
  <2>1. v[Len(ms) + 1] = NextUpto(k, more, v[(Len(ms) + 1) - 1], Len(ms) + 1)
    BY <1>1, <1>4, Zenon
  <2> QED BY <1>4, <2>1, Zenon
<1>6. NextUpto(k, more, v[Len(ms)], Len(ms) + 1).bytes
        = v[Len(ms)].bytes \o Encode(k, more[Len(ms) + 1])
  BY Zenon DEF NextUpto
<1>7. v[Len(ms) + 1].bytes = u[Len(ms)].bytes \o Encode(k, m)
  BY <1>0, <1>3, <1>4, <1>5, <1>6, Zenon
<1> QED BY <1>3, <1>7, Zenon

-----------------------------------------------------------------------------
(***************************************************************************)
(* The loops.                                                              *)
(***************************************************************************)
\* What has been dispatched is what was sent up to some message, and the bytes
\* not yet taken are those of the messages after it.
AlignedAt(ms, u, before, st, rest) ==
  \E j \in 0..Len(ms) : /\ before \o st.out = u[j].out
                        /\ u[Len(ms)].bytes = u[j].bytes \o (st.buf \o rest)

\* Waiting changes nothing.
LEMMA StopAligned ==
  ASSUME NEW ms, NEW u, NEW before, NEW st, NEW rest, AlignedAt(ms, u, before, st, rest)
  PROVE  AlignedAt(ms, u, before, Stop(st), rest)
<1>1. Stop(st).buf = st.buf /\ Stop(st).out = st.out
  BY DEF Stop
<1> QED BY <1>1, Zenon DEF AlignedAt

AppendedBehind(s, t, m) == s \o Append(t, m) = Append(s \o t, m)

\* One message more at the end.
LEMMA AppendBehind ==
  ASSUME NEW S, NEW s \in Seq(S), NEW t \in Seq(S), NEW m \in S
  PROVE  AppendedBehind(s, t, m)
<1> DEFINE x == s \o Append(t, m)
           y == Append(s \o t, m)
<1>1. x \in Seq(S) /\ y \in Seq(S) /\ Len(x) = Len(y)
  OBVIOUS
<1>2. ASSUME NEW i \in 1..Len(x) PROVE x[i] = y[i]
  OBVIOUS
<1> HIDE DEF x, y
<1>3. x = y
  BY <1>1, <1>2, SeqEqual
<1> QED BY <1>3 DEF x, y, AppendedBehind

AllFit(k, ms) == \A i \in 1..Len(ms) : Fits(k, ms[i])

\* A step of the loop keeps the stream aligned.
LEMMA StepAligned ==
  ASSUME NEW k \in Kinds, NEW ms \in Seq(Messages(k)), NEW u, IsUpto(k, ms, u), AllFit(k, ms),
         NEW before \in Seq(Dispatched), NEW st \in LoopStates, NEW rest \in Seq(Bytes),
         NEW past \in [2..4 -> Bytes], AlignedAt(ms, u, before, st, rest)
  PROVE  AlignedAt(ms, u, before, Step(k, st, past), rest)
<1>1. CASE ~st.more
  BY <1>1, StepSound, Zenon
<1>2. CASE st.more
  <2>1. PICK j \in 0..Len(ms) : /\ before \o st.out = u[j].out
                                /\ u[Len(ms)].bytes = u[j].bytes \o (st.buf \o rest)
    BY Zenon DEF AlignedAt
  <2>2. st.buf \in Seq(Bytes) /\ st.out \in Seq(Dispatched)
    BY DEF LoopStates
  <2>3. u[j].bytes \in Seq(Bytes) /\ st.buf \o rest \in Seq(Bytes)
    BY <2>2, UptoTypes, ConcatProperties DEF UptoType
  <2>4. CASE j = Len(ms)
    <3>1. u[j].bytes \o (st.buf \o rest) = u[j].bytes \o <<>>
      BY <2>1, <2>3, <2>4, ConcatEmptySeq, Zenon
    <3>2. st.buf \o rest = <<>>
      <4>1. <<>> \in Seq(Bytes)
        OBVIOUS
      <4> QED BY <2>3, <3>1, <4>1, SameBeginning, Zenon
    <3>3. st.buf = <<>>
      BY <2>2, <3>2, ConcatEqualIffEmpty
    <3>4. Step(k, st, past) = Stop(st)
      BY <1>2, <3>3, StepWaits, Zenon
    <3> QED BY <3>4, StopAligned, Zenon
  <2>5. CASE j # Len(ms)
    <3> DEFINE m == ms[j + 1]
               new == Step(k, st, past)
    <3>1. PICK t \in Seq(Bytes) : /\ u[Len(ms)].bytes = u[j].bytes \o (Encode(k, m) \o t)
                                  /\ u[Len(ms)].bytes = u[j + 1].bytes \o t
      BY <2>5, UptoNext, Zenon
    <3>2. j + 1 \in 1..Len(ms) /\ j + 1 \in 0..Len(ms) /\ (j + 1) - 1 = j
      BY <2>5
    <3>3. m \in Messages(k) /\ Fits(k, m)
      BY <3>2 DEF AllFit
    <3> HIDE DEF new
    <3>4. Encode(k, m) \o t \in Seq(Bytes)
      BY <3>3, EncodeIs, ConcatProperties
    <3>5. st.buf \o rest = Encode(k, m) \o t
      BY <2>1, <2>3, <3>1, <3>4, SameBeginning, Zenon
    <3>6. new = Stop(st) \/ Takes(k, st, new, m, rest, t)
      BY <1>2, <3>3, <3>5, StepTakes, Zenon DEF new
    <3>7. CASE new = Stop(st)
      BY <3>7, StopAligned, Zenon DEF new
    <3>8. CASE Takes(k, st, new, m, rest, t)
      <4>1. u[j + 1] = NextUpto(k, ms, u[j], j + 1)
        <5>1. u[j + 1] = NextUpto(k, ms, u[(j + 1) - 1], j + 1)
          BY <3>2, Zenon DEF IsUpto
        <5> QED BY <3>2, <5>1, Zenon
      <4>2. NextUpto(k, ms, u[j], j + 1).out = IF Dispatches(k, m) THEN Append(u[j].out, m) ELSE u[j].out
        BY DEF NextUpto
      <4>3. m \in Dispatched
        BY <3>3, MessagesAre
      <4>4. AppendedBehind(before, st.out, m)
        BY <2>2, <4>3, AppendBehind, Zenon
      <4>5. new.out = IF Dispatches(k, m) THEN Append(st.out, m) ELSE st.out
        BY <3>8 DEF Takes
      <4>6. before \o new.out = u[j + 1].out
        <5>1. CASE Dispatches(k, m)
          BY <2>1, <4>1, <4>2, <4>4, <4>5, <5>1, Zenon DEF AppendedBehind
        <5>2. CASE ~Dispatches(k, m)
          BY <2>1, <4>1, <4>2, <4>5, <5>2, Zenon
        <5> QED BY <5>1, <5>2, Zenon
      <4>7. u[Len(ms)].bytes = u[j + 1].bytes \o (new.buf \o rest)
        BY <3>1, <3>8, Zenon DEF Takes
      <4> QED BY <3>2, <4>6, <4>7, Zenon DEF AlignedAt, new
    <3> QED BY <3>6, <3>7, <3>8, Zenon
  <2> QED BY <2>4, <2>5, Zenon
<1> QED BY <1>1, <1>2, Zenon

LoopStart(buf) == [buf |-> buf, out |-> <<>>, more |-> TRUE]

SolvesLoop(k, buf, past, N, g) ==
  g = [n \in 0..N |-> IF n = 0 THEN LoopStart(buf) ELSE Step(k, g[n - 1], past)]

\* The recursion has a solution.
LEMMA LoopExists ==
  ASSUME NEW k, NEW buf, NEW past, NEW N \in Nat
  PROVE  \E g : SolvesLoop(k, buf, past, N, g)
<1> DEFINE Solves(m, g) == g = [n \in 0..m |-> IF n = 0 THEN LoopStart(buf) ELSE Step(k, g[n - 1], past)]
           T == {m \in Nat : ~\E g : Solves(m, g)}
<1>1. T = {}
  <2> SUFFICES ASSUME T # {} PROVE FALSE
    OBVIOUS
  <2>1. PICK m \in T : \A j \in T : m <= j
    <3>1. T \in SUBSET Nat
      OBVIOUS
    <3> HIDE DEF T
    <3> QED BY <3>1, LowestExists, Zenon
  <2>2. m \in Nat /\ ~\E g : Solves(m, g)
    OBVIOUS
  <2>3. m # 0
    <3> DEFINE g == [n \in 0..0 |-> LoopStart(buf)]
    <3>1. g = [n \in 0..0 |-> IF n = 0 THEN LoopStart(buf) ELSE Step(k, g[n - 1], past)]
      OBVIOUS
    <3> QED BY <2>2, <3>1, Zenon
  <2>4. m - 1 \in Nat /\ ~(m <= m - 1)
    BY <2>2, <2>3
  <2>5. PICK g : Solves(m - 1, g)
    BY <2>1, <2>4, Zenon
  <2> DEFINE f == [n \in 0..m |-> IF n < m THEN g[n] ELSE Step(k, g[m - 1], past)]
  <2>6. ASSUME NEW n \in 0..m
        PROVE  f[n] = IF n = 0 THEN LoopStart(buf) ELSE Step(k, f[n - 1], past)
    <3>1. CASE n = 0
      <4>1. 0 \in 0..(m - 1) /\ 0 < m /\ n < m
        BY <2>4, <3>1
      <4> QED BY <2>5, <3>1, <4>1
    <3>2. CASE n # 0
      <4>1. n - 1 \in 0..(m - 1) /\ n - 1 \in 0..m /\ n - 1 < m
        BY <2>4, <3>2
      <4>2. f[n - 1] = g[n - 1]
        BY <4>1, Zenon
      <4>3. CASE n = m
        <5>1. f[n] = Step(k, g[m - 1], past)
          BY <2>2, <4>3
        <5> QED BY <3>2, <4>2, <4>3, <5>1
      <4>4. CASE n # m
        <5>1. n < m /\ n \in 0..(m - 1)
          BY <2>2, <4>4
        <5>2. f[n] = g[n]
          BY <5>1
        <5>3. g[n] = Step(k, g[n - 1], past)
          BY <2>5, <3>2, <5>1
        <5> QED BY <3>2, <4>2, <5>2, <5>3
      <4> QED BY <4>3, <4>4
    <3> QED BY <3>1, <3>2
  <2>7. f = [n \in 0..m |-> IF n = 0 THEN LoopStart(buf) ELSE Step(k, f[n - 1], past)]
    <3>1. f = [n \in 0..m |-> f[n]]
      OBVIOUS
    <3> HIDE DEF f
    <3> QED BY <2>6, <3>1, Zenon
  <2> HIDE DEF f
  <2> QED BY <2>2, <2>7
<1> QED BY <1>1, Zenon DEF SolvesLoop

\* The steps of a loop over a buffer, g[n] after n of them.
IsLoop(k, buf, past, g) ==
  /\ g[0] = LoopStart(buf)
  /\ \A n \in 1..(Len(buf) + 1) : g[n] = Step(k, g[n - 1], past)
  /\ Loop(k, buf, past) = g[Len(buf) + 1]

\* Loop is the end of these steps.
LEMMA LoopIs ==
  ASSUME NEW k, NEW buf, Len(buf) \in Nat, NEW past
  PROVE  \E g : IsLoop(k, buf, past, g)
<1> DEFINE N == Len(buf) + 1
           g == CHOOSE h : SolvesLoop(k, buf, past, N, h)
<1>0. N \in Nat
  OBVIOUS
<1>1. Loop(k, buf, past) = g[N]
  BY DEF Loop, SolvesLoop, LoopStart
<1>2. \E h : SolvesLoop(k, buf, past, N, h)
  BY <1>0, LoopExists, Zenon
<1>3. SolvesLoop(k, buf, past, N, g)
  BY <1>2, Zenon
<1> HIDE DEF g
<1>4. 0 \in 0..N /\ \A n \in 1..N : n \in 0..N /\ n # 0
  BY <1>0
<1>5. IsLoop(k, buf, past, g)
  BY <1>1, <1>3, <1>4 DEF IsLoop, SolvesLoop
<1> QED BY <1>5

\* One byte less for one step more.
LEMMA OneByteLess ==
  ASSUME NEW a \in Nat, NEW b \in Nat, NEW c \in Nat, NEW m \in Nat, a < b, b + (m - 1) <= c
  PROVE  a + m <= c
OBVIOUS

\* No more bytes than there are.
LEMMA NoByteLeft ==
  ASSUME NEW a \in Nat, NEW b \in Nat
  PROVE  ~(a + (b + 1) <= b)
OBVIOUS

\* Every step is a state of the loop, and n steps that go on took n bytes.
LEMMA LoopSound ==
  ASSUME NEW k \in Kinds, NEW buf \in Seq(Bytes), NEW past \in [2..4 -> Bytes],
         NEW g, IsLoop(k, buf, past, g)
  PROVE  \A n \in 0..(Len(buf) + 1) :
           g[n] \in LoopStates /\ (g[n].more => Len(g[n].buf) + n <= Len(buf))
<1> DEFINE Sound(n) == g[n] \in LoopStates /\ (g[n].more => Len(g[n].buf) + n <= Len(buf))
           T == {n \in 0..(Len(buf) + 1) : ~Sound(n)}
<1>1. T = {}
  <2> SUFFICES ASSUME T # {} PROVE FALSE
    OBVIOUS
  <2>1. PICK m \in T : \A j \in T : m <= j
    <3>1. T \in SUBSET Nat
      OBVIOUS
    <3> HIDE DEF T
    <3> QED BY <3>1, LowestExists, Zenon
  <2>2. m \in 0..(Len(buf) + 1) /\ ~Sound(m)
    OBVIOUS
  <2>3. m # 0
    <3>1. g[0] = LoopStart(buf)
      BY DEF IsLoop
    <3>2. LoopStart(buf) \in LoopStates /\ LoopStart(buf).buf = buf
      BY DEF LoopStart, LoopStates
    <3>3. Len(buf) + 0 <= Len(buf)
      OBVIOUS
    <3> QED BY <2>2, <3>1, <3>2, <3>3
  <2>4. m - 1 \in 0..(Len(buf) + 1) /\ ~(m <= m - 1) /\ m \in 1..(Len(buf) + 1)
    BY <2>2, <2>3
  <2>5. Sound(m - 1)
    BY <2>1, <2>4, Zenon
  <2>6. g[m] = Step(k, g[m - 1], past)
    BY <2>4 DEF IsLoop
  <2>7. /\ g[m] \in LoopStates
        /\ ~g[m - 1].more => g[m] = g[m - 1]
        /\ g[m - 1].more => StepIsSound(g[m - 1], g[m])
    BY <2>5, <2>6, StepSound
  <2>8. ASSUME g[m].more PROVE Len(g[m].buf) + m <= Len(buf)
    <3>1. g[m - 1].more /\ Len(g[m].buf) < Len(g[m - 1].buf)
      BY <2>7, <2>8 DEF StepIsSound
    <3>2. Len(g[m].buf) \in Nat /\ Len(g[m - 1].buf) \in Nat /\ Len(buf) \in Nat /\ m \in Nat
      <4>1. g[m].buf \in Seq(Bytes) /\ g[m - 1].buf \in Seq(Bytes)
        BY <2>5, <2>7, Zenon DEF LoopStates
      <4>2. Len(g[m].buf) \in Nat /\ Len(g[m - 1].buf) \in Nat
        BY <4>1
      <4>3. Len(buf) \in Nat /\ m \in Nat
        BY <2>2
      <4> QED BY <4>2, <4>3, Zenon
    <3>3. Len(g[m - 1].buf) + (m - 1) <= Len(buf)
      BY <2>5, <3>1
    <3> QED BY <3>1, <3>2, <3>3, OneByteLess, Zenon
  <2> QED BY <2>2, <2>7, <2>8
<1> QED BY <1>1

\* The loop ends: one step more than there are bytes is enough.
LEMMA LoopEnds ==
  ASSUME NEW k \in Kinds, NEW buf \in Seq(Bytes), NEW past \in [2..4 -> Bytes]
  PROVE  Loop(k, buf, past) \in LoopStates /\ ~Loop(k, buf, past).more
<1> DEFINE N == Len(buf) + 1
<1>1. PICK g : IsLoop(k, buf, past, g)
  <2>1. Len(buf) \in Nat
    OBVIOUS
  <2> QED BY <2>1, LoopIs, Zenon
<1>2. N \in 0..N /\ Len(buf) \in Nat
  OBVIOUS
<1>3. g[N] \in LoopStates /\ (g[N].more => Len(g[N].buf) + N <= Len(buf))
  BY <1>1, <1>2, LoopSound, Zenon
<1>4. Len(g[N].buf) \in Nat
  BY <1>3 DEF LoopStates
<1>5. ~(Len(g[N].buf) + N <= Len(buf))
  BY <1>2, <1>4, NoByteLeft, Zenon
<1>6. Loop(k, buf, past) = g[N]
  BY <1>1 DEF IsLoop
<1> QED BY <1>3, <1>5, <1>6, Zenon

\* The loop keeps the stream aligned.
LEMMA LoopAligned ==
  ASSUME NEW k \in Kinds, NEW ms \in Seq(Messages(k)), NEW u, IsUpto(k, ms, u), AllFit(k, ms),
         NEW before \in Seq(Dispatched), NEW buf \in Seq(Bytes), NEW rest \in Seq(Bytes),
         NEW past \in [2..4 -> Bytes], AlignedAt(ms, u, before, LoopStart(buf), rest)
  PROVE  AlignedAt(ms, u, before, Loop(k, buf, past), rest)
<1> DEFINE N == Len(buf) + 1
<1>1. PICK g : IsLoop(k, buf, past, g)
  <2>1. Len(buf) \in Nat
    OBVIOUS
  <2> QED BY <2>1, LoopIs, Zenon
<1>2. \A n \in 0..N : g[n] \in LoopStates
  BY <1>1, LoopSound
<1> DEFINE T == {n \in 0..N : ~AlignedAt(ms, u, before, g[n], rest)}
<1>3. T = {}
  <2> SUFFICES ASSUME T # {} PROVE FALSE
    OBVIOUS
  <2>1. PICK m \in T : \A j \in T : m <= j
    <3>1. T \in SUBSET Nat
      OBVIOUS
    <3> HIDE DEF T
    <3> QED BY <3>1, LowestExists, Zenon
  <2>2. m \in 0..N /\ ~AlignedAt(ms, u, before, g[m], rest)
    OBVIOUS
  <2>3. m # 0
    <3>1. g[0] = LoopStart(buf)
      BY <1>1 DEF IsLoop
    <3> QED BY <2>2, <3>1, Zenon
  <2>4. m - 1 \in 0..N /\ ~(m <= m - 1) /\ m \in 1..N
    BY <2>2, <2>3
  <2>5. AlignedAt(ms, u, before, g[m - 1], rest)
    BY <2>1, <2>4, Zenon
  <2>6. g[m] = Step(k, g[m - 1], past)
    BY <1>1, <2>4, Zenon DEF IsLoop
  <2>7. g[m - 1] \in LoopStates
    BY <1>2, <2>4, Zenon
  <2> QED BY <2>2, <2>5, <2>6, <2>7, StepAligned, Zenon
<1>4. N \in 0..N
  OBVIOUS
<1>5. AlignedAt(ms, u, before, g[N], rest)
  BY <1>3, <1>4, Zenon
<1> QED BY <1>1, <1>5, Zenon DEF IsLoop

-----------------------------------------------------------------------------
(***************************************************************************)
(* StreamStaysAligned.                                                     *)
(***************************************************************************)
TypeInv ==
  /\ kind \in Kinds /\ retries \in Nat
  /\ sending \in Seq(Bytes) /\ wire \in Seq(Bytes) /\ buffer \in Seq(Bytes)
  /\ sent \in Seq(Messages(kind)) /\ got \in Seq(Dispatched)

FrameInv == TypeInv /\ StreamStaysAligned

\* What may be read behind the end of the buffer are bytes.
LEMMA PastIs ==
  ASSUME NEW past \in Past
  PROVE  past \in [2..4 -> Bytes]
<1>1. 0 \in Bytes /\ ByteBase - 1 \in Bytes
  BY FramingAssumption DEF Bytes
<1>2. CASE kind = "rpc"
  <2>1. past \in [2..4 -> {0, ByteBase - 1}]
    BY <1>2 DEF Past
  <2>2. {0, ByteBase - 1} \subseteq Bytes
    BY <1>1
  <2> QED BY <2>1, <2>2
<1>3. CASE kind # "rpc"
  <2>1. past = [i \in 2..4 |-> 0]
    BY <1>3 DEF Past
  <2> QED BY <1>1, <2>1
<1> QED BY <1>2, <1>3

\* Nothing sent, nothing under way.
LEMMA InitFrame == Init => FrameInv
<1> SUFFICES ASSUME Init PROVE FrameInv
  OBVIOUS
<1>1. TypeInv
  BY DEF Init, TypeInv, Kinds
<1>2. Len(sent) = 0 /\ Len(sent) \in Nat /\ 0 \in 0..Len(sent)
  BY DEF Init
<1>3. IsUpto(kind, sent, Upto(kind, sent))
  BY <1>2, UptoIs, Zenon
<1>4. Upto(kind, sent)[0] = [bytes |-> <<>>, out |-> <<>>]
  BY <1>3 DEF IsUpto
<1>5. Upto(kind, sent)[0].bytes = <<>> /\ Upto(kind, sent)[0].out = <<>>
  BY <1>4
<1>6. <<>> \o <<>> = <<>>
  OBVIOUS
<1>7. got = <<>> /\ buffer = <<>> /\ wire = <<>> /\ sending = <<>>
  BY DEF Init
<1>8. StreamStaysAligned
  BY <1>2, <1>5, <1>6, <1>7, Zenon DEF StreamStaysAligned
<1> QED BY <1>1, <1>8 DEF FrameInv

\* A message given to send().
LEMMA SendFrame ==
  ASSUME FrameInv, NEW m \in Messages(kind), Send(m)
  PROVE  FrameInv'
<1> DEFINE e == Encode(kind, m)
           u == Upto(kind, sent)
           v == Upto(kind, Append(sent, m))
           N == Len(sent)
<1>1. /\ kind \in Kinds /\ retries \in Nat /\ wire \in Seq(Bytes) /\ buffer \in Seq(Bytes)
      /\ sent \in Seq(Messages(kind)) /\ got \in Seq(Dispatched)
  BY DEF FrameInv, TypeInv
<1>2. /\ sending = <<>> /\ sending' = e /\ sent' = Append(sent, m) /\ kind' = kind
      /\ retries' = retries /\ wire' = wire /\ buffer' = buffer /\ got' = got
  BY DEF Send
<1>3. e \in Seq(Bytes)
  BY <1>1, EncodeIs, Zenon
<1>4. Append(sent, m) \in Seq(Messages(kind)) /\ Len(Append(sent, m)) = N + 1 /\ N \in Nat
  BY <1>1
<1>5. TypeInv'
  BY <1>1, <1>2, <1>3, <1>4 DEF TypeInv
<1>6. IsUpto(kind, sent, u) /\ IsUpto(kind, Append(sent, m), v)
  BY <1>4, UptoIs
<1> HIDE DEF u, v, e
<1>7. (\A n \in 0..N : v[n] = u[n]) /\ v[N + 1].bytes = u[N].bytes \o e
  BY <1>1, <1>6, UptoAppend DEF e
<1>8. ASSUME retries' = 0, SizesFit' PROVE StreamStaysAligned'
  <2>0. SizesFit
    <3>1. \A i \in 1..N : i \in 1..(N + 1) /\ Append(sent, m)[i] = sent[i]
      BY <1>1
    <3> QED BY <1>2, <1>4, <1>8, <3>1, Zenon DEF SizesFit
  <2>1. PICK n \in 0..N : got = u[n].out /\ u[N].bytes = u[n].bytes \o (buffer \o (wire \o <<>>))
    BY <1>2, <1>8, <2>0, Zenon DEF FrameInv, StreamStaysAligned, u
  <2>2. wire \o <<>> = wire
    BY <1>1, ConcatEmptySeq
  <2>3. u[n].bytes \in Seq(Bytes) /\ buffer \o wire \in Seq(Bytes)
    BY <1>1, <1>6, UptoTypes, ConcatProperties DEF UptoType
  <2>4. Regrouped(u[n].bytes, buffer \o wire, e) /\ Regrouped(buffer, wire, e)
    BY <1>1, <1>3, <2>3, Regrouping, Zenon
  <2>5. v[N + 1].bytes = u[n].bytes \o (buffer \o (wire \o e))
    BY <1>7, <2>1, <2>2, <2>4, Zenon DEF Regrouped
  <2>6. n \in 0..(N + 1) /\ v[n] = u[n]
    BY <1>4, <1>7
  <2>7. \E i \in 0..(N + 1) : got = v[i].out /\ v[N + 1].bytes = v[i].bytes \o (buffer \o (wire \o e))
    BY <2>1, <2>5, <2>6, Zenon
  <2> QED BY <1>2, <1>4, <2>7, Zenon DEF StreamStaysAligned, v
<1>9. StreamStaysAligned'
  BY <1>8, Zenon DEF StreamStaysAligned
<1> QED BY <1>5, <1>9 DEF FrameInv

\* A write of all of the message, or of a part of it.
LEMMA WriteFrame ==
  ASSUME FrameInv, Write
  PROVE  FrameInv'
<1> DEFINE free == Room - Len(wire)
<1>1. /\ kind \in Kinds /\ retries \in Nat /\ sending \in Seq(Bytes) /\ wire \in Seq(Bytes)
      /\ buffer \in Seq(Bytes) /\ sent \in Seq(Messages(kind)) /\ got \in Seq(Dispatched)
  BY DEF FrameInv, TypeInv
<1>2. kind' = kind /\ buffer' = buffer /\ sent' = sent /\ got' = got
  BY DEF Write
<1>3. CASE Len(sending) <= free
  <2>1. wire' = wire \o sending /\ sending' = <<>> /\ retries' = retries
    BY <1>3 DEF Write
  <2>2. wire \o sending \in Seq(Bytes) /\ <<>> \in Seq(Bytes)
    BY <1>1, ConcatProperties
  <2>3. TypeInv'
    BY <1>1, <1>2, <2>1, <2>2 DEF TypeInv
  <2>4. (wire \o sending) \o <<>> = wire \o sending
    BY <2>2, ConcatEmptySeq
  <2>5. StreamStaysAligned'
    BY <1>2, <2>1, <2>4, Zenon DEF FrameInv, StreamStaysAligned, SizesFit
  <2> QED BY <2>3, <2>5 DEF FrameInv
<1>4. CASE ~(Len(sending) <= free)
  <2>1. /\ wire' = wire \o SubSeq(sending, 1, free) /\ sending' = sending /\ retries' = retries + 1
        /\ free > 0
    BY <1>4, Zenon DEF Write
  <2>2. free \in 0..Len(sending)
    <3>1. free \in Int /\ Len(sending) \in Nat
      BY <1>1, FramingAssumption
    <3> HIDE DEF free
    <3> QED BY <1>4, <2>1, <3>1
  <2> HIDE DEF free
  <2>3. SubSeq(sending, 1, free) \in Seq(Bytes)
    BY <1>1, <2>2, AfterIs
  <2>4. wire \o SubSeq(sending, 1, free) \in Seq(Bytes)
    BY <1>1, <2>3, ConcatProperties
  <2>5. retries + 1 \in Nat /\ retries + 1 # 0
    BY <1>1
  <2>6. TypeInv'
    BY <1>1, <1>2, <2>1, <2>4, <2>5 DEF TypeInv
  <2>7. StreamStaysAligned'
    BY <2>1, <2>5, Zenon DEF StreamStaysAligned
  <2> QED BY <2>6, <2>7 DEF FrameInv
<1> QED BY <1>3, <1>4, Zenon

\* A piece of the stream moves from the socket to the buffer.
LEMMA PieceMoves ==
  ASSUME NEW b \in Seq(Bytes), NEW w \in Seq(Bytes), NEW s \in Seq(Bytes), NEW n \in 0..Len(w)
  PROVE  b \o (w \o s) = (b \o SubSeq(w, 1, n)) \o (After(w, n) \o s)
<1> DEFINE x == SubSeq(w, 1, n)
           y == After(w, n)
<1>1. x \in Seq(Bytes) /\ y \in Seq(Bytes) /\ w = x \o y
  BY AfterIs, Zenon
<1> HIDE DEF x, y
<1>2. y \o s \in Seq(Bytes)
  BY <1>1, ConcatProperties
<1>3. Regrouped(x, y, s) /\ Regrouped(b, x, y \o s)
  BY <1>1, <1>2, Regrouping, Zenon
<1>4. w \o s = x \o (y \o s)
  BY <1>1, <1>3, Zenon DEF Regrouped
<1>5. b \o (w \o s) = (b \o x) \o (y \o s)
  BY <1>3, <1>4, Zenon DEF Regrouped
<1> QED BY <1>5 DEF x, y

\* A read of any size.
LEMMA ReadFrame ==
  ASSUME FrameInv, Read
  PROVE  FrameInv'
<1>1. /\ kind \in Kinds /\ retries \in Nat /\ sending \in Seq(Bytes) /\ wire \in Seq(Bytes)
      /\ buffer \in Seq(Bytes) /\ sent \in Seq(Messages(kind)) /\ got \in Seq(Dispatched)
  BY DEF FrameInv, TypeInv
<1>2. PICK n \in 1..MaxRead : n <= Len(wire) /\ Receive(n)
  BY DEF Read
<1> DEFINE piece == buffer \o SubSeq(wire, 1, n)
           rest == After(wire, n) \o sending
<1>3. PICK past \in Past :
        /\ buffer' = Loop(kind, piece, past).buf /\ got' = got \o Loop(kind, piece, past).out
        /\ wire' = After(wire, n) /\ UNCHANGED <<kind, sending, retries, sent>>
  BY <1>2 DEF Receive
<1> DEFINE end == Loop(kind, piece, past)
<1>4. n \in 0..Len(wire)
  BY <1>1, <1>2, FramingAssumption
<1>5. SubSeq(wire, 1, n) \in Seq(Bytes) /\ After(wire, n) \in Seq(Bytes)
  BY <1>1, <1>4, AfterIs
<1>6. piece \in Seq(Bytes) /\ rest \in Seq(Bytes)
  BY <1>1, <1>5, ConcatProperties
<1>7. buffer \o (wire \o sending) = piece \o rest
  BY <1>1, <1>4, PieceMoves, Zenon
<1>8. past \in [2..4 -> Bytes]
  BY PastIs
<1>9. rest = wire' \o sending'
  BY <1>3
<1> HIDE DEF piece, rest
<1>10. end \in LoopStates
  BY <1>1, <1>6, <1>8, LoopEnds, Zenon
<1> HIDE DEF end
<1>11. buffer' = end.buf /\ got' = got \o end.out
  BY <1>3 DEF end
<1>12. end.buf \in Seq(Bytes) /\ got \o end.out \in Seq(Dispatched)
  BY <1>1, <1>10, ConcatProperties DEF LoopStates
<1>13. TypeInv'
  BY <1>1, <1>3, <1>5, <1>11, <1>12 DEF TypeInv
<1>14. ASSUME retries' = 0, SizesFit' PROVE StreamStaysAligned'
  <2> DEFINE u == Upto(kind, sent)
  <2>1. IsUpto(kind, sent, u)
    <3>1. Len(sent) \in Nat
      BY <1>1
    <3> QED BY <3>1, UptoIs, Zenon
  <2>2. \E j \in 0..Len(sent) : /\ got = u[j].out
                                /\ u[Len(sent)].bytes = u[j].bytes \o (buffer \o (wire \o sending))
    BY <1>3, <1>14, Zenon DEF FrameInv, StreamStaysAligned, SizesFit
  <2>8. AllFit(kind, sent)
    BY <1>3, <1>14, Zenon DEF AllFit, Fits, SizesFit
  <2> HIDE DEF u
  <2>3. LoopStart(piece).buf = piece /\ got \o LoopStart(piece).out = got
    BY <1>1, ConcatEmptySeq DEF LoopStart
  <2>4. AlignedAt(sent, u, got, LoopStart(piece), rest)
    BY <1>7, <2>2, <2>3, Zenon DEF AlignedAt
  <2>5. AlignedAt(sent, u, got, end, rest)
    BY <1>1, <1>6, <1>8, <2>1, <2>4, <2>8, LoopAligned, Zenon DEF end
  <2>6. \E j \in 0..Len(sent) : got' = u[j].out
                                /\ u[Len(sent)].bytes = u[j].bytes \o (buffer' \o (wire' \o sending'))
    BY <1>9, <1>11, <2>5, Zenon DEF AlignedAt
  <2>7. kind' = kind /\ sent' = sent
    BY <1>3
  <2> QED BY <2>6, <2>7, Zenon DEF StreamStaysAligned, u
<1>15. StreamStaysAligned'
  BY <1>14, Zenon DEF StreamStaysAligned
<1> QED BY <1>13, <1>15 DEF FrameInv

\* Every step keeps the invariant.
LEMMA NextFrame ==
  ASSUME FrameInv, [Next]_vars
  PROVE  FrameInv'
<1>1. CASE \E m \in Messages(kind) : Send(m)
  BY <1>1, SendFrame, Zenon
<1>2. CASE Write
  BY <1>2, WriteFrame, Zenon
<1>3. CASE Read
  BY <1>3, ReadFrame, Zenon
<1>4. CASE UNCHANGED vars
  BY <1>4, Zenon DEF vars, FrameInv, TypeInv, StreamStaysAligned, SizesFit
<1> QED BY <1>1, <1>2, <1>3, <1>4, Zenon DEF Next

\* However the bytes are cut into pieces, and whatever stands behind the end of
\* the buffer: what the processors have dispatched is what was sent up to some
\* message, once and in order, and the bytes under way are the messages after
\* it, as long as no write was repeated and no rpc message was too long for the
\* three bytes of its header.
THEOREM TheStreamStaysAligned == Spec => []StreamStaysAligned
<1>1. FrameInv => StreamStaysAligned
  BY DEF FrameInv
<1> QED BY <1>1, InitFrame, NextFrame, PTL DEF Spec

-----------------------------------------------------------------------------
(***************************************************************************)
(* NoWholeMessageWaits.                                                    *)
(***************************************************************************)
Whole(k, buf) == \E m \in Messages(k) : StartsWith(buf, Encode(k, m))

\* What process_data and process_commands leave.
Settled(k, buf, out) ==
  Whole(k, buf) => k = "qemud" /\ out # <<>> /\ Len(buf) = 4 + Len(out[Len(out)].body)

\* A buffer that starts with bytes has them.
LEMMA StartsWithIs ==
  ASSUME NEW buf \in Seq(Bytes), NEW e \in Seq(Bytes), StartsWith(buf, e)
  PROVE  Len(e) <= Len(buf) /\ \A i \in 1..Len(e) : buf[i] = e[i]
<1>1. Len(e) \in 0..Len(buf) /\ SubSeq(buf, 1, Len(e)) = e
  BY DEF StartsWith
<1>2. \A i \in 1..Len(e) : SubSeq(buf, 1, Len(e))[i] = buf[i]
  BY <1>1
<1> QED BY <1>1, <1>2

\* With a whole message of the rpc layer in front, there is enough to go on.
LEMMA RpcWhole ==
  ASSUME NEW buf \in Seq(Bytes), Whole("rpc", buf)
  PROVE  ~(Len(buf) < 4) /\ ~(Len(buf) < 4 + Value3(buf))
<1>1. PICK m \in Messages("rpc") : StartsWith(buf, Encode("rpc", m))
  BY DEF Whole
<1> DEFINE e == Encode("rpc", m)
<1>2. /\ e \in Seq(Bytes) /\ Len(e) = 4 + Len(m.body)
      /\ Value3(e) \in Nat /\ Value3(e) <= Len(m.body)
  BY EncodeRpc
<1>3. Len(m.body) \in Nat
  BY MessagesAre DEF Kinds
<1>4. Len(e) <= Len(buf) /\ \A i \in 1..Len(e) : buf[i] = e[i]
  BY <1>1, <1>2, StartsWithIs, Zenon
<1> HIDE DEF e
<1>5. 1 \in 1..Len(e) /\ 2 \in 1..Len(e) /\ 3 \in 1..Len(e)
  BY <1>2, <1>3
<1>6. Value3(buf) = Value3(e)
  BY <1>4, <1>5 DEF Value3
<1>7. Len(buf) \in Nat
  OBVIOUS
<1> QED BY <1>2, <1>3, <1>4, <1>6, <1>7

\* The same for a command of qemud.
LEMMA QemudWhole ==
  ASSUME NEW buf \in Seq(Bytes), Whole("qemud", buf)
  PROVE  ~(Len(buf) < 4) /\ ~(Len(buf) < 4 + Value4(buf))
<1>1. PICK m \in Messages("qemud") : StartsWith(buf, Encode("qemud", m))
  BY DEF Whole
<1> DEFINE e == Encode("qemud", m)
<1>2. e \in Seq(Bytes) /\ Len(e) = 4 + Len(m.body) /\ Value4(e) = Len(m.body)
  BY EncodeQemud
<1>3. Len(m.body) \in Nat
  BY MessagesAre DEF Kinds
<1>4. Len(e) <= Len(buf) /\ \A i \in 1..Len(e) : buf[i] = e[i]
  BY <1>1, <1>2, StartsWithIs, Zenon
<1> HIDE DEF e
<1>5. 1 \in 1..Len(e) /\ 2 \in 1..Len(e) /\ 3 \in 1..Len(e) /\ 4 \in 1..Len(e)
  BY <1>2, <1>3
<1>6. Value4(buf) = Value4(e)
  BY <1>4, <1>5 DEF Value3, Value4
<1>7. Len(buf) \in Nat
  OBVIOUS
<1> QED BY <1>2, <1>3, <1>4, <1>6, <1>7

\* A whole line has an end.
LEMMA AtWhole ==
  ASSUME NEW buf \in Seq(Bytes), Whole("at", buf)
  PROVE  \E i \in 1..Len(buf) : buf[i] = EndOfLine
<1>1. PICK m \in Messages("at") : StartsWith(buf, Encode("at", m))
  BY DEF Whole
<1> DEFINE e == Encode("at", m)
<1>2. e \in Seq(Bytes) /\ Len(e) = Len(m.body) + 1 /\ e[Len(m.body) + 1] = EndOfLine
  BY EncodeAt
<1>3. Len(m.body) \in Nat
  BY MessagesAre DEF Kinds
<1>4. Len(e) <= Len(buf) /\ \A i \in 1..Len(e) : buf[i] = e[i]
  BY <1>1, <1>2, StartsWithIs, Zenon
<1> HIDE DEF e
<1>5. Len(e) \in 1..Len(e) /\ Len(e) \in 1..Len(buf)
  BY <1>2, <1>3, <1>4
<1> QED BY <1>2, <1>4, <1>5

\* A step that ends the loop leaves no whole message, but for the end of qemud.
LEMMA StepSettles ==
  ASSUME NEW k \in Kinds, NEW st \in LoopStates, NEW past \in [2..4 -> Bytes], st.more,
         NEW new, new = Step(k, st, past), ~new.more
  PROVE  Settled(k, new.buf, new.out)
<1>1. st.buf \in Seq(Bytes) /\ st.out \in Seq(Dispatched) /\ Stop(st).buf = st.buf
  BY DEF LoopStates, Stop
<1>2. CASE k = "rpc"
  <2>1. new = RpcStep(st, past)
    BY <1>2 DEF Step
  <2>2. new = Stop(st) /\ (Len(st.buf) < 4 \/ Len(st.buf) < 4 + Value3(st.buf))
    <3> DEFINE size == Value3(st.buf)
               took == [buf |-> After(st.buf, 4 + size), more |-> TRUE,
                        out |-> IF st.buf[4] \in {Invocation, Response}
                                  THEN Append(st.out, [type |-> st.buf[4], body |-> SubSeq(st.buf, 5, 4 + size)])
                                  ELSE st.out]
    <3>1. new # took
      <4>1. took.more
        OBVIOUS
      <4> HIDE DEF took
      <4> QED BY <4>1, Zenon
    <3>2. \/ new = Stop(st) /\ (Len(st.buf) < 4 \/ Len(st.buf) < 4 + size)
          \/ Len(st.buf) >= 4 /\ Len(st.buf) >= 4 + size /\ new = took
      BY <2>1, RpcStepIs, Zenon
    <3> QED BY <3>1, <3>2, Zenon
  <2>3. ~Whole("rpc", st.buf)
    BY <1>1, <2>2, RpcWhole, Zenon
  <2> QED BY <1>1, <1>2, <2>2, <2>3, Zenon DEF Settled
<1>3. CASE k = "qemud"
  <2> DEFINE size == Value4(st.buf)
             body == SubSeq(st.buf, 5, 4 + size)
             m == [type |-> Invocation, body |-> body]
  <2>1. new = QemudStep(st)
    BY <1>3 DEF Step
  <2>2. CASE new = Stop(st) /\ (Len(st.buf) < 4 \/ Len(st.buf) < 4 + size)
    <3>1. ~Whole("qemud", st.buf)
      BY <1>1, <2>2, QemudWhole, Zenon
    <3> QED BY <1>1, <1>3, <2>2, <3>1, Zenon DEF Settled
  <2>3. CASE /\ Len(st.buf) >= 4 /\ Len(st.buf) >= 4 + size /\ size \in Nat
             /\ new = [buf |-> After(st.buf, 4 + size), more |-> Len(After(st.buf, 4 + size)) # 4 + size,
                       out |-> Append(st.out, m)]
    <3> HIDE DEF size
    <3>1. body \in Seq(Bytes) /\ Len(body) = size
      BY <1>1, <2>3, BodyIs, Zenon
    <3> HIDE DEF body
    <3>2. m \in Dispatched /\ m.body = body
      BY <3>1, FramingAssumption DEF Dispatched, Bytes, Invocation
    <3>3. Len(new.buf) = 4 + size /\ new.out = Append(st.out, m)
      <4>1. new.more = (Len(After(st.buf, 4 + size)) # 4 + size) /\ new.buf = After(st.buf, 4 + size)
            /\ new.out = Append(st.out, m)
        BY <2>3
      <4> QED BY <4>1, Zenon
    <3> HIDE DEF m
    <3>4. new.out # <<>> /\ new.out[Len(new.out)] = m
      BY <1>1, <3>2, <3>3
    <3> QED BY <1>3, <3>1, <3>2, <3>3, <3>4, Zenon DEF Settled
  <2> QED BY <2>1, <2>2, <2>3, QemudStepIs, Zenon
<1>4. CASE k = "at"
  <2>1. new = AtStep(st)
    BY <1>4 DEF Step
  <2>2. new = Stop(st) /\ \A i \in 1..Len(st.buf) : st.buf[i] # EndOfLine
    <3> DEFINE line(at) == SubSeq(st.buf, 1, at - 1)
               took(at) == [buf |-> After(st.buf, at), more |-> TRUE,
                            out |-> IF line(at) # <<>> /\ Head(line(at)) = AT
                                      THEN Append(st.out, [type |-> Invocation, body |-> line(at)])
                                      ELSE st.out]
    <3>1. ASSUME NEW at PROVE new # took(at)
      <4>1. took(at).more
        OBVIOUS
      <4> HIDE DEF took
      <4> QED BY <4>1, Zenon
    <3>2. \/ new = Stop(st) /\ \A i \in 1..Len(st.buf) : st.buf[i] # EndOfLine
          \/ \E at \in 1..Len(st.buf) : FirstEnd(st.buf, at) /\ new = took(at)
      BY <2>1, AtStepIs, Zenon
    <3> QED BY <3>1, <3>2, Zenon
  <2>3. ~Whole("at", st.buf)
    BY <1>1, <2>2, AtWhole, Zenon
  <2> QED BY <1>1, <1>4, <2>2, <2>3, Zenon DEF Settled
<1> QED BY <1>2, <1>3, <1>4, Zenon DEF Kinds

\* So does the loop.
LEMMA LoopSettles ==
  ASSUME NEW k \in Kinds, NEW buf \in Seq(Bytes), NEW past \in [2..4 -> Bytes]
  PROVE  Settled(k, Loop(k, buf, past).buf, Loop(k, buf, past).out)
<1> DEFINE N == Len(buf) + 1
<1>1. PICK g : IsLoop(k, buf, past, g)
  <2>1. Len(buf) \in Nat
    OBVIOUS
  <2> QED BY <2>1, LoopIs, Zenon
<1>2. \A n \in 0..N : g[n] \in LoopStates
  BY <1>1, LoopSound
<1> DEFINE Fine(n) == ~g[n].more => Settled(k, g[n].buf, g[n].out)
           T == {n \in 0..N : ~Fine(n)}
<1>3. T = {}
  <2> SUFFICES ASSUME T # {} PROVE FALSE
    OBVIOUS
  <2>1. PICK m \in T : \A j \in T : m <= j
    <3>1. T \in SUBSET Nat
      OBVIOUS
    <3> HIDE DEF T
    <3> QED BY <3>1, LowestExists, Zenon
  <2>2. m \in 0..N /\ ~g[m].more /\ ~Settled(k, g[m].buf, g[m].out)
    OBVIOUS
  <2>3. m # 0
    <3>1. g[0] = LoopStart(buf)
      BY <1>1 DEF IsLoop
    <3>2. g[0].more
      BY <3>1 DEF LoopStart
    <3> QED BY <2>2, <3>2, Zenon
  <2>4. m - 1 \in 0..N /\ ~(m <= m - 1) /\ m \in 1..N
    BY <2>2, <2>3
  <2>5. Fine(m - 1)
    BY <2>1, <2>4, Zenon
  <2>6. g[m] = Step(k, g[m - 1], past)
    BY <1>1, <2>4, Zenon DEF IsLoop
  <2>7. g[m - 1] \in LoopStates
    BY <1>2, <2>4, Zenon
  <2>8. CASE g[m - 1].more
    BY <2>2, <2>6, <2>7, <2>8, StepSettles, Zenon
  <2>9. CASE ~g[m - 1].more
    <3>1. g[m] = g[m - 1]
      BY <2>6, <2>7, <2>9, StepSound, Zenon
    <3> QED BY <2>2, <2>5, <2>9, <3>1, Zenon
  <2> QED BY <2>8, <2>9, Zenon
<1>4. N \in 0..N
  OBVIOUS
<1>5. Fine(N)
  BY <1>3, <1>4, Zenon
<1>6. Loop(k, buf, past) = g[N]
  BY <1>1, Zenon DEF IsLoop
<1>7. ~Loop(k, buf, past).more
  BY LoopEnds, Zenon
<1> QED BY <1>5, <1>6, <1>7, Zenon

WaitInv == FrameInv /\ NoWholeMessageWaits

\* What the property says of the state.
LEMMA SettledNow == NoWholeMessageWaits <=> Settled(kind, buffer, got)
BY Zenon DEF NoWholeMessageWaits, Settled, Whole

\* An empty buffer has no message.
LEMMA InitWait == Init => WaitInv
<1> SUFFICES ASSUME Init PROVE NoWholeMessageWaits
  BY InitFrame, Zenon DEF WaitInv
<1>1. kind \in Kinds /\ buffer \in Seq(Bytes) /\ Len(buffer) = 0
  BY DEF Init, Kinds
<1>2. ASSUME Whole(kind, buffer) PROVE FALSE
  <2>1. CASE kind = "rpc"
    <3>1. ~(Len(buffer) < 4)
      BY <1>1, <1>2, <2>1, RpcWhole, Zenon
    <3> QED BY <1>1, <3>1
  <2>2. CASE kind = "qemud"
    <3>1. ~(Len(buffer) < 4)
      BY <1>1, <1>2, <2>2, QemudWhole, Zenon
    <3> QED BY <1>1, <3>1
  <2>3. CASE kind = "at"
    <3>1. \E i \in 1..Len(buffer) : buffer[i] = EndOfLine
      BY <1>1, <1>2, <2>3, AtWhole, Zenon
    <3> QED BY <1>1, <3>1
  <2> QED BY <1>1, <2>1, <2>2, <2>3, Zenon DEF Kinds
<1> QED BY <1>2, SettledNow, Zenon DEF Settled

\* A read leaves what the loop leaves.
LEMMA ReadWait ==
  ASSUME FrameInv, Read
  PROVE  NoWholeMessageWaits'
<1>1. /\ kind \in Kinds /\ wire \in Seq(Bytes) /\ buffer \in Seq(Bytes) /\ got \in Seq(Dispatched)
  BY DEF FrameInv, TypeInv
<1>2. PICK n \in 1..MaxRead : n <= Len(wire) /\ Receive(n)
  BY DEF Read
<1> DEFINE piece == buffer \o SubSeq(wire, 1, n)
<1>3. PICK past \in Past :
        /\ buffer' = Loop(kind, piece, past).buf /\ got' = got \o Loop(kind, piece, past).out
        /\ kind' = kind
  BY <1>2 DEF Receive
<1> DEFINE end == Loop(kind, piece, past)
<1>4. n \in 0..Len(wire)
  BY <1>1, <1>2, FramingAssumption
<1>5. SubSeq(wire, 1, n) \in Seq(Bytes)
  BY <1>1, <1>4, AfterIs
<1>6. piece \in Seq(Bytes)
  BY <1>1, <1>5, ConcatProperties
<1>7. past \in [2..4 -> Bytes]
  BY PastIs
<1> HIDE DEF piece
<1>8. end \in LoopStates /\ Settled(kind, end.buf, end.out)
  BY <1>1, <1>6, <1>7, LoopEnds, LoopSettles, Zenon
<1> HIDE DEF end
<1>9. buffer' = end.buf /\ got' = got \o end.out /\ kind' = kind
  BY <1>3 DEF end
<1>10. end.out \in Seq(Dispatched)
  BY <1>8 DEF LoopStates
<1>11. ASSUME end.out # <<>>
       PROVE  got' # <<>> /\ got'[Len(got')] = end.out[Len(end.out)]
  <2>1. Len(end.out) \in Nat \ {0} /\ Len(got) \in Nat
    BY <1>1, <1>10, <1>11, EmptySeq
  <2>2. Len(got \o end.out) = Len(got) + Len(end.out)
        /\ (got \o end.out)[Len(got) + Len(end.out)] = end.out[Len(end.out)]
    BY <1>1, <1>10, <2>1
  <2> QED BY <1>9, <2>1, <2>2
<1>12. Settled(kind', buffer', got')
  BY <1>8, <1>9, <1>11, Zenon DEF Settled
<1> QED BY <1>12, Zenon DEF NoWholeMessageWaits, Settled, Whole

\* Every step keeps the invariant.
LEMMA NextWait ==
  ASSUME WaitInv, [Next]_vars
  PROVE  WaitInv'
<1>1. FrameInv'
  BY NextFrame, Zenon DEF WaitInv
<1>2. CASE Read
  BY <1>1, <1>2, ReadWait, Zenon DEF WaitInv
<1>3. CASE kind' = kind /\ buffer' = buffer /\ got' = got
  BY <1>1, <1>3, Zenon DEF WaitInv, NoWholeMessageWaits
<1>4. Read \/ (kind' = kind /\ buffer' = buffer /\ got' = got)
  BY DEF Next, Send, Write, vars
<1> QED BY <1>2, <1>3, <1>4, Zenon

\* process_data leaves no whole message in the buffer, however often a write was
\* repeated; process_commands of qemud does when what is left is as long as the
\* last command, and in no other case.
THEOREM NoWholeMessageIsLeft == Spec => []NoWholeMessageWaits
<1>1. WaitInv => NoWholeMessageWaits
  BY DEF WaitInv
<1> QED BY <1>1, InitWait, NextWait, PTL DEF Spec

=============================================================================
