------------------------------ MODULE WireProofs ------------------------------
(***************************************************************************)
(* What is sent arrives: proofs about the binary form of requests and      *)
(* responses (Wire, GatewayWire) and of stored documents (Bundles), for    *)
(* data of every length and numbers of every value.                        *)
(***************************************************************************)
EXTENDS GatewayWire, WellFoundedInduction, TLAPS

-----------------------------------------------------------------------------
(* Sequences that are put together and taken apart again.                  *)

(* A length that is to be out of the provers' sight.                       *)
Sized(s, n) == Len(s) = n

LEMMA Joined ==
  ASSUME NEW S, NEW s \in Seq(S), NEW t \in Seq(S)
  PROVE  /\ s \o t \in Seq(S) /\ Len(s \o t) = Len(s) + Len(t)
         /\ \A i \in 1..Len(s) : (s \o t)[i] = s[i]
         /\ \A i \in 1..Len(t) : (s \o t)[Len(s) + i] = t[i]
OBVIOUS

LEMMA SameSeq ==
  ASSUME NEW S, NEW s \in Seq(S), NEW t \in Seq(S), Len(s) = Len(t),
         \A i \in 1..Len(s) : s[i] = t[i]
  PROVE  s = t
OBVIOUS

LEMMA Assoc ==
  ASSUME NEW S, NEW s \in Seq(S), NEW t \in Seq(S), NEW u \in Seq(S)
  PROVE  (s \o t) \o u = s \o (t \o u)
OBVIOUS

LEMMA Parts ==
  ASSUME NEW S, NEW s \in Seq(S), NEW t \in Seq(S)
  PROVE  /\ Take(s \o t, Len(s)) = s
         /\ Drop(s \o t, Len(s)) = t
<1>1. SubSeq(s \o t, 1, Len(s)) = s
  OBVIOUS
<1>2. SubSeq(s \o t, Len(s) + 1, Len(s \o t)) = t
  OBVIOUS
<1> QED BY <1>1, <1>2 DEF Take, Drop

LEMMA Cancel ==
  ASSUME NEW S, NEW s \in Seq(S), NEW t \in Seq(S), NEW u \in Seq(S), s \o t = s \o u
  PROVE  t = u
<1>1. Drop(s \o t, Len(s)) = t
  BY Parts
<1>2. Drop(s \o u, Len(s)) = u
  BY Parts
<1> QED BY <1>1, <1>2

LEMMA ReadJoined ==
  ASSUME NEW S, NEW s \in Seq(S), NEW t \in Seq(S), Len(s) = 4
  PROVE  ReadU32(s \o t) = ReadU32(s)
<1>1. \A i \in 1..Len(s) : (s \o t)[i] = s[i]
  BY Joined, ZenonT(60)
<1>2. 1 \in 1..Len(s) /\ 2 \in 1..Len(s) /\ 3 \in 1..Len(s) /\ 4 \in 1..Len(s)
  OBVIOUS
<1>3. /\ (s \o t)[1] = s[1] /\ (s \o t)[2] = s[2]
      /\ (s \o t)[3] = s[3] /\ (s \o t)[4] = s[4]
  BY <1>1, <1>2, Zenon
<1> QED BY <1>3 DEF ReadU32

-----------------------------------------------------------------------------
(* Reading what was written, with anything behind it.                      *)

LEMMA U32Bytes ==
  ASSUME NEW v \in Uint32
  PROVE  U32(v) \in Seq(Uint8) /\ Len(U32(v)) = 4 /\ ReadU32(U32(v)) = v
<1>1. v \in Nat /\ v < 4294967296
  BY SMT DEF Uint32
<1>2. (v % 256) + 256 * ((v \div 256) % 256) + 65536 * ((v \div 65536) % 256)
        + 16777216 * (v \div 16777216) = v
  BY <1>1, SMT
<1>3. (v \div 16777216) % 256 = v \div 16777216
  BY <1>1, SMT
<1>4. ReadU32(U32(v)) = v
  BY <1>1, <1>2, <1>3, SMT DEF U32, ReadU32
<1>5. U32(v) \in Seq(Uint8) /\ Len(U32(v)) = 4
  BY <1>1, SMT DEF U32, Uint8
<1> QED BY <1>4, <1>5

LEMMA U32Read ==
  ASSUME NEW S, Uint8 \subseteq S, NEW v \in Uint32, NEW rest \in Seq(S)
  PROVE  /\ U32(v) \in Seq(S) /\ Len(U32(v)) = 4
         /\ U32(v) \o rest \in Seq(S) /\ Len(U32(v) \o rest) = 4 + Len(rest)
         /\ ReadU32(U32(v) \o rest) = v
         /\ Drop(U32(v) \o rest, 4) = rest /\ Take(U32(v) \o rest, 4) = U32(v)
<1>1. U32(v) \in Seq(S) /\ Len(U32(v)) = 4
  BY U32Bytes
<1>2. U32(v) \o rest \in Seq(S) /\ Len(U32(v) \o rest) = Len(U32(v)) + Len(rest)
  BY <1>1, Joined
<1>3. ReadU32(U32(v) \o rest) = ReadU32(U32(v))
  BY <1>1, ReadJoined
<1>4. /\ Take(U32(v) \o rest, Len(U32(v))) = U32(v)
      /\ Drop(U32(v) \o rest, Len(U32(v))) = rest
  BY <1>1, Parts
<1> QED BY <1>1, <1>2, <1>3, <1>4, U32Bytes

LEMMA CellRead ==
  ASSUME NEW S, NEW c \in Seq(S), Len(c) = 1, NEW rest \in Seq(S)
  PROVE  /\ c \o rest \in Seq(S) /\ Len(c \o rest) = 1 + Len(rest)
         /\ (c \o rest)[1] = c[1] /\ Head(c \o rest) = c[1]
         /\ Tail(c \o rest) = rest /\ Drop(c \o rest, 1) = rest
<1>1. c \o rest \in Seq(S) /\ Len(c \o rest) = 1 + Len(rest)
  BY Joined
<1>2. (c \o rest)[1] = c[1]
  <2>1. \A i \in 1..Len(c) : (c \o rest)[i] = c[i]
    BY Joined
  <2> QED BY <2>1
<1>3. Drop(c \o rest, 1) = rest
  BY Parts
<1> SUFFICES ASSUME NEW s \in Seq(S), Len(s) = 1 + Len(rest), s[1] = c[1], Drop(s, 1) = rest
             PROVE  Head(s) = c[1] /\ Tail(s) = rest
  BY <1>1, <1>2, <1>3
<1>4. Tail(s) = Drop(s, 1)
  BY DEF Drop
<1>5. Head(s) = s[1]
  OBVIOUS
<1> QED BY <1>4, <1>5

LEMMA LongRead ==
  ASSUME NEW S, Uint8 \subseteq S, NEW data \in Seq(S), Len(data) \in Uint32, NEW rest \in Seq(S)
  PROVE  /\ Long(data) \in Seq(S) /\ Len(Long(data)) = 4 + Len(data)
         /\ Long(data) \o rest \in Seq(S)
         /\ Len(Long(data) \o rest) = 4 + Len(data) + Len(rest)
         /\ ReadU32(Long(data) \o rest) = Len(data)
         /\ ReadLong(Long(data) \o rest) = data
         /\ AfterLong(Long(data) \o rest) = rest
<1>1. U32(Len(data)) \in Seq(S) /\ Len(U32(Len(data))) = 4
  BY U32Bytes
<1>2. Long(data) \in Seq(S) /\ Len(Long(data)) = 4 + Len(data)
  <2>1. /\ U32(Len(data)) \o data \in Seq(S)
        /\ Len(U32(Len(data)) \o data) = Len(U32(Len(data))) + Len(data)
    BY <1>1, Joined
  <2> QED BY <1>1, <2>1 DEF Long
<1>3. Long(data) \o rest = U32(Len(data)) \o (data \o rest) /\ data \o rest \in Seq(S)
  BY <1>1, Assoc, Joined DEF Long
<1>4. /\ ReadU32(Long(data) \o rest) = Len(data)
      /\ Drop(Long(data) \o rest, 4) = data \o rest
  <2>1. /\ ReadU32(U32(Len(data)) \o (data \o rest)) = Len(data)
        /\ Drop(U32(Len(data)) \o (data \o rest), 4) = data \o rest
    <3> SUFFICES ASSUME NEW r \in Seq(S), NEW n \in Uint32
                 PROVE  ReadU32(U32(n) \o r) = n /\ Drop(U32(n) \o r, 4) = r
      BY <1>3
    <3> QED BY U32Read
  <2> QED BY <1>3, <2>1
<1>5. ReadLong(Long(data) \o rest) = data
  BY <1>4, Parts DEF ReadLong
<1>6. AfterLong(Long(data) \o rest) = rest
  BY <1>2, <1>4, Parts DEF AfterLong
<1>7. Long(data) \o rest \in Seq(S) /\ Len(Long(data) \o rest) = 4 + Len(data) + Len(rest)
  BY <1>2, Joined, ZenonT(60)
<1> QED BY <1>2, <1>4, <1>5, <1>6, <1>7

(* The same with nothing behind it.                                        *)
LEMMA Alone ==
  ASSUME NEW S, NEW s \in Seq(S)
  PROVE  s \o <<>> = s /\ <<>> \o s = s /\ <<>> \in Seq(S)
OBVIOUS

LEMMA ReverseOnce ==
  ASSUME NEW S, NEW s \in Seq(S)
  PROVE  /\ Reverse(s) \in Seq(S) /\ Len(Reverse(s)) = Len(s)
         /\ \A i \in 1..Len(s) : Reverse(s)[i] = s[(Len(s) - i) + 1]
BY DEF Reverse

LEMMA ReverseTwice ==
  ASSUME NEW S, NEW s \in Seq(S)
  PROVE  Reverse(s) \in Seq(S) /\ Len(Reverse(s)) = Len(s) /\ Reverse(Reverse(s)) = s
<1>1. /\ Reverse(s) \in Seq(S) /\ Len(Reverse(s)) = Len(s)
      /\ \A i \in 1..Len(s) : Reverse(s)[i] = s[(Len(s) - i) + 1]
  BY ReverseOnce
<1> SUFFICES ASSUME NEW r \in Seq(S), Len(r) = Len(s),
                    \A i \in 1..Len(s) : r[i] = s[(Len(s) - i) + 1]
             PROVE  Reverse(r) = s
  BY <1>1
<1>2. /\ Reverse(r) \in Seq(S) /\ Len(Reverse(r)) = Len(s)
      /\ \A i \in 1..Len(s) : Reverse(r)[i] = r[(Len(s) - i) + 1]
  BY ReverseOnce
<1>3. \A i \in 1..Len(s) : (Len(s) - i) + 1 \in 1..Len(s) /\ (Len(s) - ((Len(s) - i) + 1)) + 1 = i
  OBVIOUS
<1>4. \A i \in 1..Len(s) : Reverse(r)[i] = s[i]
  BY <1>2, <1>3
<1> SUFFICES ASSUME NEW q \in Seq(S), Len(q) = Len(s), \A i \in 1..Len(s) : q[i] = s[i]
             PROVE  q = s
  BY <1>2, <1>4
<1> QED BY SameSeq

(* send_buffer and recv_buffer.                                            *)
LEMMA Framing ==
  ASSUME NEW S, Uint8 \subseteq S, NEW s \in Seq(S), Len(s) \in Uint32
  PROVE  recv_buffer(send_buffer(s)) = s
<1> DEFINE n == Len(s)  r == Reverse(U32(n))
<1>1. U32(n) \in Seq(S) /\ Len(U32(n)) = 4 /\ ReadU32(U32(n)) = n
  BY U32Bytes
<1>2. r \in Seq(S) /\ Len(r) = 4 /\ Reverse(r) = U32(n)
  BY <1>1, ReverseTwice
<1> HIDE DEF r
<1>4. ReadU32(Reverse(r)) = n
  BY <1>1, <1>2
<1>5. Take(r \o s, 4) = r /\ Drop(r \o s, 4) = s
  BY <1>2, Parts
<1>6. Take(s, n) = s
  BY DEF Take
<1> QED BY <1>4, <1>5, <1>6 DEF send_buffer, recv_buffer, r

-----------------------------------------------------------------------------
(* What a loop does is shown by looking at its first step that does not.   *)
LEMMA LeastNumber ==
  ASSUME NEW S, S \subseteq Nat, S # {}
  PROVE  \E n \in S : \A m \in S : n <= m
<1> DEFINE R == {ss \in Nat \X Nat : ss[1] < ss[2]}
<1>1. IsWellFoundedOn(R, Nat)
  BY NatLessThanWellFounded DEF OpToRel
<1> HIDE DEF R
<1>2. PICK n \in S : \A m \in S : ~(<<m, n>> \in R)
  BY <1>1, WFMin
<1>3. \A m \in S : ~(m < n)
  BY <1>2 DEF R
<1> QED BY <1>3

(* FlattenSeq goes through a sequence of sequences from the left.          *)
IsFlat(f, ss) == f = [i \in 1..Len(ss) |-> IF i = 1 THEN ss[i] ELSE f[i - 1] \o ss[i]]

(* The parts of the result: g[i] is what the first i of ss make.           *)
PartsOf(g, S, ss, n) ==
  g \in [0..n -> Seq(S)] /\ g[0] = <<>> /\ \A i \in 1..n : g[i] = g[i - 1] \o ss[i]

LEMMA PartsExist ==
  ASSUME NEW S, NEW ss \in Seq(Seq(S)), NEW n \in 0..Len(ss)
  PROVE  \E g : PartsOf(g, S, ss, n)
<1> DEFINE Bad == {m \in 0..Len(ss) : ~\E g : PartsOf(g, S, ss, m)}
<1> SUFFICES ASSUME Bad # {} PROVE FALSE
  OBVIOUS
<1>0. Bad \subseteq Nat
  OBVIOUS
<1> HIDE DEF Bad
<1>1. PICK m \in Bad : \A k \in Bad : m <= k
  BY <1>0, LeastNumber
<1>a. m \in 0..Len(ss) /\ (~\E g : PartsOf(g, S, ss, m)) /\ Len(ss) \in Nat
  BY <1>1 DEF Bad
<1>2. CASE m = 0
  <2>1. PartsOf([i \in 0..0 |-> <<>>], S, ss, 0)
    BY DEF PartsOf
  <2> QED BY <1>a, <1>2, <2>1
<1>3. CASE m # 0
  <2>0. m - 1 \in 0..Len(ss) /\ m \in 1..Len(ss) /\ ~(m <= m - 1)
    BY <1>a, <1>3
  <2>1. m - 1 \in 0..Len(ss) /\ m \in 1..Len(ss) /\ m - 1 \notin Bad
    BY <1>1, <2>0
  <2>2. PICK g : PartsOf(g, S, ss, m - 1)
    BY <2>1 DEF Bad
  <2>3. g \in [0..(m - 1) -> Seq(S)] /\ g[0] = <<>> /\ \A i \in 1..(m - 1) : g[i] = g[i - 1] \o ss[i]
    BY <2>2 DEF PartsOf
  <2> DEFINE h == [i \in 0..m |-> IF i = m THEN g[m - 1] \o ss[m] ELSE g[i]]
  <2>4. g[m - 1] \in Seq(S) /\ ss[m] \in Seq(S)
    BY <2>1, <2>3
  <2>5. g[m - 1] \o ss[m] \in Seq(S)
    BY <2>4, Joined
  <2>6. h \in [0..m -> Seq(S)]
    BY <2>1, <2>3, <2>5
  <2>7. \A i \in 1..m : h[i - 1] = g[i - 1] /\ h[i] = IF i = m THEN g[m - 1] \o ss[m] ELSE g[i]
    BY <2>1
  <2>8. \A i \in 1..m : h[i] = h[i - 1] \o ss[i]
    <3> TAKE i \in 1..m
    <3>1. CASE i = m
      BY <2>7, <3>1
    <3>2. CASE i # m
      <4>1. i \in 1..(m - 1)
        BY <2>1, <3>2
      <4>2. g[i] = g[i - 1] \o ss[i]
        BY <2>3, <4>1
      <4> QED BY <2>7, <3>2, <4>2
    <3> QED BY <3>1, <3>2
  <2>9. h[0] = <<>>
    BY <2>1, <2>3
  <2>10. PartsOf(h, S, ss, m)
    BY <2>6, <2>8, <2>9, Zenon DEF PartsOf
  <2> QED BY <1>a, <2>10
<1> QED BY <1>2, <1>3

LEMMA FlattenParts ==
  ASSUME NEW S, NEW ss \in Seq(Seq(S))
  PROVE  \E g : PartsOf(g, S, ss, Len(ss)) /\ FlattenSeq(ss) = g[Len(ss)]
<1> DEFINE n == Len(ss)
<1>0. n \in Nat /\ n \in 0..n
  OBVIOUS
<1>1. PICK g : PartsOf(g, S, ss, n)
  BY <1>0, PartsExist
<1>2. g \in [0..n -> Seq(S)] /\ g[0] = <<>> /\ \A i \in 1..n : g[i] = g[i - 1] \o ss[i]
  BY <1>1 DEF PartsOf
<1>3. CASE n = 0
  <2>1. ss = <<>>
    BY <1>3
  <2> QED BY <1>1, <1>2, <1>3, <2>1 DEF FlattenSeq
<1>4. CASE n # 0
  <2> DEFINE f == [i \in 1..n |-> g[i]]
  <2>1. \A i \in 1..n : g[i] = IF i = 1 THEN ss[i] ELSE f[i - 1] \o ss[i]
    <3> TAKE i \in 1..n
    <3>1. CASE i = 1
      <4>0. 1 \in 1..n /\ 1 - 1 = 0
        BY <1>0, <1>4
      <4>a. g[1] = g[1 - 1] \o ss[1]
        BY <4>0, <1>2, Zenon
      <4>b. g[1] = <<>> \o ss[1]
        BY <4>0, <4>a, <1>2, Zenon
      <4>c. ss[1] \in Seq(S)
        BY <4>0
      <4>1. g[1] = <<>> \o ss[1] /\ ss[1] \in Seq(S)
        BY <4>b, <4>c
      <4>2. <<>> \o ss[1] = ss[1]
        BY <4>1
      <4> QED BY <3>1, <4>1, <4>2
    <3>2. CASE i # 1
      <4>1. i - 1 \in 1..n
        BY <1>0, <3>2
      <4>2. f[i - 1] = g[i - 1]
        BY <4>1
      <4> QED BY <1>2, <3>2, <4>2
    <3> QED BY <3>1, <3>2
  <2>2. IsFlat(f, ss)
    <3>1. f = [i \in 1..n |-> IF i = 1 THEN ss[i] ELSE f[i - 1] \o ss[i]]
      BY <2>1
    <3> QED BY <3>1, Zenon DEF IsFlat
  <2> DEFINE c == CHOOSE h : IsFlat(h, ss)
  <2>3. IsFlat(c, ss)
    BY <2>2, Zenon
  <2>4. FlattenSeq(ss) = c[n]
    BY <1>4 DEF FlattenSeq, IsFlat
  <2> HIDE DEF c
  <2>5. c[n] = g[n]
    <3> DEFINE Bad == {i \in 1..n : c[i] # g[i]}
    <3> SUFFICES ASSUME Bad # {} PROVE FALSE
      BY <1>0, <1>4
    <3>0. Bad \subseteq Nat
      BY <1>0
    <3> HIDE DEF Bad
    <3>1. PICK m \in Bad : \A k \in Bad : m <= k
      BY <3>0, LeastNumber
    <3>a. m \in 1..n /\ c[m] # g[m]
      BY <3>1 DEF Bad
    <3>2. c[m] = IF m = 1 THEN ss[m] ELSE c[m - 1] \o ss[m]
      BY <2>3, <3>a, Zenon DEF IsFlat
    <3>3. g[m] = IF m = 1 THEN ss[m] ELSE f[m - 1] \o ss[m]
      BY <2>1, <3>a
    <3>4. CASE m = 1
      BY <3>a, <3>2, <3>3, <3>4
    <3>5. CASE m # 1
      <4>0. m - 1 \in 1..n /\ ~(m <= m - 1)
        BY <1>0, <3>a, <3>5
      <4>1. m - 1 \notin Bad
        BY <3>1, <4>0
      <4>2. c[m - 1] = g[m - 1] /\ f[m - 1] = g[m - 1]
        BY <4>0, <4>1 DEF Bad
      <4> QED BY <3>a, <3>2, <3>3, <3>5, <4>2
    <3> QED BY <3>4, <3>5
  <2> QED BY <1>1, <2>4, <2>5
<1> QED BY <1>3, <1>4

LEMMA JoinedBehind ==
  ASSUME NEW S, NEW r, NEW s \in Seq(S), NEW t \in Seq(S), r = s \o t, NEW x \in Seq(S)
  PROVE  r \o x = s \o (t \o x) /\ t \o x \in Seq(S)
BY SMTT(60)

LEMMA PartJoined ==
  ASSUME NEW S, NEW n \in Nat, NEW ss, \A k \in 1..n : ss[k] \in Seq(S),
         NEW g, PartsOf(g, S, ss, n), NEW k \in 1..n, NEW x \in Seq(S)
  PROVE  g[k] \o x = g[k - 1] \o (ss[k] \o x) /\ ss[k] \o x \in Seq(S)
<1>1. g \in [0..n -> Seq(S)] /\ g[k] = g[k - 1] \o ss[k]
  BY DEF PartsOf
<1>2. k - 1 \in 0..n /\ ss[k] \in Seq(S)
  OBVIOUS
<1>3. g[k - 1] \in Seq(S)
  BY <1>1, <1>2
<1> SUFFICES ASSUME NEW q, NEW s \in Seq(S), NEW t \in Seq(S), q = s \o t
             PROVE  q \o x = s \o (t \o x) /\ t \o x \in Seq(S)
  BY <1>1, <1>2, <1>3
<1>4. t \o x \in Seq(S)
  BY Joined
<1>5. (s \o t) \o x = s \o (t \o x)
  BY SMTT(60)
<1> QED BY <1>4, <1>5

(* What is behind the first i of them.                                     *)
Behind(S, all, p, x) == x \in Seq(S) /\ all = p \o x

LEMMA RestOf ==
  ASSUME NEW S, NEW n \in Nat, NEW ss, \A k \in 1..n : ss[k] \in Seq(S),
         NEW g, PartsOf(g, S, ss, n), NEW i \in 1..n, NEW tail \in Seq(S),
         NEW all, all = g[n] \o tail
  PROVE  \E x : Behind(S, all, g[i - 1], ss[i] \o x) /\ Behind(S, all, g[i], x)
<1> DEFINE Left(k) == \E x \in Seq(S) : g[n] \o tail = g[k] \o x
           Bad == {k \in 0..n : ~Left(n - k)}
<1>1. n \in Nat
  OBVIOUS
<1>3. \A k \in 1..n, x \in Seq(S) :
        g[k] \o x = g[k - 1] \o (ss[k] \o x) /\ ss[k] \o x \in Seq(S)
  BY PartJoined
<1>4. Left(n)
  BY Zenon
<1>5. \A k \in 1..n : Left(k) => Left(k - 1)
  <2> SUFFICES ASSUME NEW k \in 1..n, NEW x \in Seq(S), g[n] \o tail = g[k] \o x
               PROVE  Left(k - 1)
    BY Zenon
  <2>1. g[k] \o x = g[k - 1] \o (ss[k] \o x) /\ ss[k] \o x \in Seq(S)
    BY <1>3, Zenon
  <2>2. g[n] \o tail = g[k - 1] \o (ss[k] \o x)
    BY <2>1, Zenon
  <2> QED BY <2>1, <2>2, Zenon
<1> HIDE DEF Left
<1>6. \A k \in 0..n : Left(n - k)
  <2> SUFFICES ASSUME Bad # {} PROVE FALSE
    OBVIOUS
  <2>1. Bad \subseteq Nat
    BY <1>1
  <2> HIDE DEF Bad
  <2>2. PICK m \in Bad : \A k \in Bad : m <= k
    BY <2>1, LeastNumber
  <2>3. m \in 0..n /\ ~Left(n - m)
    BY <2>2 DEF Bad
  <2>4. CASE m = 0
    BY <1>1, <1>4, <2>3, <2>4
  <2>5. CASE m # 0
    <3>1. m - 1 \in 0..n /\ ~(m <= m - 1) /\ n - m + 1 \in 1..n
      BY <1>1, <2>3, <2>5
    <3>2. Left(n - (m - 1))
      BY <2>2, <3>1 DEF Bad
    <3>3. n - (m - 1) = n - m + 1 /\ (n - m + 1) - 1 = n - m
      BY <1>1, <2>3
    <3> QED BY <1>5, <2>3, <3>1, <3>2, <3>3
  <2> QED BY <2>4, <2>5
<1>7. i \in 1..n /\ n - i \in 0..n /\ n - (n - i) = i
  BY <1>1
<1>8. PICK x \in Seq(S) : g[n] \o tail = g[i] \o x
  BY <1>6, <1>7 DEF Left
<1>9. g[i] \o x = g[i - 1] \o (ss[i] \o x)
  BY <1>3, <1>7
<1>10. ss[i] \o x \in Seq(S)
  BY <1>3, <1>7
<1> QED BY <1>8, <1>9, <1>10 DEF Behind

(* The same as a function: rest[i] is what is behind the first i.          *)
RestsOf(rest, S, ss, n, all, tail) ==
  /\ rest \in [0..n -> Seq(S)] /\ rest[0] = all /\ rest[n] = tail
  /\ \A i \in 1..n : rest[i - 1] = ss[i] \o rest[i]

LEMMA RestsExist ==
  ASSUME NEW S, NEW n \in Nat, NEW ss, \A k \in 1..n : ss[k] \in Seq(S),
         NEW g, PartsOf(g, S, ss, n), NEW tail \in Seq(S), NEW all, all = g[n] \o tail
  PROVE  \E rest : RestsOf(rest, S, ss, n, all, tail)
<1>1. \A i \in 0..n : g[i] \in Seq(S)
  BY DEF PartsOf
<1>2. \A i \in 1..n : i \in 0..n /\ i - 1 \in 0..n
  OBVIOUS
<1> DEFINE Is(i, x) == Behind(S, all, g[i], x)
<1>3. \A i \in 0..n : \A x, y : Is(i, x) /\ Is(i, y) => x = y
  <2> SUFFICES ASSUME NEW p \in Seq(S), NEW x \in Seq(S), NEW y \in Seq(S), p \o x = p \o y
               PROVE  x = y
    BY <1>1 DEF Behind
  <2> QED BY Cancel
<1>4. \A i \in 1..n : \E x : Is(i - 1, ss[i] \o x) /\ Is(i, x)
  BY RestOf
<1>5. Is(n, tail)
  BY Zenon DEF Behind
<1>6. Is(0, all)
  <2>1. g[n] \in Seq(S) /\ g[0] = <<>>
    BY <1>1 DEF PartsOf
  <2> SUFFICES ASSUME NEW p \in Seq(S) PROVE p \o tail \in Seq(S) /\ p \o tail = <<>> \o (p \o tail)
    BY <2>1 DEF Behind
  <2>2. p \o tail \in Seq(S)
    BY Joined
  <2> QED BY <2>2, Alone
<1> HIDE DEF Is
<1> DEFINE rest == [i \in 0..n |-> CHOOSE x : Is(i, x)]
<1>7. \A i \in 0..n : \E x : Is(i, x)
  <2> TAKE i \in 0..n
  <2>1. CASE i = n
    BY <1>5, <2>1
  <2>2. CASE i # n
    <3>1. i + 1 \in 1..n /\ (i + 1) - 1 = i
      BY <2>2
    <3> QED BY <1>4, <3>1
  <2> QED BY <2>1, <2>2
<1>8. \A i \in 0..n : Is(i, rest[i])
  BY <1>7
<1> HIDE DEF rest
<1>9. rest \in [0..n -> Seq(S)]
  <2>1. \A i \in 0..n : rest[i] \in Seq(S)
    BY <1>8 DEF Is, Behind
  <2> QED BY <2>1 DEF rest
<1>10. rest[0] = all /\ rest[n] = tail
  <2>1. 0 \in 0..n /\ n \in 0..n
    OBVIOUS
  <2> QED BY <2>1, <1>3, <1>5, <1>6, <1>8
<1>11. \A i \in 1..n : rest[i - 1] = ss[i] \o rest[i]
  <2> TAKE i \in 1..n
  <2>1. PICK x : Is(i - 1, ss[i] \o x) /\ Is(i, x)
    BY <1>4
  <2>2. rest[i] = x /\ rest[i - 1] = ss[i] \o x
    BY <1>2, <1>3, <1>8, <2>1
  <2> QED BY <2>2
<1> QED BY <1>9, <1>10, <1>11, Zenon DEF RestsOf

-----------------------------------------------------------------------------
(* Requests.                                                               *)

LEMMA OneByte ==
  ASSUME NEW v \in Uint8
  PROVE  U8(v) \in Seq(Uint8) /\ Len(U8(v)) = 1 /\ U8(v)[1] = v
<1>1. v % 256 = v
  BY SMT DEF Uint8
<1> QED BY <1>1 DEF U8

(* A cell and a number, with anything behind them.                         *)
LEMMA Header ==
  ASSUME NEW S, NEW c \in Seq(S), Len(c) = 1, NEW w \in Seq(S), Len(w) = 4, NEW rest \in Seq(S)
  PROVE  /\ (c \o w) \o rest \in Seq(S) /\ Len((c \o w) \o rest) = 5 + Len(rest)
         /\ ((c \o w) \o rest)[1] = c[1]
         /\ ReadU32(Tail((c \o w) \o rest)) = ReadU32(w)
         /\ Drop((c \o w) \o rest, 5) = rest
<1>1. w \o rest \in Seq(S) /\ Len(w \o rest) = 4 + Len(rest)
  <2>1. w \o rest \in Seq(S) /\ Len(w \o rest) = Len(w) + Len(rest)
    BY Joined
  <2> QED BY <2>1
<1>a. ReadU32(w \o rest) = ReadU32(w)
  BY ReadJoined
<1>2. c \o w \in Seq(S) /\ Len(c \o w) = 5
  <2>1. c \o w \in Seq(S) /\ Len(c \o w) = Len(c) + Len(w)
    BY Joined
  <2> QED BY <2>1
<1>3. Drop((c \o w) \o rest, 5) = rest
  <2> SUFFICES ASSUME NEW u \in Seq(S), Len(u) = 5
               PROVE  Drop(u \o rest, 5) = rest
    BY <1>2
  <2> QED BY Parts
<1>4. (c \o w) \o rest = c \o (w \o rest)
  BY SMTT(60)
<1>5. /\ c \o (w \o rest) \in Seq(S) /\ Len(c \o (w \o rest)) = 5 + Len(rest)
      /\ (c \o (w \o rest))[1] = c[1] /\ Tail(c \o (w \o rest)) = w \o rest
  <2> SUFFICES ASSUME NEW t \in Seq(S), Len(t) = 4 + Len(rest)
               PROVE  /\ c \o t \in Seq(S) /\ Len(c \o t) = 5 + Len(rest)
                      /\ (c \o t)[1] = c[1] /\ Tail(c \o t) = t
    BY <1>1
  <2> QED BY CellRead
<1> QED BY <1>1, <1>a, <1>3, <1>4, <1>5

(* Two cells, with anything behind them.                                   *)
LEMMA Cells ==
  ASSUME NEW S, NEW c \in Seq(S), Sized(c, 1), NEW e \in Seq(S), Sized(e, 1), NEW rest \in Seq(S)
  PROVE  /\ (c \o e) \o rest \in Seq(S) /\ Len((c \o e) \o rest) = 2 + Len(rest)
         /\ ((c \o e) \o rest)[1] = c[1] /\ ((c \o e) \o rest)[2] = e[1]
         /\ Drop((c \o e) \o rest, 2) = rest
<1>1. c \o e \in Seq(S) /\ Len(c \o e) = 2 /\ (c \o e)[1] = c[1] /\ (c \o e)[2] = e[1]
  <2>1. c \o e \in Seq(S) /\ Len(c \o e) = Len(c) + Len(e)
    BY Joined
  <2>2. 1 \in 1..Len(c) /\ 1 \in 1..Len(e) /\ 2 = Len(c) + 1 /\ Len(c) + Len(e) = 2
    BY DEF Sized
  <2>3. (c \o e)[1] = c[1] /\ (c \o e)[2] = e[1]
    BY <2>2
  <2> QED BY <2>1, <2>2, <2>3
<1> SUFFICES ASSUME NEW u \in Seq(S), Len(u) = 2
             PROVE  /\ u \o rest \in Seq(S) /\ Len(u \o rest) = 2 + Len(rest)
                    /\ (u \o rest)[1] = u[1] /\ (u \o rest)[2] = u[2]
                    /\ Drop(u \o rest, 2) = rest
  BY <1>1
<1>2. \A i \in 1..Len(u) : (u \o rest)[i] = u[i]
  BY Joined, ZenonT(60)
<1>3. 1 \in 1..Len(u) /\ 2 \in 1..Len(u)
  OBVIOUS
<1>4. (u \o rest)[1] = u[1] /\ (u \o rest)[2] = u[2]
  BY <1>2, <1>3, Zenon
<1>5. /\ u \o rest \in Seq(S) /\ Len(u \o rest) = Len(u) + Len(rest)
      /\ Drop(u \o rest, Len(u)) = rest
  BY Joined, Parts, ZenonT(60)
<1> QED BY <1>4, <1>5

LEMMA ShutdownArrives ==
  ASSUME NEW S, Uint8 \subseteq S, NEW reserved \in Uint8, NEW s, s = U8(reserved)
  PROVE  /\ s \in Seq(S) /\ Len(s) = 1
         /\ (IF s = <<>> THEN 0 ELSE s[1]) = reserved
<1>1. s \in Seq(S) /\ Len(s) = 1 /\ s[1] = reserved
  BY OneByte
<1>2. Len(<<>>) = 0
  OBVIOUS
<1> QED BY <1>1, <1>2

LEMMA ShortRead ==
  ASSUME NEW S, Uint8 \subseteq S, NEW t \in Seq(S), Len(t) \in Uint8, NEW rest \in Seq(S),
         NEW r, r = Short(t) \o rest
  PROVE  /\ r \in Seq(S) /\ r[1] = Len(t)
         /\ Take(Tail(r), Len(t)) = t /\ Drop(r, 1 + Len(t)) = rest
<1>1. U8(Len(t)) \in Seq(S) /\ Len(U8(Len(t))) = 1 /\ U8(Len(t))[1] = Len(t)
  BY OneByte
<1> SUFFICES ASSUME NEW c \in Seq(S), Len(c) = 1, r = (c \o t) \o rest
             PROVE  /\ r \in Seq(S) /\ r[1] = c[1]
                    /\ Take(Tail(r), Len(t)) = t /\ Drop(r, 1 + Len(t)) = rest
  BY <1>1 DEF Short
<1>2. t \o rest \in Seq(S)
  BY Joined
<1>3. Take(t \o rest, Len(t)) = t
  BY Parts
<1>4. c \o t \in Seq(S) /\ Len(c \o t) = 1 + Len(t)
  BY CellRead
<1>5. Drop((c \o t) \o rest, 1 + Len(t)) = rest
  <2> SUFFICES ASSUME NEW u \in Seq(S), Len(u) = 1 + Len(t)
               PROVE  Drop(u \o rest, Len(u)) = rest
    BY <1>4
  <2> QED BY Parts
<1>6. (c \o t) \o rest = c \o (t \o rest)
  BY SMTT(60)
<1>7. /\ c \o (t \o rest) \in Seq(S) /\ (c \o (t \o rest))[1] = c[1]
      /\ Tail(c \o (t \o rest)) = t \o rest
  <2> SUFFICES ASSUME NEW u \in Seq(S)
               PROVE  c \o u \in Seq(S) /\ (c \o u)[1] = c[1] /\ Tail(c \o u) = u
    BY <1>2
  <2> QED BY CellRead, SMTT(60)
<1> QED BY <1>3, <1>5, <1>6, <1>7

LEMMA FirstOf ==
  ASSUME NEW T, NEW s \in Seq(T)
  PROVE  /\ SubSeq(s, 1, 0) = <<>> /\ SubSeq(s, 1, Len(s)) = s
         /\ \A i \in 1..Len(s) : SubSeq(s, 1, i) = Append(SubSeq(s, 1, i - 1), s[i])
OBVIOUS

(* The loop over the terms.                                                *)
IsRead(f, s, n) ==
  f = [i \in 0..n |->
        IF i = 0 THEN [terms |-> <<>>, rest |-> s]
        ELSE LET r == f[i - 1].rest
             IN  [terms |-> Append(f[i - 1].terms, Take(Tail(r), r[1])),
                  rest |-> Drop(r, 1 + r[1])]]

LEMMA ReadUnique ==
  ASSUME NEW s, NEW n \in Nat, NEW f, IsRead(f, s, n)
  PROVE  ReadTerms(s, n) = f[n]
<1> DEFINE c == CHOOSE h : IsRead(h, s, n)
<1>1. ReadTerms(s, n) = c[n]
  BY DEF ReadTerms, IsRead
<1>2. IsRead(c, s, n)
  BY Zenon
<1> HIDE DEF c
<1> DEFINE Bad == {i \in 0..n : c[i] # f[i]}
<1> SUFFICES ASSUME Bad # {} PROVE FALSE
  BY <1>1
<1>3. Bad \subseteq Nat
  OBVIOUS
<1> HIDE DEF Bad
<1>4. PICK m \in Bad : \A k \in Bad : m <= k
  BY <1>3, LeastNumber
<1>5. m \in 0..n /\ c[m] # f[m]
  BY <1>4 DEF Bad
<1> DEFINE Next_(h) ==
      LET r == h.rest
      IN  [terms |-> Append(h.terms, Take(Tail(r), r[1])), rest |-> Drop(r, 1 + r[1])]
<1>6. /\ c[m] = IF m = 0 THEN [terms |-> <<>>, rest |-> s] ELSE Next_(c[m - 1])
      /\ f[m] = IF m = 0 THEN [terms |-> <<>>, rest |-> s] ELSE Next_(f[m - 1])
  BY <1>2, <1>5, ZenonT(60) DEF IsRead
<1> HIDE DEF Next_
<1>7. m # 0
  BY <1>5, <1>6
<1>8. m - 1 \in 0..n /\ ~(m <= m - 1)
  BY <1>5, <1>7
<1>9. c[m - 1] = f[m - 1]
  BY <1>4, <1>8 DEF Bad
<1> QED BY <1>5, <1>6, <1>7, <1>9

LEMMA TermsRead ==
  ASSUME NEW S, Uint8 \subseteq S, NEW terms \in Seq(Seq(S)), \A i \in 1..Len(terms) : Len(terms[i]) \in Uint8,
         NEW tail \in Seq(S)
  PROVE  LET flat == FlattenSeq([i \in DOMAIN terms |-> Short(terms[i])])
         IN  /\ flat \in Seq(S)
             /\ ReadTerms(flat \o tail, Len(terms)) = [terms |-> terms, rest |-> tail]
<1> DEFINE n == Len(terms)
           ss == [i \in DOMAIN terms |-> Short(terms[i])]
           flat == FlattenSeq(ss)
<1>1. n \in Nat /\ DOMAIN terms = 1..n /\ \A i \in 1..n : terms[i] \in Seq(S) /\ Len(terms[i]) \in Uint8
  OBVIOUS
<1>2. \A i \in 1..n : Short(terms[i]) \in Seq(S)
  <2> SUFFICES ASSUME NEW t \in Seq(S), Len(t) \in Uint8 PROVE Short(t) \in Seq(S)
    BY <1>1
  <2>1. U8(Len(t)) \in Seq(S)
    BY OneByte
  <2> QED BY <2>1, Joined DEF Short
<1>3. ss \in Seq(Seq(S)) /\ Len(ss) = n /\ \A i \in 1..n : ss[i] = Short(terms[i])
  BY <1>1, <1>2
<1>4. \A i \in 1..n : ss[i] \in Seq(S)
  BY <1>2, <1>3
<1> HIDE DEF ss
<1>5. PICK g : PartsOf(g, S, ss, n) /\ flat = g[n]
  BY <1>3, FlattenParts
<1>6. flat \in Seq(S)
  BY <1>1, <1>5 DEF PartsOf
<1>7. PICK rest : RestsOf(rest, S, ss, n, flat \o tail, tail)
  <2>1. flat \o tail = g[n] \o tail
    BY <1>5, Zenon
  <2> HIDE DEF n, flat
  <2> QED BY <1>1, <1>4, <1>5, <2>1, RestsExist
<1>a. /\ rest \in [0..n -> Seq(S)] /\ rest[0] = flat \o tail /\ rest[n] = tail
      /\ \A i \in 1..n : rest[i - 1] = ss[i] \o rest[i]
  BY <1>7, Zenon DEF RestsOf
<1> DEFINE f == [i \in 0..n |-> [terms |-> SubSeq(terms, 1, i), rest |-> rest[i]]]
<1>8. \A i \in 1..n :
        /\ rest[i - 1][1] = Len(terms[i])
        /\ Take(Tail(rest[i - 1]), Len(terms[i])) = terms[i]
        /\ Drop(rest[i - 1], 1 + Len(terms[i])) = rest[i]
  <2> TAKE i \in 1..n
  <2>0. i \in 0..n
    OBVIOUS
  <2>1. rest[i - 1] = ss[i] \o rest[i] /\ ss[i] = Short(terms[i])
    BY <1>3, <1>a, Zenon
  <2>a. rest[i] \in Seq(S) /\ terms[i] \in Seq(S) /\ Len(terms[i]) \in Uint8
    BY <2>0, <1>1, <1>a
  <2>2. rest[i - 1] = Short(terms[i]) \o rest[i]
    BY <2>1, Zenon
  <2> SUFFICES ASSUME NEW t \in Seq(S), Len(t) \in Uint8, NEW x \in Seq(S), NEW r, r = Short(t) \o x
               PROVE  r[1] = Len(t) /\ Take(Tail(r), Len(t)) = t /\ Drop(r, 1 + Len(t)) = x
    BY <2>a, <2>2, ZenonT(60)
  <2> QED BY ShortRead
<1>9. /\ SubSeq(terms, 1, 0) = <<>> /\ SubSeq(terms, 1, n) = terms
      /\ \A i \in 1..n : SubSeq(terms, 1, i) = Append(SubSeq(terms, 1, i - 1), terms[i])
  BY FirstOf
<1>10. IsRead(f, flat \o tail, n)
  <2>1. \A i \in 0..n : f[i] =
          IF i = 0 THEN [terms |-> <<>>, rest |-> flat \o tail]
          ELSE LET r == f[i - 1].rest
               IN  [terms |-> Append(f[i - 1].terms, Take(Tail(r), r[1])),
                    rest |-> Drop(r, 1 + r[1])]
    <3> TAKE i \in 0..n
    <3>1. CASE i = 0
      BY <1>1, <1>a, <1>9, <3>1
    <3>2. CASE i # 0
      <4>1. i \in 1..n /\ i - 1 \in 0..n
        BY <1>1, <3>2
      <4>2. f[i - 1].rest = rest[i - 1] /\ f[i - 1].terms = SubSeq(terms, 1, i - 1)
        BY <4>1
      <4>3. f[i] = [terms |-> SubSeq(terms, 1, i), rest |-> rest[i]]
        OBVIOUS
      <4> HIDE DEF f
      <4> QED BY <1>8, <1>9, <3>2, <4>1, <4>2, <4>3
    <3> QED BY <3>1, <3>2
  <2> QED BY <2>1, Zenon DEF IsRead
<1>11. ReadTerms(flat \o tail, n) = f[n]
  BY <1>1, <1>10, ReadUnique
<1>12. f[n] = [terms |-> terms, rest |-> tail]
  BY <1>1, <1>a, <1>9
<1> QED BY <1>6, <1>11, <1>12 DEF ss

-----------------------------------------------------------------------------
(* The same for longer ones: of what is put together the provers know only *)
(* what the lemmas above say.                                              *)
Cat(s, t) == s \o t

LEMMA CatSeq ==
  ASSUME NEW S, NEW s \in Seq(S), NEW t \in Seq(S)
  PROVE  Cat(s, t) \in Seq(S) /\ Len(Cat(s, t)) = Len(s) + Len(t)
BY Joined DEF Cat

LEMMA CatAssoc ==
  ASSUME NEW S, NEW s \in Seq(S), NEW t \in Seq(S), NEW u \in Seq(S)
  PROVE  Cat(Cat(s, t), u) = Cat(s, Cat(t, u))
BY SMTT(60) DEF Cat

LEMMA CatCell ==
  ASSUME NEW S, NEW c \in Seq(S), Sized(c, 1), NEW rest \in Seq(S)
  PROVE  /\ Cat(c, rest) \in Seq(S) /\ Len(Cat(c, rest)) = 1 + Len(rest)
         /\ Cat(c, rest)[1] = c[1] /\ Head(Cat(c, rest)) = c[1] /\ Tail(Cat(c, rest)) = rest
BY CellRead DEF Cat, Sized

LEMMA CatCells ==
  ASSUME NEW S, NEW c \in Seq(S), Sized(c, 1), NEW e \in Seq(S), Sized(e, 1), NEW rest \in Seq(S)
  PROVE  LET u == Cat(Cat(c, e), rest)
         IN  /\ u \in Seq(S) /\ Len(u) = 2 + Len(rest)
             /\ u[1] = c[1] /\ u[2] = e[1] /\ Drop(u, 2) = rest
BY Cells, SMTT(60) DEF Cat

LEMMA CatU32 ==
  ASSUME NEW S, Uint8 \subseteq S, NEW v \in Uint32, NEW rest \in Seq(S)
  PROVE  /\ Cat(U32(v), rest) \in Seq(S) /\ Len(Cat(U32(v), rest)) = 4 + Len(rest)
         /\ ReadU32(Cat(U32(v), rest)) = v /\ Drop(Cat(U32(v), rest), 4) = rest
BY U32Read DEF Cat

(* A client's id, a number, and the rest.                                  *)
LEMMA CatHeader ==
  ASSUME NEW S, Uint8 \subseteq S, NEW c \in Uint8, NEW v \in Uint32, NEW rest \in Seq(S)
  PROVE  LET u == Cat(Cat(U8(c), U32(v)), rest)
         IN  /\ u \in Seq(S) /\ Len(u) = 5 + Len(rest)
             /\ u[1] = c /\ ReadU32(Tail(u)) = v /\ Drop(u, 5) = rest
<1>1. U8(c) \in Seq(S) /\ Len(U8(c)) = 1 /\ U8(c)[1] = c
  BY OneByte
<1>2. U32(v) \in Seq(S) /\ Len(U32(v)) = 4 /\ ReadU32(U32(v)) = v
  BY U32Bytes
<1> SUFFICES ASSUME NEW b \in Seq(S), Len(b) = 1, NEW w \in Seq(S), Len(w) = 4
             PROVE  LET u == Cat(Cat(b, w), rest)
                    IN  /\ u \in Seq(S) /\ Len(u) = 5 + Len(rest)
                        /\ u[1] = b[1] /\ ReadU32(Tail(u)) = ReadU32(w) /\ Drop(u, 5) = rest
  BY <1>1, <1>2
<1> QED BY Header DEF Cat

LEMMA CatLong ==
  ASSUME NEW S, Uint8 \subseteq S, NEW data \in Seq(S), Len(data) \in Uint32, NEW rest \in Seq(S)
  PROVE  LET u == Cat(Long(data), rest)
         IN  /\ u \in Seq(S) /\ Len(u) = 4 + Len(data) + Len(rest)
             /\ ReadU32(u) = Len(data) /\ ReadLong(u) = data /\ AfterLong(u) = rest
BY LongRead DEF Cat

(* With nothing behind it.                                                 *)
LEMMA LastLong ==
  ASSUME NEW S, Uint8 \subseteq S, NEW data \in Seq(S), Len(data) \in Uint32
  PROVE  /\ Long(data) \in Seq(S) /\ Len(Long(data)) = 4 + Len(data)
         /\ ReadU32(Long(data)) = Len(data) /\ ReadLong(Long(data)) = data
<1>1. <<>> \in Seq(S)
  OBVIOUS
<1>2. /\ Long(data) \in Seq(S) /\ Len(Long(data)) = 4 + Len(data)
      /\ ReadU32(Long(data) \o <<>>) = Len(data)
      /\ ReadLong(Long(data) \o <<>>) = data
  <2> SUFFICES ASSUME NEW e \in Seq(S)
               PROVE  /\ Long(data) \in Seq(S) /\ Len(Long(data)) = 4 + Len(data)
                      /\ ReadU32(Long(data) \o e) = Len(data)
                      /\ ReadLong(Long(data) \o e) = data
    BY <1>1
  <2> QED BY LongRead
<1>3. Long(data) \o <<>> = Long(data)
  BY <1>2, Alone
<1> QED BY <1>2, <1>3

LEMMA LastU32 ==
  ASSUME NEW S, Uint8 \subseteq S, NEW v \in Uint32
  PROVE  U32(v) \in Seq(S) /\ Len(U32(v)) = 4 /\ ReadU32(U32(v)) = v
BY U32Bytes

LEMMA LastByte ==
  ASSUME NEW S, Uint8 \subseteq S, NEW v \in Uint8
  PROVE  U8(v) \in Seq(S) /\ Sized(U8(v), 1) /\ U8(v)[1] = v /\ Head(U8(v)) = v
<1>1. U8(v) \in Seq(S) /\ Len(U8(v)) = 1 /\ U8(v)[1] = v
  BY OneByte
<1>2. Head(U8(v)) = U8(v)[1]
  BY <1>1
<1> QED BY <1>1, <1>2 DEF Sized

(* Two of them.                                                            *)
LEMMA TwoLongs ==
  ASSUME NEW S, Uint8 \subseteq S, NEW a \in Seq(S), Len(a) \in Uint32,
         NEW b \in Seq(S), Len(b) \in Uint32
  PROVE  LET u == Cat(Long(a), Long(b))
         IN  /\ u \in Seq(S) /\ Len(u) = 8 + Len(a) + Len(b)
             /\ ReadU32(u) = Len(a) /\ ReadLong(u) = a
             /\ AfterLong(u) = Long(b) /\ ReadLong(AfterLong(u)) = b
<1>1. Long(b) \in Seq(S) /\ Len(Long(b)) = 4 + Len(b) /\ ReadLong(Long(b)) = b
  BY LastLong
<1>2. LET u == Cat(Long(a), Long(b))
      IN  /\ u \in Seq(S) /\ Len(u) = 4 + Len(a) + Len(Long(b))
          /\ ReadU32(u) = Len(a) /\ ReadLong(u) = a /\ AfterLong(u) = Long(b)
  BY <1>1, CatLong
<1> QED BY <1>1, <1>2

(* What follows the number of the document in an update, from clients of   *)
(* the second kind and of the first.                                       *)
LEMMA SplitRead ==
  ASSUME NEW S, Uint8 \subseteq S, NEW a \in Seq(S), Len(a) \in Uint32,
         NEW b \in Seq(S), Len(b) \in Uint32
  PROVE  LET u == Cat(Cat(Cat(U8(UPDATE_WIRE_V1), U8(UPDATE_SPLIT)), Long(a)), Long(b))
         IN  /\ u \in Seq(S) /\ Len(u) = 10 + Len(a) + Len(b)
             /\ u[1] = UPDATE_WIRE_V1 /\ u[2] = UPDATE_SPLIT
             /\ ReadLong(Drop(u, 2)) = a /\ ReadLong(AfterLong(Drop(u, 2))) = b
<1> DEFINE c == U8(UPDATE_WIRE_V1)
           e == U8(UPDATE_SPLIT)
           x == Long(a)
           y == Long(b)
<1>1. x \in Seq(S) /\ y \in Seq(S)
  BY LastLong
<1>2. /\ c \in Seq(S) /\ Sized(c, 1) /\ c[1] = UPDATE_WIRE_V1
      /\ e \in Seq(S) /\ Sized(e, 1) /\ e[1] = UPDATE_SPLIT
  <2>1. UPDATE_WIRE_V1 \in Uint8 /\ UPDATE_SPLIT \in Uint8
    BY SMT DEF Uint8, UPDATE_WIRE_V1, UPDATE_SPLIT
  <2> QED BY <2>1, LastByte
<1>3. /\ Cat(x, y) \in Seq(S) /\ Len(Cat(x, y)) = 8 + Len(a) + Len(b)
      /\ ReadLong(Cat(x, y)) = a /\ ReadLong(AfterLong(Cat(x, y))) = b
  BY TwoLongs
<1> HIDE DEF c, e, x, y
<1>4. Cat(c, e) \in Seq(S)
  BY <1>2, CatSeq
<1>5. Cat(Cat(Cat(c, e), x), y) = Cat(Cat(c, e), Cat(x, y))
  BY <1>1, <1>4, CatAssoc
<1>6. LET u == Cat(Cat(c, e), Cat(x, y))
      IN  /\ u \in Seq(S) /\ Len(u) = 2 + Len(Cat(x, y))
          /\ u[1] = c[1] /\ u[2] = e[1] /\ Drop(u, 2) = Cat(x, y)
  <2> SUFFICES ASSUME NEW p \in Seq(S), Sized(p, 1), NEW q \in Seq(S), Sized(q, 1), NEW v \in Seq(S)
               PROVE  LET u == Cat(Cat(p, q), v)
                      IN  /\ u \in Seq(S) /\ Len(u) = 2 + Len(v)
                          /\ u[1] = p[1] /\ u[2] = q[1] /\ Drop(u, 2) = v
    BY <1>2, <1>3, ZenonT(60)
  <2> QED BY CatCells
<1>7. LET u == Cat(Cat(Cat(c, e), x), y)
      IN  /\ u \in Seq(S) /\ Len(u) = 10 + Len(a) + Len(b)
          /\ u[1] = UPDATE_WIRE_V1 /\ u[2] = UPDATE_SPLIT
          /\ ReadLong(Drop(u, 2)) = a /\ ReadLong(AfterLong(Drop(u, 2))) = b
  BY <1>2, <1>3, <1>5, <1>6
<1> QED BY <1>7 DEF c, e, x, y

LEMMA SingleRead ==
  ASSUME NEW S, Uint8 \subseteq S, NEW b \in Seq(S), Len(b) \in Uint32
  PROVE  LET u == Cat(U8(UPDATE_WIRE_LEGACY_SINGLE), Long(b))
         IN  /\ u \in Seq(S) /\ Len(u) = 5 + Len(b)
             /\ u[1] = UPDATE_WIRE_LEGACY_SINGLE /\ ReadLong(Tail(u)) = b
<1>1. Long(b) \in Seq(S) /\ Len(Long(b)) = 4 + Len(b) /\ ReadLong(Long(b)) = b
  BY LastLong
<1>2. UPDATE_WIRE_LEGACY_SINGLE \in Uint8
  BY SMT DEF Uint8, UPDATE_WIRE_LEGACY_SINGLE
<1> DEFINE c == U8(UPDATE_WIRE_LEGACY_SINGLE)
<1>3. c \in Seq(S) /\ Sized(c, 1) /\ c[1] = UPDATE_WIRE_LEGACY_SINGLE
  BY <1>2, LastByte
<1> HIDE DEF c
<1>4. LET u == Cat(c, Long(b))
      IN  u \in Seq(S) /\ Len(u) = 1 + Len(Long(b)) /\ u[1] = c[1] /\ Tail(u) = Long(b)
  BY <1>1, <1>3, CatCell
<1>5. LET u == Cat(c, Long(b))
      IN  /\ u \in Seq(S) /\ Len(u) = 5 + Len(b)
          /\ u[1] = UPDATE_WIRE_LEGACY_SINGLE /\ ReadLong(Tail(u)) = b
  <2> SUFFICES ASSUME NEW u, Len(u) = 1 + Len(Long(b))
               PROVE  Len(u) = 5 + Len(b)
    BY <1>1, <1>3, <1>4
  <2> QED BY <1>1
<1> QED BY <1>5 DEF c

LEMMA InitArrives ==
  ASSUME NEW S, Uint8 \subseteq S, NEW id, NEW key \in S, NEW mode \in Uint8, NEW edb \in Uint32
  PROVE  LET s == Cat(Cat(<<key>>, U8(mode)), U32(edb))
         IN  /\ s \in Seq(S)
             /\ ReadInit(id, s) = [client_id |-> id, type |-> INIT, key |-> key,
                                   mode |-> mode, target_edb_id |-> edb]
<1>1. U8(mode) \in Seq(S) /\ Sized(U8(mode), 1) /\ U8(mode)[1] = mode
  BY LastByte
<1>2. U32(edb) \in Seq(S) /\ Len(U32(edb)) = 4 /\ ReadU32(U32(edb)) = edb
  BY LastU32
<1>3. <<key>> \in Seq(S) /\ Sized(<<key>>, 1) /\ <<key>>[1] = key
  BY DEF Sized
<1> DEFINE s == Cat(Cat(<<key>>, U8(mode)), U32(edb))
<1>4. s \in Seq(S) /\ Len(s) = 6 /\ s[1] = key /\ s[2] = mode /\ Drop(s, 2) = U32(edb)
  <2> SUFFICES ASSUME NEW p \in Seq(S), Sized(p, 1), NEW q \in Seq(S), Sized(q, 1), NEW v \in Seq(S)
               PROVE  LET u == Cat(Cat(p, q), v)
                      IN  /\ u \in Seq(S) /\ Len(u) = 2 + Len(v)
                          /\ u[1] = p[1] /\ u[2] = q[1] /\ Drop(u, 2) = v
    <3>1. /\ s \in Seq(S) /\ Len(s) = 2 + Len(U32(edb))
          /\ s[1] = <<key>>[1] /\ s[2] = U8(mode)[1] /\ Drop(s, 2) = U32(edb)
      BY <1>1, <1>2, <1>3, Zenon
    <3> HIDE DEF s
    <3>2. Len(s) = 2 + 4
      BY <1>2, <3>1, Zenon
    <3>3. 2 + 4 = 6
      OBVIOUS
    <3> QED BY <1>1, <1>3, <3>1, <3>2, <3>3, Zenon DEF s
  <2> QED BY CatCells
<1> HIDE DEF s
<1>5. ReadInit(id, s) = [client_id |-> id, type |-> INIT, key |-> key,
                         mode |-> mode, target_edb_id |-> edb]
  BY <1>2, <1>4 DEF ReadInit
<1> QED BY <1>4, <1>5 DEF s

LEMMA LengthFits ==
  ASSUME NEW S, NEW data \in Seq(S), NEW m \in Uint32, Len(data) <= m
  PROVE  Len(data) \in Uint32
<1>1. Len(data) \in Nat
  OBVIOUS
<1>2. m \in Nat /\ m < 4294967296
  BY SMT DEF Uint32
<1>3. Len(data) < 4294967296
  BY <1>1, <1>2, SMT
<1> QED BY <1>1, <1>3 DEF Uint32

LEMMA Caps ==
  /\ MAX_TERMS \in Uint32 /\ MAX_INDEX_SIZE \in Uint32
  /\ MAX_DOC_SIZE \in Uint32 /\ MAX_RESULT_DOCS \in Uint32
BY WireAssumption

LEMMA SplitArrives ==
  ASSUME NEW S, Uint8 \subseteq S, NEW id, NEW op \in Uint8, NEW doc_id \in Uint32,
         NEW a \in Seq(S), Len(a) <= MAX_INDEX_SIZE, NEW b \in Seq(S), Len(b) <= MAX_DOC_SIZE
  PROVE  LET u == Cat(Cat(Cat(U8(UPDATE_WIRE_V1), U8(UPDATE_SPLIT)), Long(a)), Long(b))
             s == Cat(Cat(U8(op), U32(doc_id)), u)
         IN  /\ s \in Seq(S)
             /\ ReadUpdate(id, s) =
                  [client_id |-> id, type |-> UPDATE, op |-> op, doc_id |-> doc_id,
                   flags |-> UPDATE_SPLIT, index_content |-> a, doc_content |-> b]
<1> DEFINE u == Cat(Cat(Cat(U8(UPDATE_WIRE_V1), U8(UPDATE_SPLIT)), Long(a)), Long(b))
           s == Cat(Cat(U8(op), U32(doc_id)), u)
<1>1. Len(a) \in Uint32 /\ Len(b) \in Uint32
  BY Caps, LengthFits
<1>2. /\ u \in Seq(S) /\ u[1] = UPDATE_WIRE_V1 /\ u[2] = UPDATE_SPLIT
      /\ ReadLong(Drop(u, 2)) = a /\ ReadLong(AfterLong(Drop(u, 2))) = b
  BY <1>1, SplitRead
<1> HIDE DEF u
<1>3. s \in Seq(S) /\ s[1] = op /\ ReadU32(Tail(s)) = doc_id /\ Drop(s, 5) = u
  BY <1>2, CatHeader
<1> HIDE DEF s
<1>4. ReadUpdate(id, s) = Updated(id, s, UPDATE_SPLIT, a, b)
  <2>1. UPDATE_WIRE_LEGACY_SINGLE # UPDATE_WIRE_V1
    BY DEF UPDATE_WIRE_LEGACY_SINGLE, UPDATE_WIRE_V1
  <2> QED BY <1>2, <1>3, <2>1 DEF ReadUpdate
<1>5. ~(Len(a) > MAX_INDEX_SIZE \/ Len(b) > MAX_DOC_SIZE)
  <2>1. MAX_INDEX_SIZE \in Nat /\ MAX_DOC_SIZE \in Nat
    BY Caps DEF Uint32
  <2> QED BY <2>1
<1>6. ReadUpdate(id, s) =
        [client_id |-> id, type |-> UPDATE, op |-> op, doc_id |-> doc_id,
         flags |-> UPDATE_SPLIT, index_content |-> a, doc_content |-> b]
  BY <1>3, <1>4, <1>5, Zenon DEF Updated
<1> QED BY <1>3, <1>6, Zenon DEF s, u

LEMMA SingleArrives ==
  ASSUME NEW S, Uint8 \subseteq S, NEW id, NEW op \in Uint8, NEW doc_id \in Uint32,
         NEW b \in Seq(S), Len(b) <= MAX_DOC_SIZE
  PROVE  LET u == Cat(U8(UPDATE_WIRE_LEGACY_SINGLE), Long(b))
             s == Cat(Cat(U8(op), U32(doc_id)), u)
         IN  /\ s \in Seq(S)
             /\ ReadUpdate(id, s) =
                  [client_id |-> id, type |-> UPDATE, op |-> op, doc_id |-> doc_id,
                   flags |-> UPDATE_LEGACY, index_content |-> <<>>, doc_content |-> b]
<1> DEFINE u == Cat(U8(UPDATE_WIRE_LEGACY_SINGLE), Long(b))
           s == Cat(Cat(U8(op), U32(doc_id)), u)
<1>1. Len(b) \in Uint32
  BY Caps, LengthFits
<1>2. u \in Seq(S) /\ u[1] = UPDATE_WIRE_LEGACY_SINGLE /\ ReadLong(Tail(u)) = b
  BY <1>1, SingleRead
<1> HIDE DEF u
<1>3. s \in Seq(S) /\ s[1] = op /\ ReadU32(Tail(s)) = doc_id /\ Drop(s, 5) = u
  BY <1>2, CatHeader
<1> HIDE DEF s
<1>4. ReadUpdate(id, s) = Updated(id, s, UPDATE_LEGACY, <<>>, b)
  <2>1. UPDATE_WIRE_LEGACY_SINGLE # UPDATE_WIRE_V1
    BY DEF UPDATE_WIRE_LEGACY_SINGLE, UPDATE_WIRE_V1
  <2> QED BY <1>2, <1>3, <2>1 DEF ReadUpdate
<1>5. ~(Len(<<>>) > MAX_INDEX_SIZE \/ Len(b) > MAX_DOC_SIZE)
  <2>1. MAX_INDEX_SIZE \in Nat /\ MAX_DOC_SIZE \in Nat /\ Len(<<>>) = 0
    BY Caps DEF Uint32
  <2> QED BY <2>1
<1>6. ReadUpdate(id, s) =
        [client_id |-> id, type |-> UPDATE, op |-> op, doc_id |-> doc_id,
         flags |-> UPDATE_LEGACY, index_content |-> <<>>, doc_content |-> b]
  BY <1>3, <1>4, <1>5, Zenon DEF Updated
<1> QED BY <1>3, <1>6, Zenon DEF s, u

TermsFit(S, terms) ==
  /\ terms \in Seq(Seq(S)) /\ Len(terms) <= MAX_TERMS
  /\ \A i \in 1..Len(terms) : Len(terms[i]) <= MAX_KEYWORD_LEN
SelectBody(terms, expr, type) ==
  Cat(Cat(Cat(U32(Len(terms)), FlattenSeq([i \in DOMAIN terms |-> Short(terms[i])])), Long(expr)),
      U8(type))

LEMMA TermsShort ==
  ASSUME NEW S, NEW terms, TermsFit(S, terms)
  PROVE  \A i \in 1..Len(terms) : Len(terms[i]) \in Uint8
<1> SUFFICES ASSUME NEW i \in 1..Len(terms) PROVE Len(terms[i]) \in Uint8
  OBVIOUS
<1>1. terms[i] \in Seq(S) /\ Len(terms[i]) <= 32
  BY DEF TermsFit, MAX_KEYWORD_LEN
<1>2. Len(terms[i]) \in Nat
  BY <1>1
<1>3. \A n \in Nat : n <= 32 => n \in Uint8
  BY DEF Uint8
<1> QED BY <1>1, <1>2, <1>3, Zenon

LEMMA SelectArrives ==
  ASSUME NEW S, Uint8 \subseteq S, NEW id, NEW terms, TermsFit(S, terms),
         NEW expr \in Seq(S), Len(expr) \in Uint32, Len(expr) <= BOOL_EXPR_SIZE,
         NEW type \in Uint8
  PROVE  LET s == SelectBody(terms, expr, type)
         IN  /\ s \in Seq(S)
             /\ ReadSelect(id, s) =
                  [client_id |-> id, type |-> SELECT, terms |-> terms,
                   bool_expr |-> expr, select_type |-> type]
<1> DEFINE n == Len(terms)
           flat == FlattenSeq([i \in DOMAIN terms |-> Short(terms[i])])
           tail == Cat(Long(expr), U8(type))
           s == Cat(Cat(Cat(U32(n), flat), Long(expr)), U8(type))
<1>0. /\ terms \in Seq(Seq(S)) /\ Len(terms) <= MAX_TERMS
      /\ \A i \in 1..Len(terms) : Len(terms[i]) \in Uint8 /\ Len(terms[i]) <= MAX_KEYWORD_LEN
  BY TermsShort DEF TermsFit
<1>1. n \in Uint32 /\ n <= MAX_TERMS /\ MAX_TERMS \in Nat /\ n \in Nat
  <2>1. n \in Uint32
    BY <1>0, Caps, LengthFits
  <2>2. MAX_TERMS \in Nat
    BY Caps DEF Uint32
  <2> QED BY <1>0, <2>1, <2>2 DEF Uint32
<1>2. U8(type) \in Seq(S) /\ Head(U8(type)) = type
  BY LastByte
<1>3. tail \in Seq(S) /\ ReadLong(tail) = expr /\ AfterLong(tail) = U8(type)
  BY <1>2, CatLong
<1>b. ReadU32(tail) = Len(expr)
  BY <1>2, CatLong
<1>4. Long(expr) \in Seq(S) /\ U32(n) \in Seq(S)
  BY <1>1, LastLong, LastU32
<1>5. flat \in Seq(S) /\ ReadTerms(Cat(flat, tail), n) = [terms |-> terms, rest |-> tail]
  <2> SUFFICES ASSUME NEW x \in Seq(S)
               PROVE  flat \in Seq(S) /\ ReadTerms(Cat(flat, x), n) = [terms |-> terms, rest |-> x]
    BY <1>3
  <2> QED BY <1>0, TermsRead DEF Cat
<1> HIDE DEF n, flat
<1>6. s = Cat(U32(n), Cat(flat, tail))
  <2>1. Cat(U32(n), flat) \in Seq(S)
    BY <1>4, <1>5, CatSeq
  <2>2. Cat(Cat(Cat(U32(n), flat), Long(expr)), U8(type)) = Cat(Cat(U32(n), flat), tail)
    BY <2>1, <1>2, <1>4, CatAssoc
  <2> HIDE DEF tail
  <2>3. Cat(Cat(U32(n), flat), tail) = Cat(U32(n), Cat(flat, tail))
    BY <1>3, <1>4, <1>5, CatAssoc
  <2> QED BY <2>2, <2>3
<1> HIDE DEF tail, s
<1>7. Cat(flat, tail) \in Seq(S)
  BY <1>3, <1>5, CatSeq
<1>8. s \in Seq(S) /\ ReadU32(s) = n /\ Drop(s, 4) = Cat(flat, tail)
  BY <1>1, <1>6, <1>7, CatU32
<1>9. ReadSelect(id, s) = [client_id |-> id, type |-> SELECT, terms |-> terms,
                           bool_expr |-> expr, select_type |-> type]
  <2>1. ~(ReadU32(s) > MAX_TERMS)
    BY <1>1, <1>8
  <2>2. ReadTerms(Drop(s, 4), ReadU32(s)) = [terms |-> terms, rest |-> tail]
    BY <1>5, <1>8
  <2>3. ~(\E i \in DOMAIN terms : Len(terms[i]) > MAX_KEYWORD_LEN) /\ ~(ReadU32(tail) > BOOL_EXPR_SIZE)
    <3>1. ReadU32(tail) = Len(expr) /\ Len(expr) \in Nat
      BY <1>b
    <3>2. \A i \in DOMAIN terms : terms[i] \in Seq(S) /\ Len(terms[i]) <= MAX_KEYWORD_LEN
      BY <1>0
    <3> QED BY <3>1, <3>2 DEF MAX_KEYWORD_LEN, BOOL_EXPR_SIZE
  <2>4. /\ (ReadTerms(Drop(s, 4), ReadU32(s))).terms = terms
        /\ (ReadTerms(Drop(s, 4), ReadU32(s))).rest = tail
    BY <2>2
  <2> QED BY <1>2, <1>3, <2>1, <2>3, <2>4 DEF ReadSelect
<1> QED BY <1>8, <1>9, Zenon DEF SelectBody, s, n, flat

(* The length of anything is written in four bytes.                        *)
LEMMA LongLength ==
  ASSUME NEW S, Uint8 \subseteq S, NEW data \in Seq(S)
  PROVE  Long(data) \in Seq(S) /\ Len(Long(data)) = 4 + Len(data)
<1>1. U32(Len(data)) \in Seq(Uint8) /\ Len(U32(Len(data))) = 4
  <2> SUFFICES ASSUME NEW n \in Nat
               PROVE  U32(n) \in Seq(Uint8) /\ Len(U32(n)) = 4
    OBVIOUS
  <2>1. \A m \in Nat : m % 256 \in Uint8
    BY SMT DEF Uint8
  <2>2. n \div 256 \in Nat /\ n \div 65536 \in Nat /\ n \div 16777216 \in Nat
    BY SMT
  <2> QED BY <2>1, <2>2 DEF U32
<1>2. U32(Len(data)) \in Seq(S)
  BY <1>1
<1> SUFFICES ASSUME NEW w \in Seq(S), Len(w) = 4
             PROVE  w \o data \in Seq(S) /\ Len(w \o data) = 4 + Len(data)
  BY <1>1, <1>2 DEF Long
<1>3. w \o data \in Seq(S) /\ Len(w \o data) = Len(w) + Len(data)
  BY Joined
<1> QED BY <1>3

LEMMA SerializedLength ==
  ASSUME NEW S, Uint8 \subseteq S, NEW r, r.client_id \in Uint8, r.type \in Uint32,
         RequestBody(r) \in Seq(S)
  PROVE  Len(serialize_encdb_request(r)) = 9 + Len(RequestBody(r))
<1> DEFINE c == r.client_id
           v == r.type
           body == RequestBody(r)
           x == Long(body)
           s == Cat(Cat(U8(c), U32(v)), x)
<1>1. serialize_encdb_request(r) = s
  BY Zenon DEF serialize_encdb_request, Cat
<1>2. c \in Uint8 /\ v \in Uint32 /\ body \in Seq(S)
  OBVIOUS
<1> HIDE DEF c, v, body
<1>3. x \in Seq(S) /\ Len(x) = 4 + Len(body) /\ Len(body) \in Nat
  BY <1>2, LongLength
<1> HIDE DEF x
<1>4. Len(s) = 5 + Len(x)
  <2> SUFFICES ASSUME NEW b \in Uint8, NEW w \in Uint32, NEW rest \in Seq(S)
               PROVE  Len(Cat(Cat(U8(b), U32(w)), rest)) = 5 + Len(rest)
    BY <1>2, <1>3
  <2> QED BY CatHeader
<1> HIDE DEF s
<1>5. Len(s) = 9 + Len(body)
  BY <1>3, <1>4
<1> QED BY <1>1, <1>5, Zenon DEF body

(* Client, kind and body of a request of which all is received.            *)
LEMMA Delivered ==
  ASSUME NEW S, Uint8 \subseteq S, NEW r, r.client_id \in Uint8, r.type \in Uint32,
         RequestBody(r) \in Seq(S), Len(serialize_encdb_request(r)) \in Uint32
  PROVE  LET s == recv_buffer(send_buffer(serialize_encdb_request(r)))
         IN  s[1] = r.client_id /\ ReadU32(Tail(s)) = r.type /\ ReadLong(Drop(s, 5)) = RequestBody(r)
<1> DEFINE c == r.client_id
           v == r.type
           body == RequestBody(r)
           x == Long(body)
           s == Cat(Cat(U8(c), U32(v)), x)
<1>1. serialize_encdb_request(r) = s
  BY Zenon DEF serialize_encdb_request, Cat
<1>a. c \in Uint8 /\ v \in Uint32 /\ body \in Seq(S)
  OBVIOUS
<1> HIDE DEF c, v, body
<1>2. x \in Seq(S) /\ Len(x) = 4 + Len(body)
  BY <1>a, LongLength
<1> HIDE DEF x
<1>3. s \in Seq(S) /\ Len(s) = 5 + Len(x) /\ s[1] = c /\ ReadU32(Tail(s)) = v /\ Drop(s, 5) = x
  <2> SUFFICES ASSUME NEW b \in Uint8, NEW w \in Uint32, NEW rest \in Seq(S)
               PROVE  LET u == Cat(Cat(U8(b), U32(w)), rest)
                      IN  /\ u \in Seq(S) /\ Len(u) = 5 + Len(rest)
                          /\ u[1] = b /\ ReadU32(Tail(u)) = w /\ Drop(u, 5) = rest
    BY <1>a, <1>2
  <2> QED BY CatHeader
<1> HIDE DEF s
<1>4. Len(s) \in Uint32
  BY <1>1, Zenon
<1>5. Len(body) \in Uint32
  <2>1. Len(s) < 4294967296 /\ Len(s) = 9 + Len(body) /\ Len(body) \in Nat
    <3>1. Len(s) < 4294967296
      BY <1>4, SMT DEF Uint32
    <3> QED BY <3>1, <1>a, <1>2, <1>3
  <2>2. Len(body) < 4294967296
    BY <2>1, SMT
  <2> QED BY <2>1, <2>2, SMT DEF Uint32
<1>6. ReadLong(x) = body
  BY <1>a, <1>5, LastLong DEF x
<1>7. recv_buffer(send_buffer(s)) = s
  BY <1>3, <1>4, Framing
<1> QED BY <1>1, <1>3, <1>6, <1>7, Zenon DEF c, v, body

(* The requests there are, over a set S of cells that has all bytes, as    *)
(* long as the server takes them.                                          *)
InitRequests(S) ==
  [client_id : Uint8, type : {INIT}, key : S, mode : Uint8, target_edb_id : Uint32]
ShutdownRequests == [client_id : Uint8, type : {SHUTDOWN}, reserved : Uint8]
SelectRequests(S) ==
  {r \in [client_id : Uint8, type : {SELECT}, terms : Seq(Seq(S)), bool_expr : Seq(S),
          select_type : Uint8] :
     /\ Len(r.terms) <= MAX_TERMS /\ \A i \in 1..Len(r.terms) : Len(r.terms[i]) <= MAX_KEYWORD_LEN
     /\ Len(r.bool_expr) <= BOOL_EXPR_SIZE}
UpdateRequests(S) ==
  {r \in [client_id : Uint8, type : {UPDATE}, op : Uint8, doc_id : Uint32,
          flags : {UPDATE_SPLIT, UPDATE_LEGACY}, index_content : Seq(S), doc_content : Seq(S)] :
     /\ Len(r.index_content) <= MAX_INDEX_SIZE /\ Len(r.doc_content) <= MAX_DOC_SIZE
     /\ r.flags = UPDATE_LEGACY => r.index_content = <<>>}

LEMMA Kinds ==
  /\ INIT \in Uint32 /\ SELECT \in Uint32 /\ UPDATE \in Uint32 /\ SHUTDOWN \in Uint32
  /\ INIT # SELECT /\ INIT # UPDATE /\ INIT # SHUTDOWN
  /\ SELECT # UPDATE /\ SELECT # SHUTDOWN /\ UPDATE # SHUTDOWN
BY SMT DEF INIT, SELECT, UPDATE, SHUTDOWN, Uint32

LEMMA InitTransported ==
  ASSUME NEW S, Uint8 \subseteq S, NEW r \in InitRequests(S),
         Len(serialize_encdb_request(r)) \in Uint32
  PROVE  Transported(r) = r
<1> DEFINE s == recv_buffer(send_buffer(serialize_encdb_request(r)))
<1>1. /\ r = [client_id |-> r.client_id, type |-> INIT, key |-> r.key, mode |-> r.mode,
              target_edb_id |-> r.target_edb_id]
      /\ r.client_id \in Uint8 /\ r.type = INIT /\ r.key \in S
      /\ r.mode \in Uint8 /\ r.target_edb_id \in Uint32
  BY DEF InitRequests
<1> DEFINE b == Cat(Cat(<<r.key>>, U8(r.mode)), U32(r.target_edb_id))
<1>2. RequestBody(r) = b
  <2>1. RequestBody(r) = (<<r.key>> \o U8(r.mode)) \o U32(r.target_edb_id)
    BY <1>1, Kinds DEF RequestBody
  <2> QED BY <2>1, Zenon DEF Cat
<1>3. RequestBody(r) \in Seq(S) /\ ReadInit(r.client_id, RequestBody(r)) = r
  <2>1. b \in Seq(S) /\ ReadInit(r.client_id, b) =
          [client_id |-> r.client_id, type |-> INIT, key |-> r.key, mode |-> r.mode,
           target_edb_id |-> r.target_edb_id]
    <3> SUFFICES ASSUME NEW id, NEW key \in S, NEW mode \in Uint8, NEW edb \in Uint32
                 PROVE  LET u == Cat(Cat(<<key>>, U8(mode)), U32(edb))
                        IN  /\ u \in Seq(S)
                            /\ ReadInit(id, u) = [client_id |-> id, type |-> INIT, key |-> key,
                                                  mode |-> mode, target_edb_id |-> edb]
      BY <1>1, Zenon
    <3> QED BY InitArrives
  <2> HIDE DEF b
  <2> QED BY <1>1, <1>2, <2>1, Zenon
<1>4. s[1] = r.client_id /\ ReadU32(Tail(s)) = INIT /\ ReadLong(Drop(s, 5)) = RequestBody(r)
  BY <1>1, <1>3, Kinds, Delivered
<1> HIDE DEF s
<1>5. deserialize_encdb_request(s) = ReadInit(r.client_id, RequestBody(r))
  BY <1>4, Kinds DEF deserialize_encdb_request
<1> QED BY <1>3, <1>5, Zenon DEF Transported, s

LEMMA ShutdownTransported ==
  ASSUME NEW S, Uint8 \subseteq S, NEW r \in ShutdownRequests,
         Len(serialize_encdb_request(r)) \in Uint32
  PROVE  Transported(r) = r
<1> DEFINE s == recv_buffer(send_buffer(serialize_encdb_request(r)))
           b == RequestBody(r)
<1>1. /\ r = [client_id |-> r.client_id, type |-> SHUTDOWN, reserved |-> r.reserved]
      /\ r.client_id \in Uint8 /\ r.type = SHUTDOWN /\ r.reserved \in Uint8
  BY DEF ShutdownRequests
<1>2. b = U8(r.reserved)
  BY <1>1, Kinds DEF RequestBody
<1>3. b \in Seq(S) /\ (IF b = <<>> THEN 0 ELSE b[1]) = r.reserved
  BY <1>1, <1>2, ShutdownArrives, Zenon
<1>4. s[1] = r.client_id /\ ReadU32(Tail(s)) = SHUTDOWN /\ ReadLong(Drop(s, 5)) = b
  BY <1>1, <1>3, Kinds, Delivered
<1> HIDE DEF s, b
<1>5. deserialize_encdb_request(s) =
        [client_id |-> r.client_id, type |-> SHUTDOWN, reserved |-> IF b = <<>> THEN 0 ELSE b[1]]
  BY <1>4, Kinds DEF deserialize_encdb_request
<1> QED BY <1>1, <1>3, <1>5, Zenon DEF Transported, s

LEMMA SelectFits ==
  ASSUME NEW S, Uint8 \subseteq S, NEW terms, TermsFit(S, terms),
         NEW expr \in Seq(S), NEW type \in Uint8
  PROVE  LET s == SelectBody(terms, expr, type)
         IN  s \in Seq(S) /\ Len(s) >= 4 + Len(expr)
<1> DEFINE flat == FlattenSeq([i \in DOMAIN terms |-> Short(terms[i])])
           w == U32(Len(terms))
           x == Long(expr)
           y == U8(type)
<1>0. /\ terms \in Seq(Seq(S)) /\ Len(terms) \in Uint32
      /\ \A i \in 1..Len(terms) : Len(terms[i]) \in Uint8
  BY Caps, LengthFits, TermsShort DEF TermsFit
<1>1. flat \in Seq(S)
  <2>1. <<>> \in Seq(S)
    OBVIOUS
  <2> QED BY <1>0, <2>1, TermsRead
<1>2. w \in Seq(S) /\ x \in Seq(S) /\ Len(x) = 4 + Len(expr) /\ y \in Seq(S)
  BY <1>0, LastU32, LongLength, LastByte
<1> HIDE DEF flat, w, x, y
<1>3. Cat(Cat(Cat(w, flat), x), y) \in Seq(S) /\ Len(Cat(Cat(Cat(w, flat), x), y)) >= Len(x)
  <2> SUFFICES ASSUME NEW a \in Seq(S), NEW b \in Seq(S), NEW c \in Seq(S), NEW d \in Seq(S)
               PROVE  Cat(Cat(Cat(a, b), c), d) \in Seq(S) /\ Len(Cat(Cat(Cat(a, b), c), d)) >= Len(c)
    BY <1>1, <1>2
  <2>1. Cat(a, b) \in Seq(S)
    BY CatSeq
  <2>2. Cat(Cat(a, b), c) \in Seq(S) /\ Len(Cat(Cat(a, b), c)) = Len(Cat(a, b)) + Len(c)
    BY <2>1, CatSeq
  <2>3. /\ Cat(Cat(Cat(a, b), c), d) \in Seq(S)
        /\ Len(Cat(Cat(Cat(a, b), c), d)) = Len(Cat(Cat(a, b), c)) + Len(d)
    BY <2>2, CatSeq
  <2> QED BY <2>1, <2>2, <2>3
<1>4. Len(Cat(Cat(Cat(w, flat), x), y)) >= 4 + Len(expr)
  BY <1>2, <1>3
<1> QED BY <1>3, <1>4, Zenon DEF SelectBody, flat, w, x, y

LEMMA SelectTransported ==
  ASSUME NEW S, Uint8 \subseteq S, NEW r \in SelectRequests(S),
         Len(serialize_encdb_request(r)) \in Uint32
  PROVE  Transported(r) = r
<1> DEFINE s == recv_buffer(send_buffer(serialize_encdb_request(r)))
           b == RequestBody(r)
           c == SelectBody(r.terms, r.bool_expr, r.select_type)
<1>1. /\ r = [client_id |-> r.client_id, type |-> SELECT, terms |-> r.terms,
              bool_expr |-> r.bool_expr, select_type |-> r.select_type]
      /\ r.client_id \in Uint8 /\ r.type = SELECT
  BY DEF SelectRequests
<1>a. /\ TermsFit(S, r.terms) /\ r.bool_expr \in Seq(S) /\ r.select_type \in Uint8
      /\ Len(r.bool_expr) <= BOOL_EXPR_SIZE
  BY DEF SelectRequests, TermsFit
<1>2. b = c
  <2>1. b = ((U32(Len(r.terms)) \o FlattenSeq([i \in DOMAIN r.terms |-> Short(r.terms[i])]))
               \o Long(r.bool_expr)) \o U8(r.select_type)
    BY <1>1, Kinds DEF RequestBody
  <2> QED BY <2>1, Zenon DEF Cat, SelectBody
<1>3. c \in Seq(S) /\ Len(c) >= 4 + Len(r.bool_expr)
  BY <1>a, SelectFits
<1> HIDE DEF b, c
<1>4. Len(r.bool_expr) \in Uint32
  <2>3. Len(serialize_encdb_request(r)) = 9 + Len(b)
    BY <1>1, <1>2, <1>3, Kinds, SerializedLength DEF b
  <2>4. Len(serialize_encdb_request(r)) < 4294967296
    BY SMT DEF Uint32
  <2>5. Len(r.bool_expr) \in Nat /\ Len(c) \in Nat
    BY <1>a, <1>3
  <2>6. Len(r.bool_expr) < 4294967296
    BY <1>2, <1>3, <2>3, <2>4, <2>5, SMT
  <2> QED BY <2>5, <2>6, SMT DEF Uint32
<1>5. ReadSelect(r.client_id, c) =
        [client_id |-> r.client_id, type |-> SELECT, terms |-> r.terms,
         bool_expr |-> r.bool_expr, select_type |-> r.select_type]
  BY <1>a, <1>4, SelectArrives DEF c
<1>6. s[1] = r.client_id /\ ReadU32(Tail(s)) = SELECT /\ ReadLong(Drop(s, 5)) = b
  BY <1>1, <1>2, <1>3, Kinds, Delivered DEF b
<1> HIDE DEF s
<1>7. deserialize_encdb_request(s) = ReadSelect(r.client_id, b)
  BY <1>6, Kinds DEF deserialize_encdb_request
<1> QED BY <1>1, <1>2, <1>5, <1>7, Zenon DEF Transported, s

LEMMA UpdateTransported ==
  ASSUME NEW S, Uint8 \subseteq S, NEW r \in UpdateRequests(S),
         Len(serialize_encdb_request(r)) \in Uint32
  PROVE  Transported(r) = r
<1> DEFINE s == recv_buffer(send_buffer(serialize_encdb_request(r)))
           b == RequestBody(r)
           split == Cat(Cat(Cat(U8(UPDATE_WIRE_V1), U8(UPDATE_SPLIT)), Long(r.index_content)),
                        Long(r.doc_content))
           single == Cat(U8(UPDATE_WIRE_LEGACY_SINGLE), Long(r.doc_content))
           head == Cat(U8(r.op), U32(r.doc_id))
<1>1. /\ r = [client_id |-> r.client_id, type |-> UPDATE, op |-> r.op, doc_id |-> r.doc_id,
              flags |-> r.flags, index_content |-> r.index_content, doc_content |-> r.doc_content]
      /\ r.client_id \in Uint8 /\ r.type = UPDATE
      /\ r.flags \in {UPDATE_SPLIT, UPDATE_LEGACY}
      /\ r.flags = UPDATE_LEGACY => r.index_content = <<>>
  BY DEF UpdateRequests
<1>a. /\ r.client_id \in Uint8 /\ r.op \in Uint8 /\ r.doc_id \in Uint32
      /\ r.index_content \in Seq(S) /\ r.doc_content \in Seq(S)
      /\ Len(r.index_content) <= MAX_INDEX_SIZE /\ Len(r.doc_content) <= MAX_DOC_SIZE
  BY DEF UpdateRequests
<1>2. b = IF r.flags = UPDATE_SPLIT THEN Cat(head, split) ELSE Cat(head, single)
  <2>1. b = (U8(r.op) \o U32(r.doc_id)) \o
              (IF r.flags = UPDATE_SPLIT
               THEN ((U8(UPDATE_WIRE_V1) \o U8(r.flags)) \o Long(r.index_content))
                      \o Long(r.doc_content)
               ELSE U8(UPDATE_WIRE_LEGACY_SINGLE) \o Long(r.doc_content))
    BY <1>1, Kinds DEF RequestBody
  <2> QED BY <2>1, Zenon DEF Cat
<1>3. b \in Seq(S) /\ ReadUpdate(r.client_id, b) = r
  <2>1. CASE r.flags = UPDATE_SPLIT
    <3>1. /\ Cat(head, split) \in Seq(S)
          /\ ReadUpdate(r.client_id, Cat(head, split)) =
               [client_id |-> r.client_id, type |-> UPDATE, op |-> r.op, doc_id |-> r.doc_id,
                flags |-> UPDATE_SPLIT, index_content |-> r.index_content,
                doc_content |-> r.doc_content]
      <4> SUFFICES ASSUME NEW id, NEW op \in Uint8, NEW doc_id \in Uint32,
                          NEW x \in Seq(S), Len(x) <= MAX_INDEX_SIZE,
                          NEW y \in Seq(S), Len(y) <= MAX_DOC_SIZE
                   PROVE  LET u == Cat(Cat(Cat(U8(UPDATE_WIRE_V1), U8(UPDATE_SPLIT)), Long(x)), Long(y))
                              v == Cat(Cat(U8(op), U32(doc_id)), u)
                          IN  /\ v \in Seq(S)
                              /\ ReadUpdate(id, v) =
                                   [client_id |-> id, type |-> UPDATE, op |-> op, doc_id |-> doc_id,
                                    flags |-> UPDATE_SPLIT, index_content |-> x, doc_content |-> y]
        BY <1>a, ZenonT(60)
      <4> QED BY SplitArrives
    <3>2. b = Cat(head, split)
      BY <1>2, <2>1, Zenon
    <3> HIDE DEF b, split, head
    <3> QED BY <1>1, <2>1, <3>1, <3>2, Zenon
  <2>2. CASE r.flags # UPDATE_SPLIT
    <3>0. r.flags = UPDATE_LEGACY /\ r.index_content = <<>>
      BY <1>1, <2>2, Zenon
    <3>1. /\ Cat(head, single) \in Seq(S)
          /\ ReadUpdate(r.client_id, Cat(head, single)) =
               [client_id |-> r.client_id, type |-> UPDATE, op |-> r.op, doc_id |-> r.doc_id,
                flags |-> UPDATE_LEGACY, index_content |-> <<>>, doc_content |-> r.doc_content]
      <4> SUFFICES ASSUME NEW id, NEW op \in Uint8, NEW doc_id \in Uint32,
                          NEW y \in Seq(S), Len(y) <= MAX_DOC_SIZE
                   PROVE  LET u == Cat(U8(UPDATE_WIRE_LEGACY_SINGLE), Long(y))
                              v == Cat(Cat(U8(op), U32(doc_id)), u)
                          IN  /\ v \in Seq(S)
                              /\ ReadUpdate(id, v) =
                                   [client_id |-> id, type |-> UPDATE, op |-> op, doc_id |-> doc_id,
                                    flags |-> UPDATE_LEGACY, index_content |-> <<>>, doc_content |-> y]
        BY <1>a, Zenon
      <4> QED BY SingleArrives, SMTT(60)
    <3>2. b = Cat(head, single)
      BY <1>2, <2>2, Zenon
    <3> HIDE DEF b, single, head
    <3> QED BY <1>1, <3>0, <3>1, <3>2, Zenon
  <2> QED BY <2>1, <2>2
<1>4. s[1] = r.client_id /\ ReadU32(Tail(s)) = UPDATE /\ ReadLong(Drop(s, 5)) = b
  BY <1>1, <1>3, Kinds, Delivered
<1> HIDE DEF s, b
<1>5. deserialize_encdb_request(s) = ReadUpdate(r.client_id, b)
  BY <1>4, Kinds DEF deserialize_encdb_request
<1> QED BY <1>3, <1>5, Zenon DEF Transported, s

LegalRequests(S) ==
  InitRequests(S) \cup ShutdownRequests \cup SelectRequests(S) \cup UpdateRequests(S)

(* A request of a client arrives at the enclave as it was sent: kind,      *)
(* numbers, and every keyword and content with its length, for contents of *)
(* every length the server takes, and for the keywords and programs there  *)
(* is room for in a SelectRequest: more is copied over what follows them   *)
(* (RPC.cpp, net.cpp, rpc.h).                                              *)
THEOREM RequestsArrive ==
  ASSUME NEW S, Uint8 \subseteq S, NEW r \in LegalRequests(S),
         Len(serialize_encdb_request(r)) \in Uint32
  PROVE  Transported(r) = r
<1>1. CASE r \in InitRequests(S)
  BY <1>1, InitTransported
<1>2. CASE r \in ShutdownRequests
  BY <1>2, ShutdownTransported
<1>3. CASE r \in SelectRequests(S)
  BY <1>3, SelectTransported
<1>4. CASE r \in UpdateRequests(S)
  BY <1>4, UpdateTransported
<1> QED BY <1>1, <1>2, <1>3, <1>4 DEF LegalRequests

LEMMA CutWhole ==
  ASSUME NEW S, NEW s \in Seq(S), NEW n \in Nat, Len(s) <= n
  PROVE  Cut(s, n) = s
<1>1. Len(s) \in {n, Len(s)} /\ \A y \in {n, Len(s)} : Len(s) <= y
  OBVIOUS
<1> DEFINE m == Min({n, Len(s)})
<1>2. m \in {n, Len(s)} /\ \A y \in {n, Len(s)} : m <= y
  BY <1>1, Zenon DEF Min
<1> HIDE DEF m
<1>3. m = Len(s)
  BY <1>1, <1>2
<1>4. Take(s, Len(s)) = s
  BY DEF Take
<1> QED BY <1>3, <1>4, Zenon DEF Cut, m

(* A request of the web gateway is written as a client writes it, and so   *)
(* arrives as it was sent (encdb_rpc.py).                                  *)
THEOREM GatewayRequestsArrive ==
  ASSUME NEW S, Uint8 \subseteq S, NEW r \in LegalRequests(S),
         Len(serialize_encdb_request(r)) \in Uint32
  PROVE  GatewayTransported(r) = r
<1>1. serialize_request(r) = serialize_encdb_request(r)
  <2>1. CASE r.type # UPDATE
    BY <2>1 DEF serialize_request
  <2>2. CASE r.type = UPDATE
    <3>1. r \in UpdateRequests(S)
      BY <2>2, Kinds DEF LegalRequests, InitRequests, ShutdownRequests, SelectRequests
    <3>2. /\ r.index_content \in Seq(S) /\ Len(r.index_content) <= MAX_INDEX_SIZE
          /\ r.doc_content \in Seq(S) /\ Len(r.doc_content) <= MAX_DOC_SIZE
      BY <3>1 DEF UpdateRequests
    <3>3. MAX_INDEX_SIZE \in Nat /\ MAX_DOC_SIZE \in Nat
      BY Caps DEF Uint32
    <3>4. /\ Cut(r.index_content, MAX_INDEX_SIZE) = r.index_content
          /\ Cut(r.doc_content, MAX_DOC_SIZE) = r.doc_content
      BY <3>2, <3>3, CutWhole
    <3>5. [r EXCEPT !.index_content = Cut(@, MAX_INDEX_SIZE),
                    !.doc_content = Cut(@, MAX_DOC_SIZE)] = r
      BY <3>1, <3>4 DEF UpdateRequests
    <3> QED BY <2>2, <3>5, Zenon DEF serialize_request
  <2> QED BY <2>1, <2>2
<1> QED BY <1>1, RequestsArrive, Zenon DEF GatewayTransported, Transported

-----------------------------------------------------------------------------
(* Responses.                                                              *)

LEMMA AnswerRead ==
  ASSUME NEW S, Uint8 \subseteq S, NEW status \in Uint32, NEW type \in Uint32, NEW body \in Seq(S)
  PROVE  LET s == Cat(Cat(U32(status), U32(type)), Long(body))
         IN  /\ s \in Seq(S) /\ Len(s) = 12 + Len(body)
             /\ ReadU32(s) = status /\ ReadU32(Drop(s, 4)) = type /\ Drop(s, 12) = body
<1> DEFINE a == U32(status)
           b == U32(type)
           c == U32(Len(body))
           s == Cat(Cat(a, b), Long(body))
<1>1. a \in Seq(S) /\ b \in Seq(S) /\ Long(body) \in Seq(S) /\ Len(Long(body)) = 4 + Len(body)
  BY LastU32, LongLength
<1>2. Len(a) = 4 /\ Len(b) = 4
  BY LastU32
<1>3. Cat(b, Long(body)) \in Seq(S) /\ Len(Cat(b, Long(body))) = 4 + Len(Long(body))
  BY <1>1, CatU32
<1>4. s = Cat(a, Cat(b, Long(body)))
  BY <1>1, CatAssoc
<1>5. ReadU32(s) = status /\ Drop(s, 4) = Cat(b, Long(body)) /\ s \in Seq(S)
      /\ Len(s) = 4 + Len(Cat(b, Long(body)))
  <2> SUFFICES ASSUME NEW x \in Seq(S)
               PROVE  /\ ReadU32(Cat(U32(status), x)) = status /\ Drop(Cat(U32(status), x), 4) = x
                      /\ Cat(U32(status), x) \in Seq(S) /\ Len(Cat(U32(status), x)) = 4 + Len(x)
    BY <1>3, <1>4, Zenon
  <2> QED BY CatU32
<1>6. ReadU32(Cat(b, Long(body))) = type
  <2> SUFFICES ASSUME NEW x \in Seq(S) PROVE ReadU32(Cat(U32(type), x)) = type
    BY <1>1
  <2> QED BY CatU32
<1>7. Drop(s, 12) = body
  <2> DEFINE p == Cat(Cat(a, b), c)
  <2>1. U32(Len(body)) \in Seq(S) /\ Len(U32(Len(body))) = 4
    <3>1. \A m \in Nat : m % 256 \in Uint8
      BY SMT DEF Uint8
    <3> SUFFICES ASSUME NEW n \in Nat PROVE U32(n) \in Seq(S) /\ Len(U32(n)) = 4
      OBVIOUS
    <3>2. n \div 256 \in Nat /\ n \div 65536 \in Nat /\ n \div 16777216 \in Nat
      BY SMT
    <3> QED BY <3>1, <3>2 DEF U32
  <2>2. c \in Seq(S) /\ Len(c) = 4
    BY <2>1, Zenon
  <2>3. Long(body) = Cat(c, body)
    BY Zenon DEF Long, Cat
  <2> HIDE DEF a, b, c
  <2>a. \A x, y \in Seq(S) : Cat(x, y) \in Seq(S) /\ Len(Cat(x, y)) = Len(x) + Len(y)
    BY CatSeq
  <2>4. Cat(a, b) \in Seq(S) /\ Len(Cat(a, b)) = 8
    <3>1. Cat(a, b) \in Seq(S) /\ Len(Cat(a, b)) = Len(a) + Len(b)
      BY <1>1, <2>a, Zenon
    <3> QED BY <1>2, <3>1
  <2>5. p \in Seq(S) /\ Len(p) = 12
    <3>1. p \in Seq(S) /\ Len(p) = Len(Cat(a, b)) + Len(c)
      BY <2>2, <2>4, <2>a, Zenon
    <3> QED BY <2>2, <2>4, <3>1
  <2>6. Cat(Cat(a, b), Cat(c, body)) = Cat(p, body)
    BY <2>2, <2>4, CatAssoc
  <2> HIDE DEF p
  <2>7. Drop(Cat(p, body), 12) = body
    <3> SUFFICES ASSUME NEW q \in Seq(S) PROVE Drop(Cat(q, body), Len(q)) = body
      BY <2>5
    <3> QED BY Parts DEF Cat
  <2> QED BY <2>3, <2>6, <2>7, Zenon
<1>8. Len(s) = 12 + Len(body)
  <2> HIDE DEF s
  <2>1. Len(s) = 4 + (4 + (4 + Len(body)))
    BY <1>1, <1>3, <1>5, Zenon
  <2> QED BY <2>1
<1> QED BY <1>5, <1>6, <1>7, <1>8, Zenon

AllLong(ss, S, n, l) == \A i \in 1..n : ss[i] \in Seq(S) /\ Len(ss[i]) = l
LongBy(g, S, n, l) == \A i \in 0..n : g[i] \in Seq(S) /\ Len(g[i]) = l * i

LEMMA PartLength ==
  ASSUME NEW S, NEW n \in Nat, NEW l \in {2, 4}, NEW ss, AllLong(ss, S, n, l),
         NEW g, PartsOf(g, S, ss, n)
  PROVE  LongBy(g, S, n, l)
<1> SUFFICES \A i \in 0..n : g[i] \in Seq(S) /\ Len(g[i]) = l * i
  BY DEF LongBy
<1>0. \A i \in 1..n : ss[i] \in Seq(S) /\ Len(ss[i]) = l
  BY DEF AllLong
<1>1. \A i \in 0..n : g[i] \in Seq(S)
  BY DEF PartsOf
<1>2. Len(g[0]) = 0
  BY DEF PartsOf
<1>3. \A i \in 1..n : Len(g[i]) = Len(g[i - 1]) + l
  <2> TAKE i \in 1..n
  <2>1. g[i] = g[i - 1] \o ss[i] /\ g[i - 1] \in Seq(S) /\ ss[i] \in Seq(S) /\ Len(ss[i]) = l
    <3>1. i \in 0..n /\ i - 1 \in 0..n
      OBVIOUS
    <3>2. g[i] = g[i - 1] \o ss[i]
      BY Zenon DEF PartsOf
    <3> QED BY <1>0, <1>1, <3>1, <3>2
  <2>2. Len(g[i]) = Len(g[i - 1]) + Len(ss[i])
    <3> SUFFICES ASSUME NEW s \in Seq(S), NEW t \in Seq(S) PROVE Len(s \o t) = Len(s) + Len(t)
      BY <2>1, Zenon
    <3> QED BY Joined
  <2> QED BY <2>1, <2>2
<1> DEFINE Bad == {i \in 0..n : Len(g[i]) # l * i}
<1> SUFFICES ASSUME Bad # {} PROVE FALSE
  BY <1>1
<1>4. Bad \subseteq Nat
  OBVIOUS
<1> HIDE DEF Bad
<1>5. PICK m \in Bad : \A k \in Bad : m <= k
  BY <1>4, LeastNumber
<1>6. m \in 0..n /\ Len(g[m]) # l * m
  BY <1>5 DEF Bad
<1>7. m # 0
  BY <1>2, <1>6
<1>8. m - 1 \in 0..n /\ ~(m <= m - 1) /\ m \in 1..n
  BY <1>6, <1>7
<1>9. Len(g[m - 1]) = l * (m - 1)
  BY <1>5, <1>8 DEF Bad
<1>10. Len(g[m]) = l * (m - 1) + l
  BY <1>3, <1>8, <1>9
<1>11. l * (m - 1) + l = l * m
  <2>1. CASE l = 2
    BY <1>6, <2>1
  <2>2. CASE l = 4
    BY <1>6, <2>2
  <2> QED BY <2>1, <2>2
<1> QED BY <1>6, <1>10, <1>11

LEMMA CatParts ==
  ASSUME NEW S, NEW p \in Seq(S), NEW y \in Seq(S)
  PROVE  /\ Drop(Cat(p, y), Len(p)) = y
         /\ \A i \in 1..Len(y) : Cat(p, y)[Len(p) + i] = y[i]
BY Parts, Joined DEF Cat

(* Numbers, and behind all of them as many contents.                       *)
SelectResultBody(ids, contents) ==
  Cat(Cat(U32(Len(ids)), FlattenSeq([i \in DOMAIN ids |-> U32(ids[i])])), contents)

LEMMA SelectResultRead ==
  ASSUME NEW S, Uint8 \subseteq S, NEW ids \in Seq(Uint32), Len(ids) \in Uint32,
         NEW contents \in Seq(S), Len(contents) = Len(ids)
  PROVE  LET b == SelectResultBody(ids, contents)
             n == Len(ids)
         IN  /\ b \in Seq(S) /\ ReadU32(b) = n /\ Len(b) = 4 + 5 * n
             /\ \A i \in 1..n : ReadU32(Drop(b, 4 * i)) = ids[i] /\ b[4 + 4 * n + i] = contents[i]
<1> DEFINE n == Len(ids)
           w == U32(n)
           ss == [i \in DOMAIN ids |-> U32(ids[i])]
           flat == FlattenSeq(ss)
           b == Cat(Cat(w, flat), contents)
<1>1. n \in Nat /\ DOMAIN ids = 1..n /\ \A i \in 1..n : ids[i] \in Uint32
  OBVIOUS
<1>2. w \in Seq(S) /\ Len(w) = 4 /\ n \in Uint32
  BY LastU32
<1>3. \A i \in 1..n : U32(ids[i]) \in Seq(S) /\ Len(U32(ids[i])) = 4
  BY <1>1, LastU32
<1>4. ss \in Seq(Seq(S)) /\ Len(ss) = n /\ \A i \in 1..n : ss[i] = U32(ids[i])
  BY <1>1, <1>3
<1> HIDE DEF ss
<1>5. \A i \in 1..n : ss[i] \in Seq(S) /\ Len(ss[i]) = 4
  BY <1>3, <1>4
<1>6. PICK g : PartsOf(g, S, ss, n) /\ flat = g[n]
  BY <1>4, FlattenParts
<1>7. \A i \in 0..n : g[i] \in Seq(S) /\ Len(g[i]) = 4 * i
  <2>1. n \in Nat /\ PartsOf(g, S, ss, n)
    BY <1>1, <1>6
  <2> HIDE DEF n
  <2>2. AllLong(ss, S, n, 4)
    BY <1>5 DEF AllLong
  <2>3. LongBy(g, S, n, 4)
    BY <2>1, <2>2, PartLength, Zenon
  <2> QED BY <2>3 DEF LongBy
<1>8. flat \in Seq(S) /\ Len(flat) = 4 * n
  BY <1>1, <1>6, <1>7
<1> HIDE DEF w, flat
<1>9. b = Cat(w, Cat(flat, contents)) /\ Cat(flat, contents) \in Seq(S)
  <2> SUFFICES ASSUME NEW x \in Seq(S), NEW y \in Seq(S), NEW z \in Seq(S)
               PROVE  Cat(Cat(x, y), z) = Cat(x, Cat(y, z)) /\ Cat(y, z) \in Seq(S)
    BY <1>2, <1>8
  <2> QED BY CatAssoc, CatSeq
<1>10. b \in Seq(S) /\ ReadU32(b) = n
  <2> SUFFICES ASSUME NEW v \in Uint32, NEW x \in Seq(S)
               PROVE  Cat(U32(v), x) \in Seq(S) /\ ReadU32(Cat(U32(v), x)) = v
    BY <1>2, <1>9, Zenon DEF w
  <2> QED BY CatU32
<1>11. \A i \in 1..n : b[4 + 4 * n + i] = contents[i]
  <2> DEFINE p == Cat(w, flat)
  <2>1. p \in Seq(S) /\ Len(p) = 4 + 4 * n
    <3>1. p \in Seq(S) /\ Len(p) = Len(w) + Len(flat)
      <4> SUFFICES ASSUME NEW x \in Seq(S), NEW y \in Seq(S)
                   PROVE  Cat(x, y) \in Seq(S) /\ Len(Cat(x, y)) = Len(x) + Len(y)
        BY <1>2, <1>8, Zenon
      <4> QED BY CatSeq
    <3> QED BY <1>2, <1>8, <3>1
  <2> HIDE DEF p
  <2>2. \A i \in 1..Len(contents) : Cat(p, contents)[Len(p) + i] = contents[i]
    <3> SUFFICES ASSUME NEW q \in Seq(S)
                 PROVE  \A i \in 1..Len(contents) : Cat(q, contents)[Len(q) + i] = contents[i]
      BY <2>1
    <3> QED BY CatParts
  <2>3. \A i \in 1..n : Cat(p, contents)[4 + 4 * n + i] = contents[i]
    BY <2>1, <2>2
  <2> QED BY <2>3, Zenon DEF p
<1>12. \A i \in 1..n : ReadU32(Drop(b, 4 * i)) = ids[i]
  <2> TAKE i \in 1..n
  <2>1. PICK x : /\ Behind(S, flat \o contents, g[i - 1], ss[i] \o x)
                 /\ Behind(S, flat \o contents, g[i], x)
    <3> SUFFICES ASSUME NEW all, all = flat \o contents
                 PROVE  \E x : Behind(S, all, g[i - 1], ss[i] \o x) /\ Behind(S, all, g[i], x)
      BY Zenon
    <3>1. all = g[n] \o contents
      BY <1>6, Zenon DEF flat
    <3> HIDE DEF n
    <3> QED BY <1>1, <1>5, <1>6, <3>1, RestOf
  <2> DEFINE y == Cat(ss[i], x)
             p == Cat(w, g[i - 1])
  <2>2. y \in Seq(S) /\ x \in Seq(S) /\ Cat(flat, contents) = Cat(g[i - 1], y)
    BY <2>1, Zenon DEF Behind, Cat
  <2>3. i - 1 \in 0..n /\ 4 + 4 * (i - 1) = 4 * i
    BY <1>1
  <2>4. g[i - 1] \in Seq(S) /\ Len(g[i - 1]) = 4 * (i - 1)
    BY <1>7, <2>3
  <2>5. p \in Seq(S) /\ Len(p) = 4 * i
    <3>1. p \in Seq(S) /\ Len(p) = Len(w) + Len(g[i - 1])
      <4> SUFFICES ASSUME NEW s \in Seq(S), NEW t \in Seq(S)
                   PROVE  Cat(s, t) \in Seq(S) /\ Len(Cat(s, t)) = Len(s) + Len(t)
        BY <1>2, <2>4, Zenon
      <4> QED BY CatSeq
    <3> QED BY <1>2, <2>3, <2>4, <3>1
  <2>6. ReadU32(y) = ids[i]
    <3> SUFFICES ASSUME NEW v \in Uint32, NEW t \in Seq(S) PROVE ReadU32(Cat(U32(v), t)) = v
      BY <1>1, <1>4, <2>2, Zenon
    <3> QED BY CatU32
  <2> HIDE DEF y
  <2>7. b = Cat(p, y)
    <3>1. b = Cat(w, Cat(g[i - 1], y))
      BY <1>9, <2>2, Zenon
    <3> SUFFICES ASSUME NEW s \in Seq(S), NEW t \in Seq(S), NEW u \in Seq(S)
                 PROVE  Cat(Cat(s, t), u) = Cat(s, Cat(t, u))
      BY <1>2, <2>2, <2>4, <3>1
    <3> QED BY CatAssoc
  <2> HIDE DEF p, b
  <2>8. Drop(Cat(p, y), Len(p)) = y
    <3> SUFFICES ASSUME NEW s \in Seq(S), NEW t \in Seq(S) PROVE Drop(Cat(s, t), Len(s)) = t
      BY <2>2, <2>5
    <3> QED BY CatParts
  <2> QED BY <2>5, <2>6, <2>7, <2>8, Zenon
<1>13. Len(b) = 4 + 5 * n
  <2> DEFINE c == Cat(flat, contents)
  <2>1. Len(c) = Len(flat) + Len(contents)
    <3> SUFFICES ASSUME NEW x \in Seq(S), NEW y \in Seq(S) PROVE Len(Cat(x, y)) = Len(x) + Len(y)
      BY <1>8
    <3> QED BY CatSeq
  <2>2. b = Cat(w, c) /\ c \in Seq(S)
    BY <1>9, Zenon
  <2> HIDE DEF b, c
  <2>3. Len(b) = Len(w) + Len(c)
    <3> SUFFICES ASSUME NEW x \in Seq(S), NEW y \in Seq(S) PROVE Len(Cat(x, y)) = Len(x) + Len(y)
      BY <1>2, <2>2
    <3> QED BY CatSeq
  <2> QED BY <1>1, <1>2, <1>8, <2>1, <2>3
<1> QED BY <1>10, <1>11, <1>12, <1>13, Zenon DEF SelectResultBody, b, w, flat, ss

(* The answers there are; the server bounds the number of documents.       *)
InitResponses == [status : Uint32, type : {INIT_RESULT}, edb_id : Uint8]
UpdateResponses ==
  [status : Uint32, type : {UPDATE_RESULT}, success : Uint32, doc_id : Uint32]
ShutdownResponses == [status : Uint32, type : {SHUTDOWN_RESULT}, success : Uint8]
SelectResponses(S) ==
  {r \in [status : Uint32, type : {SELECT_RESULT}, doc_ids : Seq(Uint32), doc_contents : Seq(S)] :
     Len(r.doc_ids) <= MAX_RESULT_DOCS /\ Len(r.doc_contents) = Len(r.doc_ids)}
Responses(S) ==
  InitResponses \cup UpdateResponses \cup ShutdownResponses \cup SelectResponses(S)

LEMMA ResultKinds ==
  /\ INIT_RESULT \in Uint32 /\ SELECT_RESULT \in Uint32
  /\ UPDATE_RESULT \in Uint32 /\ SHUTDOWN_RESULT \in Uint32
  /\ INIT_RESULT # SELECT_RESULT /\ INIT_RESULT # UPDATE_RESULT /\ INIT_RESULT # SHUTDOWN_RESULT
  /\ SELECT_RESULT # UPDATE_RESULT /\ SELECT_RESULT # SHUTDOWN_RESULT
  /\ UPDATE_RESULT # SHUTDOWN_RESULT
BY SMT DEF INIT_RESULT, SELECT_RESULT, UPDATE_RESULT, SHUTDOWN_RESULT, Uint32

(* Status, kind and body of a response of which all is received.           *)
LEMMA ResponseDelivered ==
  ASSUME NEW S, Uint8 \subseteq S, NEW r, r.status \in Uint32, r.type \in Uint32,
         ResponseBody(r) \in Seq(S), Len(serialize_encdb_response(r)) \in Uint32
  PROVE  LET s == recv_buffer(send_buffer(serialize_encdb_response(r)))
         IN  /\ ReadU32(s) = r.status /\ ReadU32(Drop(s, 4)) = r.type
             /\ Drop(s, 12) = ResponseBody(r)
<1> DEFINE status == r.status
           type == r.type
           body == ResponseBody(r)
           s == Cat(Cat(U32(status), U32(type)), Long(body))
<1>1. serialize_encdb_response(r) = s
  BY Zenon DEF serialize_encdb_response, Cat
<1>2. status \in Uint32 /\ type \in Uint32 /\ body \in Seq(S)
  OBVIOUS
<1> HIDE DEF status, type, body
<1>3. /\ s \in Seq(S) /\ ReadU32(s) = status /\ ReadU32(Drop(s, 4)) = type /\ Drop(s, 12) = body
  BY <1>2, AnswerRead
<1> HIDE DEF s
<1>4. Len(s) \in Uint32
  BY <1>1, Zenon
<1>5. recv_buffer(send_buffer(s)) = s
  BY <1>3, <1>4, Framing
<1> QED BY <1>1, <1>3, <1>5, Zenon DEF status, type, body

(* An answer of the enclave arrives as it was given: status, kind, all     *)
(* numbers, and every document behind its own number (RPC.cpp, net.cpp).   *)
THEOREM ResponsesArrive ==
  ASSUME NEW S, Uint8 \subseteq S, NEW r \in Responses(S),
         Len(serialize_encdb_response(r)) \in Uint32
  PROVE  Answered(r) = r /\ GatewayAnswered(r) = r
<1> DEFINE s == recv_buffer(send_buffer(serialize_encdb_response(r)))
           b == ResponseBody(r)
<1>0. b \in Seq(S) /\ r.status \in Uint32 /\ r.type \in Uint32 =>
        ReadU32(s) = r.status /\ ReadU32(Drop(s, 4)) = r.type /\ Drop(s, 12) = b
  BY ResponseDelivered
<1>a. Answered(r) = deserialize_encdb_response(s) /\ GatewayAnswered(r) = deserialize_response(s)
  BY Zenon DEF Answered, GatewayAnswered
<1> HIDE DEF s, b
<1>1. CASE r \in InitResponses
  <2>1. /\ r = [status |-> r.status, type |-> INIT_RESULT, edb_id |-> r.edb_id]
        /\ r.status \in Uint32 /\ r.type = INIT_RESULT /\ r.edb_id \in Uint8
    BY <1>1 DEF InitResponses
  <2>2. b = U8(r.edb_id)
    BY <2>1, ResultKinds DEF ResponseBody, b
  <2>3. b \in Seq(S) /\ b[1] = r.edb_id
    BY <2>1, <2>2, LastByte
  <2>4. ReadU32(s) = r.status /\ ReadU32(Drop(s, 4)) = INIT_RESULT /\ Drop(s, 12) = b
    BY <1>0, <2>1, <2>3, ResultKinds
  <2>5. deserialize_encdb_response(s) = [status |-> r.status, type |-> INIT_RESULT, edb_id |-> b[1]]
    BY <2>4, ResultKinds DEF deserialize_encdb_response
  <2>6. deserialize_response(s) = deserialize_encdb_response(s)
    BY <2>4, ResultKinds DEF deserialize_response
  <2> QED BY <1>a, <2>1, <2>3, <2>5, <2>6, Zenon
<1>2. CASE r \in UpdateResponses
  <2>1. /\ r = [status |-> r.status, type |-> UPDATE_RESULT, success |-> r.success,
                doc_id |-> r.doc_id]
        /\ r.status \in Uint32 /\ r.type = UPDATE_RESULT
        /\ r.success \in Uint32 /\ r.doc_id \in Uint32
    BY <1>2 DEF UpdateResponses
  <2>2. b = Cat(U32(r.success), U32(r.doc_id))
    BY <2>1, ResultKinds DEF ResponseBody, b, Cat
  <2>3. b \in Seq(S) /\ ReadU32(b) = r.success /\ ReadU32(Drop(b, 4)) = r.doc_id
    <3>1. U32(r.doc_id) \in Seq(S) /\ ReadU32(U32(r.doc_id)) = r.doc_id
      BY <2>1, LastU32
    <3>2. b \in Seq(S) /\ ReadU32(b) = r.success /\ Drop(b, 4) = U32(r.doc_id)
      <4> SUFFICES ASSUME NEW v \in Uint32, NEW x \in Seq(S)
                   PROVE  /\ Cat(U32(v), x) \in Seq(S) /\ ReadU32(Cat(U32(v), x)) = v
                          /\ Drop(Cat(U32(v), x), 4) = x
        BY <2>1, <2>2, <3>1, Zenon
      <4> QED BY CatU32
    <3> QED BY <3>1, <3>2, Zenon
  <2>4. ReadU32(s) = r.status /\ ReadU32(Drop(s, 4)) = UPDATE_RESULT /\ Drop(s, 12) = b
    BY <1>0, <2>1, <2>3, ResultKinds
  <2>5. deserialize_encdb_response(s) =
          [status |-> r.status, type |-> UPDATE_RESULT, success |-> ReadU32(b),
           doc_id |-> ReadU32(Drop(b, 4))]
    BY <2>4, ResultKinds DEF deserialize_encdb_response
  <2>6. deserialize_response(s) = deserialize_encdb_response(s)
    BY <2>4, ResultKinds DEF deserialize_response
  <2> QED BY <1>a, <2>1, <2>3, <2>5, <2>6, Zenon
<1>3. CASE r \in ShutdownResponses
  <2>1. /\ r = [status |-> r.status, type |-> SHUTDOWN_RESULT, success |-> r.success]
        /\ r.status \in Uint32 /\ r.type = SHUTDOWN_RESULT /\ r.success \in Uint8
    BY <1>3 DEF ShutdownResponses
  <2>2. b = U8(r.success)
    BY <2>1, ResultKinds DEF ResponseBody, b
  <2>3. b \in Seq(S) /\ b[1] = r.success
    BY <2>1, <2>2, LastByte
  <2>4. ReadU32(s) = r.status /\ ReadU32(Drop(s, 4)) = SHUTDOWN_RESULT /\ Drop(s, 12) = b
    BY <1>0, <2>1, <2>3, ResultKinds
  <2>5. deserialize_encdb_response(s) =
          [status |-> r.status, type |-> SHUTDOWN_RESULT, success |-> b[1]]
    BY <2>4, ResultKinds DEF deserialize_encdb_response
  <2>6. deserialize_response(s) = deserialize_encdb_response(s)
    BY <2>4, ResultKinds DEF deserialize_response
  <2> QED BY <1>a, <2>1, <2>3, <2>5, <2>6, Zenon
<1>4. CASE r \in SelectResponses(S)
  <2> DEFINE n == Len(r.doc_ids)
             read == [status |-> r.status, type |-> SELECT_RESULT,
                      doc_ids |-> [i \in 1..n |-> ReadU32(Drop(b, 4 * i))],
                      doc_contents |-> [i \in 1..n |-> b[4 + 4 * n + i]]]
  <2>1. /\ r = [status |-> r.status, type |-> SELECT_RESULT, doc_ids |-> r.doc_ids,
                doc_contents |-> r.doc_contents]
        /\ r.status \in Uint32 /\ r.type = SELECT_RESULT
    BY <1>4 DEF SelectResponses
  <2>2. /\ r.doc_ids \in Seq(Uint32) /\ r.doc_contents \in Seq(S)
        /\ n <= MAX_RESULT_DOCS /\ Len(r.doc_contents) = n
    BY <1>4 DEF SelectResponses
  <2>3. n \in Uint32 /\ n \in Nat /\ MAX_RESULT_DOCS \in Nat
    <3>1. MAX_RESULT_DOCS \in Uint32 /\ n \in Uint32
      BY <2>2, Caps, LengthFits
    <3> HIDE DEF n
    <3> QED BY <3>1 DEF Uint32
  <2>4. b = SelectResultBody(r.doc_ids, r.doc_contents)
    <3>1. b = (U32(Len(r.doc_ids)) \o FlattenSeq([i \in DOMAIN r.doc_ids |-> U32(r.doc_ids[i])]))
                \o r.doc_contents
      BY <2>1, ResultKinds DEF ResponseBody, b
    <3> QED BY <3>1, Zenon DEF Cat, SelectResultBody
  <2>5. /\ b \in Seq(S) /\ ReadU32(b) = n
        /\ \A i \in 1..n : ReadU32(Drop(b, 4 * i)) = r.doc_ids[i]
                             /\ b[4 + 4 * n + i] = r.doc_contents[i]
    <3> SUFFICES ASSUME NEW ids \in Seq(Uint32), Len(ids) \in Uint32,
                        NEW contents \in Seq(S), Len(contents) = Len(ids)
                 PROVE  LET c == SelectResultBody(ids, contents)
                            m == Len(ids)
                        IN  /\ c \in Seq(S) /\ ReadU32(c) = m
                            /\ \A i \in 1..m : ReadU32(Drop(c, 4 * i)) = ids[i]
                                                 /\ c[4 + 4 * m + i] = contents[i]
      BY <2>2, <2>3, <2>4, Zenon
    <3> QED BY SelectResultRead
  <2>6. ReadU32(s) = r.status /\ ReadU32(Drop(s, 4)) = SELECT_RESULT /\ Drop(s, 12) = b
    BY <1>0, <2>1, <2>5, ResultKinds
  <2>7. read = r
    <3>1. \A f \in Seq(Uint32) : f = [i \in 1..Len(f) |-> f[i]]
      OBVIOUS
    <3>2. \A f \in Seq(S) : f = [i \in 1..Len(f) |-> f[i]]
      OBVIOUS
    <3>3. [i \in 1..n |-> ReadU32(Drop(b, 4 * i))] = r.doc_ids
      <4>1. [i \in 1..n |-> ReadU32(Drop(b, 4 * i))] = [i \in 1..n |-> r.doc_ids[i]]
        BY <2>5
      <4> QED BY <2>2, <3>1, <4>1, Zenon
    <3>4. [i \in 1..n |-> b[4 + 4 * n + i]] = r.doc_contents
      <4>1. [i \in 1..n |-> b[4 + 4 * n + i]] = [i \in 1..n |-> r.doc_contents[i]]
        BY <2>5
      <4> QED BY <2>2, <3>2, <4>1, Zenon
    <3> QED BY <2>1, <3>3, <3>4, Zenon
  <2>8. deserialize_response(s) = read
    <3> HIDE DEF n
    <3> QED BY <2>5, <2>6 DEF deserialize_response
  <2>9. deserialize_encdb_response(s) = [ReadSelectResult(b) EXCEPT !.status = r.status]
    BY <2>6, ResultKinds DEF deserialize_encdb_response
  <2>10. ReadSelectResult(b) = [read EXCEPT !.status = OK]
    <3> HIDE DEF n
    <3>1. ~(n > MAX_RESULT_DOCS)
      BY <2>2, <2>3
    <3> DEFINE got == [status |-> OK, type |-> SELECT_RESULT,
                       doc_ids |-> [i \in 1..n |-> ReadU32(Drop(b, 4 * i))],
                       doc_contents |-> [i \in 1..n |-> b[4 + 4 * n + i]]]
    <3>2. ReadSelectResult(b) = got
      BY <2>5, <3>1, Zenon DEF ReadSelectResult
    <3>3. [read EXCEPT !.status = OK] = got
      <4> SUFFICES ASSUME NEW x, NEW y, NEW v
                   PROVE  [[status |-> v, type |-> SELECT_RESULT, doc_ids |-> x, doc_contents |-> y]
                             EXCEPT !.status = OK] =
                          [status |-> OK, type |-> SELECT_RESULT, doc_ids |-> x, doc_contents |-> y]
        BY Zenon
      <4> QED OBVIOUS
    <3> QED BY <3>2, <3>3, Zenon
  <2>11. deserialize_encdb_response(s) = read
    BY <2>9, <2>10
  <2> QED BY <1>a, <2>7, <2>8, <2>11, Zenon
<1> QED BY <1>1, <1>2, <1>3, <1>4 DEF Responses

-----------------------------------------------------------------------------
(* Stored documents.                                                       *)

LEMMA Greatest ==
  ASSUME NEW n \in Nat, NEW I, I \subseteq 0..n, I # {}
  PROVE  Max(I) \in I /\ \A i \in I : i <= Max(I)
<1> DEFINE J == {n - i : i \in I}
<1>1. J \subseteq Nat /\ J # {}
  <2>1. \A i \in I : n - i \in Nat
    <3> TAKE i \in I
    <3>1. i \in 0..n
      OBVIOUS
    <3> QED BY <3>1
  <2>2. J # {}
    <3>1. PICK i \in I : TRUE
      OBVIOUS
    <3>2. n - i \in J
      OBVIOUS
    <3> QED BY <3>2, Zenon
  <2> QED BY <2>1, <2>2
<1>2. PICK j \in J : \A k \in J : j <= k
  <2> HIDE DEF J
  <2> QED BY <1>1, LeastNumber
<1>3. PICK m \in I : j = n - m
  BY <1>2
<1>4. \A i \in I : i <= m
  <2> TAKE i \in I
  <2>1. n - i \in J
    OBVIOUS
  <2>2. j <= n - i
    BY <1>2, <2>1
  <2>3. i \in 0..n /\ m \in 0..n
    OBVIOUS
  <2> QED BY <1>3, <2>2, <2>3
<1>5. \E x \in I : \A y \in I : y <= x
  BY <1>4
<1>6. Max(I) = CHOOSE x \in I : \A y \in I : x >= y
  BY Zenon DEF Max
<1>7. \E x \in I : \A y \in I : x >= y
  BY <1>4
<1>8. Max(I) \in I /\ \A y \in I : Max(I) >= y
  BY <1>6, <1>7, Zenon
<1>9. \A i \in I : i \in Nat
  OBVIOUS
<1> QED BY <1>8, <1>9

(* Where the last cell is that is not zero, or 0.                          *)
Full(s) == {i \in 1..Len(s) : s[i] # NUL}

LEMMA TrimmedAt ==
  ASSUME NEW s
  PROVE  trim_trailing_null(s) = Take(s, IF Full(s) # {} THEN Max(Full(s)) ELSE 0)
BY Zenon DEF trim_trailing_null, SelectLastInSeq, Full

LEMMA TrimResult ==
  ASSUME NEW S, NEW s \in Seq(S)
  PROVE  LET t == trim_trailing_null(s)
         IN  /\ t \in Seq(S) /\ Len(t) <= Len(s)
             /\ t # <<>> => t[Len(t)] # NUL
<1> DEFINE m == IF Full(s) # {} THEN Max(Full(s)) ELSE 0
<1>1. Full(s) # {} => Max(Full(s)) \in Full(s)
  <2>1. Full(s) \subseteq 0..Len(s) /\ Len(s) \in Nat
    BY DEF Full
  <2> QED BY <2>1, Greatest
<1>2. m = 0 \/ (m \in 1..Len(s) /\ s[m] # NUL)
  BY <1>1 DEF Full
<1> HIDE DEF m
<1>3. LET t == SubSeq(s, 1, m)
      IN  /\ t \in Seq(S) /\ Len(t) <= Len(s)
          /\ t # <<>> => t[Len(t)] # NUL
  <2>1. CASE m = 0
    BY <2>1
  <2>2. CASE m # 0
    BY <1>2, <2>2
  <2> QED BY <2>1, <2>2
<1> QED BY <1>3, TrimmedAt DEF Take, m

LEMMA TrimTwice ==
  ASSUME NEW S, NEW s \in Seq(S), s # <<>> => s[Len(s)] # NUL
  PROVE  trim_trailing_null(s) = s
<1>0. Len(s) \in Nat /\ Full(s) \subseteq 0..Len(s)
  BY DEF Full
<1>1. CASE s = <<>>
  <2>1. Full(s) = {}
    BY <1>1 DEF Full
  <2>2. Take(s, 0) = s
    BY <1>1 DEF Take
  <2> QED BY <2>1, <2>2, TrimmedAt
<1>2. CASE s # <<>>
  <2>1. Len(s) \in 1..Len(s)
    BY <1>2
  <2>2. Len(s) \in Full(s)
    BY <1>2, <2>1 DEF Full
  <2>3. Max(Full(s)) \in 0..Len(s) /\ Len(s) <= Max(Full(s))
    BY <1>0, <2>2, Greatest
  <2>4. Max(Full(s)) = Len(s)
    BY <1>0, <2>3
  <2>5. Take(s, Len(s)) = s
    BY DEF Take
  <2> QED BY <2>2, <2>4, <2>5, TrimmedAt
<1> QED BY <1>1, <1>2

(* Padding fills up a plain text, which stays in front.                    *)
LEMMA PaddedIs ==
  ASSUME NEW S, NEW s \in Seq(S), NEW cell \in S, MAX_FILE_SIZE \in Nat
  PROVE  \E p \in Seq(S) : Padded(s, cell) = Cat(s, p)
<1> DEFINE p == [i \in 1..(MAX_FILE_SIZE - Len(s)) |-> cell]
<1>1. p \in Seq(S)
  <2>1. MAX_FILE_SIZE - Len(s) \in Int
    OBVIOUS
  <2> SUFFICES ASSUME NEW k \in Int PROVE [i \in 1..k |-> cell] \in Seq(S)
    BY <2>1
  <2>2. CASE k \in Nat
    BY <2>2
  <2>3. CASE k \notin Nat
    <3>1. 1..k = 1..0
      BY <2>3
    <3>2. [i \in 1..0 |-> cell] \in Seq(S)
      OBVIOUS
    <3> QED BY <3>1, <3>2
  <2> QED BY <2>2, <2>3
<1>2. Padded(s, cell) = Cat(s, p)
  BY Zenon DEF Padded, Cat
<1> HIDE DEF p
<1> QED BY <1>1, <1>2, Zenon

(* Index and body are read with anything behind them.                      *)
LEMMA FieldsRead ==
  ASSUME NEW S, Uint8 \subseteq S, NEW a \in Seq(S), Len(a) \in Uint32,
         NEW b \in Seq(S), Len(b) \in Uint32, NEW p \in Seq(S), NEW plain, NEW v
  PROVE  LET s == Cat(Long(a), Cat(Long(b), p))
         IN  /\ s \in Seq(S)
             /\ Fields(plain, s, v) = [slot_version |-> v, index |-> a, body |-> b]
<1> DEFINE t == Cat(Long(b), p)
           s == Cat(Long(a), t)
<1>1. /\ t \in Seq(S) /\ Len(t) = 4 + Len(b) + Len(p)
      /\ ReadU32(t) = Len(b) /\ ReadLong(t) = b
  BY CatLong
<1> HIDE DEF t
<1>2. /\ s \in Seq(S) /\ Len(s) = 4 + Len(a) + Len(t)
      /\ ReadU32(s) = Len(a) /\ ReadLong(s) = a /\ AfterLong(s) = t
  BY <1>1, CatLong
<1> HIDE DEF s
<1>3. ~(Len(s) < 8 \/ 4 + ReadU32(s) > Len(s))
  BY <1>1, <1>2
<1>4. ~(Len(t) < 4 \/ 4 + ReadU32(t) > Len(t))
  BY <1>1
<1>5. Fields(plain, s, v) = [slot_version |-> v, index |-> a, body |-> b]
  BY <1>1, <1>2, <1>3, <1>4, Zenon DEF Fields
<1> QED BY <1>2, <1>5, Zenon DEF s, t

LEMMA Magics ==
  /\ DOC_BUNDLE_MAGIC_V1 \in Uint8 /\ DOC_BUNDLE_MAGIC_V2 \in Uint8
  /\ DOC_BUNDLE_MAGIC_LEGACY \in Uint8
  /\ DOC_BUNDLE_MAGIC_V2 # DOC_BUNDLE_MAGIC_V1 /\ DOC_BUNDLE_MAGIC_V2 # DOC_BUNDLE_MAGIC_LEGACY
  /\ DOC_BUNDLE_MAGIC_V1 # DOC_BUNDLE_MAGIC_LEGACY
BY SMT DEF DOC_BUNDLE_MAGIC_V1, DOC_BUNDLE_MAGIC_V2, DOC_BUNDLE_MAGIC_LEGACY, Uint8

(* What is written of a document, before padding.                          *)
BundleV2(a, b, v) == Cat(Cat(Cat(U8(DOC_BUNDLE_MAGIC_V2), U32(v)), Long(a)), Long(b))
BundleV1(a, b) == Cat(Cat(U8(DOC_BUNDLE_MAGIC_V1), Long(a)), Long(b))

LEMMA FileSize == MAX_FILE_SIZE \in Uint32 /\ MAX_FILE_SIZE \in Nat /\ 13 <= MAX_FILE_SIZE
BY BundlesAssumption DEF Uint32

LEMMA BundleLength ==
  ASSUME NEW S, Uint8 \subseteq S, NEW a \in Seq(S), NEW b \in Seq(S), NEW v \in Uint32
  PROVE  /\ BundleV2(a, b, v) \in Seq(S) /\ Len(BundleV2(a, b, v)) = 13 + Len(a) + Len(b)
         /\ BundleV1(a, b) \in Seq(S) /\ Len(BundleV1(a, b)) = 9 + Len(a) + Len(b)
         /\ pack_doc_bundle_v2(a, b, v) = Written(BundleV2(a, b, v), "pad")
         /\ pack_doc_bundle_v1(a, b) = Written(BundleV1(a, b), NUL)
<1> DEFINE c == U8(DOC_BUNDLE_MAGIC_V2)
           d == U8(DOC_BUNDLE_MAGIC_V1)
           w == U32(v)
           x == Long(a)
           y == Long(b)
<1>1. /\ pack_doc_bundle_v2(a, b, v) = Written(BundleV2(a, b, v), "pad")
      /\ pack_doc_bundle_v1(a, b) = Written(BundleV1(a, b), NUL)
  BY Zenon DEF pack_doc_bundle_v2, pack_doc_bundle_v1, BundleV2, BundleV1, Cat
<1>2. /\ c \in Seq(S) /\ Len(c) = 1 /\ d \in Seq(S) /\ Len(d) = 1 /\ w \in Seq(S) /\ Len(w) = 4
      /\ x \in Seq(S) /\ Len(x) = 4 + Len(a) /\ y \in Seq(S) /\ Len(y) = 4 + Len(b)
  BY Magics, LastByte, LastU32, LongLength DEF Sized
<1>3. BundleV2(a, b, v) = Cat(Cat(Cat(c, w), x), y) /\ BundleV1(a, b) = Cat(Cat(d, x), y)
  BY Zenon DEF BundleV2, BundleV1
<1> HIDE DEF c, d, w, x, y
<1>4. Cat(c, w) \in Seq(S) /\ Len(Cat(c, w)) = 5 /\ Cat(d, x) \in Seq(S) /\ Len(Cat(d, x)) = 5 + Len(a)
  <2>1. /\ Cat(c, w) \in Seq(S) /\ Len(Cat(c, w)) = Len(c) + Len(w)
        /\ Cat(d, x) \in Seq(S) /\ Len(Cat(d, x)) = Len(d) + Len(x)
    BY <1>2, CatSeq
  <2> QED BY <1>2, <2>1
<1>5. Cat(Cat(c, w), x) \in Seq(S) /\ Len(Cat(Cat(c, w), x)) = 9 + Len(a)
  <2>1. Cat(Cat(c, w), x) \in Seq(S) /\ Len(Cat(Cat(c, w), x)) = Len(Cat(c, w)) + Len(x)
    BY <1>2, <1>4, CatSeq
  <2> QED BY <1>2, <1>4, <2>1
<1>6. /\ Cat(Cat(Cat(c, w), x), y) \in Seq(S)
      /\ Len(Cat(Cat(Cat(c, w), x), y)) = Len(Cat(Cat(c, w), x)) + Len(y)
      /\ Cat(Cat(d, x), y) \in Seq(S) /\ Len(Cat(Cat(d, x), y)) = Len(Cat(d, x)) + Len(y)
  BY <1>2, <1>4, <1>5, CatSeq
<1>7. Len(a) \in Nat /\ Len(b) \in Nat
  OBVIOUS
<1> QED BY <1>1, <1>2, <1>3, <1>4, <1>5, <1>6, <1>7

(* What there is room for is written and padded.                           *)
LEMMA RoomFor ==
  ASSUME NEW S, Uint8 \subseteq S, NEW a \in Seq(S), NEW b \in Seq(S), NEW v \in Uint32,
         ~Overruns(a, b)
  PROVE  /\ pack_doc_bundle_v2(a, b, v) = {Padded(BundleV2(a, b, v), "pad")}
         /\ pack_doc_bundle_v1(a, b) = {Padded(BundleV1(a, b), NUL)}
         /\ Len(BundleV2(a, b, v)) <= MAX_FILE_SIZE /\ Len(BundleV1(a, b)) <= MAX_FILE_SIZE
<1>1. Len(a) \in Nat /\ Len(b) \in Nat
  OBVIOUS
<1>2. 13 + Len(a) + Len(b) <= MAX_FILE_SIZE
  BY <1>1, FileSize DEF Overruns
<1>3. Len(BundleV2(a, b, v)) <= MAX_FILE_SIZE /\ Len(BundleV1(a, b)) <= MAX_FILE_SIZE
  <2>1. Len(BundleV2(a, b, v)) = 13 + Len(a) + Len(b) /\ Len(BundleV1(a, b)) = 9 + Len(a) + Len(b)
    BY BundleLength
  <2> QED BY <1>1, <1>2, <2>1, FileSize
<1> QED BY <1>3, BundleLength, Zenon DEF Written

LEMMA Unpacked ==
  ASSUME NEW S, Uint8 \subseteq S, {NUL, "pad"} \subseteq S,
         NEW a \in Seq(S), NEW b \in Seq(S), ~Overruns(a, b), NEW v \in Uint32
  PROVE  /\ \A plain \in pack_doc_bundle_v2(a, b, v) :
              parse_doc_bundle(plain) = [slot_version |-> v, index |-> a, body |-> b]
         /\ \A plain \in pack_doc_bundle_v1(a, b) :
              parse_doc_bundle(plain) = [slot_version |-> 0, index |-> a, body |-> b]
<1>0. MAX_FILE_SIZE \in Nat /\ MAX_FILE_SIZE \in Uint32
  BY FileSize
<1>1. Len(a) \in Uint32 /\ Len(b) \in Uint32
  <2>1. Len(a) \in Nat /\ Len(b) \in Nat
    OBVIOUS
  <2>2. Len(a) <= MAX_FILE_SIZE /\ Len(b) <= MAX_FILE_SIZE
    <3>1. 13 + Len(a) + Len(b) <= MAX_FILE_SIZE
      BY <1>0, <2>1 DEF Overruns
    <3> QED BY <1>0, <2>1, <3>1
  <2> QED BY <1>0, <2>2, LengthFits
<1> DEFINE x == Long(a)
           y == Long(b)
           w == U32(v)
<1>2. x \in Seq(S) /\ y \in Seq(S) /\ w \in Seq(S)
  BY LongLength, LastU32
<1>3. parse_doc_bundle(Padded(BundleV2(a, b, v), "pad")) = [slot_version |-> v, index |-> a, body |-> b]
  <2> DEFINE c == U8(DOC_BUNDLE_MAGIC_V2)
             h == Cat(Cat(Cat(c, w), x), y)
             plain == Padded(BundleV2(a, b, v), "pad")
  <2>1. c \in Seq(S)
    BY Magics, LastByte
  <2>2. h \in Seq(S)
    <3> HIDE DEF c, w, x, y
    <3> QED BY <1>2, <2>1, CatSeq
  <2>3. plain = Padded(h, "pad")
    BY Zenon DEF BundleV2
  <2>4. PICK p \in Seq(S) : plain = Cat(h, p)
    <3> HIDE DEF h, plain
    <3> QED BY <1>0, <2>2, <2>3, PaddedIs
  <2> DEFINE s == Cat(x, Cat(y, p))
  <2>5. s \in Seq(S) /\ Fields(plain, s, v) = [slot_version |-> v, index |-> a, body |-> b]
    BY <1>1, FieldsRead
  <2>6. Cat(h, p) = Cat(Cat(c, w), s)
    <3> HIDE DEF c, w, x, y
    <3> SUFFICES ASSUME NEW q \in Seq(S), NEW r \in Seq(S), NEW t \in Seq(S), NEW u \in Seq(S)
                 PROVE  Cat(Cat(Cat(q, r), t), u) = Cat(q, Cat(r, Cat(t, u)))
      <4>1. Cat(c, w) \in Seq(S)
        BY <1>2, <2>1, CatSeq
      <4> QED BY <1>2, <4>1
    <3>1. Cat(q, r) \in Seq(S) /\ Cat(t, u) \in Seq(S)
      BY CatSeq
    <3> QED BY <3>1, CatAssoc
  <2> HIDE DEF plain, s
  <2>a. plain = Cat(Cat(c, w), s)
    BY <2>4, <2>6
  <2>7. plain[1] = DOC_BUNDLE_MAGIC_V2 /\ ReadU32(Tail(plain)) = v /\ Drop(plain, 5) = s
    <3> SUFFICES ASSUME NEW k \in Uint8, NEW n \in Uint32, NEW t \in Seq(S)
                 PROVE  LET u == Cat(Cat(U8(k), U32(n)), t)
                        IN  u[1] = k /\ ReadU32(Tail(u)) = n /\ Drop(u, 5) = t
      BY <2>5, <2>a, Magics, Zenon
    <3> QED BY CatHeader
  <2>8. parse_doc_bundle(plain) = Fields(plain, s, v)
    BY <2>7, Magics DEF parse_doc_bundle
  <2> QED BY <2>5, <2>8, Zenon DEF plain
<1>4. parse_doc_bundle(Padded(BundleV1(a, b), NUL)) = [slot_version |-> 0, index |-> a, body |-> b]
  <2> DEFINE c == U8(DOC_BUNDLE_MAGIC_V1)
             h == Cat(Cat(c, x), y)
             plain == Padded(BundleV1(a, b), NUL)
  <2>1. c \in Seq(S) /\ Sized(c, 1) /\ c[1] = DOC_BUNDLE_MAGIC_V1
    BY Magics, LastByte
  <2>2. h \in Seq(S)
    <3> HIDE DEF c, x, y
    <3> QED BY <1>2, <2>1, CatSeq
  <2>3. plain = Padded(h, NUL)
    BY Zenon DEF BundleV1
  <2>4. PICK p \in Seq(S) : plain = Cat(h, p)
    <3> HIDE DEF h, plain
    <3> QED BY <1>0, <2>2, <2>3, PaddedIs
  <2> DEFINE s == Cat(x, Cat(y, p))
  <2>5. s \in Seq(S) /\ Fields(plain, s, 0) = [slot_version |-> 0, index |-> a, body |-> b]
    BY <1>1, FieldsRead
  <2>6. Cat(h, p) = Cat(c, s)
    <3> HIDE DEF c, x, y
    <3> SUFFICES ASSUME NEW q \in Seq(S), NEW r \in Seq(S), NEW t \in Seq(S), NEW u \in Seq(S)
                 PROVE  Cat(Cat(Cat(q, r), t), u) = Cat(q, Cat(r, Cat(t, u)))
      BY <1>2, <2>1
    <3>1. Cat(q, r) \in Seq(S) /\ Cat(t, u) \in Seq(S)
      BY CatSeq
    <3> QED BY <3>1, CatAssoc
  <2> HIDE DEF plain, s
  <2>a. plain = Cat(c, s)
    BY <2>4, <2>6
  <2>7. plain[1] = DOC_BUNDLE_MAGIC_V1 /\ Tail(plain) = s
    <3> SUFFICES ASSUME NEW q \in Seq(S), Sized(q, 1), NEW t \in Seq(S)
                 PROVE  Cat(q, t)[1] = q[1] /\ Tail(Cat(q, t)) = t
      BY <2>1, <2>5, <2>a, Zenon
    <3> QED BY CatCell
  <2>8. parse_doc_bundle(plain) = Fields(plain, s, 0)
    BY <2>7, Magics DEF parse_doc_bundle
  <2> QED BY <2>5, <2>8, Zenon DEF plain
<1>5. /\ pack_doc_bundle_v2(a, b, v) = {Padded(BundleV2(a, b, v), "pad")}
      /\ pack_doc_bundle_v1(a, b) = {Padded(BundleV1(a, b), NUL)}
  <2> HIDE DEF x, y, w
  <2> QED BY RoomFor
<1> QED BY <1>3, <1>4, <1>5

(* What is cut behind a first part is cut in the second.                   *)
LEMMA TakenBehind ==
  ASSUME NEW S, NEW s \in Seq(S), NEW t \in Seq(S), NEW k \in Nat,
         Len(s) <= k, k <= Len(s) + Len(t)
  PROVE  /\ Take(Cat(s, t), k) = Cat(s, Take(t, k - Len(s)))
         /\ Take(t, k - Len(s)) \in Seq(S) /\ Len(Take(t, k - Len(s))) = k - Len(s)
<1> DEFINE u == Cat(s, t)
           j == k - Len(s)
           e == Take(t, j)
<1>1. /\ u \in Seq(S) /\ Len(u) = Len(s) + Len(t)
      /\ \A i \in 1..Len(s) : u[i] = s[i]
      /\ \A i \in 1..Len(t) : u[Len(s) + i] = t[i]
  BY Joined DEF Cat
<1>2. j \in Nat /\ j <= Len(t) /\ Len(s) \in Nat /\ Len(t) \in Nat /\ k = Len(s) + j
  OBVIOUS
<1> HIDE DEF u, j
<1>3. e \in Seq(S) /\ Len(e) = j /\ \A i \in 1..j : e[i] = t[i]
  BY <1>2 DEF Take
<1> HIDE DEF e
<1>4. /\ Take(u, k) \in Seq(S) /\ Len(Take(u, k)) = k
      /\ \A i \in 1..k : Take(u, k)[i] = u[i]
  BY <1>1, <1>2 DEF Take
<1>5. /\ Cat(s, e) \in Seq(S) /\ Len(Cat(s, e)) = Len(s) + j
      /\ \A i \in 1..Len(s) : Cat(s, e)[i] = s[i]
      /\ \A i \in 1..j : Cat(s, e)[Len(s) + i] = e[i]
  <2>1. /\ Cat(s, e) \in Seq(S) /\ Len(Cat(s, e)) = Len(s) + Len(e)
        /\ \A i \in 1..Len(s) : Cat(s, e)[i] = s[i]
        /\ \A i \in 1..Len(e) : Cat(s, e)[Len(s) + i] = e[i]
    <3> SUFFICES ASSUME NEW f \in Seq(S)
                 PROVE  /\ Cat(s, f) \in Seq(S) /\ Len(Cat(s, f)) = Len(s) + Len(f)
                        /\ \A i \in 1..Len(s) : Cat(s, f)[i] = s[i]
                        /\ \A i \in 1..Len(f) : Cat(s, f)[Len(s) + i] = f[i]
      BY <1>3
    <3> QED BY Joined DEF Cat
  <2> QED BY <1>3, <2>1
<1>6. ASSUME NEW i \in 1..k PROVE Take(u, k)[i] = Cat(s, e)[i]
  <2>1. CASE i <= Len(s)
    BY <1>1, <1>2, <1>4, <1>5, <2>1
  <2>2. CASE ~(i <= Len(s))
    <3> DEFINE m == i - Len(s)
    <3>1. m \in 1..j /\ m \in 1..Len(t) /\ i = Len(s) + m
      BY <1>2, <2>2
    <3> HIDE DEF m
    <3> QED BY <1>1, <1>3, <1>4, <1>5, <3>1
  <2> QED BY <2>1, <2>2
<1>7. Take(u, k) = Cat(s, e)
  BY <1>2, <1>4, <1>5, <1>6, SameSeq
<1> QED BY <1>3, <1>7 DEF u, e, j

(* Where the string ends before the document does, the version is read,    *)
(* the index if it is whole, and all of the string for the body.           *)
LEMMA CutRead ==
  ASSUME NEW S, Uint8 \subseteq S,
         NEW a \in Seq(S), Len(a) \in Uint32, NEW b \in Seq(S), Len(b) \in Uint32,
         NEW v \in Uint32, Overruns(a, b)
  PROVE  LET plain == Take(BundleV2(a, b, v), MAX_FILE_SIZE)
         IN  parse_doc_bundle(plain) =
               [slot_version |-> v,
                index |-> IF 9 + Len(a) <= MAX_FILE_SIZE THEN a ELSE <<>>, body |-> plain]
<1> DEFINE M == MAX_FILE_SIZE
           c == U8(DOC_BUNDLE_MAGIC_V2)
           w == U32(v)
           x == Long(a)
           y == Long(b)
           head == Cat(c, w)
           t == Cat(x, y)
           s == Take(t, M - 5)
           plain == Take(BundleV2(a, b, v), M)
<1>1. /\ Len(a) \in Nat /\ Len(b) \in Nat /\ M \in Nat /\ 13 <= M
      /\ 13 + Len(a) + Len(b) > M
  BY FileSize DEF Overruns
<1> HIDE DEF M
<1>2. /\ c \in Seq(S) /\ Len(c) = 1 /\ w \in Seq(S) /\ Len(w) = 4
      /\ x \in Seq(S) /\ Len(x) = 4 + Len(a) /\ y \in Seq(S) /\ Len(y) = 4 + Len(b)
  BY Magics, LastByte, LastU32, LongLength DEF Sized
<1>3. head \in Seq(S) /\ Len(head) = 5 /\ t \in Seq(S) /\ Len(t) = 8 + Len(a) + Len(b)
  <2>1. /\ head \in Seq(S) /\ Len(head) = Len(c) + Len(w)
        /\ t \in Seq(S) /\ Len(t) = Len(x) + Len(y)
    <3> HIDE DEF c, w, x, y
    <3> QED BY <1>2, CatSeq
  <2> HIDE DEF c, w, x, y, head, t
  <2> QED BY <1>1, <1>2, <2>1
<1>4. BundleV2(a, b, v) = Cat(head, t)
  <2>1. BundleV2(a, b, v) = Cat(Cat(head, x), y)
    BY Zenon DEF BundleV2
  <2> HIDE DEF head, x, y
  <2>2. Cat(Cat(head, x), y) = Cat(head, Cat(x, y))
    BY <1>2, <1>3, CatAssoc
  <2> QED BY <2>1, <2>2, Zenon
<1>5. plain = Cat(head, s) /\ s \in Seq(S) /\ Len(s) = M - 5
  <2> HIDE DEF head, t
  <2>1. Len(head) <= M /\ M <= Len(head) + Len(t) /\ M - Len(head) = M - 5
    BY <1>1, <1>3
  <2>2. /\ Take(Cat(head, t), M) = Cat(head, Take(t, M - Len(head)))
        /\ Take(t, M - Len(head)) \in Seq(S) /\ Len(Take(t, M - Len(head))) = M - Len(head)
    BY <1>1, <1>3, <2>1, TakenBehind
  <2> QED BY <1>4, <2>1, <2>2, Zenon
<1>6. plain[1] = DOC_BUNDLE_MAGIC_V2 /\ ReadU32(Tail(plain)) = v /\ Drop(plain, 5) = s
  <2> HIDE DEF s, plain
  <2> SUFFICES ASSUME NEW k \in Uint8, NEW n \in Uint32, NEW z \in Seq(S)
               PROVE  LET u == Cat(Cat(U8(k), U32(n)), z)
                      IN  u[1] = k /\ ReadU32(Tail(u)) = n /\ Drop(u, 5) = z
    BY <1>5, Magics, Zenon
  <2> QED BY CatHeader
<1>7. parse_doc_bundle(plain) = Fields(plain, s, v)
  <2> HIDE DEF s, plain
  <2> QED BY <1>6, Magics DEF parse_doc_bundle
<1> HIDE DEF c, head, w, plain
<1>8. ReadU32(s) = Len(a)
  <2> DEFINE n == U32(Len(a))
             z == Cat(a, y)
             e == Take(z, (M - 5) - Len(n))
  <2>1. n \in Seq(S) /\ Len(n) = 4
    BY LastU32
  <2>2. t = Cat(n, z)
    <3>1. x = Cat(n, a)
      BY Zenon DEF Long, Cat
    <3>2. Cat(Cat(n, a), y) = Cat(n, Cat(a, y))
      <4> HIDE DEF n, y
      <4> QED BY <1>2, <2>1, CatAssoc
    <3> QED BY <3>1, <3>2, Zenon
  <2>3. z \in Seq(S) /\ Len(z) = Len(a) + Len(y)
    <3> HIDE DEF y
    <3> QED BY <1>2, CatSeq
  <2>4. s = Cat(n, e) /\ e \in Seq(S)
    <3>1. M - 5 \in Nat /\ Len(n) <= M - 5 /\ M - 5 <= Len(n) + Len(z)
      BY <1>1, <1>2, <2>1, <2>3
    <3> HIDE DEF n, z, t
    <3>2. Take(Cat(n, z), M - 5) = Cat(n, e) /\ e \in Seq(S)
      BY <2>1, <2>3, <3>1, TakenBehind
    <3> QED BY <2>2, <3>2, Zenon
  <2> HIDE DEF e, s
  <2> QED BY <2>4, CatU32
<1>9. CASE ~(9 + Len(a) <= M)
  <2>1. 4 + ReadU32(s) > Len(s)
    <3> HIDE DEF s
    <3> QED BY <1>1, <1>5, <1>8, <1>9
  <2> HIDE DEF s
  <2>2. Fields(plain, s, v) = [slot_version |-> v, index |-> <<>>, body |-> plain]
    BY <2>1, Zenon DEF Fields
  <2> QED BY <1>7, <1>9, <2>2 DEF M, plain
<1>10. CASE 9 + Len(a) <= M
  <2> DEFINE k == (M - 5) - Len(x)
             body == Take(y, k)
  <2>1. s = Cat(x, body) /\ body \in Seq(S) /\ Len(body) = k /\ k \in Nat /\ k = M - 9 - Len(a)
    <3> HIDE DEF x, y, s
    <3>1. /\ M - 5 \in Nat /\ Len(x) <= M - 5 /\ M - 5 <= Len(x) + Len(y)
          /\ k \in Nat /\ k = M - 9 - Len(a)
      BY <1>1, <1>2, <1>10
    <3>2. Take(Cat(x, y), M - 5) = Cat(x, body) /\ body \in Seq(S) /\ Len(body) = k
      BY <1>2, <3>1, TakenBehind
    <3>3. s = Take(Cat(x, y), M - 5)
      BY Zenon DEF s
    <3> QED BY <3>1, <3>2, <3>3, Zenon
  <2>2. ReadLong(s) = a /\ AfterLong(s) = body
    <3> HIDE DEF body, s
    <3> QED BY <2>1, CatLong
  <2>3. ~(Len(s) < 8 \/ 4 + ReadU32(s) > Len(s))
    <3> HIDE DEF s
    <3> QED BY <1>1, <1>5, <1>8, <1>10
  <2>4. Len(body) < 4 \/ 4 + ReadU32(body) > Len(body)
    <3>1. CASE k < 4
      <4> HIDE DEF body
      <4> QED BY <2>1, <3>1
    <3>2. CASE ~(k < 4)
      <4> DEFINE n == U32(Len(b))
                 e == Take(b, k - Len(n))
      <4>1. n \in Seq(S) /\ Len(n) = 4
        BY LastU32
      <4>2. y = Cat(n, b)
        BY Zenon DEF Long, Cat
      <4>3. Len(n) <= k /\ k <= Len(n) + Len(b) /\ k \in Nat
        BY <1>1, <2>1, <3>2, <4>1
      <4>4. body = Cat(n, e) /\ e \in Seq(S)
        <5> HIDE DEF n, y, k
        <5>1. Take(Cat(n, b), k) = Cat(n, e) /\ e \in Seq(S)
          BY <4>1, <4>3, TakenBehind
        <5> QED BY <4>2, <5>1, Zenon
      <4>5. ReadU32(body) = Len(b)
        <5> HIDE DEF body, e
        <5> QED BY <4>4, CatU32
      <4> HIDE DEF body, k
      <4> QED BY <1>1, <2>1, <4>5
    <3> QED BY <3>1, <3>2
  <2> HIDE DEF body, s
  <2>5. Fields(plain, s, v) = [slot_version |-> v, index |-> a, body |-> plain]
    BY <2>2, <2>3, <2>4, Zenon DEF Fields
  <2> QED BY <1>7, <1>10, <2>5 DEF M, plain
<1> QED BY <1>9, <1>10

LEMMA ReadFields ==
  ASSUME NEW plain, NEW n, NEW x, NEW y,
         parse_doc_bundle(plain) = [slot_version |-> n, index |-> x, body |-> y]
  PROVE  ReadSlot(plain) = [slot_version |-> n, index |-> trim_trailing_null(x),
                            body |-> trim_trailing_null(y)]
<1> DEFINE b == [slot_version |-> n, index |-> x, body |-> y]
           x1 == trim_trailing_null(x)
           y1 == trim_trailing_null(y)
           r == [b EXCEPT !.index = x1, !.body = y1]
<1>1. ReadSlot(plain) = [b EXCEPT !.index = trim_trailing_null(@), !.body = trim_trailing_null(@)]
  BY Zenon DEF ReadSlot
<1>2. ReadSlot(plain) = r
  <2>1. b.index = x /\ b.body = y
    OBVIOUS
  <2> QED BY <1>1, <2>1, Zenon
<1> HIDE DEF x1, y1
<1>3. r \in [slot_version : {n}, index : {x, x1}, body : {y, y1}]
  OBVIOUS
<1>4. r.slot_version = n /\ r.index = x1 /\ r.body = y1
  OBVIOUS
<1> HIDE DEF r
<1>5. r = [slot_version |-> n, index |-> x1, body |-> y1]
  BY <1>3, <1>4
<1> QED BY <1>2, <1>5, Zenon DEF x1, y1

(* What an update stores is read again: version, index and body, without   *)
(* the zeros a client sent behind them; likewise what was stored in the    *)
(* first version of the format.  Of a document that is longer than the     *)
(* string it is written to, if the enclave survives that, the version is   *)
(* read, the index if it is whole, and the whole string in place of the    *)
(* body (EnclaveUtils.cpp).                                                *)
THEOREM DocumentsKept ==
  ASSUME NEW S, Uint8 \subseteq S, {NUL, "pad"} \subseteq S,
         NEW keywords \in Seq(S), Len(keywords) \in Uint32,
         NEW body \in Seq(S), Len(body) \in Uint32, NEW v \in Uint32
  PROVE  LET index == trim_trailing_null(keywords)
             content == trim_trailing_null(body)
         IN  /\ ~Overruns(index, content) =>
                  \A plain \in Stored(keywords, body, v) :
                    ReadSlot(plain) = [slot_version |-> v, index |-> index, body |-> content]
             /\ Overruns(index, content) =>
                  \A plain \in Stored(keywords, body, v) \ {Crashed} :
                    ReadSlot(plain) =
                      [slot_version |-> v,
                       index |-> IF 9 + Len(index) <= MAX_FILE_SIZE THEN index ELSE <<>>,
                       body |-> trim_trailing_null(plain)]
             /\ ~Overruns(keywords, body) =>
                  \A plain \in pack_doc_bundle_v1(keywords, body) :
                    ReadSlot(plain) = [slot_version |-> 0, index |-> index, body |-> content]
<1> DEFINE a == trim_trailing_null(keywords)
           b == trim_trailing_null(body)
<1>1. /\ a \in Seq(S) /\ Len(a) <= Len(keywords) /\ (a # <<>> => a[Len(a)] # NUL)
      /\ b \in Seq(S) /\ Len(b) <= Len(body) /\ (b # <<>> => b[Len(b)] # NUL)
  BY TrimResult
<1>2. trim_trailing_null(a) = a /\ trim_trailing_null(b) = b
  <2> HIDE DEF a, b
  <2> QED BY <1>1, TrimTwice
<1>3. Stored(keywords, body, v) = pack_doc_bundle_v2(a, b, v)
  BY Zenon DEF Stored
<1>4. ASSUME ~Overruns(a, b), NEW plain \in Stored(keywords, body, v)
      PROVE  ReadSlot(plain) = [slot_version |-> v, index |-> a, body |-> b]
  <2> HIDE DEF a, b
  <2>1. parse_doc_bundle(plain) = [slot_version |-> v, index |-> a, body |-> b]
    BY <1>1, <1>3, <1>4, Unpacked
  <2> QED BY <1>2, <2>1, ReadFields, Zenon
<1>5. ASSUME Overruns(a, b), NEW plain \in Stored(keywords, body, v) \ {Crashed}
      PROVE  ReadSlot(plain) =
               [slot_version |-> v, index |-> IF 9 + Len(a) <= MAX_FILE_SIZE THEN a ELSE <<>>,
                body |-> trim_trailing_null(plain)]
  <2> HIDE DEF a, b
  <2> DEFINE h == BundleV2(a, b, v)
             i == IF 9 + Len(a) <= MAX_FILE_SIZE THEN a ELSE <<>>
  <2>1. Len(a) \in Uint32 /\ Len(b) \in Uint32 /\ Len(a) \in Nat /\ Len(b) \in Nat
    BY <1>1, LengthFits
  <2>2. pack_doc_bundle_v2(a, b, v) = Written(h, "pad") /\ ~(Len(h) <= MAX_FILE_SIZE)
    <3>1. pack_doc_bundle_v2(a, b, v) = Written(h, "pad") /\ Len(h) = 13 + Len(a) + Len(b)
      BY <1>1, BundleLength
    <3> HIDE DEF h
    <3> QED BY <1>5, <2>1, <3>1, FileSize DEF Overruns
  <2>3. plain = Take(h, MAX_FILE_SIZE)
    <3> HIDE DEF h
    <3>1. plain \in {Take(h, MAX_FILE_SIZE), Crashed} /\ plain # Crashed
      BY <1>3, <1>5, <2>2, Zenon DEF Written
    <3> QED BY <3>1, Zenon
  <2>4. parse_doc_bundle(plain) = [slot_version |-> v, index |-> i, body |-> plain]
    BY <1>1, <1>5, <2>1, <2>3, CutRead
  <2>5. trim_trailing_null(i) = i
    <3>1. <<>> \in Seq(S)
      OBVIOUS
    <3>2. trim_trailing_null(<<>>) = <<>>
      BY <3>1, TrimTwice
    <3> QED BY <1>2, <3>2
  <2> HIDE DEF i
  <2>6. ReadSlot(plain) = [slot_version |-> v, index |-> i, body |-> trim_trailing_null(plain)]
    BY <2>4, <2>5, ReadFields, Zenon
  <2> QED BY <2>6, Zenon DEF i
<1>6. ASSUME ~Overruns(keywords, body), NEW plain \in pack_doc_bundle_v1(keywords, body)
      PROVE  ReadSlot(plain) = [slot_version |-> 0, index |-> a, body |-> b]
  <2>1. parse_doc_bundle(plain) = [slot_version |-> 0, index |-> keywords, body |-> body]
    BY <1>6, Unpacked
  <2> QED BY <2>1, ReadFields, Zenon
<1> QED BY <1>4, <1>5, <1>6, Zenon

LEMMA PaddedLength ==
  ASSUME NEW S, NEW s \in Seq(S), NEW cell \in S, Len(s) <= MAX_FILE_SIZE
  PROVE  Len(Padded(s, cell)) = MAX_FILE_SIZE
<1> DEFINE k == MAX_FILE_SIZE - Len(s)
           p == [i \in 1..k |-> cell]
<1>1. k \in Nat /\ Len(s) \in Nat /\ Len(s) + k = MAX_FILE_SIZE
  BY FileSize
<1>2. Padded(s, cell) = s \o p
  BY Zenon DEF Padded
<1> HIDE DEF k
<1>3. p \in Seq(S) /\ Len(p) = k
  BY <1>1
<1> HIDE DEF p
<1>4. Len(s \o p) = Len(s) + Len(p)
  BY <1>3, Joined
<1> QED BY <1>1, <1>2, <1>3, <1>4

(* Every document that is stored has the same size, a tombstone and one    *)
(* that is longer than its string too: the padding ends at MAX_FILE_SIZE,  *)
(* and nothing beyond it is encrypted.  Only one that is longer can end    *)
(* the enclave (EnclaveUtils.cpp).                                         *)
THEOREM OneSize ==
  ASSUME NEW S, Uint8 \subseteq S, {NUL, "pad"} \subseteq S,
         NEW keywords \in Seq(S), NEW body \in Seq(S), NEW v \in Uint32
  PROVE  \A plain \in Stored(keywords, body, v) :
           \/ Len(plain) = MAX_FILE_SIZE /\ plain # Crashed
           \/ /\ plain = Crashed
              /\ Overruns(trim_trailing_null(keywords), trim_trailing_null(body))
<1> DEFINE a == trim_trailing_null(keywords)
           b == trim_trailing_null(body)
           h == BundleV2(a, b, v)
<1> SUFFICES ASSUME NEW plain \in Stored(keywords, body, v)
             PROVE  \/ Len(plain) = MAX_FILE_SIZE /\ plain # Crashed
                    \/ plain = Crashed /\ Overruns(a, b)
  OBVIOUS
<1>1. a \in Seq(S) /\ b \in Seq(S)
  BY TrimResult
<1>2. Stored(keywords, body, v) = pack_doc_bundle_v2(a, b, v)
  BY Zenon DEF Stored
<1> HIDE DEF a, b
<1>3. h \in Seq(S) /\ pack_doc_bundle_v2(a, b, v) = Written(h, "pad") /\ Len(h) = 13 + Len(a) + Len(b)
  BY <1>1, BundleLength
<1> HIDE DEF h
<1>4. Len(Crashed) # MAX_FILE_SIZE
  BY FileSize DEF Crashed
<1>5. CASE Len(h) <= MAX_FILE_SIZE
  <2>1. plain = Padded(h, "pad")
    BY <1>2, <1>3, <1>5 DEF Written
  <2>2. Len(plain) = MAX_FILE_SIZE
    BY <1>3, <1>5, <2>1, PaddedLength
  <2> QED BY <1>4, <2>2
<1>6. CASE ~(Len(h) <= MAX_FILE_SIZE)
  <2>1. plain \in {Take(h, MAX_FILE_SIZE), Crashed}
    BY <1>2, <1>3, <1>6, Zenon DEF Written
  <2>2. Len(h) \in Nat /\ MAX_FILE_SIZE <= Len(h)
    BY <1>3, <1>6, FileSize
  <2>3. Len(Take(h, MAX_FILE_SIZE)) = MAX_FILE_SIZE
    BY <1>3, <2>2, FileSize DEF Take
  <2>4. Overruns(a, b)
    BY <1>1, <1>3, <1>6, FileSize DEF Overruns
  <2> QED BY <1>4, <2>1, <2>3, <2>4
<1> QED BY <1>5, <1>6

LEMMA LeastIs ==
  ASSUME NEW I, I \subseteq Nat, NEW m \in I, \A i \in I : m <= i
  PROVE  Min(I) = m
<1>1. Min(I) = CHOOSE x \in I : \A y \in I : x <= y
  BY Zenon DEF Min
<1>2. Min(I) \in I /\ \A y \in I : Min(I) <= y
  BY <1>1, Zenon
<1>3. Min(I) \in Nat /\ m \in Nat /\ Min(I) <= m /\ m <= Min(I)
  BY <1>2
<1> QED BY <1>3

(* What was stored before the format had a version is read as an index     *)
(* alone, up to the zero that ends it.                                     *)
THEOREM LegacyDocumentsKept ==
  ASSUME NEW S, Uint8 \subseteq S, NUL \in S, MAX_FILE_SIZE \in Nat,
         NEW keywords \in Seq(S), \A i \in 1..Len(keywords) : keywords[i] # NUL,
         2 + Len(keywords) <= MAX_FILE_SIZE
  PROVE  ReadSlot(pack_doc_bundle_legacy(keywords \o <<NUL>>)) =
           [slot_version |-> 0, index |-> keywords, body |-> <<>>]
<1> DEFINE n == Len(keywords)
           zero == <<NUL>>
           content == Cat(keywords, zero)
           c == U8(DOC_BUNDLE_MAGIC_LEGACY)
           h == Cat(c, content)
           plain == pack_doc_bundle_legacy(keywords \o <<NUL>>)
<1>1. zero \in Seq(S) /\ Len(zero) = 1 /\ zero[1] = NUL
  OBVIOUS
<1>2. c \in Seq(S) /\ Sized(c, 1) /\ c[1] = DOC_BUNDLE_MAGIC_LEGACY
  BY Magics, LastByte
<1> HIDE DEF zero, c
<1>3. content \in Seq(S) /\ Len(content) = n + 1
  <2>1. content \in Seq(S) /\ Len(content) = n + Len(zero)
    BY <1>1, CatSeq
  <2> QED BY <1>1, <2>1
<1>4. plain = Padded(h, NUL)
  <2>1. Cut(content, MAX_FILE_SIZE - 1) = content
    <3>1. MAX_FILE_SIZE - 1 \in Nat /\ Len(content) <= MAX_FILE_SIZE - 1
      BY <1>3
    <3> HIDE DEF content
    <3> QED BY <1>3, <3>1, CutWhole
  <2>2. {MAX_FILE_SIZE - 1, Len(content)} = {Len(content), MAX_FILE_SIZE - 1}
    OBVIOUS
  <2>3. Take(content, Min({Len(content), MAX_FILE_SIZE - 1})) = content
    BY <2>1, <2>2, Zenon DEF Cut
  <2>4. keywords \o <<NUL>> = content
    BY Zenon DEF Cat, zero
  <2> HIDE DEF content
  <2>5. plain = Padded(c \o content, NUL)
    BY <2>3, <2>4, Zenon DEF pack_doc_bundle_legacy, c
  <2> QED BY <2>5, Zenon DEF Cat
<1>5. h \in Seq(S)
  <2> HIDE DEF content
  <2> QED BY <1>2, <1>3, CatSeq
<1>6. PICK p \in Seq(S) : plain = Cat(h, p)
  <2> HIDE DEF h, plain
  <2> QED BY <1>4, <1>5, PaddedIs
<1> DEFINE rest == Cat(zero, p)
           t == Cat(keywords, rest)
<1>7. rest \in Seq(S) /\ Len(rest) = 1 + Len(p) /\ rest[1] = NUL
  <2> SUFFICES ASSUME NEW z \in Seq(S), Sized(z, 1)
               PROVE  Cat(z, p) \in Seq(S) /\ Len(Cat(z, p)) = 1 + Len(p) /\ Cat(z, p)[1] = z[1]
    BY <1>1 DEF Sized
  <2> QED BY CatCell
<1>8. Cat(h, p) = Cat(c, t)
  <2> SUFFICES ASSUME NEW q \in Seq(S), NEW r \in Seq(S), NEW s \in Seq(S), NEW u \in Seq(S)
               PROVE  Cat(Cat(q, Cat(r, s)), u) = Cat(q, Cat(r, Cat(s, u)))
    BY <1>1, <1>2
  <2>1. Cat(r, s) \in Seq(S)
    BY CatSeq
  <2>2. Cat(Cat(q, Cat(r, s)), u) = Cat(q, Cat(Cat(r, s), u))
    BY <2>1, CatAssoc
  <2>3. Cat(Cat(r, s), u) = Cat(r, Cat(s, u))
    BY CatAssoc
  <2> QED BY <2>2, <2>3
<1> HIDE DEF h, plain
<1>9. plain = Cat(c, t)
  BY <1>6, <1>8, Zenon
<1> HIDE DEF rest
<1>10. t \in Seq(S) /\ Len(t) = n + Len(rest)
  BY <1>7, CatSeq
<1>11. (\A i \in 1..n : t[i] = keywords[i]) /\ t[n + 1] = NUL /\ Take(t, n) = keywords
  <2>1. \A s \in Seq(S) : /\ \A i \in 1..n : Cat(keywords, s)[i] = keywords[i]
                          /\ \A i \in 1..Len(s) : Cat(keywords, s)[n + i] = s[i]
                          /\ Take(Cat(keywords, s), n) = keywords
    BY Joined, Parts DEF Cat
  <2>2. 1 \in 1..Len(rest)
    BY <1>7
  <2> QED BY <1>7, <2>1, <2>2
<1> HIDE DEF t
<1>12. plain[1] = DOC_BUNDLE_MAGIC_LEGACY /\ Tail(plain) = t
  <2> SUFFICES ASSUME NEW q \in Seq(S), Sized(q, 1), NEW s \in Seq(S)
               PROVE  Cat(q, s)[1] = q[1] /\ Tail(Cat(q, s)) = s
    BY <1>2, <1>9, <1>10, Zenon
  <2> QED BY CatCell
<1>13. SelectInSeq(t, LAMBDA x : x = NUL) = n + 1
  <2> DEFINE I == {i \in 1..Len(t) : t[i] = NUL}
  <2>1. n + 1 \in 1..Len(t) /\ n \in Nat
    BY <1>7, <1>10
  <2>2. n + 1 \in I /\ I \subseteq Nat
    BY <1>11, <2>1
  <2>3. \A i \in I : n + 1 <= i
    <3> TAKE i \in I
    <3>1. i \in Nat /\ i >= 1 /\ i \notin 1..n
      BY <1>11
    <3> QED BY <2>1, <3>1
  <2> HIDE DEF I
  <2>4. Min(I) = n + 1
    BY <2>2, <2>3, LeastIs
  <2>5. SelectInSeq(t, LAMBDA x : x = NUL) = IF I # {} THEN Min(I) ELSE 0
    BY Zenon DEF SelectInSeq, I
  <2> QED BY <2>2, <2>4, <2>5, Zenon
<1>14. parse_doc_bundle(plain) = [slot_version |-> 0, index |-> keywords, body |-> <<>>]
  <2>1. parse_doc_bundle(plain) =
          LET end == SelectInSeq(t, LAMBDA x : x = NUL)
          IN  [slot_version |-> 0, body |-> <<>>,
               index |-> IF end = 0 THEN t ELSE Take(t, end - 1)]
    BY <1>12, Magics DEF parse_doc_bundle
  <2>2. n + 1 # 0 /\ (n + 1) - 1 = n
    OBVIOUS
  <2>3. parse_doc_bundle(plain) = [slot_version |-> 0, body |-> <<>>, index |-> Take(t, n)]
    BY <1>13, <2>1, <2>2
  <2> QED BY <1>11, <2>3
<1>15. trim_trailing_null(keywords) = keywords /\ trim_trailing_null(<<>>) = <<>>
  <2>1. keywords # <<>> => keywords[n] # NUL
    OBVIOUS
  <2>2. <<>> \in Seq(S)
    OBVIOUS
  <2> QED BY <2>1, <2>2, TrimTwice
<1> QED BY <1>14, <1>15, ReadFields, Zenon DEF plain

-----------------------------------------------------------------------------
(* Updates of the web gateway.                                             *)

LEMMA CutFits ==
  ASSUME NEW S, NEW s \in Seq(S), NEW n \in Nat
  PROVE  /\ Cut(s, n) \in Seq(S) /\ Len(Cut(s, n)) <= n
         /\ s # <<>> /\ n # 0 => Cut(s, n) # <<>>
<1>1. CASE Len(s) <= n
  BY <1>1, CutWhole
<1>2. CASE ~(Len(s) <= n)
  <2>1. Len(s) \in Nat /\ n <= Len(s)
    BY <1>2
  <2>2. Min({n, Len(s)}) = n
    <3> SUFFICES ASSUME NEW m \in Nat, n <= m PROVE Min({n, m}) = n
      BY <2>1
    <3> DEFINE I == {n, m}
    <3>1. I \subseteq Nat /\ n \in I /\ \A i \in I : n <= i
      OBVIOUS
    <3> HIDE DEF I
    <3>2. Min(I) = n
      BY <3>1, LeastIs
    <3> QED BY <3>2 DEF I
  <2>3. Cut(s, n) = SubSeq(s, 1, n)
    BY <2>2, Zenon DEF Cut, Take
  <2>4. SubSeq(s, 1, n) \in Seq(S) /\ Len(SubSeq(s, 1, n)) = n
    BY <1>2
  <2> QED BY <2>3, <2>4
<1> QED BY <1>1, <1>2

(* A zero at the end is nothing to what is kept.                           *)
LEMMA TrimZero ==
  ASSUME NEW S, NUL \in S, NEW s \in Seq(S)
  PROVE  trim_trailing_null(Append(s, NUL)) = trim_trailing_null(s)
<1> DEFINE t == Append(s, NUL)
<1>1. /\ t \in Seq(S) /\ Len(t) = Len(s) + 1 /\ t[Len(s) + 1] = NUL
      /\ \A i \in 1..Len(s) : t[i] = s[i]
  OBVIOUS
<1> HIDE DEF t
<1>2. Full(t) = Full(s)
  BY <1>1 DEF Full
<1> DEFINE m == IF Full(s) # {} THEN Max(Full(s)) ELSE 0
<1>3. m \in 0..Len(s)
  <2>1. Full(s) \subseteq 0..Len(s) /\ Len(s) \in Nat
    BY DEF Full
  <2> QED BY <2>1, Greatest
<1> HIDE DEF m
<1>4. Take(t, m) = Take(s, m)
  <2> SUFFICES SubSeq(t, 1, m) = SubSeq(s, 1, m)
    BY DEF Take
  <2> QED BY <1>1, <1>3
<1> QED BY <1>2, <1>4, TrimmedAt, Zenon DEF m, t

(* What the gateway builds of an index and a document.                     *)
LEMMA GatewayBuilds ==
  ASSUME NEW S, Uint8 \subseteq S, NUL \in S, MAX_INDEX_SIZE > 1,
         NEW id \in Uint8, NEW op \in Uint8, NEW doc_id \in Uint32,
         NEW keywords \in Seq(S), NEW doc \in Seq(S)
  PROVE  LET r == build_update_request(id, op, doc_id, keywords, doc)
         IN  /\ r \in UpdateRequests(S)
             /\ keywords # <<>> => Last(r.index_content) = NUL
             /\ trim_trailing_null(r.index_content) =
                  trim_trailing_null(Cut(keywords, MAX_INDEX_SIZE - 1))
<1> DEFINE t == Cut(keywords, MAX_INDEX_SIZE - 1)
           x == normalize_index_bytes(keywords)
           y == Cut(doc, MAX_DOC_SIZE)
           r == build_update_request(id, op, doc_id, keywords, doc)
<1>1. MAX_INDEX_SIZE \in Nat /\ MAX_INDEX_SIZE - 1 \in Nat /\ MAX_INDEX_SIZE - 1 # 0 /\ MAX_DOC_SIZE \in Nat
  <2>1. MAX_INDEX_SIZE \in Nat /\ MAX_DOC_SIZE \in Nat
    BY Caps DEF Uint32
  <2> QED BY <2>1
<1>2. /\ t \in Seq(S) /\ Len(t) <= MAX_INDEX_SIZE - 1 /\ (keywords # <<>> => t # <<>>)
      /\ y \in Seq(S) /\ Len(y) <= MAX_DOC_SIZE
  BY <1>1, CutFits
<1>3. x = IF keywords = <<>> \/ Last(t) = NUL THEN t ELSE Append(t, NUL)
  BY Zenon DEF normalize_index_bytes
<1>4. r = [client_id |-> id, type |-> UPDATE, op |-> op, doc_id |-> doc_id, flags |-> UPDATE_SPLIT,
           index_content |-> x, doc_content |-> y]
  BY Zenon DEF build_update_request
<1> HIDE DEF t, x, y
<1>5. /\ x \in Seq(S) /\ Len(x) <= MAX_INDEX_SIZE
      /\ keywords # <<>> => Last(x) = NUL
      /\ trim_trailing_null(x) = trim_trailing_null(t)
  <2>1. CASE keywords = <<>> \/ Last(t) = NUL
    BY <1>1, <1>2, <1>3, <2>1
  <2>2. CASE ~(keywords = <<>> \/ Last(t) = NUL)
    <3>1. x = Append(t, NUL)
      BY <1>3, <2>2
    <3>2. \A s \in Seq(S) : LET u == Append(s, NUL) IN u \in Seq(S) /\ Len(u) = Len(s) + 1 /\ Last(u) = NUL
      BY DEF Last
    <3>3. trim_trailing_null(Append(t, NUL)) = trim_trailing_null(t)
      BY <1>2, TrimZero
    <3>4. x \in Seq(S) /\ Len(x) = Len(t) + 1 /\ Last(x) = NUL
      BY <1>2, <3>1, <3>2, Zenon
    <3>5. Len(x) <= MAX_INDEX_SIZE
      BY <1>1, <1>2, <3>4
    <3> QED BY <3>1, <3>3, <3>4, <3>5, Zenon
  <2> QED BY <2>1, <2>2
<1> HIDE DEF r
<1>6. r \in UpdateRequests(S)
  <2>1. r.flags = UPDATE_SPLIT /\ r.index_content = x /\ r.doc_content = y
    BY <1>4
  <2>2. UPDATE_SPLIT # UPDATE_LEGACY
    BY DEF UPDATE_SPLIT, UPDATE_LEGACY
  <2>3. r \in [client_id : Uint8, type : {UPDATE}, op : Uint8, doc_id : Uint32,
               flags : {UPDATE_SPLIT, UPDATE_LEGACY}, index_content : Seq(S), doc_content : Seq(S)]
    BY <1>2, <1>4, <1>5
  <2> QED BY <1>2, <1>5, <2>1, <2>2, <2>3 DEF UpdateRequests
<1>7. r.index_content = x
  BY <1>4
<1> QED BY <1>5, <1>6, <1>7, Zenon DEF r, t

(* Whatever index and document the gateway is given, the update it builds  *)
(* is one the server takes: it arrives as it was built, its index ends in  *)
(* the zero strtok needs, and what is kept of it is the index that was     *)
(* given, as far as it fits (encdb_rpc.py).                                *)
THEOREM GatewayUpdatesArrive ==
  ASSUME NEW S, Uint8 \subseteq S, NUL \in S, MAX_INDEX_SIZE > 1,
         NEW id \in Uint8, NEW op \in Uint8, NEW doc_id \in Uint32,
         NEW keywords \in Seq(S), NEW doc \in Seq(S),
         Len(serialize_encdb_request(build_update_request(id, op, doc_id, keywords, doc))) \in Uint32
  PROVE  LET r == build_update_request(id, op, doc_id, keywords, doc)
         IN  /\ GatewayTransported(r) = r
             /\ keywords # <<>> => Last(r.index_content) = NUL
             /\ trim_trailing_null(r.index_content) =
                  trim_trailing_null(Cut(keywords, MAX_INDEX_SIZE - 1))
<1> DEFINE r == build_update_request(id, op, doc_id, keywords, doc)
<1>1. /\ r \in UpdateRequests(S)
      /\ keywords # <<>> => Last(r.index_content) = NUL
      /\ trim_trailing_null(r.index_content) =
           trim_trailing_null(Cut(keywords, MAX_INDEX_SIZE - 1))
  BY GatewayBuilds
<1>2. r \in LegalRequests(S)
  BY <1>1 DEF LegalRequests
<1>3. Len(serialize_encdb_request(r)) \in Uint32
  OBVIOUS
<1> HIDE DEF r
<1>4. GatewayTransported(r) = r
  BY <1>2, <1>3, GatewayRequestsArrive
<1> QED BY <1>1, <1>4 DEF r

-----------------------------------------------------------------------------
(* How long requests and answers are.                                      *)

LEMMA Below ==
  ASSUME NEW n \in Uint32, NEW m \in Nat, m <= n
  PROVE  m \in Uint32
<1>1. n < 4294967296 /\ n \in Nat
  BY SMT DEF Uint32
<1>2. m < 4294967296
  BY <1>1
<1> QED BY <1>2, SMT DEF Uint32

LEMMA SmallNumbers == \A n \in Nat : n <= 16777216 => n \in Uint32
<1>1. 16777216 \in Uint32
  BY SMT DEF Uint32
<1> QED BY <1>1, Below

LEMMA ShortBodies ==
  ASSUME NEW S, Uint8 \subseteq S, NEW r \in InitRequests(S) \cup ShutdownRequests
  PROVE  Len(serialize_encdb_request(r)) \in Uint32
<1> DEFINE b == RequestBody(r)
<1>1. r.client_id \in Uint8 /\ r.type \in Uint32
  BY Kinds DEF InitRequests, ShutdownRequests
<1>2. b \in Seq(S) /\ Len(b) \in {1, 6}
  <2>1. CASE r \in InitRequests(S)
    <3> DEFINE k == <<r.key>>
               m == U8(r.mode)
               w == U32(r.target_edb_id)
    <3>1. r.type = INIT /\ r.key \in S /\ r.mode \in Uint8 /\ r.target_edb_id \in Uint32
      BY <2>1 DEF InitRequests
    <3>2. b = Cat(Cat(k, m), w)
      <4>1. b = (k \o m) \o w
        BY <3>1, Kinds DEF RequestBody
      <4> QED BY <4>1, Zenon DEF Cat
    <3>3. k \in Seq(S) /\ Len(k) = 1 /\ m \in Seq(S) /\ Len(m) = 1 /\ w \in Seq(S) /\ Len(w) = 4
      <4>1. k \in Seq(S) /\ Len(k) = 1
        BY <3>1
      <4>2. m \in Seq(S) /\ Len(m) = 1
        BY <3>1, LastByte DEF Sized
      <4>3. w \in Seq(S) /\ Len(w) = 4
        BY <3>1, LastU32
      <4> QED BY <4>1, <4>2, <4>3, Zenon
    <3> HIDE DEF b, k, m, w
    <3>4. Cat(k, m) \in Seq(S) /\ Len(Cat(k, m)) = Len(k) + Len(m)
      BY <3>3, CatSeq, Zenon
    <3>5. Cat(Cat(k, m), w) \in Seq(S) /\ Len(Cat(Cat(k, m), w)) = Len(Cat(k, m)) + Len(w)
      BY <3>3, <3>4, CatSeq, Zenon
    <3>6. Len(Cat(Cat(k, m), w)) = 6
      BY <3>3, <3>4, <3>5
    <3> QED BY <3>2, <3>5, <3>6
  <2>2. CASE r \in ShutdownRequests
    <3>1. r.type = SHUTDOWN /\ r.reserved \in Uint8
      BY <2>2 DEF ShutdownRequests
    <3>2. b = U8(r.reserved)
      BY <3>1, Kinds DEF RequestBody
    <3> HIDE DEF b
    <3>3. b \in Seq(S) /\ Len(b) = 1
      BY <3>1, <3>2, LastByte DEF Sized
    <3> QED BY <3>3
  <2> QED BY <2>1, <2>2
<1>3. Len(serialize_encdb_request(r)) = 9 + Len(b)
  BY <1>1, <1>2, SerializedLength
<1>4. 10 \in Uint32 /\ 15 \in Uint32
  BY SMT DEF Uint32
<1> HIDE DEF b
<1>5. Len(serialize_encdb_request(r)) \in {10, 15}
  <2>1. CASE Len(b) = 1
    BY <1>3, <2>1, 9 + 1 = 10
  <2>2. CASE Len(b) = 6
    BY <1>3, <2>2, 9 + 6 = 15
  <2> QED BY <1>2, <2>1, <2>2
<1> QED BY <1>4, <1>5

LEMMA UpdateBody ==
  ASSUME NEW S, Uint8 \subseteq S, NEW r \in UpdateRequests(S)
  PROVE  /\ RequestBody(r) \in Seq(S)
         /\ Len(RequestBody(r)) <= 15 + Len(r.index_content) + Len(r.doc_content)
<1> DEFINE b == RequestBody(r)
           split == Cat(Cat(Cat(U8(UPDATE_WIRE_V1), U8(UPDATE_SPLIT)), Long(r.index_content)),
                        Long(r.doc_content))
           single == Cat(U8(UPDATE_WIRE_LEGACY_SINGLE), Long(r.doc_content))
           head == Cat(U8(r.op), U32(r.doc_id))
<1>1. r.type = UPDATE /\ r.flags \in {UPDATE_SPLIT, UPDATE_LEGACY}
  BY DEF UpdateRequests
<1>a. /\ r.op \in Uint8 /\ r.doc_id \in Uint32
      /\ r.index_content \in Seq(S) /\ r.doc_content \in Seq(S)
      /\ Len(r.index_content) <= MAX_INDEX_SIZE /\ Len(r.doc_content) <= MAX_DOC_SIZE
  BY DEF UpdateRequests
<1>b. /\ Len(r.index_content) \in Uint32 /\ Len(r.doc_content) \in Uint32
      /\ Len(r.index_content) \in Nat /\ Len(r.doc_content) \in Nat
  <2>1. Len(r.index_content) \in Uint32 /\ Len(r.doc_content) \in Uint32
    BY <1>a, Caps, LengthFits
  <2> QED BY <1>a, <2>1
<1>2. b = IF r.flags = UPDATE_SPLIT THEN Cat(head, split) ELSE Cat(head, single)
  <2>1. b = (U8(r.op) \o U32(r.doc_id)) \o
              (IF r.flags = UPDATE_SPLIT
               THEN ((U8(UPDATE_WIRE_V1) \o U8(r.flags)) \o Long(r.index_content))
                      \o Long(r.doc_content)
               ELSE U8(UPDATE_WIRE_LEGACY_SINGLE) \o Long(r.doc_content))
    BY <1>1, Kinds DEF RequestBody
  <2> QED BY <2>1, Zenon DEF Cat
<1>3. \A u \in Seq(S) : Cat(head, u) \in Seq(S) /\ Len(Cat(head, u)) = 5 + Len(u)
  BY <1>a, CatHeader
<1>4. split \in Seq(S) /\ Len(split) = 10 + Len(r.index_content) + Len(r.doc_content)
  <2> SUFFICES ASSUME NEW x \in Seq(S), Len(x) \in Uint32, NEW y \in Seq(S), Len(y) \in Uint32
               PROVE  LET u == Cat(Cat(Cat(U8(UPDATE_WIRE_V1), U8(UPDATE_SPLIT)), Long(x)), Long(y))
                      IN  u \in Seq(S) /\ Len(u) = 10 + Len(x) + Len(y)
    BY <1>a, <1>b, Zenon
  <2> QED BY SplitRead
<1>5. single \in Seq(S) /\ Len(single) = 5 + Len(r.doc_content)
  <2> SUFFICES ASSUME NEW y \in Seq(S), Len(y) \in Uint32
               PROVE  LET u == Cat(U8(UPDATE_WIRE_LEGACY_SINGLE), Long(y))
                      IN  u \in Seq(S) /\ Len(u) = 5 + Len(y)
    BY <1>a, <1>b, Zenon
  <2> QED BY SingleRead
<1> HIDE DEF b, head, split, single
<1>6. /\ Cat(head, split) \in Seq(S) /\ Len(Cat(head, split)) = 5 + Len(split)
      /\ Cat(head, single) \in Seq(S) /\ Len(Cat(head, single)) = 5 + Len(single)
  BY <1>3, <1>4, <1>5, Zenon
<1>7. b \in Seq(S) /\ Len(b) <= 15 + Len(r.index_content) + Len(r.doc_content)
  <2>1. b \in {Cat(head, split), Cat(head, single)}
    BY <1>2, Zenon
  <2>2. b \in Seq(S) /\ Len(b) \in {5 + Len(split), 5 + Len(single)}
    BY <1>6, <2>1
  <2>3. \A n, x, y \in Nat : n \in {5 + (10 + x + y), 5 + (5 + y)} => n <= 15 + x + y
    OBVIOUS
  <2> DEFINE n == Len(b)
             x == Len(r.index_content)
             y == Len(r.doc_content)
  <2>4. n \in Nat /\ x \in Nat /\ y \in Nat
    BY <1>b, <2>2
  <2>5. n \in {5 + (10 + x + y), 5 + (5 + y)}
    BY <1>4, <1>5, <2>2, Zenon
  <2> HIDE DEF n, x, y
  <2>6. n <= 15 + x + y
    BY <2>3, <2>4, <2>5
  <2> QED BY <2>2, <2>6 DEF n, x, y
<1> QED BY <1>7 DEF b

(* With the sizes the server takes, the length in front of a request never *)
(* overflows: an update of a client, and what the gateway makes of one,    *)
(* arrive whatever is in them.                                             *)
THEOREM UpdatesAlwaysArrive ==
  ASSUME NEW S, Uint8 \subseteq S, 24 + MAX_INDEX_SIZE + MAX_DOC_SIZE \in Uint32,
         NEW r \in UpdateRequests(S)
  PROVE  Transported(r) = r /\ GatewayTransported(r) = r
<1>1. RequestBody(r) \in Seq(S) /\ Len(RequestBody(r)) <= 15 + Len(r.index_content) + Len(r.doc_content)
  BY UpdateBody
<1>2. /\ r.client_id \in Uint8 /\ r.type = UPDATE
      /\ r.index_content \in Seq(S) /\ r.doc_content \in Seq(S)
      /\ Len(r.index_content) <= MAX_INDEX_SIZE /\ Len(r.doc_content) <= MAX_DOC_SIZE
  BY DEF UpdateRequests
<1>3. Len(serialize_encdb_request(r)) = 9 + Len(RequestBody(r))
  BY <1>1, <1>2, Kinds, SerializedLength
<1>4. Len(serialize_encdb_request(r)) \in Uint32
  <2>1. Len(RequestBody(r)) \in Nat /\ Len(r.index_content) \in Nat /\ Len(r.doc_content) \in Nat
    BY <1>1, <1>2
  <2>2. MAX_INDEX_SIZE \in Nat /\ MAX_DOC_SIZE \in Nat
    BY Caps DEF Uint32
  <2>3. 9 + Len(RequestBody(r)) \in Nat
        /\ 9 + Len(RequestBody(r)) <= 24 + MAX_INDEX_SIZE + MAX_DOC_SIZE
    <3>1. \A n, x, y, k, l \in Nat : n <= 15 + x + y /\ x <= k /\ y <= l => 9 + n <= 24 + k + l
      OBVIOUS
    <3> DEFINE n == Len(RequestBody(r))
               x == Len(r.index_content)
               y == Len(r.doc_content)
    <3>2. n \in Nat /\ x \in Nat /\ y \in Nat
      BY <2>1
    <3>3. n <= 15 + x + y /\ x <= MAX_INDEX_SIZE /\ y <= MAX_DOC_SIZE
      BY <1>1, <1>2, Zenon
    <3> HIDE DEF n, x, y
    <3>4. 9 + n \in Nat /\ 9 + n <= 24 + MAX_INDEX_SIZE + MAX_DOC_SIZE
      BY <2>2, <3>1, <3>2, <3>3
    <3> QED BY <3>4 DEF n
  <2>4. 9 + Len(RequestBody(r)) \in Uint32
    BY <2>3, Below, Zenon
  <2> QED BY <1>3, <2>4, Zenon
<1>5. r \in LegalRequests(S)
  BY DEF LegalRequests
<1> QED BY <1>4, <1>5, RequestsArrive, GatewayRequestsArrive, Zenon
LEMMA ShortAnswers ==
  ASSUME NEW S, Uint8 \subseteq S,
         NEW r \in InitResponses \cup UpdateResponses \cup ShutdownResponses
  PROVE  Len(serialize_encdb_response(r)) \in Uint32
<1> DEFINE b == ResponseBody(r)
           s == Cat(Cat(U32(r.status), U32(r.type)), Long(b))
<1>1. r.status \in Uint32 /\ r.type \in Uint32
  BY ResultKinds DEF InitResponses, UpdateResponses, ShutdownResponses
<1>2. b \in Seq(S) /\ Len(b) \in {1, 8}
  <2>1. CASE r \in InitResponses
    <3>1. b = U8(r.edb_id) /\ r.edb_id \in Uint8
      BY <2>1, ResultKinds DEF ResponseBody, InitResponses
    <3> HIDE DEF b
    <3>2. b \in Seq(S) /\ Len(b) = 1
      BY <3>1, LastByte DEF Sized
    <3> QED BY <3>2
  <2>2. CASE r \in ShutdownResponses
    <3>1. b = U8(r.success) /\ r.success \in Uint8
      BY <2>2, ResultKinds DEF ResponseBody, ShutdownResponses
    <3> HIDE DEF b
    <3>2. b \in Seq(S) /\ Len(b) = 1
      BY <3>1, LastByte DEF Sized
    <3> QED BY <3>2
  <2>3. CASE r \in UpdateResponses
    <3> DEFINE x == U32(r.success)
               y == U32(r.doc_id)
    <3>1. b = x \o y /\ r.success \in Uint32 /\ r.doc_id \in Uint32
      BY <2>3, ResultKinds DEF ResponseBody, UpdateResponses
    <3>2. x \in Seq(S) /\ Len(x) = 4 /\ y \in Seq(S) /\ Len(y) = 4
      BY <3>1, LastU32, Zenon
    <3> HIDE DEF b, x, y
    <3>3. b \in Seq(S) /\ Len(b) = Len(x) + Len(y)
      BY <3>1, <3>2, Joined
    <3> QED BY <3>2, <3>3
  <2> QED BY <2>1, <2>2, <2>3
<1>3. serialize_encdb_response(r) = s
  BY Zenon DEF serialize_encdb_response, Cat
<1> HIDE DEF b
<1>4. Len(s) = 12 + Len(b)
  <2> SUFFICES ASSUME NEW status \in Uint32, NEW type \in Uint32, NEW body \in Seq(S)
               PROVE  Len(Cat(Cat(U32(status), U32(type)), Long(body))) = 12 + Len(body)
    BY <1>1, <1>2, Zenon
  <2> QED BY AnswerRead
<1> HIDE DEF s
<1>5. 13 \in Uint32 /\ 20 \in Uint32
  BY SMT DEF Uint32
<1>6. CASE Len(b) = 1
  BY <1>3, <1>4, <1>5, <1>6, 12 + 1 = 13
<1>7. CASE Len(b) = 8
  BY <1>3, <1>4, <1>5, <1>7, 12 + 8 = 20
<1> QED BY <1>2, <1>6, <1>7
=============================================================================
