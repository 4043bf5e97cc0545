------------------------------ MODULE WireProofs ------------------------------
(***************************************************************************)
(* The byte stream between two ends of a connection is transparent, for    *)
(* any bodies and any cut of the stream by partial writes and short reads. *)
(* The proof rests on what the parts of Wire do for byte sequences of any  *)
(* length: Buffer keeps its unread bytes, parseTlvMap returns the fields   *)
(* that appendString encoded, and feed returns the packets behind its      *)
(* offset.  Those rest on how cuts of a sequence compose and on a          *)
(* definition by recursion over a rank having a solution: each loop of the *)
(* code reads on from a later offset.                                      *)
(***************************************************************************)
EXTENDS Wire, SequenceTheorems, NaturalsInduction, WellFoundedInduction, TLAPS

-----------------------------------------------------------------------------
(* Cuts of sequences. *)

\* The elements of s after offset a, up to offset b.
Slice(s, a, b) == SubSeq(s, a + 1, b)

\* A slice has one element for each place it covers, the one at that place.
LEMMA SliceProperties ==
    ASSUME NEW S, NEW s \in Seq(S), NEW a \in Nat, NEW b \in Nat, a <= b, b <= Len(s)
    PROVE  /\ Slice(s, a, b) \in Seq(S)
           /\ Len(Slice(s, a, b)) = b - a
           /\ \A i \in 1..(b - a) : Slice(s, a, b)[i] = s[a + i]
<1> DEFINE m == a + 1
<1>1. m \in Int /\ b \in Int /\ \A i \in m..b : s[i] \in S
  BY ElementOfSeq
<1>2. /\ SubSeq(s, m, b) \in Seq(S)
      /\ Len(SubSeq(s, m, b)) = IF m <= b THEN b - m + 1 ELSE 0
      /\ \A i \in 1..(b - m + 1) : SubSeq(s, m, b)[i] = s[m + i - 1]
  <2> HIDE DEF m
  <2>1. QED
    BY <1>1, SubSeqProperties, SMTT(30)
<1>3. b - m + 1 = b - a /\ \A i \in 1..(b - a) : m + i - 1 = a + i
  OBVIOUS
<1>4. QED
  BY <1>2, <1>3 DEF Slice

\* The slice between an offset and itself is empty.
LEMMA SliceEmpty ==
    ASSUME NEW s, NEW a \in Nat
    PROVE  Slice(s, a, a) = <<>>
BY SubSeqEmpty DEF Slice

\* The slice from offset 0 is the front of the sequence.
LEMMA FromStart ==
    \A s, n : SubSeq(s, 1, n) = Slice(s, 0, n)
<1>1. 0 + 1 = 1
  OBVIOUS
<1>2. QED
  BY <1>1 DEF Slice

\* A slice from offset 0 keeps the places of its elements.
LEMMA FrontSlice ==
    ASSUME NEW S, NEW s \in Seq(S), NEW n \in Nat, n <= Len(s)
    PROVE  /\ Slice(s, 0, n) \in Seq(S)
           /\ Len(Slice(s, 0, n)) = n
           /\ \A i \in 1..n : Slice(s, 0, n)[i] = s[i]
<1>1. 0 \in Nat /\ 0 <= n
  OBVIOUS
<1>2. /\ Slice(s, 0, n) \in Seq(S) /\ Len(Slice(s, 0, n)) = n - 0
      /\ \A i \in 1..(n - 0) : Slice(s, 0, n)[i] = s[0 + i]
  BY <1>1, SliceProperties, Zenon
<1>3. n - 0 = n /\ \A i \in 1..n : 0 + i = i
  OBVIOUS
<1>4. QED
  BY <1>2, <1>3

\* The slice over all of a sequence is the sequence.
LEMMA WholeSlice ==
    ASSUME NEW S, NEW s \in Seq(S)
    PROVE  Slice(s, 0, Len(s)) = s
<1>1. PICK t : t = Slice(s, 0, Len(s))
  OBVIOUS
<1>2. t \in Seq(S) /\ Len(t) = Len(s) /\ \A i \in 1..Len(s) : t[i] = s[i]
  <2>1. Len(s) \in Nat /\ Len(s) <= Len(s)
    OBVIOUS
  <2>2. QED
    BY <1>1, <2>1, FrontSlice, Zenon
<1>3. QED
  BY <1>1, <1>2, SeqEqual

\* What a concatenation holds, place by place.
LEMMA Joined ==
    ASSUME NEW S, NEW s \in Seq(S), NEW t \in Seq(S)
    PROVE  /\ s \o t \in Seq(S)
           /\ Len(s \o t) = Len(s) + Len(t)
           /\ \A i \in 1..Len(s) : (s \o t)[i] = s[i]
           /\ \A i \in 1..Len(t) : (s \o t)[Len(s) + i] = t[i]
<1>1. Len(s) \in Nat /\ Len(t) \in Nat
  OBVIOUS
<1>2. QED
  BY <1>1, ConcatProperties

\* A slice of a slice is a slice, at the sum of the offsets: what is left to
\* read after Buffer::retrieve has dropped a prefix.
LEMMA SliceOfSlice ==
    ASSUME NEW S, NEW s \in Seq(S), NEW a \in Nat, NEW b \in Nat, NEW n \in Nat,
           NEW m \in Nat, n <= m, a + m <= b, b <= Len(s)
    PROVE  Slice(Slice(s, a, b), n, m) = Slice(s, a + n, a + m)
<1>1. PICK t : t = Slice(s, a, b)
  OBVIOUS
<1>2. t \in Seq(S) /\ Len(t) = b - a /\ \A i \in 1..(b - a) : t[i] = s[a + i]
  <2>1. a <= b
    OBVIOUS
  <2>2. QED
    BY <1>1, <2>1, SliceProperties, Zenon
<1>3. PICK u : u = Slice(t, n, m)
  OBVIOUS
<1>4. u \in Seq(S) /\ Len(u) = m - n /\ \A i \in 1..(m - n) : u[i] = t[n + i]
  <2>1. t \in Seq(S) /\ m <= Len(t)
    BY <1>2
  <2>2. QED
    BY <1>3, <2>1, SliceProperties, Zenon
<1>5. PICK c \in Nat, d \in Nat : c = a + n /\ d = a + m /\ c <= d /\ d <= Len(s)
  OBVIOUS
<1>6. PICK v : v = Slice(s, c, d)
  OBVIOUS
<1>7. v \in Seq(S) /\ Len(v) = d - c /\ \A i \in 1..(d - c) : v[i] = s[c + i]
  <2>1. c <= d /\ d <= Len(s)
    BY <1>5
  <2>2. QED
    BY <1>6, <2>1, SliceProperties, ZenonT(40)
<1>8. ASSUME NEW i \in 1..(m - n)
      PROVE  u[i] = v[i]
  <2>1. n + i \in 1..(b - a) /\ i \in 1..(d - c) /\ a + (n + i) = c + i
    BY <1>5
  <2>2. QED
    BY <1>2, <1>4, <1>7, <2>1, Zenon
<1>9. u = v
  <2>1. Len(u) = m - n /\ Len(v) = m - n
    BY <1>4, <1>5, <1>7
  <2>2. QED
    BY <1>4, <1>7, <1>8, <2>1, SeqEqual
<1>10. QED
  BY <1>1, <1>3, <1>5, <1>6, <1>9

\* Neighbouring slices join.
LEMMA SliceJoin ==
    ASSUME NEW S, NEW s \in Seq(S), NEW a \in Nat, NEW b \in Nat, NEW c \in Nat,
           a <= b, b <= c, c <= Len(s)
    PROVE  Slice(s, a, c) = Slice(s, a, b) \o Slice(s, b, c)
<1>1. a + 1 \in 1..(Len(s) + 1) /\ b \in ((a + 1) - 1)..Len(s) /\ c \in b..Len(s)
  OBVIOUS
<1>2. QED
  BY <1>1, ConcatAdjacentSubSeq DEF Slice

\* What is appended later leaves the slices in front of it alone.
LEMMA SliceLeft ==
    ASSUME NEW S, NEW s \in Seq(S), NEW t \in Seq(S), NEW a \in Nat, NEW b \in Nat,
           a <= b, b <= Len(s)
    PROVE  Slice(s \o t, a, b) = Slice(s, a, b)
<1>0. PICK c : c = s \o t
  BY Zenon
<1>1. c \in Seq(S) /\ Len(c) = Len(s) + Len(t) /\ \A i \in 1..Len(s) : c[i] = s[i]
  BY <1>0, Joined
<1>2. PICK u : u = Slice(c, a, b)
  OBVIOUS
<1>3. u \in Seq(S) /\ Len(u) = b - a /\ \A i \in 1..(b - a) : u[i] = c[a + i]
  <2>1. c \in Seq(S) /\ b <= Len(c)
    BY <1>1
  <2>2. QED
    BY <1>2, <2>1, SliceProperties, Zenon
<1>4. PICK v : v = Slice(s, a, b)
  OBVIOUS
<1>5. v \in Seq(S) /\ Len(v) = b - a /\ \A i \in 1..(b - a) : v[i] = s[a + i]
  BY <1>4, SliceProperties, Zenon
<1>6. \A i \in 1..(b - a) : a + i \in 1..Len(s)
  OBVIOUS
<1>7. \A i \in 1..(b - a) : u[i] = v[i]
  BY <1>1, <1>3, <1>5, <1>6, Zenon
<1>8. u = v
  BY <1>3, <1>5, <1>7, SeqEqual
<1>9. QED
  BY <1>0, <1>2, <1>4, <1>8

\* Slices of a concatenation behind the joint are slices of its second part.
LEMMA SliceRight ==
    ASSUME NEW S, NEW s \in Seq(S), NEW t \in Seq(S), NEW a \in Nat, NEW b \in Nat,
           a <= b, b <= Len(t)
    PROVE  Slice(s \o t, Len(s) + a, Len(s) + b) = Slice(t, a, b)
<1>0. PICK k \in Nat : k = Len(s)
  OBVIOUS
<1>1. PICK c \in Seq(S) : c = s \o t
  BY Joined, Zenon
<1>1a. Len(c) = k + Len(t)
  BY <1>0, <1>1, Joined
<1>2. Len(c) = k + Len(t) /\ \A i \in 1..Len(t) : c[k + i] = t[i]
  BY <1>0, <1>1, Joined
<1>3. PICK p \in Nat, q \in Nat :
         p = k + a /\ q = k + b /\ p <= q /\ q <= Len(c) /\ q - p = b - a
  <2>1. k + a \in Nat /\ k + b \in Nat /\ k + a <= k + b /\ k + b <= Len(c)
        /\ (k + b) - (k + a) = b - a
    BY <1>1a
  <2>2. QED
    BY <2>1
<1>4. PICK u : u = Slice(c, p, q)
  OBVIOUS
<1>5. u \in Seq(S) /\ Len(u) = q - p /\ \A i \in 1..(q - p) : u[i] = c[p + i]
  <2>1. p <= q /\ q <= Len(c)
    BY <1>3
  <2>2. QED
    BY <1>4, <2>1, SliceProperties, ZenonT(40)
<1>6. PICK v : v = Slice(t, a, b)
  OBVIOUS
<1>7. v \in Seq(S) /\ Len(v) = b - a /\ \A i \in 1..(b - a) : v[i] = t[a + i]
  BY <1>6, SliceProperties, ZenonT(40)
<1>8. ASSUME NEW i \in 1..(b - a) PROVE u[i] = v[i]
  <2>1. i \in 1..(q - p)
    BY <1>3
  <2>2. a + i \in 1..Len(t) /\ p + i = k + (a + i)
    BY <1>3
  <2>3. QED
    BY <1>2, <1>5, <1>7, <2>1, <2>2, ZenonT(40)
<1>9. u = v
  <2>1. Len(u) = b - a /\ Len(v) = b - a /\ u \in Seq(S) /\ v \in Seq(S)
    BY <1>3, <1>5, <1>7
  <2>2. \A i \in 1..(b - a) : u[i] = v[i]
    BY <1>8
  <2>3. QED
    BY <2>1, <2>2, SeqEqual
<1>10. QED
  BY <1>0, <1>1, <1>3, <1>4, <1>6, <1>9

\* The slices before and behind the joint are the two parts.
LEMMA SliceParts ==
    ASSUME NEW S, NEW s \in Seq(S), NEW t \in Seq(S)
    PROVE  /\ s \o t \in Seq(S) /\ Len(s \o t) = Len(s) + Len(t)
           /\ Slice(s \o t, 0, Len(s)) = s
           /\ Slice(s \o t, Len(s), Len(s \o t)) = t
<1>0. PICK c : c = s \o t
  BY Zenon
<1>1. PICK k \in Nat, m \in Nat : k = Len(s) /\ m = Len(t)
  OBVIOUS
<1>2. c \in Seq(S) /\ Len(c) = k + m
  BY <1>0, <1>1, Joined
<1>3. Slice(c, 0, k) = s
  <2>1. 0 \in Nat /\ 0 <= k /\ k <= Len(s)
    BY <1>1
  <2>2. Slice(s \o t, 0, k) = Slice(s, 0, k)
    BY <2>1, SliceLeft
  <2>3. QED
    BY <1>0, <1>1, <2>2, WholeSlice
<1>4. Slice(c, k, k + m) = t
  <2>1. 0 \in Nat /\ 0 <= m /\ m <= Len(t)
    BY <1>1
  <2>2. Slice(s \o t, Len(s) + 0, Len(s) + m) = Slice(t, 0, m)
    BY <2>1, SliceRight
  <2>3. Len(s) + 0 = k /\ Len(s) + m = k + m
    BY <1>1
  <2>4. QED
    BY <1>0, <1>1, <2>2, <2>3, WholeSlice
<1>5. QED
  BY <1>0, <1>1, <1>2, <1>3, <1>4

\* What follows offset a grows by what is appended.
LEMMA TailGrows ==
    ASSUME NEW S, NEW s \in Seq(S), NEW t \in Seq(S), NEW a \in Nat, a <= Len(s)
    PROVE  Slice(s \o t, a, Len(s \o t)) = Slice(s, a, Len(s)) \o t
<1>1. PICK c : c = s \o t
  BY Zenon
<1>2. PICK k \in Nat, n \in Nat : k = Len(s) /\ n = Len(c)
  BY <1>1, Joined
<1>3. c \in Seq(S) /\ a <= k /\ k <= n /\ n <= Len(c) /\ Slice(c, k, n) = t
  <2>1. c \in Seq(S) /\ Len(c) = Len(s) + Len(t) /\ Slice(c, Len(s), Len(c)) = t
    BY <1>1, SliceParts
  <2>2. a <= k /\ k <= n /\ n <= Len(c)
    BY <1>2, <2>1
  <2>3. QED
    BY <1>2, <2>1, <2>2
<1>4. Slice(c, a, n) = Slice(c, a, k) \o Slice(c, k, n)
  BY <1>3, SliceJoin, Zenon
<1>5. Slice(s \o t, a, k) = Slice(s, a, k)
  <2>1. a <= k /\ k <= Len(s)
    BY <1>2
  <2>2. QED
    BY <2>1, SliceLeft
<1>6. QED
  BY <1>1, <1>2, <1>3, <1>4, <1>5

\* Sequences that agree up to b have the same slices up to there.
LEMMA SameSlice ==
    ASSUME NEW S, NEW s \in Seq(S), NEW t \in Seq(S), NEW a \in Nat, NEW b \in Nat,
           a <= b, b <= Len(s), b <= Len(t)
    PROVE  (\A i \in 1..b : t[i] = s[i]) => Slice(t, a, b) = Slice(s, a, b)
<1>1. PICK u : u = Slice(t, a, b)
  OBVIOUS
<1>2. u \in Seq(S) /\ Len(u) = b - a /\ \A i \in 1..(b - a) : u[i] = t[a + i]
  BY <1>1, SliceProperties, Zenon
<1>3. PICK v : v = Slice(s, a, b)
  OBVIOUS
<1>4. v \in Seq(S) /\ Len(v) = b - a /\ \A i \in 1..(b - a) : v[i] = s[a + i]
  BY <1>3, SliceProperties, Zenon
<1>5. \A i \in 1..(b - a) : a + i \in 1..b
  OBVIOUS
<1> HAVE \A i \in 1..b : t[i] = s[i]
<1>6. \A i \in 1..(b - a) : u[i] = v[i]
  BY <1>2, <1>4, <1>5
<1>7. QED
  BY <1>1, <1>2, <1>3, <1>4, <1>6, SeqEqual

\* A window of m bytes on the stream W, at offset a.
LEMMA Window ==
    ASSUME NEW W \in Seq(Nat), NEW a \in Nat, NEW m \in Nat, a + m <= Len(W)
    PROVE  /\ Slice(W, a, a + m) \in Seq(Nat)
           /\ Len(Slice(W, a, a + m)) = m
           /\ \A q \in 1..m : Slice(W, a, a + m)[q] = W[a + q]
<1>1. PICK e \in Nat : e = a + m /\ a <= e /\ e <= Len(W) /\ e - a = m
  OBVIOUS
<1>2. a <= e /\ e <= Len(W)
  BY <1>1
<1>3. /\ Slice(W, a, e) \in Seq(Nat) /\ Len(Slice(W, a, e)) = e - a
      /\ \A q \in 1..(e - a) : Slice(W, a, e)[q] = W[a + q]
  BY <1>2, SliceProperties, Zenon
<1>4. QED
  BY <1>1, <1>3

\* Stated as a predicate of its own, so that a proof may carry it unopened.
SubWindow(W, a, b, n, m) == Slice(Slice(W, a, b), n, m) = Slice(W, a + n, a + m)

\* The bytes n to m of a window are a window of the stream.
LEMMA BytesSubWindow ==
    ASSUME NEW W \in Seq(Nat), NEW a \in Nat, NEW b \in Nat, NEW n \in Nat,
           NEW m \in Nat, n <= m, a + m <= b, b <= Len(W)
    PROVE  SubWindow(W, a, b, n, m)
BY SliceOfSlice DEF SubWindow

\* Associativity at three byte sequences.
Associates(s, t, u) == (s \o t) \o u = s \o (t \o u)

\* Appending twice appends the concatenation.
LEMMA BytesAssociate ==
    ASSUME NEW s \in Seq(Nat), NEW t \in Seq(Nat), NEW u \in Seq(Nat)
    PROVE  Associates(s, t, u)
BY ConcatAssociative, SMTT(30) DEF Associates

\* When nothing is left of a concatenation, nothing is left of its front.
LEMMA NoBytes ==
    ASSUME NEW s \in Seq(Nat), NEW t \in Seq(Nat), s \o t = <<>>
    PROVE  s = <<>>
BY ConcatEqualIffEmpty

\* A sequence of one element.
LEMMA Single ==
    ASSUME NEW S, NEW p \in S
    PROVE  <<p>> \in Seq(S) /\ Len(<<p>>) = 1 /\ <<p>>[1] = p
OBVIOUS

\* A place behind the first follows a place.
LEMMA PredecessorIn ==
    ASSUME NEW k \in Nat, NEW i \in 1..(k + 1), i # 1
    PROVE  \E h \in 1..k : i = h + 1
<1>1. i - 1 \in 1..k /\ i = (i - 1) + 1
  OBVIOUS
<1>2. QED
  BY <1>1

\* A pair of numbers as a byte sequence: a header, or a field's type and length.
LEMMA TwoUnits ==
    ASSUME NEW u \in Nat, NEW v \in Nat
    PROVE  \E h \in Seq(Nat) : h = <<u, v>> /\ Len(h) = 2 /\ h[1] = u /\ h[2] = v
<1>1. <<u, v>> \in Seq(Nat) /\ Len(<<u, v>>) = 2 /\ <<u, v>>[1] = u /\ <<u, v>>[2] = v
  OBVIOUS
<1>2. QED
  BY <1>1, Zenon

\* V is W with the header h and the body behind it.
Joins(W, h, body, V) ==
    /\ Len(V) = Len(W) + 2 + Len(body)
    /\ V[Len(W) + 1] = h[1] /\ V[Len(W) + 2] = h[2]
    /\ Slice(V, Len(W) + 2, Len(V)) = body

\* Appending an encoded header and body puts each where a reader looks for it.
LEMMA HeaderAndBody ==
    ASSUME NEW W \in Seq(Nat), NEW h \in Seq(Nat), Len(h) = 2, NEW body \in Seq(Nat)
    PROVE  h \o body \in Seq(Nat) /\ Joins(W, h, body, W \o (h \o body))
<1>2. PICK w : w = h \o body
  BY Zenon
<1>3. w \in Seq(Nat)
  BY <1>2, Joined
<1>4. Slice(w, 2, Len(w)) = body /\ Len(w) = 2 + Len(body)
  <2>1. PICK g \in Seq(Nat) : g = h
    OBVIOUS
  <2>2. Slice(g \o body, Len(g), Len(g \o body)) = body /\ Len(g \o body) = Len(g) + Len(body)
    BY SliceParts
  <2>3. QED
    BY <1>2, <2>1, <2>2, Zenon
<1>4a. PICK V : V = W \o w
  BY Zenon
<1>5. w[1] = h[1] /\ w[2] = h[2]
  <2>1. \A i \in 1..Len(h) : w[i] = h[i]
    BY <1>2, Joined, ZenonT(40)
  <2>2. QED
    BY <2>1
<1>6. V \in Seq(Nat) /\ Len(V) = Len(W) + Len(w)
  BY <1>3, <1>4a, Joined
<1>7. Len(V) = Len(W) + 2 + Len(body)
  BY <1>4, <1>6
<1>8. V[Len(W) + 1] = h[1] /\ V[Len(W) + 2] = h[2]
  <2>1. \A i \in 1..Len(w) : V[Len(W) + i] = w[i]
    BY <1>3, <1>4a, Joined
  <2>2. 1 \in 1..Len(w) /\ 2 \in 1..Len(w)
    BY <1>4
  <2>3. QED
    BY <1>5, <2>1, <2>2
<1>9. Slice(V, Len(W) + 2, Len(V)) = body
  <2>1. PICK n \in Nat : n = Len(w) /\ 2 <= n
    <3>1. Len(w) \in Nat /\ 2 <= Len(w)
      BY <1>3, <1>4
    <3>2. QED
      BY <3>1
  <2>2. w \in Seq(Nat) /\ 2 \in Nat /\ 2 <= n /\ n <= Len(w)
    BY <1>3, <2>1
  <2>3. Slice(W \o w, Len(W) + 2, Len(W) + n) = Slice(w, 2, n)
    BY <2>2, SliceRight
  <2>4. QED
    BY <1>4, <1>4a, <1>6, <2>1, <2>3
<1>10. QED
  BY <1>2, <1>3, <1>4a, <1>7, <1>8, <1>9 DEF Joins

-----------------------------------------------------------------------------
(* Recursive definitions. *)

\* A set of naturals has a least member.
LEMMA LeastMember ==
    ASSUME NEW S, S \subseteq Nat, S # {}
    PROVE  \E x \in S : \A y \in S : x <= y
<1>1. PICK x \in S : \A y \in S : ~(<<y, x>> \in OpToRel(<, Nat))
  BY NatLessThanWellFounded, WFMin, Zenon
<1>2. \A y \in S : ~(y < x)
  BY <1>1, Zenon DEF OpToRel
<1>3. QED
  BY <1>2

\* f and g have the same values at every rank below that of i.
Agree(S, rank, i, f, g) == \A j \in S : rank[j] < rank[i] => f[j] = g[j]

\* G gives the value at i from the values of smaller rank: the shape of the
\* code's loops, which read on from a later offset.
Recursion(S, V, n, rank, G) ==
    /\ V # {} /\ n \in Nat
    /\ rank \in [S -> 0..n]
    /\ G \in [S \X [S -> V] -> V]
    /\ \A i \in S : \A f, g \in [S -> V] :
          Agree(S, rank, i, f, g) => G[<<i, f>>] = G[<<i, g>>]

HasSolution(S, V, G) == \E f \in [S -> V] : \A i \in S : f[i] = G[<<i, f>>]

\* Such a recursive definition has a solution.
LEMMA RecursionHasSolution ==
    ASSUME NEW S, NEW V, NEW n, NEW rank, NEW G, Recursion(S, V, n, rank, G)
    PROVE  HasSolution(S, V, G)
<1> USE DEF Recursion
<1>0. PICK v : v \in V
  OBVIOUS
<1> DEFINE Solves(f, k) == \A i \in S : rank[i] < k => f[i] = G[<<i, f>>]
           Bad == {k \in Nat : ~ \E f \in [S -> V] : Solves(f, k)}
<1>1. Bad = {}
  <2> SUFFICES ASSUME Bad # {} PROVE FALSE
    BY Zenon
  <2>1. PICK k \in Bad : \A l \in Bad : k <= l
    BY LeastMember, Zenon
  <2>2. k # 0
    <3>1. Solves([i \in S |-> v], 0)
      OBVIOUS
    <3>2. [i \in S |-> v] \in [S -> V]
      BY <1>0
    <3>3. 0 \notin Bad
      BY <3>1, <3>2, Zenon
    <3>4. QED
      BY <3>3
  <2>3. k - 1 \in Nat /\ k - 1 \notin Bad
    <3>1. k \in Nat
      BY <2>1
    <3> HIDE DEF Bad
    <3>2. QED
      BY <2>1, <2>2, <3>1
  <2>4. PICK f \in [S -> V] : Solves(f, k - 1)
    BY <2>3, Zenon
  <2> DEFINE g == [i \in S |-> IF rank[i] = k - 1 THEN G[<<i, f>>] ELSE f[i]]
  <2>5. g \in [S -> V]
    OBVIOUS
  <2>6. ASSUME NEW i \in S, rank[i] < k
        PROVE  g[i] = G[<<i, g>>]
    <3>1. Agree(S, rank, i, f, g)
      BY <2>3, <2>6 DEF Agree
    <3>2. G[<<i, f>>] = G[<<i, g>>]
      BY <2>5, <3>1, Zenon
    <3>3. g[i] = G[<<i, f>>]
      BY <2>3, <2>4, <2>6
    <3>4. QED
      BY <3>2, <3>3, Zenon
  <2>7. Solves(g, k)
    BY <2>6, Zenon
  <2>8. QED
    BY <2>1, <2>5, <2>7, Zenon
<1>2. PICK f \in [S -> V] : Solves(f, n + 1)
  <2>1. n + 1 \in Nat
    OBVIOUS
  <2>2. n + 1 \notin Bad
    <3> HIDE DEF Bad
    <3>1. QED
      BY <1>1
  <2> HIDE DEF Recursion, Solves
  <2>3. QED
    BY <2>1, <2>2
<1>3. \A i \in S : rank[i] < n + 1
  OBVIOUS
<1>4. QED
  BY <1>2, <1>3 DEF HasSolution

-----------------------------------------------------------------------------
(* The output buffer. *)

\* A Buffer between two of its calls: 0 <= read_index_ <= write_index_ <= size().
BufferOK(b) ==
    /\ b \in [bytes : Seq(Nat), read : Nat, write : Nat]
    /\ b.read <= b.write /\ b.write <= Len(b.bytes)

\* The parts of a Buffer, and what it still has to be read.
LEMMA BufferFields ==
    ASSUME NEW b, BufferOK(b)
    PROVE  /\ b.bytes \in Seq(Nat) /\ b.read \in Nat /\ b.write \in Nat
           /\ b.read <= b.write /\ b.write <= Len(b.bytes) /\ Len(b.bytes) \in Nat
           /\ b = [bytes |-> b.bytes, read |-> b.read, write |-> b.write]
           /\ Readable(b) = Slice(b.bytes, b.read, b.write)
BY DEF BufferOK, Readable, Slice

\* readableBytes() counts what peek() shows.
LEMMA ReadableProperties ==
    ASSUME NEW b, BufferOK(b)
    PROVE  Readable(b) \in Seq(Nat) /\ Len(Readable(b)) = b.write - b.read
BY BufferFields, SliceProperties

\* ensureWritableBytes, making room in place: moving the unread bytes to the
\* front loses none of them.
LEMMA CompactedKeepsReadable ==
    ASSUME NEW b, BufferOK(b)
    PROVE  /\ BufferOK(Compacted(b))
           /\ Readable(Compacted(b)) = Readable(b)
           /\ Compacted(b).read = 0 /\ Compacted(b).write = b.write - b.read
           /\ Len(Compacted(b).bytes) = Len(b.bytes)
<1>1. PICK n \in Nat : n = b.write - b.read /\ n <= Len(b.bytes)
  BY BufferFields
<1>2. PICK s \in Seq(Nat) : s = b.bytes
  BY BufferFields
<1>3. PICK r \in Seq(Nat) : r = Readable(b) /\ Len(r) = n
  BY <1>1, ReadableProperties
<1>4. PICK back : back = Slice(s, n, Len(s))
  OBVIOUS
<1>5. back \in Seq(Nat) /\ Len(back) = Len(s) - n
  <2>1. PICK m \in Nat : m = Len(s) /\ n <= m /\ m <= Len(s)
    BY <1>1, <1>2
  <2>2. Slice(s, n, m) \in Seq(Nat) /\ Len(Slice(s, n, m)) = m - n
    BY <2>1, SliceProperties, ZenonT(40)
  <2>3. QED
    BY <1>4, <2>1, <2>2
<1>6. PICK t : t = r \o back
  BY Zenon
<1>7. t \in Seq(Nat) /\ Len(t) = Len(s)
  <2>1. Len(r) + Len(back) = Len(s)
    BY <1>1, <1>3, <1>5
  <2>2. QED
    BY <1>3, <1>5, <1>6, <2>1, Joined, Zenon
<1>8. Compacted(b) = [bytes |-> t, read |-> 0, write |-> n]
  BY <1>1, <1>2, <1>3, <1>4, <1>6 DEF Compacted, Slice
<1>9. BufferOK(Compacted(b))
  BY <1>1, <1>2, <1>7, <1>8 DEF BufferOK
<1>10. Readable(Compacted(b)) = r
  <2>1. Readable(Compacted(b)) = Slice(t, 0, n)
    BY <1>8 DEF Readable, Slice
  <2>2. Slice(r \o back, 0, Len(r)) = Slice(r, 0, Len(r))
    BY <1>5, SliceLeft
  <2>3. Slice(r, 0, Len(r)) = r
    BY WholeSlice
  <2>4. QED
    BY <1>3, <1>6, <2>1, <2>2, <2>3
<1>11. QED
  BY <1>1, <1>2, <1>3, <1>7, <1>8, <1>9, <1>10

\* After ensureWritableBytes there is room, and the same bytes to read.
LEMMA EnsureMakesRoom ==
    ASSUME NEW b, BufferOK(b), NEW len \in Nat
    PROVE  /\ BufferOK(EnsureWritableBytes(b, len))
           /\ Readable(EnsureWritableBytes(b, len)) = Readable(b)
           /\ Writable(EnsureWritableBytes(b, len)) >= len
<1>1. CASE Writable(b) >= len
  BY <1>1 DEF EnsureWritableBytes
<1>2. PICK c : c = Compacted(b)
  OBVIOUS
<1>3. /\ BufferOK(c) /\ Readable(c) = Readable(b) /\ c.read = 0
      /\ c.write = b.write - b.read /\ Len(c.bytes) = Len(b.bytes)
  BY <1>2, CompactedKeepsReadable
<1>4. CASE ~(Writable(b) >= len) /\ b.read + Writable(b) >= len
  <2>1. EnsureWritableBytes(b, len) = c
    BY <1>2, <1>4 DEF EnsureWritableBytes
  <2>2. Writable(c) >= len
    BY <1>3, <1>4, BufferFields DEF Writable
  <2>3. QED
    BY <1>3, <2>1, <2>2
<1>5. CASE ~(Writable(b) >= len) /\ ~(b.read + Writable(b) >= len)
  <2>1. PICK s \in Seq(Nat), w \in Nat : s = c.bytes /\ w = c.write /\ w <= Len(s)
    BY <1>3, BufferFields
  <2>2. PICK zeros : zeros = [i \in 1..len |-> 0]
    BY Zenon
  <2>3. zeros \in Seq(Nat) /\ Len(zeros) = len
    <3>1. zeros \in [1..len -> Nat]
      BY <2>2
    <3>2. zeros \in Seq(Nat)
      BY <3>1, SeqDef
    <3>3. QED
      BY <3>1, <3>2, LenProperties
  <2>4. PICK front : front = Slice(s, 0, w)
    OBVIOUS
  <2>5. front \in Seq(Nat) /\ Len(front) = w
    BY <2>1, <2>4, FrontSlice
  <2>6. PICK t : t = front \o zeros
    BY Zenon
  <2>7. t \in Seq(Nat) /\ Len(t) = w + len
    BY <2>3, <2>5, <2>6, Joined, Zenon
  <2>8. EnsureWritableBytes(b, len) = [c EXCEPT !.bytes = t]
    BY <1>2, <1>5, <2>1, <2>2, <2>4, <2>6 DEF EnsureWritableBytes, Slice
  <2>9. EnsureWritableBytes(b, len) = [bytes |-> t, read |-> 0, write |-> w]
    BY <1>3, <2>1, <2>8 DEF BufferOK
  <2>10. BufferOK(EnsureWritableBytes(b, len))
    <3>1. t \in Seq(Nat) /\ w <= Len(t)
      BY <2>7
    <3>2. QED
      BY <2>9, <3>1 DEF BufferOK
  <2>11. Writable(EnsureWritableBytes(b, len)) >= len
    BY <2>7, <2>9 DEF Writable
  <2>12. Readable(c) = Slice(s, 0, w)
    BY <1>3, <2>1 DEF Readable, Slice
  <2>13. Readable(EnsureWritableBytes(b, len)) = Slice(t, 0, w)
    BY <2>9 DEF Readable, Slice
  <2>14. Slice(front \o zeros, 0, Len(front)) = Slice(front, 0, Len(front))
    BY <2>3, <2>5, SliceLeft
  <2>15. Slice(front, 0, Len(front)) = front
    BY <2>5, WholeSlice
  <2>16. QED
    BY <1>3, <2>4, <2>5, <2>6, <2>10, <2>11, <2>12, <2>13, <2>14, <2>15
<1>6. QED
  BY <1>1, <1>4, <1>5

\* append: the reader will find the new bytes behind the unread ones.
LEMMA AppendIsReadable ==
    ASSUME NEW b, BufferOK(b), NEW data \in Seq(Nat)
    PROVE  /\ BufferOK(BufferAppend(b, data))
           /\ Readable(BufferAppend(b, data)) = Readable(b) \o data
<1>1. PICK k \in Nat : k = Len(data) /\ DOMAIN data = 1..k
  BY LenProperties
<1>2. PICK c : c = EnsureWritableBytes(b, k)
  OBVIOUS
<1>3. BufferOK(c) /\ Readable(c) = Readable(b) /\ Writable(c) >= k
  BY <1>2, EnsureMakesRoom
<1>4. PICK s \in Seq(Nat), r \in Nat, w \in Nat :
         /\ c = [bytes |-> s, read |-> r, write |-> w]
         /\ s = c.bytes /\ r = c.read /\ w = c.write
         /\ r <= w /\ w <= Len(s) /\ Len(s) \in Nat
  BY <1>3, BufferFields
<1>5. w + k <= Len(s)
  BY <1>3, <1>4 DEF Writable
<1>6. PICK t : t = [i \in 1..Len(s) |-> IF i - w \in 1..k THEN data[i - w] ELSE s[i]]
  BY Zenon
<1>7. t \in [1..Len(s) -> Nat]
  <2>1. \A i \in 1..Len(s) : s[i] \in Nat
    BY ElementOfSeq
  <2>2. \A i \in 1..k : data[i] \in Nat
    BY <1>1, ElementOfSeq
  <2>3. QED
    BY <1>6, <2>1, <2>2
<1>8. t \in Seq(Nat) /\ Len(t) = Len(s)
  <2>1. t \in Seq(Nat)
    BY <1>4, <1>7, SeqDef, Zenon
  <2>2. QED
    BY <1>4, <1>7, <2>1, LenProperties
<1>9. /\ \A i \in 1..w : t[i] = s[i]
      /\ \A i \in 1..k : t[w + i] = data[i]
  <2>1. ASSUME NEW i \in 1..w PROVE t[i] = s[i]
    <3>1. i \in 1..Len(s) /\ ~(i - w \in 1..k)
      BY <1>4
    <3>2. QED
      BY <1>6, <3>1
  <2>2. ASSUME NEW i \in 1..k PROVE t[w + i] = data[i]
    <3>1. w + i \in 1..Len(s) /\ (w + i) - w = i
      BY <1>4, <1>5
    <3>2. QED
      BY <1>6, <3>1
  <2>3. QED
    BY <2>1, <2>2
<1>10. BufferAppend(b, data) = [bytes |-> t, read |-> r, write |-> w + k]
  <2>1. DOMAIN s = 1..Len(s)
    BY <1>4, LenProperties
  <2>2. BufferAppend(b, data)
          = [c EXCEPT !.write = @ + k,
                      !.bytes = [i \in DOMAIN @ |-> IF i - c.write \in DOMAIN data
                                                    THEN data[i - c.write] ELSE @[i]]]
    BY <1>1, <1>2 DEF BufferAppend
  <2>3. PICK d : d = [c EXCEPT !.write = w + k]
    BY Zenon
  <2>4. d = [bytes |-> s, read |-> r, write |-> w + k]
    BY <1>4, <2>3
  <2>5. BufferAppend(b, data) = [d EXCEPT !.bytes = t]
    BY <1>1, <1>4, <1>6, <2>1, <2>2, <2>3
  <2>6. QED
    BY <2>4, <2>5, Zenon
<1>11. BufferOK(BufferAppend(b, data))
  <2>1. w + k \in Nat /\ r <= w + k /\ w + k <= Len(t)
    BY <1>4, <1>5, <1>8
  <2>2. QED
    BY <1>8, <1>10, <2>1 DEF BufferOK
<1>12. Readable(BufferAppend(b, data)) = Slice(s, r, w) \o data
  <2>1. PICK e \in Nat : e = w + k /\ w <= e /\ r <= w /\ e <= Len(t)
    BY <1>4, <1>5, <1>8
  <2>2. Readable(BufferAppend(b, data)) = Slice(t, r, e)
    BY <1>10, <2>1 DEF Readable, Slice
  <2>3. Slice(t, r, e) = Slice(t, r, w) \o Slice(t, w, e)
    BY <1>8, <2>1, SliceJoin
  <2>4. Slice(t, r, w) = Slice(s, r, w)
    <3>1. w <= Len(t) /\ r <= w /\ w <= Len(s)
      BY <1>4, <2>1, <1>8
    <3>2. \A i \in 1..w : t[i] = s[i]
      BY <1>9
    <3>3. QED
      BY <1>8, <3>1, <3>2, SameSlice
  <2>5. Slice(t, w, e) = data
    <3>1. PICK u : u = Slice(t, w, e)
      OBVIOUS
    <3>2. u \in Seq(Nat) /\ Len(u) = e - w /\ \A i \in 1..(e - w) : u[i] = t[w + i]
      <4>1. t \in Seq(Nat) /\ w <= e /\ e <= Len(t)
        BY <1>8, <2>1
      <4>2. QED
        BY <3>1, <4>1, SliceProperties, ZenonT(40)
    <3>3. e - w = k
      BY <2>1
    <3>4. \A i \in 1..k : u[i] = data[i]
      BY <1>9, <3>2, <3>3
    <3>5. QED
      BY <1>1, <3>1, <3>2, <3>3, <3>4, SeqEqual, Zenon
  <2>6. QED
    BY <2>2, <2>3, <2>4, <2>5
<1>13. Readable(c) = Slice(s, r, w)
  BY <1>4 DEF Readable, Slice
<1>14. QED
  BY <1>3, <1>11, <1>12, <1>13

\* retrieve: the bytes that were written to the socket go, the rest stays.
LEMMA RetrieveDropsWritten ==
    ASSUME NEW b, BufferOK(b), NEW n \in 1..Len(Readable(b))
    PROVE  /\ BufferOK(BufferRetrieve(b, n))
           /\ Readable(BufferRetrieve(b, n)) = Slice(Readable(b), n, Len(Readable(b)))
<1>1. PICK s \in Seq(Nat), r \in Nat, w \in Nat :
         /\ b = [bytes |-> s, read |-> r, write |-> w]
         /\ s = b.bytes /\ r = b.read /\ w = b.write
         /\ r <= w /\ w <= Len(s)
  BY BufferFields
<1>2. Readable(b) = Slice(s, r, w) /\ Len(Readable(b)) = w - r
  BY <1>1, BufferFields, ReadableProperties
<1>3. n \in Nat /\ r + n <= w
  BY <1>1, <1>2
<1>4. Slice(Readable(b), n, w - r) = Slice(s, r + n, w)
  <2>1. PICK m \in Nat : m = w - r /\ n <= m /\ r + m <= w /\ r + m = w
    BY <1>1, <1>3
  <2>2. Slice(Slice(s, r, w), n, m) = Slice(s, r + n, r + m)
    BY <1>1, <1>3, <2>1, SliceOfSlice
  <2>3. QED
    BY <1>2, <2>1, <2>2
<1>5. CASE n = w - r
  <2>1. BufferRetrieve(b, n) = [bytes |-> s, read |-> 0, write |-> 0]
    BY <1>1, <1>5, Zenon DEF BufferRetrieve
  <2>2. BufferOK(BufferRetrieve(b, n))
    BY <1>1, <2>1 DEF BufferOK
  <2>3. Readable(BufferRetrieve(b, n)) = Slice(s, 0, 0)
    BY <2>1 DEF Readable, Slice
  <2>4. r + n = w
    BY <1>1, <1>3, <1>5
  <2>5. Slice(s, 0, 0) = <<>> /\ Slice(s, w, w) = <<>>
    BY SliceEmpty
  <2>6. QED
    BY <1>2, <1>4, <2>2, <2>3, <2>4, <2>5
<1>6. CASE n # w - r
  <2>1. BufferRetrieve(b, n) = [bytes |-> s, read |-> r + n, write |-> w]
    BY <1>1, <1>6 DEF BufferRetrieve
  <2>2. BufferOK(BufferRetrieve(b, n))
    <3>1. r + n \in Nat /\ s \in Seq(Nat) /\ w <= Len(s)
      BY <1>1, <1>3
    <3>2. QED
      BY <1>3, <2>1, <3>1 DEF BufferOK
  <2>3. Readable(BufferRetrieve(b, n)) = Slice(s, r + n, w)
    BY <2>1 DEF Readable, Slice
  <2>4. QED
    BY <1>2, <1>4, <2>2, <2>3
<1>7. QED
  BY <1>5, <1>6

-----------------------------------------------------------------------------
(* The fields of a body, encoded one behind the other. *)

\* A TLV field with a byte sequence for its value.
Field == [type : Nat, value : Seq(Nat)]

\* A field behind what is encoded already.
LEMMA FieldJoins ==
    ASSUME NEW W \in Seq(Nat), NEW f \in Field
    PROVE  /\ EncodeField(f) \in Seq(Nat)
           /\ Len(W \o EncodeField(f)) = Len(W) + 2 + Len(f.value)
           /\ (W \o EncodeField(f))[Len(W) + 1] = f.type
           /\ (W \o EncodeField(f))[Len(W) + 2] = Len(f.value)
           /\ Slice(W \o EncodeField(f), Len(W) + 2, Len(W \o EncodeField(f))) = f.value
<1>1. PICK t \in Nat, v \in Seq(Nat) : t = f.type /\ v = f.value
  BY DEF Field
<1>2. PICK n \in Nat : n = Len(v)
  OBVIOUS
<1>3. PICK h \in Seq(Nat) : h = <<t, n>> /\ Len(h) = 2 /\ h[1] = t /\ h[2] = n
  BY TwoUnits, ZenonT(40)
<1>4. EncodeField(f) = h \o v
  BY <1>1, <1>2, <1>3 DEF EncodeField
<1>5. h \o v \in Seq(Nat) /\ Joins(W, h, v, W \o (h \o v))
  <2>1. Len(h) = 2
    BY <1>3
  <2>2. QED
    BY <2>1, HeaderAndBody
<1>6. QED
  BY <1>1, <1>2, <1>3, <1>4, <1>5, Zenon DEF Joins

\* E[i] is the encoding of the first i fields.
Encodings(fields, E) ==
    /\ E \in [0..Len(fields) -> Seq(Nat)]
    /\ E[0] = <<>> /\ E[Len(fields)] = EncodeFields(fields)
    /\ \A i \in 1..Len(fields) : E[i] = E[i - 1] \o EncodeField(fields[i])

\* One field more in the output.
EncodedAt(fields, rest, i) == IF i = 0 THEN <<>> ELSE rest[i - 1] \o EncodeField(fields[i])

\* The output after the first i fields, for every i.
Encoded(fields) ==
    LET output[i \in 0..Len(fields)] == EncodedAt(fields, output, i) IN output

\* The byte sequences, as a set the provers need not look into.
ByteSeqs == Seq(Nat)

\* Every list of fields has its encodings, each one field longer than the last.
LEMMA EncodingsExist ==
    ASSUME NEW fields \in Seq(Field)
    PROVE  \E E : Encodings(fields, E)
<1>1. PICK n \in Nat : n = Len(fields) /\ DOMAIN fields = 1..n
  BY LenProperties
<1>2. \A i \in 1..n : EncodeField(fields[i]) \in Seq(Nat)
  <2>1. ASSUME NEW i \in 1..n PROVE EncodeField(fields[i]) \in Seq(Nat)
    <3>1. fields[i] \in Field
      BY <1>1, ElementOfSeq
    <3>2. <<>> \in Seq(Nat)
      OBVIOUS
    <3>3. QED
      BY <3>1, <3>2, FieldJoins, Zenon
  <2>2. QED
    BY <2>1
<1> DEFINE S == 0..n
           G == [p \in S \X [S -> ByteSeqs] |-> EncodedAt(fields, p[2], p[1])]
           rank == [i \in S |-> i]
<1>3. \A F : \A i \in S : (i # 0 => F[i - 1] \in Seq(Nat)) => EncodedAt(fields, F, i) \in Seq(Nat)
  <2>1. ASSUME NEW F, NEW i \in S, i # 0 => F[i - 1] \in Seq(Nat)
        PROVE  EncodedAt(fields, F, i) \in Seq(Nat)
    <3>1. CASE i = 0
      BY <3>1, EmptySeq DEF EncodedAt
    <3>2. CASE i # 0
      <4>1. EncodeField(fields[i]) \in Seq(Nat)
        BY <1>2, <3>2
      <4>2. F[i - 1] \o EncodeField(fields[i]) \in Seq(Nat)
        BY <2>1, <3>2, <4>1, Joined
      <4>3. QED
        BY <3>2, <4>2, Zenon DEF EncodedAt
    <3>3. QED
      BY <3>1, <3>2
  <2>2. QED
    BY <2>1, Zenon
<1>4. G \in [S \X [S -> ByteSeqs] -> ByteSeqs]
  <2>1. ASSUME NEW i \in S, NEW f \in [S -> ByteSeqs]
        PROVE  EncodedAt(fields, f, i) \in ByteSeqs
    <3>1. i # 0 => i - 1 \in S
      OBVIOUS
    <3>2. i # 0 => f[i - 1] \in Seq(Nat)
      BY <3>1 DEF ByteSeqs
    <3>3. QED
      BY <1>3, <3>2, Zenon DEF ByteSeqs
  <2>2. QED
    BY <2>1
<1>5. rank \in [S -> 0..n]
  OBVIOUS
<1>6. ASSUME NEW i \in S, NEW f \in [S -> ByteSeqs], NEW g \in [S -> ByteSeqs],
             Agree(S, rank, i, f, g)
      PROVE  G[<<i, f>>] = G[<<i, g>>]
  <2>1. i # 0 => f[i - 1] = g[i - 1]
    <3>1. ASSUME i # 0 PROVE i - 1 \in S /\ rank[i - 1] < rank[i]
      BY <3>1
    <3>2. QED
      BY <1>6, <3>1 DEF Agree
  <2>2. EncodedAt(fields, f, i) = EncodedAt(fields, g, i)
    BY <2>1, Zenon DEF EncodedAt
  <2>3. QED
    BY <2>2
<1>7. \A i \in S : \A f, g \in [S -> ByteSeqs] :
         Agree(S, rank, i, f, g) => G[<<i, f>>] = G[<<i, g>>]
  BY <1>6, Zenon
<1>8. ByteSeqs # {}
  BY EmptySeq, Zenon DEF ByteSeqs
<1>9. HasSolution(S, ByteSeqs, G)
  <2> HIDE DEF S, G, rank
  <2>1. Recursion(S, ByteSeqs, n, rank, G)
    BY <1>4, <1>5, <1>7, <1>8, Zenon DEF Recursion
  <2>2. QED
    BY <2>1, RecursionHasSolution
<1>10. PICK f \in [S -> ByteSeqs] : \A i \in S : f[i] = EncodedAt(fields, f, i)
  BY <1>9, Zenon DEF HasSolution
<1>11. f = [i \in 0..Len(fields) |-> EncodedAt(fields, f, i)]
  BY <1>1, <1>10
<1>12. Encoded(fields) = [i \in 0..Len(fields) |-> EncodedAt(fields, Encoded(fields), i)]
  BY <1>11, Zenon DEF Encoded
<1>13. EncodeFields(fields) = Encoded(fields)[Len(fields)]
  BY Zenon DEF EncodeFields, Encoded, EncodedAt
<1>14. PICK E : E = Encoded(fields)
  OBVIOUS
<1>15. E = [i \in 0..n |-> EncodedAt(fields, E, i)]
  BY <1>1, <1>12, <1>14, Zenon
<1>16. \A i \in 0..n : E[i] = EncodedAt(fields, E, i)
  BY <1>15, Zenon
<1>17. \A i \in 0..n : E[i] \in Seq(Nat)
  <2> DEFINE Bad == {i \in 0..n : E[i] \notin Seq(Nat)}
  <2>1. ASSUME Bad # {} PROVE FALSE
    <3>1. Bad \subseteq Nat
      OBVIOUS
    <3>2. PICK i \in Bad : \A j \in Bad : i <= j
      BY <2>1, <3>1, LeastMember, Zenon
    <3>3. ASSUME i # 0 PROVE E[i - 1] \in Seq(Nat)
      <4>1. i - 1 \in 0..n /\ ~(i <= i - 1)
        BY <3>3
      <4>2. QED
        BY <3>2, <4>1
    <3>4. EncodedAt(fields, E, i) \in Seq(Nat)
      BY <1>3, <3>3, Zenon
    <3>5. QED
      BY <1>16, <3>4, Zenon
  <2>2. QED
    BY <2>1, Zenon
<1>18. E[0] = <<>>
  <2>1. 0 \in 0..n
    OBVIOUS
  <2>2. QED
    BY <1>16, <2>1, Zenon DEF EncodedAt
<1>19. \A i \in 1..n : E[i] = E[i - 1] \o EncodeField(fields[i])
  <2>1. \A i \in 1..n : i \in 0..n /\ i # 0
    OBVIOUS
  <2>2. QED
    BY <1>16, <2>1, Zenon DEF EncodedAt
<1>20. E \in [0..n -> Seq(Nat)]
  <2>1. \A i \in 0..n : EncodedAt(fields, E, i) \in Seq(Nat)
    BY <1>16, <1>17, Zenon
  <2>2. [i \in 0..n |-> EncodedAt(fields, E, i)] \in [0..n -> Seq(Nat)]
    BY <2>1, Zenon
  <2>3. QED
    BY <1>15, <2>2, Zenon
<1>21. Encodings(fields, E)
  BY <1>1, <1>13, <1>14, <1>18, <1>19, <1>20, Zenon DEF Encodings
<1>22. QED
  BY <1>21, Zenon

\* The body holds the field f from offset a to offset b.
FieldAt(body, a, b, f) ==
    /\ b = a + 2 + Len(f.value) /\ b <= Len(body)
    /\ body[a + 1] = f.type /\ body[a + 2] = Len(f.value)
    /\ Slice(body, a + 2, b) = f.value

\* The body begins with s.
Begins(body, s) == Len(s) <= Len(body) /\ Slice(body, 0, Len(s)) = s

\* A field stays where appendString put it when more fields are appended.
LEMMA FieldStays ==
    ASSUME NEW body \in Seq(Nat), NEW W \in Seq(Nat), NEW f \in Field,
           Begins(body, W \o EncodeField(f))
    PROVE  Begins(body, W) /\ FieldAt(body, Len(W), Len(W \o EncodeField(f)), f)
<1>1. PICK t \in Nat, v \in Seq(Nat) : t = f.type /\ v = f.value
  BY DEF Field
<1>2. PICK s : s = W \o EncodeField(f)
  BY Zenon
<1>3. /\ EncodeField(f) \in Seq(Nat)
      /\ Len(s) = Len(W) + 2 + Len(v)
      /\ s[Len(W) + 1] = t /\ s[Len(W) + 2] = Len(v)
      /\ Slice(s, Len(W) + 2, Len(s)) = v
  BY <1>1, <1>2, FieldJoins, Zenon
<1>4. s \in Seq(Nat)
  BY <1>2, <1>3, Joined
<1>5. PICK a \in Nat, b \in Nat, m \in Nat :
         a = Len(W) /\ b = Len(s) /\ m = Len(v) /\ b = a + 2 + m
  <2>1. Len(W) \in Nat /\ Len(s) \in Nat /\ Len(v) \in Nat
    BY <1>4
  <2>2. QED
    BY <1>3, <2>1
<1>6. b <= Len(body) /\ Slice(body, 0, b) = s
  BY <1>2, <1>5, Zenon DEF Begins
<1>7. \A i \in 1..b : s[i] = body[i]
  <2>1. b <= Len(body)
    BY <1>6
  <2>2. \A i \in 1..b : Slice(body, 0, b)[i] = body[i]
    BY <2>1, FrontSlice
  <2>3. QED
    BY <1>6, <2>2
<1>8. body[a + 1] = t /\ body[a + 2] = m
  <2>1. a + 1 \in 1..b /\ a + 2 \in 1..b
    BY <1>5
  <2>2. QED
    BY <1>3, <1>5, <1>7, <2>1
<1>9. Slice(body, a + 2, b) = v
  <2>1. PICK c \in Nat : c = a + 2 /\ c <= b
    BY <1>5
  <2>2. c <= b /\ b <= Len(s) /\ b <= Len(body)
    BY <1>5, <1>6, <2>1
  <2>3. Slice(s, c, b) = Slice(body, c, b)
    BY <1>4, <1>7, <2>2, SameSlice
  <2>4. QED
    BY <1>3, <1>5, <2>1, <2>3
<1>10. Begins(body, W)
  <2>1. a <= b /\ a <= Len(body)
    BY <1>5, <1>6
  <2>2. Slice(body, 0, a) = W
    <3>1. 0 \in Nat /\ 0 <= a /\ a <= Len(s) /\ a <= Len(body)
      BY <1>5, <2>1
    <3>2. \A i \in 1..a : i \in 1..b
      BY <2>1
    <3>3. \A i \in 1..a : s[i] = body[i]
      BY <1>7, <3>2, Zenon
    <3>4. Slice(s, 0, a) = Slice(body, 0, a)
      BY <1>4, <3>1, <3>3, SameSlice
    <3>5. Slice(W \o EncodeField(f), 0, Len(W)) = W
      BY <1>3, SliceParts
    <3>6. QED
      BY <1>2, <1>5, <3>4, <3>5
  <2>3. QED
    BY <1>5, <2>1, <2>2 DEF Begins
<1>11. FieldAt(body, a, b, f)
  BY <1>1, <1>5, <1>6, <1>8, <1>9, Zenon DEF FieldAt
<1>12. QED
  BY <1>2, <1>5, <1>10, <1>11

\* Each field lies in the encoded body from the end of the field before.
LEMMA FieldsInBody ==
    ASSUME NEW fields \in Seq(Field), NEW E, Encodings(fields, E)
    PROVE  \A i \in 1..Len(fields) :
              FieldAt(E[Len(fields)], Len(E[i - 1]), Len(E[i]), fields[i])
<1>1. PICK n \in Nat : n = Len(fields)
  OBVIOUS
<1>2. PICK body \in Seq(Nat) : body = E[n]
  BY <1>1 DEF Encodings
<1>3. /\ E \in [0..n -> Seq(Nat)]
      /\ \A i \in 1..n : E[i] = E[i - 1] \o EncodeField(fields[i])
  BY <1>1, Zenon DEF Encodings
<1>4. ASSUME NEW i \in 1..n, Begins(body, E[i])
      PROVE  Begins(body, E[i - 1]) /\ FieldAt(body, Len(E[i - 1]), Len(E[i]), fields[i])
  <2>1. fields[i] \in Field
    BY <1>1, ElementOfSeq
  <2>2. E[i - 1] \in Seq(Nat)
    BY <1>3
  <2>3. E[i] = E[i - 1] \o EncodeField(fields[i])
    BY <1>3, Zenon
  <2>4. PICK W \in Seq(Nat), f \in Field : W = E[i - 1] /\ f = fields[i]
    BY <2>1, <2>2
  <2>5. Begins(body, W \o EncodeField(f))
    BY <1>4, <2>3, <2>4
  <2>6. Begins(body, W) /\ FieldAt(body, Len(W), Len(W \o EncodeField(f)), f)
    BY <2>5, FieldStays
  <2>7. QED
    BY <2>3, <2>4, <2>6
<1>5. Begins(body, E[n])
  BY <1>2, WholeSlice DEF Begins
<1>6. \A i \in 0..n : Begins(body, E[i])
  <2> DEFINE Bad == {d \in 0..n : ~Begins(body, E[n - d])}
  <2>1. ASSUME Bad # {} PROVE FALSE
    <3>1. Bad \subseteq Nat
      OBVIOUS
    <3>2. PICK d \in Bad : \A e \in Bad : d <= e
      BY <2>1, <3>1, LeastMember, Zenon
    <3>3. d \in 0..n /\ ~Begins(body, E[n - d])
      BY <3>2
    <3>4. d # 0
      <4>1. n - 0 = n
        OBVIOUS
      <4>2. QED
        BY <1>5, <3>3, <4>1
    <3>5. d - 1 \in 0..n /\ ~(d <= d - 1)
      BY <3>3, <3>4
    <3>6. Begins(body, E[n - (d - 1)])
      BY <3>2, <3>5, Zenon
    <3>7. PICK i \in 1..n : i = n - (d - 1) /\ i - 1 = n - d
      <4>1. n - (d - 1) \in 1..n /\ (n - (d - 1)) - 1 = n - d
        BY <3>3, <3>4
      <4>2. QED
        BY <4>1
    <3>8. Begins(body, E[i - 1])
      BY <1>4, <3>6, <3>7
    <3>9. QED
      BY <3>3, <3>7, <3>8
  <2>2. ASSUME NEW i \in 0..n PROVE Begins(body, E[i])
    <3>1. n - i \in 0..n /\ n - (n - i) = i
      OBVIOUS
    <3>2. n - i \notin Bad
      BY <2>1, Zenon
    <3>3. Begins(body, E[n - (n - i)])
      BY <3>1, <3>2
    <3>4. QED
      BY <3>1, <3>3
  <2>3. QED
    BY <2>2
<1>7. ASSUME NEW i \in 1..n PROVE FieldAt(body, Len(E[i - 1]), Len(E[i]), fields[i])
  <2>1. i \in 0..n
    OBVIOUS
  <2>2. QED
    BY <1>4, <1>6, <2>1
<1>8. QED
  BY <1>1, <1>2, <1>7

-----------------------------------------------------------------------------
(* parseTlvMap. *)

\* The values by type: TlvMap.
Maps == [Types -> Seq(Seq(Nat))]

\* The results of parseTlvMap.
Parses == [ok : BOOLEAN, fields : Maps]

\* A value before the others of its type.
Put(m, t, v) == [m EXCEPT ![t] = <<v>> \o @]

\* The same in the fields of a result.
PutInto(x, t, v) == [x EXCEPT !.fields[t] = <<v>> \o @]

\* parseTlvMap refuses the body.
Refused == [ok |-> FALSE, fields |-> NoFields]

\* A value added to a result is added to its fields.
LEMMA PutIntoFields ==
    ASSUME NEW b, NEW m, NEW t, NEW v
    PROVE  PutInto([ok |-> b, fields |-> m], t, v) = [ok |-> b, fields |-> Put(m, t, v)]
<1>1. PICK x : x = [ok |-> b, fields |-> m]
  BY Zenon
<1>2. PutInto(x, t, v) = [x EXCEPT !.fields = Put(x.fields, t, v)]
  BY DEF PutInto, Put
<1>3. [x EXCEPT !.fields = Put(x.fields, t, v)] = [ok |-> b, fields |-> Put(m, t, v)]
  BY <1>1
<1>4. QED
  BY <1>1, <1>2, <1>3

\* Adding a value keeps a map a map and a result a result.
LEMMA MapsTyped ==
    /\ NoFields \in Maps
    /\ \A m \in Maps, v \in Seq(Nat) : \A t : Put(m, t, v) \in Maps
    /\ \A x \in Parses, v \in Seq(Nat) : \A t : PutInto(x, t, v) \in Parses
<1>1. NoFields \in Maps
  BY EmptySeq DEF NoFields, Maps
<1>2. ASSUME NEW m \in Maps, NEW t, NEW v \in Seq(Nat)
      PROVE  Put(m, t, v) \in Maps
  <2>1. CASE t \in Types
    <3>1. PICK q \in Seq(Seq(Nat)) : q = m[t]
      BY <2>1 DEF Maps
    <3>2. <<v>> \o q \in Seq(Seq(Nat))
      BY Single, Joined
    <3>3. QED
      BY <2>1, <3>1, <3>2 DEF Put, Maps
  <2>2. CASE t \notin Types
    BY <2>2, Zenon DEF Put, Maps
  <2>3. QED
    BY <2>1, <2>2
<1>4. ASSUME NEW x \in Parses, NEW t, NEW v \in Seq(Nat)
      PROVE  PutInto(x, t, v) \in Parses
  <2>1. PICK b \in BOOLEAN, m \in Maps : x = [ok |-> b, fields |-> m]
    <3>1. x.ok \in BOOLEAN /\ x.fields \in Maps /\ x = [ok |-> x.ok, fields |-> x.fields]
      BY DEF Parses
    <3>2. QED
      BY <3>1
  <2>2. PutInto(x, t, v) = [ok |-> b, fields |-> Put(m, t, v)]
    BY <2>1, PutIntoFields
  <2>3. Put(m, t, v) \in Maps
    BY <1>2
  <2>4. QED
    BY <2>2, <2>3 DEF Parses
<1>5. QED
  BY <1>1, <1>2, <1>4

\* The field at offset i lacks its header or its value, or is too long.
TooShort(body, i) ==
    Len(body) - i < HeaderSize \/ body[i + 2] > MaxValue \/ body[i + 2] > Len(body) - i - HeaderSize

\* One turn of the loop of parseTlvMap at offset i, rest[j] being what the turns
\* from offset j on come to.
ParseAt(body, rest, i) ==
    IF i = Len(body) THEN [ok |-> TRUE, fields |-> NoFields]
    ELSE IF TooShort(body, i) THEN Refused
    ELSE LET end   == i + HeaderSize + body[i + 2]
             value == SubSeq(body, i + HeaderSize + 1, end)
         IN  PutInto(rest[end], body[i + 1], value)

\* A turn ends the parse, refuses the body or adds a value to a later result.
ParseGives(body, rest, i, x) ==
    \/ x = [ok |-> TRUE, fields |-> NoFields]
    \/ x = Refused
    \/ \E end \in 0..Len(body), t \in Nat, v \in Seq(Nat) :
          i < end /\ x = PutInto(rest[end], t, v)

\* Every turn of parseTlvMap does one of these.
LEMMA ParseTurn ==
    ASSUME NEW body \in Seq(Nat), NEW i \in 0..Len(body), NEW rest
    PROVE  ParseGives(body, rest, i, ParseAt(body, rest, i))
<1> USE DEF ParseGives
<1>1. CASE i = Len(body) \/ TooShort(body, i)
  BY <1>1 DEF ParseAt
<1>2. CASE i # Len(body) /\ ~TooShort(body, i)
  <2>1. PICK n \in Nat : n = Len(body) /\ ~(n - i < 2) /\ i + 2 <= n
    <3>1. Len(body) \in Nat /\ ~(Len(body) - i < 2)
      BY <1>2 DEF TooShort, HeaderSize
    <3>2. QED
      BY <3>1
  <2>2. PICK k \in Nat : k = body[i + 2]
    <3>1. i + 2 \in 1..Len(body)
      BY <2>1
    <3>2. QED
      BY <3>1, ElementOfSeq
  <2>3. k <= n - i - 2
    BY <1>2, <2>1, <2>2 DEF TooShort, HeaderSize
  <2>4. PICK end \in 0..n, c \in Nat :
           end = i + 2 + k /\ c = i + 2 /\ c <= end /\ i < end /\ end <= n
    <3>1. i + 2 + k \in 0..n /\ i + 2 \in Nat /\ i + 2 <= i + 2 + k /\ i < i + 2 + k
          /\ i + 2 + k <= n
      BY <2>1, <2>3
    <3>2. QED
      BY <3>1
  <2>5. PICK v \in Seq(Nat) : v = SubSeq(body, c + 1, end)
    <3>1. end \in Nat /\ c <= end /\ end <= Len(body)
      BY <2>1, <2>4
    <3>2. Slice(body, c, end) \in Seq(Nat)
      BY <3>1, SliceProperties
    <3>3. QED
      BY <3>2, Zenon DEF Slice
  <2>6. PICK t \in Nat : t = body[i + 1]
    <3>1. i + 1 \in 1..Len(body)
      BY <2>1
    <3>2. QED
      BY <3>1, ElementOfSeq
  <2>7. ParseAt(body, rest, i) = PutInto(rest[end], t, v)
    BY <1>2, <2>2, <2>4, <2>5, <2>6 DEF ParseAt, HeaderSize
  <2>8. QED
    BY <2>1, <2>4, <2>7
<1>3. QED
  BY <1>1, <1>2

\* The loop of parseTlvMap from every offset.
ParseFrom(body) ==
    LET parse[i \in 0..Len(body)] == ParseAt(body, parse, i) IN parse

\* The loop of parseTlvMap is what its turns make it.
LEMMA ParseUnfolds ==
    ASSUME NEW body \in Seq(Nat)
    PROVE  /\ \A i \in 0..Len(body) : ParseFrom(body)[i] = ParseAt(body, ParseFrom(body), i)
           /\ ParseTlvMap(body) = ParseFrom(body)[0]
<1>1. PICK n \in Nat : n = Len(body)
  OBVIOUS
<1> DEFINE S == 0..n
           G == [p \in S \X [S -> Parses] |-> ParseAt(body, p[2], p[1])]
           rank == [i \in S |-> n - i]
<1>2. [ok |-> TRUE, fields |-> NoFields] \in Parses /\ Refused \in Parses
  BY MapsTyped DEF Parses, Refused
<1>3. ASSUME NEW i \in S, NEW f \in [S -> Parses]
      PROVE  ParseAt(body, f, i) \in Parses
  <2>1. ASSUME NEW end \in S, NEW t \in Nat, NEW v \in Seq(Nat)
        PROVE  PutInto(f[end], t, v) \in Parses
    BY MapsTyped
  <2>2. ParseGives(body, f, i, ParseAt(body, f, i))
    BY <1>1, ParseTurn
  <2>3. QED
    BY <1>1, <1>2, <2>1, <2>2, Zenon DEF ParseGives
<1>4. G \in [S \X [S -> Parses] -> Parses]
  BY <1>3
<1>5. rank \in [S -> 0..n]
  OBVIOUS
<1>6. ASSUME NEW i \in S, NEW f \in [S -> Parses], NEW g \in [S -> Parses],
             Agree(S, rank, i, f, g)
      PROVE  G[<<i, f>>] = G[<<i, g>>]
  <2>1. \A j \in S : i < j => f[j] = g[j]
    BY <1>6 DEF Agree
  <2>2. ParseAt(body, f, i) = ParseAt(body, g, i)
    <3>1. CASE i = Len(body) \/ TooShort(body, i)
      BY <3>1 DEF ParseAt
    <3>2. CASE i # Len(body) /\ ~TooShort(body, i)
      <4>1. ~(n - i < 2)
        BY <1>1, <3>2 DEF TooShort, HeaderSize
      <4>2. PICK k \in Nat : k = body[i + 2]
        <5>1. i + 2 \in 1..Len(body)
          BY <1>1, <4>1
        <5>2. QED
          BY <5>1, ElementOfSeq
      <4>3. k <= n - i - 2
        BY <1>1, <3>2, <4>1, <4>2 DEF TooShort, HeaderSize
      <4>4. i + 2 + k \in S /\ i < i + 2 + k
        BY <4>1, <4>3
      <4>5. f[i + 2 + k] = g[i + 2 + k]
        BY <2>1, <4>4
      <4>6. QED
        BY <3>2, <4>2, <4>5 DEF ParseAt, HeaderSize
    <3>3. QED
      BY <3>1, <3>2
  <2>3. QED
    BY <2>2
<1>7. \A i \in S : \A f, g \in [S -> Parses] :
         Agree(S, rank, i, f, g) => G[<<i, f>>] = G[<<i, g>>]
  BY <1>6, Zenon
<1>8. HasSolution(S, Parses, G)
  <2>1. Parses # {}
    BY <1>2
  <2> HIDE DEF S, G, rank
  <2>2. Recursion(S, Parses, n, rank, G)
    BY <1>4, <1>5, <1>7, <2>1, Zenon DEF Recursion
  <2>3. QED
    BY <2>2, RecursionHasSolution
<1>9. PICK f \in [S -> Parses] : \A i \in S : f[i] = ParseAt(body, f, i)
  BY <1>8 DEF HasSolution
<1>10. f = [i \in 0..Len(body) |-> ParseAt(body, f, i)]
  BY <1>1, <1>9
<1>11. ParseFrom(body) = [i \in 0..Len(body) |-> ParseAt(body, ParseFrom(body), i)]
  BY <1>10, Zenon DEF ParseFrom
<1>12. ParseTlvMap(body) = ParseFrom(body)[0]
  BY DEF ParseTlvMap, ParseFrom, ParseAt, TooShort, Refused, PutInto
<1>13. QED
  BY <1>11, <1>12, Zenon

\* The map of the fields from the i-th on.
ByTypeAt(fields, rest, i) ==
    IF i = Len(fields) THEN NoFields ELSE Put(rest[i + 1], fields[i + 1].type, fields[i + 1].value)

\* The maps of the fields from every place on.
ByTypeFrom(fields) ==
    LET from[i \in 0..Len(fields)] == ByTypeAt(fields, from, i) IN from

\* ByType groups the fields from the last to the first.
LEMMA ByTypeUnfolds ==
    ASSUME NEW fields \in Seq(Field)
    PROVE  /\ \A i \in 0..Len(fields) :
                 ByTypeFrom(fields)[i] = ByTypeAt(fields, ByTypeFrom(fields), i)
           /\ ByType(fields) = ByTypeFrom(fields)[0]
<1>1. PICK n \in Nat : n = Len(fields)
  OBVIOUS
<1> DEFINE S == 0..n
           G == [p \in S \X [S -> Maps] |-> ByTypeAt(fields, p[2], p[1])]
           rank == [i \in S |-> n - i]
<1>2. ASSUME NEW i \in S, NEW f \in [S -> Maps]
      PROVE  ByTypeAt(fields, f, i) \in Maps
  <2>1. CASE i = n
    BY <1>1, <2>1, MapsTyped DEF ByTypeAt
  <2>2. CASE i # n
    <3>1. i + 1 \in 1..Len(fields) /\ i + 1 \in S
      BY <1>1, <2>2
    <3>2. fields[i + 1] \in Field
      BY <3>1, ElementOfSeq
    <3>3. f[i + 1] \in Maps /\ fields[i + 1].value \in Seq(Nat)
      BY <3>1, <3>2 DEF Field
    <3>4. QED
      BY <1>1, <2>2, <3>3, MapsTyped DEF ByTypeAt
  <2>3. QED
    BY <2>1, <2>2
<1>4. G \in [S \X [S -> Maps] -> Maps]
  BY <1>2
<1>5. rank \in [S -> 0..n]
  OBVIOUS
<1>6. ASSUME NEW i \in S, NEW f \in [S -> Maps], NEW g \in [S -> Maps],
             Agree(S, rank, i, f, g)
      PROVE  G[<<i, f>>] = G[<<i, g>>]
  <2>1. \A j \in S : i < j => f[j] = g[j]
    BY <1>6 DEF Agree
  <2>2. i # n => f[i + 1] = g[i + 1]
    BY <2>1
  <2>3. ByTypeAt(fields, f, i) = ByTypeAt(fields, g, i)
    BY <1>1, <2>2 DEF ByTypeAt
  <2>4. QED
    BY <2>3
<1>7. \A i \in S : \A f, g \in [S -> Maps] :
         Agree(S, rank, i, f, g) => G[<<i, f>>] = G[<<i, g>>]
  BY <1>6, Zenon
<1>8. HasSolution(S, Maps, G)
  <2>1. Maps # {}
    BY MapsTyped
  <2> HIDE DEF S, G, rank
  <2>2. Recursion(S, Maps, n, rank, G)
    BY <1>4, <1>5, <1>7, <2>1, Zenon DEF Recursion
  <2>3. QED
    BY <2>2, RecursionHasSolution
<1>9. PICK f \in [S -> Maps] : \A i \in S : f[i] = ByTypeAt(fields, f, i)
  BY <1>8, Zenon DEF HasSolution
<1>10. f = [i \in 0..Len(fields) |-> ByTypeAt(fields, f, i)]
  BY <1>1, <1>9
<1>11. ByTypeFrom(fields) = [i \in 0..Len(fields) |-> ByTypeAt(fields, ByTypeFrom(fields), i)]
  BY <1>10, ZenonT(40) DEF ByTypeFrom
<1>12. ByType(fields) = ByTypeFrom(fields)[0]
  BY DEF ByType, ByTypeFrom, ByTypeAt, Put
<1>13. QED
  BY <1>11, <1>12, ZenonT(40)

-----------------------------------------------------------------------------
\* parseTlvMap returns what appendString encoded: for every list of fields of legal
\* lengths, the values of each type in the order they were appended.
THEOREM RoundTrip ==
    ASSUME NEW fields \in Bodies, Encodable(fields)
    PROVE  /\ EncodeFields(fields) \in Seq(Nat)
           /\ ParseTlvMap(EncodeFields(fields)) = [ok |-> TRUE, fields |-> ByType(fields)]
<1>1. fields \in Seq(Field)
  BY WireAssumption DEF Field
<1>2. PICK n \in Nat : n = Len(fields) /\ DOMAIN fields = 1..n
  BY <1>1, LenProperties
<1>3. PICK E : Encodings(fields, E)
  BY <1>1, EncodingsExist
<1>4. PICK body \in Seq(Nat) : body = E[n] /\ body = EncodeFields(fields)
  BY <1>2, <1>3 DEF Encodings
<1>5. PICK m \in Nat : m = Len(body)
  OBVIOUS
<1>6. PICK e : e = [i \in 0..n |-> Len(E[i])]
  BY Zenon
<1>7. e \in [0..n -> Nat] /\ e[0] = 0 /\ e[n] = m
  <2>1. \A i \in 0..n : E[i] \in Seq(Nat)
    BY <1>2, <1>3 DEF Encodings
  <2>2. \A i \in 0..n : Len(E[i]) \in Nat
    BY <2>1
  <2>3. E[0] = <<>>
    BY <1>3 DEF Encodings
  <2>4. 0 \in 0..n /\ n \in 0..n
    OBVIOUS
  <2>5. e[0] = Len(E[0]) /\ e[n] = Len(E[n])
    BY <1>6, <2>4
  <2>6. Len(<<>>) = 0
    OBVIOUS
  <2>7. e \in [0..n -> Nat]
    BY <1>6, <2>2
  <2>8. QED
    BY <1>4, <1>5, <2>3, <2>5, <2>6, <2>7, ZenonT(40)
<1>8. \A i \in 0..(n - 1) : FieldAt(body, e[i], e[i + 1], fields[i + 1])
  <2>1. \A i \in 1..n : FieldAt(body, Len(E[i - 1]), Len(E[i]), fields[i])
    BY <1>1, <1>2, <1>3, <1>4, FieldsInBody, Zenon
  <2>2. ASSUME NEW i \in 0..(n - 1) PROVE FieldAt(body, e[i], e[i + 1], fields[i + 1])
    <3>1. i \in 0..n /\ i + 1 \in 0..n /\ i + 1 \in 1..n /\ (i + 1) - 1 = i
      OBVIOUS
    <3>2. FieldAt(body, Len(E[(i + 1) - 1]), Len(E[i + 1]), fields[i + 1])
      BY <2>1, <3>1
    <3>3. QED
      BY <1>6, <3>1, <3>2
  <2>3. QED
    BY <2>2
<1>9. \A i \in 1..n : fields[i] \in Field /\ Len(fields[i].value) <= MaxValue
  <2>1. \A i \in 1..n : fields[i] \in Field
    BY <1>1, <1>2, ElementOfSeq
  <2>2. QED
    BY <1>2, <2>1 DEF Encodable
<1>10. PICK P, B : P = ParseFrom(body) /\ B = ByTypeFrom(fields)
  OBVIOUS
<1>11. /\ \A i \in 0..m : P[i] = ParseAt(body, P, i)
       /\ ParseTlvMap(body) = P[0]
  BY <1>5, <1>10, ParseUnfolds
<1>12. /\ \A i \in 0..n : B[i] = ByTypeAt(fields, B, i)
       /\ ByType(fields) = B[0]
  BY <1>1, <1>2, <1>10, ByTypeUnfolds
<1> DEFINE Claim(i) == P[e[i]] = [ok |-> TRUE, fields |-> B[i]]
<1>13. Claim(n)
  <2>1. P[m] = [ok |-> TRUE, fields |-> NoFields]
    <3>1. m \in 0..m
      OBVIOUS
    <3>2. P[m] = ParseAt(body, P, m)
      BY <1>11, <3>1
    <3>3. ParseAt(body, P, m) = [ok |-> TRUE, fields |-> NoFields]
      BY <1>5 DEF ParseAt
    <3>4. QED
      BY <3>2, <3>3
  <2>2. B[n] = NoFields
    BY <1>2, <1>12 DEF ByTypeAt
  <2>3. QED
    BY <1>7, <2>1, <2>2
<1>14. ASSUME NEW i \in 0..(n - 1), Claim(i + 1)
       PROVE  Claim(i)
  <2>1. PICK t \in Nat, v \in Seq(Nat), f \in Field :
           f = fields[i + 1] /\ t = f.type /\ v = f.value
    <3>1. i + 1 \in 1..n
      OBVIOUS
    <3>2. fields[i + 1] \in Field
      BY <1>9, <3>1
    <3>3. QED
      BY <3>2 DEF Field
  <2>2. PICK k \in Nat : k = Len(v) /\ k <= MaxValue
    <3>1. i + 1 \in 1..n
      OBVIOUS
    <3>2. QED
      BY <1>9, <2>1, <3>1
  <2>3. PICK a \in Nat, b \in Nat : a = e[i] /\ b = e[i + 1]
    BY <1>7
  <2>4. FieldAt(body, a, b, f)
    BY <1>8, <2>1, <2>3
  <2>5. /\ b = a + 2 + k /\ b <= m
        /\ body[a + 1] = t /\ body[a + 2] = k
        /\ Slice(body, a + 2, b) = v
    BY <1>5, <2>1, <2>2, <2>4 DEF FieldAt
  <2>6. a # m /\ a \in 0..m /\ ~(m - a < 2) /\ ~(k > m - a - 2)
    <3>1. b = a + 2 + k /\ b <= m
      BY <2>5
    <3>2. QED
      BY <3>1
  <2>7. ~TooShort(body, a)
    <3>1. ~(k > MaxValue)
      BY <2>2, WireAssumption
    <3>2. QED
      BY <1>5, <2>5, <2>6, <3>1 DEF TooShort, HeaderSize
  <2>8. P[a] = PutInto(P[b], t, v)
    <3>1. P[a] = ParseAt(body, P, a)
      BY <1>11, <2>6
    <3>2. SubSeq(body, a + 2 + 1, b) = v
      BY <2>5 DEF Slice
    <3>3. QED
      BY <1>5, <2>5, <2>6, <2>7, <3>1, <3>2, Zenon DEF ParseAt, HeaderSize
  <2>9. P[b] = [ok |-> TRUE, fields |-> B[i + 1]]
    BY <1>14, <2>3
  <2>10. P[a] = [ok |-> TRUE, fields |-> Put(B[i + 1], t, v)]
    BY <2>8, <2>9, PutIntoFields, ZenonT(40)
  <2>11. B[i] = Put(B[i + 1], t, v)
    <3>1. i \in 0..n /\ i # Len(fields)
      BY <1>2
    <3>2. QED
      BY <1>12, <2>1, <3>1 DEF ByTypeAt
  <2>12. QED
    BY <2>3, <2>10, <2>11
<1>15. Claim(0)
  <2> HIDE DEF Claim
  <2> DEFINE Bad == {d \in 0..n : ~Claim(n - d)}
  <2>1. ASSUME Bad # {} PROVE FALSE
    <3>1. Bad \subseteq Nat
      OBVIOUS
    <3>2. PICK d \in Bad : \A c \in Bad : d <= c
      BY <2>1, <3>1, LeastMember, Zenon
    <3>3. d \in 0..n /\ ~Claim(n - d)
      BY <3>2
    <3>4. d # 0
      <4>1. n - 0 = n
        OBVIOUS
      <4>2. QED
        BY <1>13, <3>3, <4>1
    <3>5. d - 1 \in 0..n /\ ~(d <= d - 1)
      BY <3>3, <3>4
    <3>6. Claim(n - (d - 1))
      BY <3>2, <3>5
    <3>7. PICK i \in 0..(n - 1) : i = n - d /\ i + 1 = n - (d - 1)
      <4>1. n - d \in 0..(n - 1) /\ (n - d) + 1 = n - (d - 1)
        BY <3>3, <3>4
      <4>2. QED
        BY <4>1
    <3>8. QED
      BY <1>14, <3>3, <3>6, <3>7
  <2>2. n \in 0..n /\ n - n = 0
    OBVIOUS
  <2>3. n \notin Bad
    BY <2>1, Zenon
  <2>4. Claim(n - n)
    BY <2>2, <2>3
  <2>5. QED
    BY <2>2, <2>4
<1>16. QED
  BY <1>4, <1>7, <1>11, <1>12, <1>15

-----------------------------------------------------------------------------
(* FrameDecoder::feed. *)

\* What the loop of feed ends with: packets, the offset it stopped at, an error.
Scans == [packets : Seq(Seq(Nat)), next : Nat, bad : BOOLEAN]

\* One turn of the loop of feed at offset i, rest[j] being what the turns from
\* offset j on come to.
ScanAt(bytes, rest, i) ==
    IF Len(bytes) - i < HeaderSize
      THEN [packets |-> <<>>, next |-> i, bad |-> FALSE]
    ELSE IF ~ValidHeader(SubSeq(bytes, i + 1, i + HeaderSize))
      THEN [packets |-> <<>>, next |-> i, bad |-> TRUE]
    ELSE LET end == i + HeaderSize + bytes[i + 2]
         IN  IF Len(bytes) < end
               THEN [packets |-> <<>>, next |-> i, bad |-> FALSE]
             ELSE [rest[end] EXCEPT !.packets = <<SubSeq(bytes, i + HeaderSize + 1, end)>> \o @]

\* A turn of the loop of feed gives packets, an offset and an error flag.
LEMMA ScanAtTyped ==
    ASSUME NEW bytes \in Seq(Nat), NEW rest \in [0..Len(bytes) -> Scans],
           NEW i \in 0..Len(bytes)
    PROVE  ScanAt(bytes, rest, i) \in Scans
<1>1. CASE Len(bytes) - i < 2
  BY <1>1 DEF ScanAt, Scans, HeaderSize
<1>2. CASE ~(Len(bytes) - i < 2)
  <2>1. PICK n \in Nat, end \in Nat : n = Len(bytes) /\ end = i + 2 + bytes[i + 2]
                                      /\ i + 2 <= end
    <3>1. i + 2 \in 1..Len(bytes)
      BY <1>2
    <3>2. bytes[i + 2] \in Nat
      BY <3>1, ElementOfSeq
    <3>3. QED
      BY <3>2
  <2>2. PICK packet : packet = SubSeq(bytes, i + 2 + 1, end)
    OBVIOUS
  <2>3. \/ ScanAt(bytes, rest, i) = [packets |-> <<>>, next |-> i, bad |-> TRUE]
        \/ ScanAt(bytes, rest, i) = [packets |-> <<>>, next |-> i, bad |-> FALSE]
        \/ /\ n >= end
           /\ ScanAt(bytes, rest, i) = [rest[end] EXCEPT !.packets = <<packet>> \o @]
    BY <1>2, <2>1, <2>2 DEF ScanAt, HeaderSize
  <2>4. ASSUME n >= end
        PROVE  [rest[end] EXCEPT !.packets = <<packet>> \o @] \in Scans
    <3>1. packet \in Seq(Nat)
      <4>1. PICK a \in Nat : a = i + 2
        OBVIOUS
      <4>2. Slice(bytes, a, end) \in Seq(Nat)
        BY <2>1, <2>4, <4>1, SliceProperties
      <4>3. QED
        BY <2>2, <4>1, <4>2 DEF Slice
    <3>2. rest[end] \in Scans
      BY <2>1, <2>4
    <3>3. rest[end].packets \in Seq(Seq(Nat))
      BY <3>2 DEF Scans
    <3>4. <<packet>> \o rest[end].packets \in Seq(Seq(Nat))
      BY <3>1, <3>3, ConcatProperties
    <3>5. QED
      BY <3>2, <3>4, Zenon DEF Scans
  <2>5. /\ [packets |-> <<>>, next |-> i, bad |-> TRUE] \in Scans
        /\ [packets |-> <<>>, next |-> i, bad |-> FALSE] \in Scans
    BY DEF Scans
  <2>6. QED
    BY <2>3, <2>4, <2>5, Zenon
<1>3. QED
  BY <1>1, <1>2

\* A turn of the loop of feed depends on the turns at later offsets only.
LEMMA ScanAtLocal ==
    ASSUME NEW bytes \in Seq(Nat), NEW f, NEW g, NEW i \in 0..Len(bytes),
           \A j \in 0..Len(bytes) : i < j => f[j] = g[j]
    PROVE  ScanAt(bytes, f, i) = ScanAt(bytes, g, i)
<1>1. CASE Len(bytes) - i < 2
  BY <1>1 DEF ScanAt, HeaderSize
<1>2. CASE ~(Len(bytes) - i < 2)
  <2>1. PICK end \in Nat : end = i + 2 + bytes[i + 2] /\ i < end
    <3>1. i + 2 \in 1..Len(bytes)
      BY <1>2
    <3>2. bytes[i + 2] \in Nat
      BY <3>1, ElementOfSeq
    <3>3. QED
      BY <3>2
  <2>2. ~(Len(bytes) < end) => f[end] = g[end]
    BY <2>1
  <2>3. QED
    BY <2>1, <2>2, Zenon DEF ScanAt, HeaderSize
<1>3. QED
  BY <1>1, <1>2

\* The loop of feed from every offset.
ScanFrom(bytes) ==
    LET scan[i \in 0..Len(bytes)] == ScanAt(bytes, scan, i) IN scan

\* The loop of feed is what its turns make it.
LEMMA ScanUnfolds ==
    ASSUME NEW bytes \in Seq(Nat)
    PROVE  /\ \A i \in 0..Len(bytes) : ScanFrom(bytes)[i] = ScanAt(bytes, ScanFrom(bytes), i)
           /\ Scan(bytes) = ScanFrom(bytes)[0]
<1>1. PICK n \in Nat : n = Len(bytes)
  OBVIOUS
<1> DEFINE S == 0..n
           G == [p \in S \X [S -> Scans] |-> ScanAt(bytes, p[2], p[1])]
           rank == [i \in S |-> n - i]
<1>2. G \in [S \X [S -> Scans] -> Scans]
  BY <1>1, ScanAtTyped
<1>3. rank \in [S -> 0..n]
  OBVIOUS
<1>4. ASSUME NEW i \in S, NEW f \in [S -> Scans], NEW g \in [S -> Scans],
             Agree(S, rank, i, f, g)
      PROVE  G[<<i, f>>] = G[<<i, g>>]
  <2>1. \A j \in S : i < j => f[j] = g[j]
    BY <1>4 DEF Agree
  <2>2. ScanAt(bytes, f, i) = ScanAt(bytes, g, i)
    BY <1>1, <2>1, ScanAtLocal
  <2>3. QED
    BY <2>2
<1>4a. \A i \in S : \A f, g \in [S -> Scans] :
         Agree(S, rank, i, f, g) => G[<<i, f>>] = G[<<i, g>>]
  BY <1>4, Zenon
<1>5. PICK v : v \in Scans
  <2>1. [packets |-> <<>>, next |-> 0, bad |-> FALSE] \in Scans
    BY DEF Scans
  <2>2. QED
    BY <2>1
<1>6. HasSolution(S, Scans, G)
  <2> HIDE DEF S, G, rank
  <2>1. Recursion(S, Scans, n, rank, G)
    BY <1>2, <1>3, <1>4a, <1>5, Zenon DEF Recursion
  <2>2. QED
    BY <2>1, RecursionHasSolution
<1>7. PICK f \in [S -> Scans] : \A i \in S : f[i] = ScanAt(bytes, f, i)
  BY <1>6 DEF HasSolution
<1>8. f = [i \in 0..Len(bytes) |-> ScanAt(bytes, f, i)]
  BY <1>1, <1>7
<1>9. ScanFrom(bytes) = [i \in 0..Len(bytes) |-> ScanAt(bytes, ScanFrom(bytes), i)]
  BY <1>8, Zenon DEF ScanFrom
<1>10. Scan(bytes) = ScanFrom(bytes)[0]
  BY DEF Scan, ScanFrom, ScanAt
<1>11. QED
  BY <1>9, <1>10, Zenon

-----------------------------------------------------------------------------
(* The stream W of all bytes sent and its marks: packet j lies between the    *)
(* offsets o[j - 1] and o[j].                                                *)

\* validateHeader accepts the header at offset a of the stream.
Header(W, a) == W[a + 1] = Magic /\ W[a + 2] <= MaxBody

\* A packet from a to b whose body parses to item.
GoodFrame(W, a, b, item) ==
    /\ Header(W, a) /\ b = a + 2 + W[a + 2]
    /\ ParseTlvMap(Slice(W, a + 2, b)) = item /\ item.ok

\* A header at a that feed refuses: item stands for the refusal.
BadFrame(W, a, b, item) == ~Header(W, a) /\ ~item.ok

\* What feed may meet between two marks of the stream.
Frame(W, a, b, item) ==
    /\ a + 2 <= b /\ b <= Len(W)
    /\ GoodFrame(W, a, b, item) \/ BadFrame(W, a, b, item)

\* The stream W is cut at the offsets o into one frame for each item.
Marked(W, items, o) ==
    /\ o \in [0..Len(items) -> Nat]
    /\ o[0] = 0 /\ o[Len(items)] = Len(W)
    /\ \A i, j \in 0..Len(items) : i <= j => o[i] <= o[j]
    /\ \A j \in 0..(Len(items) - 1) : Frame(W, o[j], o[j + 1], items[j + 1])

\* validateHeader looks at the two units behind the offset.
LEMMA HeaderAt ==
    ASSUME NEW s \in Seq(Nat), NEW i \in Nat, i + 2 <= Len(s)
    PROVE  ValidHeader(SubSeq(s, i + 1, i + HeaderSize)) <=> Header(s, i)
<1>1. PICK h : h = Slice(s, i, i + 2)
  OBVIOUS
<1>2. \A q \in 1..2 : h[q] = s[i + q]
  <2>1. 2 \in Nat
    OBVIOUS
  <2>2. \A q \in 1..2 : Slice(s, i, i + 2)[q] = s[i + q]
    BY <2>1, Window, SMTT(30)
  <2>3. QED
    BY <1>1, <2>2, Zenon
<1>3. SubSeq(s, i + 1, i + HeaderSize) = h
  BY <1>1 DEF Slice, HeaderSize
<1>4. h[1] = s[i + 1] /\ h[2] = s[i + 2]
  BY <1>2
<1>5. QED
  BY <1>3, <1>4, Zenon DEF ValidHeader, Header

\* feed waits for more bytes at offset i.
Stops(x, i) == x = [packets |-> <<>>, next |-> i, bad |-> FALSE]

\* A packet before those that the rest of the loop finds.
InFront(p, x) == [x EXCEPT !.packets = <<p>> \o @]

\* A turn of feed at mark j of the bytes a to a + m of the stream: it waits for
\* the rest of a frame, refuses a header or takes the packet up to mark j + 1.
TurnEnds(items, o, a, m, j, rest, x) ==
    \/ /\ Stops(x, o[j] - a)
       /\ j = Len(items) \/ a + m < o[j + 1]
    \/ x = [packets |-> <<>>, next |-> o[j] - a, bad |-> TRUE]
    \/ \E p \in Seq(Nat) :
          /\ j < Len(items) /\ o[j + 1] <= a + m
          /\ x = InFront(p, rest[o[j + 1] - a])
          /\ ParseTlvMap(p) = items[j + 1] /\ items[j + 1].ok

\* A turn of feed that starts at a mark does one of these, however the socket
\* cut the stream.
LEMMA TurnAtMark ==
    ASSUME NEW W \in Seq(Nat), NEW X, NEW items \in Seq(X), NEW o, Marked(W, items, o),
           NEW a \in Nat, NEW m \in Nat, a + m <= Len(W),
           NEW bytes, bytes = Slice(W, a, a + m), NEW rest,
           NEW j \in 0..Len(items), a <= o[j], o[j] <= a + m
    PROVE  TurnEnds(items, o, a, m, j, rest, ScanAt(bytes, rest, o[j] - a))
<1> USE DEF TurnEnds
<1>1. PICK k \in Nat : k = Len(items)
  OBVIOUS
<1>2. PICK e \in Nat : e = a + m
  OBVIOUS
<1>3. bytes \in Seq(Nat) /\ Len(bytes) = m /\ \A q \in 1..m : bytes[q] = W[a + q]
  BY Window, Zenon
<1>4. PICK x \in Nat : x = o[j]
  BY Zenon DEF Marked
<1>5. PICK i \in Nat : i = x - a /\ x = a + i /\ i <= m
  BY <1>4
<1>6. CASE m - i < 2
  <2>1. Stops(ScanAt(bytes, rest, i), i)
    BY <1>3, <1>6 DEF ScanAt, HeaderSize, Stops
  <2>2. ASSUME j # k PROVE e < o[j + 1]
    <3>1. j \in 0..(Len(items) - 1) /\ j + 1 \in 0..Len(items)
      BY <1>1, <2>2
    <3>2. PICK y \in Nat : y = o[j + 1] /\ x + 2 <= y
      BY <1>4, <3>1, Zenon DEF Marked, Frame
    <3>3. e < y
      BY <1>2, <1>5, <1>6, <3>2
    <3>4. QED
      BY <3>2, <3>3
  <2>3. QED
    BY <1>1, <1>2, <1>4, <1>5, <2>1, <2>2
<1>7. CASE ~(m - i < 2)
  <2>1. j # k
    <3>1. o[Len(items)] = Len(W)
      BY DEF Marked
    <3>2. j = k => x = Len(W)
      BY <1>1, <1>4, <3>1
    <3>3. x # Len(W)
      BY <1>2, <1>5, <1>7
    <3>4. QED
      BY <3>2, <3>3
  <2>2. j \in 0..(Len(items) - 1) /\ j + 1 \in 0..Len(items) /\ j < Len(items)
    BY <1>1, <2>1
  <2>3. PICK y \in Nat : y = o[j + 1] /\ Frame(W, x, y, items[j + 1])
    BY <1>4, <2>2, Zenon DEF Marked
  <2>4. /\ i + 1 \in 1..m /\ i + 2 \in 1..m
        /\ bytes[i + 1] = W[x + 1] /\ bytes[i + 2] = W[x + 2]
    <3>1. i + 1 \in 1..m /\ i + 2 \in 1..m /\ a + (i + 1) = x + 1 /\ a + (i + 2) = x + 2
      BY <1>5, <1>7
    <3>2. QED
      BY <1>3, <3>1, Zenon
  <2>5. ValidHeader(SubSeq(bytes, i + 1, i + HeaderSize)) <=> Header(W, x)
    <3>1. i + 2 <= Len(bytes) /\ bytes \in Seq(Nat)
      BY <1>3, <1>7
    <3>2. ValidHeader(SubSeq(bytes, i + 1, i + HeaderSize)) <=> Header(bytes, i)
      BY <3>1, HeaderAt
    <3>3. QED
      BY <2>4, <3>2, Zenon DEF Header
  <2>6. W[x + 2] \in Nat
    BY <1>3, <2>4, ElementOfSeq, ZenonT(40)
  <2>7. CASE BadFrame(W, x, y, items[j + 1])
    <3>1. ScanAt(bytes, rest, i) = [packets |-> <<>>, next |-> i, bad |-> TRUE]
      BY <1>3, <1>7, <2>5, <2>7 DEF ScanAt, HeaderSize, BadFrame
    <3>2. QED
      BY <1>4, <1>5, <3>1
  <2>8. CASE GoodFrame(W, x, y, items[j + 1])
    <3>0. PICK v \in Nat : v = W[x + 2] /\ v = bytes[i + 2] /\ y = x + 2 + v
      BY <2>4, <2>6, <2>8, Zenon DEF GoodFrame
    <3>1. PICK end \in Nat : end = y - a /\ y = a + end /\ end = i + 2 + bytes[i + 2]
                             /\ i + 2 <= end
      <4>0. y = x + 2 + v
        BY <3>0
      <4>1. i + 2 + v \in Nat /\ i + 2 + v = y - a /\ y = a + (i + 2 + v)
        BY <1>5, <4>0
      <4>2. QED
        BY <3>0, <4>1
    <3>2. CASE m < end
      <4>1. Stops(ScanAt(bytes, rest, i), i)
        BY <1>3, <1>7, <2>5, <2>8, <3>1, <3>2 DEF ScanAt, HeaderSize, GoodFrame, Stops
      <4>2. a + m < o[j + 1]
        BY <2>3, <3>1, <3>2
      <4>3. QED
        BY <1>4, <1>5, <4>1, <4>2
    <3>3. CASE ~(m < end)
      <4>1. PICK p : p = SubSeq(bytes, i + 2 + 1, end)
        BY Zenon
      <4>2. ScanAt(bytes, rest, i) = InFront(p, rest[end])
        BY <1>3, <1>7, <2>5, <2>8, <3>1, <3>3, <4>1, Zenon DEF ScanAt, HeaderSize, GoodFrame, InFront
      <4>3. PICK d \in Nat : d = i + 2 /\ d <= end /\ a + d = x + 2 /\ a + end <= e
        BY <1>2, <1>5, <3>1, <3>3
      <4>4. p = Slice(bytes, d, end)
        BY <4>1, <4>3 DEF Slice
      <4>5. p \in Seq(Nat)
        BY <1>3, <3>3, <4>3, <4>4, SliceProperties
      <4>6. Slice(Slice(W, a, e), d, end) = Slice(W, a + d, a + end)
        <5>1. e <= Len(W) /\ d <= end /\ a + end <= e
          BY <1>2, <4>3
        <5>2. QED
          BY <5>1, SliceOfSlice
      <4>7. p = Slice(W, x + 2, y)
        BY <1>2, <3>1, <4>3, <4>4, <4>6, Zenon
      <4>8. o[j + 1] <= a + m
        BY <2>3, <3>1, <3>3
      <4>9. ParseTlvMap(p) = items[j + 1] /\ items[j + 1].ok
        BY <2>8, <4>7 DEF GoodFrame
      <4>10. QED
        BY <1>4, <1>5, <2>2, <2>3, <3>1, <4>2, <4>5, <4>8, <4>9
    <3>4. QED
      BY <3>2, <3>3
  <2>9. QED
    BY <2>3, <2>7, <2>8 DEF Frame
<1>8. QED
  BY <1>6, <1>7

\* A scan from mark j on ended at mark l, the packets between in x.
CutAt(items, o, a, m, j, x, l) ==
    /\ o[l] <= a + m /\ (l = Len(items) \/ a + m < o[l + 1])
    /\ x.next = o[l] - a
    /\ Len(x.packets) = l - j
    /\ \A i \in 1..(l - j) : ParseTlvMap(x.packets[i]) = items[j + i] /\ items[j + i].ok

\* The scan from mark j on ended at a mark.
Cut(items, o, a, m, j, x) == \E l \in j..Len(items) : CutAt(items, o, a, m, j, x, l)

\* What taking one more packet changes in the result of feed.
LEMMA PacketInFront ==
    ASSUME NEW x \in Scans, NEW p \in Seq(Nat), NEW y, y = InFront(p, x)
    PROVE  /\ y \in Scans /\ y.bad = x.bad /\ y.next = x.next
           /\ Len(y.packets) = Len(x.packets) + 1
           /\ y.packets[1] = p
           /\ \A i \in 1..Len(x.packets) : y.packets[i + 1] = x.packets[i]
<1>1. PICK q \in Seq(Seq(Nat)) : q = x.packets
  BY DEF Scans
<1>2. PICK s \in Seq(Seq(Nat)) : s = <<p>> /\ Len(s) = 1 /\ s[1] = p
  BY Single, Zenon
<1>3. PICK t : t = s \o q
  BY Zenon
<1>4. /\ t \in Seq(Seq(Nat)) /\ Len(t) = 1 + Len(q)
      /\ t[1] = p
      /\ \A i \in 1..Len(q) : t[1 + i] = q[i]
  <2>1. /\ t \in Seq(Seq(Nat)) /\ Len(t) = Len(s) + Len(q)
        /\ \A i \in 1..Len(s) : t[i] = s[i]
        /\ \A i \in 1..Len(q) : t[Len(s) + i] = q[i]
    BY <1>3, Joined
  <2>2. QED
    BY <1>2, <2>1
<1>5. y = [packets |-> t, next |-> x.next, bad |-> x.bad]
  BY <1>1, <1>2, <1>3, Zenon DEF Scans, InFront
<1>6. y \in Scans /\ y.bad = x.bad /\ y.next = x.next /\ y.packets = t
  <2>1. PICK n \in Nat, b \in BOOLEAN : n = x.next /\ b = x.bad
    BY DEF Scans
  <2>2. t \in Seq(Seq(Nat))
    BY <1>4
  <2>3. y = [packets |-> t, next |-> n, bad |-> b]
    BY <1>5, <2>1
  <2>4. QED
    BY <2>1, <2>2, <2>3 DEF Scans
<1>7. Len(t) = Len(q) + 1 /\ \A i \in 1..Len(q) : t[i + 1] = q[i]
  <2>1. \A i \in 1..Len(q) : 1 + i = i + 1
    OBVIOUS
  <2>2. Len(t) = Len(q) + 1
    BY <1>4
  <2>3. QED
    BY <1>4, <2>1, <2>2
<1>8. QED
  BY <1>1, <1>4, <1>6, <1>7

\* A packet up to mark j + 1, and the cut from there, are the cut from mark j.
LEMMA CutGrows ==
    ASSUME NEW items, Len(items) \in Nat, NEW o, NEW a, NEW m, NEW j \in Nat,
           NEW x \in Scans, Cut(items, o, a, m, j + 1, x),
           NEW p \in Seq(Nat), ParseTlvMap(p) = items[j + 1], items[j + 1].ok,
           NEW y, y = InFront(p, x)
    PROVE  Cut(items, o, a, m, j, y)
<1>1. PICK l \in (j + 1)..Len(items) : CutAt(items, o, a, m, j + 1, x, l)
  BY DEF Cut
<1>2. /\ y.next = x.next /\ Len(y.packets) = Len(x.packets) + 1
      /\ y.packets[1] = p
      /\ \A i \in 1..Len(x.packets) : y.packets[i + 1] = x.packets[i]
  BY PacketInFront, SMTT(30)
<1>3. PICK k \in Nat : k = l - (j + 1) /\ l - j = k + 1
  OBVIOUS
<1>4. Len(x.packets) = k /\ Len(y.packets) = l - j
  BY <1>1, <1>2, <1>3 DEF CutAt
<1>5. ASSUME NEW i \in 1..(l - j)
      PROVE  ParseTlvMap(y.packets[i]) = items[j + i] /\ items[j + i].ok
  <2>1. CASE i = 1
    BY <1>2, <2>1
  <2>2. CASE i # 1
    <3>1. PICK h \in 1..k : i = h + 1 /\ (j + 1) + h = j + i
      <4>1. k \in Nat /\ i \in 1..(k + 1)
        BY <1>3
      <4>2. PICK h \in 1..k : i = h + 1
        BY <2>2, <4>1, PredecessorIn
      <4>3. (j + 1) + h = j + i
        BY <4>2
      <4>4. QED
        BY <4>2, <4>3
    <3>2. y.packets[i] = x.packets[h]
      BY <1>2, <1>4, <3>1
    <3>3. ParseTlvMap(x.packets[h]) = items[(j + 1) + h] /\ items[(j + 1) + h].ok
      BY <1>1, <1>3, Zenon DEF CutAt
    <3>4. QED
      BY <3>1, <3>2, <3>3
  <2>3. QED
    BY <2>1, <2>2
<1>6. CutAt(items, o, a, m, j, y, l)
  BY <1>1, <1>2, <1>4, <1>5 DEF CutAt
<1>7. l \in j..Len(items)
  OBVIOUS
<1>8. QED
  BY <1>6, <1>7 DEF Cut

\* feed has the m bytes of the stream behind mark c.
Reading(W, items, o, c, m, bytes) ==
    /\ W \in Seq(Nat) /\ \E X : items \in Seq(X)
    /\ Marked(W, items, o)
    /\ c \in 0..Len(items) /\ m \in Nat /\ o[c] + m <= Len(W)
    /\ bytes = Slice(W, o[c], o[c] + m)

\* However far the bytes read go, feed cuts them at the marks.
LEMMA FeedCutsAtMarks ==
    ASSUME NEW W, NEW items, NEW o, NEW c, NEW m, NEW bytes,
           Reading(W, items, o, c, m, bytes)
    PROVE  /\ Scan(bytes) \in Scans
           /\ ~Scan(bytes).bad => Cut(items, o, o[c], m, c, Scan(bytes))
<1>1. PICK X : items \in Seq(X)
  BY DEF Reading
<1>2. PICK k \in Nat : k = Len(items) /\ c \in 0..k
  BY <1>1 DEF Reading
<1>3. PICK a \in Nat : a = o[c]
  BY <1>1, Zenon DEF Reading, Marked
<1>4. /\ W \in Seq(Nat) /\ Marked(W, items, o) /\ m \in Nat /\ a + m <= Len(W)
      /\ bytes = Slice(W, a, a + m)
  BY <1>3 DEF Reading
<1>5. bytes \in Seq(Nat) /\ Len(bytes) = m
  BY <1>4, Window
<1>6. PICK F : F = ScanFrom(bytes)
  OBVIOUS
<1>7. Scan(bytes) = F[0] /\ \A i \in 0..m : F[i] = ScanAt(bytes, F, i)
  BY <1>5, <1>6, ScanUnfolds
<1> DEFINE Claim(j) == o[j] <= a + m =>
                          /\ F[o[j] - a] \in Scans
                          /\ ~F[o[j] - a].bad => Cut(items, o, a, m, j, F[o[j] - a])
<1>8. ASSUME NEW j \in c..k, j < k => Claim(j + 1)
      PROVE  Claim(j)
  <2>1. SUFFICES ASSUME o[j] <= a + m
                 PROVE  /\ F[o[j] - a] \in Scans
                        /\ ~F[o[j] - a].bad => Cut(items, o, a, m, j, F[o[j] - a])
    OBVIOUS
  <2>2. j \in 0..Len(items) /\ a <= o[j] /\ o[j] \in Nat
    <3>1. j \in 0..Len(items) /\ c \in 0..Len(items) /\ c <= j
      BY <1>2
    <3>2. QED
      BY <1>3, <1>4, <3>1, Zenon DEF Marked
  <2>3. PICK i \in 0..m : i = o[j] - a
    <3>1. PICK v \in Nat : v = o[j] /\ a <= v /\ v <= a + m
      BY <2>1, <2>2
    <3>2. v - a \in 0..m
      BY <1>4, <3>1
    <3>3. QED
      BY <3>1, <3>2
  <2>4. F[i] = ScanAt(bytes, F, i)
    BY <1>7
  <2>5. TurnEnds(items, o, a, m, j, F, F[i])
    <3>1. TurnEnds(items, o, a, m, j, F, ScanAt(bytes, F, o[j] - a))
      BY <1>1, <1>4, <2>1, <2>2, TurnAtMark, Zenon
    <3>2. QED
      BY <2>3, <2>4, <3>1
  <2>6. CASE /\ Stops(F[i], i)
             /\ j = Len(items) \/ a + m < o[j + 1]
    <3>1. F[i] \in Scans
      BY <2>6 DEF Stops, Scans
    <3>2. CutAt(items, o, a, m, j, F[i], j)
      <4>1. F[i].next = o[j] - a /\ Len(F[i].packets) = 0
        BY <2>3, <2>6 DEF Stops
      <4>2. j - j = 0 /\ \A q \in 1..(j - j) : FALSE
        OBVIOUS
      <4>3. QED
        BY <2>1, <2>6, <4>1, <4>2 DEF CutAt
    <3>3. j \in j..Len(items)
      BY <1>2
    <3>4. QED
      BY <2>3, <3>1, <3>2, <3>3 DEF Cut
  <2>7. CASE F[i] = [packets |-> <<>>, next |-> i, bad |-> TRUE]
    <3>1. F[i] \in Scans /\ F[i].bad
      BY <2>7 DEF Scans
    <3>2. QED
      BY <2>3, <3>1
  <2>8. ASSUME NEW p \in Seq(Nat),
               /\ j < Len(items) /\ o[j + 1] <= a + m
               /\ F[i] = InFront(p, F[o[j + 1] - a])
               /\ ParseTlvMap(p) = items[j + 1] /\ items[j + 1].ok
        PROVE  F[i] \in Scans /\ (~F[i].bad => Cut(items, o, a, m, j, F[i]))
    <3>1. PICK x : x = F[o[j + 1] - a]
      OBVIOUS
    <3>2. x \in Scans /\ (~x.bad => Cut(items, o, a, m, j + 1, x))
      BY <1>2, <1>8, <2>8, <3>1
    <3>2a. x \in Scans
      BY <3>2
    <3>3. PICK y : y = F[i]
      OBVIOUS
    <3>4. y = InFront(p, x)
      BY <2>8, <3>1, <3>3
    <3>5. y \in Scans /\ y.bad = x.bad
      BY <3>2a, <3>4, PacketInFront
    <3>6. ASSUME ~y.bad PROVE Cut(items, o, a, m, j, y)
      <4>1. Cut(items, o, a, m, j + 1, x) /\ j \in Nat /\ Len(items) \in Nat
        BY <1>2, <3>2, <3>5, <3>6
      <4>2. QED
        BY <2>8, <3>2a, <3>4, <4>1, CutGrows
    <3>7. QED
      BY <3>3, <3>5, <3>6
  <2>9. QED
    <3>1. F[i] \in Scans /\ (~F[i].bad => Cut(items, o, a, m, j, F[i]))
      BY <2>3, <2>5, <2>6, <2>7, <2>8 DEF TurnEnds
    <3>2. QED
      BY <2>3, <3>1
<1>9. Claim(c)
  <2> DEFINE Bad == {d \in 0..(k - c) : ~Claim(k - d)}
  <2>1. SUFFICES Bad = {}
    <3>1. k - c \in 0..(k - c) /\ k - (k - c) = c
      BY <1>2
    <3>2. k - c \notin Bad => Claim(k - (k - c))
      BY <3>1
    <3> HIDE DEF Claim
    <3>3. QED
      BY <3>1, <3>2
  <2>2. SUFFICES ASSUME Bad # {} PROVE FALSE
    OBVIOUS
  <2> HIDE DEF Claim
  <2>3. Bad \subseteq Nat
    BY <1>2
  <2>4. PICK d \in Bad : \A e \in Bad : d <= e
    BY <2>2, <2>3, LeastMember, Zenon
  <2>5. PICK j \in c..k : j = k - d /\ ~Claim(j) /\ d \in 0..(k - c)
    BY <1>2, <2>4
  <2>6. j < k => Claim(j + 1)
    <3>1. SUFFICES ASSUME j < k PROVE Claim(j + 1)
      OBVIOUS
    <3>2. d - 1 \in 0..(k - c) /\ k - (d - 1) = j + 1 /\ ~(d <= d - 1)
      BY <1>2, <2>5, <3>1
    <3>3. d - 1 \notin Bad
      BY <2>4, <3>2
    <3>4. QED
      BY <3>2, <3>3
  <2>7. QED
    BY <1>8, <2>5, <2>6
<1>10. o[c] - a = 0 /\ o[c] <= a + m
  BY <1>3, <1>4
<1>11. QED
  BY <1>3, <1>7, <1>9, <1>10

\* The frames of a stream stay where they are.
LEMMA FrameStays ==
    ASSUME NEW W \in Seq(Nat), NEW w \in Seq(Nat), NEW a \in Nat, NEW b \in Nat, NEW item,
           Frame(W, a, b, item)
    PROVE  Frame(W \o w, a, b, item)
<1>1. PICK c : c = W \o w
  BY Zenon
<1>2. c \in Seq(Nat) /\ Len(c) = Len(W) + Len(w) /\ \A i \in 1..Len(W) : c[i] = W[i]
  BY <1>1, Joined
<1>3. a + 2 <= b /\ b <= Len(W)
  BY DEF Frame
<1>4. c[a + 1] = W[a + 1] /\ c[a + 2] = W[a + 2]
  <2>1. a + 1 \in 1..Len(W) /\ a + 2 \in 1..Len(W)
    BY <1>3
  <2>2. QED
    BY <1>2, <2>1, Zenon
<1>5. Slice(c, a + 2, b) = Slice(W, a + 2, b)
  <2>1. PICK d \in Nat : d = a + 2 /\ d <= b /\ b <= Len(W)
    BY <1>3
  <2>2. d <= b /\ b <= Len(W)
    BY <2>1
  <2>3. Slice(W \o w, d, b) = Slice(W, d, b)
    BY <2>2, SliceLeft
  <2>4. QED
    BY <1>1, <2>1, <2>3
<1>6. b <= Len(c)
  <2>1. Len(c) = Len(W) + Len(w)
    BY <1>2
  <2>2. QED
    BY <1>3, <2>1
<1>7. Frame(c, a, b, item)
  BY <1>3, <1>4, <1>5, <1>6 DEF Frame, GoodFrame, BadFrame, Header
<1>8. QED
  BY <1>1, <1>7

\* One more packet, one more mark.
LEMMA MarksGrow ==
    ASSUME NEW W \in Seq(Nat), NEW w \in Seq(Nat), NEW X, NEW items \in Seq(X),
           NEW item \in X, NEW o, Marked(W, items, o),
           Frame(W \o w, Len(W), Len(W \o w), item)
    PROVE  \E p : /\ Marked(W \o w, Append(items, item), p)
                  /\ \A j \in 0..Len(items) : p[j] = o[j]
<1>1. PICK V \in Seq(Nat) : V = W \o w /\ Len(V) = Len(W) + Len(w)
  BY Joined, Zenon
<1>2. PICK k \in Nat, e \in Nat, n \in Nat : k = Len(items) /\ e = Len(V) /\ n = Len(W) /\ n <= e
  <2>1. Len(items) \in Nat /\ Len(V) \in Nat /\ Len(W) \in Nat /\ Len(W) <= Len(V)
    BY <1>1
  <2>2. QED
    BY <2>1
<1>3. PICK its \in Seq(X) : /\ its = Append(items, item) /\ Len(its) = k + 1
                            /\ its[k + 1] = item
                            /\ \A i \in 1..k : its[i] = items[i]
  <2>1. PICK its : its = Append(items, item)
    BY Zenon
  <2>2. /\ its \in Seq(X) /\ Len(its) = Len(items) + 1 /\ its[Len(items) + 1] = item
        /\ \A i \in 1..Len(items) : its[i] = items[i]
    BY <2>1, AppendProperties
  <2>3. QED
    BY <1>2, <2>1, <2>2, Zenon
<1> DEFINE p == [j \in 0..(k + 1) |-> IF j = k + 1 THEN e ELSE o[j]]
<1>4. o \in [0..k -> Nat] /\ o[0] = 0 /\ o[k] = n
  BY <1>2 DEF Marked
<1>5. p \in [0..(k + 1) -> Nat]
  BY <1>4
<1>6. p[0] = 0 /\ p[k + 1] = e /\ \A j \in 0..k : p[j] = o[j]
  BY <1>4
<1>7. \A i, j \in 0..k : i <= j => o[i] <= o[j]
  BY <1>2 DEF Marked
<1>8. ASSUME NEW i \in 0..(k + 1), NEW j \in 0..(k + 1), i <= j
      PROVE  p[i] <= p[j]
  <2>1. CASE j \in 0..k
    <3>1. i \in 0..k
      BY <1>8, <2>1
    <3>2. QED
      BY <1>6, <1>7, <1>8, <2>1, <3>1
  <2>2. CASE j = k + 1 /\ i \in 0..k
    <3>1. k \in 0..k /\ i <= k
      BY <2>2
    <3>2. o[i] <= n /\ o[i] \in Nat
      BY <1>4, <1>7, <2>2, <3>1
    <3>3. o[i] <= e
      BY <1>2, <3>2
    <3>4. QED
      BY <1>6, <2>2, <3>3
  <2>3. CASE j = k + 1 /\ i = k + 1
    BY <1>6, <2>3
  <2>4. QED
    BY <2>1, <2>2, <2>3
<1>9. ASSUME NEW j \in 0..k
      PROVE  Frame(V, p[j], p[j + 1], its[j + 1])
  <2>1. CASE j = k
    <3>1. Frame(V, n, e, item)
      BY <1>1, <1>2
    <3>2. p[j] = n /\ p[j + 1] = e /\ its[j + 1] = item
      BY <1>3, <1>4, <1>6, <2>1
    <3>3. QED
      BY <3>1, <3>2
  <2>2. CASE j # k
    <3>1. j \in 0..(k - 1) /\ j + 1 \in 0..k /\ j + 1 \in 1..k
      BY <2>2
    <3>2. Frame(W, o[j], o[j + 1], items[j + 1])
      BY <1>2, <3>1 DEF Marked
    <3>3. o[j] \in Nat /\ o[j + 1] \in Nat
      BY <1>4, <3>1
    <3>4. Frame(V, o[j], o[j + 1], items[j + 1])
      BY <1>1, <3>2, <3>3, FrameStays
    <3>5. p[j] = o[j] /\ p[j + 1] = o[j + 1] /\ its[j + 1] = items[j + 1]
      BY <1>3, <1>6, <3>1
    <3>6. QED
      BY <3>4, <3>5
  <2>3. QED
    BY <2>1, <2>2
<1>10. Marked(V, its, p)
  <2> HIDE DEF p
  <2>1. (k + 1) - 1 = k
    OBVIOUS
  <2>2. QED
    BY <1>2, <1>3, <1>5, <1>6, <1>8, <1>9, <2>1 DEF Marked
<1>11. QED
  <2> HIDE DEF p
  <2>1. QED
    BY <1>1, <1>2, <1>3, <1>6, <1>10

\* encodePacket makes a frame of the body.
LEMMA PacketFrame ==
    ASSUME NEW W \in Seq(Nat), NEW body \in Seq(Nat), Len(body) <= MaxBody,
           NEW item, ParseTlvMap(body) = item, item.ok
    PROVE  /\ EncodePacket(body) \in Seq(Nat)
           /\ Frame(W \o EncodePacket(body), Len(W), Len(W \o EncodePacket(body)), item)
<1>1. PICK n \in Nat, a \in Nat : n = Len(body) /\ a = Len(W)
  OBVIOUS
<1>2. PICK w : w = EncodePacket(body)
  OBVIOUS
<1>3. PICK V : V = W \o w
  BY Zenon
<1>3a. PICK h \in Seq(Nat) : h = <<Magic, n>> /\ Len(h) = 2 /\ h[1] = Magic /\ h[2] = n
  BY WireAssumption, TwoUnits, ZenonT(40)
<1>4. w = h \o body
  BY <1>1, <1>2, <1>3a DEF EncodePacket
<1>5. /\ w \in Seq(Nat) /\ Len(V) = Len(W) + 2 + Len(body)
      /\ V[Len(W) + 1] = Magic /\ V[Len(W) + 2] = n
      /\ Slice(V, Len(W) + 2, Len(V)) = body
  <2>1. h \in Seq(Nat) /\ Len(h) = 2
    BY <1>3a
  <2>2. h \o body \in Seq(Nat) /\ Joins(W, h, body, W \o (h \o body))
    BY <2>1, HeaderAndBody
  <2>3. QED
    BY <1>3, <1>3a, <1>4, <2>2 DEF Joins
<1>6. PICK b \in Nat : b = Len(V) /\ b = a + 2 + n /\ a + 2 <= b
  <2>1. a + 2 + n \in Nat /\ a + 2 <= a + 2 + n
    OBVIOUS
  <2>2. QED
    BY <1>1, <1>5, <2>1
<1>7. GoodFrame(V, a, b, item)
  BY <1>1, <1>5, <1>6 DEF GoodFrame, Header
<1>8. Frame(V, a, b, item)
  BY <1>6, <1>7 DEF Frame
<1>9. QED
  BY <1>1, <1>2, <1>3, <1>5, <1>6, <1>8

\* A header that does not validate makes one too.
LEMMA BadHeaderFrame ==
    ASSUME NEW W \in Seq(Nat), NEW header \in {<<Magic + 1, 0>>, <<Magic, MaxBody + 1>>},
           NEW item, ~item.ok
    PROVE  /\ header \in Seq(Nat)
           /\ Frame(W \o header, Len(W), Len(W \o header), item)
<1>1. PICK u \in Nat, v \in Nat : header = <<u, v>> /\ (u # Magic \/ ~(v <= MaxBody))
  <2>1. Magic \in Nat /\ MaxBody \in Nat /\ Magic + 1 # Magic /\ ~(MaxBody + 1 <= MaxBody)
    BY WireAssumption
  <2>2. QED
    BY <2>1
<1>2. header \in Seq(Nat)
  BY <1>1
<1>3. PICK h \in Seq(Nat) : h = <<u, v>> /\ Len(h) = 2 /\ h[1] = u /\ h[2] = v
  BY TwoUnits, Zenon
<1>3a. PICK e \in Seq(Nat) : e = <<>> /\ Len(e) = 0
  BY EmptySeq, Zenon
<1>4. header = h \o e
  BY <1>1, <1>3, <1>3a, ConcatEmptySeq
<1>5. PICK V : V = W \o header
  BY Zenon
<1>6. Len(V) = Len(W) + 2 + Len(e) /\ V[Len(W) + 1] = u /\ V[Len(W) + 2] = v
  <2>1. h \in Seq(Nat) /\ Len(h) = 2
    BY <1>3
  <2>2. Joins(W, h, e, W \o (h \o e))
    BY <2>1, HeaderAndBody
  <2>3. QED
    BY <1>3, <1>4, <1>5, <2>2 DEF Joins
<1>7. PICK a \in Nat, b \in Nat : a = Len(W) /\ b = Len(V) /\ b = a + 2
  <2>1. Len(W) \in Nat /\ Len(W) + 2 + 0 = Len(W) + 2 /\ Len(W) + 2 \in Nat
    OBVIOUS
  <2>2. QED
    BY <1>3a, <1>6, <2>1
<1>8. BadFrame(V, a, b, item)
  BY <1>1, <1>6, <1>7 DEF BadFrame, Header
<1>9. Frame(V, a, b, item)
  BY <1>7, <1>8 DEF Frame
<1>10. QED
  BY <1>2, <1>5, <1>7, <1>9

-----------------------------------------------------------------------------
(* The stream W of all that was sent, cut at o, and how far the reader is:    *)
(* c packets handled, then the bytes in the decoder, on the network and in    *)
(* the output buffer.                                                        *)

\* What is on its way: behind mark c, the last packet handled, the stream holds
\* the decoder's bytes d, the bytes n in the socket and the bytes r still in the
\* output buffer, in this order, and d is less than a whole frame.
Follows(W, o, items, c, d, n, r) ==
    /\ W \in Seq(Nat) /\ d \in Seq(Nat) /\ n \in Seq(Nat) /\ r \in Seq(Nat)
    /\ c \in 0..Len(items) /\ Marked(W, items, o)
    /\ Slice(W, o[c], Len(W)) = (d \o n) \o r
    /\ c = Len(items) \/ o[c] + Len(d) < o[c + 1]

\* A mark is an offset of the stream.
LEMMA MarkBounds ==
    ASSUME NEW W \in Seq(Nat), NEW items, Len(items) \in Nat, NEW o, Marked(W, items, o),
           NEW c \in 0..Len(items)
    PROVE  o[c] \in Nat /\ o[c] <= Len(W)
<1>1. Len(items) \in 0..Len(items) /\ c <= Len(items)
  OBVIOUS
<1>2. QED
  BY <1>1 DEF Marked

\* Session::sendPacket: a packet behind the output buffer is a frame behind the
\* stream.
LEMMA SendFollows ==
    ASSUME NEW W, NEW o, NEW X, NEW items \in Seq(X), NEW c, NEW d, NEW n, NEW r,
           Follows(W, o, items, c, d, n, r), NEW w \in Seq(Nat), NEW item \in X,
           Frame(W \o w, Len(W), Len(W \o w), item)
    PROVE  \E V, p : Follows(V, p, Append(items, item), c, d, n, r \o w)
<1>1. /\ W \in Seq(Nat) /\ d \in Seq(Nat) /\ n \in Seq(Nat) /\ r \in Seq(Nat)
      /\ c \in 0..Len(items) /\ Marked(W, items, o)
  BY DEF Follows
<1>2. PICK p : /\ Marked(W \o w, Append(items, item), p)
               /\ \A j \in 0..Len(items) : p[j] = o[j]
  BY <1>1, MarksGrow
<1>3. PICK V \in Seq(Nat) : V = W \o w
  BY <1>1, Joined, Zenon
<1>4. PICK its : its = Append(items, item)
  BY Zenon
<1>5. PICK k \in Nat : k = Len(items) /\ Len(its) = k + 1
  <2>1. Len(items) \in Nat /\ Len(Append(items, item)) = Len(items) + 1
    BY AppendProperties
  <2>2. QED
    BY <1>4, <2>1
<1>6. PICK a \in Nat : a = o[c] /\ a = p[c] /\ a <= Len(W)
  <2>1. o[c] \in Nat /\ o[c] <= Len(W)
    BY <1>1, <1>5, MarkBounds
  <2>2. QED
    BY <1>1, <1>2, <2>1, Zenon
<1>7. PICK q \in Seq(Nat) : q = d \o n
  BY <1>1, Joined, Zenon
<1>8. Slice(V, a, Len(V)) = (d \o n) \o (r \o w)
  <2>1. Slice(W \o w, a, Len(W \o w)) = Slice(W, a, Len(W)) \o w
    BY <1>1, <1>6, TailGrows, Zenon
  <2>2. Slice(W, a, Len(W)) = q \o r
    BY <1>6, <1>7, Zenon DEF Follows
  <2>3. (q \o r) \o w = q \o (r \o w)
    BY <1>1, BytesAssociate, ZenonT(40) DEF Associates
  <2>4. QED
    BY <1>3, <1>7, <2>1, <2>2, <2>3
<1>9. r \o w \in Seq(Nat)
  BY <1>1, Joined
<1>10. c \in 0..Len(its)
  BY <1>1, <1>5
<1>11. c = Len(its) \/ p[c] + Len(d) < p[c + 1]
  <2>1. CASE c = k
    <3>1. Frame(V, a, p[k + 1], item) /\ p[k + 1] = Len(V)
      <4>1. p[Len(its)] = Len(V) /\ a = Len(W)
        BY <1>1, <1>2, <1>3, <1>4, <1>5, <1>6, <2>1, Zenon DEF Marked
      <4>2. QED
        BY <1>3, <1>5, <4>1
    <3>2. PICK e \in Nat : e = p[k + 1] /\ a + 2 <= e
      BY <1>3, <3>1 DEF Frame
    <3>3. Len(d) = 0
      <4>1. a = Len(W)
        BY <1>1, <1>5, <1>6, <2>1, Zenon DEF Marked
      <4>2. Slice(W, a, Len(W)) = <<>>
        BY <1>6, <4>1, SliceEmpty
      <4>3. q \o r = <<>>
        BY <1>6, <1>7, <4>2 DEF Follows
      <4>4. q = <<>>
        BY <1>1, <4>3, NoBytes
      <4>5. d = <<>>
        BY <1>1, <1>7, <4>4, NoBytes, Zenon
      <4>6. QED
        BY <4>5
    <3>4. QED
      BY <1>6, <2>1, <3>2, <3>3, SMTT(30)
  <2>2. CASE c # k
    <3>1. o[c] + Len(d) < o[c + 1]
      BY <1>5, <2>2 DEF Follows
    <3>2. c + 1 \in 0..Len(items)
      BY <1>1, <1>5, <2>2
    <3>3. QED
      BY <1>1, <1>2, <3>1, <3>2
  <2>3. QED
    BY <2>1, <2>2
<1>12. Follows(V, p, its, c, d, n, r \o w)
  BY <1>1, <1>2, <1>3, <1>4, <1>6, <1>8, <1>9, <1>10, <1>11 DEF Follows
<1>13. QED
  BY <1>4, <1>12

\* Session::handleWrite: q bytes move from the buffer to the socket.
LEMMA WriteFollows ==
    ASSUME NEW W, NEW o, NEW items, NEW c, NEW d, NEW n, NEW r,
           Follows(W, o, items, c, d, n, r), NEW q \in 1..Len(r)
    PROVE  Follows(W, o, items, c, d, n \o Slice(r, 0, q), Slice(r, q, Len(r)))
<1>1. d \in Seq(Nat) /\ n \in Seq(Nat) /\ r \in Seq(Nat)
  BY DEF Follows
<1>2. PICK m \in Nat : m = Len(r) /\ q <= m /\ q \in Nat
  BY <1>1
<1>3. 0 \in Nat /\ 0 <= q /\ q <= m /\ m <= Len(r)
  BY <1>2
<1>4. PICK r1 : r1 = Slice(r, 0, q)
  OBVIOUS
<1>5. PICK r2 : r2 = Slice(r, q, m)
  OBVIOUS
<1>6. r1 \in Seq(Nat)
  <2>1. q \in Nat /\ q <= Len(r)
    BY <1>2
  <2>2. QED
    BY <1>1, <1>4, <2>1, FrontSlice
<1>7. r2 \in Seq(Nat)
  <2>1. q \in Nat /\ m \in Nat /\ q <= m /\ m <= Len(r)
    BY <1>2
  <2>2. QED
    BY <1>1, <1>5, <2>1, SliceProperties, Zenon
<1>8. r = r1 \o r2
  <2>1. Slice(r, 0, m) = Slice(r, 0, q) \o Slice(r, q, m)
    BY <1>1, <1>2, <1>3, SliceJoin, Zenon
  <2>2. Slice(r, 0, m) = r
    BY <1>1, <1>2, WholeSlice
  <2>3. QED
    BY <1>4, <1>5, <2>1, <2>2
<1>9. PICK p \in Seq(Nat) : p = d \o n
  BY <1>1, Joined, Zenon
<1>10. (d \o (n \o r1)) \o r2 = (d \o n) \o r
  <2>1. p \o (r1 \o r2) = (p \o r1) \o r2
    BY <1>6, <1>7, BytesAssociate, Zenon DEF Associates
  <2>2. (d \o n) \o r1 = d \o (n \o r1)
    BY <1>1, <1>6, BytesAssociate, ZenonT(40) DEF Associates
  <2>3. QED
    BY <1>8, <1>9, <2>1, <2>2
<1>11. n \o r1 \in Seq(Nat)
  BY <1>1, <1>6, Joined
<1>12. QED
  BY <1>2, <1>4, <1>5, <1>7, <1>10, <1>11, Zenon DEF Follows

\* The packets of a scan are those from mark c to mark l.
Handles(items, c, l, x) ==
    /\ Len(x.packets) = l - c
    /\ \A i \in 1..(l - c) : ParseTlvMap(x.packets[i]) = items[c + i] /\ items[c + i].ok

\* The bytes feed works on: those it kept and the q it was given.
Fed(d, n, q) == d \o Slice(n, 0, q)

\* The bytes lie in the stream from offset a on, with n and r behind them.
InWindow(W, a, bytes, n, r) ==
    /\ bytes \in Seq(Nat) /\ n \in Seq(Nat)
    /\ a \in Nat /\ a + Len(bytes) <= Len(W)
    /\ bytes = Slice(W, a, a + Len(bytes))
    /\ n \o r = Slice(W, a + Len(bytes), Len(W))

\* A read of q bytes: feed gets what it kept and them.
LEMMA ReadIsWindow ==
    ASSUME NEW W, NEW o, NEW X, NEW items \in Seq(X), NEW c, NEW d, NEW n, NEW r,
           Follows(W, o, items, c, d, n, r), NEW q \in 1..Len(n),
           NEW bytes, bytes = Fed(d, n, q)
    PROVE  InWindow(W, o[c], bytes, Slice(n, q, Len(n)), r)
<1>1. /\ W \in Seq(Nat) /\ d \in Seq(Nat) /\ n \in Seq(Nat) /\ r \in Seq(Nat)
      /\ c \in 0..Len(items) /\ Marked(W, items, o)
  BY DEF Follows
<1>2. PICK a \in Nat : a = o[c] /\ a <= Len(W)
  <2>1. Len(items) \in Nat
    OBVIOUS
  <2>2. QED
    BY <1>1, <2>1, MarkBounds, Zenon
<1>3. PICK e \in Nat : e = Len(n) /\ q <= e /\ q \in Nat
  BY <1>1
<1>4. PICK n1 \in Seq(Nat) : n1 = Slice(n, 0, q)
  <2>1. q \in Nat /\ q <= Len(n)
    BY <1>3
  <2>2. QED
    BY <1>1, <2>1, FrontSlice
<1>5. PICK n2 \in Seq(Nat) : n2 = Slice(n, q, Len(n))
  <2>1. q \in Nat /\ e \in Nat /\ q <= e /\ e <= Len(n)
    BY <1>3
  <2>2. Slice(n, q, e) \in Seq(Nat)
    BY <1>1, <2>1, SliceProperties
  <2>3. QED
    BY <1>3, <2>2
<1>6. n = n1 \o n2
  <2>1. 0 \in Nat /\ 0 <= q /\ q <= e /\ e <= Len(n)
    BY <1>3
  <2>2. Slice(n, 0, e) = Slice(n, 0, q) \o Slice(n, q, e)
    BY <1>1, <1>3, <2>1, SliceJoin, ZenonT(40)
  <2>3. Slice(n, 0, e) = n
    BY <1>1, <1>3, WholeSlice
  <2>4. QED
    BY <1>3, <1>4, <1>5, <2>2, <2>3, Zenon
<1>7. PICK s \in Seq(Nat) : s = bytes /\ s = d \o n1
  <2>1. d \o n1 \in Seq(Nat)
    BY <1>1, Joined
  <2>2. QED
    BY <1>4, <2>1, Zenon DEF Fed
<1>8. PICK t \in Seq(Nat) : t = n2 \o r
  BY <1>1, Joined, Zenon
<1>9. Slice(W, a, Len(W)) = s \o t
  <2>0. d \in Seq(Nat) /\ r \in Seq(Nat)
    BY <1>1
  <2>1. Associates(d, n1, n2)
    BY <2>0, BytesAssociate
  <2>2. Associates(s, n2, r)
    BY <2>0, BytesAssociate
  <2>3. Slice(W, a, Len(W)) = (d \o n) \o r
    BY <1>2, Zenon DEF Follows
  <2>4. QED
    BY <1>6, <1>7, <1>8, <2>1, <2>2, <2>3, Zenon DEF Associates
<1>10. PICK w \in Nat, k \in Nat : w = Len(W) /\ k = Len(s)
  BY <1>1
<1>11. PICK u : u = Slice(W, a, w)
  OBVIOUS
<1>12. u \in Seq(Nat) /\ Len(u) = w - a
  <2>1. a <= w /\ w <= Len(W)
    BY <1>2, <1>10
  <2>2. QED
    BY <1>1, <1>11, <2>1, SliceProperties, ZenonT(40)
<1>13. u = s \o t
  BY <1>9, <1>10, <1>11
<1>14. Len(u) = k + Len(t) /\ Slice(u, 0, k) = s /\ Slice(u, k, Len(u)) = t
  <2>1. /\ Len(s \o t) = Len(s) + Len(t)
        /\ Slice(s \o t, 0, Len(s)) = s
        /\ Slice(s \o t, Len(s), Len(s \o t)) = t
    BY SliceParts
  <2>2. QED
    BY <1>10, <1>13, <2>1
<1>15. a + k <= w /\ Len(u) = w - a
  <2>1. PICK g \in Nat : g = Len(t) /\ k + g = w - a
    BY <1>12, <1>14
  <2>2. QED
    BY <1>12, <2>1
<1>16. Slice(u, 0, k) = Slice(W, a, a + k)
  <2>1. 0 \in Nat /\ 0 <= k /\ a + k <= w /\ w <= Len(W) /\ a + 0 = a
    BY <1>10, <1>15
  <2>2. SubWindow(W, a, w, 0, k)
    BY <1>1, <2>1, BytesSubWindow, Zenon
  <2>3. QED
    BY <1>11, <2>1, <2>2 DEF SubWindow
<1>17. Slice(u, k, Len(u)) = Slice(W, a + k, w)
  <2>1. PICK m \in Nat : m = w - a /\ k <= m /\ a + m = w /\ a + m <= w /\ w <= Len(W)
    <3>1. w - a \in Nat /\ k <= w - a /\ a + (w - a) = w /\ w <= w
      BY <1>15
    <3>2. w <= Len(W)
      BY <1>10
    <3>3. QED
      BY <3>1, <3>2
  <2>2. k <= m /\ a + m <= w /\ w <= Len(W)
    BY <2>1
  <2>3. SubWindow(W, a, w, k, m)
    BY <1>1, <2>2, BytesSubWindow, ZenonT(40)
  <2>4. QED
    BY <1>11, <1>15, <2>1, <2>3 DEF SubWindow
<1>18. QED
  BY <1>2, <1>5, <1>7, <1>8, <1>10, <1>14, <1>15, <1>16, <1>17, Zenon DEF InWindow

\* Session::handleRead: unless feed refuses a header, the packets it returns are
\* the next ones of the stream, and what it keeps is behind the last of them.
LEMMA ReadFollows ==
    ASSUME NEW W, NEW o, NEW X, NEW items \in Seq(X), NEW c, NEW d, NEW n, NEW r,
           Follows(W, o, items, c, d, n, r), NEW q \in 1..Len(n),
           NEW bytes, bytes = Fed(d, n, q)
    PROVE  /\ bytes \in Seq(Nat) /\ Scan(bytes) \in Scans
           /\ ~Scan(bytes).bad =>
                 \E l \in c..Len(items) :
                    /\ Handles(items, c, l, Scan(bytes))
                    /\ Follows(W, o, items, l, Slice(bytes, Scan(bytes).next, Len(bytes)),
                               Slice(n, q, Len(n)), r)
<1>1. /\ W \in Seq(Nat) /\ r \in Seq(Nat)
      /\ c \in 0..Len(items) /\ Marked(W, items, o)
  BY DEF Follows
<1>2. PICK n2 : n2 = Slice(n, q, Len(n))
  OBVIOUS
<1>3. /\ bytes \in Seq(Nat) /\ n2 \in Seq(Nat)
      /\ o[c] \in Nat /\ o[c] + Len(bytes) <= Len(W)
      /\ bytes = Slice(W, o[c], o[c] + Len(bytes))
      /\ n2 \o r = Slice(W, o[c] + Len(bytes), Len(W))
  <2>1. InWindow(W, o[c], bytes, n2, r)
    BY <1>2, ReadIsWindow
  <2>2. QED
    BY <2>1 DEF InWindow
<1>4. PICK a \in Nat, m \in Nat, w \in Nat : a = o[c] /\ m = Len(bytes) /\ w = Len(W)
  BY <1>1, <1>3
<1>5. PICK x : x = Scan(bytes)
  OBVIOUS
<1>6. x \in Scans /\ (~x.bad => Cut(items, o, a, m, c, x))
  <2>1. Reading(W, items, o, c, m, bytes)
    BY <1>1, <1>3, <1>4 DEF Reading
  <2>2. QED
    BY <1>4, <1>5, <2>1, FeedCutsAtMarks
<1>7. ASSUME ~x.bad
      PROVE  \E l \in c..Len(items) :
                /\ Handles(items, c, l, x)
                /\ Follows(W, o, items, l, Slice(bytes, x.next, m), n2, r)
  <2>1. PICK l \in c..Len(items) : CutAt(items, o, a, m, c, x, l)
    BY <1>6, <1>7 DEF Cut
  <2>2. Handles(items, c, l, x)
    BY <2>1 DEF CutAt, Handles
  <2>3. l \in 0..Len(items) /\ c <= l /\ Len(items) \in Nat
    BY <1>1
  <2>4. PICK b \in Nat : b = o[l] /\ a <= b /\ b <= a + m
    <3>1. o[l] \in Nat /\ a <= o[l]
      BY <1>1, <1>4, <2>3, ZenonT(40) DEF Marked
    <3>2. o[l] <= a + m
      BY <2>1 DEF CutAt
    <3>3. QED
      BY <3>1, <3>2
  <2>5. PICK i \in Nat : i = x.next /\ b = a + i /\ i <= m
    <3>1. x.next = b - a
      BY <2>1, <2>4 DEF CutAt
    <3>2. b - a \in Nat /\ b = a + (b - a) /\ b - a <= m
      BY <2>4
    <3>3. QED
      BY <3>1, <3>2
  <2>6. PICK k \in Nat : k = a + m /\ b <= k /\ k <= w
    <3>1. a + m \in Nat /\ a + m <= w
      BY <1>3, <1>4
    <3>2. QED
      BY <2>4, <3>1
  <2>7. PICK d2 : d2 = Slice(bytes, i, m)
    OBVIOUS
  <2>8. d2 = Slice(W, b, k)
    <3>1. i <= m /\ a + m <= k /\ k <= Len(W)
      BY <1>4, <2>5, <2>6
    <3>2. Slice(Slice(W, a, k), i, m) = Slice(W, a + i, a + m)
      BY <1>1, <3>1, SliceOfSlice
    <3>3. QED
      BY <1>3, <1>4, <2>5, <2>6, <2>7, <3>2
  <2>9. d2 \in Seq(Nat) /\ Len(d2) = k - b
    <3>1. b <= k /\ k <= Len(W)
      BY <1>4, <2>6
    <3>2. QED
      BY <1>1, <2>8, <3>1, SliceProperties, ZenonT(40)
  <2>10. Slice(W, b, Len(W)) = (d2 \o n2) \o r
    <3>1. b <= k /\ k <= w /\ w <= Len(W)
      BY <1>4, <2>6
    <3>2. Slice(W, b, w) = Slice(W, b, k) \o Slice(W, k, w)
      BY <1>1, <3>1, SliceJoin, ZenonT(90)
    <3>3. Slice(W, k, w) = n2 \o r
      BY <1>3, <1>4, <2>6
    <3>4. (d2 \o n2) \o r = d2 \o (n2 \o r)
      BY <1>1, <1>3, <2>9, BytesAssociate, ZenonT(40) DEF Associates
    <3>5. QED
      BY <1>4, <2>8, <3>2, <3>3, <3>4
  <2>11. l = Len(items) \/ b + Len(d2) < o[l + 1]
    <3>1. l = Len(items) \/ k < o[l + 1]
      BY <2>1, <2>6 DEF CutAt
    <3>2. b + Len(d2) = k
      BY <2>6, <2>9
    <3>3. QED
      BY <3>1, <3>2
  <2>12. Follows(W, o, items, l, d2, n2, r)
    BY <1>1, <1>3, <2>3, <2>4, <2>9, <2>10, <2>11 DEF Follows
  <2>13. QED
    BY <2>2, <2>5, <2>7, <2>12
<1>8. QED
  BY <1>2, <1>3, <1>4, <1>5, <1>6, <1>7

-----------------------------------------------------------------------------
\* What the receiver may make of a packet.
Outcomes == {[ok |-> TRUE, fields |-> ByType(f)] : f \in Bodies}
              \cup {[ok |-> FALSE, fields |-> NoFields]}

\* The types of the stream's state.
Typed ==
    /\ BufferOK(buffer) /\ closed \in BOOLEAN
    /\ sent \in Seq(Outcomes) /\ received \in Seq(Outcomes)

\* What was received is a front of what was sent, and none of it was refused.
Agreed ==
    /\ Len(received) <= Len(sent)
    /\ \A i \in 1..Len(received) : received[i] = sent[i] /\ sent[i].ok

\* The bytes between the two ends are those of W that were not handled yet.
OnTrack(W, o) ==
    Follows(W, o, sent, Len(received), decoder.bytes, network, Readable(buffer))

\* The inductive invariant: while the connection is open there is a stream, with
\* its marks, of which the two ends hold the part not handled yet.
StreamInv == Typed /\ Agreed /\ (~closed => \E W, o : OnTrack(W, o))

\* A new connection: an empty stream.
LEMMA InitStream == WireInit => StreamInv
<1> SUFFICES ASSUME WireInit PROVE StreamInv
  OBVIOUS
<1>1. BufferOK(buffer) /\ buffer.read = 0 /\ buffer.write = 0
  <2>1. PICK z : z = [i \in 1..InitialSize |-> 0]
    BY Zenon
  <2>2. z \in [1..InitialSize -> Nat] /\ InitialSize \in Nat
    BY <2>1, WireAssumption
  <2>3. z \in Seq(Nat)
    BY <2>2, SeqDef
  <2>4. Len(z) = InitialSize
    BY <2>2, <2>3, LenProperties
  <2>5. buffer = [bytes |-> z, read |-> 0, write |-> 0]
    BY <2>1 DEF WireInit
  <2>6. QED
    BY <2>2, <2>3, <2>4, <2>5 DEF BufferOK
<1>2. Readable(buffer) = <<>>
  <2>1. Readable(buffer) = Slice(buffer.bytes, 0, 0)
    BY <1>1, BufferFields
  <2>2. QED
    BY <2>1, SliceEmpty
<1>3. Typed /\ Agreed
  <2>1. <<>> \in Seq(Nat) /\ <<>> \in Seq(Outcomes)
    OBVIOUS
  <2>2. Len(received) = 0 /\ Len(sent) = 0
    BY DEF WireInit
  <2>3. Agreed
    BY <2>2 DEF Agreed
  <2>4. Typed
    BY <1>1, <2>1, Zenon DEF Typed, WireInit
  <2>5. QED
    BY <2>3, <2>4
<1>4. OnTrack(<<>>, [j \in {0} |-> 0])
  <2>1. PICK e \in Seq(Nat) : e = <<>> /\ Len(e) = 0
    BY EmptySeq, Zenon
  <2>2. PICK p : p = [j \in {0} |-> 0]
    BY Zenon
  <2>3. Marked(e, sent, p)
    <3>1. Len(sent) = 0 /\ 0..0 = {0} /\ 0..(0 - 1) = {}
      BY DEF WireInit
    <3>2. p \in [0..0 -> Nat] /\ p[0] = 0
      BY <2>2, <3>1
    <3>3. QED
      BY <2>1, <3>1, <3>2 DEF Marked
  <2>4. Slice(e, p[0], Len(e)) = (e \o e) \o e
    <3>1. p[0] = 0
      BY <2>2
    <3>2. Slice(e, 0, 0) = e
      BY <2>1, SliceEmpty
    <3>3. e \o e = e
      BY <2>1, ConcatEmptySeq
    <3>4. QED
      BY <2>1, <3>1, <3>2, <3>3
  <2>5. /\ Len(received) = 0 /\ Len(sent) = 0
        /\ decoder.bytes = e /\ network = e /\ Readable(buffer) = e
    BY <1>2, <2>1 DEF WireInit
  <2>6. 0 \in 0..0
    OBVIOUS
  <2>7. Follows(e, p, sent, 0, e, e, e)
    BY <2>3, <2>4, <2>5, <2>6 DEF Follows
  <2>8. QED
    BY <2>1, <2>2, <2>5, <2>7 DEF OnTrack
<1>5. QED
  BY <1>3, <1>4 DEF StreamInv

\* One more packet in the output buffer.
LEMMA SendKeepsStream ==
    ASSUME StreamInv, NEW w \in Seq(Nat), NEW item \in Outcomes,
           \A W \in Seq(Nat) : Frame(W \o w, Len(W), Len(W \o w), item),
           buffer' = BufferAppend(buffer, w), sent' = Append(sent, item),
           UNCHANGED <<network, decoder, closed, received>>
    PROVE  StreamInv'
<1>1. BufferOK(buffer') /\ Readable(buffer') = Readable(buffer) \o w
  BY AppendIsReadable, Zenon DEF StreamInv, Typed
<1>2. /\ sent \in Seq(Outcomes) /\ received \in Seq(Outcomes)
      /\ sent' \in Seq(Outcomes) /\ Len(sent') = Len(sent) + 1
      /\ \A i \in 1..Len(sent) : sent'[i] = sent[i]
  BY AppendProperties DEF StreamInv, Typed
<1>3. Typed'
  BY <1>1, <1>2 DEF StreamInv, Typed
<1>4. Agreed'
  <2>1. PICK k \in Nat, c \in Nat : k = Len(sent) /\ c = Len(received) /\ c <= k
    BY <1>2 DEF StreamInv, Agreed
  <2>2. \A i \in 1..c : i \in 1..k
    BY <2>1
  <2>3. Len(received') <= Len(sent')
    BY <1>2, <2>1
  <2>4. \A i \in 1..c : received'[i] = sent'[i] /\ sent'[i].ok
    BY <1>2, <2>1, <2>2 DEF StreamInv, Agreed
  <2>5. QED
    BY <2>1, <2>3, <2>4 DEF Agreed
<1>5. ASSUME ~closed' PROVE \E V, p : OnTrack(V, p)'
  <2>1. PICK W, o : OnTrack(W, o)
    BY <1>5 DEF StreamInv
  <2>2. Follows(W, o, sent, Len(received), decoder.bytes, network, Readable(buffer))
    BY <2>1 DEF OnTrack
  <2>3. W \in Seq(Nat)
    BY <2>2 DEF Follows
  <2>4. \E V, p : Follows(V, p, Append(sent, item), Len(received), decoder.bytes, network,
                          Readable(buffer) \o w)
    BY <1>2, <2>2, <2>3, SendFollows
  <2>5. QED
    BY <1>1, <2>4 DEF OnTrack
<1>6. QED
  BY <1>3, <1>4, <1>5 DEF StreamInv

\* Session::handleWrite, with any number of bytes accepted by the socket.
LEMMA WriteKeepsStream == StreamInv /\ WriteSome => StreamInv'
<1> SUFFICES ASSUME StreamInv, WriteSome PROVE StreamInv'
  OBVIOUS
<1>1. PICK n \in 1..Len(Readable(buffer)) :
         /\ network' = network \o Slice(Readable(buffer), 0, n)
         /\ buffer' = BufferRetrieve(buffer, n)
  BY FromStart, Zenon DEF WriteSome
<1>2. BufferOK(buffer)
  BY DEF StreamInv, Typed
<1>3. /\ BufferOK(buffer')
      /\ Readable(buffer') = Slice(Readable(buffer), n, Len(Readable(buffer)))
  BY <1>1, <1>2, RetrieveDropsWritten
<1>4. PICK r \in Seq(Nat) : r = Readable(buffer)
  BY <1>2, ReadableProperties
<1>6. Typed' /\ Agreed'
  BY <1>3 DEF StreamInv, Typed, Agreed, WriteSome
<1>7. ASSUME ~closed' PROVE \E V, p : OnTrack(V, p)'
  <2>1. PICK W, o : Follows(W, o, sent, Len(received), decoder.bytes, network, r)
    BY <1>4, <1>7 DEF StreamInv, OnTrack, WriteSome
  <2>2. Follows(W, o, sent, Len(received), decoder.bytes, network \o Slice(r, 0, n),
                Slice(r, n, Len(r)))
    BY <1>4, <2>1, WriteFollows
  <2>3. OnTrack(W, o)'
    BY <1>1, <1>3, <1>4, <2>2, ZenonT(40) DEF OnTrack, WriteSome
  <2>4. QED
    BY <2>3
<1>8. QED
  BY <1>6, <1>7 DEF StreamInv

\* Session::handleRead, with any number of bytes in one read, up to the packet
\* that closes the session.
LEMMA ReadKeepsStream == StreamInv /\ ReadSome => StreamInv'
<1> SUFFICES ASSUME StreamInv, ReadSome PROVE StreamInv'
  OBVIOUS
<1>1. PICK n \in 1..Len(network) :
         LET bytes == decoder.bytes \o SubSeq(network, 1, n)
             scan  == Scan(bytes)
         IN  /\ network' = SubSeq(network, n + 1, Len(network))
             /\ decoder' = [bytes |-> SubSeq(bytes, scan.next + 1, Len(bytes)), error |-> scan.bad]
             /\ closed' = scan.bad
             /\ received' = IF scan.bad THEN received
                            ELSE received \o [i \in DOMAIN scan.packets |->
                                                 ParseTlvMap(scan.packets[i])]
  BY Zenon DEF ReadSome
<1>2. PICK bytes : bytes = decoder.bytes \o SubSeq(network, 1, n)
  BY Zenon
<1>2a. bytes = Fed(decoder.bytes, network, n)
  BY <1>2, FromStart, Zenon DEF Fed
<1>3. PICK x : x = Scan(bytes)
  OBVIOUS
<1>4. /\ network' = Slice(network, n, Len(network))
      /\ decoder' = [bytes |-> Slice(bytes, x.next, Len(bytes)), error |-> x.bad]
      /\ closed' = x.bad
      /\ received' = IF x.bad THEN received
                     ELSE received \o [i \in DOMAIN x.packets |-> ParseTlvMap(x.packets[i])]
      /\ buffer' = buffer /\ sent' = sent /\ ~closed
  BY <1>1, <1>2, <1>3, Zenon DEF ReadSome, Slice
<1>5. PICK W, o : Follows(W, o, sent, Len(received), decoder.bytes, network, Readable(buffer))
  BY <1>4 DEF StreamInv, OnTrack
<1>6. PICK c \in Nat, k \in Nat : c = Len(received) /\ k = Len(sent) /\ c <= k
  BY DEF StreamInv, Typed, Agreed
<1>7. sent \in Seq(Outcomes) /\ received \in Seq(Outcomes) /\ BufferOK(buffer)
  BY DEF StreamInv, Typed
<1>8. /\ bytes \in Seq(Nat) /\ x \in Scans
      /\ ~x.bad => \E l \in c..k :
                      /\ Handles(sent, c, l, x)
                      /\ Follows(W, o, sent, l, Slice(bytes, x.next, Len(bytes)), network',
                                 Readable(buffer))
  BY <1>2a, <1>3, <1>4, <1>5, <1>6, <1>7, ReadFollows
<1>9. CASE x.bad
  BY <1>4, <1>7, <1>8, <1>9, ZenonT(40) DEF StreamInv, Typed, Agreed, Scans
<1>10. CASE ~x.bad
  <2>1. PICK l \in c..k :
           /\ Handles(sent, c, l, x)
           /\ Follows(W, o, sent, l, Slice(bytes, x.next, Len(bytes)), network',
                      Readable(buffer))
    BY <1>8, <1>10
  <2>2. PICK p \in Seq(Seq(Nat)), m \in Nat : p = x.packets /\ m = l - c /\ m = Len(p)
    <3>1. x.packets \in Seq(Seq(Nat)) /\ Len(x.packets) = l - c
      BY <1>8, <2>1 DEF Scans, Handles
    <3>2. l - c \in Nat
      BY <1>6
    <3>3. QED
      BY <3>1, <3>2
  <2>3. PICK g : g = [i \in DOMAIN p |-> ParseTlvMap(p[i])]
    BY Zenon
  <2>4. \A i \in 1..m : g[i] = sent[c + i] /\ sent[c + i].ok
    <3>1. DOMAIN p = 1..m
      BY <2>2, LenProperties
    <3>2. \A i \in 1..m : ParseTlvMap(p[i]) = sent[c + i] /\ sent[c + i].ok
      BY <2>1, <2>2, ZenonT(40) DEF Handles
    <3>3. QED
      BY <2>3, <3>1, <3>2
  <2>5. g \in Seq(Outcomes) /\ Len(g) = m
    <3>1. \A i \in 1..m : sent[c + i] \in Outcomes
      <4>1. ASSUME NEW i \in 1..m PROVE sent[c + i] \in Outcomes
        <5>1. c + i \in 1..Len(sent)
          BY <1>6, <2>2
        <5>2. QED
          BY <1>7, <5>1, ElementOfSeq
      <4>2. QED
        BY <4>1, ZenonT(40)
    <3>2. DOMAIN p = 1..m
      BY <2>2, LenProperties
    <3>3. g \in [1..m -> Outcomes]
      BY <2>3, <2>4, <3>1, <3>2, ZenonT(40)
    <3>4. g \in Seq(Outcomes)
      BY <3>3, SeqDef
    <3>5. QED
      BY <3>3, <3>4, LenProperties
  <2>6. PICK h : h = received \o g
    BY ZenonT(40)
  <2>7. received' = h /\ closed' = FALSE
    BY <1>4, <1>8, <1>10, <2>2, <2>3, <2>6 DEF Scans
  <2>8. /\ h \in Seq(Outcomes) /\ Len(h) = l
        /\ \A i \in 1..c : h[i] = received[i]
        /\ \A i \in 1..m : h[c + i] = g[i]
    <3>0. received \in Seq(Outcomes) /\ g \in Seq(Outcomes)
      BY <1>7, <2>5
    <3>1. /\ h \in Seq(Outcomes) /\ Len(h) = Len(received) + Len(g)
          /\ \A i \in 1..Len(received) : h[i] = received[i]
          /\ \A i \in 1..Len(g) : h[Len(received) + i] = g[i]
      BY <2>6, <3>0, Joined
    <3>2. c + m = l
      BY <1>6, <2>2
    <3>3. QED
      BY <1>6, <2>5, <3>1, <3>2
  <2>9. Typed'
    BY <1>4, <1>7, <2>7, <2>8, Zenon DEF Typed
  <2>10. Agreed'
    <3>1. Len(h) <= Len(sent)
      <4>1. l <= k
        BY <1>6
      <4>2. QED
        BY <1>6, <2>8, <4>1
    <3>2. ASSUME NEW i \in 1..l PROVE h[i] = sent[i] /\ sent[i].ok
      <4>1. CASE i \in 1..c
        BY <1>6, <2>8, <4>1 DEF StreamInv, Agreed
      <4>2. CASE ~(i \in 1..c)
        <5>1. PICK j \in 1..m : i = c + j
          <6>1. i - c \in 1..m /\ i = c + (i - c)
            BY <2>2, <4>2
          <6>2. QED
            BY <6>1
        <5>2. QED
          BY <2>4, <2>8, <5>1, Zenon
      <4>3. QED
        BY <4>1, <4>2
    <3>3. QED
      BY <1>4, <2>7, <2>8, <3>1, <3>2, Zenon DEF Agreed
  <2>11. OnTrack(W, o)'
    <3>1. decoder'.bytes = Slice(bytes, x.next, Len(bytes)) /\ Len(received') = l
      BY <1>4, <2>7, <2>8
    <3>2. QED
      BY <1>4, <2>1, <3>1 DEF OnTrack
  <2>12. QED
    BY <2>9, <2>10, <2>11 DEF StreamInv
<1>11. QED
  BY <1>9, <1>10

-----------------------------------------------------------------------------
\* Every step of the connection.
LEMMA NextKeepsStream == StreamInv /\ [WireNext]_wireVars => StreamInv'
<1> SUFFICES ASSUME StreamInv, [WireNext]_wireVars PROVE StreamInv'
  OBVIOUS
<1>1. ASSUME NEW fields \in Bodies, SendFields(fields)
      PROVE  StreamInv'
  <2>1. PICK item \in Outcomes : item = [ok |-> TRUE, fields |-> ByType(fields)] /\ item.ok
    <3>1. [ok |-> TRUE, fields |-> ByType(fields)] \in Outcomes
      BY Zenon DEF Outcomes
    <3>2. [ok |-> TRUE, fields |-> ByType(fields)].ok
      OBVIOUS
    <3>3. QED
      BY <3>1, <3>2
  <2>2. PICK body \in Seq(Nat) : body = EncodeFields(fields) /\ ParseTlvMap(body) = item
    BY <1>1, <2>1, RoundTrip DEF SendFields
  <2>3. PICK w : w = EncodePacket(body)
    OBVIOUS
  <2>4. Len(body) <= MaxBody
    BY <1>1, <2>2 DEF SendFields, Encodable
  <2>5. ASSUME NEW W \in Seq(Nat) PROVE Frame(W \o w, Len(W), Len(W \o w), item)
    BY <2>1, <2>2, <2>3, <2>4, PacketFrame, Zenon
  <2>6. w \in Seq(Nat)
    <3>1. <<>> \in Seq(Nat)
      OBVIOUS
    <3>2. QED
      BY <2>1, <2>2, <2>3, <2>4, <3>1, PacketFrame
  <2>7. /\ buffer' = BufferAppend(buffer, w) /\ sent' = Append(sent, item)
        /\ UNCHANGED <<network, decoder, closed, received>>
    BY <1>1, <2>1, <2>2, <2>3 DEF SendFields
  <2>8. QED
    BY <2>5, <2>6, <2>7, SendKeepsStream, Zenon
<1>2. CASE SendBadHeader
  <2>1. PICK header \in {<<Magic + 1, 0>>, <<Magic, MaxBody + 1>>} :
           buffer' = BufferAppend(buffer, header)
    BY <1>2 DEF SendBadHeader
  <2>2. PICK item \in Outcomes : item = [ok |-> FALSE, fields |-> NoFields] /\ ~item.ok
    <3>1. [ok |-> FALSE, fields |-> NoFields] \in Outcomes
      BY DEF Outcomes
    <3>2. ~[ok |-> FALSE, fields |-> NoFields].ok
      OBVIOUS
    <3>3. QED
      BY <3>1, <3>2
  <2>3. ASSUME NEW W \in Seq(Nat) PROVE Frame(W \o header, Len(W), Len(W \o header), item)
    BY <2>2, BadHeaderFrame, Zenon
  <2>4. header \in Seq(Nat)
    <3>1. <<>> \in Seq(Nat)
      OBVIOUS
    <3>2. QED
      BY <2>2, <3>1, BadHeaderFrame, Zenon
  <2>5. sent' = Append(sent, item) /\ UNCHANGED <<network, decoder, closed, received>>
    BY <1>2, <2>2 DEF SendBadHeader
  <2>6. QED
    BY <2>1, <2>3, <2>4, <2>5, SendKeepsStream
<1>3. CASE UNCHANGED wireVars
  BY <1>3 DEF wireVars, StreamInv, Typed, Agreed, OnTrack
<1>4. QED
  BY <1>1, <1>2, <1>3, WriteKeepsStream, ReadKeepsStream DEF WireNext

\* Nothing under way, nothing left.
LEMMA StreamInvSuffices == StreamInv => ReceivedIsSent
<1> SUFFICES ASSUME StreamInv PROVE ReceivedIsSent
  OBVIOUS
<1>1. sent \in Seq(Outcomes) /\ received \in Seq(Outcomes) /\ BufferOK(buffer)
  BY DEF StreamInv, Typed
<1>2. PICK c \in Nat, k \in Nat : c = Len(received) /\ k = Len(sent) /\ c <= k
  BY <1>1 DEF StreamInv, Agreed
<1>3. \A i \in 1..c : received[i] = sent[i] /\ sent[i].ok
  BY <1>2 DEF StreamInv, Agreed
<1>4. Len(received) <= Len(sent) /\ received = SubSeq(sent, 1, Len(received))
  <2>1. c <= Len(received) /\ c <= Len(sent) /\ 0 \in Nat /\ 0 <= c
    BY <1>2
  <2>2. \A i \in 1..c : received[i] = sent[i]
    BY <1>3
  <2>3. Slice(received, 0, c) = Slice(sent, 0, c)
    BY <1>1, <2>1, <2>2, SameSlice
  <2>4. Slice(received, 0, c) = received
    BY <1>1, <1>2, WholeSlice
  <2>5. QED
    BY <1>2, <2>3, <2>4, FromStart
<1>5. \A i \in DOMAIN received : received[i].ok
  <2>1. DOMAIN received = 1..c
    BY <1>1, <1>2, LenProperties
  <2>2. QED
    BY <1>3, <2>1
<1>6. ASSUME ~closed, network = <<>>, Readable(buffer) = <<>>
      PROVE  received = sent
  <2>1. PICK W, o : Follows(W, o, sent, c, decoder.bytes, network, Readable(buffer))
    BY <1>2, <1>6 DEF StreamInv, OnTrack
  <2>2. PICK d \in Seq(Nat), e \in Seq(Nat) : d = decoder.bytes /\ e = <<>>
    BY <2>1, EmptySeq, Zenon DEF Follows
  <2>3. Follows(W, o, sent, c, d, e, e)
    BY <1>6, <2>1, <2>2
  <2>4. Slice(W, o[c], Len(W)) = d
    <3>1. d \o e = d
      BY <2>2, ConcatEmptySeq
    <3>2. QED
      BY <2>3, <3>1 DEF Follows
  <2>5. W \in Seq(Nat) /\ Marked(W, sent, o)
    BY <2>3 DEF Follows
  <2>6. PICK a \in Nat, w \in Nat : a = o[c] /\ w = Len(W) /\ a <= w
    <3>1. Len(sent) \in Nat /\ c \in 0..Len(sent)
      BY <1>2
    <3>2. o[c] \in Nat /\ o[c] <= Len(W)
      BY <2>5, <3>1, MarkBounds
    <3>3. QED
      BY <2>5, <3>2
  <2>7. Len(d) = w - a
    <3>1. a <= w /\ w <= Len(W)
      BY <2>6
    <3>2. Len(Slice(W, a, w)) = w - a
      BY <2>5, <3>1, SliceProperties
    <3>3. QED
      BY <2>4, <2>6, <3>2
  <2>8. c = k
    <3>1. SUFFICES ASSUME c # k PROVE FALSE
      OBVIOUS
    <3>2. PICK b \in Nat : b = o[c + 1] /\ b <= w
      <4>1. Len(sent) \in Nat /\ c + 1 \in 0..Len(sent)
        BY <1>2, <3>1
      <4>2. QED
        BY <2>5, <2>6, <4>1, MarkBounds, ZenonT(40)
    <3>3. a + Len(d) < b
      BY <1>2, <2>3, <2>6, <3>1, <3>2 DEF Follows
    <3>4. QED
      BY <2>6, <2>7, <3>2, <3>3
  <2>9. QED
    <3>1. \A i \in 1..Len(received) : received[i] = sent[i]
      BY <1>2, <1>3
    <3>2. Len(received) = Len(sent)
      BY <1>2, <2>8
    <3>3. QED
      BY <1>1, <3>1, <3>2, SeqEqual
<1>7. QED
  BY <1>4, <1>5, <1>6 DEF ReceivedIsSent

\* However partial writes and short reads cut the byte stream of a connection,
\* the handlers of the receiving end get what was sent before any bad header,
\* each packet whole, once, in order and with its fields parsed, and all that was
\* sent once nothing is under way.
THEOREM StreamIsTransparent == WireSpec => []ReceivedIsSent
BY InitStream, NextKeepsStream, StreamInvSuffices, PTL DEF WireSpec

=============================================================================
