-------------------------- MODULE DataPipes_proofs --------------------------
(***************************************************************************)
(* Proofs about DataPipes, for any peers, sessions, streams, chunks and    *)
(* task queues.                                                            *)
(*                                                                         *)
(* First the parser by itself: how a stream lies on the wire, what a       *)
(* parser is whatever data it gets, where it stands in the stream when it  *)
(* only gets data of that stream, and which messages it has handed over by *)
(* then.  Then the pipes: which session removes whose pipe, and when a     *)
(* null pointer is met; the parser does not matter to either.  Last, both  *)
(* together: the parser of a session, its thread and its tasks hold the    *)
(* stream piece by piece, so that the messages come out as they were sent. *)
(***************************************************************************)
EXTENDS DataPipes, WellFoundedInduction, SequenceTheorems, TLAPS

-----------------------------------------------------------------------------
(* Sequences of sequences.  FlattenSeq is defined by a recursive function; *)
(* what it returns is found by looking at the least number for which it    *)
(* would be wrong.                                                         *)

LEMMA LeastNumber ==
    ASSUME NEW T \in SUBSET Nat, T # {}
    PROVE  \E n \in T : \A m \in T : n <= m
<1>. DEFINE R == OpToRel(<, Nat)
<1>1. IsWellFoundedOn(R, Nat)
  BY NatLessThanWellFounded
<1>2. \A m, n \in Nat : m < n => <<m, n>> \in R
  BY DEF OpToRel
<1>. HIDE DEF R
<1>3. PICK x \in T : \A y \in T : ~ (<<y, x>> \in R)
  BY <1>1, WFMin
<1>4. \A y \in T : x <= y
  <2>. TAKE y \in T
  <2>1. x \in Nat /\ y \in Nat /\ ~ (y < x)
    BY <1>2, <1>3
  <2>. QED
    BY <2>1
<1>. QED
  BY <1>4

\* The function of FlattenSeq, for the first n sequences
Flat(f, ss, n) == f = [k \in 1..n |-> IF k = 1 THEN ss[k] ELSE f[k - 1] \o ss[k]]

Agree(f, g, n) == \A k \in 1..n : f[k] = g[k]

\* There is such a function,
LEMMA FlatExists ==
    ASSUME NEW ss, NEW n \in Nat
    PROVE  \E f : Flat(f, ss, n)
<1>. DEFINE T == {m \in Nat : ~ \E f : Flat(f, ss, m)}
<1>1. SUFFICES ASSUME T # {} PROVE FALSE
  OBVIOUS
<1>2. PICK m \in T : \A j \in T : m <= j
  BY <1>1, LeastNumber
<1>3. CASE m = 0
  <2>. DEFINE f == [k \in 1..0 |-> 0]
  <2>1. Flat(f, ss, 0)
    BY DEF Flat
  <2>. QED
    BY <1>2, <1>3, <2>1
<1>4. CASE m # 0
  <2>1. m \in Nat /\ m - 1 \in Nat /\ m - 1 \notin T
    BY <1>2, <1>4
  <2>2. PICK f : Flat(f, ss, m - 1)
    BY <2>1
  <2>. DEFINE g == [k \in 1..m |-> IF k < m THEN f[k] ELSE IF k = 1 THEN ss[k] ELSE f[k - 1] \o ss[k]]
  <2>3. \A k \in 1..m : g[k] = IF k = 1 THEN ss[k] ELSE g[k - 1] \o ss[k]
    <3>. TAKE k \in 1..m
    <3>1. CASE k < m
      <4>1. k \in 1..(m - 1) /\ g[k] = f[k]
        BY <2>1, <3>1
      <4>2. f[k] = IF k = 1 THEN ss[k] ELSE f[k - 1] \o ss[k]
        BY <4>1, <2>2 DEF Flat
      <4>3. k # 1 => g[k - 1] = f[k - 1]
        BY <2>1, <3>1
      <4>. QED
        BY <4>1, <4>2, <4>3
    <3>2. CASE k = m
      <4>1. k # 1 => g[k - 1] = f[k - 1]
        BY <2>1, <3>2
      <4>. QED
        BY <2>1, <3>2, <4>1
    <3>. QED
      BY <2>1, <3>1, <3>2
  <2>4. Flat(g, ss, m)
    BY <2>3 DEF Flat
  <2>. QED
    BY <1>2, <2>4
<1>. QED
  BY <1>3, <1>4

\* and only one: two of them agree as far as their sequences do.
LEMMA FlatAgree ==
    ASSUME NEW ss, NEW tt, NEW m \in Nat, NEW n \in Nat, m <= n,
           Agree(ss, tt, m), NEW f, NEW g, Flat(f, ss, m), Flat(g, tt, n)
    PROVE  Agree(f, g, m)
<1>. DEFINE T == {k \in 1..m : f[k] # g[k]}
<1>1. SUFFICES ASSUME T # {} PROVE FALSE
  BY DEF Agree
<1>2. T \in SUBSET Nat
  OBVIOUS
<1>3. PICK k \in T : \A j \in T : k <= j
  BY <1>1, <1>2, LeastNumber
<1>4. k \in 1..m /\ k \in 1..n /\ f[k] # g[k]
  BY <1>3
<1>5. /\ f[k] = IF k = 1 THEN ss[k] ELSE f[k - 1] \o ss[k]
      /\ g[k] = IF k = 1 THEN tt[k] ELSE g[k - 1] \o tt[k]
  BY <1>4 DEF Flat
<1>6. k # 1
  BY <1>4, <1>5 DEF Agree
<1>7. k - 1 \in 1..m /\ k - 1 \notin T
  BY <1>3, <1>4, <1>6
<1>8. f[k - 1] = g[k - 1] /\ ss[k] = tt[k]
  BY <1>4, <1>7 DEF Agree
<1>. QED
  BY <1>4, <1>5, <1>6, <1>8

\* Its values are sequences of what the sequences consist of.
LEMMA FlatType ==
    ASSUME NEW S, NEW n \in Nat, NEW ss, \A k \in 1..n : ss[k] \in Seq(S),
           NEW f, Flat(f, ss, n)
    PROVE  \A k \in 1..n : f[k] \in Seq(S)
<1>. DEFINE T == {k \in 1..n : f[k] \notin Seq(S)}
<1>1. SUFFICES ASSUME T # {} PROVE FALSE
  OBVIOUS
<1>2. T \in SUBSET Nat
  OBVIOUS
<1>3. PICK k \in T : \A j \in T : k <= j
  BY <1>1, <1>2, LeastNumber
<1>4. k \in 1..n /\ f[k] \notin Seq(S) /\ ss[k] \in Seq(S)
  BY <1>3
<1>5. f[k] = IF k = 1 THEN ss[k] ELSE f[k - 1] \o ss[k]
  BY <1>4 DEF Flat
<1>6. k # 1
  BY <1>4, <1>5
<1>7. k - 1 \in 1..n /\ k - 1 \notin T
  BY <1>3, <1>4, <1>6
<1>8. f[k - 1] \in Seq(S)
  BY <1>7
<1>. QED
  BY <1>4, <1>5, <1>6, <1>8, ConcatProperties

LEMMA FlattenIs ==
    ASSUME NEW ss, Len(ss) \in Nat \ {0}
    PROVE  \E f : Flat(f, ss, Len(ss)) /\ FlattenSeq(ss) = f[Len(ss)]
<1>. DEFINE f == CHOOSE f : Flat(f, ss, Len(ss))
<1>1. FlattenSeq(ss) = f[Len(ss)]
  BY DEF FlattenSeq, Flat
<1>2. Flat(f, ss, Len(ss))
  BY FlatExists
<1>. QED
  BY <1>1, <1>2

LEMMA FlattenType ==
    ASSUME NEW S, NEW ss \in Seq(Seq(S))
    PROVE  FlattenSeq(ss) \in Seq(S) /\ (Len(ss) = 0 => FlattenSeq(ss) = << >>)
<1>1. Len(ss) \in Nat /\ DOMAIN ss = 1..Len(ss) /\ \A k \in 1..Len(ss) : ss[k] \in Seq(S)
  BY LenProperties
<1>2. CASE Len(ss) = 0
  <2>1. ss = << >>
    BY <1>2, EmptySeq
  <2>. QED
    BY <1>2, <2>1, EmptySeq DEF FlattenSeq
<1>3. CASE Len(ss) # 0
  <2>1. PICK f : Flat(f, ss, Len(ss)) /\ FlattenSeq(ss) = f[Len(ss)]
    BY <1>1, <1>3, FlattenIs
  <2>2. f[Len(ss)] \in Seq(S)
    <3>1. Len(ss) \in Nat /\ Flat(f, ss, Len(ss))
      BY <1>1, <2>1
    <3>2. \A k \in 1..Len(ss) : ss[k] \in Seq(S)
      BY <1>1
    <3>3. \A k \in 1..Len(ss) : f[k] \in Seq(S)
      BY <3>1, <3>2, FlatType
    <3>. QED
      BY <1>1, <1>3, <3>3
  <2>. QED
    BY <1>3, <2>1, <2>2
<1>. QED
  BY <1>2, <1>3

LEMMA FlattenAppend ==
    ASSUME NEW S, NEW ss \in Seq(Seq(S)), NEW t \in Seq(S)
    PROVE  FlattenSeq(Append(ss, t)) = FlattenSeq(ss) \o t
<1>. DEFINE tt == Append(ss, t)
            n == Len(ss)
<1>1. /\ tt \in Seq(Seq(S)) /\ Len(tt) = n + 1 /\ n \in Nat
      /\ \A k \in 1..n : tt[k] = ss[k]
      /\ tt[n + 1] = t
  BY AppendProperties, LenProperties
<1>. HIDE DEF tt
<1>2. PICK g : Flat(g, tt, n + 1) /\ FlattenSeq(tt) = g[n + 1]
  BY <1>1, FlattenIs
<1>3. g[n + 1] = IF n + 1 = 1 THEN t ELSE g[n] \o t
  <2>1. n + 1 \in 1..(n + 1) /\ (n + 1) - 1 = n
    BY <1>1
  <2>. QED
    BY <1>1, <1>2, <2>1 DEF Flat
<1>4. CASE n = 0
  <2>1. FlattenSeq(ss) = << >>
    BY <1>4, FlattenType
  <2>2. << >> \o t = t
    BY ConcatEmptySeq
  <2>. QED
    BY <1>1, <1>2, <1>3, <1>4, <2>1, <2>2 DEF tt
<1>5. CASE n # 0
  <2>1. PICK f : Flat(f, ss, n) /\ FlattenSeq(ss) = f[n]
    BY <1>1, <1>5, FlattenIs
  <2>2. \A k \in 1..n : f[k] = g[k]
    <3>1. n \in Nat /\ n + 1 \in Nat /\ n <= n + 1 /\ Agree(ss, tt, n)
      BY <1>1 DEF Agree
    <3>2. Flat(f, ss, n) /\ Flat(g, tt, n + 1)
      BY <1>2, <2>1
    <3>. HIDE DEF n
    <3>3. Agree(f, g, n)
      BY <3>1, <3>2, FlatAgree
    <3>. QED
      BY <3>3 DEF Agree
  <2>3. f[n] = g[n]
    BY <1>1, <1>5, <2>2
  <2>. QED
    BY <1>1, <1>2, <1>3, <1>5, <2>1, <2>3 DEF tt
<1>. QED
  BY <1>4, <1>5

-----------------------------------------------------------------------------
(* Joining and cutting sequences.                                          *)

LEMMA Glue ==
    ASSUME NEW S, NEW a \in Seq(S), NEW b \in Seq(S)
    PROVE  /\ a \o b \in Seq(S) /\ Len(a \o b) = Len(a) + Len(b)
           /\ Len(a) \in Nat /\ Len(b) \in Nat
           /\ \A k \in 1..Len(a) : (a \o b)[k] = a[k]
           /\ \A k \in 1..Len(b) : (a \o b)[Len(a) + k] = b[k]
<1>1. /\ a \o b \in Seq(S) /\ Len(a \o b) = Len(a) + Len(b)
      /\ \A i \in 1..(Len(a) + Len(b)) : (a \o b)[i] = IF i <= Len(a) THEN a[i] ELSE b[i - Len(a)]
  BY ConcatProperties
<1>2. Len(a) \in Nat /\ Len(b) \in Nat
  BY LenProperties
<1>3. ASSUME NEW k \in 1..Len(a) PROVE (a \o b)[k] = a[k]
  <2>1. k \in 1..(Len(a) + Len(b)) /\ k <= Len(a)
    BY <1>2
  <2>. QED
    BY <1>1, <2>1
<1>4. ASSUME NEW k \in 1..Len(b) PROVE (a \o b)[Len(a) + k] = b[k]
  <2>1. Len(a) + k \in 1..(Len(a) + Len(b)) /\ ~(Len(a) + k <= Len(a)) /\ (Len(a) + k) - Len(a) = k
    BY <1>2
  <2>. QED
    BY <1>1, <2>1
<1>. QED
  BY <1>1, <1>2, <1>3, <1>4

\* What comes after the first a elements, up to the b-th
Cut(w, a, b) == SubSeq(w, a + 1, b)

LEMMA CutIs ==
    ASSUME NEW S, NEW w \in Seq(S), NEW a \in Nat, NEW b \in Nat, a <= b, b <= Len(w)
    PROVE  /\ Cut(w, a, b) \in Seq(S) /\ Len(Cut(w, a, b)) = b - a
           /\ \A k \in 1..(b - a) : Cut(w, a, b)[k] = w[a + k]
<1>1. Len(w) \in Nat /\ \A k \in 1..Len(w) : w[k] \in S
  BY LenProperties
<1>2. a + 1 \in Int /\ b \in Int /\ \A k \in (a + 1)..b : w[k] \in S
  BY <1>1
<1>3. /\ SubSeq(w, a + 1, b) \in Seq(S)
      /\ Len(SubSeq(w, a + 1, b)) = IF a + 1 <= b THEN b - (a + 1) + 1 ELSE 0
      /\ \A k \in 1..(b - (a + 1) + 1) : SubSeq(w, a + 1, b)[k] = w[a + 1 + k - 1]
  BY <1>2, SubSeqProperties
<1>4. b - (a + 1) + 1 = b - a /\ (~(a + 1 <= b) => b - a = 0)
  BY <1>1
<1>5. \A k \in 1..(b - a) : a + 1 + k - 1 = a + k
  BY <1>1
<1>. QED
  BY <1>3, <1>4, <1>5 DEF Cut

\* Sequences of the same elements are the same.
LEMMA SameSeq ==
    ASSUME NEW S, NEW v \in Seq(S), NEW w \in Seq(S), Len(v) = Len(w),
           \A k \in 1..Len(v) : v[k] = w[k]
    PROVE  v = w
BY SeqEqual

LEMMA CutWhole ==
    ASSUME NEW S, NEW w \in Seq(S)
    PROVE  Cut(w, 0, Len(w)) = w /\ Len(w) \in Nat
<1>1. Len(w) \in Nat /\ 0 \in Nat /\ 0 <= Len(w) /\ Len(w) <= Len(w)
  BY LenProperties
<1>2. /\ Cut(w, 0, Len(w)) \in Seq(S) /\ Len(Cut(w, 0, Len(w))) = Len(w) - 0
      /\ \A k \in 1..(Len(w) - 0) : Cut(w, 0, Len(w))[k] = w[0 + k]
  BY <1>1, CutIs
<1>. QED
  BY <1>1, <1>2, SameSeq

LEMMA CutEmpty ==
    ASSUME NEW S, NEW w \in Seq(S), NEW a \in Nat, NEW b \in Nat, a <= b, b <= Len(w)
    PROVE  Cut(w, a, b) = << >> <=> a = b
<1>1. Cut(w, a, b) \in Seq(S) /\ Len(Cut(w, a, b)) = b - a
  BY CutIs
<1>2. Cut(w, a, b) = << >> <=> Len(Cut(w, a, b)) = 0
  BY <1>1, EmptySeq
<1>. QED
  BY <1>1, <1>2

\* Two cuts one after the other,
LEMMA CutJoin ==
    ASSUME NEW S, NEW w \in Seq(S), NEW a \in Nat, NEW b \in Nat, NEW c \in Nat,
           a <= b, b <= c, c <= Len(w)
    PROVE  Cut(w, a, b) \o Cut(w, b, c) = Cut(w, a, c)
<1>. DEFINE x == Cut(w, a, b)
            y == Cut(w, b, c)
            z == Cut(w, a, c)
<1>0. Len(w) \in Nat /\ b <= Len(w) /\ a <= c
  BY LenProperties
<1>1. x \in Seq(S) /\ Len(x) = b - a /\ \A k \in 1..(b - a) : x[k] = w[a + k]
  BY <1>0, CutIs
<1>2. y \in Seq(S) /\ Len(y) = c - b /\ \A k \in 1..(c - b) : y[k] = w[b + k]
  BY <1>0, CutIs
<1>3. z \in Seq(S) /\ Len(z) = c - a /\ \A k \in 1..(c - a) : z[k] = w[a + k]
  BY <1>0, CutIs
<1>. HIDE DEF x, y, z
<1>4. /\ x \o y \in Seq(S) /\ Len(x \o y) = Len(x) + Len(y)
      /\ (\A k \in 1..Len(x) : (x \o y)[k] = x[k])
      /\ \A k \in 1..Len(y) : (x \o y)[Len(x) + k] = y[k]
  <2>1. x \in Seq(S) /\ y \in Seq(S)
    BY <1>1, <1>2
  <2>. QED
    BY <2>1, Glue
<1>5. Len(x \o y) = c - a
  BY <1>1, <1>2, <1>4
<1>6. ASSUME NEW k \in 1..(c - a) PROVE (x \o y)[k] = z[k]
  <2>1. CASE k <= b - a
    <3>1. k \in 1..(b - a)
      BY <2>1
    <3>2. (x \o y)[k] = x[k]
      BY <1>1, <1>4, <3>1
    <3>. QED
      BY <1>1, <1>3, <3>1, <3>2
  <2>2. CASE ~(k <= b - a)
    <3>1. k - (b - a) \in 1..(c - b) /\ (b - a) + (k - (b - a)) = k /\ b + (k - (b - a)) = a + k
      BY <2>2
    <3>2. (x \o y)[Len(x) + (k - (b - a))] = y[k - (b - a)]
      BY <1>2, <1>4, <3>1
    <3>3. y[k - (b - a)] = w[b + (k - (b - a))]
      BY <1>2, <3>1
    <3>. QED
      BY <1>1, <1>3, <3>1, <3>2, <3>3
  <2>. QED
    BY <2>1, <2>2
<1>7. x \o y = z
  <2>1. Len(x \o y) = Len(z) /\ \A k \in 1..Len(x \o y) : (x \o y)[k] = z[k]
    BY <1>3, <1>5, <1>6
  <2>. QED
    BY <1>3, <1>4, <2>1, SameSeq
<1>. QED
  BY <1>7 DEF x, y, z

\* and a cut of a cut.
LEMMA CutCut ==
    ASSUME NEW S, NEW w \in Seq(S), NEW a \in Nat, NEW c \in Nat, a <= c, c <= Len(w),
           NEW i \in Nat, NEW j \in Nat, i <= j, j <= c - a
    PROVE  Cut(Cut(w, a, c), i, j) = Cut(w, a + i, a + j)
<1>. DEFINE x == Cut(w, a, c)
            y == Cut(x, i, j)
            z == Cut(w, a + i, a + j)
<1>0. Len(w) \in Nat /\ a + i \in Nat /\ a + j \in Nat /\ a + i <= a + j /\ a + j <= Len(w)
      /\ (a + j) - (a + i) = j - i
  BY LenProperties
<1>1. x \in Seq(S) /\ Len(x) = c - a /\ \A k \in 1..(c - a) : x[k] = w[a + k]
  BY CutIs
<1>2. z \in Seq(S) /\ Len(z) = (a + j) - (a + i) /\ \A k \in 1..((a + j) - (a + i)) : z[k] = w[a + i + k]
  <2>. DEFINE f == a + i
              g == a + j
  <2>1. f \in Nat /\ g \in Nat /\ f <= g /\ g <= Len(w)
    BY <1>0
  <2>. HIDE DEF f, g
  <2>2. /\ Cut(w, f, g) \in Seq(S) /\ Len(Cut(w, f, g)) = g - f
        /\ \A k \in 1..(g - f) : Cut(w, f, g)[k] = w[f + k]
    BY <2>1, CutIs
  <2>. QED
    BY <2>2 DEF f, g
<1>. HIDE DEF x, z
<1>3. y \in Seq(S) /\ Len(y) = j - i /\ \A k \in 1..(j - i) : y[k] = x[i + k]
  <2>1. x \in Seq(S) /\ j <= Len(x)
    BY <1>1
  <2>. QED
    BY <2>1, CutIs
<1>. HIDE DEF y
<1>4. ASSUME NEW k \in 1..(j - i) PROVE y[k] = z[k]
  <2>1. i + k \in 1..(c - a) /\ a + (i + k) = a + i + k
    OBVIOUS
  <2>2. y[k] = x[i + k]
    BY <1>3
  <2>3. x[i + k] = w[a + (i + k)]
    BY <1>1, <2>1
  <2>4. z[k] = w[a + i + k]
    BY <1>0, <1>2
  <2>. QED
    BY <2>1, <2>2, <2>3, <2>4
<1>. QED
  BY <1>0, <1>2, <1>3, <1>4, SameSeq DEF x, y, z

-----------------------------------------------------------------------------
(* A stream on the wire.                                                   *)

Fields == {"magic", "version", "other", "head", "body", "junk"}
Units == {u \in [f : Fields, v : Seq(Nat)] : u.f = "version" => Len(u.v) = 2}

Size(m) == IF m.kind = "junk" THEN m.bs ELSE InfoSize + m.hs + m.bs

\* Where the messages of a stream are on the wire: E[k] is the end of the k-th
Laid(s, str, W, E) ==
    /\ W \in Seq(Units) /\ E \in [0..Len(str) -> Nat]
    /\ E[0] = 0 /\ E[Len(str)] = Len(W)
    /\ \A k \in 1..Len(str) : E[k] = E[k - 1] + Size(str[k])
    /\ \A k \in 1..Len(str) : \A u \in 1..Size(str[k]) :
          W[E[k - 1] + u] = pack(<<s, k>>, str[k])[u]

LEMMA CutUnits ==
    ASSUME NEW w \in Seq(Units), NEW a \in Nat, NEW b \in Nat, a <= b, b <= Len(w)
    PROVE  Cut(w, a, b) \in Seq(Units) /\ Len(Cut(w, a, b)) = b - a
BY CutIs

LEMMA JoinUnits ==
    ASSUME NEW w \in Seq(Units), NEW a \in Nat, NEW b \in Nat, NEW c \in Nat,
           a <= b, b <= c, c <= Len(w)
    PROVE  Cut(w, a, b) \o Cut(w, b, c) = Cut(w, a, c)
BY CutJoin

\* What lies behind b joins what lies between a and b
Joins(w, a, b) ==
    \A c \in Nat : b <= c /\ c <= Len(w) => Cut(w, a, b) \o Cut(w, b, c) = Cut(w, a, c)

LEMMA JoinFrom ==
    ASSUME NEW w \in Seq(Units), NEW a \in Nat, NEW b \in Nat, a <= b
    PROVE  Joins(w, a, b)
BY JoinUnits DEF Joins

LEMMA BytesAre ==
    ASSUME NEW f \in Fields, f # "version", NEW tag \in Seq(Nat), NEW n \in Nat
    PROVE  /\ Bytes(f, tag, n) \in Seq(Units) /\ Len(Bytes(f, tag, n)) = n
           /\ \A k \in 1..n : Bytes(f, tag, n)[k].f = f
<1>1. ASSUME NEW k \in 1..n PROVE Unit(f, tag \o <<k>>) \in Units /\ Unit(f, tag \o <<k>>).f = f
  <2>1. <<k>> \in Seq(Nat)
    OBVIOUS
  <2>2. tag \o <<k>> \in Seq(Nat)
    BY <2>1, ConcatProperties
  <2>. QED
    BY <2>2 DEF Unit, Units
<1>2. Bytes(f, tag, n) = [k \in 1..n |-> Unit(f, tag \o <<k>>)]
  BY DEF Bytes
<1>3. Bytes(f, tag, n) \in [1..n -> Units]
  BY <1>1, <1>2
<1>4. Bytes(f, tag, n) \in Seq(Units)
  BY <1>3, SeqDef
<1>5. Len(Bytes(f, tag, n)) = n
  BY <1>3, <1>4, LenProperties
<1>. QED
  BY <1>1, <1>2, <1>4, <1>5

LEMMA UnitIs ==
    ASSUME NEW f \in Fields, NEW v \in Seq(Nat), f = "version" => Len(v) = 2
    PROVE  Unit(f, v) \in Units /\ Unit(f, v).f = f /\ Unit(f, v).v = v
BY DEF Unit, Units

AreBytes(x, f, n) == x \in Seq(Units) /\ Len(x) = n /\ \A k \in 1..n : x[k].f = f

LEMMA BytesOf ==
    ASSUME NEW tag \in Seq(Nat), NEW n \in Nat
    PROVE  /\ AreBytes(Bytes("junk", tag, n), "junk", n)
           /\ AreBytes(Bytes("head", tag, n), "head", n)
           /\ AreBytes(Bytes("body", tag, n), "body", n)
<1>1. ASSUME NEW f \in Fields, f # "version" PROVE AreBytes(Bytes(f, tag, n), f, n)
  BY <1>1, BytesAre DEF AreBytes
<1>. QED
  BY <1>1 DEF Fields

\* The frame of a message, unit by unit
Framed(w, s, i, m) ==
    /\ w \in Seq(Units) /\ Len(w) = Size(m) /\ Size(m) \in Nat
    /\ m.kind = "junk" => \A u \in 1..Size(m) : w[u].f = "junk"
    /\ m.kind # "junk" =>
          /\ w[1].f = "magic"
          /\ w[2].f = (IF m.kind = "old" THEN "other" ELSE "version")
          /\ w[2].v[1] = m.hs /\ w[2].v[2] = m.bs
          /\ \A u \in 2..Size(m) : w[u].f # "magic"
          /\ \A u \in 1..m.hs : w[InfoSize + u] = Bytes("head", <<s, i>>, m.hs)[u]
          /\ \A u \in 1..m.bs : w[InfoSize + m.hs + u] = Bytes("body", <<s, i>>, m.bs)[u]

LEMMA Packed ==
    ASSUME NEW s \in Nat, NEW i \in Nat, NEW m \in Message
    PROVE  Framed(pack(<<s, i>>, m), s, i, m)
<1>. DEFINE w == pack(<<s, i>>, m)
<1>1. <<s, i>> \in Seq(Nat) /\ <<>> \in Seq(Nat) /\ m.hs \in Nat /\ m.bs \in Nat
  BY EmptySeq DEF Message
<1>2. CASE m.kind = "junk"
  <2>1. w = Bytes("junk", <<>>, m.bs)
    BY <1>2 DEF pack
  <2>. HIDE DEF w
  <2>2. /\ w \in Seq(Units) /\ Len(w) = m.bs /\ \A u \in 1..m.bs : w[u].f = "junk"
    <3>. DEFINE tag == <<>>
    <3>1. tag \in Seq(Nat) /\ w = Bytes("junk", tag, m.bs) /\ m.bs \in Nat
      BY <1>1, <2>1
    <3>. HIDE DEF tag
    <3>2. AreBytes(w, "junk", m.bs)
      BY <3>1, BytesOf
    <3>. QED
      BY <3>2 DEF AreBytes
  <2>. QED
    BY <1>1, <1>2, <2>2 DEF Size, w, Framed
<1>3. CASE m.kind # "junk"
  <2>. DEFINE ver == IF m.kind = "old" THEN "other" ELSE "version"
              info == <<Unit("magic", <<>>), Unit(ver, <<m.hs, m.bs>>)>>
              hd == Bytes("head", <<s, i>>, m.hs)
              bd == Bytes("body", <<s, i>>, m.bs)
  <2>1. w = (info \o hd) \o bd
    BY <1>3 DEF pack
  <2>2. <<m.hs, m.bs>> \in Seq(Nat) /\ Len(<<m.hs, m.bs>>) = 2
    BY <1>1
  <2>3. ver \in Fields /\ "magic" \in Fields /\ "magic" # "version"
    BY DEF Fields
  <2>. DEFINE a == Unit("magic", <<>>)
              b == Unit(ver, <<m.hs, m.bs>>)
  <2>4. /\ info \in Seq(Units) /\ Len(info) = 2
        /\ info[1].f = "magic" /\ info[2].f = ver /\ info[2].v = <<m.hs, m.bs>>
    <3>1. a \in Units /\ a.f = "magic"
      BY <1>1, <2>3, UnitIs
    <3>2. b \in Units /\ b.f = ver /\ b.v = <<m.hs, m.bs>>
      <4>. DEFINE v == <<m.hs, m.bs>>
      <4>1. v \in Seq(Nat) /\ Len(v) = 2
        BY <2>2
      <4>. HIDE DEF ver, v
      <4>2. Unit(ver, v) \in Units /\ Unit(ver, v).f = ver /\ Unit(ver, v).v = v
        BY <2>3, <4>1, UnitIs
      <4>. QED
        BY <4>2 DEF v
    <3>3. info = <<a, b>>
      OBVIOUS
    <3>. HIDE DEF a, b, ver, info
    <3>. QED
      BY <3>1, <3>2, <3>3
  <2>5. /\ hd \in Seq(Units) /\ Len(hd) = m.hs /\ (\A k \in 1..m.hs : hd[k].f = "head")
        /\ bd \in Seq(Units) /\ Len(bd) = m.bs /\ (\A k \in 1..m.bs : bd[k].f = "body")
    <3>. DEFINE tag == <<s, i>>
    <3>1. /\ tag \in Seq(Nat) /\ hd = Bytes("head", tag, m.hs) /\ bd = Bytes("body", tag, m.bs)
          /\ m.hs \in Nat /\ m.bs \in Nat
      BY <1>1
    <3>. HIDE DEF tag, hd, bd
    <3>2. AreBytes(hd, "head", m.hs) /\ AreBytes(bd, "body", m.bs)
      BY <3>1, BytesOf
    <3>. QED
      BY <3>2 DEF AreBytes
  <2>6. ver # "magic" /\ ver = (IF m.kind = "old" THEN "other" ELSE "version")
    OBVIOUS
  <2>. HIDE DEF ver, info, hd, bd, w, a, b
  <2>. DEFINE ih == info \o hd
  <2>7. /\ ih \in Seq(Units) /\ Len(ih) = 2 + m.hs
        /\ (\A k \in 1..2 : ih[k] = info[k])
        /\ \A k \in 1..m.hs : ih[2 + k] = hd[k]
    <3>1. info \in Seq(Units) /\ hd \in Seq(Units)
      BY <2>4, <2>5
    <3>2. /\ ih \in Seq(Units) /\ Len(ih) = Len(info) + Len(hd)
          /\ (\A k \in 1..Len(info) : ih[k] = info[k])
          /\ \A k \in 1..Len(hd) : ih[Len(info) + k] = hd[k]
      BY <3>1, Glue
    <3>. HIDE DEF ih
    <3>. QED
      BY <2>4, <2>5, <3>2
  <2>. HIDE DEF ih
  <2>8. /\ w \in Seq(Units) /\ Len(w) = 2 + m.hs + m.bs
        /\ (\A k \in 1..(2 + m.hs) : w[k] = ih[k])
        /\ \A k \in 1..m.bs : w[2 + m.hs + k] = bd[k]
    <3>1. ih \in Seq(Units) /\ bd \in Seq(Units) /\ w = ih \o bd
      BY <2>1, <2>5, <2>7 DEF ih
    <3>2. /\ w \in Seq(Units) /\ Len(w) = Len(ih) + Len(bd)
          /\ (\A k \in 1..Len(ih) : w[k] = ih[k])
          /\ \A k \in 1..Len(bd) : w[Len(ih) + k] = bd[k]
      BY <3>1, Glue
    <3>. QED
      BY <2>5, <2>7, <3>2
  <2>9. Size(m) = 2 + m.hs + m.bs /\ Size(m) \in Nat /\ InfoSize = 2
    BY <1>1, <1>3 DEF Size, InfoSize
  <2>10. w[1] = info[1] /\ w[2] = info[2]
    BY <1>1, <2>7, <2>8
  <2>11. \A u \in 1..m.hs : w[2 + u] = hd[u]
    <3>. TAKE u \in 1..m.hs
    <3>1. 2 + u \in 1..(2 + m.hs)
      BY <1>1
    <3>. QED
      BY <2>7, <2>8, <3>1
  <2>12. \A u \in 1..m.bs : w[2 + m.hs + u] = bd[u]
    BY <2>8
  <2>13. \A u \in 2..(2 + m.hs + m.bs) : w[u].f # "magic"
    <3>. TAKE u \in 2..(2 + m.hs + m.bs)
    <3>1. CASE u = 2
      BY <2>4, <2>6, <2>10, <3>1
    <3>2. CASE u > 2 /\ u <= 2 + m.hs
      <4>1. u - 2 \in 1..m.hs /\ 2 + (u - 2) = u
        BY <1>1, <3>2
      <4>2. w[u] = hd[u - 2]
        BY <2>11, <4>1
      <4>. QED
        BY <2>5, <4>1, <4>2
    <3>3. CASE u > 2 + m.hs
      <4>1. u - (2 + m.hs) \in 1..m.bs /\ 2 + m.hs + (u - (2 + m.hs)) = u
        BY <1>1, <3>3
      <4>2. w[u] = bd[u - (2 + m.hs)]
        BY <2>12, <4>1
      <4>. QED
        BY <2>5, <4>1, <4>2
    <3>. QED
      BY <1>1, <3>1, <3>2, <3>3
  <2>14. info[2].v[1] = m.hs /\ info[2].v[2] = m.bs
    BY <2>4
  <2>. QED
    BY <1>3, <2>4, <2>6, <2>8, <2>9, <2>10, <2>11, <2>12, <2>13, <2>14 DEF hd, bd, w, Framed
<1>. QED
  BY <1>2, <1>3

-----------------------------------------------------------------------------
(* The first sequences of a sequence of sequences, one after the other.    *)

Flow(fr, n) == FlattenSeq(SubSeq(fr, 1, n))

LEMMA FlowType ==
    ASSUME NEW S, NEW fr \in Seq(Seq(S)), NEW n \in 0..Len(fr)
    PROVE  /\ Flow(fr, n) \in Seq(S) /\ Flow(fr, 0) = << >>
           /\ Flow(fr, Len(fr)) = FlattenSeq(fr) /\ FlattenSeq(fr) \in Seq(S)
<1>1. Len(fr) \in Nat /\ n \in Nat /\ 0 \in Nat
  BY LenProperties
<1>2. SubSeq(fr, 1, n) \in Seq(Seq(S))
  <2>1. Cut(fr, 0, n) \in Seq(Seq(S))
    BY <1>1, CutIs
  <2>2. 0 + 1 = 1
    OBVIOUS
  <2>. QED
    BY <2>1, <2>2 DEF Cut
<1>3. FlattenSeq(SubSeq(fr, 1, n)) \in Seq(S)
  BY <1>2, FlattenType
<1>4. SubSeq(fr, 1, 0) = << >>
  BY SubSeqEmpty
<1>5. FlattenSeq(<< >>) = << >>
  <2>1. << >> \in Seq(Seq(S)) /\ Len(<< >>) = 0
    BY EmptySeq
  <2>. QED
    BY <2>1, FlattenType
<1>6. SubSeq(fr, 1, Len(fr)) = fr
  BY SubSeqFull
<1>7. FlattenSeq(fr) \in Seq(S)
  BY FlattenType
<1>. QED
  BY <1>3, <1>4, <1>5, <1>6, <1>7 DEF Flow

LEMMA FlowNext ==
    ASSUME NEW S, NEW fr \in Seq(Seq(S)), NEW n \in 1..Len(fr)
    PROVE  Flow(fr, n) = Flow(fr, n - 1) \o fr[n] /\ fr[n] \in Seq(S)
<1>1. Len(fr) \in Nat /\ fr[n] \in Seq(S)
  BY LenProperties
<1>. DEFINE a == SubSeq(fr, 1, n - 1)
<1>2. a \in Seq(Seq(S))
  <2>1. \A i \in 1..(n - 1) : fr[i] \in Seq(S)
    BY <1>1, ElementOfSeq
  <2>. QED
    BY <1>1, <2>1, SubSeqProperties
<1>3. SubSeq(fr, 1, n) = a \o << fr[n] >>
  <2>1. 1 \in 1..Len(fr) /\ n \in 1..Len(fr)
    BY <1>1
  <2>. QED
    BY <2>1, SubSeqRecursiveSecond
<1>. HIDE DEF a
<1>4. Append(a, fr[n]) = a \o << fr[n] >>
  BY <1>1, <1>2, AppendIsConcat
<1>5. FlattenSeq(Append(a, fr[n])) = FlattenSeq(a) \o fr[n]
  BY <1>1, <1>2, FlattenAppend
<1>. QED
  BY <1>1, <1>3, <1>4, <1>5 DEF Flow, a

\* They are where the first ones of all are.
LEMMA FlowPrefix ==
    ASSUME NEW S, NEW fr \in Seq(Seq(S)), NEW n \in 0..Len(fr), NEW m \in n..Len(fr)
    PROVE  /\ Len(Flow(fr, n)) <= Len(Flow(fr, m))
           /\ \A k \in 1..Len(Flow(fr, n)) : Flow(fr, m)[k] = Flow(fr, n)[k]
<1>. DEFINE Good(i) == /\ Len(Flow(fr, n)) <= Len(Flow(fr, i))
                       /\ \A k \in 1..Len(Flow(fr, n)) : Flow(fr, i)[k] = Flow(fr, n)[k]
            T == {i \in n..Len(fr) : ~Good(i)}
<1>0. Len(fr) \in Nat /\ n \in Nat
  BY LenProperties
<1>1. SUFFICES ASSUME T # {} PROVE FALSE
  OBVIOUS
<1>2. T \in SUBSET Nat
  BY <1>0
<1>3. PICK i \in T : \A j \in T : i <= j
  BY <1>1, <1>2, LeastNumber
<1>4. i \in n..Len(fr) /\ ~Good(i)
  BY <1>3
<1>5. Len(Flow(fr, n)) \in Nat
  BY FlowType, LenProperties
<1>6. i # n
  BY <1>4, <1>5
<1>7. i - 1 \in n..Len(fr) /\ i - 1 \notin T /\ i \in 1..Len(fr) /\ i - 1 \in 0..Len(fr)
  BY <1>0, <1>3, <1>4, <1>6
<1>8. Good(i - 1)
  BY <1>7
<1>. DEFINE x == Flow(fr, n)
            y == Flow(fr, i - 1)
            z == Flow(fr, i)
            t == fr[i]
<1>9. z = y \o t /\ t \in Seq(S)
  BY <1>7, FlowNext
<1>10. y \in Seq(S)
  BY <1>7, FlowType
<1>11. Len(x) <= Len(y) /\ \A k \in 1..Len(x) : y[k] = x[k]
  BY <1>8
<1>12. ~(Len(x) <= Len(z) /\ \A k \in 1..Len(x) : z[k] = x[k])
  BY <1>4
<1>13. Len(x) \in Nat
  BY <1>5
<1>. HIDE DEF x, y, z, t
<1>14. /\ Len(y \o t) = Len(y) + Len(t) /\ Len(y) \in Nat /\ Len(t) \in Nat
       /\ \A k \in 1..Len(y) : (y \o t)[k] = y[k]
  BY <1>9, <1>10, Glue
<1>15. \A k \in 1..Len(x) : k \in 1..Len(y)
  BY <1>11, <1>13, <1>14
<1>. QED
  BY <1>9, <1>11, <1>12, <1>13, <1>14, <1>15

\* Equal sequences flow alike,
LEMMA FlowSame ==
    ASSUME NEW S, NEW fr \in Seq(Seq(S)), NEW gr \in Seq(Seq(S)), Len(fr) = Len(gr),
           NEW n \in 0..Len(fr), \A k \in 1..n : fr[k] = gr[k]
    PROVE  Flow(fr, n) = Flow(gr, n)
<1>. DEFINE T == {i \in 0..n : Flow(fr, i) # Flow(gr, i)}
<1>0. Len(fr) \in Nat /\ n \in Nat /\ n \in 0..n
  BY LenProperties
<1>1. SUFFICES ASSUME T # {} PROVE FALSE
  <2>1. n \notin T => Flow(fr, n) = Flow(gr, n)
    BY <1>0
  <2>. HIDE DEF T
  <2>. QED
    BY <2>1
<1>2. T \in SUBSET Nat
  BY <1>0
<1>3. PICK i \in T : \A j \in T : i <= j
  BY <1>1, <1>2, LeastNumber
<1>4. i \in 0..n /\ Flow(fr, i) # Flow(gr, i) /\ i \in 0..Len(fr) /\ 0 \in 0..Len(fr)
  BY <1>0, <1>3
<1>5. i # 0
  <2>1. Flow(fr, 0) = << >>
    BY <1>4, FlowType
  <2>2. Flow(gr, 0) = << >>
    BY <1>4, FlowType
  <2>. QED
    BY <1>4, <2>1, <2>2
<1>6. i - 1 \in 0..n /\ i - 1 \notin T /\ i \in 1..Len(fr) /\ i \in 1..n
  BY <1>0, <1>3, <1>4, <1>5
<1>7. Flow(fr, i) = Flow(fr, i - 1) \o fr[i]
  BY <1>6, FlowNext
<1>8. Flow(gr, i) = Flow(gr, i - 1) \o gr[i]
  BY <1>6, FlowNext
<1>. QED
  BY <1>4, <1>6, <1>7, <1>8

\* and empty ones do not count.
LEMMA FlowQuiet ==
    ASSUME NEW S, NEW fr \in Seq(Seq(S)), NEW n \in 0..Len(fr), NEW m \in n..Len(fr),
           \A k \in (n + 1)..m : fr[k] = << >>
    PROVE  Flow(fr, m) = Flow(fr, n)
<1>. DEFINE T == {i \in n..m : Flow(fr, i) # Flow(fr, n)}
<1>0. Len(fr) \in Nat /\ n \in Nat /\ m \in Nat
  BY LenProperties
<1>1. SUFFICES ASSUME T # {} PROVE FALSE
  BY <1>0
<1>2. T \in SUBSET Nat
  BY <1>0
<1>3. PICK i \in T : \A j \in T : i <= j
  BY <1>1, <1>2, LeastNumber
<1>4. i \in n..m /\ Flow(fr, i) # Flow(fr, n) /\ i # n
  BY <1>3
<1>6. /\ i - 1 \in n..m /\ i - 1 \notin T /\ i \in 1..Len(fr) /\ i \in (n + 1)..m
      /\ i - 1 \in 0..Len(fr)
  BY <1>0, <1>3, <1>4
<1>7. Flow(fr, i) = Flow(fr, i - 1) \o << >>
  <2>1. Flow(fr, i) = Flow(fr, i - 1) \o fr[i]
    BY <1>6, FlowNext
  <2>. QED
    BY <1>6, <2>1
<1>8. Flow(fr, i - 1) \in Seq(S)
  BY <1>6, FlowType
<1>9. Flow(fr, i - 1) \o << >> = Flow(fr, i - 1)
  BY <1>8, ConcatEmptySeq
<1>. QED
  BY <1>4, <1>6, <1>7, <1>9

-----------------------------------------------------------------------------
(* The stream of a session is laid out on the wire message by message.     *)

Packs(s, str) == [i \in DOMAIN str |-> pack(<<s, i>>, str[i])]
WireOf(s, str) == FlattenSeq(Packs(s, str))
Edges(s, str) == [n \in 0..Len(str) |-> Len(Flow(Packs(s, str), n))]

LEMMA PacksAre ==
    ASSUME NEW s \in Nat, NEW str \in Seq(Message)
    PROVE  /\ Packs(s, str) \in Seq(Seq(Units)) /\ Len(Packs(s, str)) = Len(str)
           /\ \A k \in 1..Len(str) : /\ Packs(s, str)[k] = pack(<<s, k>>, str[k])
                                     /\ Len(Packs(s, str)[k]) = Size(str[k]) /\ Size(str[k]) \in Nat
<1>1. Len(str) \in Nat /\ DOMAIN str = 1..Len(str) /\ \A k \in 1..Len(str) : str[k] \in Message
  BY LenProperties
<1>2. ASSUME NEW k \in 1..Len(str)
      PROVE  /\ pack(<<s, k>>, str[k]) \in Seq(Units) /\ Len(pack(<<s, k>>, str[k])) = Size(str[k])
             /\ Size(str[k]) \in Nat
  <2>1. k \in Nat /\ str[k] \in Message
    BY <1>1
  <2>2. Framed(pack(<<s, k>>, str[k]), s, k, str[k])
    BY <2>1, Packed
  <2>. QED
    BY <2>2 DEF Framed
<1>3. Packs(s, str) = [i \in 1..Len(str) |-> pack(<<s, i>>, str[i])]
  BY <1>1 DEF Packs
<1>4. Packs(s, str) \in [1..Len(str) -> Seq(Units)]
  BY <1>2, <1>3
<1>5. Packs(s, str) \in Seq(Seq(Units))
  BY <1>1, <1>4, SeqDef
<1>6. Len(Packs(s, str)) = Len(str)
  BY <1>1, <1>4, <1>5, LenProperties
<1>. QED
  BY <1>2, <1>3, <1>5, <1>6

LEMMA WireLaid ==
    ASSUME NEW s \in Nat, NEW str \in Seq(Message)
    PROVE  Laid(s, str, WireOf(s, str), Edges(s, str))
<1>. DEFINE fr == Packs(s, str)
            W == WireOf(s, str)
            E == Edges(s, str)
            N == Len(str)
<1>1. /\ fr \in Seq(Seq(Units)) /\ Len(fr) = N
      /\ \A k \in 1..N : fr[k] = pack(<<s, k>>, str[k]) /\ Len(fr[k]) = Size(str[k]) /\ Size(str[k]) \in Nat
  BY PacksAre
<1>2. W = FlattenSeq(fr) /\ E = [n \in 0..N |-> Len(Flow(fr, n))] /\ N \in Nat
  BY LenProperties DEF WireOf, Edges
<1>. HIDE DEF fr, W, E
<1>3. ASSUME NEW n \in 0..N PROVE Flow(fr, n) \in Seq(Units) /\ Len(Flow(fr, n)) \in Nat /\ E[n] = Len(Flow(fr, n))
  <2>1. fr \in Seq(Seq(Units)) /\ n \in 0..Len(fr)
    BY <1>1
  <2>2. Flow(fr, n) \in Seq(Units)
    BY <2>1, FlowType
  <2>. QED
    BY <1>2, <2>2, LenProperties
<1>4. W \in Seq(Units) /\ Flow(fr, N) = W /\ Flow(fr, 0) = << >>
  <2>1. fr \in Seq(Seq(Units)) /\ N \in 0..Len(fr)
    BY <1>1, <1>2
  <2>2. /\ Flow(fr, 0) = << >>
        /\ Flow(fr, Len(fr)) = FlattenSeq(fr) /\ FlattenSeq(fr) \in Seq(Units)
    BY <2>1, FlowType
  <2>. QED
    BY <1>1, <1>2, <2>2
<1>5. E \in [0..N -> Nat] /\ E[0] = 0 /\ E[N] = Len(W)
  <2>1. 0 \in 0..N /\ N \in 0..N
    BY <1>2
  <2>2. E \in [0..N -> Nat]
    BY <1>2, <1>3
  <2>. QED
    BY <1>3, <1>4, <2>1, <2>2, EmptySeq
<1>6. ASSUME NEW k \in 1..N
      PROVE  /\ E[k] = E[k - 1] + Size(str[k])
             /\ \A u \in 1..Size(str[k]) : W[E[k - 1] + u] = pack(<<s, k>>, str[k])[u]
  <2>. DEFINE y == Flow(fr, k - 1)
              t == fr[k]
              z == Flow(fr, k)
  <2>1. k \in 1..Len(fr) /\ k - 1 \in 0..N /\ k \in 0..N /\ k \in 0..Len(fr) /\ N \in k..Len(fr)
    BY <1>1, <1>2
  <2>2. z = y \o t /\ t \in Seq(Units)
    BY <1>1, <2>1, FlowNext
  <2>3. y \in Seq(Units) /\ E[k - 1] = Len(y) /\ E[k] = Len(z) /\ Len(y) \in Nat /\ Len(z) \in Nat
    BY <1>3, <2>1
  <2>4. \A i \in 1..Len(z) : W[i] = z[i]
    <3>1. \A i \in 1..Len(z) : Flow(fr, N)[i] = z[i]
      BY <1>1, <2>1, FlowPrefix
    <3>. QED
      BY <1>4, <3>1
  <2>5. t = pack(<<s, k>>, str[k]) /\ Len(t) = Size(str[k]) /\ Size(str[k]) \in Nat
    BY <1>1
  <2>. HIDE DEF y, t, z
  <2>6. /\ Len(z) = Len(y) + Len(t)
        /\ \A i \in 1..Len(t) : z[Len(y) + i] = t[i]
    BY <2>2, <2>3, Glue
  <2>7. ASSUME NEW u \in 1..Size(str[k]) PROVE W[E[k - 1] + u] = t[u]
    <3>1. u \in 1..Len(t) /\ Len(y) + u \in 1..Len(z)
      BY <2>3, <2>5, <2>6
    <3>. QED
      BY <2>3, <2>4, <2>6, <3>1
  <2>. QED
    BY <2>3, <2>5, <2>6, <2>7
<1>. QED
  BY <1>4, <1>5, <1>6 DEF Laid, W, E

\* The ends come in order.
LEMMA EdgesRise ==
    ASSUME NEW s \in Nat, NEW str \in Seq(Message), NEW W, NEW E, Laid(s, str, W, E),
           NEW i \in 0..Len(str), NEW j \in i..Len(str)
    PROVE  E[i] <= E[j] /\ E[i] \in Nat /\ E[j] \in Nat
<1>. DEFINE T == {k \in i..Len(str) : ~(E[i] <= E[k])}
<1>0. Len(str) \in Nat /\ i \in Nat /\ j \in Nat
  BY LenProperties
<1>1. E \in [0..Len(str) -> Nat] /\ \A k \in 1..Len(str) : E[k] = E[k - 1] + Size(str[k])
  BY DEF Laid
<1>2. \A k \in 1..Len(str) : Size(str[k]) \in Nat
  BY PacksAre
<1>3. i \in 0..Len(str) /\ j \in 0..Len(str) /\ j \in i..Len(str)
  BY <1>0
<1>4. E[i] \in Nat /\ E[j] \in Nat
  BY <1>1, <1>3
<1>5. SUFFICES ASSUME T # {} PROVE FALSE
  BY <1>3, <1>4
<1>6. T \in SUBSET Nat
  BY <1>0
<1>7. PICK k \in T : \A m \in T : k <= m
  BY <1>5, <1>6, LeastNumber
<1>8. k \in i..Len(str) /\ ~(E[i] <= E[k])
  BY <1>7
<1>9. k # i
  BY <1>4, <1>8
<1>10. k - 1 \in i..Len(str) /\ k - 1 \notin T /\ k \in 1..Len(str) /\ k - 1 \in 0..Len(str) /\ k \in 0..Len(str)
  BY <1>0, <1>7, <1>8, <1>9
<1>11. E[i] <= E[k - 1] /\ E[k - 1] \in Nat /\ E[k] = E[k - 1] + Size(str[k]) /\ Size(str[k]) \in Nat
  BY <1>1, <1>2, <1>10
<1>. QED
  BY <1>4, <1>8, <1>11

\* A unit on the wire belongs to one of the messages.
LEMMA UnitOf ==
    ASSUME NEW s \in Nat, NEW str \in Seq(Message), NEW W, NEW E, Laid(s, str, W, E),
           NEW P \in 1..Len(W)
    PROVE  \E j \in 1..Len(str) : E[j - 1] < P /\ P <= E[j]
<1>. DEFINE T == {k \in 0..Len(str) : P <= E[k]}
<1>0. Len(str) \in Nat /\ W \in Seq(Units)
  BY LenProperties DEF Laid
<1>1. E \in [0..Len(str) -> Nat] /\ E[0] = 0 /\ E[Len(str)] = Len(W)
  BY DEF Laid
<1>2. Len(W) \in Nat
  BY <1>0, LenProperties
<1>3. Len(str) \in T
  BY <1>0, <1>1, <1>2
<1>4. T \in SUBSET Nat
  BY <1>0
<1>5. PICK j \in T : \A m \in T : j <= m
  BY <1>3, <1>4, LeastNumber
<1>6. j \in 0..Len(str) /\ P <= E[j]
  BY <1>5
<1>7. j # 0
  BY <1>1, <1>2, <1>6
<1>8. j \in 1..Len(str) /\ j - 1 \in 0..Len(str) /\ j - 1 \notin T
  BY <1>0, <1>5, <1>6, <1>7
<1>9. ~(P <= E[j - 1]) /\ E[j - 1] \in Nat
  BY <1>1, <1>8
<1>10. E[j - 1] < P
  BY <1>2, <1>9
<1>. QED
  BY <1>6, <1>8, <1>10

\* A message that is no junk: its Info, its head and its body on the wire
FrameIs(s, str, W, E, j) ==
    LET m == str[j]
        a == E[j - 1]
    IN  /\ m \in Message /\ m.hs \in Nat /\ m.bs \in Nat
        /\ a \in Nat /\ E[j] = a + InfoSize + m.hs + m.bs /\ E[j] <= Len(W)
        /\ W[a + 1].f = "magic" /\ (W[a + 2].f = "version" <=> m.kind = "frame")
        /\ m.kind \in {"frame", "old"}
        /\ W[a + 2].v[1] = m.hs /\ W[a + 2].v[2] = m.bs
        /\ Cut(W, a + InfoSize, a + InfoSize + m.hs) = Bytes("head", <<s, j>>, m.hs)
        /\ Cut(W, a + InfoSize + m.hs, E[j]) = Bytes("body", <<s, j>>, m.bs)

LEMMA FrameAt ==
    ASSUME NEW s \in Nat, NEW str \in Seq(Message), NEW W, NEW E, Laid(s, str, W, E),
           NEW j \in 1..Len(str), str[j].kind # "junk"
    PROVE  FrameIs(s, str, W, E, j)
<1>. DEFINE m == str[j]
            a == E[j - 1]
            w == pack(<<s, j>>, m)
            b == a + InfoSize + m.hs
<1>1. Len(str) \in Nat /\ m \in Message /\ j \in Nat /\ j \in 0..Len(str) /\ j - 1 \in 0..Len(str)
      /\ Len(str) \in j..Len(str)
  BY LenProperties
<1>2. Framed(w, s, j, m)
  BY <1>1, Packed
<1>3. /\ W \in Seq(Units) /\ E[Len(str)] = Len(W) /\ E[j] = a + Size(m)
      /\ (\A u \in 1..Size(m) : W[a + u] = w[u]) /\ a \in Nat
  BY <1>1 DEF Laid
<1>4. E[j] <= E[Len(str)]
  BY <1>1, EdgesRise
<1>5. m.hs \in Nat /\ m.bs \in Nat /\ m.kind \in {"frame", "old"} /\ InfoSize = 2
      /\ Size(m) = InfoSize + m.hs + m.bs
  BY <1>1 DEF Message, InfoSize, Size
<1>. DEFINE tag == <<s, j>>
<1>6. tag \in Seq(Nat)
  BY <1>1
<1>. HIDE DEF m, a, w, tag
<1>7. AreBytes(Bytes("head", tag, m.hs), "head", m.hs) /\ AreBytes(Bytes("body", tag, m.bs), "body", m.bs)
  BY <1>5, <1>6, BytesOf
<1>8. Len(W) \in Nat
  BY <1>3, LenProperties
<1>. DEFINE hs == m.hs
            bs == m.bs
            e == E[j]
            z == Len(W)
            sz == Size(m)
<1>15. hs \in Nat /\ bs \in Nat /\ sz = 2 + hs + bs /\ e = a + sz /\ e <= z /\ z \in Nat /\ a \in Nat
  <2>1. Size(m) = 2 + m.hs + m.bs
    BY <1>5
  <2>2. E[j] <= Len(W)
    BY <1>3, <1>4
  <2>. QED
    BY <1>3, <1>5, <1>8, <2>1, <2>2
<1>. HIDE DEF hs, bs, e, z, sz
<1>16. a + 2 + hs + bs = e /\ a + 2 + hs \in Nat /\ a + 2 \in Nat /\ a + 2 <= a + 2 + hs
       /\ a + 2 + hs <= z /\ (a + 2 + hs) - (a + 2) = hs /\ a + 2 + hs <= e /\ e - (a + 2 + hs) = bs
       /\ e \in Nat
  BY <1>15
<1>9. /\ w[1].f = "magic"
      /\ w[2].f = (IF m.kind = "old" THEN "other" ELSE "version")
      /\ w[2].v[1] = m.hs /\ w[2].v[2] = m.bs
      /\ (\A u \in 1..m.hs : w[2 + u] = Bytes("head", tag, m.hs)[u])
      /\ \A u \in 1..m.bs : w[2 + m.hs + u] = Bytes("body", tag, m.bs)[u]
  BY <1>2, <1>5 DEF Framed, m, tag
<1>10. W[a + 1] = w[1] /\ W[a + 2] = w[2]
  <2>1. \A u \in 1..sz : W[a + u] = w[u]
    BY <1>3 DEF sz
  <2>2. 1 \in 1..sz /\ 2 \in 1..sz
    BY <1>15
  <2>. QED
    BY <2>1, <2>2
<1>11. Cut(W, a + InfoSize, b) = Bytes("head", tag, m.hs)
  <2>. DEFINE x == Cut(W, a + InfoSize, b)
              y == Bytes("head", tag, m.hs)
  <2>1. /\ a + InfoSize \in Nat /\ b \in Nat /\ a + InfoSize <= b /\ b <= Len(W)
        /\ b - (a + InfoSize) = m.hs
    BY <1>15, <1>16 DEF InfoSize, hs, bs, e, z
  <2>2. W \in Seq(Units)
    BY <1>3
  <2>. HIDE DEF b
  <2>3. /\ x \in Seq(Units) /\ Len(x) = b - (a + InfoSize)
        /\ \A k \in 1..(b - (a + InfoSize)) : x[k] = W[a + InfoSize + k]
    BY <2>1, <2>2, CutIs
  <2>4. y \in Seq(Units) /\ Len(y) = m.hs
    BY <1>7 DEF AreBytes
  <2>. HIDE DEF x, y
  <2>5. ASSUME NEW k \in 1..m.hs PROVE x[k] = y[k]
    <3>1. 2 + k \in 1..Size(m) /\ a + (2 + k) = a + InfoSize + k
      BY <1>3, <1>5
    <3>2. W[a + (2 + k)] = w[2 + k]
      BY <1>3, <3>1
    <3>3. w[2 + k] = y[k]
      BY <1>9 DEF y
    <3>4. x[k] = W[a + InfoSize + k]
      BY <2>1, <2>3
    <3>. QED
      BY <3>1, <3>2, <3>3, <3>4
  <2>6. Len(x) = Len(y) /\ \A k \in 1..Len(x) : x[k] = y[k]
    BY <2>1, <2>3, <2>4, <2>5
  <2>7. x = y
    BY <2>3, <2>4, <2>6, SameSeq
  <2>. QED
    BY <2>7 DEF x, y
<1>12. Cut(W, b, E[j]) = Bytes("body", tag, m.bs)
  <2>. DEFINE x == Cut(W, b, e)
              y == Bytes("body", tag, m.bs)
  <2>1. b \in Nat /\ e \in Nat /\ b <= e /\ e <= Len(W) /\ e - b = m.bs
    BY <1>15, <1>16 DEF InfoSize, hs, bs, e, z
  <2>0. b = a + InfoSize + m.hs
    OBVIOUS
  <2>2. W \in Seq(Units)
    BY <1>3
  <2>. HIDE DEF b
  <2>3. /\ x \in Seq(Units) /\ Len(x) = e - b /\ \A k \in 1..(e - b) : x[k] = W[b + k]
    BY <2>1, <2>2, CutIs
  <2>4. y \in Seq(Units) /\ Len(y) = m.bs
    BY <1>7 DEF AreBytes
  <2>. HIDE DEF x, y
  <2>5. ASSUME NEW k \in 1..m.bs PROVE x[k] = y[k]
    <3>1. 2 + m.hs + k \in 1..Size(m) /\ a + (2 + m.hs + k) = b + k
      <4>1. k \in 1..bs /\ b = a + 2 + hs
        BY <2>0 DEF InfoSize, hs, bs
      <4>2. 2 + hs + k \in 1..sz /\ a + (2 + hs + k) = b + k
        BY <1>15, <4>1
      <4>. QED
        BY <4>2 DEF hs, sz
    <3>2. W[a + (2 + m.hs + k)] = w[2 + m.hs + k]
      BY <1>3, <3>1
    <3>3. w[2 + m.hs + k] = y[k]
      BY <1>9 DEF y
    <3>4. x[k] = W[b + k]
      BY <2>1, <2>3
    <3>. QED
      BY <3>1, <3>2, <3>3, <3>4
  <2>6. Len(x) = Len(y) /\ \A k \in 1..Len(x) : x[k] = y[k]
    BY <2>1, <2>3, <2>4, <2>5
  <2>7. x = y
    BY <2>3, <2>4, <2>6, SameSeq
  <2>. QED
    BY <2>7 DEF x, y, e
<1>13. W[a + 1].f = "magic" /\ (W[a + 2].f = "version" <=> m.kind = "frame")
       /\ W[a + 2].v[1] = m.hs /\ W[a + 2].v[2] = m.bs
  BY <1>5, <1>9, <1>10
<1>14. E[j] = a + InfoSize + m.hs + m.bs /\ E[j] <= Len(W)
  BY <1>15, <1>16 DEF InfoSize, hs, bs, e, z
<1>. QED
  BY <1>1, <1>3, <1>5, <1>11, <1>12, <1>13, <1>14 DEF FrameIs, m, a, tag

\* A magic number on the wire is the beginning of such a message.
LEMMA MagicAt ==
    ASSUME NEW s \in Nat, NEW str \in Seq(Message), NEW W, NEW E, Laid(s, str, W, E),
           NEW P \in 1..Len(W), W[P].f = "magic"
    PROVE  \E j \in 1..Len(str) : str[j].kind # "junk" /\ P = E[j - 1] + 1
<1>1. PICK j \in 1..Len(str) : E[j - 1] < P /\ P <= E[j]
  BY UnitOf
<1>. DEFINE m == str[j]
            a == E[j - 1]
            w == pack(<<s, j>>, m)
            u == P - a
<1>2. Len(str) \in Nat /\ m \in Message /\ j \in Nat /\ j - 1 \in 0..Len(str) /\ W \in Seq(Units)
  BY LenProperties DEF Laid
<1>3. Framed(w, s, j, m)
  BY <1>2, Packed
<1>4. E[j] = a + Size(m) /\ (\A k \in 1..Size(m) : W[a + k] = w[k]) /\ a \in Nat
  BY <1>2 DEF Laid
<1>5. P \in Nat /\ Len(W) \in Nat
  BY <1>2, LenProperties
<1>6. Size(m) \in Nat
  BY <1>3 DEF Framed
<1>17. a < P /\ P <= a + Size(m)
  BY <1>1, <1>4
<1>. HIDE DEF m, a, w
<1>7. u \in 1..Size(m) /\ a + u = P
  BY <1>4, <1>5, <1>6, <1>17
<1>. HIDE DEF u
<1>8. w[u].f = "magic"
  BY <1>4, <1>7
<1>9. m.kind # "junk"
  BY <1>3, <1>7, <1>8 DEF Framed
<1>10. u = 1
  <2>1. ~(u \in 2..Size(m))
    BY <1>3, <1>8, <1>9 DEF Framed
  <2>. QED
    BY <1>6, <1>7, <2>1
<1>. QED
  BY <1>4, <1>7, <1>9, <1>10 DEF m, a

-----------------------------------------------------------------------------
(* The parser.                                                             *)

Ps(cache, on, hs, bs, head, body) ==
    [cache |-> cache, on |-> on, hs |-> hs, bs |-> bs, head |-> head, body |-> body]

\* What GarbageIdx skips: no magic number; and then there is one with room for
\* an Info, or less than an Info is left
Skips(c, g) ==
    /\ g \in Nat /\ g <= Len(c)
    /\ \A i \in 1..g : c[i].f # "magic"
    /\ \/ g + 2 <= Len(c) /\ c[g + 1].f = "magic"
       \/ Len(c) - g < 2

LEMMA GarbageIs ==
    ASSUME NEW c \in Seq(Units)
    PROVE  Skips(c, GarbageIdx(c))
<1>. DEFINE found == {i \in 0..(Len(c) - 2) : c[i + 1].f = "magic"}
            g == GarbageIdx(c)
<1>1. Len(c) \in Nat
  BY LenProperties
<1>2. g = IF found # {} THEN CHOOSE i \in found : \A j \in found : i <= j
          ELSE IF Len(c) < 2 THEN 0 ELSE Len(c) - 2 + 1
  BY DEF GarbageIdx, InfoSize
<1>. HIDE DEF g
<1>3. CASE found # {}
  <2>1. found \in SUBSET Nat
    BY <1>1
  <2>2. \E i \in found : \A j \in found : i <= j
    BY <1>3, <2>1, LeastNumber
  <2>3. g \in found /\ \A j \in found : g <= j
    <3>. HIDE DEF found
    <3>. QED
      BY <1>2, <1>3, <2>2
  <2>4. g \in 0..(Len(c) - 2) /\ c[g + 1].f = "magic"
    BY <2>3
  <2>5. ASSUME NEW i \in 1..g, c[i].f = "magic" PROVE FALSE
    <3>1. i - 1 \in 0..(Len(c) - 2) /\ (i - 1) + 1 = i /\ i \in Nat /\ g \in Nat
      BY <1>1, <2>4
    <3>2. i - 1 \in found
      BY <2>5, <3>1
    <3>3. g <= i - 1
      BY <2>3, <3>2
    <3>. QED
      BY <3>1, <3>3
  <2>. QED
    BY <1>1, <2>4, <2>5 DEF Skips, g
<1>4. CASE found = {}
  <2>1. ASSUME NEW i \in 1..(Len(c) - 1), c[i].f = "magic" PROVE FALSE
    <3>1. i - 1 \in 0..(Len(c) - 2) /\ (i - 1) + 1 = i
      BY <1>1
    <3>2. i - 1 \in found
      BY <2>1, <3>1
    <3>. QED
      BY <1>4, <3>2
  <2>. HIDE DEF found
  <2>2. g = IF Len(c) < 2 THEN 0 ELSE Len(c) - 2 + 1
    BY <1>2, <1>4
  <2>3. g \in Nat /\ g <= Len(c) /\ Len(c) - g < 2 /\ (g = 0 \/ g = Len(c) - 1)
    BY <1>1, <2>2
  <2>4. \A i \in 1..g : c[i].f # "magic"
    BY <1>1, <2>1, <2>3
  <2>. QED
    BY <2>3, <2>4 DEF Skips, g
<1>. QED
  BY <1>3, <1>4

LEMMA SkipsOne ==
    ASSUME NEW c, NEW g, Skips(c, g), Len(c) \in Nat, Len(c) >= 2, c[1].f = "magic"
    PROVE  g = 0
<1>1. g \in Nat /\ (g >= 1 => c[1].f # "magic")
  BY DEF Skips
<1>. QED
  BY <1>1

\* What unpackBodyData takes of the data: all that the body lacks, or all there is
Takes(p, data, u) ==
    /\ u.ret \in 0..Len(data)
    /\ \/ /\ Len(p.body) + u.ret = p.bs /\ u.parser = Reset(p)
          /\ u.out = <<[head |-> p.head, body |-> p.body \o Cut(data, 0, u.ret)]>>
       \/ /\ Len(p.body) + u.ret < p.bs /\ u.ret = Len(data)
          /\ u.parser = [p EXCEPT !.body = p.body \o Cut(data, 0, u.ret)] /\ u.out = <<>>

LEMMA BodyIs ==
    ASSUME NEW p, p.bs \in Nat, p.body \in Seq(Units), Len(p.body) <= p.bs, NEW data \in Seq(Units)
    PROVE  Takes(p, data, unpackBodyData(p, data))
<1>. DEFINE n == p.bs - Len(p.body)
            real == RealSize(n, data)
            body == p.body \o Cut(data, 0, real)
            u == unpackBodyData(p, data)
<1>1. Len(p.body) \in Nat /\ Len(data) \in Nat
  BY LenProperties
<1>2. n \in Nat /\ Len(p.body) + n = p.bs
  BY <1>1
<1>3. real = IF n < Len(data) THEN n ELSE Len(data)
  BY DEF RealSize
<1>4. u = IF Len(body) = p.bs
            THEN [parser |-> Reset(p), ret |-> real, out |-> <<[head |-> p.head, body |-> body]>>]
            ELSE [parser |-> [p EXCEPT !.body = body], ret |-> real, out |-> <<>>]
  <2>1. Cut(data, 0, real) = SubSeq(data, 1, real)
    BY DEF Cut
  <2>. QED
    BY <2>1 DEF unpackBodyData
<1>. HIDE DEF n, real, u
<1>5. real \in 0..Len(data) /\ real \in Nat /\ (real = n \/ (real < n /\ real = Len(data)))
  BY <1>1, <1>2, <1>3
<1>6. Cut(data, 0, real) \in Seq(Units) /\ Len(Cut(data, 0, real)) = real - 0
  <2>1. 0 \in Nat /\ real \in Nat /\ 0 <= real /\ real <= Len(data)
    BY <1>1, <1>5
  <2>. QED
    BY <2>1, CutIs
<1>7. Len(body) = Len(p.body) + real
  <2>. DEFINE x == Cut(data, 0, real)
  <2>1. x \in Seq(Units)
    BY <1>6
  <2>2. Len(x) = real
    BY <1>5, <1>6
  <2>. HIDE DEF x
  <2>3. Len(p.body \o x) = Len(p.body) + Len(x)
    BY <2>1, Glue
  <2>. QED
    BY <2>2, <2>3 DEF x
<1>. HIDE DEF body
<1>8. CASE real = n
  <2>1. Len(body) = p.bs
    BY <1>2, <1>7, <1>8
  <2>2. u = [parser |-> Reset(p), ret |-> real, out |-> <<[head |-> p.head, body |-> body]>>]
    BY <1>4, <2>1
  <2>3. Len(p.body) + u.ret = p.bs /\ u.ret = real
    BY <1>2, <1>8, <2>2
  <2>4. body = p.body \o Cut(data, 0, u.ret)
    BY <2>3 DEF body
  <2>5. u.parser = Reset(p) /\ u.out = <<[head |-> p.head, body |-> body]>>
    BY <2>2
  <2>6. Takes(p, data, u)
    BY <1>5, <2>3, <2>4, <2>5 DEF Takes
  <2>. QED
    BY <2>6 DEF u
<1>9. CASE real < n /\ real = Len(data)
  <2>1. Len(p.body) + real < p.bs /\ Len(body) # p.bs
    BY <1>1, <1>2, <1>5, <1>7, <1>9
  <2>2. u = [parser |-> [p EXCEPT !.body = body], ret |-> real, out |-> <<>>]
    BY <1>4, <2>1
  <2>. QED
    BY <1>5, <1>9, <2>1, <2>2 DEF Takes, u, body
<1>. QED
  BY <1>5, <1>8, <1>9

\* The cases of unpack.
LEMMA UnpackIs ==
    ASSUME NEW p, NEW data, NEW first, first = unpackProtocol(p, data),
           NEW rest, rest = Cut(data, first.ret, Len(data)),
           NEW second, second = unpackBodyData(first.parser, rest)
    PROVE  /\ first.end # "no" => unpack(p, data) = [parser |-> first.parser, left |-> <<>>, out |-> <<>>]
           /\ first.end = "no" => unpack(p, data) = [parser |-> second.parser, out |-> second.out,
                                                     left |-> Cut(rest, second.ret, Len(rest))]
BY DEF unpack, Cut

-----------------------------------------------------------------------------
(* The states a parser can be in, whatever data it gets.                   *)

\* A cache that begins with a frame of another version
Stuck(c) == Len(c) >= 2 /\ c[1].f = "magic" /\ c[2].f # "version"

Idle(p) == p.on = FALSE /\ (Len(p.cache) < 2 \/ Stuck(p.cache))
Waiting(p) == p.on = TRUE /\ p.head = <<>> /\ 2 <= Len(p.cache) /\ Len(p.cache) < 2 + p.hs
Filling(p) == p.on = TRUE /\ p.hs = Len(p.head) /\ (p.cache = <<>> \/ Stuck(p.cache))

IsRecord(p) == p = Ps(p.cache, p.on, p.hs, p.bs, p.head, p.body)

ParserShape(p) ==
    /\ IsRecord(p)
    /\ p.cache \in Seq(Units) /\ p.head \in Seq(Units) /\ p.body \in Seq(Units)
    /\ p.hs \in Nat /\ p.bs \in Nat
    /\ Len(p.head) <= p.hs /\ Len(p.body) <= p.bs

IsParser(p) == ParserShape(p) /\ (Idle(p) \/ Waiting(p) \/ Filling(p))

Messages == [head : Seq(Units), body : Seq(Units)]

LEMMA ShapeIs ==
    ASSUME NEW cache \in Seq(Units), NEW on, NEW hs \in Nat, NEW bs \in Nat,
           NEW head \in Seq(Units), NEW body \in Seq(Units), Len(head) <= hs, Len(body) <= bs
    PROVE  LET p == Ps(cache, on, hs, bs, head, body) IN
           /\ ParserShape(p) /\ p.cache = cache /\ p.on = on /\ p.hs = hs /\ p.bs = bs
           /\ p.head = head /\ p.body = body
BY DEF ParserShape, Ps, IsRecord

LEMMA EmptyShape ==
    ASSUME NEW cache \in Seq(Units), NEW on, NEW hs \in Nat, NEW bs \in Nat,
           NEW p, p = Ps(cache, on, hs, bs, <<>>, <<>>)
    PROVE  /\ ParserShape(p) /\ p.cache = cache /\ p.on = on /\ p.hs = hs /\ p.bs = bs
           /\ p.head = <<>> /\ p.body = <<>>
<1>. DEFINE e == <<>>
<1>1. e \in Seq(Units) /\ Len(e) <= hs /\ Len(e) <= bs
  BY EmptySeq
<1>. HIDE DEF e
<1>2. p = Ps(cache, on, hs, bs, e, e)
  BY DEF e
<1>3. /\ ParserShape(p) /\ p.cache = cache /\ p.on = on /\ p.hs = hs /\ p.bs = bs
      /\ p.head = e /\ p.body = e
  BY <1>1, <1>2, ShapeIs
<1>. QED
  BY <1>3 DEF e

LEMMA NewIsParser == IsParser(NewParser) /\ NewParser = Ps(<<>>, FALSE, 0, 0, <<>>, <<>>)
<1>1. NewParser = Ps(<<>>, FALSE, 0, 0, <<>>, <<>>)
  BY DEF NewParser, Ps
<1>2. <<>> \in Seq(Units) /\ Len(<<>>) = 0
  BY EmptySeq
<1>3. ParserShape(NewParser) /\ NewParser.on = FALSE /\ NewParser.cache = <<>>
  BY <1>1, <1>2 DEF ParserShape, Ps, IsRecord
<1>4. Len(NewParser.cache) < 2
  BY <1>2, <1>3
<1>5. Idle(NewParser)
  BY <1>3, <1>4 DEF Idle
<1>. QED
  BY <1>1, <1>3, <1>5 DEF IsParser

\* What the steps of the parser make of its members.
LEMMA PsSteps ==
    ASSUME NEW p, IsRecord(p)
    PROVE  /\ Reset(p) = Ps(p.cache, FALSE, 0, 0, <<>>, <<>>)
           /\ \A x : [p EXCEPT !.body = x] = Ps(p.cache, p.on, p.hs, p.bs, p.head, x)
           /\ \A x : [p EXCEPT !.cache = x] = Ps(x, p.on, p.hs, p.bs, p.head, p.body)
           /\ \A x, y : [p EXCEPT !.head = x, !.cache = y] = Ps(y, p.on, p.hs, p.bs, x, p.body)
           /\ \A x : Begun(p, x) = Ps(x, TRUE, 0, 0, <<>>, <<>>)
           /\ \A x, y, z : [Begun(p, x) EXCEPT !.hs = y, !.bs = z] = Ps(x, TRUE, y, z, <<>>, <<>>)
<1>. DEFINE e == <<>>
            f == FALSE
            t == TRUE
            c == p.cache
            o == p.on
            h == p.hs
            b == p.bs
            hd == p.head
            bd == p.body
<1>1. NewParser = Ps(e, f, 0, 0, e, e) /\ p = Ps(c, o, h, b, hd, bd)
  BY DEF NewParser, Ps, IsRecord
<1>. HIDE DEF e, f, t, c, o, h, b, hd, bd
<1>2. \A x : [NewParser EXCEPT !.cache = x] = Ps(x, f, 0, 0, e, e)
  BY <1>1 DEF Ps
<1>3. \A x : [p EXCEPT !.body = x] = Ps(c, o, h, b, hd, x) /\ [p EXCEPT !.cache = x] = Ps(x, o, h, b, hd, bd)
  BY <1>1 DEF Ps
<1>4. ASSUME NEW x, NEW y PROVE [p EXCEPT !.head = x, !.cache = y] = Ps(y, o, h, b, x, bd)
  <2>. DEFINE q == [p EXCEPT !.head = x]
  <2>1. [p EXCEPT !.head = x, !.cache = y] = [q EXCEPT !.cache = y]
    BY <1>1 DEF Ps
  <2>2. q = Ps(c, o, h, b, x, bd)
    BY <1>1 DEF Ps
  <2>. HIDE DEF q
  <2>3. [q EXCEPT !.cache = y] = Ps(y, o, h, b, x, bd)
    BY <2>2 DEF Ps
  <2>. QED
    BY <2>1, <2>3
<1>5. ASSUME NEW x PROVE [NewParser EXCEPT !.on = t, !.cache = x] = Ps(x, t, 0, 0, e, e)
  <2>. DEFINE q == [NewParser EXCEPT !.on = t]
  <2>1. [NewParser EXCEPT !.on = t, !.cache = x] = [q EXCEPT !.cache = x]
    BY <1>1 DEF Ps
  <2>2. q = Ps(e, t, 0, 0, e, e)
    BY <1>1 DEF Ps
  <2>. HIDE DEF q
  <2>3. [q EXCEPT !.cache = x] = Ps(x, t, 0, 0, e, e)
    BY <2>2 DEF Ps
  <2>. QED
    BY <2>1, <2>3
<1>6. ASSUME NEW x, NEW y, NEW z, NEW w, w = Ps(x, t, 0, 0, e, e)
      PROVE  [w EXCEPT !.hs = y, !.bs = z] = Ps(x, t, y, z, e, e)
  <2>. DEFINE q == [w EXCEPT !.hs = y]
  <2>1. [w EXCEPT !.hs = y, !.bs = z] = [q EXCEPT !.bs = z]
    BY <1>6 DEF Ps
  <2>2. q = Ps(x, t, y, 0, e, e)
    BY <1>6 DEF Ps
  <2>. HIDE DEF q
  <2>3. [q EXCEPT !.bs = z] = Ps(x, t, y, z, e, e)
    BY <2>2 DEF Ps
  <2>. QED
    BY <2>1, <2>3
<1>7. Reset(p) = Ps(c, f, 0, 0, e, e)
  BY <1>2 DEF Reset, c
<1>8. \A x : Begun(p, x) = Ps(x, t, 0, 0, e, e)
  BY <1>5 DEF Begun, t
<1>9. \A x, y, z : [Begun(p, x) EXCEPT !.hs = y, !.bs = z] = Ps(x, t, y, z, e, e)
  BY <1>6, <1>8
<1>10. \A x : [p EXCEPT !.body = x] = Ps(c, o, h, b, hd, x)
  BY <1>3
<1>11. \A x : [p EXCEPT !.cache = x] = Ps(x, o, h, b, hd, bd)
  BY <1>3
<1>. QED
  BY <1>4, <1>7, <1>8, <1>9, <1>10, <1>11 DEF e, f, t, c, o, h, b, hd, bd

LEMMA FillType ==
    ASSUME NEW p, ParserShape(p), Filling(p), NEW data \in Seq(Units)
    PROVE  LET u == unpackBodyData(p, data) IN
           IsParser(u.parser) /\ u.ret \in 0..Len(data) /\ u.out \in Seq(Messages)
<1>. DEFINE u == unpackBodyData(p, data)
            body == p.body \o Cut(data, 0, u.ret)
<1>1. /\ IsRecord(p)
      /\ p.cache \in Seq(Units) /\ p.head \in Seq(Units) /\ p.body \in Seq(Units)
      /\ p.hs \in Nat /\ p.bs \in Nat /\ Len(p.head) <= p.hs /\ Len(p.body) <= p.bs
      /\ Len(p.body) \in Nat /\ Len(data) \in Nat /\ Len(p.cache) \in Nat
  BY LenProperties DEF ParserShape
<1>2. Takes(p, data, u)
  BY <1>1, BodyIs
<1>. HIDE DEF u
<1>3. u.ret \in 0..Len(data) /\ u.ret \in Nat
  BY <1>1, <1>2 DEF Takes
<1>4. Cut(data, 0, u.ret) \in Seq(Units) /\ Len(Cut(data, 0, u.ret)) = u.ret - 0
  <2>1. 0 \in Nat /\ u.ret \in Nat /\ 0 <= u.ret /\ u.ret <= Len(data)
    BY <1>1, <1>3
  <2>. QED
    BY <2>1, CutIs
<1>5. body \in Seq(Units) /\ Len(body) = Len(p.body) + u.ret
  <2>. DEFINE x == Cut(data, 0, u.ret)
  <2>1. x \in Seq(Units) /\ p.body \in Seq(Units)
    BY <1>1, <1>4
  <2>2. Len(x) = u.ret
    BY <1>3, <1>4
  <2>. HIDE DEF x
  <2>3. p.body \o x \in Seq(Units) /\ Len(p.body \o x) = Len(p.body) + Len(x)
    BY <2>1, Glue
  <2>. QED
    BY <2>2, <2>3 DEF x
<1>. HIDE DEF body
<1>6. <<>> \in Seq(Units) /\ Len(<<>>) = 0 /\ <<>> \in Seq(Messages)
  BY EmptySeq
<1>7. CASE u.parser = Reset(p) /\ u.out = <<[head |-> p.head, body |-> body]>>
  <2>1. u.parser = Ps(p.cache, FALSE, 0, 0, <<>>, <<>>)
    BY <1>1, <1>7, PsSteps
  <2>2. ParserShape(u.parser) /\ u.parser.on = FALSE /\ u.parser.cache = p.cache
    <3>. DEFINE f == FALSE
                q == u.parser
                c == p.cache
    <3>1. q = Ps(c, f, 0, 0, <<>>, <<>>) /\ c \in Seq(Units) /\ 0 \in Nat
      BY <1>1, <2>1
    <3>. HIDE DEF f, q, c
    <3>2. ParserShape(q) /\ q.cache = c /\ q.on = f
      BY <3>1, EmptyShape
    <3>. QED
      BY <3>2 DEF f, q, c
  <2>3. Len(p.cache) < 2 \/ Stuck(p.cache)
    BY <1>6 DEF Filling
  <2>4. IsParser(u.parser)
    BY <2>2, <2>3 DEF IsParser, Idle
  <2>5. [head |-> p.head, body |-> body] \in Messages
    BY <1>1, <1>5 DEF Messages
  <2>. DEFINE m == [head |-> p.head, body |-> body]
  <2>6. u.out = <<m>> /\ m \in Messages
    BY <1>7, <2>5
  <2>. HIDE DEF m
  <2>7. u.out \in Seq(Messages)
    BY <2>6
  <2>. QED
    BY <1>3, <2>4, <2>7 DEF u
<1>8. CASE /\ Len(p.body) + u.ret < p.bs /\ u.parser = [p EXCEPT !.body = body] /\ u.out = <<>>
  <2>1. u.parser = Ps(p.cache, p.on, p.hs, p.bs, p.head, body)
    BY <1>1, <1>8, PsSteps
  <2>2. Len(body) <= p.bs
    BY <1>1, <1>3, <1>5, <1>8
  <2>3. /\ ParserShape(u.parser) /\ u.parser.on = p.on /\ u.parser.cache = p.cache
        /\ u.parser.hs = p.hs /\ u.parser.head = p.head
    BY <1>1, <1>5, <2>1, <2>2, ShapeIs
  <2>4. IsParser(u.parser)
    BY <2>3 DEF IsParser, Filling
  <2>. QED
    BY <1>3, <1>6, <1>8, <2>4 DEF u
<1>. QED
  BY <1>2, <1>7, <1>8 DEF Takes, body

\* StoreHead, and unpackProtocol, by the members of the parser they leave
Stores(p, prev, g, u) ==
    /\ Len(p.cache) < 2 + p.hs => u.parser = p /\ u.end = "short"
    /\ ~(Len(p.cache) < 2 + p.hs) =>
          /\ u.parser = Ps(<<>>, p.on, p.hs, p.bs, Cut(p.cache, 2, 2 + p.hs), p.body)
          /\ u.ret = 2 + p.hs - (prev - g) /\ u.end = "no"

Proceeds(p, all, g, cache, u) ==
    /\ HeadParsed(p) => u.parser = p /\ u.ret = 0 /\ u.end = "no"
    /\ p.on = TRUE /\ ~HeadParsed(p) =>
          u = StoreHead(Ps(all, p.on, p.hs, p.bs, p.head, p.body), Len(p.cache), 0)
    /\ p.on = FALSE /\ Len(cache) < 2 =>
          u.parser = Ps(cache, p.on, p.hs, p.bs, p.head, p.body) /\ u.end = "short"
    /\ p.on = FALSE /\ ~(Len(cache) < 2) /\ cache[2].f # "version" =>
          u.parser = Ps(cache, TRUE, 0, 0, <<>>, <<>>) /\ u.end = "error"
    /\ p.on = FALSE /\ ~(Len(cache) < 2) /\ cache[2].f = "version" =>
          u = StoreHead(Ps(cache, TRUE, cache[2].v[1], cache[2].v[2], <<>>, <<>>), Len(p.cache), g)

LEMMA StoreStep ==
    ASSUME NEW p, IsRecord(p), NEW prev, NEW g, p.hs \in Nat, Len(p.cache) \in Nat
    PROVE  Stores(p, prev, g, StoreHead(p, prev, g))
<1>. DEFINE u == StoreHead(p, prev, g)
            q == [p EXCEPT !.head = Cut(p.cache, 2, 2 + p.hs), !.cache = <<>>]
<1>1. /\ Len(p.cache) < 2 + p.hs => u = [parser |-> p, ret |-> 0, end |-> "short"]
      /\ ~(Len(p.cache) < 2 + p.hs) => u = [parser |-> q, ret |-> 2 + p.hs - (prev - g), end |-> "no"]
  <2>1. \A x, y \in Nat : x >= 2 + y <=> ~(x < 2 + y)
    OBVIOUS
  <2>2. HeadEnough(p) <=> ~(Len(p.cache) < 2 + p.hs)
    BY <2>1 DEF HeadEnough, InfoSize
  <2>3. q = [p EXCEPT !.head = SubSeq(p.cache, InfoSize + 1, InfoSize + p.hs), !.cache = <<>>]
    BY DEF Cut, InfoSize
  <2>. HIDE DEF q
  <2>. QED
    BY <2>2, <2>3 DEF StoreHead, BodyStart, InfoSize
<1>2. q = Ps(<<>>, p.on, p.hs, p.bs, Cut(p.cache, 2, 2 + p.hs), p.body)
  <2>1. \A x, y : [p EXCEPT !.head = x, !.cache = y] = Ps(y, p.on, p.hs, p.bs, x, p.body)
    BY PsSteps
  <2>. QED
    BY <2>1
<1>. HIDE DEF u, q
<1>3. Stores(p, prev, g, u)
  BY <1>1, <1>2 DEF Stores
<1>. QED
  BY <1>3 DEF u

LEMMA ProtocolStep ==
    ASSUME NEW p, IsRecord(p), p.on \in BOOLEAN, NEW data, NEW all, all = p.cache \o data,
           NEW g, g = GarbageIdx(all), NEW cache, cache = Cut(all, g, Len(all)), Len(cache) \in Nat
    PROVE  Proceeds(p, all, g, cache, unpackProtocol(p, data))
<1>. DEFINE u == unpackProtocol(p, data)
            b == [p EXCEPT !.cache = all]
            c == [p EXCEPT !.cache = cache]
            d == Begun(p, cache)
            f == [Begun(p, cache) EXCEPT !.hs = cache[2].v[1], !.bs = cache[2].v[2]]
<1>1. cache = SubSeq(all, g + 1, Len(all))
  BY DEF Cut
<1>2. /\ HeadParsed(p) => u = [parser |-> p, ret |-> 0, end |-> "no"]
      /\ p.on = TRUE /\ ~HeadParsed(p) => u = StoreHead(b, Len(p.cache), 0)
      /\ p.on = FALSE /\ Len(cache) < 2 => u = [parser |-> c, ret |-> 0, end |-> "short"]
      /\ p.on = FALSE /\ ~(Len(cache) < 2) /\ cache[2].f # "version" =>
            u = [parser |-> d, ret |-> 0, end |-> "error"]
      /\ p.on = FALSE /\ ~(Len(cache) < 2) /\ cache[2].f = "version" =>
            u = StoreHead(f, Len(p.cache), g)
  <2>. DEFINE A == [parser |-> p, ret |-> 0, end |-> "no"]
              B == StoreHead(b, Len(p.cache), 0)
              C == [parser |-> c, ret |-> 0, end |-> "short"]
              D == [parser |-> d, ret |-> 0, end |-> "error"]
              F == StoreHead(f, Len(p.cache), g)
              small == Len(cache) < 2
              parsed == HeadParsed(p)
              on == p.on
              ver == cache[2].f = "version"
  <2>1. u = CASE HeadParsed(p) -> A
            [] p.on /\ ~HeadParsed(p) -> B
            [] ~p.on /\ Len(cache) < 2 -> C
            [] ~p.on /\ Len(cache) >= 2 /\ cache[2].f # "version" -> D
            [] OTHER -> F
    BY <1>1 DEF unpackProtocol, InfoSize
  <2>2. Len(cache) >= 2 <=> ~(Len(cache) < 2)
    <3>1. \A n \in Nat : n >= 2 <=> ~(n < 2)
      OBVIOUS
    <3>. QED
      BY <3>1
  <2>3. (parsed => on) /\ on \in BOOLEAN
    BY DEF HeadParsed
  <2>. HIDE DEF A, B, C, D, F
  <2>4. u = CASE parsed -> A [] on /\ ~parsed -> B [] ~on /\ small -> C
              [] ~on /\ ~small /\ ~ver -> D [] OTHER -> F
    BY <2>1, <2>2
  <2>. HIDE DEF u, small, parsed, on, ver
  <2>5. /\ parsed => u = A
        /\ on = TRUE /\ ~parsed => u = B
        /\ on = FALSE /\ small => u = C
        /\ on = FALSE /\ ~small /\ ~ver => u = D
        /\ on = FALSE /\ ~small /\ ver => u = F
    BY <2>3, <2>4
  <2>. QED
    BY <2>5 DEF A, B, C, D, F, small, parsed, on, ver, u
<1>3. b = Ps(all, p.on, p.hs, p.bs, p.head, p.body) /\ c = Ps(cache, p.on, p.hs, p.bs, p.head, p.body)
  <2>1. \A x : [p EXCEPT !.cache = x] = Ps(x, p.on, p.hs, p.bs, p.head, p.body)
    BY PsSteps
  <2>. QED
    BY <2>1
<1>4. d = Ps(cache, TRUE, 0, 0, <<>>, <<>>)
  <2>1. \A x : Begun(p, x) = Ps(x, TRUE, 0, 0, <<>>, <<>>)
    BY PsSteps
  <2>. QED
    BY <2>1
<1>5. f = Ps(cache, TRUE, cache[2].v[1], cache[2].v[2], <<>>, <<>>)
  <2>1. \A x, y, z : [Begun(p, x) EXCEPT !.hs = y, !.bs = z] = Ps(x, TRUE, y, z, <<>>, <<>>)
    BY PsSteps
  <2>. DEFINE y == cache[2].v[1]
              z == cache[2].v[2]
  <2>. HIDE DEF y, z
  <2>2. [Begun(p, cache) EXCEPT !.hs = y, !.bs = z] = Ps(cache, TRUE, y, z, <<>>, <<>>)
    BY <2>1, Zenon
  <2>. QED
    BY <2>2 DEF y, z
<1>. HIDE DEF u, b, c, d, f
<1>6. HeadParsed(p) => u.parser = p /\ u.ret = 0 /\ u.end = "no"
  BY <1>2
<1>7. p.on = FALSE /\ Len(cache) < 2 => u.parser = c /\ u.end = "short"
  BY <1>2
<1>8. p.on = FALSE /\ ~(Len(cache) < 2) /\ cache[2].f # "version" => u.parser = d /\ u.end = "error"
  BY <1>2
<1>9. Proceeds(p, all, g, cache, u)
  BY <1>2, <1>3, <1>4, <1>5, <1>6, <1>7, <1>8 DEF Proceeds
<1>. QED
  BY <1>9 DEF u

LEMMA StoreType ==
    ASSUME NEW p, ParserShape(p), p.on = TRUE, p.head = <<>>, 2 <= Len(p.cache), NEW prev, NEW g
    PROVE  LET u == StoreHead(p, prev, g) IN
           \/ u.end = "short" /\ IsParser(u.parser)
           \/ /\ u.end = "no" /\ ParserShape(u.parser) /\ Filling(u.parser)
              /\ ~(Len(p.cache) < 2 + p.hs) /\ u.ret = 2 + p.hs - (prev - g)
<1>. DEFINE u == StoreHead(p, prev, g)
            hs == p.hs
            c == p.cache
            hd == Cut(c, 2, 2 + hs)
<1>1. /\ IsRecord(p) /\ c \in Seq(Units) /\ p.head \in Seq(Units) /\ p.body \in Seq(Units)
      /\ hs \in Nat /\ p.bs \in Nat /\ Len(p.body) <= p.bs /\ Len(c) \in Nat
  BY LenProperties DEF ParserShape
<1>2. Stores(p, prev, g, u)
  BY <1>1, StoreStep
<1>. HIDE DEF u
<1>4. CASE Len(c) < 2 + hs
  <2>1. u.parser = p /\ u.end = "short"
    BY <1>2, <1>4 DEF Stores
  <2>2. Waiting(p)
    BY <1>4 DEF Waiting
  <2>. QED
    BY <2>1, <2>2 DEF IsParser, u
<1>5. CASE ~(Len(c) < 2 + hs)
  <2>1. u.parser = Ps(<<>>, p.on, hs, p.bs, hd, p.body) /\ u.end = "no" /\ u.ret = 2 + hs - (prev - g)
    BY <1>2, <1>5 DEF Stores
  <2>2. hd \in Seq(Units) /\ Len(hd) = hs
    <3>1. 2 \in Nat /\ 2 + hs \in Nat /\ 2 <= 2 + hs /\ 2 + hs <= Len(c) /\ (2 + hs) - 2 = hs
      BY <1>1, <1>5
    <3>0. c \in Seq(Units)
      BY <1>1
    <3>. HIDE DEF hs, c
    <3>. DEFINE b == 2 + hs
    <3>3. hd = Cut(c, 2, b) /\ b \in Nat /\ 2 \in Nat /\ 2 <= b /\ b <= Len(c)
      BY <3>1
    <3>. HIDE DEF b
    <3>4. Cut(c, 2, b) \in Seq(Units) /\ Len(Cut(c, 2, b)) = b - 2
      BY <3>0, <3>3, CutIs
    <3>2. hd \in Seq(Units) /\ Len(hd) = (2 + hs) - 2
      BY <3>3, <3>4 DEF b
    <3>. QED
      BY <3>1, <3>2
  <2>. DEFINE e == <<>>
              q == u.parser
  <2>3. e \in Seq(Units)
    BY EmptySeq
  <2>4. Len(hd) <= hs
    BY <1>1, <2>2
  <2>5. q = Ps(e, p.on, hs, p.bs, hd, p.body)
    BY <2>1
  <2>. HIDE DEF e, q, hd, hs
  <2>6. ParserShape(q) /\ q.cache = e /\ q.on = p.on /\ q.hs = hs /\ q.head = hd
    BY <1>1, <2>2, <2>3, <2>4, <2>5, ShapeIs
  <2>7. Filling(q)
    BY <2>2, <2>6 DEF Filling, e
  <2>. QED
    BY <1>5, <2>1, <2>6, <2>7 DEF u, q, hs
<1>. QED
  BY <1>4, <1>5

\* What unpackProtocol leaves: a parser that needs more data, or one whose head
\* is complete and the place in the data where the body goes on.
LEMMA ProtocolType ==
    ASSUME NEW p, IsParser(p), NEW data \in Seq(Units)
    PROVE  LET u == unpackProtocol(p, data) IN
           \/ u.end # "no" /\ IsParser(u.parser)
           \/ u.end = "no" /\ ParserShape(u.parser) /\ Filling(u.parser) /\ u.ret \in 0..Len(data)
<1>. DEFINE u == unpackProtocol(p, data)
            n == Len(p.cache)
            all == p.cache \o data
            g == GarbageIdx(all)
            cache == Cut(all, g, Len(all))
<1>1. /\ ParserShape(p) /\ IsRecord(p) /\ p.cache \in Seq(Units) /\ p.hs \in Nat /\ p.bs \in Nat
      /\ p.head \in Seq(Units) /\ p.body \in Seq(Units) /\ Len(p.head) <= p.hs /\ Len(p.body) <= p.bs
      /\ n \in Nat /\ Len(data) \in Nat
  BY LenProperties DEF IsParser, ParserShape
<1>2. /\ all \in Seq(Units) /\ Len(all) = n + Len(data) /\ Len(all) \in Nat
      /\ \A k \in 1..n : all[k] = p.cache[k]
  <2>1. p.cache \in Seq(Units)
    BY <1>1
  <2>2. all \in Seq(Units) /\ Len(all) = n + Len(data) /\ \A k \in 1..n : all[k] = p.cache[k]
    BY <2>1, Glue
  <2>. QED
    BY <2>2, LenProperties
<1>. HIDE DEF all
<1>3. Skips(all, g)
  BY <1>2, GarbageIs
<1>. HIDE DEF g
<1>4. g \in Nat /\ g <= Len(all)
  BY <1>3 DEF Skips
<1>5. /\ cache \in Seq(Units) /\ Len(cache) = Len(all) - g /\ Len(cache) \in Nat
      /\ \A k \in 1..(Len(all) - g) : cache[k] = all[g + k]
  <2>1. /\ cache \in Seq(Units) /\ Len(cache) = Len(all) - g
        /\ \A k \in 1..(Len(all) - g) : cache[k] = all[g + k]
    <3>1. all \in Seq(Units) /\ Len(all) \in Nat /\ Len(all) <= Len(all)
      BY <1>2
    <3>. QED
      BY <1>4, <3>1, CutIs
  <2>. QED
    BY <1>2, <1>4, <2>1
<1>6. cache = SubSeq(all, g + 1, Len(all)) /\ all = p.cache \o data /\ g = GarbageIdx(all)
  BY DEF Cut, all, g
<1>7. p.on = TRUE \/ p.on = FALSE
  BY DEF IsParser, Idle, Waiting, Filling
<1>8. Proceeds(p, all, g, cache, u)
  <2>1. p.on \in BOOLEAN
    BY <1>7
  <2>2. cache = Cut(all, g, Len(all))
    OBVIOUS
  <2>. HIDE DEF cache
  <2>. QED
    BY <1>1, <1>5, <1>6, <2>1, <2>2, ProtocolStep
<1>. HIDE DEF u, cache
<1>9. CASE Filling(p)
  <2>1. HeadParsed(p)
    BY <1>9 DEF Filling, HeadParsed
  <2>2. u.parser = p /\ u.ret = 0 /\ u.end = "no"
    BY <1>8, <2>1 DEF Proceeds
  <2>. QED
    BY <1>1, <1>9, <2>2 DEF u
<1>10. CASE Waiting(p)
  <2>1. p.on = TRUE /\ p.head = <<>> /\ 2 <= n /\ n < 2 + p.hs
    BY <1>10 DEF Waiting
  <2>2. ~HeadParsed(p)
    <3>1. Len(p.head) = 0
      BY <2>1, EmptySeq
    <3>2. p.hs # 0
      BY <1>1, <2>1
    <3>. QED
      BY <3>1, <3>2 DEF HeadParsed
  <2>. DEFINE q == Ps(all, p.on, p.hs, p.bs, p.head, p.body)
  <2>3. u = StoreHead(q, n, 0)
    BY <1>8, <2>1, <2>2 DEF Proceeds
  <2>4. q = Ps(all, p.on, p.hs, p.bs, p.head, p.body)
    OBVIOUS
  <2>. HIDE DEF q
  <2>5. ParserShape(q) /\ q.cache = all /\ q.on = p.on /\ q.hs = p.hs /\ q.head = p.head
    BY <1>1, <1>2, <2>4, ShapeIs
  <2>6. 2 <= Len(q.cache) /\ q.on = TRUE /\ q.head = <<>>
    BY <1>1, <1>2, <2>1, <2>5
  <2>7. \/ u.end = "short" /\ IsParser(u.parser)
        \/ /\ u.end = "no" /\ ParserShape(u.parser) /\ Filling(u.parser)
           /\ ~(Len(q.cache) < 2 + q.hs) /\ u.ret = 2 + q.hs - (n - 0)
    BY <2>3, <2>5, <2>6, StoreType
  <2>8. ~(Len(q.cache) < 2 + q.hs) => 2 + q.hs - (n - 0) \in 0..Len(data)
    BY <1>1, <1>2, <2>1, <2>5
  <2>. QED
    BY <2>7, <2>8 DEF u
<1>11. CASE Idle(p) /\ Len(cache) < 2
  <2>1. /\ u.parser = Ps(cache, p.on, p.hs, p.bs, p.head, p.body)
        /\ u.end = "short" /\ p.on = FALSE
    BY <1>8, <1>11 DEF Idle, Proceeds
  <2>. DEFINE q == u.parser
  <2>2. q = Ps(cache, p.on, p.hs, p.bs, p.head, p.body)
    BY <2>1
  <2>. HIDE DEF q
  <2>3. ParserShape(q) /\ q.cache = cache /\ q.on = p.on
    BY <1>1, <1>5, <2>2, ShapeIs
  <2>4. Idle(q)
    BY <1>11, <2>1, <2>3 DEF Idle
  <2>. QED
    BY <2>1, <2>3, <2>4 DEF IsParser, u, q
<1>12. ~(Len(cache) < 2) => cache[1].f = "magic" /\ 2 <= Len(cache) /\ cache[1] = all[g + 1] /\ cache[2] = all[g + 2]
  <2>. SUFFICES ASSUME ~(Len(cache) < 2) PROVE cache[1].f = "magic" /\ 2 <= Len(cache) /\ cache[1] = all[g + 1] /\ cache[2] = all[g + 2]
    OBVIOUS
  <2>1. 1 \in 1..(Len(all) - g) /\ 2 \in 1..(Len(all) - g) /\ ~(Len(all) - g < 2) /\ 2 <= Len(cache)
    BY <1>2, <1>4, <1>5
  <2>2. all[g + 1].f = "magic"
    BY <1>3, <2>1 DEF Skips
  <2>. QED
    BY <1>5, <2>1, <2>2
<1>13. CASE Idle(p) /\ ~(Len(cache) < 2) /\ cache[2].f # "version"
  <2>1. u.parser = Ps(cache, TRUE, 0, 0, <<>>, <<>>) /\ u.end = "error"
    BY <1>8, <1>13 DEF Idle, Proceeds
  <2>. DEFINE q == u.parser
              on == TRUE
  <2>2. q = Ps(cache, on, 0, 0, <<>>, <<>>) /\ 0 \in Nat
    BY <2>1
  <2>. HIDE DEF q, on
  <2>3. ParserShape(q) /\ q.cache = cache /\ q.on = on /\ q.hs = 0 /\ q.head = <<>>
    BY <1>5, <2>2, EmptyShape
  <2>4. Stuck(cache)
    BY <1>5, <1>12, <1>13 DEF Stuck
  <2>5. Filling(q)
    BY <2>3, <2>4, EmptySeq DEF Filling, on
  <2>. QED
    BY <2>1, <2>3, <2>5 DEF IsParser, u, q
<1>14. CASE Idle(p) /\ ~(Len(cache) < 2) /\ cache[2].f = "version"
  <2>. DEFINE hs == cache[2].v[1]
              bs == cache[2].v[2]
              on == TRUE
              q == Ps(cache, on, hs, bs, <<>>, <<>>)
  <2>1. hs \in Nat /\ bs \in Nat
    <3>1. 2 \in 1..Len(cache)
      BY <1>5, <1>14
    <3>2. cache[2] \in Units
      BY <1>5, <3>1, ElementOfSeq
    <3>3. cache[2].v \in Seq(Nat) /\ Len(cache[2].v) = 2
      BY <1>14, <3>2 DEF Units
    <3>4. 1 \in 1..Len(cache[2].v) /\ 2 \in 1..Len(cache[2].v)
      BY <3>3
    <3>. QED
      BY <3>3, <3>4, ElementOfSeq
  <2>2. u = StoreHead(q, n, g)
    BY <1>8, <1>14 DEF Idle, Proceeds
  <2>3. q = Ps(cache, on, hs, bs, <<>>, <<>>)
    OBVIOUS
  <2>. HIDE DEF q, on, hs, bs
  <2>4. ParserShape(q) /\ q.cache = cache /\ q.on = on /\ q.hs = hs /\ q.head = <<>>
    BY <1>5, <2>1, <2>3, EmptyShape
  <2>5. q.on = TRUE /\ 2 <= Len(q.cache)
    BY <1>12, <1>14, <2>4 DEF on
  <2>6. \/ u.end = "short" /\ IsParser(u.parser)
        \/ /\ u.end = "no" /\ ParserShape(u.parser) /\ Filling(u.parser)
           /\ ~(Len(q.cache) < 2 + q.hs) /\ u.ret = 2 + q.hs - (n - g)
    BY <2>2, <2>4, <2>5, StoreType
  <2>7. n < 2
    <3>1. SUFFICES ASSUME Stuck(p.cache), n >= 2 PROVE FALSE
      BY <1>14 DEF Idle, Stuck
    <3>2. p.cache[1].f = "magic" /\ p.cache[2].f # "version"
      BY <3>1 DEF Stuck
    <3>3. all[1] = p.cache[1] /\ all[2] = p.cache[2]
      BY <1>1, <1>2, <3>1
    <3>4. g = 0
      <4>1. Len(all) >= 2 /\ all[1].f = "magic"
        BY <1>1, <1>2, <3>1, <3>2, <3>3
      <4>. QED
        BY <1>2, <1>3, <4>1, SkipsOne
    <3>5. cache[2] = all[2]
      BY <1>12, <1>14, <3>4
    <3>. QED
      BY <1>14, <3>2, <3>3, <3>5
  <2>8. ~(Len(q.cache) < 2 + q.hs) => 2 + q.hs - (n - g) \in 0..Len(data)
    <3>. DEFINE k == Len(q.cache)
                l == Len(data)
                x == q.hs
    <3>1. k \in Nat /\ l \in Nat /\ x \in Nat
      BY <1>1, <1>5, <2>1, <2>4
    <3>2. k = n + l - g /\ g \in Nat /\ n \in Nat
      BY <1>1, <1>2, <1>4, <1>5, <2>4
    <3>. HIDE DEF k, l, x
    <3>3. ~(k < 2 + x) => 2 + x - (n - g) \in 0..l
      BY <2>7, <3>1, <3>2
    <3>. QED
      BY <3>3 DEF k, l, x
  <2>. QED
    BY <2>6, <2>8 DEF u
<1>. QED
  BY <1>9, <1>10, <1>11, <1>13, <1>14 DEF IsParser

\* A parser stays one, whatever data it gets.
LEMMA ParserType ==
    ASSUME NEW p, IsParser(p), NEW data \in Seq(Units)
    PROVE  LET r == unpack(p, data) IN
           IsParser(r.parser) /\ r.left \in Seq(Units) /\ r.out \in Seq(Messages)
<1>. DEFINE first == unpackProtocol(p, data)
            rest == Cut(data, first.ret, Len(data))
            second == unpackBodyData(first.parser, rest)
            r == unpack(p, data)
<1>1. \/ first.end # "no" /\ IsParser(first.parser)
      \/ /\ first.end = "no" /\ ParserShape(first.parser) /\ Filling(first.parser)
         /\ first.ret \in 0..Len(data)
  BY ProtocolType
<1>2. /\ first.end # "no" => r = [parser |-> first.parser, left |-> <<>>, out |-> <<>>]
      /\ first.end = "no" => r = [parser |-> second.parser, out |-> second.out,
                                  left |-> Cut(rest, second.ret, Len(rest))]
  BY UnpackIs
<1>. HIDE DEF first, r
<1>3. CASE first.end # "no"
  <2>1. IsParser(r.parser) /\ r.left = <<>> /\ r.out = <<>>
    BY <1>1, <1>2, <1>3
  <2>. QED
    BY <2>1, EmptySeq DEF r
<1>4. CASE first.end = "no"
  <2>1. ParserShape(first.parser) /\ Filling(first.parser) /\ first.ret \in 0..Len(data)
    BY <1>1, <1>4
  <2>2. rest \in Seq(Units)
    <3>1. Len(data) \in Nat
      BY LenProperties
    <3>2. first.ret \in Nat /\ first.ret <= Len(data) /\ Len(data) <= Len(data)
      BY <2>1, <3>1
    <3>. QED
      BY <3>1, <3>2, CutIs
  <2>. HIDE DEF rest
  <2>3. IsParser(second.parser) /\ second.ret \in 0..Len(rest) /\ second.out \in Seq(Messages)
    BY <2>1, <2>2, FillType
  <2>. HIDE DEF second
  <2>4. Cut(rest, second.ret, Len(rest)) \in Seq(Units)
    <3>1. Len(rest) \in Nat
      BY <2>2, LenProperties
    <3>2. second.ret \in Nat /\ second.ret <= Len(rest) /\ Len(rest) <= Len(rest)
      BY <2>3, <3>1
    <3>. QED
      BY <2>2, <3>1, <3>2, CutIs
  <2>5. r.parser = second.parser /\ r.out = second.out /\ r.left = Cut(rest, second.ret, Len(rest))
    BY <1>2, <1>4 DEF Stores
  <2>. QED
    BY <2>3, <2>4, <2>5 DEF r
<1>. QED
  BY <1>3, <1>4

-----------------------------------------------------------------------------
(* The parser of a session that gets its own data: where it stands.        *)

\* Up to d there are only whole frames of this version, and junk
Clean(str, E, d) ==
    \A k \in 1..Len(str) : str[k].kind # "junk" /\ E[k - 1] < d => str[k].kind = "frame" /\ E[k] <= d

\* From d to d2 no frame begins
Passed(str, E, d, d2) ==
    d <= d2 /\ \A k \in 1..Len(str) : str[k].kind # "junk" /\ d <= E[k - 1] => d2 <= E[k - 1]

\* The message that a frame carries
MessageOf(s, str, j) ==
    [head |-> Bytes("head", <<s, j>>, str[j].hs), body |-> Bytes("body", <<s, j>>, str[j].bs)]

\* It has got the data up to c, and d is where the frame begins that it is reading
Resting(W, p, c, d) == c - d <= 1 /\ p = Ps(Cut(W, d, c), FALSE, 0, 0, <<>>, <<>>)

Halted(str, W, p, c, d, j) ==
    str[j].kind = "old" /\ p.on \in BOOLEAN /\ p = Ps(Cut(W, d, c), p.on, 0, 0, <<>>, <<>>)

InHead(str, W, p, c, d, j) ==
    /\ str[j].kind = "frame" /\ c < d + 2 + str[j].hs
    /\ p = Ps(Cut(W, d, c), TRUE, str[j].hs, str[j].bs, <<>>, <<>>)

InBody(s, str, W, E, p, c, d, j) ==
    /\ str[j].kind = "frame" /\ d + 2 + str[j].hs <= c /\ c < E[j]
    /\ p = Ps(<<>>, TRUE, str[j].hs, str[j].bs, MessageOf(s, str, j).head,
              Cut(W, d + 2 + str[j].hs, c))

At(s, str, W, E, p, c, d) ==
    /\ c \in Nat /\ d \in Nat /\ d <= c /\ c <= Len(W) /\ Clean(str, E, d)
    /\ \/ Resting(W, p, c, d)
       \/ \E j \in 1..Len(str) :
             /\ d = E[j - 1] /\ d + 2 <= c
             /\ \/ Halted(str, W, p, c, d, j)
                \/ InHead(str, W, p, c, d, j)
                \/ InBody(s, str, W, E, p, c, d, j)

\* What a round of unpack leaves: r.parser stands at c2, the data from there to e
\* is left, and the listener got nothing, the message of a frame that begins
\* behind d, or a call that nobody sent
Rounds(s, str, W, E, c, d, e, r) ==
    \E c2 \in c..e : \E d2 \in Nat :
        /\ At(s, str, W, E, r.parser, c2, d2) /\ r.left = Cut(W, c2, e)
        /\ \/ r.out = <<>> /\ Passed(str, E, d, d2)
           \/ /\ \E j \in 1..Len(str) : str[j].kind = "old"
              /\ r.out = <<[head |-> <<>>, body |-> <<>>]>> /\ d2 = d
           \/ \E j \in 1..Len(str) :
                 /\ str[j].kind = "frame" /\ r.out = <<MessageOf(s, str, j)>> /\ d2 = E[j]
                 /\ Passed(str, E, d, E[j - 1]) /\ Clean(str, E, E[j - 1])

World(s, str, W, E) == s \in Nat /\ str \in Seq(Message) /\ Laid(s, str, W, E)

LEMMA WorldIs ==
    ASSUME NEW s, NEW str, NEW W, NEW E, World(s, str, W, E)
    PROVE  /\ s \in Nat /\ str \in Seq(Message) /\ Laid(s, str, W, E)
           /\ W \in Seq(Units) /\ Len(W) \in Nat /\ Len(str) \in Nat
           /\ \A k \in 0..Len(str) : E[k] \in Nat
           /\ \A i \in 0..Len(str) : \A j \in i..Len(str) : E[i] <= E[j]
<1>1. s \in Nat /\ str \in Seq(Message) /\ Laid(s, str, W, E)
  BY DEF World
<1>2. W \in Seq(Units) /\ E \in [0..Len(str) -> Nat]
  BY <1>1 DEF Laid
<1>3. \A i \in 0..Len(str) : \A j \in i..Len(str) : E[i] <= E[j]
  BY <1>1, EdgesRise
<1>. QED
  BY <1>1, <1>2, <1>3, LenProperties

LEMMA CleanPassed ==
    ASSUME NEW s, NEW str, NEW W, NEW E, World(s, str, W, E), NEW d \in Nat, NEW d2 \in Nat,
           Clean(str, E, d), Passed(str, E, d, d2)
    PROVE  Clean(str, E, d2)
<1>. SUFFICES ASSUME NEW k \in 1..Len(str), str[k].kind # "junk", E[k - 1] < d2
              PROVE  str[k].kind = "frame" /\ E[k] <= d2
  BY DEF Clean
<1>1. Len(str) \in Nat /\ \A i \in 0..Len(str) : E[i] \in Nat
  BY WorldIs
<1>2. E[k - 1] \in Nat /\ E[k] \in Nat
  <2>1. k \in 0..Len(str) /\ k - 1 \in 0..Len(str)
    BY <1>1
  <2>. QED
    BY <1>1, <2>1
<1>3. d <= d2 /\ (d <= E[k - 1] => d2 <= E[k - 1])
  BY DEF Passed
<1>4. E[k - 1] < d
  BY <1>2, <1>3
<1>5. str[k].kind = "frame" /\ E[k] <= d
  BY <1>4 DEF Clean
<1>. QED
  BY <1>2, <1>3, <1>5

\* Behind a frame it is clean if it was clean before it.
LEMMA CleanNext ==
    ASSUME NEW s, NEW str, NEW W, NEW E, World(s, str, W, E), NEW j \in 1..Len(str),
           str[j].kind = "frame", Clean(str, E, E[j - 1])
    PROVE  Clean(str, E, E[j]) /\ E[j] \in Nat /\ E[j - 1] \in Nat /\ E[j] <= Len(W)
<1>1. /\ Len(str) \in Nat /\ (\A i \in 0..Len(str) : E[i] \in Nat)
      /\ \A i \in 0..Len(str) : \A k \in i..Len(str) : E[i] <= E[k]
  BY WorldIs
<1>2. j \in 0..Len(str) /\ j - 1 \in 0..Len(str) /\ Len(str) \in j..Len(str) /\ Len(str) \in 0..Len(str)
  BY <1>1
<1>3. E[j] <= E[Len(str)] /\ E[Len(str)] = Len(W) /\ E[j] \in Nat /\ E[j - 1] \in Nat
  BY <1>1, <1>2 DEF World, Laid
<1>4. ASSUME NEW k \in 1..Len(str), str[k].kind # "junk", E[k - 1] < E[j]
      PROVE  str[k].kind = "frame" /\ E[k] <= E[j]
  <2>1. k \in 0..Len(str) /\ k - 1 \in 0..Len(str)
    BY <1>1
  <2>2. CASE k = j
    BY <1>3, <2>2
  <2>3. CASE k > j
    <3>1. k - 1 \in j..Len(str)
      BY <1>1, <2>3
    <3>2. E[j] <= E[k - 1] /\ E[k - 1] \in Nat
      BY <1>1, <1>2, <2>1, <3>1
    <3>. QED
      BY <1>3, <1>4, <3>2
  <2>4. CASE k < j
    <3>1. FrameIs(s, str, W, E, k)
      BY <1>4, FrameAt DEF World
    <3>2. E[k - 1] < E[k] /\ E[k] \in Nat /\ E[k - 1] \in Nat
      <4>. DEFINE a == E[k - 1]
                  b == E[k]
                  hs == str[k].hs
                  bs == str[k].bs
      <4>1. hs \in Nat /\ bs \in Nat /\ b = a + 2 + hs + bs /\ a \in Nat
        BY <3>1 DEF FrameIs, InfoSize
      <4>. HIDE DEF a, b, hs, bs
      <4>2. a < b /\ b \in Nat
        BY <4>1
      <4>. QED
        BY <4>1, <4>2 DEF a, b
    <3>3. j - 1 \in k..Len(str) /\ j \in k..Len(str)
      BY <1>1, <2>4
    <3>4. E[k] <= E[j - 1] /\ E[k] <= E[j]
      BY <1>1, <2>1, <3>3
    <3>5. E[k - 1] < E[j - 1]
      BY <1>3, <3>2, <3>4
    <3>. QED
      BY <1>4, <3>4, <3>5 DEF Clean
  <2>. QED
    BY <1>1, <2>2, <2>3, <2>4
<1>. QED
  BY <1>3, <1>4 DEF Clean

\* unpackBodyData on a parser p that holds the body from b to x, of a body from b
\* to z, and gets the data up to e
Fills(W, p, hs, bs, head, b, x, z, e, u) ==
    \/ /\ z <= e /\ u.parser = Ps(p.cache, FALSE, 0, 0, <<>>, <<>>)
       /\ u.out = <<[head |-> head, body |-> Cut(W, b, z)]>>
       /\ Cut(Cut(W, x, e), u.ret, e - x) = Cut(W, z, e)
    \/ /\ e < z /\ u.parser = Ps(p.cache, p.on, hs, bs, head, Cut(W, b, e))
       /\ u.out = <<>> /\ Cut(Cut(W, x, e), u.ret, e - x) = Cut(W, e, e)

LEMMA FillStep ==
    ASSUME NEW W \in Seq(Units), NEW b \in Nat, NEW x \in Nat, NEW z \in Nat, NEW e \in Nat,
           b <= x, x <= z, x <= e, e <= Len(W), NEW bs \in Nat, z = b + bs, NEW hs, NEW head,
           NEW nil, NEW yes, NEW body, body = Cut(W, b, x),
           NEW p, p = Ps(nil, yes, hs, bs, head, body)
    PROVE  Fills(W, p, hs, bs, head, b, x, z, e, unpackBodyData(p, Cut(W, x, e)))
<1>. DEFINE rest == Cut(W, x, e)
            u == unpackBodyData(p, rest)
            n == u.ret
<1>1. Len(W) \in Nat /\ x <= Len(W)
  <2>1. Len(W) \in Nat
    BY LenProperties
  <2>. QED
    BY <2>1
<1>2. body \in Seq(Units) /\ Len(body) = x - b
  BY <1>1, CutUnits
<1>3. rest \in Seq(Units) /\ Len(rest) = e - x
  BY <1>1, CutIs
<1>4. /\ p.cache = nil /\ p.on = yes /\ p.hs = hs /\ p.bs = bs /\ p.head = head /\ p.body = body
      /\ IsRecord(p)
  BY DEF Ps, IsRecord
<1>5. Takes(p, rest, u)
  <2>1. p.bs \in Nat /\ p.body \in Seq(Units)
    BY <1>2, <1>4
  <2>2. x - b <= bs
    OBVIOUS
  <2>3. Len(p.body) <= p.bs
    BY <1>2, <1>4, <2>2
  <2>. HIDE DEF rest
  <2>. QED
    BY <1>3, <2>1, <2>3, BodyIs
<1>. HIDE DEF u
<1>6. /\ n \in 0..(e - x)
      /\ \/ /\ Len(body) + n = bs /\ u.parser = Reset(p)
            /\ u.out = <<[head |-> head, body |-> body \o Cut(rest, 0, n)]>>
         \/ /\ Len(body) + n < bs /\ n = e - x
            /\ u.parser = [p EXCEPT !.body = body \o Cut(rest, 0, n)] /\ u.out = <<>>
  <2>. HIDE DEF rest
  <2>. QED
    BY <1>3, <1>4, <1>5 DEF Takes
<1>. HIDE DEF n
<1>7. n \in Nat /\ n <= e - x /\ x + n <= e /\ x + n \in Nat
  BY <1>6
<1>8. body \o Cut(rest, 0, n) = Cut(W, b, x + n)
  <2>1. Cut(rest, 0, n) = Cut(W, x + 0, x + n)
    <3>1. 0 \in Nat /\ 0 <= n
      BY <1>7
    <3>. QED
      BY <1>7, <3>1, CutCut
  <2>2. x + 0 = x
    OBVIOUS
  <2>3. Cut(W, b, x) \o Cut(W, x, x + n) = Cut(W, b, x + n)
    <3>. DEFINE y == x + n
    <3>1. y \in Nat /\ x <= y /\ y <= Len(W)
      BY <1>1, <1>7
    <3>. HIDE DEF y
    <3>2. Cut(W, b, x) \o Cut(W, x, y) = Cut(W, b, y)
      <4>1. Joins(W, b, x)
        BY JoinFrom
      <4>. QED
        BY <3>1, <4>1 DEF Joins
    <3>. QED
      BY <3>2 DEF y
  <2>. QED
    BY <2>1, <2>2, <2>3
<1>9. Cut(rest, n, e - x) = Cut(W, x + n, e)
  <2>. DEFINE l == e - x
  <2>1. l \in Nat /\ x + l = e /\ l <= e - x /\ n <= l
    BY <1>7
  <2>. HIDE DEF l
  <2>2. Cut(Cut(W, x, e), n, l) = Cut(W, x + n, x + l)
    BY <1>1, <1>7, <2>1, CutCut
  <2>. QED
    BY <2>1, <2>2 DEF l
<1>10. Reset(p) = Ps(p.cache, FALSE, 0, 0, <<>>, <<>>)
  BY <1>4, PsSteps
<1>11. \A y : [p EXCEPT !.body = y] = Ps(p.cache, p.on, hs, bs, head, y)
  <2>1. ASSUME NEW y PROVE [p EXCEPT !.body = y] = Ps(nil, yes, hs, bs, head, y)
    BY DEF Ps
  <2>. QED
    BY <1>4, <2>1
<1>12. (Len(body) + n = bs => x + n = z /\ z <= e) /\ (Len(body) + n < bs /\ n = e - x => x + n = e /\ e < z)
  BY <1>2, <1>7
<1>13. CASE Len(body) + n = bs /\ u.parser = Reset(p)
            /\ u.out = <<[head |-> head, body |-> body \o Cut(rest, 0, n)]>>
  <2>1. x + n = z /\ z <= e
    BY <1>12, <1>13
  <2>. QED
    BY <1>8, <1>9, <1>10, <1>13, <2>1 DEF Fills, n, u
<1>14. CASE Len(body) + n < bs /\ n = e - x
            /\ u.parser = [p EXCEPT !.body = body \o Cut(rest, 0, n)] /\ u.out = <<>>
  <2>1. x + n = e /\ e < z
    BY <1>12, <1>14
  <2>2. u.parser = Ps(p.cache, p.on, hs, bs, head, Cut(W, b, e))
    <3>. DEFINE y == body \o Cut(rest, 0, n)
    <3>1. u.parser = [p EXCEPT !.body = y]
      BY <1>14
    <3>2. y = Cut(W, b, e)
      BY <1>8, <2>1
    <3>. HIDE DEF y
    <3>3. [p EXCEPT !.body = y] = Ps(p.cache, p.on, hs, bs, head, y)
      BY <1>11
    <3>. QED
      BY <3>1, <3>2, <3>3
  <2>3. Cut(Cut(W, x, e), u.ret, e - x) = Cut(W, e, e)
    BY <1>9, <2>1 DEF n
  <2>. QED
    BY <1>14, <2>1, <2>2, <2>3 DEF Fills, u
<1>. QED
  BY <1>6, <1>13, <1>14

\* The places of a frame: its Info begins behind a, its body behind b, and it
\* ends with z
Places(s, str, W, j, a, hs, bs, b, z) ==
    /\ a \in Nat /\ b \in Nat /\ z \in Nat /\ hs \in Nat /\ bs \in Nat
    /\ b = a + 2 + hs /\ a + 2 <= b /\ z = b + bs /\ z <= Len(W)
    /\ W[a + 1].f = "magic" /\ W[a + 2].f = "version"
    /\ W[a + 2].v[1] = hs /\ W[a + 2].v[2] = bs
    /\ Cut(W, a + 2, b) = MessageOf(s, str, j).head
    /\ MessageOf(s, str, j) = [head |-> MessageOf(s, str, j).head, body |-> Cut(W, b, z)]

LEMMA FramePlaces ==
    ASSUME NEW s, NEW str, NEW W, NEW E, World(s, str, W, E), NEW j \in 1..Len(str),
           str[j].kind = "frame"
    PROVE  Places(s, str, W, j, E[j - 1], str[j].hs, str[j].bs, E[j - 1] + 2 + str[j].hs, E[j])
<1>. DEFINE a == E[j - 1]
            z == E[j]
            hs == str[j].hs
            bs == str[j].bs
            b == a + 2 + hs
<1>1. FrameIs(s, str, W, E, j)
  BY FrameAt DEF World
<1>2. /\ a \in Nat /\ hs \in Nat /\ bs \in Nat /\ z = a + 2 + hs + bs /\ z <= Len(W)
      /\ Cut(W, a + 2 + hs, z) = Bytes("body", <<s, j>>, bs)
      /\ Cut(W, a + 2, a + 2 + hs) = Bytes("head", <<s, j>>, hs)
      /\ W[a + 1].f = "magic" /\ W[a + 2].f = "version"
      /\ W[a + 2].v[1] = hs /\ W[a + 2].v[2] = bs
  BY <1>1 DEF FrameIs, InfoSize
<1>3. MessageOf(s, str, j) = [head |-> Bytes("head", <<s, j>>, hs), body |-> Bytes("body", <<s, j>>, bs)]
  BY DEF MessageOf
<1>4. MessageOf(s, str, j).head = Bytes("head", <<s, j>>, hs)
  BY <1>3
<1>. HIDE DEF a, z, hs, bs
<1>5. \A i, k, l \in Nat : i + 2 <= i + 2 + k /\ i + 2 + k \in Nat /\ (i + 2 + k) + l = i + 2 + k + l /\ i + 2 + k + l \in Nat
  OBVIOUS
<1>6. a + 2 <= b /\ b \in Nat /\ z = b + bs /\ z \in Nat
  BY <1>2, <1>5
<1>7. Places(s, str, W, j, a, hs, bs, b, z)
  BY <1>2, <1>3, <1>4, <1>6 DEF Places
<1>. QED
  BY <1>7 DEF a, z, hs, bs

\* A round that reads the body of frame j ends behind the frame, with its message
\* handed over, or with the data.
LEMMA FillRound ==
    ASSUME NEW s, NEW str, NEW W, NEW E, World(s, str, W, E), NEW j \in 1..Len(str),
           str[j].kind = "frame", Clean(str, E, E[j - 1]),
           NEW d \in Nat, Passed(str, E, d, E[j - 1]),
           NEW c \in Nat, NEW x \in Nat, NEW e \in Nat, c <= x, x <= e, e <= Len(W),
           NEW hs, hs = str[j].hs, NEW bs, bs = str[j].bs, NEW b, b = E[j - 1] + 2 + hs,
           b <= x, x <= E[j],
           NEW p, p.cache = <<>>, p.on = TRUE, NEW u,
           Fills(W, p, hs, bs, MessageOf(s, str, j).head, b, x, E[j], e, u),
           NEW r, r.parser = u.parser, r.out = u.out, r.left = Cut(Cut(W, x, e), u.ret, e - x)
    PROVE  Rounds(s, str, W, E, c, d, e, r)
<1>. DEFINE a == E[j - 1]
            z == E[j]
            head == MessageOf(s, str, j).head
<1>1. s \in Nat /\ str \in Seq(Message) /\ Laid(s, str, W, E) /\ W \in Seq(Units) /\ Len(W) \in Nat
  BY WorldIs
<1>2. /\ a \in Nat /\ b \in Nat /\ z \in Nat /\ a + 2 <= b /\ z <= Len(W)
      /\ MessageOf(s, str, j) = [head |-> head, body |-> Cut(W, b, z)]
  <2>1. Places(s, str, W, j, a, hs, bs, b, z)
    BY FramePlaces
  <2>. QED
    BY <2>1 DEF Places
<1>3. Clean(str, E, z) /\ Clean(str, E, a)
  BY CleanNext
<1>4. \/ /\ z <= e /\ r.parser = Ps(<<>>, FALSE, 0, 0, <<>>, <<>>)
         /\ r.out = <<[head |-> head, body |-> Cut(W, b, z)]>>
         /\ r.left = Cut(W, z, e)
      \/ /\ e < z /\ r.parser = Ps(<<>>, TRUE, hs, bs, head, Cut(W, b, e))
         /\ r.out = <<>> /\ r.left = Cut(W, e, e)
  BY DEF Fills
<1>5. b <= x /\ x <= z /\ a = E[j - 1] /\ z = E[j] /\ b = a + 2 + hs
  OBVIOUS
<1>6. Passed(str, E, d, a)
  OBVIOUS
<1>. HIDE DEF a, z, head
<1>7. CASE /\ z <= e /\ r.parser = Ps(<<>>, FALSE, 0, 0, <<>>, <<>>)
           /\ r.out = <<[head |-> head, body |-> Cut(W, b, z)]>>
           /\ r.left = Cut(W, z, e)
  <2>1. z \in c..e
    BY <1>2, <1>5, <1>7
  <2>2. r.out = <<MessageOf(s, str, j)>>
    BY <1>2, <1>7
  <2>3. z - z <= 1 /\ z <= z
    BY <1>2
  <2>4. Cut(W, z, z) = <<>>
    BY <1>1, <1>2, <2>3, CutEmpty
  <2>5. Resting(W, r.parser, z, z)
    BY <1>7, <2>3, <2>4 DEF Resting
  <2>6. At(s, str, W, E, r.parser, z, z)
    BY <1>2, <1>3, <2>3, <2>5 DEF At
  <2>7. /\ str[j].kind = "frame" /\ r.out = <<MessageOf(s, str, j)>> /\ z = E[j]
         /\ Passed(str, E, d, E[j - 1]) /\ Clean(str, E, E[j - 1])
    BY <1>5, <2>2
  <2>. QED
    BY <1>2, <1>7, <2>1, <2>6, <2>7 DEF Rounds
<1>8. CASE /\ e < z /\ r.parser = Ps(<<>>, TRUE, hs, bs, head, Cut(W, b, e))
           /\ r.out = <<>> /\ r.left = Cut(W, e, e)
  <2>1. e \in c..e /\ b <= e /\ a <= e /\ a + 2 <= e
    <3>1. a \in Nat /\ b \in Nat /\ a + 2 <= b
      BY <1>2
    <3>2. b <= e
      BY <3>1
    <3>3. e \in c..e
      OBVIOUS
    <3>4. a <= e /\ a + 2 <= e
      BY <3>1, <3>2
    <3>. QED
      BY <3>2, <3>3, <3>4
  <2>2. InBody(s, str, W, E, r.parser, e, a, j)
    BY <1>5, <1>8, <2>1 DEF InBody, head
  <2>3. At(s, str, W, E, r.parser, e, a)
    BY <1>2, <1>3, <1>5, <2>1, <2>2 DEF At
  <2>. QED
    BY <1>2, <1>6, <1>8, <2>1, <2>3 DEF Rounds
<1>. QED
  BY <1>4, <1>7, <1>8

\* What unpackBodyData leaves, as the end of a round of unpack
BodyTaken(p, rest, r) ==
    LET u == unpackBodyData(p, rest)
    IN  r.parser = u.parser /\ r.out = u.out /\ r.left = Cut(rest, u.ret, Len(rest))

InFrame(s, str, W, j, p, b, x) ==
    p = Ps(<<>>, TRUE, str[j].hs, str[j].bs, MessageOf(s, str, j).head, Cut(W, b, x))

LEMMA BodyRound ==
    ASSUME NEW s, NEW str, NEW W, NEW E, World(s, str, W, E), NEW j \in 1..Len(str),
           str[j].kind = "frame", Clean(str, E, E[j - 1]),
           NEW d \in Nat, Passed(str, E, d, E[j - 1]),
           NEW c \in Nat, NEW x \in Nat, NEW e \in Nat, c <= x, x <= e, e <= Len(W),
           NEW b, b = E[j - 1] + 2 + str[j].hs, b <= x, x <= E[j],
           NEW p, InFrame(s, str, W, j, p, b, x), NEW r, BodyTaken(p, Cut(W, x, e), r)
    PROVE  Rounds(s, str, W, E, c, d, e, r)
<1>. DEFINE a == E[j - 1]
            z == E[j]
            hs == str[j].hs
            bs == str[j].bs
            head == MessageOf(s, str, j).head
            nil == <<>>
            yes == TRUE
            body == Cut(W, b, x)
            rest == Cut(W, x, e)
            u == unpackBodyData(p, rest)
<1>1. W \in Seq(Units) /\ Len(W) \in Nat
  BY WorldIs
<1>2. b \in Nat /\ z \in Nat /\ bs \in Nat /\ z = b + bs
  <2>1. Places(s, str, W, j, a, hs, bs, b, z)
    BY FramePlaces
  <2>. HIDE DEF a, z, hs, bs
  <2>. QED
    BY <2>1 DEF Places
<1>3. p = Ps(nil, yes, hs, bs, head, body)
  BY DEF InFrame
<1>4. p.cache = <<>> /\ p.on = TRUE
  BY DEF InFrame, Ps
<1>5. Fills(W, p, hs, bs, head, b, x, z, e, unpackBodyData(p, Cut(W, x, e)))
  <2>1. body = Cut(W, b, x) /\ x <= z
    OBVIOUS
  <2>. HIDE DEF nil, yes, body, hs, bs, head, z
  <2>. QED
    BY <1>1, <1>2, <1>3, <2>1, FillStep
<1>6. Len(rest) = e - x
  <2>1. x <= Len(W)
    BY <1>1
  <2>2. ASSUME NEW w \in Seq(Units), NEW i \in Nat, NEW k \in Nat, i <= k, k <= Len(w)
        PROVE  Len(Cut(w, i, k)) = k - i
    BY <2>2, CutIs
  <2>. QED
    BY <1>1, <2>1, <2>2
<1>7. r.parser = u.parser /\ r.out = u.out /\ r.left = Cut(Cut(W, x, e), u.ret, e - x)
  BY <1>6 DEF BodyTaken
<1>8. Fills(W, p, hs, bs, head, b, x, z, e, u)
  BY <1>5
<1>9. hs = str[j].hs /\ bs = str[j].bs /\ b = E[j - 1] + 2 + hs /\ z = E[j] /\ head = MessageOf(s, str, j).head
  OBVIOUS
<1>. HIDE DEF hs, bs, u
<1>. QED
  BY <1>4, <1>7, <1>8, <1>9, FillRound

\* A round that goes on to the body, and one that does not.
LEMMA LongRound ==
    ASSUME NEW p, NEW data, NEW first, first = unpackProtocol(p, data), first.end = "no"
    PROVE  BodyTaken(first.parser, Cut(data, first.ret, Len(data)), unpack(p, data))
<1>. DEFINE rest == Cut(data, first.ret, Len(data))
            u == unpackBodyData(first.parser, rest)
<1>. HIDE DEF u, rest
<1>1. unpack(p, data) = [parser |-> u.parser, out |-> u.out, left |-> Cut(rest, u.ret, Len(rest))]
  BY UnpackIs DEF u, rest
<1>2. BodyTaken(first.parser, rest, unpack(p, data))
  BY <1>1 DEF BodyTaken, u
<1>. QED
  BY <1>2 DEF rest

Stopped(first, r) == r.parser = first.parser /\ r.left = <<>> /\ r.out = <<>>

LEMMA ShortRound ==
    ASSUME NEW p, NEW data, unpackProtocol(p, data).end # "no"
    PROVE  Stopped(unpackProtocol(p, data), unpack(p, data))
<1>. DEFINE first == unpackProtocol(p, data)
            rest == Cut(data, first.ret, Len(data))
            second == unpackBodyData(first.parser, rest)
<1>1. unpack(p, data) = [parser |-> first.parser, left |-> <<>>, out |-> <<>>]
  BY UnpackIs
<1>. QED
  BY <1>1 DEF Stopped

\* A round of a parser that has its head.
LEMMA ParsedRound ==
    ASSUME NEW p, HeadParsed(p), NEW data \in Seq(Units)
    PROVE  BodyTaken(p, data, unpack(p, data))
<1>. DEFINE first == unpackProtocol(p, data)
<1>1. first = [parser |-> p, ret |-> 0, end |-> "no"]
  BY DEF unpackProtocol, HeadParsed
<1>2. first.parser = p /\ first.ret = 0 /\ first.end = "no"
  BY <1>1
<1>. HIDE DEF first
<1>3. Cut(data, first.ret, Len(data)) = data
  BY <1>2, CutWhole
<1>4. BodyTaken(first.parser, Cut(data, first.ret, Len(data)), unpack(p, data))
  BY <1>2, LongRound DEF first
<1>. QED
  BY <1>2, <1>3, <1>4

\* Nothing that begins at d begins before it.
LEMMA PassedHere ==
    ASSUME NEW str, NEW E, NEW d \in Nat
    PROVE  Passed(str, E, d, d)
BY DEF Passed

LEMMA InBodyRound ==
    ASSUME NEW s, NEW str, NEW W, NEW E, World(s, str, W, E), NEW j \in 1..Len(str),
           NEW p, NEW c \in Nat, NEW d \in Nat, NEW e \in Nat, c <= e, e <= Len(W),
           d = E[j - 1], Clean(str, E, d), InBody(s, str, W, E, p, c, d, j),
           NEW data, data = Cut(W, c, e)
    PROVE  Rounds(s, str, W, E, c, d, e, unpack(p, data))
<1>. DEFINE hs == str[j].hs
            b == d + 2 + hs
            m == MessageOf(s, str, j)
            r == unpack(p, data)
<1>1. W \in Seq(Units) /\ Len(W) \in Nat
  BY WorldIs
<1>2. /\ str[j].kind = "frame" /\ b <= c /\ c < E[j]
      /\ p = Ps(<<>>, TRUE, hs, str[j].bs, m.head, Cut(W, b, c))
  BY DEF InBody
<1>3. Places(s, str, W, j, d, hs, str[j].bs, b, E[j])
  BY <1>2, FramePlaces
<1>4. Len(m.head) = hs
  <2>. HIDE DEF hs, b, m
  <2>1. Cut(W, d + 2, b) = m.head /\ d + 2 <= b /\ b = d + 2 + hs /\ b \in Nat /\ hs \in Nat
    BY <1>3 DEF Places, m
  <2>. DEFINE f == d + 2
  <2>0. b <= c
    BY <1>2
  <2>2. f \in Nat /\ f <= b /\ b <= Len(W) /\ b - f = hs
    <3>1. b <= Len(W)
      BY <1>1, <2>0, <2>1
    <3>2. b - (d + 2) = hs
      BY <2>1
    <3>3. d + 2 \in Nat
      OBVIOUS
    <3>4. d + 2 <= b
      BY <2>1
    <3>. QED
      BY <3>1, <3>2, <3>3, <3>4
  <2>. HIDE DEF f
  <2>3. Len(Cut(W, f, b)) = b - f
    <3>1. W \in Seq(Units)
      BY <1>1
    <3>2. b \in Nat
      BY <2>1
    <3>. QED
      BY <2>2, <3>1, <3>2, CutUnits
  <2>. QED
    BY <2>1, <2>2, <2>3 DEF f
<1>5. HeadParsed(p)
  <2>. HIDE DEF hs, b, m
  <2>1. p.on = TRUE /\ p.hs = hs /\ p.head = m.head
    BY <1>2 DEF Ps
  <2>. QED
    BY <1>4, <2>1 DEF HeadParsed
<1>6. data \in Seq(Units)
  BY <1>1, CutIs
<1>. HIDE DEF r
<1>7. BodyTaken(p, Cut(W, c, e), r)
  BY <1>5, <1>6, ParsedRound DEF r
<1>8. Passed(str, E, d, E[j - 1])
  BY PassedHere
<1>9. b = E[j - 1] + 2 + str[j].hs /\ c <= E[j] /\ c <= c /\ E[j] \in Nat
  <2>. DEFINE z == E[j]
  <2>1. z \in Nat /\ c < z
    BY <1>2, <1>3 DEF Places
  <2>2. b = E[j - 1] + 2 + str[j].hs
    OBVIOUS
  <2>. HIDE DEF z, b
  <2>3. c <= z /\ c <= c
    BY <2>1
  <2>. QED
    BY <2>1, <2>2, <2>3 DEF z
<1>10. InFrame(s, str, W, j, p, b, c)
  BY <1>2 DEF InFrame
<1>11. Clean(str, E, E[j - 1])
  OBVIOUS
<1>. HIDE DEF b
<1>12. Rounds(s, str, W, E, c, d, e, r)
  BY <1>2, <1>7, <1>8, <1>9, <1>10, <1>11, BodyRound
<1>. QED
  BY <1>12 DEF r

\* StoreHead on a parser q that has the wire from a to e, for a frame whose Info
\* begins behind a and whose body begins behind b, when the input began at c
Heads(W, q, a, b, c, e, u) ==
    \/ e < b /\ u.parser = q /\ u.end = "short"
    \/ /\ b <= e /\ u.ret = b - c /\ u.end = "no"
       /\ u.parser = Ps(<<>>, q.on, q.hs, q.bs, Cut(W, a + 2, b), q.body)

Adds(x, y, z) == z = x + y

LEMMA HeadStep ==
    ASSUME NEW W \in Seq(Units), NEW a \in Nat, NEW b \in Nat, NEW c \in Nat, NEW d \in Nat,
           NEW e \in Nat, NEW g \in Nat, NEW hs \in Nat, Adds(a + 2, hs, b), Adds(d, g, a), d <= c,
           c <= e, e <= Len(W), a + 2 <= e, NEW bs, NEW yes, NEW nil, NEW whole, whole = Cut(W, a, e),
           NEW prev \in Nat, Adds(d, prev, c), NEW q, q = Ps(whole, yes, hs, bs, nil, nil)
    PROVE  Heads(W, q, a, b, c, e, StoreHead(q, prev, g))
<1>. DEFINE u == StoreHead(q, prev, g)
            k == 2 + hs
<1>1. Len(W) \in Nat /\ a <= e /\ e - a \in Nat
  BY LenProperties
<1>2. whole \in Seq(Units) /\ Len(whole) = e - a
  <2>1. Cut(W, a, e) \in Seq(Units) /\ Len(Cut(W, a, e)) = e - a
    BY <1>1, CutUnits
  <2>. QED
    BY <2>1
<1>3. q.cache = whole /\ q.on = yes /\ q.hs = hs /\ q.bs = bs /\ q.head = nil /\ q.body = nil /\ IsRecord(q)
  BY DEF Ps, IsRecord
<1>4. Stores(q, prev, g, u)
  <2>1. q.hs \in Nat /\ Len(q.cache) \in Nat
    BY <1>1, <1>2, <1>3
  <2>. QED
    BY <1>3, <2>1, StoreStep
<1>. HIDE DEF u
<1>5. /\ e - a < 2 + hs => u.parser = q /\ u.end = "short"
      /\ ~(e - a < 2 + hs) =>
            /\ u.parser = Ps(<<>>, q.on, q.hs, q.bs, Cut(whole, 2, 2 + hs), q.body)
            /\ u.ret = 2 + hs - (prev - g) /\ u.end = "no"
  BY <1>2, <1>3, <1>4 DEF Stores
<1>6. (e - a < 2 + hs <=> e < b) /\ 2 + hs - (prev - g) = b - c
  BY DEF Adds
<1>7. CASE e < b
  BY <1>5, <1>6, <1>7 DEF Heads, u
<1>8. CASE ~(e < b)
  <2>1. b <= e
    BY <1>8
  <2>2. k \in Nat /\ 2 <= k /\ k <= e - a /\ a + k = b /\ 2 \in Nat
    BY <2>1 DEF Adds
  <2>. HIDE DEF k
  <2>3. Cut(Cut(W, a, e), 2, k) = Cut(W, a + 2, a + k)
    BY <1>1, <2>2, CutCut
  <2>4. Cut(whole, 2, 2 + hs) = Cut(W, a + 2, b)
    BY <2>2, <2>3 DEF k
  <2>5. u.ret = b - c /\ u.end = "no" /\ u.parser = Ps(<<>>, q.on, q.hs, q.bs, Cut(W, a + 2, b), q.body)
    BY <1>5, <1>6, <1>8, <2>4
  <2>. QED
    BY <2>1, <2>5 DEF Heads, u
<1>. QED
  BY <1>7, <1>8

LEMMA RestOf ==
    ASSUME NEW W \in Seq(Units), NEW b \in Nat, NEW c \in Nat, NEW e \in Nat,
           c <= b, b <= e, e <= Len(W)
    PROVE  Cut(Cut(W, c, e), b - c, Len(Cut(W, c, e))) = Cut(W, b, e)
<1>. DEFINE l == b - c
            n == e - c
<1>1. Len(W) \in Nat /\ c <= e
  BY LenProperties
<1>2. l \in Nat /\ n \in Nat /\ l <= n /\ n <= e - c /\ c + l = b /\ c + n = e /\ n = e - c
  OBVIOUS
<1>. HIDE DEF l, n
<1>3. Cut(Cut(W, c, e), l, n) = Cut(W, c + l, c + n)
  BY <1>1, <1>2, CutCut
<1>4. Len(Cut(W, c, e)) = n
  BY <1>1, <1>2, CutIs
<1>. QED
  BY <1>2, <1>3, <1>4 DEF l

\* A round that stores the head of frame j.
HeadFresh(q, W, a, e, hs, bs) == q = Ps(Cut(W, a, e), TRUE, hs, bs, <<>>, <<>>)

Starts(str, E, j, a, hs, b) == a = E[j - 1] /\ hs = str[j].hs /\ b = a + 2 + hs

LEMMA HeadRound ==
    ASSUME NEW s, NEW str, NEW W, NEW E, World(s, str, W, E), NEW j \in 1..Len(str),
           str[j].kind = "frame", NEW a \in Nat, NEW hs \in Nat, NEW b \in Nat,
           Starts(str, E, j, a, hs, b), Clean(str, E, a),
           NEW d \in Nat, Passed(str, E, d, a), NEW c \in Nat, NEW e \in Nat, d <= c, c <= e,
           e <= Len(W), a + 2 <= e, c < b, NEW prev \in Nat, Adds(d, prev, c),
           NEW g \in Nat, Adds(d, g, a), NEW p, NEW data, data = Cut(W, c, e),
           NEW q, HeadFresh(q, W, a, e, hs, str[j].bs),
           NEW first, first = unpackProtocol(p, data), first = StoreHead(q, prev, g),
           NEW r, r = unpack(p, data)
    PROVE  Rounds(s, str, W, E, c, d, e, r)
<1>. DEFINE bs == str[j].bs
            z == E[j]
            m == MessageOf(s, str, j)
            nil == <<>>
            yes == TRUE
            whole == Cut(W, a, e)
<1>1. W \in Seq(Units) /\ Len(W) \in Nat
  BY WorldIs
<1>2. Places(s, str, W, j, a, hs, bs, b, z)
  BY FramePlaces DEF Starts
<1>3. /\ z \in Nat /\ bs \in Nat /\ a + 2 <= b /\ b <= z /\ z <= Len(W) /\ Cut(W, a + 2, b) = m.head
      /\ Adds(a + 2, hs, b)
  <2>1. z \in Nat /\ bs \in Nat /\ a + 2 <= b /\ z <= Len(W) /\ Cut(W, a + 2, b) = m.head
    BY <1>2 DEF Places
  <2>2. z = b + bs /\ b = a + 2 + hs
    BY <1>2 DEF Places
  <2>. HIDE DEF z, bs, m
  <2>3. b <= z
    <3>1. bs \in Nat
      BY <2>1
    <3>2. z = b + bs
      BY <2>2
    <3>. QED
      BY <3>1, <3>2
  <2>4. Adds(a + 2, hs, b)
    BY <2>2 DEF Adds
  <2>. QED
    BY <2>1, <2>3, <2>4
<1>4. q = Ps(whole, yes, hs, bs, nil, nil) /\ whole = Cut(W, a, e)
  BY DEF HeadFresh
<1>5. q.on = TRUE /\ q.hs = hs /\ q.bs = bs /\ q.body = <<>>
  BY DEF HeadFresh, Ps
<1>. HIDE DEF bs, z, m, nil, yes, whole
<1>6. Heads(W, q, a, b, c, e, first)
  <2>1. Heads(W, q, a, b, c, e, StoreHead(q, prev, g))
    BY <1>1, <1>3, <1>4, HeadStep
  <2>. QED
    BY <2>1
<1>7. CASE e < b /\ first.parser = q /\ first.end = "short"
  <2>1. r.parser = q /\ r.left = <<>> /\ r.out = <<>>
    <3>1. Stopped(first, r)
      BY <1>7, ShortRound
    <3>. QED
      BY <1>7, <3>1 DEF Stopped
  <2>2. e <= e /\ e \in c..e /\ a <= e
    BY <1>3
  <2>3. r.left = Cut(W, e, e)
    <3>1. Cut(W, e, e) = <<>>
      BY <1>1, <2>2, CutEmpty
    <3>. QED
      BY <2>1, <3>1
  <2>4. InHead(str, W, q, e, a, j)
    BY <1>7 DEF InHead, HeadFresh, Starts
  <2>5. At(s, str, W, E, q, e, a)
    BY <1>3, <2>2, <2>4 DEF At, Starts
  <2>. QED
    BY <1>3, <2>1, <2>2, <2>3, <2>5 DEF Rounds
<1>8. CASE /\ b <= e /\ first.ret = b - c /\ first.end = "no"
           /\ first.parser = Ps(<<>>, q.on, q.hs, q.bs, Cut(W, a + 2, b), q.body)
  <2>1. b <= e /\ b <= Len(W) /\ c <= b /\ b <= z /\ b <= b
    <3>1. b <= e
      BY <1>8
    <3>2. b <= z /\ Len(W) \in Nat
      BY <1>1, <1>3
    <3>3. b <= Len(W) /\ b <= b /\ c <= b
      BY <3>1, <3>2
    <3>. QED
      BY <3>1, <3>2, <3>3
  <2>2. Cut(W, b, b) = <<>>
    BY <1>1, <1>3, <2>1, CutEmpty
  <2>3. InFrame(s, str, W, j, first.parser, b, b)
    BY <1>3, <1>5, <1>8, <2>2 DEF bs, m, Starts, InFrame
  <2>4. Cut(W, b, e) = Cut(data, first.ret, Len(data))
    BY <1>1, <1>3, <1>8, <2>1, RestOf
  <2>5. first.end = "no"
    BY <1>8
  <2>6. BodyTaken(first.parser, Cut(data, first.ret, Len(data)), r)
    BY <2>5, LongRound
  <2>7. BodyTaken(first.parser, Cut(W, b, e), r)
    BY <2>4, <2>6
  <2>8. b = E[j - 1] + 2 + str[j].hs /\ b <= E[j] /\ Clean(str, E, E[j - 1]) /\ Passed(str, E, d, E[j - 1])
    BY <2>1 DEF z, Starts
  <2>. QED
    BY <1>3, <2>1, <2>3, <2>7, <2>8, BodyRound
<1>. QED
  BY <1>6, <1>7, <1>8 DEF Heads

\* What unpackProtocol skips, on the wire
SkipsAt(W, d, e, g) ==
    /\ g \in Nat /\ d + g <= e
    /\ \A i \in 1..g : W[d + i].f # "magic"
    /\ \/ d + g + 2 <= e /\ W[d + g + 1].f = "magic"
       \/ e - (d + g) < 2

LEMMA ProtocolAt ==
    ASSUME NEW W \in Seq(Units), NEW d \in Nat, NEW c \in Nat, NEW e \in Nat, d <= c, c <= e,
           e <= Len(W), NEW p, IsRecord(p), p.on \in BOOLEAN, p.cache = Cut(W, d, c)
    PROVE  \E g \in Nat : /\ SkipsAt(W, d, e, g)
                          /\ Proceeds(p, Cut(W, d, e), g, Cut(W, d + g, e),
                                      unpackProtocol(p, Cut(W, c, e)))
<1>. DEFINE data == Cut(W, c, e)
            all == Cut(W, d, e)
            g == GarbageIdx(all)
            cache == Cut(all, g, Len(all))
            n == e - d
            b == d + g
<1>1. Len(W) \in Nat /\ d <= e /\ n \in Nat /\ d + n = e /\ n <= e - d
  BY LenProperties
<1>2. all \in Seq(Units) /\ Len(all) = n /\ \A k \in 1..n : all[k] = W[d + k]
  <2>1. d <= e
    BY <1>1
  <2>. QED
    BY <2>1, CutIs
<1>3. all = p.cache \o data
  <2>1. Cut(W, d, c) \o Cut(W, c, e) = Cut(W, d, e)
    BY <1>1, CutJoin
  <2>. QED
    BY <2>1
<1>4. Skips(all, g)
  <2>. HIDE DEF all
  <2>. QED
    BY <1>2, GarbageIs
<1>. HIDE DEF g
<1>5. /\ g \in Nat /\ g <= n /\ (\A i \in 1..g : all[i].f # "magic")
      /\ \/ g + 2 <= n /\ all[g + 1].f = "magic"
         \/ n - g < 2
  <2>. HIDE DEF all, n
  <2>. QED
    BY <1>2, <1>4 DEF Skips
<1>6. b \in Nat /\ b <= e /\ b <= Len(W)
  BY <1>1, <1>5
<1>7. \A i \in 1..g : W[d + i].f # "magic"
  <2>. SUFFICES ASSUME NEW i \in 1..g PROVE W[d + i].f # "magic"
    OBVIOUS
  <2>1. i \in 1..n
    BY <1>1, <1>5
  <2>2. all[i] = W[d + i] /\ all[i].f # "magic"
    <3>. HIDE DEF all, n
    <3>. QED
      BY <1>2, <1>5, <2>1
  <2>. HIDE DEF all
  <2>. QED
    BY <2>2
<1>8. (d + g + 2 <= e /\ W[d + g + 1].f = "magic") \/ e - (d + g) < 2
  <2>1. CASE g + 2 <= n /\ all[g + 1].f = "magic"
    <3>1. g + 1 \in 1..n /\ d + (g + 1) = d + g + 1 /\ d + g + 2 <= e
      BY <1>1, <1>5, <2>1
    <3>2. all[g + 1] = W[d + (g + 1)]
      <4>. HIDE DEF all, n
      <4>. QED
        BY <1>2, <3>1
    <3>. HIDE DEF all
    <3>. QED
      BY <2>1, <3>1, <3>2
  <2>2. CASE n - g < 2
    BY <1>1, <1>5, <2>2
  <2>. HIDE DEF n, all
  <2>. QED
    BY <1>5, <2>1, <2>2
<1>9. SkipsAt(W, d, e, g)
  BY <1>5, <1>6, <1>7, <1>8 DEF SkipsAt
<1>10. cache = Cut(W, b, e) /\ Len(cache) \in Nat
  <2>1. Cut(Cut(W, d, e), g, n) = Cut(W, d + g, d + n)
    <3>1. n \in Nat /\ n <= e - d /\ d <= e /\ g \in Nat /\ g <= n
      BY <1>1, <1>5
    <3>. HIDE DEF n
    <3>. QED
      BY <3>1, CutCut
  <2>2. cache = Cut(W, d + g, e)
    <3>1. cache = Cut(Cut(W, d, e), g, n)
      <4>. HIDE DEF n
      <4>. QED
        BY <1>2
    <3>. HIDE DEF n
    <3>. QED
      BY <1>1, <2>1, <3>1
  <2>. HIDE DEF b, n
  <2>3. Cut(W, b, e) \in Seq(Units)
    BY <1>6, CutIs
  <2>. HIDE DEF cache
  <2>. QED
    BY <2>2, <2>3, LenProperties DEF b
<1>. HIDE DEF cache, all, data
<1>11. Proceeds(p, all, g, cache, unpackProtocol(p, data))
  BY <1>3, <1>10, ProtocolStep DEF cache, g
<1>. QED
  BY <1>5, <1>9, <1>10, <1>11 DEF all, data

Cuts(w, S) ==
    \A i, k \in Nat : i <= k /\ k <= Len(w) =>
        /\ Cut(w, i, k) \in Seq(S) /\ Len(Cut(w, i, k)) = k - i
        /\ \A l \in 1..(k - i) : Cut(w, i, k)[l] = w[i + l]

LEMMA CutsOf ==
    ASSUME NEW S, NEW w \in Seq(S)
    PROVE  Cuts(w, S)
<1>. SUFFICES ASSUME NEW i \in Nat, NEW k \in Nat, i <= k, k <= Len(w)
              PROVE  /\ Cut(w, i, k) \in Seq(S) /\ Len(Cut(w, i, k)) = k - i
                     /\ \A l \in 1..(k - i) : Cut(w, i, k)[l] = w[i + l]
  BY DEF Cuts
<1>. QED
  BY CutIs

\* A parser that met a frame of another version: every second round hands over a
\* message that nobody sent, and the others take all the data.
LEMMA HaltedRound ==
    ASSUME NEW s, NEW str, NEW W, NEW E, World(s, str, W, E), NEW j \in 1..Len(str),
           NEW p, NEW c \in Nat, NEW d \in Nat, NEW e \in Nat, c <= e, e <= Len(W),
           d = E[j - 1], d + 2 <= c, Clean(str, E, d), Halted(str, W, p, c, d, j)
    PROVE  Rounds(s, str, W, E, c, d, e, unpack(p, Cut(W, c, e)))
<1>. DEFINE data == Cut(W, c, e)
            r == unpack(p, data)
            cache == Cut(W, d, c)
            nil == <<>>
            on == p.on
<1>1. W \in Seq(Units) /\ Len(W) \in Nat /\ d <= c /\ c <= Len(W)
  <2>1. W \in Seq(Units) /\ Len(W) \in Nat
    BY WorldIs
  <2>. QED
    BY <2>1
<1>2. str[j].kind = "old" /\ on \in BOOLEAN /\ p = Ps(cache, on, 0, 0, nil, nil)
  BY DEF Halted
<1>. HIDE DEF cache, nil, on
<1>3. p.cache = cache /\ p.hs = 0 /\ p.bs = 0 /\ p.head = nil /\ p.body = nil /\ p.on = on /\ IsRecord(p)
  BY <1>2 DEF Ps, IsRecord
<1>4. data \in Seq(Units) /\ Len(data) \in Nat
  <2>1. data \in Seq(Units)
    BY <1>1, CutIs
  <2>. HIDE DEF data
  <2>. QED
    BY <2>1, LenProperties
<1>. HIDE DEF data, r
<1>5. Passed(str, E, d, d)
  BY PassedHere
<1>6. CASE on = TRUE
  <2>. DEFINE u == unpackBodyData(p, data)
  <2>1. HeadParsed(p)
    BY <1>3, <1>6 DEF HeadParsed, nil
  <2>2. BodyTaken(p, data, r)
    BY <1>4, <2>1, ParsedRound DEF r
  <2>3. Len(p.body) = 0 /\ p.body \in Seq(Units) /\ p.bs \in Nat /\ Len(p.body) <= p.bs
    BY <1>3 DEF nil
  <2>4. Takes(p, data, u)
    BY <1>4, <2>3, BodyIs
  <2>. HIDE DEF u
  <2>5. u.ret \in Nat /\ (0 + u.ret = 0 => u.ret = 0) /\ ~(0 + u.ret < 0)
    <3>1. u.ret \in 0..Len(data)
      BY <2>4 DEF Takes
    <3>. QED
      BY <1>4, <3>1
  <2>6. u.ret = 0 /\ u.parser = Reset(p) /\ u.out = <<[head |-> p.head, body |-> p.body \o Cut(data, 0, u.ret)]>>
    BY <1>3, <2>3, <2>4, <2>5 DEF Takes
  <2>7. Cut(data, 0, 0) = <<>>
    <3>1. 0 \in Nat /\ 0 <= 0 /\ 0 <= Len(data)
      BY <1>4
    <3>. QED
      BY <1>4, <3>1, CutEmpty
  <2>8. u.out = <<[head |-> <<>>, body |-> <<>>]>>
    <3>1. <<>> \o <<>> = <<>>
      OBVIOUS
    <3>2. p.body \o Cut(data, 0, u.ret) = <<>> /\ p.head = <<>>
      BY <1>3, <2>6, <2>7, <3>1 DEF nil
    <3>. QED
      BY <2>6, <3>2
  <2>9. r.parser = Reset(p) /\ r.out = <<[head |-> <<>>, body |-> <<>>]>> /\ r.left = Cut(data, 0, Len(data))
    BY <2>2, <2>6, <2>8 DEF BodyTaken, u
  <2>10. r.left = Cut(W, c, e)
    <3>1. Cut(data, 0, Len(data)) = data
      BY <1>4, CutWhole
    <3>. QED
      BY <2>9, <3>1 DEF data
  <2>11. r.parser = Ps(cache, FALSE, 0, 0, <<>>, <<>>)
    <3>1. Reset(p) = Ps(p.cache, FALSE, 0, 0, <<>>, <<>>)
      BY <1>3, PsSteps
    <3>. QED
      BY <1>3, <2>9, <3>1
  <2>12. Halted(str, W, r.parser, c, d, j)
    <3>1. r.parser.on = FALSE
      BY <2>11 DEF Ps
    <3>. QED
      BY <1>2, <2>11, <3>1 DEF Halted, cache
  <2>13. At(s, str, W, E, r.parser, c, d)
    BY <1>1, <2>12 DEF At
  <2>14. c \in c..e
    OBVIOUS
  <2>15. Rounds(s, str, W, E, c, d, e, r)
    BY <1>2, <2>9, <2>10, <2>13, <2>14 DEF Rounds
  <2>. QED
    BY <2>15 DEF r, data
<1>7. CASE on = FALSE
  <2>. DEFINE first == unpackProtocol(p, data)
              all == Cut(W, d, e)
  <2>1. p.on \in BOOLEAN /\ p.cache = Cut(W, d, c) /\ p.on = FALSE
    BY <1>2, <1>3, <1>7 DEF cache
  <2>2. PICK g \in Nat : SkipsAt(W, d, e, g) /\ Proceeds(p, all, g, Cut(W, d + g, e), first)
    BY <1>1, <1>3, <2>1, ProtocolAt DEF data
  <2>3. FrameIs(s, str, W, E, j)
    BY <1>2, FrameAt DEF World
  <2>4. W[d + 1].f = "magic" /\ W[d + 2].f # "version"
    BY <1>2, <2>3 DEF FrameIs
  <2>5. g = 0
    <3>1. 1 \in 1..g => W[d + 1].f # "magic"
      BY <2>2 DEF SkipsAt
    <3>. QED
      BY <2>4, <3>1
  <2>6. d + g = d /\ d <= e /\ ~(e - d < 2) /\ 2 \in 1..(e - d)
    BY <2>5
  <2>7. Len(all) = e - d /\ all[2] = W[d + 2]
    <3>1. Len(all) = e - d /\ \A k \in 1..(e - d) : all[k] = W[d + k]
      <4>1. Cuts(W, Units)
        BY <1>1, CutsOf
      <4>. QED
        BY <1>1, <2>6, <4>1 DEF Cuts
    <3>. HIDE DEF all
    <3>. QED
      BY <2>6, <3>1
  <2>. HIDE DEF first, all
  <2>8. Proceeds(p, all, g, all, first)
    BY <2>2, <2>6 DEF all
  <2>9. first.parser = Ps(all, TRUE, 0, 0, <<>>, <<>>) /\ first.end = "error"
    BY <2>1, <2>4, <2>6, <2>7, <2>8 DEF Proceeds
  <2>10. Stopped(first, r)
    BY <2>9, ShortRound DEF first, r
  <2>11. r.parser = Ps(all, TRUE, 0, 0, <<>>, <<>>) /\ r.left = <<>> /\ r.out = <<>>
    BY <2>9, <2>10 DEF Stopped
  <2>12. Halted(str, W, r.parser, e, d, j)
    <3>1. r.parser.on = TRUE
      BY <2>11 DEF Ps
    <3>. QED
      BY <1>2, <2>11, <3>1 DEF Halted, all
  <2>13. At(s, str, W, E, r.parser, e, d)
    <3>1. d <= e /\ d + 2 <= e
      OBVIOUS
    <3>. QED
      BY <2>12, <3>1 DEF At
  <2>14. e \in c..e /\ e <= e
    OBVIOUS
  <2>15. r.left = Cut(W, e, e)
    <3>1. Cut(W, e, e) = <<>>
      BY <1>1, <2>14, CutEmpty
    <3>. QED
      BY <2>11, <3>1
  <2>16. Rounds(s, str, W, E, c, d, e, r)
    BY <1>5, <2>11, <2>13, <2>14, <2>15 DEF Rounds
  <2>. QED
    BY <2>16 DEF r, data
<1>. QED
  BY <1>2, <1>6, <1>7

LEMMA InHeadRound ==
    ASSUME NEW s, NEW str, NEW W, NEW E, World(s, str, W, E), NEW j \in 1..Len(str),
           NEW p, NEW c \in Nat, NEW d \in Nat, NEW e \in Nat, c <= e, e <= Len(W),
           d = E[j - 1], d + 2 <= c, Clean(str, E, d), InHead(str, W, p, c, d, j)
    PROVE  Rounds(s, str, W, E, c, d, e, unpack(p, Cut(W, c, e)))
<1>. DEFINE data == Cut(W, c, e)
            hs == str[j].hs
            bs == str[j].bs
            b == d + 2 + hs
            cache == Cut(W, d, c)
            nil == <<>>
            yes == TRUE
            first == unpackProtocol(p, data)
            q == Ps(Cut(W, d, e), p.on, p.hs, p.bs, p.head, p.body)
            prev == c - d
            r == unpack(p, data)
<1>1. W \in Seq(Units) /\ Len(W) \in Nat /\ d <= c /\ c <= Len(W) /\ d <= e /\ d + 2 <= e /\ prev \in Nat
  <2>1. W \in Seq(Units) /\ Len(W) \in Nat
    BY WorldIs
  <2>. QED
    BY <2>1
<1>2. str[j].kind = "frame" /\ c < b /\ p = Ps(cache, yes, hs, bs, nil, nil)
  BY DEF InHead
<1>3. Places(s, str, W, j, d, hs, bs, b, E[j])
  BY <1>2, FramePlaces
<1>4. hs \in Nat /\ bs \in Nat /\ b \in Nat
  BY <1>3 DEF Places
<1>5. hs # 0
  <2>. HIDE DEF hs
  <2>. QED
    BY <1>2, <1>4
<1>6. Starts(str, E, j, d, hs, b) /\ d + 0 = d
  BY DEF Starts
<1>. HIDE DEF cache, nil, yes, hs, bs
<1>7. p.cache = cache /\ p.hs = hs /\ p.bs = bs /\ p.head = nil /\ p.body = nil /\ p.on = yes /\ IsRecord(p)
  BY <1>2 DEF Ps, IsRecord
<1>8. p.on \in BOOLEAN /\ p.cache = Cut(W, d, c) /\ p.on = TRUE /\ ~HeadParsed(p)
  <2>1. p.on = TRUE /\ Len(p.head) = 0
    BY <1>7 DEF yes, nil
  <2>. QED
    BY <1>5, <1>7, <2>1 DEF HeadParsed, cache
<1>9. PICK g \in Nat : SkipsAt(W, d, e, g) /\ Proceeds(p, Cut(W, d, e), g, Cut(W, d + g, e), first)
  BY <1>1, <1>7, <1>8, ProtocolAt
<1>10. Len(p.cache) = prev
  <2>1. Cuts(W, Units)
    BY <1>1, CutsOf
  <2>. QED
    BY <1>1, <1>8, <2>1 DEF Cuts
<1>. HIDE DEF first, q, prev
<1>11. first = StoreHead(q, prev, 0)
  BY <1>8, <1>9, <1>10 DEF Proceeds, q
<1>12. HeadFresh(q, W, d, e, hs, str[j].bs)
  BY <1>7 DEF HeadFresh, q, yes, nil, bs
<1>13. Adds(d, prev, c) /\ Adds(d, 0, d) /\ 0 \in Nat
  BY <1>1, <1>6 DEF Adds, prev
<1>14. Passed(str, E, d, d)
  BY PassedHere
<1>. HIDE DEF b, data, r
<1>15. data = Cut(W, c, e) /\ first = unpackProtocol(p, data) /\ r = unpack(p, data)
  BY DEF data, first, r
<1>16. Rounds(s, str, W, E, c, d, e, r)
  BY <1>1, <1>2, <1>4, <1>6, <1>11, <1>12, <1>13, <1>14, <1>15, HeadRound
<1>. QED
  BY <1>16 DEF r, data

\* What is skipped has no frame beginning in it.
LEMMA SkipPassed ==
    ASSUME NEW s, NEW str, NEW W, NEW E, World(s, str, W, E), NEW d \in Nat, NEW e \in Nat,
           NEW g \in Nat, NEW a \in Nat, Adds(d, g, a), SkipsAt(W, d, e, g)
    PROVE  Passed(str, E, d, a)
<1>1. d <= a
  BY DEF Adds
<1>2. ASSUME NEW k \in 1..Len(str), str[k].kind # "junk", d <= E[k - 1], ~(a <= E[k - 1])
      PROVE  FALSE
  <2>. DEFINE x == E[k - 1]
              i == x + 1 - d
  <2>1. FrameIs(s, str, W, E, k)
    BY <1>2, FrameAt DEF World
  <2>2. x \in Nat /\ W[x + 1].f = "magic"
    BY <2>1 DEF FrameIs
  <2>3. d <= x /\ ~(a <= x)
    BY <1>2
  <2>. HIDE DEF x
  <2>4. i \in 1..g /\ d + i = x + 1
    BY <2>2, <2>3 DEF Adds
  <2>. HIDE DEF i
  <2>5. W[d + i].f # "magic"
    BY <2>4 DEF SkipsAt
  <2>. QED
    BY <2>2, <2>4, <2>5
<1>. QED
  BY <1>1, <1>2 DEF Passed

RestsAt(W, p, c, d) == p = Ps(Cut(W, d, c), FALSE, 0, 0, <<>>, <<>>)

LEMMA RestingRound ==
    ASSUME NEW s, NEW str, NEW W, NEW E, World(s, str, W, E),
           NEW p, NEW c \in Nat, NEW d \in Nat, NEW e \in Nat, d <= c, c <= e, e <= Len(W),
           c <= d + 1, Clean(str, E, d), RestsAt(W, p, c, d)
    PROVE  Rounds(s, str, W, E, c, d, e, unpack(p, Cut(W, c, e)))
<1>. DEFINE data == Cut(W, c, e)
            cache == Cut(W, d, c)
            nil == <<>>
            no == FALSE
            first == unpackProtocol(p, data)
            prev == c - d
            r == unpack(p, data)
<1>1. W \in Seq(Units) /\ Len(W) \in Nat /\ c <= Len(W) /\ d <= e /\ prev \in Nat /\ Adds(d, prev, c)
  <2>1. W \in Seq(Units) /\ Len(W) \in Nat
    BY WorldIs
  <2>. QED
    BY <2>1 DEF Adds
<1>2. p = Ps(cache, no, 0, 0, nil, nil)
  BY DEF RestsAt
<1>. HIDE DEF cache, nil, no
<1>3. p.cache = cache /\ p.hs = 0 /\ p.bs = 0 /\ p.head = nil /\ p.body = nil /\ p.on = no /\ IsRecord(p)
  BY <1>2 DEF Ps, IsRecord
<1>4. p.on \in BOOLEAN /\ p.cache = Cut(W, d, c) /\ p.on = FALSE
  BY <1>3 DEF no, cache
<1>5. PICK g \in Nat : SkipsAt(W, d, e, g) /\ Proceeds(p, Cut(W, d, e), g, Cut(W, d + g, e), first)
  BY <1>1, <1>3, <1>4, ProtocolAt
<1>. DEFINE a == d + g
            rest == Cut(W, a, e)
<1>6. a \in Nat /\ a <= e /\ d <= a /\ Adds(d, g, a)
  BY <1>5 DEF SkipsAt, Adds
<1>7. (a + 2 <= e /\ W[a + 1].f = "magic") \/ e - a < 2
  BY <1>5 DEF SkipsAt
<1>8. Proceeds(p, Cut(W, d, e), g, rest, first)
  BY <1>5
<1>. HIDE DEF a
<1>9. Passed(str, E, d, a)
  BY <1>5, <1>6, SkipPassed
<1>10. Clean(str, E, a)
  BY <1>6, <1>9, CleanPassed
<1>11. /\ rest \in Seq(Units) /\ Len(rest) = e - a /\ \A l \in 1..(e - a) : rest[l] = W[a + l]
  <2>1. Cuts(W, Units)
    BY <1>1, CutsOf
  <2>. QED
    BY <1>6, <2>1 DEF Cuts
<1>12. Len(p.cache) = prev
  <2>1. Cuts(W, Units)
    BY <1>1, CutsOf
  <2>. QED
    BY <1>1, <1>4, <2>1 DEF Cuts
<1>13. e \in c..e /\ e <= e
  OBVIOUS
<1>14. Cut(W, e, e) = <<>>
  BY <1>1, <1>13, CutEmpty
<1>. HIDE DEF first, rest, prev, r, data
<1>15. ASSUME first.end # "no", At(s, str, W, E, first.parser, e, a)
       PROVE  Rounds(s, str, W, E, c, d, e, r)
  <2>1. Stopped(first, r)
    BY <1>15, ShortRound DEF first, r
  <2>2. r.parser = first.parser /\ r.left = Cut(W, e, e) /\ r.out = <<>>
    BY <1>14, <2>1 DEF Stopped
  <2>3. At(s, str, W, E, r.parser, e, a)
    BY <1>15, <2>2
  <2>. QED
    BY <1>6, <1>9, <1>13, <2>2, <2>3 DEF Rounds
<1>16. CASE e - a < 2
  <2>1. Len(rest) < 2
    BY <1>11, <1>16
  <2>2. first.parser = Ps(rest, p.on, p.hs, p.bs, p.head, p.body) /\ first.end = "short"
    BY <1>4, <1>8, <2>1 DEF Proceeds
  <2>3. first.parser = Ps(Cut(W, a, e), FALSE, 0, 0, <<>>, <<>>)
    BY <1>3, <1>4, <2>2 DEF rest, nil
  <2>4. e - a <= 1
    BY <1>6, <1>16
  <2>5. Resting(W, first.parser, e, a)
    BY <2>3, <2>4 DEF Resting
  <2>6. At(s, str, W, E, first.parser, e, a)
    BY <1>6, <1>10, <2>5 DEF At
  <2>. QED
    BY <1>15, <2>2, <2>6 DEF r, data
<1>17. CASE a + 2 <= e /\ W[a + 1].f = "magic"
  <2>1. a + 1 \in 1..Len(W)
    BY <1>1, <1>6, <1>17
  <2>2. PICK j \in 1..Len(str) : str[j].kind # "junk" /\ a + 1 = E[j - 1] + 1
    <3>. DEFINE P == a + 1
    <3>1. P \in 1..Len(W) /\ W[P].f = "magic"
      BY <1>17, <2>1
    <3>. HIDE DEF P
    <3>2. \E j \in 1..Len(str) : str[j].kind # "junk" /\ P = E[j - 1] + 1
      BY <3>1, MagicAt DEF World
    <3>. QED
      BY <3>2 DEF P
  <2>3. FrameIs(s, str, W, E, j)
    BY <2>2, FrameAt DEF World
  <2>4. a = E[j - 1]
    <3>. DEFINE x == E[j - 1]
    <3>1. x \in Nat /\ a + 1 = x + 1
      BY <2>2, <2>3 DEF FrameIs
    <3>. HIDE DEF x
    <3>2. a = x
      BY <1>6, <3>1
    <3>. QED
      BY <3>2 DEF x
  <2>5. ~(Len(rest) < 2) /\ rest[2] = W[a + 2]
    <3>1. ~(e - a < 2) /\ 2 \in 1..(e - a)
      BY <1>6, <1>17
    <3>. QED
      BY <1>11, <3>1
  <2>6. CASE str[j].kind = "frame"
    <3>. DEFINE hs == str[j].hs
                bs == str[j].bs
                b == a + 2 + hs
                q == Ps(rest, TRUE, hs, bs, <<>>, <<>>)
    <3>1. Places(s, str, W, j, a, hs, bs, b, E[j])
      BY <2>4, <2>6, FramePlaces
    <3>2. hs \in Nat /\ b \in Nat /\ rest[2].f = "version" /\ rest[2].v[1] = hs /\ rest[2].v[2] = bs
      BY <2>5, <3>1 DEF Places
    <3>3. first = StoreHead(q, prev, g)
      <4>. HIDE DEF hs, bs, b
      <4>1. first = StoreHead(Ps(rest, TRUE, rest[2].v[1], rest[2].v[2], <<>>, <<>>), Len(p.cache), g)
        BY <1>4, <1>8, <2>5, <3>2 DEF Proceeds
      <4>. QED
        BY <1>12, <3>2, <4>1
    <3>4. HeadFresh(q, W, a, e, hs, str[j].bs)
      BY DEF HeadFresh, rest
    <3>5. Starts(str, E, j, a, hs, b)
      BY <2>4 DEF Starts
    <3>6. c < b
      <4>. HIDE DEF hs
      <4>. QED
        BY <1>6, <3>2
    <3>7. a + 2 <= e
      BY <1>17
    <3>. HIDE DEF hs, bs, b, q
    <3>8. data = Cut(W, c, e) /\ first = unpackProtocol(p, data) /\ r = unpack(p, data)
      BY DEF data, first, r
    <3>9. Rounds(s, str, W, E, c, d, e, r)
      BY <1>1, <1>6, <1>9, <1>10, <2>6, <3>2, <3>3, <3>4, <3>5, <3>6, <3>7, <3>8, HeadRound
    <3>. QED
      BY <3>9 DEF r, data
  <2>7. CASE str[j].kind # "frame"
    <3>1. str[j].kind = "old" /\ W[a + 2].f # "version"
      BY <2>2, <2>3, <2>4, <2>7 DEF FrameIs
    <3>2. first.parser = Ps(rest, TRUE, 0, 0, <<>>, <<>>) /\ first.end = "error"
      BY <1>4, <1>8, <2>5, <3>1 DEF Proceeds
    <3>3. first.parser.on = TRUE
      BY <3>2 DEF Ps
    <3>4. Halted(str, W, first.parser, e, a, j)
      BY <3>1, <3>2, <3>3 DEF Halted, rest
    <3>5. At(s, str, W, E, first.parser, e, a)
      BY <1>6, <1>10, <1>17, <2>4, <3>4 DEF At
    <3>. QED
      BY <1>15, <3>2, <3>5 DEF r, data
  <2>. QED
    BY <2>6, <2>7
<1>. QED
  BY <1>7, <1>16, <1>17

\* A round of unpack, wherever the parser stands: SessionParser.cpp:44.
LEMMA UnpackAt ==
    ASSUME NEW s, NEW str, NEW W, NEW E, World(s, str, W, E), NEW p, NEW c, NEW d,
           At(s, str, W, E, p, c, d), NEW e \in Nat, c <= e, e <= Len(W)
    PROVE  Rounds(s, str, W, E, c, d, e, unpack(p, Cut(W, c, e)))
<1>1. c \in Nat /\ d \in Nat /\ d <= c /\ Clean(str, E, d)
  BY DEF At
<1>2. CASE Resting(W, p, c, d)
  <2>1. c <= d + 1 /\ RestsAt(W, p, c, d)
    BY <1>1, <1>2 DEF Resting, RestsAt
  <2>. QED
    BY <1>1, <2>1, RestingRound
<1>3. ASSUME NEW j \in 1..Len(str), d = E[j - 1], d + 2 <= c, Halted(str, W, p, c, d, j)
      PROVE  Rounds(s, str, W, E, c, d, e, unpack(p, Cut(W, c, e)))
  BY <1>1, <1>3, HaltedRound
<1>4. ASSUME NEW j \in 1..Len(str), d = E[j - 1], d + 2 <= c, InHead(str, W, p, c, d, j)
      PROVE  Rounds(s, str, W, E, c, d, e, unpack(p, Cut(W, c, e)))
  BY <1>1, <1>4, InHeadRound
<1>5. ASSUME NEW j \in 1..Len(str), d = E[j - 1], InBody(s, str, W, E, p, c, d, j)
      PROVE  Rounds(s, str, W, E, c, d, e, unpack(p, Cut(W, c, e)))
  BY <1>1, <1>5, InBodyRound
<1>. QED
  BY <1>2, <1>3, <1>4, <1>5 DEF At

-----------------------------------------------------------------------------
(* The messages that are due when the stream has come in up to d.          *)

HasOld(str) == \E j \in DOMAIN str : str[j].kind = "old"
CountedOf(str, m) == IF m.head # <<>> \/ ~HasOld(str) THEN <<m>> ELSE <<>>

NoOld(str, i) == \A j \in 1..i : str[j].kind # "old"
IsDue(str, E, d, i) == str[i].kind = "frame" /\ E[i] <= d /\ NoOld(str, i)
Due(s, str, E, d) ==
    [i \in DOMAIN str |-> IF IsDue(str, E, d, i) THEN CountedOf(str, MessageOf(s, str, i)) ELSE <<>>]
PickedTo(s, str, E, d) == FlattenSeq(Due(s, str, E, d))

LEMMA CountedType ==
    ASSUME NEW str, NEW m \in Messages
    PROVE  CountedOf(str, m) \in Seq(Messages)
BY DEF CountedOf

LEMMA MessageType ==
    ASSUME NEW s, NEW str, NEW W, NEW E, World(s, str, W, E), NEW j \in 1..Len(str)
    PROVE  MessageOf(s, str, j) \in Messages
<1>. DEFINE tag == <<s, j>>
            hs == str[j].hs
            bs == str[j].bs
<1>1. s \in Nat /\ str \in Seq(Message) /\ Len(str) \in Nat
  BY WorldIs
<1>2. tag \in Seq(Nat) /\ str[j] \in Message
  BY <1>1, ElementOfSeq
<1>3. hs \in Nat /\ bs \in Nat
  BY <1>2 DEF Message
<1>. HIDE DEF tag, hs, bs
<1>4. Bytes("head", tag, hs) \in Seq(Units)
  BY <1>2, <1>3, BytesOf DEF AreBytes
<1>5. Bytes("body", tag, bs) \in Seq(Units)
  BY <1>2, <1>3, BytesOf DEF AreBytes
<1>6. MessageOf(s, str, j) = [head |-> Bytes("head", tag, hs), body |-> Bytes("body", tag, bs)]
  BY DEF MessageOf, tag, hs, bs
<1>. QED
  BY <1>4, <1>5, <1>6 DEF Messages

LEMMA DueIs ==
    ASSUME NEW s, NEW str, NEW W, NEW E, World(s, str, W, E), NEW d
    PROVE  /\ Due(s, str, E, d) \in Seq(Seq(Messages)) /\ Len(Due(s, str, E, d)) = Len(str)
           /\ \A i \in 1..Len(str) :
                 Due(s, str, E, d)[i] = IF IsDue(str, E, d, i) THEN CountedOf(str, MessageOf(s, str, i)) ELSE <<>>
<1>. DEFINE G == Due(s, str, E, d)
            N == Len(str)
<1>1. str \in Seq(Message) /\ N \in Nat /\ DOMAIN str = 1..N
  BY WorldIs, LenProperties
<1>2. ASSUME NEW i \in 1..N PROVE CountedOf(str, MessageOf(s, str, i)) \in Seq(Messages)
  BY <1>2, MessageType, CountedType
<1>3. G = [i \in 1..N |-> IF IsDue(str, E, d, i) THEN CountedOf(str, MessageOf(s, str, i)) ELSE <<>>]
  BY <1>1 DEF Due
<1>. HIDE DEF G, N
<1>4. \A i \in 1..N : G[i] \in Seq(Messages) /\ G[i] = IF IsDue(str, E, d, i) THEN CountedOf(str, MessageOf(s, str, i)) ELSE <<>>
  BY <1>2, <1>3, EmptySeq
<1>5. G \in [1..N -> Seq(Messages)]
  BY <1>3, <1>4
<1>6. G \in Seq(Seq(Messages))
  BY <1>1, <1>5, IsASeq
<1>7. Len(G) = N
  BY <1>1, <1>5, <1>6, LenProperties
<1>. QED
  BY <1>4, <1>6, <1>7 DEF G, N

LEMMA SamePicks ==
    ASSUME NEW s, NEW str, NEW W, NEW E, World(s, str, W, E), NEW d, NEW d2,
           \A i \in 1..Len(str) : str[i].kind = "frame" /\ NoOld(str, i) => (E[i] <= d <=> E[i] <= d2)
    PROVE  PickedTo(s, str, E, d) = PickedTo(s, str, E, d2)
<1>1. \A i \in 1..Len(str) : IsDue(str, E, d, i) <=> IsDue(str, E, d2, i)
  BY DEF IsDue
<1>2. DOMAIN str = 1..Len(str)
  BY WorldIs, LenProperties
<1>3. Due(s, str, E, d) = Due(s, str, E, d2)
  BY <1>1, <1>2 DEF Due
<1>. QED
  BY <1>3 DEF PickedTo

\* A frame is not empty.
LEMMA FrameGrows ==
    ASSUME NEW s, NEW str, NEW W, NEW E, World(s, str, W, E), NEW i \in 1..Len(str),
           str[i].kind = "frame"
    PROVE  E[i - 1] \in Nat /\ E[i] \in Nat /\ E[i - 1] + 2 <= E[i]
<1>. DEFINE a == E[i - 1]
            z == E[i]
            hs == str[i].hs
            bs == str[i].bs
            b == E[i - 1] + 2 + str[i].hs
<1>1. Places(s, str, W, i, a, hs, bs, b, z)
  BY FramePlaces
<1>. HIDE DEF a, z, hs, bs, b
<1>2. a \in Nat /\ z \in Nat /\ b \in Nat /\ bs \in Nat /\ a + 2 <= b /\ z = b + bs
  BY <1>1 DEF Places
<1>3. a + 2 <= z
  BY <1>2
<1>. QED
  BY <1>2, <1>3 DEF a, z

LEMMA PassedPicks ==
    ASSUME NEW s, NEW str, NEW W, NEW E, World(s, str, W, E), NEW d \in Nat, NEW d2 \in Nat,
           Clean(str, E, d), Passed(str, E, d, d2)
    PROVE  PickedTo(s, str, E, d) = PickedTo(s, str, E, d2)
<1>1. ASSUME NEW i \in 1..Len(str), str[i].kind = "frame"
      PROVE  E[i] <= d <=> E[i] <= d2
  <2>1. E[i - 1] \in Nat /\ E[i] \in Nat /\ E[i - 1] + 2 <= E[i]
    BY <1>1, FrameGrows
  <2>2. d <= d2 /\ (d <= E[i - 1] => d2 <= E[i - 1])
    BY <1>1 DEF Passed
  <2>3. E[i - 1] < d => E[i] <= d
    BY <1>1 DEF Clean
  <2>. QED
    BY <2>1, <2>2, <2>3
<1>. QED
  BY <1>1, SamePicks

LEMMA NothingPicked ==
    ASSUME NEW s, NEW str, NEW W, NEW E, World(s, str, W, E)
    PROVE  PickedTo(s, str, E, 0) = <<>>
<1>. DEFINE G == Due(s, str, E, 0)
            N == Len(str)
<1>1. G \in Seq(Seq(Messages)) /\ Len(G) = N /\ N \in Nat
  BY DueIs, WorldIs
<1>2. ASSUME NEW i \in 1..N PROVE G[i] = <<>>
  <2>1. ~IsDue(str, E, 0, i)
    <3>1. ASSUME str[i].kind = "frame", E[i] <= 0 PROVE FALSE
      <4>1. E[i - 1] \in Nat /\ E[i] \in Nat /\ E[i - 1] + 2 <= E[i]
        BY <3>1, FrameGrows
      <4>. QED
        BY <3>1, <4>1
    <3>. QED
      BY <3>1 DEF IsDue
  <2>. QED
    BY <2>1, DueIs
<1>. HIDE DEF G, N
<1>3. Flow(G, N) = Flow(G, 0)
  <2>1. 0 \in 0..Len(G) /\ N \in 0..Len(G)
    BY <1>1
  <2>2. \A k \in (0 + 1)..N : G[k] = <<>>
    BY <1>1, <1>2
  <2>. QED
    BY <1>1, <2>1, <2>2, FlowQuiet
<1>4. Flow(G, 0) = <<>> /\ Flow(G, N) = FlattenSeq(G)
  <2>1. 0 \in 0..Len(G)
    BY <1>1
  <2>. QED
    BY <1>1, <2>1, FlowType
<1>. QED
  BY <1>3, <1>4 DEF PickedTo, G

\* Behind a frame its message has been added.
LEMMA FramePicks ==
    ASSUME NEW s, NEW str, NEW W, NEW E, World(s, str, W, E), NEW j \in 1..Len(str),
           str[j].kind = "frame", Clean(str, E, E[j - 1])
    PROVE  PickedTo(s, str, E, E[j]) = PickedTo(s, str, E, E[j - 1]) \o CountedOf(str, MessageOf(s, str, j))
<1>. DEFINE a == E[j - 1]
            z == E[j]
            G == Due(s, str, E, a)
            H == Due(s, str, E, z)
            N == Len(str)
            m == CountedOf(str, MessageOf(s, str, j))
<1>1. /\ N \in Nat /\ (\A k \in 0..N : E[k] \in Nat)
      /\ \A i \in 0..N : \A k \in i..N : E[i] <= E[k]
  BY WorldIs
<1>2. a \in Nat /\ z \in Nat /\ a + 2 <= z
  BY FrameGrows
<1>3. /\ G \in Seq(Seq(Messages)) /\ Len(G) = N
      /\ \A i \in 1..N : G[i] = IF IsDue(str, E, a, i) THEN CountedOf(str, MessageOf(s, str, i)) ELSE <<>>
  <2>. HIDE DEF a
  <2>. QED
    BY DueIs
<1>4. /\ H \in Seq(Seq(Messages)) /\ Len(H) = N
      /\ \A i \in 1..N : H[i] = IF IsDue(str, E, z, i) THEN CountedOf(str, MessageOf(s, str, i)) ELSE <<>>
  <2>. HIDE DEF z
  <2>. QED
    BY DueIs
<1>5. NoOld(str, j)
  <2>. SUFFICES ASSUME NEW k \in 1..j, str[k].kind = "old" PROVE FALSE
    BY DEF NoOld
  <2>1. k \in 1..N /\ k # j
    BY <1>1
  <2>2. FrameIs(s, str, W, E, k)
    BY <2>1, FrameAt DEF World
  <2>3. E[k - 1] < E[k] /\ E[k] <= a
    <3>. DEFINE x == E[k - 1]
                y == E[k]
                hs == str[k].hs
                bs == str[k].bs
    <3>1. hs \in Nat /\ bs \in Nat /\ y = x + 2 + hs + bs /\ x \in Nat
      BY <2>2 DEF FrameIs, InfoSize
    <3>. HIDE DEF x, y, hs, bs
    <3>2. x < y
      BY <3>1
    <3>3. k \in 0..N /\ j - 1 \in k..N
      BY <1>1, <2>1
    <3>4. E[k] <= E[j - 1]
      BY <1>1, <3>3
    <3>. QED
      BY <3>2, <3>4 DEF x, y
  <2>4. E[k - 1] < a
    <3>1. k \in 0..N /\ k - 1 \in 0..N
      BY <1>1
    <3>2. E[k] \in Nat /\ E[k - 1] \in Nat
      BY <1>1, <3>1
    <3>. QED
      BY <1>2, <2>3, <3>2
  <2>. QED
    BY <2>1, <2>4 DEF Clean
<1>6. H[j] = m
  <2>1. z <= z
    BY <1>2
  <2>2. IsDue(str, E, z, j)
    BY <1>5, <2>1 DEF IsDue
  <2>. HIDE DEF H, z
  <2>. QED
    BY <1>4, <2>2
<1>7. ASSUME NEW k \in (j + 1)..N PROVE H[k] = <<>>
  <2>0. k \in 1..N
    BY <1>1
  <2>1. ~IsDue(str, E, z, k)
    <3>1. ASSUME str[k].kind = "frame", E[k] <= z PROVE FALSE
      <4>1. E[k - 1] \in Nat /\ E[k] \in Nat /\ E[k - 1] + 2 <= E[k]
        BY <2>0, <3>1, FrameGrows
      <4>2. j \in 0..N /\ k - 1 \in j..N
        BY <1>1
      <4>3. E[j] <= E[k - 1]
        BY <1>1, <4>2
      <4>. QED
        BY <1>2, <3>1, <4>1, <4>3
    <3>. QED
      BY <3>1 DEF IsDue
  <2>. HIDE DEF H, z
  <2>. QED
    BY <1>4, <2>0, <2>1
<1>8. ASSUME NEW k \in j..N PROVE G[k] = <<>>
  <2>0. k \in 1..N
    BY <1>1
  <2>1. ~IsDue(str, E, a, k)
    <3>1. j \in 0..N
      BY <1>1
    <3>2. E[j] <= E[k] /\ E[k] \in Nat
      <4>1. k \in 0..N
        BY <1>1
      <4>. QED
        BY <1>1, <3>1, <4>1
    <3>3. ~(E[k] <= a)
      BY <1>2, <3>2
    <3>. QED
      BY <3>3 DEF IsDue
  <2>. HIDE DEF G, a
  <2>. QED
    BY <1>3, <2>0, <2>1
<1>9. ASSUME NEW k \in 1..(j - 1) PROVE G[k] = H[k]
  <2>0. k \in 1..N
    BY <1>1
  <2>1. E[k] \in Nat /\ E[k] <= a
    <3>1. k \in 0..N /\ j - 1 \in k..N
      BY <1>1
    <3>. QED
      BY <1>1, <3>1
  <2>2. E[k] <= a /\ E[k] <= z
    BY <1>2, <2>1
  <2>3. IsDue(str, E, a, k) <=> IsDue(str, E, z, k)
    BY <2>2 DEF IsDue
  <2>. HIDE DEF G, H, a, z
  <2>. QED
    BY <1>3, <1>4, <2>0, <2>3
<1>. HIDE DEF G, H, a, z, m
<1>10. j - 1 \in 0..N /\ j \in 0..N /\ N \in j..N /\ N \in (j - 1)..N /\ (j - 1) + 1 = j /\ N \in 0..N /\ j \in 1..N
  BY <1>1
<1>11. FlattenSeq(H) = Flow(H, j)
  <2>1. Flow(H, N) = Flow(H, j)
    BY <1>4, <1>7, <1>10, FlowQuiet
  <2>. QED
    BY <1>4, <1>10, <2>1, FlowType
<1>12. Flow(H, j) = Flow(H, j - 1) \o H[j]
  BY <1>4, <1>10, FlowNext
<1>13. Flow(H, j - 1) = Flow(G, j - 1)
  <2>. DEFINE i == j - 1
  <2>1. i \in 0..Len(H) /\ \A k \in 1..i : H[k] = G[k]
    BY <1>4, <1>9, <1>10
  <2>2. Len(H) = Len(G)
    BY <1>3, <1>4
  <2>. HIDE DEF i
  <2>3. Flow(H, i) = Flow(G, i)
    BY <1>3, <1>4, <2>1, <2>2, FlowSame
  <2>. QED
    BY <2>3 DEF i
<1>14. FlattenSeq(G) = Flow(G, j - 1)
  <2>. DEFINE i == j - 1
  <2>1. i \in 0..Len(G) /\ N \in i..Len(G) /\ \A k \in (i + 1)..N : G[k] = <<>>
    BY <1>3, <1>8, <1>10
  <2>. HIDE DEF i
  <2>2. Flow(G, N) = Flow(G, i)
    BY <1>3, <2>1, FlowQuiet
  <2>. QED
    BY <1>3, <1>10, <2>2, FlowType DEF i
<1>. QED
  BY <1>6, <1>11, <1>12, <1>13, <1>14 DEF PickedTo, G, H, a, z, m

\* More data never takes a message back.
LEMMA PrefixPicks ==
    ASSUME NEW s, NEW str, NEW W, NEW E, World(s, str, W, E), NEW d \in Nat, NEW d2 \in Nat, d <= d2
    PROVE  IsPrefix(PickedTo(s, str, E, d), PickedTo(s, str, E, d2))
<1>. DEFINE G == Due(s, str, E, d)
            H == Due(s, str, E, d2)
            N == Len(str)
            T == {k \in 0..N : \A i \in (k + 1)..N : ~(E[i] <= d)}
<1>1. /\ N \in Nat /\ (\A k \in 0..N : E[k] \in Nat)
      /\ \A i \in 0..N : \A k \in i..N : E[i] <= E[k]
  BY WorldIs
<1>2. /\ G \in Seq(Seq(Messages)) /\ Len(G) = N
      /\ \A i \in 1..N : G[i] = IF IsDue(str, E, d, i) THEN CountedOf(str, MessageOf(s, str, i)) ELSE <<>>
  BY DueIs
<1>3. /\ H \in Seq(Seq(Messages)) /\ Len(H) = N
      /\ \A i \in 1..N : H[i] = IF IsDue(str, E, d2, i) THEN CountedOf(str, MessageOf(s, str, i)) ELSE <<>>
  BY DueIs
<1>4. PICK n \in T : \A k \in T : n <= k
  <2>1. N \in T
    BY <1>1
  <2>2. T \in SUBSET Nat
    BY <1>1
  <2>. HIDE DEF T
  <2>. QED
    BY <2>1, <2>2, LeastNumber
<1>5. n \in 0..N /\ n \in Nat /\ \A i \in (n + 1)..N : ~(E[i] <= d)
  BY <1>1
<1>6. n # 0 => E[n] <= d
  <2>. SUFFICES ASSUME n # 0, ~(E[n] <= d) PROVE FALSE
    OBVIOUS
  <2>1. n - 1 \in 0..N /\ \A i \in ((n - 1) + 1)..N : i = n \/ i \in (n + 1)..N
    BY <1>1, <1>5
  <2>2. n - 1 \in T
    BY <1>5, <2>1
  <2>. HIDE DEF T
  <2>3. n <= n - 1
    BY <1>4, <2>2
  <2>. QED
    BY <1>5, <2>3
<1>. HIDE DEF T
<1>7. \A k \in 1..n : k \in 1..N /\ E[k] <= d /\ E[k] <= d2
  <2>. SUFFICES ASSUME NEW k \in 1..n PROVE k \in 1..N /\ E[k] <= d /\ E[k] <= d2
    OBVIOUS
  <2>1. k \in 1..N /\ k \in 0..N /\ n \in k..N /\ n # 0
    BY <1>1, <1>5
  <2>2. E[k] <= E[n] /\ E[k] \in Nat /\ E[n] \in Nat
    BY <1>1, <1>5, <2>1
  <2>. QED
    BY <1>6, <2>1, <2>2
<1>8. \A k \in 1..n : G[k] = H[k]
  <2>1. \A k \in 1..n : IsDue(str, E, d, k) <=> IsDue(str, E, d2, k)
    BY <1>7 DEF IsDue
  <2>. HIDE DEF G, H, N
  <2>. QED
    BY <1>2, <1>3, <1>7, <2>1
<1>9. \A k \in (n + 1)..N : G[k] = <<>>
  <2>1. \A k \in (n + 1)..N : k \in 1..N /\ ~IsDue(str, E, d, k)
    BY <1>1, <1>5 DEF IsDue
  <2>. HIDE DEF G, N
  <2>. QED
    BY <1>2, <2>1
<1>. HIDE DEF G, H, N
<1>10. N \in n..N /\ N \in 0..N
  BY <1>1, <1>5
<1>11. FlattenSeq(G) = Flow(G, n) /\ FlattenSeq(H) = Flow(H, N) /\ FlattenSeq(G) \in Seq(Messages)
       /\ FlattenSeq(H) \in Seq(Messages)
  <2>1. Flow(G, N) = Flow(G, n)
    BY <1>2, <1>5, <1>9, <1>10, FlowQuiet
  <2>. QED
    BY <1>2, <1>3, <1>10, <2>1, FlowType
<1>12. Flow(G, n) = Flow(H, n)
  <2>1. /\ G \in Seq(Seq(Messages)) /\ H \in Seq(Seq(Messages)) /\ n \in 0..Len(G)
        /\ Len(G) = Len(H)
    BY <1>2, <1>3, <1>5
  <2>. QED
    BY <1>8, <2>1, FlowSame
<1>. DEFINE x == FlattenSeq(G)
            y == FlattenSeq(H)
<1>13. Len(x) <= Len(y) /\ \A k \in 1..Len(x) : y[k] = x[k]
  <2>1. /\ Len(Flow(H, n)) <= Len(Flow(H, N))
        /\ \A k \in 1..Len(Flow(H, n)) : Flow(H, N)[k] = Flow(H, n)[k]
    BY <1>3, <1>5, <1>10, FlowPrefix
  <2>. QED
    BY <1>11, <1>12, <2>1
<1>14. x \in Seq(Messages) /\ y \in Seq(Messages)
  BY <1>11
<1>. HIDE DEF x, y
<1>15. SubSeq(x, 1, Len(x)) = SubSeq(y, 1, Len(x))
  <2>. DEFINE l == Len(x)
              v == Cut(x, 0, l)
              w == Cut(y, 0, l)
  <2>1. l \in Nat /\ l <= Len(y) /\ 0 \in Nat /\ 0 <= l /\ l <= Len(x) /\ l - 0 = l /\ Len(y) \in Nat
    BY <1>13, <1>14, LenProperties
  <2>. HIDE DEF l
  <2>2. v \in Seq(Messages) /\ Len(v) = l - 0 /\ \A k \in 1..(l - 0) : v[k] = x[0 + k]
    BY <1>14, <2>1, CutIs
  <2>3. w \in Seq(Messages) /\ Len(w) = l - 0 /\ \A k \in 1..(l - 0) : w[k] = y[0 + k]
    <3>1. y \in Seq(Messages) /\ l \in Nat /\ 0 \in Nat /\ 0 <= l /\ l <= Len(y)
      BY <1>14, <2>1
    <3>. QED
      BY <3>1, CutIs
  <2>4. \A k \in 1..l : 0 + k = k /\ y[k] = x[k]
    BY <1>13, <2>1 DEF l
  <2>. HIDE DEF v, w
  <2>5. Len(v) = Len(w) /\ \A k \in 1..Len(v) : v[k] = w[k]
    BY <2>1, <2>2, <2>3, <2>4
  <2>6. v = w
    BY <2>2, <2>3, <2>5, SameSeq
  <2>. QED
    BY <2>6 DEF v, w, Cut, l
<1>. QED
  BY <1>13, <1>15 DEF IsPrefix, PickedTo, x, y, G, H

\* Where the parser stands it has handed over everything that has come in.
LEMMA AtPicks ==
    ASSUME NEW s, NEW str, NEW W, NEW E, World(s, str, W, E), NEW p, NEW c, NEW d,
           At(s, str, W, E, p, c, d)
    PROVE  PickedTo(s, str, E, d) = PickedTo(s, str, E, c)
<1>1. c \in Nat /\ d \in Nat /\ d <= c /\ Clean(str, E, d)
  BY DEF At
<1>2. /\ Len(str) \in Nat /\ (\A k \in 0..Len(str) : E[k] \in Nat)
      /\ \A i \in 0..Len(str) : \A k \in i..Len(str) : E[i] <= E[k]
  BY WorldIs
<1>3. ASSUME NEW i \in 1..Len(str), str[i].kind = "frame", NoOld(str, i), ~(E[i] <= d), E[i] <= c
      PROVE  FALSE
  <2>1. E[i - 1] \in Nat /\ E[i] \in Nat /\ E[i - 1] + 2 <= E[i]
    BY <1>3, FrameGrows
  <2>2. d <= E[i - 1]
    <3>1. E[i - 1] < d => E[i] <= d
      BY <1>1, <1>3 DEF Clean
    <3>. QED
      BY <1>1, <1>3, <2>1, <3>1
  <2>3. CASE Resting(W, p, c, d)
    <3>1. c - d <= 1
      BY <2>3 DEF Resting
    <3>. QED
      BY <1>1, <1>3, <2>1, <2>2, <3>1
  <2>4. ASSUME NEW j \in 1..Len(str), d = E[j - 1],
               \/ Halted(str, W, p, c, d, j) \/ InHead(str, W, p, c, d, j)
               \/ InBody(s, str, W, E, p, c, d, j)
        PROVE  FALSE
    <3>1. j <= i
      <4>. SUFFICES ASSUME ~(j <= i) PROVE FALSE
        OBVIOUS
      <4>1. i \in 0..Len(str) /\ j - 1 \in i..Len(str)
        BY <1>2
      <4>2. E[i] <= E[j - 1]
        BY <1>2, <4>1
      <4>. QED
        BY <1>3, <2>4, <4>2
    <3>2. CASE Halted(str, W, p, c, d, j)
      <4>1. str[j].kind = "old" /\ j \in 1..i
        BY <3>1, <3>2 DEF Halted
      <4>. QED
        BY <1>3, <4>1 DEF NoOld
    <3>3. ASSUME str[j].kind = "frame", ~(E[j] <= c) PROVE FALSE
      <4>1. j \in 0..Len(str) /\ i \in j..Len(str)
        BY <1>2, <3>1
      <4>2. E[j] <= E[i] /\ E[j] \in Nat
        BY <1>2, <4>1
      <4>. QED
        BY <1>1, <1>3, <2>1, <3>3, <4>2
    <3>4. CASE InHead(str, W, p, c, d, j)
      <4>. DEFINE hs == str[j].hs
                  bs == str[j].bs
                  b == d + 2 + hs
                  z == E[j]
      <4>1. str[j].kind = "frame" /\ c < b
        BY <3>4 DEF InHead
      <4>2. Places(s, str, W, j, d, hs, bs, b, z)
        BY <2>4, <4>1, FramePlaces
      <4>. HIDE DEF hs, bs, b, z
      <4>3. b \in Nat /\ z \in Nat /\ z = b + bs /\ bs \in Nat
        BY <4>2 DEF Places
      <4>4. ~(z <= c)
        BY <1>1, <4>1, <4>3
      <4>. QED
        BY <3>3, <4>1, <4>4 DEF z
    <3>5. CASE InBody(s, str, W, E, p, c, d, j)
      <4>1. str[j].kind = "frame" /\ c < E[j]
        BY <3>5 DEF InBody
      <4>2. E[j] \in Nat
        BY <4>1, FrameGrows
      <4>. QED
        BY <1>1, <3>3, <4>1, <4>2
    <3>. QED
      BY <2>4, <3>2, <3>4, <3>5
  <2>. QED
    BY <2>3, <2>4 DEF At
<1>4. \A i \in 1..Len(str) : str[i].kind = "frame" => E[i] \in Nat
  BY FrameGrows
<1>5. \A i \in 1..Len(str) : str[i].kind = "frame" /\ NoOld(str, i) => (E[i] <= d <=> E[i] <= c)
  BY <1>1, <1>3, <1>4
<1>. QED
  BY <1>5, SamePicks

\* What a session has handed over, as far as it counts
OutOf(str, out) == FlattenSeq([k \in DOMAIN out |-> CountedOf(str, out[k])])

LEMMA OutEmpty == \A str : OutOf(str, <<>>) = <<>>
<1>. SUFFICES ASSUME NEW str PROVE OutOf(str, <<>>) = <<>>
  OBVIOUS
<1>1. [k \in DOMAIN <<>> |-> CountedOf(str, <<>>[k])] = <<>>
  BY EmptySeq
<1>2. <<>> \in Seq(Seq(Messages)) /\ Len(<<>>) = 0
  BY EmptySeq
<1>. QED
  BY <1>1, <1>2, FlattenType DEF OutOf

LEMMA OutAppend ==
    ASSUME NEW str, NEW out \in Seq(Messages), NEW m \in Messages
    PROVE  OutOf(str, out \o <<m>>) = OutOf(str, out) \o CountedOf(str, m) /\ out \o <<m>> \in Seq(Messages)
<1>. DEFINE new == out \o <<m>>
            n == Len(out)
            G == [k \in DOMAIN out |-> CountedOf(str, out[k])]
            H == [k \in DOMAIN new |-> CountedOf(str, new[k])]
            t == CountedOf(str, m)
<1>1. n \in Nat /\ DOMAIN out = 1..n /\ \A k \in 1..n : out[k] \in Messages
  BY LenProperties, ElementOfSeq
<1>2. new = Append(out, m) /\ new \in Seq(Messages)
  BY AppendIsConcat, AppendProperties
<1>3. Len(new) = n + 1 /\ new[n + 1] = m /\ \A k \in 1..n : new[k] = out[k]
  BY <1>2, AppendProperties
<1>4. DOMAIN new = 1..(n + 1)
  BY <1>2, <1>3, LenProperties
<1>5. t \in Seq(Messages)
  BY CountedType
<1>6. G \in [1..n -> Seq(Messages)]
  BY <1>1, CountedType
<1>7. G \in Seq(Seq(Messages)) /\ Len(G) = n
  <2>. HIDE DEF G, n
  <2>1. G \in Seq(Seq(Messages))
    BY <1>1, <1>6, IsASeq
  <2>. QED
    BY <1>1, <1>6, <2>1, LenProperties
<1>8. H = [k \in 1..(n + 1) |-> IF k = n + 1 THEN t ELSE G[k]]
  <2>1. ASSUME NEW k \in 1..(n + 1) PROVE H[k] = IF k = n + 1 THEN t ELSE G[k]
    <3>1. CASE k = n + 1
      BY <1>3, <1>4, <3>1
    <3>2. CASE k # n + 1
      <4>1. k \in 1..n
        BY <1>1, <3>2
      <4>. QED
        BY <1>1, <1>3, <1>4, <3>2, <4>1
    <3>. QED
      BY <3>1, <3>2
  <2>2. H = [k \in 1..(n + 1) |-> H[k]]
    BY <1>4
  <2>. HIDE DEF H, G, t, n
  <2>. QED
    BY <2>1, <2>2
<1>. HIDE DEF G, H, t, new
<1>9. H = Append(G, t)
  <2>. DEFINE A == Append(G, t)
  <2>1. A \in Seq(Seq(Messages)) /\ Len(A) = n + 1 /\ A[n + 1] = t /\ \A k \in 1..n : A[k] = G[k]
    BY <1>5, <1>7, AppendProperties
  <2>. HIDE DEF A
  <2>2. H \in Seq(Seq(Messages)) /\ Len(H) = n + 1
    <3>1. H \in [1..(n + 1) -> Seq(Messages)]
      <4>1. \A k \in 1..(n + 1) : k = n + 1 \/ k \in 1..n
        BY <1>1
      <4>. QED
        BY <1>5, <1>6, <1>8, <4>1
    <3>2. n + 1 \in Nat
      BY <1>1
    <3>3. H \in Seq(Seq(Messages))
      BY <3>1, <3>2, IsASeq
    <3>. QED
      BY <3>1, <3>2, <3>3, LenProperties
  <2>3. \A k \in 1..Len(H) : H[k] = A[k]
    <3>1. \A k \in 1..(n + 1) : k = n + 1 \/ (k \in 1..n /\ k # n + 1)
      BY <1>1
    <3>2. n + 1 \in 1..(n + 1)
      BY <1>1
    <3>. QED
      BY <1>8, <2>1, <2>2, <3>1, <3>2
  <2>4. Len(H) = Len(A)
    BY <2>1, <2>2
  <2>. QED
    BY <2>1, <2>2, <2>3, <2>4, SameSeq DEF A
<1>10. FlattenSeq(Append(G, t)) = FlattenSeq(G) \o t
  BY <1>5, <1>7, FlattenAppend
<1>11. OutOf(str, new) = FlattenSeq(H) /\ OutOf(str, out) = FlattenSeq(G)
  BY DEF OutOf, H, G
<1>12. OutOf(str, new) = OutOf(str, out) \o t
  BY <1>9, <1>10, <1>11
<1>. QED
  BY <1>2, <1>12 DEF new, t

\* A session whose parser stands at c, with d as in At, and has handed over what
\* is due
Stands(s, str, W, E, p, out, c, d) ==
    /\ At(s, str, W, E, p, c, d)
    /\ out \in Seq(Messages) /\ OutOf(str, out) = PickedTo(s, str, E, d)

ReadsOn(s, str, W, E, out, c, e, r) ==
    \E c2 \in c..e : \E d2 \in Nat :
        Stands(s, str, W, E, r.parser, out \o r.out, c2, d2) /\ r.left = Cut(W, c2, e)

LEMMA ReadStep ==
    ASSUME NEW s, NEW str, NEW W, NEW E, World(s, str, W, E), NEW p, NEW out, NEW c, NEW d,
           Stands(s, str, W, E, p, out, c, d), NEW e \in Nat, c <= e, e <= Len(W)
    PROVE  ReadsOn(s, str, W, E, out, c, e, unpack(p, Cut(W, c, e)))
<1>. DEFINE r == unpack(p, Cut(W, c, e))
<1>1. At(s, str, W, E, p, c, d) /\ out \in Seq(Messages) /\ OutOf(str, out) = PickedTo(s, str, E, d)
  BY DEF Stands
<1>2. d \in Nat /\ Clean(str, E, d)
  BY <1>1 DEF At
<1>3. Rounds(s, str, W, E, c, d, e, r)
  BY <1>1, UnpackAt
<1>. HIDE DEF r
<1>4. PICK c2 \in c..e : \E d2 \in Nat :
        /\ At(s, str, W, E, r.parser, c2, d2) /\ r.left = Cut(W, c2, e)
        /\ \/ r.out = <<>> /\ Passed(str, E, d, d2)
           \/ /\ \E j \in 1..Len(str) : str[j].kind = "old"
              /\ r.out = <<[head |-> <<>>, body |-> <<>>]>> /\ d2 = d
           \/ \E j \in 1..Len(str) :
                 /\ str[j].kind = "frame" /\ r.out = <<MessageOf(s, str, j)>> /\ d2 = E[j]
                 /\ Passed(str, E, d, E[j - 1]) /\ Clean(str, E, E[j - 1])
  BY <1>3 DEF Rounds
<1>5. PICK d2 \in Nat :
        /\ At(s, str, W, E, r.parser, c2, d2) /\ r.left = Cut(W, c2, e)
        /\ \/ r.out = <<>> /\ Passed(str, E, d, d2)
           \/ /\ \E j \in 1..Len(str) : str[j].kind = "old"
              /\ r.out = <<[head |-> <<>>, body |-> <<>>]>> /\ d2 = d
           \/ \E j \in 1..Len(str) :
                 /\ str[j].kind = "frame" /\ r.out = <<MessageOf(s, str, j)>> /\ d2 = E[j]
                 /\ Passed(str, E, d, E[j - 1]) /\ Clean(str, E, E[j - 1])
  BY <1>4
<1>. DEFINE new == out \o r.out
<1>6. new \in Seq(Messages) /\ OutOf(str, new) = PickedTo(s, str, E, d2)
  <2>1. CASE r.out = <<>> /\ Passed(str, E, d, d2)
    <3>1. out \o <<>> = out
      BY <1>1, ConcatEmptySeq
    <3>2. PickedTo(s, str, E, d) = PickedTo(s, str, E, d2)
      BY <1>2, <2>1, PassedPicks
    <3>. QED
      BY <1>1, <2>1, <3>1, <3>2
  <2>2. CASE /\ \E j \in 1..Len(str) : str[j].kind = "old"
             /\ r.out = <<[head |-> <<>>, body |-> <<>>]>> /\ d2 = d
    <3>. DEFINE nil == <<>>
                m == [head |-> nil, body |-> nil]
    <3>1. nil \in Seq(Units)
      BY EmptySeq
    <3>. HIDE DEF nil
    <3>2. m \in Messages /\ m.head = nil
      BY <3>1 DEF Messages
    <3>. HIDE DEF m
    <3>3. r.out = <<m>>
      BY <2>2 DEF m, nil
    <3>4. HasOld(str)
      <4>1. DOMAIN str = 1..Len(str)
        BY WorldIs, LenProperties
      <4>. QED
        BY <2>2, <4>1 DEF HasOld
    <3>5. CountedOf(str, m) = <<>>
      BY <3>2, <3>4 DEF CountedOf, nil
    <3>6. OutOf(str, out \o <<m>>) = OutOf(str, out) \o CountedOf(str, m) /\ out \o <<m>> \in Seq(Messages)
      BY <1>1, <3>2, OutAppend
    <3>7. OutOf(str, out) \o <<>> = OutOf(str, out)
      <4>1. PickedTo(s, str, E, d) \in Seq(Messages)
        <5>. DEFINE G == Due(s, str, E, d)
        <5>1. G \in Seq(Seq(Messages))
          BY DueIs
        <5>. HIDE DEF G
        <5>2. FlattenSeq(G) \in Seq(Messages)
          BY <5>1, FlattenType
        <5>. QED
          BY <5>2 DEF PickedTo, G
      <4>. QED
        BY <1>1, <4>1, ConcatEmptySeq
    <3>. QED
      BY <1>1, <2>2, <3>3, <3>5, <3>6, <3>7
  <2>3. ASSUME NEW j \in 1..Len(str), str[j].kind = "frame", r.out = <<MessageOf(s, str, j)>>, d2 = E[j],
               Passed(str, E, d, E[j - 1]), Clean(str, E, E[j - 1])
        PROVE  new \in Seq(Messages) /\ OutOf(str, new) = PickedTo(s, str, E, d2)
    <3>. DEFINE m == MessageOf(s, str, j)
    <3>1. m \in Messages
      BY MessageType
    <3>2. E[j - 1] \in Nat
      BY <2>3, FrameGrows
    <3>3. PickedTo(s, str, E, d) = PickedTo(s, str, E, E[j - 1])
      BY <1>2, <2>3, <3>2, PassedPicks
    <3>4. PickedTo(s, str, E, E[j]) = PickedTo(s, str, E, E[j - 1]) \o CountedOf(str, m)
      BY <2>3, FramePicks
    <3>. HIDE DEF m
    <3>5. OutOf(str, out \o <<m>>) = OutOf(str, out) \o CountedOf(str, m) /\ out \o <<m>> \in Seq(Messages)
      BY <1>1, <3>1, OutAppend
    <3>6. r.out = <<m>>
      BY <2>3 DEF m
    <3>. QED
      BY <1>1, <2>3, <3>3, <3>4, <3>5, <3>6
  <2>. QED
    BY <1>5, <2>1, <2>2, <2>3
<1>. HIDE DEF new
<1>7. Stands(s, str, W, E, r.parser, new, c2, d2)
  BY <1>5, <1>6 DEF Stands
<1>8. ReadsOn(s, str, W, E, out, c, e, r)
  BY <1>5, <1>7 DEF ReadsOn, new
<1>. QED
  BY <1>8 DEF r

-----------------------------------------------------------------------------
(* The pipes.                                                              *)

\* A notification after which no data comes
IsEnd(task) == task.kind = "notify" /\ Ends(task.what)

Over == {"failed", "closed"}

IsTask(x) ==
    \/ x = NoTask
    \/ x = [kind |-> "notify", what |-> x.what]
    \/ x = [kind |-> "data", data |-> x.data, pipe |-> x.pipe]

IsQueue(q) ==
    /\ \E S : q \in Seq(S)
    /\ \A k \in DOMAIN q : IsTask(q[k]) /\ (q[k].kind = "data" => q[k].pipe = 0)

IsSession(x) ==
    /\ x = [link |-> x.link, stream |-> x.stream, heard |-> x.heard, tasks |-> x.tasks,
            parser |-> x.parser, out |-> x.out]
    /\ IsQueue(x.tasks)

\* Held, for any peers
HeldBy(owner, map, sessions, running, s) ==
    \/ map[owner[s]] = s
    \/ HasData(sessions[s].tasks)
    \/ running[s].kind = "data"
    \/ \E t \in Ids : running[t].kind = "data" /\ running[t].pipe = s

-----------------------------------------------------------------------------
(* The invariant.                                                          *)

Shapes ==
    /\ last \in 0..MaxSessions /\ peer \in [Ids -> Peers] /\ pipes \in [Peers -> 0..last]
    /\ ses = [s \in Ids |-> ses[s]] /\ run = [s \in Ids |-> run[s]]
    /\ \A s \in Ids : IsSession(ses[s]) /\ IsTask(run[s])
    /\ \A s \in Ids : run[s].kind = "data" => run[s].pipe \in 0..last

\* Sessions not yet asked for
Fresh == \A s \in Ids : s > last => run[s] = NoTask /\ ses[s] = Gone

\* A session with tasks has not been destroyed
Kept == \A s \in Ids : ses[s].tasks # <<>> => HeldBy(peer, pipes, ses, run, s)

\* No data is posted after the notification that the stream has failed or closed
InTurn(q) == \A j, k \in DOMAIN q : j < k /\ IsEnd(q[j]) => q[k].kind # "data"
EndsLast ==
    \A s \in Ids :
        /\ InTurn(ses[s].tasks)
        /\ \A k \in DOMAIN ses[s].tasks : IsEnd(ses[s].tasks[k]) => ses[s].link \in Over
        /\ IsEnd(run[s]) => ses[s].link \in Over /\ ~HasData(ses[s].tasks)

\* Only a session with foreign data is in use by another session's thread
Foreign ==
    \A s, t \in Ids : run[t].kind = "data" /\ run[t].pipe = s /\ s # t => s \in mixed

\* A session that runs a notification is in the map, was passed over, or is held
\* by data
Notified ==
    \A s \in Ids : run[s].kind = "notify" =>
        pipes[peer[s]] = s \/ s \in passed \/ s \in mixed \/ HasData(ses[s].tasks)

\* A session with data under way finds a pipe, unless one was removed meanwhile
IsBusy(s) == run[s].kind = "data" \/ HasData(ses[s].tasks)
UnderWay ==
    \A s \in Ids : IsBusy(s) => pipes[peer[s]] # 0 \/ s \in cut \/ s \in mixed

Core == Shapes /\ Fresh /\ Kept /\ EndsLast /\ Foreign /\ Notified /\ UnderWay

Inv == Core /\ RemovesOwnPipe /\ DownOnlyIfCut

-----------------------------------------------------------------------------
(* Tasks, queues and sessions.                                             *)

LEMMA AliveIs == \A s : Alive(s) <=> HeldBy(peer, pipes, ses, run, s)
BY DEF Alive, Held, HeldBy

LEMMA Kinds ==
    /\ IsTask(NoTask) /\ NoTask.kind = "none" /\ ~IsEnd(NoTask)
    /\ \A w : /\ IsTask(Notify(w)) /\ Notify(w).kind = "notify" /\ Notify(w).what = w
              /\ IsEnd(Notify(w)) <=> Ends(w)
    /\ \A c : /\ IsTask(Data(c)) /\ Data(c).kind = "data" /\ Data(c).pipe = 0
              /\ ~IsEnd(Data(c))
    /\ \A x : x.kind = "data" => x # NoTask /\ ~IsEnd(x)
BY DEF IsTask, IsEnd, NoTask, Notify, Data

LEMMA EmptyQueue == IsQueue(<<>>) /\ ~HasData(<<>>) /\ InTurn(<<>>) /\ DOMAIN <<>> = {}
<1>1. <<>> \in Seq({}) /\ DOMAIN <<>> = {}
  BY EmptySeq
<1>. QED
  BY <1>1 DEF IsQueue, HasData, InTurn

LEMMA NewSession ==
    ASSUME NEW str
    PROVE  /\ IsSession(Session(str)) /\ Session(str).tasks = <<>>
           /\ IsSession(Gone) /\ Gone.tasks = <<>> /\ Gone.link = "closed"
BY EmptyQueue DEF Session, Gone, IsSession

LEMMA QueueAppend ==
    ASSUME NEW q, IsQueue(q), NEW x, IsTask(x), x.kind = "data" => x.pipe = 0
    PROVE  LET a == Append(q, x)
           IN  /\ IsQueue(a)
               /\ HasData(a) <=> HasData(q) \/ x.kind = "data"
               /\ \A k \in DOMAIN a : (k \in DOMAIN q /\ a[k] = q[k]) \/ a[k] = x
               /\ \A j, k \in DOMAIN a : j < k =>
                     j \in DOMAIN q /\ a[j] = q[j] /\ ((k \in DOMAIN q /\ a[k] = q[k]) \/ a[k] = x)
<1>. DEFINE a == Append(q, x)
            n == Len(q)
<1>1. PICK S : q \in Seq(S)
  BY DEF IsQueue
<1>. DEFINE T == S \cup {x}
<1>2. q \in Seq(T) /\ x \in T
  BY <1>1, SeqMonotonic
<1>. HIDE DEF T
<1>3. a \in Seq(T) /\ Len(a) = n + 1 /\ (\A k \in 1..n : a[k] = q[k]) /\ a[n + 1] = x /\ n \in Nat
  BY <1>2, AppendProperties, LenProperties
<1>4. DOMAIN a = 1..(n + 1) /\ DOMAIN q = 1..n
  BY <1>2, <1>3, LenProperties
<1>. HIDE DEF a, n
<1>5. \A k \in 1..(n + 1) : k \in 1..n \/ k = n + 1
  BY <1>3
<1>6. \A k \in DOMAIN a : (k \in DOMAIN q /\ a[k] = q[k]) \/ a[k] = x
  BY <1>3, <1>4, <1>5
<1>7. \A k \in DOMAIN q : k \in DOMAIN a /\ a[k] = q[k]
  BY <1>3, <1>4
<1>8. n + 1 \in DOMAIN a
  BY <1>3, <1>4
<1>9. HasData(a) <=> HasData(q) \/ x.kind = "data"
  BY <1>3, <1>6, <1>7, <1>8 DEF HasData
<1>10. IsQueue(a)
  BY <1>3, <1>6 DEF IsQueue
<1>11. \A j, k \in DOMAIN a : j < k => j \in DOMAIN q /\ a[j] = q[j]
  BY <1>3, <1>4
<1>. QED
  BY <1>6, <1>9, <1>10, <1>11 DEF a

LEMMA QueueTail ==
    ASSUME NEW q, IsQueue(q), q # <<>>
    PROVE  /\ IsQueue(Tail(q)) /\ IsTask(Head(q)) /\ (Head(q).kind = "data" => Head(q).pipe = 0)
           /\ HasData(q) <=> Head(q).kind = "data" \/ HasData(Tail(q))
           /\ \A k \in DOMAIN Tail(q) : k + 1 \in DOMAIN q /\ Tail(q)[k] = q[k + 1] /\ k \in Nat /\ k > 0
           /\ 1 \in DOMAIN q /\ Head(q) = q[1]
<1>. DEFINE a == Tail(q)
            n == Len(q)
<1>1. PICK S : q \in Seq(S)
  BY DEF IsQueue
<1>2. a \in Seq(S) /\ Len(a) = n - 1 /\ n \in Nat \ {0}
      /\ (\A k \in 1..Len(a) : a[k] = q[k + 1]) /\ Head(q) = q[1]
  BY <1>1, HeadTailProperties, EmptySeq
<1>3. DOMAIN q = 1..n /\ DOMAIN a = 1..(n - 1)
  BY <1>1, <1>2, LenProperties
<1>. HIDE DEF a, n
<1>4. \A k \in DOMAIN a : k + 1 \in DOMAIN q /\ a[k] = q[k + 1] /\ k \in Nat /\ k > 0
  BY <1>2, <1>3
<1>5. 1 \in DOMAIN q
  BY <1>2, <1>3
<1>6. \A k \in DOMAIN q : k = 1 \/ (k - 1 \in DOMAIN a /\ a[k - 1] = q[k])
  BY <1>2, <1>3
<1>7. IsQueue(a)
  BY <1>2, <1>4 DEF IsQueue
<1>8. IsTask(Head(q)) /\ (Head(q).kind = "data" => Head(q).pipe = 0)
  BY <1>2, <1>5 DEF IsQueue
<1>9. HasData(q) <=> Head(q).kind = "data" \/ HasData(a)
  <2>1. HasData(q) => Head(q).kind = "data" \/ HasData(a)
    BY <1>2, <1>6 DEF HasData
  <2>2. Head(q).kind = "data" => HasData(q)
    BY <1>2, <1>5 DEF HasData
  <2>3. HasData(a) => HasData(q)
    BY <1>4 DEF HasData
  <2>. QED
    BY <2>1, <2>2, <2>3
<1>. QED
  BY <1>2, <1>4, <1>5, <1>7, <1>8, <1>9 DEF a

\* What Released keeps, and what it leaves of the rest.
LEMMA ReleasedKeeps ==
    ASSUME NEW map, NEW sessions, NEW running, \A s \in Ids : IsSession(sessions[s])
    PROVE  LET r == Released(map, sessions, running)
           IN  /\ r = [s \in Ids |-> r[s]]
               /\ \A s \in Ids : /\ IsSession(r[s])
                                 /\ r[s] = sessions[s] \/ (r[s] = Gone /\ ~HasData(sessions[s].tasks))
                                 /\ r[s].tasks # <<>> => HeldBy(peer, map, r, running, s)
<1>. DEFINE r == Released(map, sessions, running)
<1>1. r = [s \in Ids |-> r[s]]
  BY DEF Released
<1>2. \A s \in Ids : r[s] = IF HeldBy(peer, map, sessions, running, s) THEN sessions[s] ELSE Gone
  BY DEF Released, Held, HeldBy
<1>. HIDE DEF r
<1>3. ASSUME NEW s \in Ids
      PROVE  /\ IsSession(r[s])
             /\ r[s] = sessions[s] \/ (r[s] = Gone /\ ~HasData(sessions[s].tasks))
             /\ r[s].tasks # <<>> => HeldBy(peer, map, r, running, s)
  <2>1. CASE HeldBy(peer, map, sessions, running, s)
    <3>1. r[s] = sessions[s]
      BY <1>2, <2>1
    <3>2. HeldBy(peer, map, r, running, s)
      BY <2>1, <3>1 DEF HeldBy
    <3>. QED
      BY <3>1, <3>2
  <2>2. CASE ~HeldBy(peer, map, sessions, running, s)
    <3>1. r[s] = Gone
      BY <1>2, <2>2
    <3>2. ~HasData(sessions[s].tasks)
      BY <2>2 DEF HeldBy
    <3>. QED
      BY <3>1, <3>2, NewSession
  <2>. QED
    BY <2>1, <2>2
<1>. QED
  BY <1>1, <1>3 DEF r

-----------------------------------------------------------------------------
(* Steps that release sessions: a pipe is removed, or a round of unpack.    *)

\* A thread goes on, is done, or goes on with other data
GoesOn(old, new) ==
    \/ new = old
    \/ new = NoTask
    \/ old.kind = "data" /\ new.kind = "data" /\ new.pipe = old.pipe /\ IsTask(new)

LEMMA ReleaseStep ==
    ASSUME Core, NEW sessions,
           \A t \in Ids : /\ IsSession(sessions[t]) /\ sessions[t].tasks = ses[t].tasks
                          /\ sessions[t].link = ses[t].link
                          /\ t > last => sessions[t] = ses[t],
           run' = [t \in Ids |-> run'[t]], \A t \in Ids : GoesOn(run[t], run'[t]),
           ses' = Released(pipes', sessions, run'),
           pipes' \in [Peers -> 0..last],
           peer' = peer, last' = last, mixed' = mixed,
           passed \subseteq passed', cut \subseteq cut',
           \A t \in Ids : run'[t].kind = "notify" /\ pipes[peer[t]] = t =>
                pipes'[peer[t]] = t \/ t \in passed',
           \A t \in Ids : IsBusy(t) /\ pipes[peer[t]] # 0 => pipes'[peer[t]] # 0 \/ t \in cut'
    PROVE  Core'
<1>1. /\ ses' = [s \in Ids |-> ses'[s]]
      /\ \A s \in Ids : /\ IsSession(ses'[s])
                        /\ ses'[s] = sessions[s] \/ (ses'[s] = Gone /\ ~HasData(sessions[s].tasks))
                        /\ ses'[s].tasks # <<>> => HeldBy(peer, pipes', ses', run', s)
  BY ReleasedKeeps
<1>2. \A t \in Ids : /\ \/ ses'[t].tasks = ses[t].tasks /\ ses'[t].link = ses[t].link
                        \/ ses'[t].tasks = <<>> /\ ses'[t].link = "closed" /\ ~HasData(ses[t].tasks)
                     /\ t > last => ses'[t] = ses[t] \/ ses'[t] = Gone
  BY <1>1, NewSession
<1>3. \A t \in Ids : /\ run'[t].kind = "data" => run[t].kind = "data" /\ run'[t].pipe = run[t].pipe
                     /\ run'[t].kind = "notify" => run'[t] = run[t]
                     /\ IsEnd(run'[t]) => IsEnd(run[t])
                     /\ IsTask(run'[t])
  BY Kinds DEF GoesOn, Core, Shapes
<1>4. Shapes'
  BY <1>1, <1>3 DEF Core, Shapes
<1>5. Fresh'
  <2>. SUFFICES ASSUME NEW t \in Ids, t > last PROVE run'[t] = NoTask /\ ses'[t] = Gone
    BY DEF Fresh
  <2>1. run[t] = NoTask /\ ses[t] = Gone
    BY DEF Core, Fresh
  <2>. QED
    BY <1>2, <2>1, Kinds DEF GoesOn
<1>6. Kept'
  BY <1>1 DEF Kept
<1>7. EndsLast'
  <2>. SUFFICES ASSUME NEW s \in Ids
                PROVE  /\ InTurn(ses'[s].tasks)
                       /\ \A k \in DOMAIN ses'[s].tasks : IsEnd(ses'[s].tasks[k]) => ses'[s].link \in Over
                       /\ IsEnd(run'[s]) => ses'[s].link \in Over /\ ~HasData(ses'[s].tasks)
    BY DEF EndsLast
  <2>1. CASE ses'[s].tasks = ses[s].tasks /\ ses'[s].link = ses[s].link
    BY <1>3, <2>1 DEF Core, EndsLast
  <2>2. CASE ses'[s].tasks = <<>> /\ ses'[s].link = "closed"
    BY <2>2, EmptyQueue DEF Over
  <2>. QED
    BY <1>2, <2>1, <2>2
<1>8. Foreign'
  BY <1>3 DEF Core, Foreign
<1>9. \A t \in Ids : HasData(ses'[t].tasks) <=> HasData(ses[t].tasks)
  BY <1>2, EmptyQueue
<1>10. Notified'
  <2>. SUFFICES ASSUME NEW t \in Ids, run'[t].kind = "notify"
                PROVE  \/ pipes'[peer[t]] = t \/ t \in passed' \/ t \in mixed
                       \/ HasData(ses'[t].tasks)
    BY DEF Notified
  <2>1. run[t].kind = "notify"
    BY <1>3
  <2>2. pipes[peer[t]] = t \/ t \in passed \/ t \in mixed \/ HasData(ses[t].tasks)
    BY <2>1 DEF Core, Notified
  <2>. QED
    BY <1>9, <2>2
<1>11. UnderWay'
  <2>. SUFFICES ASSUME NEW t \in Ids, IsBusy(t)'
                PROVE  pipes'[peer[t]] # 0 \/ t \in cut' \/ t \in mixed
    BY DEF UnderWay
  <2>1. IsBusy(t)
    BY <1>3, <1>9 DEF IsBusy
  <2>2. pipes[peer[t]] # 0 \/ t \in cut \/ t \in mixed
    BY <2>1 DEF Core, UnderWay
  <2>. QED
    BY <2>1, <2>2
<1>. QED
  BY <1>4, <1>5, <1>6, <1>7, <1>8, <1>10, <1>11 DEF Core

\* The thread of a session is done with its task.
LEMMA DoneIs ==
    ASSUME Core, NEW s \in Ids
    PROVE  /\ Done(s) = [t \in Ids |-> Done(s)[t]] /\ Done(s)[s] = NoTask
           /\ \A t \in Ids : t # s => Done(s)[t] = run[t]
           /\ \A t \in Ids : GoesOn(run[t], Done(s)[t])
BY DEF Core, Shapes, Done, GoesOn

\* Pipes of peers are removed: the sessions with data under way are cut, those
\* that run a notification are passed over, but for the one that removes.
LEMMA RemovedCore ==
    ASSUME Core, NEW peers \in SUBSET Peers, NEW except, Removed(peers, run', except),
           run' = [t \in Ids |-> run'[t]], \A t \in Ids : GoesOn(run[t], run'[t]),
           \A t \in Ids \cap except : run'[t] = NoTask,
           UNCHANGED <<last, peer, mixed>>
    PROVE  Core'
<1>. DEFINE U == UNION {Notifying(p) : p \in peers}
<1>1. /\ pipes' = [p \in Peers |-> IF p \in peers THEN 0 ELSE pipes[p]]
      /\ ses' = Released(pipes', ses, run')
      /\ cut' = cut \cup UNION {Busy(p) : p \in peers}
      /\ passed' = passed \cup (U \ except)
  BY DEF Removed, Without
<1>2. last \in 0..MaxSessions /\ peer \in [Ids -> Peers] /\ pipes \in [Peers -> 0..last] /\ MaxSessions \in Nat
  BY PipesAssumption DEF Core, Shapes
<1>3. pipes' \in [Peers -> 0..last]
  BY <1>1, <1>2
<1>4. \A t \in Ids : run[t] # NoTask \/ ses[t] # Gone => t \in Sessions
  BY <1>2 DEF Core, Fresh, Sessions, Ids
<1>5. \A t \in Ids : run'[t].kind = "notify" /\ pipes[peer[t]] = t =>
                pipes'[peer[t]] = t \/ t \in passed'
  <2>. SUFFICES ASSUME NEW t \in Ids, run'[t].kind = "notify", pipes[peer[t]] = t, peer[t] \in peers
                PROVE  t \in passed'
    BY <1>1, <1>2
  <2>1. run[t] # NoTask /\ run[t].kind = "notify" /\ t \notin except
    BY Kinds DEF GoesOn
  <2>2. t \in Notifying(peer[t])
    BY <1>4, <2>1 DEF Notifying
  <2>3. t \in U
    BY <2>2
  <2>. HIDE DEF U
  <2>. QED
    BY <1>1, <2>1, <2>3
<1>6. \A t \in Ids : IsBusy(t) /\ pipes[peer[t]] # 0 => pipes'[peer[t]] # 0 \/ t \in cut'
  <2>. SUFFICES ASSUME NEW t \in Ids, IsBusy(t), peer[t] \in peers
                PROVE  t \in cut'
    BY <1>1, <1>2
  <2>1. run[t] # NoTask \/ ses[t] # Gone
    BY Kinds, NewSession, EmptyQueue DEF IsBusy
  <2>2. t \in Busy(peer[t])
    BY <1>4, <2>1 DEF Busy, IsBusy
  <2>. QED
    BY <1>1, <2>2
<1>7. \A t \in Ids : IsSession(ses[t])
  BY DEF Core, Shapes
<1>8. passed \subseteq passed' /\ cut \subseteq cut'
  BY <1>1
<1>. QED
  BY <1>1, <1>3, <1>5, <1>6, <1>7, <1>8, ReleaseStep

-----------------------------------------------------------------------------
(* The Carrier thread.                                                     *)

LEMMA NewIs ==
    ASSUME Core, NEW p \in Peers, New(p)
    PROVE  /\ last \in Nat /\ last + 1 \in Ids /\ last' = last + 1 /\ last' \in 0..MaxSessions
           /\ peer' \in [Ids -> Peers] /\ peer'[last + 1] = p
           /\ \A t \in Ids : t # last + 1 => peer'[t] = peer[t]
           /\ run[last + 1] = NoTask /\ ses[last + 1] = Gone
<1>1. last \in 0..MaxSessions /\ MaxSessions \in Nat /\ peer \in [Ids -> Peers]
  BY PipesAssumption DEF Core, Shapes
<1>2. last < MaxSessions /\ last' = last + 1 /\ peer' = [peer EXCEPT ![last + 1] = p]
  BY DEF New
<1>3. last \in Nat /\ last + 1 \in Ids /\ last' \in 0..MaxSessions /\ last + 1 > last
  BY <1>1, <1>2 DEF Ids
<1>4. run[last + 1] = NoTask /\ ses[last + 1] = Gone
  BY <1>3 DEF Core, Fresh
<1>. QED
  BY <1>1, <1>2, <1>3, <1>4

LEMMA RequestCore ==
    ASSUME Core, NEW p \in Peers, NEW str, onSessionRequest(p, str)
    PROVE  Core'
<1>. DEFINE n == last + 1
            rel == Released(pipes', ses, run)
<1>1. /\ New(p) /\ pipes' = [pipes EXCEPT ![p] = n]
      /\ ses' = [rel EXCEPT ![n] = Session(str)]
      /\ passed' = passed \cup Notifying(p)
      /\ UNCHANGED <<down, run, mixed, cut, wrong>>
  BY DEF onSessionRequest, appendDataPipe
<1>2. /\ last \in Nat /\ n \in Ids /\ last' = n /\ last' \in 0..MaxSessions
      /\ peer' \in [Ids -> Peers] /\ peer'[n] = p
      /\ \A t \in Ids : t # n => peer'[t] = peer[t]
      /\ run[n] = NoTask /\ ses[n] = Gone
  BY <1>1, NewIs
<1>3. \A t \in Ids : IsSession(ses[t])
  BY DEF Core, Shapes
<1>4. /\ rel = [s \in Ids |-> rel[s]]
      /\ \A s \in Ids : /\ IsSession(rel[s])
                        /\ rel[s] = ses[s] \/ (rel[s] = Gone /\ ~HasData(ses[s].tasks))
                        /\ rel[s].tasks # <<>> => HeldBy(peer, pipes', rel, run, s)
  BY <1>3, ReleasedKeeps
<1>. HIDE DEF rel, n
<1>5. /\ ses' = [t \in Ids |-> ses'[t]] /\ ses'[n] = Session(str)
      /\ \A t \in Ids : t # n => ses'[t] = rel[t]
  BY <1>1, <1>2, <1>4
<1>6. Session(str).tasks = <<>> /\ IsSession(Session(str)) /\ Gone.tasks = <<>> /\ Gone.link = "closed"
  BY NewSession
<1>7. \A t \in Ids : t # n => /\ \/ ses'[t].tasks = ses[t].tasks /\ ses'[t].link = ses[t].link
                                 \/ ses'[t].tasks = <<>> /\ ses'[t].link = "closed" /\ ~HasData(ses[t].tasks)
                              /\ ses'[t] = ses[t] \/ ses'[t] = Gone
  BY <1>4, <1>5, <1>6
<1>8. pipes \in [Peers -> 0..last] /\ pipes' \in [Peers -> 0..n] /\ pipes'[p] = n
      /\ (\A x \in Peers : x # p => pipes'[x] = pipes[x]) /\ n # 0
  <2>1. pipes \in [Peers -> 0..last] /\ 0..last \subseteq 0..n /\ n \in 0..n /\ n # 0
    BY <1>2 DEF Core, Shapes, n
  <2>. QED
    BY <1>1, <2>1
<1>9. Shapes'
  <2>1. \A t \in Ids : IsSession(ses'[t])
    BY <1>4, <1>5, <1>6
  <2>2. \A t \in Ids : run[t].kind = "data" => run[t].pipe \in 0..n
    BY <1>2 DEF Core, Shapes, n
  <2>. QED
    BY <1>1, <1>2, <1>5, <1>8, <2>1, <2>2 DEF Core, Shapes
<1>10. Fresh'
  <2>. SUFFICES ASSUME NEW t \in Ids, t > n PROVE run[t] = NoTask /\ ses'[t] = Gone
    BY <1>1, <1>2 DEF Fresh
  <2>1. t > last /\ t # n
    BY <1>2 DEF n, Ids
  <2>. QED
    BY <1>7, <2>1 DEF Core, Fresh
<1>11. Kept'
  <2>. SUFFICES ASSUME NEW t \in Ids, ses'[t].tasks # <<>>
                PROVE  HeldBy(peer', pipes', ses', run, t)
    BY <1>1 DEF Kept
  <2>1. t # n /\ ses'[t] = rel[t] /\ peer'[t] = peer[t]
    BY <1>2, <1>5, <1>6
  <2>2. HeldBy(peer, pipes', rel, run, t)
    BY <1>4, <2>1
  <2>. QED
    BY <2>1, <2>2 DEF HeldBy
<1>12. EndsLast'
  <2>. SUFFICES ASSUME NEW t \in Ids
                PROVE  /\ InTurn(ses'[t].tasks)
                       /\ \A k \in DOMAIN ses'[t].tasks : IsEnd(ses'[t].tasks[k]) => ses'[t].link \in Over
                       /\ IsEnd(run[t]) => ses'[t].link \in Over /\ ~HasData(ses'[t].tasks)
    BY <1>1 DEF EndsLast
  <2>1. CASE t = n
    BY <1>2, <1>5, <1>6, <2>1, EmptyQueue, Kinds
  <2>2. CASE t # n /\ ses'[t].tasks = ses[t].tasks /\ ses'[t].link = ses[t].link
    BY <2>2 DEF Core, EndsLast
  <2>3. CASE ses'[t].tasks = <<>> /\ ses'[t].link = "closed"
    BY <2>3, EmptyQueue DEF Over
  <2>. QED
    BY <1>7, <2>1, <2>2, <2>3
<1>13. Foreign'
  BY <1>1 DEF Core, Foreign
<1>14. \A t \in Ids : t # n => (HasData(ses'[t].tasks) <=> HasData(ses[t].tasks))
  BY <1>7, EmptyQueue
<1>15. Notified'
  <2>. SUFFICES ASSUME NEW t \in Ids, run[t].kind = "notify"
                PROVE  \/ pipes'[peer'[t]] = t \/ t \in passed' \/ t \in mixed
                       \/ HasData(ses'[t].tasks)
    BY <1>1 DEF Notified
  <2>1. t # n /\ run[t] # NoTask
    BY <1>2, Kinds
  <2>2. pipes[peer[t]] = t \/ t \in passed \/ t \in mixed \/ HasData(ses[t].tasks)
    BY DEF Core, Notified
  <2>3. CASE pipes[peer[t]] = t /\ peer[t] = p
    <3>1. t \in Sessions
      BY <1>2, <2>1 DEF Core, Fresh, Sessions, Ids
    <3>. QED
      BY <1>1, <2>3, <3>1 DEF Notifying
  <2>4. CASE pipes[peer[t]] = t /\ peer[t] # p
    <3>1. peer[t] \in Peers /\ peer'[t] = peer[t]
      BY <1>2, <2>1 DEF Core, Shapes
    <3>. QED
      BY <1>8, <2>4, <3>1
  <2>. QED
    BY <1>1, <1>14, <2>1, <2>2, <2>3, <2>4
<1>16. UnderWay'
  <2>. SUFFICES ASSUME NEW t \in Ids, run[t].kind = "data" \/ HasData(ses'[t].tasks)
                PROVE  pipes'[peer'[t]] # 0 \/ t \in cut \/ t \in mixed
    BY <1>1 DEF UnderWay, IsBusy
  <2>1. t # n
    BY <1>2, <1>5, <1>6, Kinds, EmptyQueue
  <2>2. pipes[peer[t]] # 0 \/ t \in cut \/ t \in mixed
    BY <1>14, <2>1 DEF Core, UnderWay, IsBusy
  <2>3. peer[t] \in Peers /\ peer'[t] = peer[t]
    BY <1>2, <2>1 DEF Core, Shapes
  <2>. QED
    BY <1>8, <2>2, <2>3
<1>. QED
  BY <1>9, <1>10, <1>11, <1>12, <1>13, <1>15, <1>16 DEF Core

\* The Error of a session that was never put into the map may be running.
LEMMA RequestFailsCore ==
    ASSUME Core, NEW p \in Peers, SessionRequestFails(p)
    PROVE  Core'
<1>. DEFINE n == last + 1
<1>1. /\ New(p)
      /\ \/ run' = [run EXCEPT ![n] = Notify("Error")] /\ passed' = passed \cup {n}
         \/ UNCHANGED <<run, passed>>
         \/ passed' = passed \cup {n} /\ UNCHANGED run
      /\ UNCHANGED <<pipes, ses, mixed, cut, wrong>>
  BY DEF SessionRequestFails, Throws
<1>2. /\ last \in Nat /\ n \in Ids /\ last' = n /\ last' \in 0..MaxSessions
      /\ peer' \in [Ids -> Peers] /\ peer'[n] = p
      /\ \A t \in Ids : t # n => peer'[t] = peer[t]
      /\ run[n] = NoTask /\ ses[n] = Gone
  BY <1>1, NewIs
<1>3. run = [t \in Ids |-> run[t]]
  BY DEF Core, Shapes
<1>4. /\ run' = [t \in Ids |-> run'[t]]
      /\ \A t \in Ids : t # n => run'[t] = run[t]
      /\ run'[n] = NoTask \/ (run'[n] = Notify("Error") /\ n \in passed')
      /\ passed \subseteq passed'
  BY <1>1, <1>2, <1>3
<1>. HIDE DEF n
<1>5. Gone.tasks = <<>> /\ Gone.link = "closed"
  BY NewSession
<1>6. run'[n].kind # "data" /\ IsTask(run'[n])
  BY <1>4, Kinds
<1>7. Shapes'
  <2>1. pipes \in [Peers -> 0..last] /\ 0..last \subseteq 0..n
    BY <1>2 DEF Core, Shapes, n
  <2>2. pipes' \in [Peers -> 0..n]
    BY <1>1, <2>1
  <2>3. \A t \in Ids : IsTask(run'[t]) /\ (run'[t].kind = "data" => run'[t].pipe \in 0..n)
    BY <1>4, <1>6, <2>1 DEF Core, Shapes
  <2>. QED
    BY <1>1, <1>2, <1>4, <2>2, <2>3 DEF Core, Shapes
<1>8. Fresh'
  <2>. SUFFICES ASSUME NEW t \in Ids, t > n PROVE run'[t] = NoTask /\ ses[t] = Gone
    BY <1>1, <1>2 DEF Fresh
  <2>1. t > last /\ t # n
    BY <1>2 DEF n, Ids
  <2>. QED
    BY <1>4, <2>1 DEF Core, Fresh
<1>9. Kept'
  <2>. SUFFICES ASSUME NEW t \in Ids, ses[t].tasks # <<>>
                PROVE  HeldBy(peer', pipes, ses, run', t)
    BY <1>1 DEF Kept
  <2>1. t # n /\ peer'[t] = peer[t] /\ run'[t] = run[t]
    BY <1>2, <1>4, <1>5
  <2>2. HeldBy(peer, pipes, ses, run, t)
    BY DEF Core, Kept
  <2>3. \A u \in Ids : run[u].kind = "data" => run'[u] = run[u]
    BY <1>2, <1>4, Kinds
  <2>. QED
    BY <2>1, <2>2, <2>3 DEF HeldBy
<1>10. EndsLast'
  <2>. SUFFICES ASSUME NEW t \in Ids
                PROVE  IsEnd(run'[t]) => ses[t].link \in Over /\ ~HasData(ses[t].tasks)
    BY <1>1 DEF Core, EndsLast
  <2>1. CASE t = n
    BY <1>2, <1>5, <2>1, EmptyQueue DEF Over
  <2>2. CASE t # n
    BY <1>4, <2>2 DEF Core, EndsLast
  <2>. QED
    BY <2>1, <2>2
<1>11. Foreign'
  BY <1>1, <1>4, <1>6 DEF Core, Foreign
<1>12. Notified'
  <2>. SUFFICES ASSUME NEW t \in Ids, run'[t].kind = "notify"
                PROVE  \/ pipes[peer'[t]] = t \/ t \in passed' \/ t \in mixed
                       \/ HasData(ses[t].tasks)
    BY <1>1 DEF Notified
  <2>1. CASE t = n
    BY <1>4, <2>1, Kinds
  <2>2. CASE t # n
    <3>1. pipes[peer[t]] = t \/ t \in passed \/ t \in mixed \/ HasData(ses[t].tasks)
      BY <1>4, <2>2 DEF Core, Notified
    <3>. QED
      BY <1>2, <1>4, <2>2, <3>1
  <2>. QED
    BY <2>1, <2>2
<1>13. UnderWay'
  <2>. SUFFICES ASSUME NEW t \in Ids, run'[t].kind = "data" \/ HasData(ses[t].tasks)
                PROVE  pipes[peer'[t]] # 0 \/ t \in cut \/ t \in mixed
    BY <1>1 DEF UnderWay, IsBusy
  <2>1. t # n
    BY <1>2, <1>5, <1>6, EmptyQueue
  <2>2. pipes[peer[t]] # 0 \/ t \in cut \/ t \in mixed
    BY <1>4, <2>1 DEF Core, UnderWay, IsBusy
  <2>. QED
    BY <1>2, <2>1, <2>2
<1>. QED
  BY <1>7, <1>8, <1>9, <1>10, <1>11, <1>12, <1>13 DEF Core

\* A task is posted to a session that is alive: no data once the stream is over,
\* and the notification of its end only then.
LEMMA PostedCore ==
    ASSUME Core, NEW s \in Ids, Alive(s), ses[s].link # "closed",
           NEW task, IsTask(task), task.kind = "data" => task.pipe = 0 /\ ses[s].link = "connected",
           ses' = [t \in Ids |-> ses'[t]],
           \A t \in Ids : t # s => ses'[t] = ses[t],
           IsSession(ses'[s]), ses'[s].tasks = Append(ses[s].tasks, task),
           ses[s].link \in Over => ses'[s].link \in Over,
           IsEnd(task) => ses'[s].link \in Over,
           UNCHANGED <<last, peer, pipes, run, mixed, cut, passed>>
    PROVE  Core'
<1>. DEFINE q == ses[s].tasks
            a == Append(q, task)
<1>1. IsQueue(q) /\ last \in Nat
  BY PipesAssumption DEF Core, Shapes, IsSession
<1>2. /\ HasData(a) <=> HasData(q) \/ task.kind = "data"
      /\ \A k \in DOMAIN a : (k \in DOMAIN q /\ a[k] = q[k]) \/ a[k] = task
      /\ \A j, k \in DOMAIN a : j < k =>
            j \in DOMAIN q /\ a[j] = q[j] /\ ((k \in DOMAIN q /\ a[k] = q[k]) \/ a[k] = task)
  BY <1>1, QueueAppend
<1>3. ~(s > last)
  BY NewSession DEF Core, Fresh
<1>. HIDE DEF q, a
<1>4. HeldBy(peer, pipes, ses, run, s)
  BY AliveIs
<1>5. \A t \in Ids : HasData(ses[t].tasks) => HasData(ses'[t].tasks)
  BY <1>2 DEF q, a
<1>6. \A t \in Ids : HeldBy(peer, pipes, ses, run, t) => HeldBy(peer, pipes, ses', run, t)
  BY <1>5 DEF HeldBy
<1>7. Shapes'
  BY DEF Core, Shapes
<1>8. Fresh'
  BY <1>3 DEF Core, Fresh
<1>9. Kept'
  BY <1>4, <1>6 DEF Core, Kept
<1>10. EndsLast'
  <2>. SUFFICES ASSUME NEW t \in Ids
                PROVE  /\ InTurn(ses'[t].tasks)
                       /\ \A k \in DOMAIN ses'[t].tasks : IsEnd(ses'[t].tasks[k]) => ses'[t].link \in Over
                       /\ IsEnd(run[t]) => ses'[t].link \in Over /\ ~HasData(ses'[t].tasks)
    BY DEF EndsLast
  <2>1. CASE t # s
    BY <2>1 DEF Core, EndsLast
  <2>2. CASE t = s
    <3>1. /\ InTurn(q) /\ (\A k \in DOMAIN q : IsEnd(q[k]) => ses[s].link \in Over)
          /\ IsEnd(run[s]) => ses[s].link \in Over /\ ~HasData(q)
      BY DEF Core, EndsLast, q
    <3>2. task.kind = "data" => ses[s].link \notin Over
      BY DEF Over
    <3>3. InTurn(a)
      <4>. SUFFICES ASSUME NEW j \in DOMAIN a, NEW k \in DOMAIN a, j < k, IsEnd(a[j])
                    PROVE  a[k].kind # "data"
        BY DEF InTurn
      <4>1. j \in DOMAIN q /\ a[j] = q[j] /\ ((k \in DOMAIN q /\ a[k] = q[k]) \/ a[k] = task)
        BY <1>2
      <4>2. CASE k \in DOMAIN q /\ a[k] = q[k]
        BY <3>1, <4>1, <4>2 DEF InTurn
      <4>3. CASE a[k] = task
        BY <3>1, <3>2, <4>1, <4>3
      <4>. QED
        BY <4>1, <4>2, <4>3
    <3>4. \A k \in DOMAIN a : IsEnd(a[k]) => ses'[s].link \in Over
      BY <1>2, <3>1
    <3>5. IsEnd(run[s]) => ses'[s].link \in Over /\ ~HasData(a)
      BY <1>2, <3>1, <3>2
    <3>6. ses'[s].tasks = a
      BY DEF a, q
    <3>. QED
      BY <2>2, <3>3, <3>4, <3>5, <3>6
  <2>. QED
    BY <2>1, <2>2
<1>11. Foreign'
  BY DEF Core, Foreign
<1>12. Notified'
  BY <1>5 DEF Core, Notified
<1>13. UnderWay'
  <2>. SUFFICES ASSUME NEW t \in Ids, run[t].kind = "data" \/ HasData(ses'[t].tasks)
                PROVE  pipes[peer[t]] # 0 \/ t \in cut \/ t \in mixed
    BY DEF UnderWay, IsBusy
  <2>1. CASE IsBusy(t)
    BY <2>1 DEF Core, UnderWay
  <2>2. CASE ~IsBusy(t)
    <3>1. t = s
      BY <2>2 DEF IsBusy
    <3>2. \/ pipes[peer[s]] = s
          \/ \E u \in Ids : u # s /\ run[u].kind = "data" /\ run[u].pipe = s
      BY <1>4, <2>2, <3>1 DEF HeldBy, IsBusy
    <3>3. s # 0
      BY DEF Ids
    <3>. QED
      BY <3>1, <3>2, <3>3 DEF Core, Foreign
  <2>. QED
    BY <2>1, <2>2
<1>. QED
  BY <1>7, <1>8, <1>9, <1>10, <1>11, <1>12, <1>13 DEF Core

LEMMA ReceivedCore ==
    ASSUME Core, NEW s \in Ids, NEW n, onReceivedData(s, n)
    PROVE  Core'
<1>. DEFINE h == ses[s].heard + n
            task == Data(SubSeq(Wire(s), ses[s].heard + 1, h))
            q == Append(ses[s].tasks, task)
<1>1. /\ Alive(s) /\ ses[s].link = "connected"
      /\ ses' = [ses EXCEPT ![s].heard = h, ![s].tasks = q]
      /\ UNCHANGED <<last, peer, pipes, run, mixed, cut, passed>>
  BY DEF onReceivedData, Post, history
<1>2. IsTask(task) /\ task.kind = "data" /\ task.pipe = 0 /\ ~IsEnd(task)
  BY Kinds
<1>3. ses = [t \in Ids |-> ses[t]] /\ IsSession(ses[s])
  BY DEF Core, Shapes
<1>4. IsQueue(q)
  BY <1>2, <1>3, QueueAppend DEF IsSession
<1>. HIDE DEF h, task, q
<1>5. /\ ses' = [t \in Ids |-> ses'[t]] /\ (\A t \in Ids : t # s => ses'[t] = ses[t])
      /\ ses'[s] = [ses[s] EXCEPT !.heard = h, !.tasks = q]
  BY <1>1, <1>3
<1>6. IsSession(ses'[s]) /\ ses'[s].tasks = q /\ ses'[s].link = ses[s].link
  BY <1>3, <1>4, <1>5 DEF IsSession
<1>7. ses'[s].tasks = Append(ses[s].tasks, task)
  BY <1>6 DEF q
<1>. QED
  BY <1>1, <1>2, <1>5, <1>6, <1>7, PostedCore

LEMMA StateChangedCore ==
    ASSUME Core, NEW s \in Ids, NEW from, NEW to, NEW what, StateChanged(s, from, to, what),
           "closed" \notin from, "failed" \in from => to \in Over, Ends(what) => to \in Over
    PROVE  Core'
<1>. DEFINE task == Notify(what)
            q == Append(ses[s].tasks, task)
<1>1. /\ Alive(s) /\ ses[s].link \in from
      /\ ses' = [ses EXCEPT ![s].link = to, ![s].tasks = q]
      /\ UNCHANGED <<last, peer, pipes, run, mixed, cut, passed>>
  BY DEF StateChanged, Post, history
<1>2. IsTask(task) /\ task.kind # "data" /\ (IsEnd(task) <=> Ends(what))
  BY Kinds
<1>3. ses = [t \in Ids |-> ses[t]] /\ IsSession(ses[s])
  BY DEF Core, Shapes
<1>4. IsQueue(q)
  BY <1>2, <1>3, QueueAppend DEF IsSession
<1>. HIDE DEF task, q
<1>5. /\ ses' = [t \in Ids |-> ses'[t]] /\ (\A t \in Ids : t # s => ses'[t] = ses[t])
      /\ ses'[s] = [ses[s] EXCEPT !.link = to, !.tasks = q]
  BY <1>1, <1>3
<1>6. IsSession(ses'[s]) /\ ses'[s].tasks = q /\ ses'[s].link = to
  BY <1>3, <1>4, <1>5 DEF IsSession
<1>7. ses'[s].tasks = Append(ses[s].tasks, task)
  BY <1>6 DEF q
<1>8. ses[s].link # "closed" /\ (ses[s].link \in Over => to \in Over)
  BY <1>1 DEF Over
<1>9. /\ Alive(s) /\ (ses[s].link \in Over => ses'[s].link \in Over)
      /\ (IsEnd(task) => ses'[s].link \in Over)
      /\ UNCHANGED <<last, peer, pipes, run, mixed, cut, passed>>
  BY <1>1, <1>2, <1>6, <1>8
<1>10. ses' = [t \in Ids |-> ses'[t]] /\ (\A t \in Ids : t # s => ses'[t] = ses[t])
  BY <1>5
<1>11. IsSession(ses'[s])
  BY <1>6
<1>. QED
  BY <1>2, <1>7, <1>8, <1>9, <1>10, <1>11, PostedCore

-----------------------------------------------------------------------------
(* The thread of a session's pool.                                         *)

\* The first task begins to run: a notification runs in a session that
\* somebody refers to, and behind the one of the end there is no data.
LEMMA PopCore ==
    ASSUME Core, NEW s \in Ids, Pop(s)
    PROVE  Core'
<1>. DEFINE q == ses[s].tasks
            a == Tail(q)
            h == Head(q)
<1>1. /\ run[s].kind = "none" /\ q # <<>>
      /\ run' = [run EXCEPT ![s] = h] /\ ses' = [ses EXCEPT ![s].tasks = Tail(@)]
      /\ UNCHANGED <<last, peer, pipes, mixed, cut, passed>>
  BY DEF Pop, history
<1>2. /\ ses = [t \in Ids |-> ses[t]] /\ run = [t \in Ids |-> run[t]]
      /\ IsSession(ses[s]) /\ last \in Nat
  BY PipesAssumption DEF Core, Shapes
<1>3. IsQueue(q)
  BY <1>2 DEF IsSession
<1>4. /\ IsQueue(a) /\ IsTask(h) /\ (h.kind = "data" => h.pipe = 0)
      /\ HasData(q) <=> h.kind = "data" \/ HasData(a)
      /\ \A k \in DOMAIN a : k + 1 \in DOMAIN q /\ a[k] = q[k + 1] /\ k \in Nat /\ k > 0
      /\ 1 \in DOMAIN q /\ h = q[1]
  BY <1>1, <1>3, QueueTail
<1>5. ses'[s] = [ses[s] EXCEPT !.tasks = a]
  BY <1>1, <1>2
<1>. HIDE DEF a, h
<1>6. /\ ses' = [t \in Ids |-> ses'[t]] /\ (\A t \in Ids : t # s => ses'[t] = ses[t])
      /\ run' = [t \in Ids |-> run'[t]] /\ (\A t \in Ids : t # s => run'[t] = run[t])
      /\ run'[s] = h
  BY <1>1, <1>2
<1>7. IsSession(ses'[s]) /\ ses'[s].tasks = a /\ ses'[s].link = ses[s].link
  BY <1>2, <1>4, <1>5 DEF IsSession
<1>8. ~(s > last)
  BY <1>1, NewSession DEF Core, Fresh
<1>9. HeldBy(peer, pipes, ses, run, s)
  BY <1>1 DEF Core, Kept
<1>. HIDE DEF q
<1>10. q = ses[s].tasks
  BY DEF q
<1>11. Shapes'
  <2>1. 0 \in 0..last
    BY <1>2
  <2>. QED
    BY <1>1, <1>4, <1>6, <1>7, <2>1 DEF Core, Shapes
<1>12. Fresh'
  BY <1>1, <1>6, <1>8 DEF Core, Fresh
<1>13. Kept'
  <2>. SUFFICES ASSUME NEW t \in Ids, ses'[t].tasks # <<>>
                PROVE  HeldBy(peer, pipes, ses', run', t)
    BY <1>1 DEF Kept
  <2>1. HeldBy(peer, pipes, ses, run, t)
    BY <1>6, <1>9 DEF Core, Kept
  <2>2. HasData(ses[t].tasks) => HasData(ses'[t].tasks) \/ run'[t].kind = "data"
    BY <1>4, <1>6, <1>7, <1>10
  <2>3. \A u \in Ids : run[u].kind = "data" => run'[u] = run[u]
    BY <1>1, <1>6
  <2>. QED
    BY <2>1, <2>2, <2>3 DEF HeldBy
<1>14. EndsLast'
  <2>. SUFFICES ASSUME NEW t \in Ids
                PROVE  /\ InTurn(ses'[t].tasks)
                       /\ \A k \in DOMAIN ses'[t].tasks : IsEnd(ses'[t].tasks[k]) => ses'[t].link \in Over
                       /\ IsEnd(run'[t]) => ses'[t].link \in Over /\ ~HasData(ses'[t].tasks)
    BY DEF EndsLast
  <2>1. CASE t # s
    BY <1>6, <2>1 DEF Core, EndsLast
  <2>2. CASE t = s
    <3>1. InTurn(q) /\ (\A k \in DOMAIN q : IsEnd(q[k]) => ses[s].link \in Over)
      BY <1>10 DEF Core, EndsLast
    <3>2. InTurn(a)
      <4>. SUFFICES ASSUME NEW j \in DOMAIN a, NEW k \in DOMAIN a, j < k, IsEnd(a[j])
                    PROVE  a[k].kind # "data"
        BY DEF InTurn
      <4>1. j + 1 < k + 1
        BY <1>4
      <4>. QED
        BY <1>4, <3>1, <4>1 DEF InTurn
    <3>3. \A k \in DOMAIN a : IsEnd(a[k]) => ses[s].link \in Over
      BY <1>4, <3>1
    <3>4. IsEnd(h) => ses[s].link \in Over /\ ~HasData(a)
      <4>. SUFFICES ASSUME IsEnd(h), NEW k \in DOMAIN a PROVE ses[s].link \in Over /\ a[k].kind # "data"
        BY <1>4, <3>1 DEF HasData
      <4>1. 1 < k + 1
        BY <1>4
      <4>. QED
        BY <1>4, <3>1, <4>1 DEF InTurn
    <3>. QED
      BY <1>6, <1>7, <2>2, <3>2, <3>3, <3>4
  <2>. QED
    BY <2>1, <2>2
<1>15. 0 \notin Ids
  BY DEF Ids
<1>16. Foreign'
  <2>. SUFFICES ASSUME NEW u \in Ids, NEW t \in Ids, run'[t].kind = "data", run'[t].pipe = u, u # t
                PROVE  u \in mixed
    BY <1>1 DEF Foreign
  <2>1. t # s
    BY <1>4, <1>6, <1>15
  <2>. QED
    BY <1>6, <2>1 DEF Core, Foreign
<1>17. Notified'
  <2>. SUFFICES ASSUME NEW t \in Ids, run'[t].kind = "notify"
                PROVE  \/ pipes[peer[t]] = t \/ t \in passed \/ t \in mixed
                       \/ HasData(ses'[t].tasks)
    BY <1>1 DEF Notified
  <2>1. CASE t # s
    BY <1>6, <2>1 DEF Core, Notified
  <2>2. CASE t = s
    <3>1. \/ pipes[peer[s]] = s \/ HasData(q)
          \/ \E u \in Ids : u # s /\ run[u].kind = "data" /\ run[u].pipe = s
      BY <1>1, <1>9, <1>10 DEF HeldBy
    <3>2. HasData(q) => HasData(a)
      BY <1>4, <1>6, <2>2
    <3>. QED
      BY <1>7, <2>2, <3>1, <3>2 DEF Core, Foreign
  <2>. QED
    BY <2>1, <2>2
<1>18. UnderWay'
  <2>. SUFFICES ASSUME NEW t \in Ids, IsBusy(t)'
                PROVE  pipes[peer[t]] # 0 \/ t \in cut \/ t \in mixed
    BY <1>1 DEF UnderWay
  <2>1. IsBusy(t)
    BY <1>4, <1>6, <1>7, <1>10 DEF IsBusy
  <2>. QED
    BY <2>1 DEF Core, UnderWay
<1>. QED
  BY <1>11, <1>12, <1>13, <1>14, <1>16, <1>17, <1>18 DEF Core

\* A task with data has found its pipe, which may be another session's.
LEMMA FoundCore ==
    ASSUME Core, NEW s \in Ids, NEW p \in 1..last,
           run[s].kind = "data", run[s].pipe = 0,
           run' = [run EXCEPT ![s].pipe = p],
           mixed' = IF p = s THEN mixed ELSE mixed \cup {p},
           UNCHANGED <<last, peer, pipes, ses, cut, passed>>
    PROVE  Core'
<1>1. run = [t \in Ids |-> run[t]] /\ IsTask(run[s]) /\ last \in Nat
  BY PipesAssumption DEF Core, Shapes
<1>2. /\ run' = [t \in Ids |-> run'[t]] /\ (\A t \in Ids : t # s => run'[t] = run[t])
      /\ run'[s] = [run[s] EXCEPT !.pipe = p]
  BY <1>1
<1>3. run[s] = [kind |-> "data", data |-> run[s].data, pipe |-> run[s].pipe]
  BY <1>1 DEF IsTask, NoTask
<1>4. IsTask(run'[s]) /\ run'[s].kind = "data" /\ run'[s].pipe = p
  BY <1>2, <1>3 DEF IsTask
<1>5. 0 \notin Ids
  BY DEF Ids
<1>6. Shapes'
  BY <1>1, <1>2, <1>4 DEF Core, Shapes
<1>7. Fresh'
  <2>1. run[s] # NoTask
    BY Kinds
  <2>. QED
    BY <1>2, <2>1 DEF Core, Fresh
<1>8. \A t \in Ids : HeldBy(peer, pipes, ses, run, t) => HeldBy(peer, pipes, ses, run', t)
  BY <1>2, <1>4, <1>5 DEF HeldBy
<1>9. Kept'
  BY <1>8 DEF Core, Kept
<1>10. EndsLast'
  <2>1. \A t \in Ids : IsEnd(run'[t]) => IsEnd(run[t])
    BY <1>2, <1>4, Kinds
  <2>. QED
    BY <2>1 DEF Core, EndsLast
<1>11. Foreign'
  BY <1>2, <1>4 DEF Core, Foreign
<1>12. Notified'
  <2>1. \A t \in Ids : run'[t].kind = "notify" => run[t].kind = "notify"
    BY <1>2, <1>4
  <2>. QED
    BY <2>1 DEF Core, Notified
<1>13. UnderWay'
  <2>1. \A t \in Ids : IsBusy(t)' => IsBusy(t)
    BY <1>2, <1>4 DEF IsBusy
  <2>. QED
    BY <2>1 DEF Core, UnderWay
<1>. QED
  BY <1>6, <1>7, <1>9, <1>10, <1>11, <1>12, <1>13 DEF Core

\* A round of unpack changes the parser of the pipe, and may be the last use of
\* it.
LEMMA UnpackCore ==
    ASSUME Core, NEW s \in Ids, NEW r, run[s].kind = "data", run[s].pipe # 0,
           run' = After(s, r), ses' = Released(pipes, Fed(run[s].pipe, r), After(s, r)),
           UNCHANGED <<last, peer, pipes, mixed, cut, passed>>
    PROVE  Core'
<1>. DEFINE p == run[s].pipe
            fed == Fed(p, r)
<1>1. /\ ses = [t \in Ids |-> ses[t]] /\ run = [t \in Ids |-> run[t]]
      /\ (\A t \in Ids : IsSession(ses[t])) /\ IsTask(run[s])
      /\ last \in 0..MaxSessions /\ MaxSessions \in Nat /\ p \in 0..last
      /\ pipes \in [Peers -> 0..last]
  BY PipesAssumption DEF Core, Shapes
<1>2. p \in Ids /\ ~(p > last)
  BY <1>1 DEF Ids
<1>3. run' = [t \in Ids |-> run'[t]] /\ \A t \in Ids : GoesOn(run[t], run'[t])
  <2>1. CASE r.left = <<>>
    BY <2>1, DoneIs DEF After
  <2>2. CASE r.left # <<>>
    <3>1. run' = [run EXCEPT ![s].data = r.left]
      BY <2>2 DEF After
    <3>2. run' = [t \in Ids |-> run'[t]] /\ (\A t \in Ids : t # s => run'[t] = run[t])
          /\ run'[s] = [run[s] EXCEPT !.data = r.left]
      BY <1>1, <3>1
    <3>3. run[s] = [kind |-> "data", data |-> run[s].data, pipe |-> run[s].pipe]
      BY <1>1 DEF IsTask, NoTask
    <3>4. IsTask(run'[s]) /\ run'[s].kind = "data" /\ run'[s].pipe = run[s].pipe
      BY <3>2, <3>3 DEF IsTask
    <3>. QED
      BY <3>2, <3>4 DEF GoesOn
  <2>. QED
    BY <2>1, <2>2
<1>4. \A t \in Ids : t # p => fed[t] = ses[t]
  BY <1>1, <1>2 DEF Fed
<1>5. PICK o : fed[p] = [ses[p] EXCEPT !.parser = r.parser, !.out = o]
  BY <1>1, <1>2 DEF Fed
<1>. HIDE DEF fed, p
<1>6. IsSession(fed[p]) /\ fed[p].tasks = ses[p].tasks /\ fed[p].link = ses[p].link
  BY <1>1, <1>2, <1>5 DEF IsSession
<1>7. \A t \in Ids : /\ IsSession(fed[t]) /\ fed[t].tasks = ses[t].tasks
                     /\ fed[t].link = ses[t].link
                     /\ t > last => fed[t] = ses[t]
  BY <1>1, <1>2, <1>4, <1>6
<1>8. ses' = Released(pipes', fed, run')
  BY DEF fed, p
<1>. QED
  BY <1>1, <1>3, <1>7, <1>8, ReleaseStep

\* A notification that is not about the end has been delivered.
LEMMA DeliveredCore ==
    ASSUME Core, NEW s \in Ids, run[s].kind = "notify", run' = Done(s),
           UNCHANGED <<last, peer, pipes, ses, mixed, cut, passed>>
    PROVE  Core'
<1>1. /\ run' = [t \in Ids |-> run'[t]] /\ run'[s] = NoTask
      /\ \A t \in Ids : t # s => run'[t] = run[t]
  BY DoneIs
<1>2. \A t \in Ids : /\ run'[t].kind \in {"data", "notify"} => run'[t] = run[t]
                     /\ run[t].kind = "data" => run'[t] = run[t]
                     /\ IsEnd(run'[t]) => IsEnd(run[t])
                     /\ IsTask(run'[t]) /\ (run[t] = NoTask => run'[t] = NoTask)
  BY <1>1, Kinds DEF Core, Shapes
<1>3. Shapes'
  BY <1>1, <1>2 DEF Core, Shapes
<1>4. Fresh'
  BY <1>2 DEF Core, Fresh
<1>5. \A t \in Ids : HeldBy(peer, pipes, ses, run, t) => HeldBy(peer, pipes, ses, run', t)
  BY <1>2 DEF HeldBy
<1>6. Kept'
  BY <1>5 DEF Core, Kept
<1>7. EndsLast'
  BY <1>2 DEF Core, EndsLast
<1>8. Foreign'
  BY <1>2 DEF Core, Foreign
<1>9. Notified'
  BY <1>2 DEF Core, Notified
<1>10. UnderWay'
  BY <1>2 DEF Core, UnderWay, IsBusy
<1>. QED
  BY <1>3, <1>4, <1>6, <1>7, <1>8, <1>9, <1>10 DEF Core

-----------------------------------------------------------------------------
(* Whose pipe is removed, and what a crash needs.                           *)

\* What the history sets have they keep
Grows ==
    /\ mixed \subseteq mixed' /\ cut \subseteq cut' /\ passed \subseteq passed'
    /\ down' = down

\* The end of the process changes nothing else.
LEMMA CrashStep ==
    ASSUME Inv, Crash, cut \cup passed \cup mixed # {}
    PROVE  Inv'
<1>1. UNCHANGED <<last, peer, pipes, ses, run, mixed, cut, passed, wrong>>
  BY DEF Crash, history
<1>2. Core'
  BY <1>1 DEF Inv, Core, Shapes, Fresh, Kept, EndsLast, Foreign, Notified, UnderWay,
               IsBusy, HeldBy, Ids
<1>. QED
  BY <1>1, <1>2 DEF Inv, RemovesOwnPipe, DownOnlyIfCut

\* A pool is destroyed under its thread: the session is passed over and the
\* process ends.
LEMMA ThrowsStep ==
    ASSUME Inv, Core', NEW s, Throws(s), UNCHANGED <<mixed, cut, wrong>>
    PROVE  Inv'
BY DEF Inv, Throws, RemovesOwnPipe, DownOnlyIfCut

LEMMA PopGoneInv ==
    ASSUME Inv, NEW s \in Ids, PopGone(s)
    PROVE  Inv'
<1>1. UNCHANGED <<last, peer, pipes, ses, run, mixed, cut, wrong>> /\ Throws(s)
  BY DEF PopGone
<1>2. passed \subseteq passed'
  BY <1>1 DEF Throws
<1>3. Core'
  BY <1>1, <1>2 DEF Inv, Core, Shapes, Fresh, Kept, EndsLast, Foreign, Notified, UnderWay,
               IsBusy, HeldBy, Ids
<1>. QED
  BY <1>1, <1>3, ThrowsStep

LEMMA GrowsStep ==
    ASSUME Inv, Core', Grows, wrong' \subseteq wrong \cup passed \cup mixed
    PROVE  Inv'
BY DEF Inv, Grows, RemovesOwnPipe, DownOnlyIfCut

\* A session with the notification of its end has no data left: if its peer's
\* pipe is another session's, it was passed over or got foreign data.
LEMMA NotifyInv ==
    ASSUME Inv, NEW s \in Ids, onNotify(s)
    PROVE  Inv'
<1>1. Core /\ run[s].kind = "notify" /\ s # 0
  BY DEF Inv, onNotify, Ids
<1>2. pipes[peer[s]] = s \/ s \in passed \/ s \in mixed \/ HasData(ses[s].tasks)
  BY <1>1 DEF Core, Notified
<1>3. CASE ListenerGone(s) /\ Crash
  <2>1. ~HeldBy(peer, pipes, ses, run, s)
    BY <1>3, AliveIs DEF ListenerGone
  <2>2. s \in passed \/ s \in mixed
    BY <1>2, <2>1 DEF HeldBy
  <2>3. cut \cup passed \cup mixed # {}
    BY <2>2
  <2>. QED
    BY <1>3, <2>3, CrashStep
<1>4. CASE /\ run' = Done(s) /\ Ends(run[s].what) /\ removeDataPipe(peer[s], Done(s), {s})
           /\ wrong' = IF pipes[peer[s]] \in {0, s} THEN wrong ELSE wrong \cup {s}
           /\ UNCHANGED <<down, last, peer, mixed>>
  <2>1. Removed({peer[s]}, run', {s})
    BY <1>4 DEF removeDataPipe
  <2>2. {peer[s]} \in SUBSET Peers
    BY <1>1 DEF Core, Shapes
  <2>3. /\ run' = [t \in Ids |-> run'[t]] /\ run'[s] = NoTask
        /\ \A t \in Ids : GoesOn(run[t], run'[t])
    BY <1>1, <1>4, DoneIs
  <2>4. Core'
    BY <1>1, <1>4, <2>1, <2>2, <2>3, RemovedCore
  <2>5. Grows
    BY <1>4, <2>1 DEF Grows, Removed
  <2>6. ~HasData(ses[s].tasks)
    BY <1>1, <1>4 DEF Core, EndsLast, IsEnd
  <2>7. wrong' \subseteq wrong \cup passed \cup mixed
    BY <1>2, <1>4, <2>6
  <2>. QED
    BY <2>4, <2>5, <2>7, GrowsStep
<1>5. CASE /\ run' = Done(s) /\ UNCHANGED <<pipes, ses, cut, passed, wrong>>
           /\ UNCHANGED <<down, last, peer, mixed>>
  <2>1. Core'
    BY <1>1, <1>5, DeliveredCore
  <2>. QED
    BY <1>5, <2>1, GrowsStep DEF Grows
<1>. QED
  BY <1>3, <1>4, <1>5 DEF onNotify

\* No pipe is found for data only after one was removed while the data was
\* under way.
LEMMA FindPipeInv ==
    ASSUME Inv, NEW s \in Ids, FindPipe(s)
    PROVE  Inv'
<1>. DEFINE p == pipes[peer[s]]
<1>1. Core /\ run[s].kind = "data" /\ run[s].pipe = 0
  BY DEF Inv, FindPipe
<1>2. p \in 0..last /\ last \in Nat
  BY <1>1, PipesAssumption DEF Core, Shapes
<1>3. CASE p = 0 /\ Crash
  <2>1. s \in cut \/ s \in mixed
    BY <1>1, <1>3 DEF Core, UnderWay, IsBusy
  <2>2. cut \cup passed \cup mixed # {}
    BY <2>1
  <2>. QED
    BY <1>3, <2>2, CrashStep
<1>4. CASE /\ p # 0 /\ run' = [run EXCEPT ![s].pipe = p]
           /\ mixed' = IF p = s THEN mixed ELSE mixed \cup {p}
           /\ UNCHANGED <<down, last, peer, pipes, ses, cut, passed, wrong>>
  <2>. HIDE DEF p
  <2>1. p \in 1..last
    BY <1>2, <1>4
  <2>2. Core'
    BY <1>1, <1>4, <2>1, FoundCore
  <2>3. Grows
    BY <1>4 DEF Grows
  <2>. QED
    BY <1>4, <2>2, <2>3, GrowsStep
<1>. QED
  BY <1>3, <1>4 DEF FindPipe

\* The same for the listener that gets what was unpacked; and two threads are in
\* one parser only if a session got foreign data.
LEMMA UnpackInv ==
    ASSUME Inv, NEW s \in Ids, Unpack(s)
    PROVE  Inv'
<1>1. Core /\ run[s].kind = "data" /\ run[s].pipe # 0
  BY DEF Inv, Unpack
<1>2. PICK r : \/ pipes[peer[s]] = 0 /\ Crash
               \/ Racing(s) /\ Crash
               \/ /\ run' = After(s, r)
                  /\ ses' = Released(pipes, Fed(run[s].pipe, r), After(s, r))
                  /\ UNCHANGED <<down, last, peer, pipes, history>>
  BY DEF Unpack
<1>3. CASE pipes[peer[s]] = 0 /\ Crash
  <2>1. s \in cut \/ s \in mixed
    BY <1>1, <1>3 DEF Core, UnderWay, IsBusy
  <2>2. cut \cup passed \cup mixed # {}
    BY <2>1
  <2>. QED
    BY <1>3, <2>2, CrashStep
<1>4. CASE Racing(s) /\ Crash
  <2>1. last \in 0..MaxSessions /\ MaxSessions \in Nat /\ run[s].pipe \in 0..last
    BY <1>1, PipesAssumption DEF Core, Shapes
  <2>2. run[s].pipe \in Ids /\ Sessions \subseteq Ids
    BY <1>1, <2>1 DEF Ids, Sessions
  <2>3. PICK t \in Sessions \ {s} : run[t].kind = "data" /\ run[t].pipe = run[s].pipe
    BY <1>4 DEF Racing
  <2>4. run[s].pipe \in mixed
    BY <1>1, <2>2, <2>3 DEF Core, Foreign
  <2>5. cut \cup passed \cup mixed # {}
    BY <2>4
  <2>. QED
    BY <1>4, <2>5, CrashStep
<1>5. CASE /\ run' = After(s, r)
           /\ ses' = Released(pipes, Fed(run[s].pipe, r), After(s, r))
           /\ UNCHANGED <<down, last, peer, pipes, history>>
  <2>1. UNCHANGED <<last, peer, pipes, mixed, cut, passed>> /\ wrong' = wrong /\ down' = down
    BY <1>5 DEF history
  <2>2. Core'
    BY <1>1, <1>5, <2>1, UnpackCore
  <2>. QED
    BY <2>1, <2>2, GrowsStep DEF Grows
<1>. QED
  BY <1>2, <1>3, <1>4, <1>5

\* A peer's pipe is removed, or all of them.
LEMMA RemovedInv ==
    ASSUME Inv, NEW peers \in SUBSET Peers, Removed(peers, run, {}),
           UNCHANGED <<down, last, peer, run, mixed, wrong>>
    PROVE  Inv'
<1>1. Core /\ run = [t \in Ids |-> run[t]] /\ \A t \in Ids : GoesOn(run[t], run'[t])
  BY DEF Inv, Core, Shapes, GoesOn
<1>2. Core'
  BY <1>1, RemovedCore
<1>3. Grows
  BY DEF Grows, Removed
<1>. QED
  BY <1>2, <1>3, GrowsStep

\* The steps of the Carrier thread for a session.
LEMMA CarrierInv ==
    ASSUME Inv, NEW s \in Ids, onStateChanged(s) \/ \E n \in Chunks : onReceivedData(s, n)
    PROVE  Inv'
<1>1. Core
  BY DEF Inv
<1>2. CASE \E n \in Chunks : onReceivedData(s, n)
  <2>1. PICK n \in Chunks : onReceivedData(s, n)
    BY <1>2
  <2>2. Core'
    BY <1>1, <2>1, ReceivedCore
  <2>3. Grows /\ wrong' = wrong
    BY <2>1 DEF onReceivedData, history, Grows
  <2>. QED
    BY <2>2, <2>3, GrowsStep
<1>3. CASE onStateChanged(s)
  <2>1. CASE StateChanged(s, {"asked"}, "connected", "Connected")
    <3>1. ~Ends("Connected")
      BY DEF Ends
    <3>2. Core'
      BY <1>1, <2>1, <3>1, StateChangedCore
    <3>3. Grows /\ wrong' = wrong
      BY <2>1 DEF StateChanged, history, Grows
    <3>. QED
      BY <3>2, <3>3, GrowsStep
  <2>2. CASE StateChanged(s, {"asked", "connected"}, "failed", "Error")
    <3>1. "failed" \in Over
      BY DEF Over
    <3>2. Core'
      BY <1>1, <2>2, <3>1, StateChangedCore
    <3>3. Grows /\ wrong' = wrong
      BY <2>2 DEF StateChanged, history, Grows
    <3>. QED
      BY <3>2, <3>3, GrowsStep
  <2>3. CASE StateChanged(s, {"asked", "connected", "failed"}, "closed", "Closed")
    <3>1. "closed" \in Over
      BY DEF Over
    <3>2. Core'
      BY <1>1, <2>3, <3>1, StateChangedCore
    <3>3. Grows /\ wrong' = wrong
      BY <2>3 DEF StateChanged, history, Grows
    <3>. QED
      BY <3>2, <3>3, GrowsStep
  <2>. QED
    BY <1>3, <2>1, <2>2, <2>3 DEF onStateChanged
<1>. QED
  BY <1>2, <1>3

-----------------------------------------------------------------------------
(* The theorems.                                                           *)

LEMMA InitInv == Init => Inv
<1>. SUFFICES ASSUME Init PROVE Inv
  OBVIOUS
<1>1. /\ down = FALSE /\ last = 0
      /\ peer = [s \in Ids |-> CHOOSE p \in Peers : TRUE] /\ pipes = [p \in Peers |-> 0]
      /\ ses = [s \in Ids |-> Gone] /\ run = [s \in Ids |-> NoTask]
      /\ mixed = {} /\ cut = {} /\ passed = {} /\ wrong = {}
  BY DEF Init
<1>2. (CHOOSE p \in Peers : TRUE) \in Peers
  BY PipesAssumption
<1>3. last \in 0..MaxSessions /\ 0 \in 0..last
  BY <1>1, PipesAssumption
<1>4. \A s \in Ids : ses[s] = Gone /\ run[s] = NoTask
  BY <1>1
<1>5. IsSession(Gone) /\ Gone.tasks = <<>> /\ IsTask(NoTask) /\ NoTask.kind = "none" /\ ~IsEnd(NoTask)
  BY NewSession, Kinds
<1>6. Shapes
  <2>1. peer \in [Ids -> Peers]
    BY <1>1, <1>2
  <2>2. pipes \in [Peers -> 0..last]
    BY <1>1, <1>3
  <2>3. ses = [s \in Ids |-> ses[s]] /\ run = [s \in Ids |-> run[s]]
    BY <1>1
  <2>. QED
    BY <1>3, <1>4, <1>5, <2>1, <2>2, <2>3 DEF Shapes
<1>7. Fresh /\ Kept /\ Foreign /\ Notified
  BY <1>4, <1>5 DEF Fresh, Kept, Foreign, Notified
<1>8. EndsLast /\ UnderWay
  BY <1>4, <1>5, EmptyQueue DEF EndsLast, UnderWay, IsBusy
<1>. QED
  BY <1>1, <1>6, <1>7, <1>8 DEF Inv, Core, RemovesOwnPipe, DownOnlyIfCut

LEMMA NextInv == Inv /\ [Next]_vars => Inv'
<1>. SUFFICES ASSUME Inv, [Next]_vars PROVE Inv'
  OBVIOUS
<1>1. Core
  BY DEF Inv
<1>2. ASSUME NEW p \in Peers, NEW str, onSessionRequest(p, str) PROVE Inv'
  <2>1. Core'
    BY <1>1, <1>2, RequestCore
  <2>2. Grows /\ wrong' = wrong
    BY <1>2 DEF onSessionRequest, Grows
  <2>. QED
    BY <2>1, <2>2, GrowsStep
<1>3. ASSUME NEW p \in Peers, SessionRequestFails(p) PROVE Inv'
  <2>1. Core'
    BY <1>1, <1>3, RequestFailsCore
  <2>2. CASE UNCHANGED down
    <3>1. Grows /\ wrong' = wrong
      BY <1>3, <2>2 DEF SessionRequestFails, Throws, Grows
    <3>. QED
      BY <2>1, <3>1, GrowsStep
  <2>3. CASE Throws(last + 1)
    BY <1>3, <2>1, <2>3, ThrowsStep DEF SessionRequestFails
  <2>. QED
    BY <1>3, <2>2, <2>3 DEF SessionRequestFails
<1>4. ASSUME NEW p \in Peers, FriendOffline(p) PROVE Inv'
  BY <1>4, RemovedInv DEF FriendOffline, removeDataPipe
<1>5. CASE clearAllDataPipe
  BY <1>5, RemovedInv DEF clearAllDataPipe
<1>6. ASSUME NEW s \in Ids, onStateChanged(s) \/ \E n \in Chunks : onReceivedData(s, n) PROVE Inv'
  BY <1>6, CarrierInv
<1>7. ASSUME NEW s \in Ids, Pop(s) PROVE Inv'
  <2>1. Core'
    BY <1>1, <1>7, PopCore
  <2>2. Grows /\ wrong' = wrong
    BY <1>7 DEF Pop, history, Grows
  <2>. QED
    BY <2>1, <2>2, GrowsStep
<1>8. ASSUME NEW s \in Ids, Pool(s) PROVE Inv'
  BY <1>7, <1>8, NotifyInv, FindPipeInv, UnpackInv DEF Pool
<1>9. CASE UNCHANGED vars
  BY <1>9 DEF vars, Inv, Core, Shapes, Fresh, Kept, EndsLast, Foreign, Notified, UnderWay,
              IsBusy, HeldBy, Ids, RemovesOwnPipe, DownOnlyIfCut
<1>. QED
  BY <1>2, <1>3, <1>4, <1>5, <1>6, <1>8, <1>9, PopGoneInv DEF Next

\* The inductive invariant of the pipes, for any number of peers and any length
\* of a pool's queue: what is held is not destroyed, no data runs after the end
\* of its stream, and the sessions that no longer match the map are known.
THEOREM Invariant == Spec => []Inv
BY InitInv, NextInv, PTL DEF Spec

\* A notification removes the map entry of another session
\* (MassDataManager.cpp:150) only when its own session was replaced meanwhile,
\* was never in the map, or had another session's data.
THEOREM OwnPipeRemoved == Spec => []RemovesOwnPipe
<1>1. Inv => RemovesOwnPipe
  BY DEF Inv
<1>. QED
  BY <1>1, Invariant, PTL

\* The process ends on a null pointer (MassDataManager.cpp:156, 182;
\* CarrierSessionHelper.cpp:320) or a destroyed pool (ThreadPool.cpp:150, 158)
\* only after a pipe went with data under way, a session was passed over or
\* destroyed between two tasks of its thread, or data went to another session's
\* pipe.
THEOREM DownIsExplained == Spec => []DownOnlyIfCut
<1>1. Inv => DownOnlyIfCut
  BY DEF Inv
<1>. QED
  BY <1>1, Invariant, PTL

-----------------------------------------------------------------------------
(* The tasks of a pool hold the stream of their session piece by piece.    *)

\* The task x has the data from a to b, or none
Spans(W, x, a, b) ==
    a <= b /\ (x.kind = "data" => x.data = Cut(W, a, b)) /\ (x.kind # "data" => a = b)

\* The tasks of q have what comes from a to b: pos[k] is where the k-th ends
Line(W, q, a, b) ==
    \E pos \in [0..Len(q) -> 0..b] :
        /\ pos[0] = a /\ pos[Len(q)] = b
        /\ \A k \in 1..Len(q) : Spans(W, q[k], pos[k - 1], pos[k])

LEMMA LineEmpty ==
    ASSUME NEW W, NEW a \in Nat, NEW b \in Nat
    PROVE  Line(W, <<>>, a, b) <=> a = b
<1>1. Len(<<>>) = 0 /\ 0..0 = {0} /\ 1..0 = {} /\ 0 \in 0..0
  BY EmptySeq
<1>2. Line(W, <<>>, a, b) => a = b
  BY <1>1 DEF Line
<1>3. ASSUME a = b PROVE Line(W, <<>>, a, b)
  <2>. DEFINE pos == [k \in 0..0 |-> b]
  <2>1. pos \in [0..0 -> 0..b] /\ pos[0] = b
    OBVIOUS
  <2>. HIDE DEF pos
  <2>. QED
    BY <1>1, <1>3, <2>1 DEF Line
<1>. QED
  BY <1>2, <1>3

LEMMA LineAppend ==
    ASSUME NEW W, NEW q, IsQueue(q), NEW x, IsTask(x), x.kind = "data" => x.pipe = 0,
           NEW a \in Nat, NEW b \in Nat, NEW z \in Nat,
           Line(W, q, a, b), Spans(W, x, b, z)
    PROVE  Line(W, Append(q, x), a, z)
<1>. DEFINE n == Len(q)
            new == Append(q, x)
<1>1. PICK S : q \in Seq(S)
  BY DEF IsQueue
<1>. DEFINE T == S \cup {x}
<1>2. q \in Seq(T) /\ x \in T
  BY <1>1, SeqMonotonic
<1>. HIDE DEF T
<1>3. Len(new) = n + 1 /\ (\A k \in 1..n : new[k] = q[k]) /\ new[n + 1] = x /\ n \in Nat
  BY <1>2, AppendProperties, LenProperties
<1>4. PICK pos \in [0..n -> 0..b] :
        /\ pos[0] = a /\ pos[n] = b
        /\ \A k \in 1..n : Spans(W, q[k], pos[k - 1], pos[k])
  BY DEF Line
<1>5. b <= z
  BY DEF Spans
<1>. HIDE DEF n, new
<1>. DEFINE f == [k \in 0..(n + 1) |-> IF k = n + 1 THEN z ELSE pos[k]]
<1>6. f \in [0..(n + 1) -> 0..z]
  <2>1. \A k \in 0..(n + 1) : k = n + 1 \/ k \in 0..n
    BY <1>3
  <2>2. z \in 0..z /\ 0..b \subseteq 0..z
    BY <1>5
  <2>. QED
    BY <1>4, <2>1, <2>2
<1>7. (\A k \in 0..n : f[k] = pos[k]) /\ f[n + 1] = z
  BY <1>3
<1>. HIDE DEF f
<1>8. f[0] = a /\ f[n + 1] = z
  BY <1>3, <1>4, <1>7
<1>9. ASSUME NEW k \in 1..(n + 1) PROVE Spans(W, new[k], f[k - 1], f[k])
  <2>1. CASE k = n + 1
    <3>1. k - 1 = n /\ n \in 0..n
      BY <1>3, <2>1
    <3>. QED
      BY <1>3, <1>4, <1>7, <2>1, <3>1
  <2>2. CASE k # n + 1
    <3>1. k \in 1..n /\ k \in 0..n /\ k - 1 \in 0..n
      BY <1>3, <2>2
    <3>. QED
      BY <1>3, <1>4, <1>7, <3>1
  <2>. QED
    BY <2>1, <2>2
<1>10. Line(W, new, a, z)
  BY <1>3, <1>6, <1>8, <1>9 DEF Line
<1>. QED
  BY <1>10 DEF new

LEMMA LineTail ==
    ASSUME NEW W, NEW q, IsQueue(q), q # <<>>, NEW a \in Nat, NEW b \in Nat, Line(W, q, a, b)
    PROVE  \E m \in 0..b : Spans(W, Head(q), a, m) /\ Line(W, Tail(q), m, b)
<1>. DEFINE n == Len(q)
            t == Tail(q)
<1>1. PICK S : q \in Seq(S)
  BY DEF IsQueue
<1>2. Len(t) = n - 1 /\ n \in Nat \ {0} /\ (\A k \in 1..Len(t) : t[k] = q[k + 1]) /\ Head(q) = q[1]
  BY <1>1, HeadTailProperties, EmptySeq
<1>3. PICK pos \in [0..n -> 0..b] :
        /\ pos[0] = a /\ pos[n] = b
        /\ \A k \in 1..n : Spans(W, q[k], pos[k - 1], pos[k])
  BY DEF Line
<1>. HIDE DEF n, t
<1>4. 1 \in 0..n /\ 1 \in 1..n /\ 1 - 1 = 0
  BY <1>2
<1>5. pos[1] \in 0..b /\ Spans(W, q[1], a, pos[1])
  BY <1>3, <1>4
<1>. DEFINE f == [k \in 0..(n - 1) |-> pos[k + 1]]
<1>6. f \in [0..(n - 1) -> 0..b]
  <2>1. \A k \in 0..(n - 1) : k + 1 \in 0..n
    BY <1>2
  <2>. QED
    BY <1>3, <2>1
<1>7. \A k \in 0..(n - 1) : f[k] = pos[k + 1]
  OBVIOUS
<1>. HIDE DEF f
<1>8. f[0] = pos[1] /\ f[n - 1] = b
  <2>1. 0 \in 0..(n - 1) /\ n - 1 \in 0..(n - 1) /\ n - 1 + 1 = n /\ 0 + 1 = 1
    BY <1>2
  <2>. QED
    BY <1>3, <1>7, <2>1
<1>9. ASSUME NEW k \in 1..(n - 1) PROVE Spans(W, t[k], f[k - 1], f[k])
  <2>1. k - 1 \in 0..(n - 1) /\ k \in 0..(n - 1) /\ k - 1 + 1 = k /\ k + 1 \in 1..n /\ (k + 1) - 1 = k
    BY <1>2
  <2>2. Spans(W, q[k + 1], pos[(k + 1) - 1], pos[k + 1])
    BY <1>3, <2>1
  <2>3. f[k - 1] = pos[k] /\ f[k] = pos[k + 1] /\ t[k] = q[k + 1]
    BY <1>2, <1>7, <2>1
  <2>. QED
    BY <2>1, <2>2, <2>3
<1>10. Line(W, t, pos[1], b)
  BY <1>2, <1>6, <1>8, <1>9 DEF Line
<1>. QED
  BY <1>2, <1>5, <1>10 DEF t

-----------------------------------------------------------------------------
(* A session whose parser only gets the data of that session.              *)

\* Its thread has data for its own parser; m is the session in the map
Own(s, m, task) == task.kind = "data" /\ (task.pipe = s \/ (task.pipe = 0 /\ m = s))

\* The parser stands at c, the thread has the data from there to e, and the tasks
\* have what comes from e to the end of what has come in
ReadsAt(s, x, m, task, c, d, e) ==
    /\ c <= e /\ e <= x.heard
    /\ Stands(s, x.stream, WireOf(s, x.stream), Edges(s, x.stream), x.parser, x.out, c, d)
    /\ Own(s, m, task) => task.data = Cut(WireOf(s, x.stream), c, e)
    /\ ~Own(s, m, task) => e = c
    /\ m = s => Line(WireOf(s, x.stream), x.tasks, e, x.heard)

Reads(s, x, m, task) ==
    /\ x.stream \in Seq(Message) /\ x.heard \in 0..Len(WireOf(s, x.stream))
    /\ m = s /\ task.kind = "data" => task.pipe = 0 \/ task.pipe = s
    /\ \E c \in Nat : \E d \in Nat : \E e \in Nat : ReadsAt(s, x, m, task, c, d, e)

LEMMA WireWorld ==
    ASSUME NEW s \in Nat, NEW str \in Seq(Message)
    PROVE  /\ World(s, str, WireOf(s, str), Edges(s, str))
           /\ WireOf(s, str) \in Seq(Units) /\ Len(WireOf(s, str)) \in Nat
<1>1. World(s, str, WireOf(s, str), Edges(s, str))
  BY WireLaid DEF World
<1>. QED
  BY <1>1, WorldIs

\* The thread has no data for the parser any more, or still none.
LEMMA ReadsRest ==
    ASSUME NEW s, NEW x, NEW m, NEW task, NEW m2, NEW task2, Reads(s, x, m, task),
           ~Own(s, m2, task2), m2 = s => m = s /\ ~Own(s, m, task) /\ task2.kind # "data"
    PROVE  Reads(s, x, m2, task2)
<1>1. x.stream \in Seq(Message) /\ x.heard \in 0..Len(WireOf(s, x.stream))
  BY DEF Reads
<1>2. PICK c \in Nat : \E d \in Nat : \E e \in Nat : ReadsAt(s, x, m, task, c, d, e)
  BY DEF Reads
<1>3. PICK d \in Nat : \E e \in Nat : ReadsAt(s, x, m, task, c, d, e)
  BY <1>2
<1>4. PICK e \in Nat : ReadsAt(s, x, m, task, c, d, e)
  BY <1>3
<1>5. x.heard \in Nat /\ c <= c
  BY <1>1
<1>6. c <= x.heard
  <2>. DEFINE h == x.heard
  <2>1. c <= e /\ e <= h /\ h \in Nat
    BY <1>4, <1>5 DEF ReadsAt
  <2>. HIDE DEF h
  <2>2. c <= h
    BY <2>1
  <2>. QED
    BY <2>2 DEF h
<1>7. m2 = s => Line(WireOf(s, x.stream), x.tasks, c, x.heard)
  BY <1>4 DEF ReadsAt
<1>8. ReadsAt(s, x, m2, task2, c, d, c)
  BY <1>4, <1>5, <1>6, <1>7 DEF ReadsAt
<1>. QED
  BY <1>1, <1>8 DEF Reads

\* It has the same data for the parser.
LEMMA ReadsSame ==
    ASSUME NEW s, NEW x, NEW m, NEW task, NEW m2, NEW task2, Reads(s, x, m, task),
           Own(s, m, task), Own(s, m2, task2), task2.data = task.data, m2 = s => m = s
    PROVE  Reads(s, x, m2, task2)
<1>1. x.stream \in Seq(Message) /\ x.heard \in 0..Len(WireOf(s, x.stream))
  BY DEF Reads
<1>2. PICK c \in Nat : \E d \in Nat : \E e \in Nat : ReadsAt(s, x, m, task, c, d, e)
  BY DEF Reads
<1>3. PICK d \in Nat : \E e \in Nat : ReadsAt(s, x, m, task, c, d, e)
  BY <1>2
<1>4. PICK e \in Nat : ReadsAt(s, x, m, task, c, d, e)
  BY <1>3
<1>5. ReadsAt(s, x, m2, task2, c, d, e)
  BY <1>4 DEF ReadsAt
<1>6. task2.pipe = 0 \/ task2.pipe = s
  BY DEF Own
<1>. QED
  BY <1>1, <1>5, <1>6 DEF Reads

\* The session leaves the map, or another one of its peer does.
LEMMA ReadsUnmapped ==
    ASSUME NEW s, NEW x, NEW m, NEW task, NEW m2, Reads(s, x, m, task), m2 # s
    PROVE  Reads(s, x, m2, task)
<1>1. CASE Own(s, m2, task)
  <2>1. Own(s, m, task)
    BY <1>1 DEF Own
  <2>. QED
    BY <1>1, <2>1, ReadsSame
<1>2. CASE ~Own(s, m2, task)
  BY <1>2, ReadsRest
<1>. QED
  BY <1>1, <1>2

\* The map entry of its peer stays, is removed, or gets another session.
LEMMA ReadsMap ==
    ASSUME NEW s, NEW x, NEW m, NEW task, NEW m2, Reads(s, x, m, task), m2 = m \/ m2 # s
    PROVE  Reads(s, x, m2, task)
<1>1. CASE m2 = m
  BY <1>1
<1>2. CASE m2 # s
  BY <1>2, ReadsUnmapped
<1>. QED
  BY <1>1, <1>2

\* A session that nothing has come in for.
LEMMA ReadsNew ==
    ASSUME NEW s \in Nat, NEW x, NEW m, NEW task, task.kind # "data",
           x.stream \in Seq(Message), x.heard = 0, x.tasks = <<>>,
           x.parser = NewParser, x.out = <<>>
    PROVE  Reads(s, x, m, task)
<1>. DEFINE str == x.stream
            W == WireOf(s, str)
            E == Edges(s, str)
<1>1. World(s, str, W, E) /\ W \in Seq(Units) /\ Len(W) \in Nat
  BY WireWorld
<1>. HIDE DEF W, E
<1>2. /\ Len(str) \in Nat
      /\ \A k \in 0..Len(str) : E[k] \in Nat
  BY <1>1, WorldIs
<1>3. At(s, str, W, E, NewParser, 0, 0)
  <2>1. Clean(str, E, 0)
    <3>. SUFFICES ASSUME NEW k \in 1..Len(str), E[k - 1] < 0 PROVE FALSE
      BY DEF Clean
    <3>1. k - 1 \in 0..Len(str)
      BY <1>2
    <3>2. E[k - 1] \in Nat
      BY <1>2, <3>1
    <3>. QED
      BY <3>2
  <2>2. Cut(W, 0, 0) = <<>>
    <3>1. 0 <= 0 /\ 0 <= Len(W) /\ 0 \in Nat
      BY <1>1
    <3>. QED
      BY <1>1, <3>1, CutEmpty
  <2>3. Resting(W, NewParser, 0, 0)
    <3>. DEFINE y == Cut(W, 0, 0)
    <3>1. NewParser = Ps(y, FALSE, 0, 0, <<>>, <<>>)
      BY <2>2 DEF NewParser, Ps
    <3>. HIDE DEF y
    <3>2. 0 - 0 <= 1
      OBVIOUS
    <3>. QED
      BY <3>1, <3>2 DEF Resting, y
  <2>. QED
    BY <1>1, <2>1, <2>3 DEF At
<1>4. PickedTo(s, str, E, 0) = <<>>
  BY <1>1, NothingPicked
<1>5. <<>> \in Seq(Messages) /\ OutOf(str, <<>>) = <<>>
  BY EmptySeq, OutEmpty
<1>6. Stands(s, str, W, E, x.parser, x.out, 0, 0)
  BY <1>3, <1>4, <1>5 DEF Stands
<1>7. Line(W, x.tasks, 0, 0)
  BY LineEmpty
<1>8. ~Own(s, m, task)
  BY DEF Own
<1>9. ReadsAt(s, x, m, task, 0, 0, 0)
  BY <1>6, <1>7, <1>8 DEF ReadsAt, W, E
<1>10. x.heard \in 0..Len(WireOf(s, x.stream))
  BY <1>1 DEF W
<1>. QED
  BY <1>9, <1>10 DEF Reads

\* A task is posted: a notification, or the data that comes in next.
LEMMA ReadsPost ==
    ASSUME NEW s \in Nat, NEW x, NEW m, NEW task, Reads(s, x, m, task), IsQueue(x.tasks),
           NEW t, IsTask(t), t.kind = "data" => t.pipe = 0,
           NEW y, y.stream = x.stream, y.parser = x.parser, y.out = x.out,
           y.tasks = Append(x.tasks, t), y.heard \in 0..Len(WireOf(s, x.stream)),
           Spans(WireOf(s, x.stream), t, x.heard, y.heard)
    PROVE  Reads(s, y, m, task)
<1>. DEFINE W == WireOf(s, x.stream)
            E == Edges(s, x.stream)
            h == x.heard
            g == y.heard
<1>1. x.stream \in Seq(Message) /\ h \in 0..Len(W)
  BY DEF Reads
<1>2. Len(W) \in Nat
  BY <1>1, WireWorld
<1>3. PICK c \in Nat : \E d \in Nat : \E e \in Nat : ReadsAt(s, x, m, task, c, d, e)
  BY DEF Reads
<1>4. PICK d \in Nat : \E e \in Nat : ReadsAt(s, x, m, task, c, d, e)
  BY <1>3
<1>5. PICK e \in Nat : ReadsAt(s, x, m, task, c, d, e)
  BY <1>4
<1>6. /\ c <= e /\ e <= h /\ Stands(s, x.stream, W, E, x.parser, x.out, c, d)
      /\ Own(s, m, task) => task.data = Cut(W, c, e)
      /\ ~Own(s, m, task) => e = c
      /\ m = s => Line(W, x.tasks, e, h)
  BY <1>5 DEF ReadsAt
<1>7. Spans(W, t, h, g) /\ g \in 0..Len(W)
  OBVIOUS
<1>. HIDE DEF W, E, h, g
<1>8. h \in Nat /\ g \in Nat /\ h <= g
  BY <1>1, <1>2, <1>7 DEF Spans
<1>9. e <= g
  BY <1>6, <1>8
<1>10. m = s => Line(W, y.tasks, e, g)
  BY <1>6, <1>7, <1>8, LineAppend
<1>11. /\ c <= e /\ e <= g /\ Stands(s, y.stream, W, E, y.parser, y.out, c, d)
       /\ Own(s, m, task) => task.data = Cut(W, c, e)
       /\ ~Own(s, m, task) => e = c
       /\ m = s => Line(W, y.tasks, e, g)
  BY <1>6, <1>9, <1>10
<1>12. ReadsAt(s, y, m, task, c, d, e)
  BY <1>11 DEF ReadsAt, W, E, g
<1>. QED
  BY <1>1, <1>12 DEF Reads

\* The thread takes the first task.
LEMMA ReadsPop ==
    ASSUME NEW s \in Nat \ {0}, NEW x, NEW m, NEW task, Reads(s, x, m, task), task.kind = "none",
           IsQueue(x.tasks), x.tasks # <<>>,
           NEW y, y.stream = x.stream, y.parser = x.parser, y.out = x.out, y.heard = x.heard,
           y.tasks = Tail(x.tasks)
    PROVE  Reads(s, y, m, Head(x.tasks))
<1>. DEFINE W == WireOf(s, x.stream)
            E == Edges(s, x.stream)
            h == x.heard
            t == Head(x.tasks)
<1>1. x.stream \in Seq(Message) /\ h \in 0..Len(W)
  BY DEF Reads
<1>2. h \in Nat
  BY <1>1, WireWorld
<1>3. PICK c \in Nat : \E d \in Nat : \E e \in Nat : ReadsAt(s, x, m, task, c, d, e)
  BY DEF Reads
<1>4. PICK d \in Nat : \E e \in Nat : ReadsAt(s, x, m, task, c, d, e)
  BY <1>3
<1>5. PICK e \in Nat : ReadsAt(s, x, m, task, c, d, e)
  BY <1>4
<1>6. ~Own(s, m, task)
  BY DEF Own
<1>7. /\ c <= h /\ Stands(s, x.stream, W, E, x.parser, x.out, c, d)
      /\ m = s => Line(W, x.tasks, c, h)
  BY <1>5, <1>6 DEF ReadsAt
<1>8. t.kind = "data" => t.pipe = 0
  BY QueueTail
<1>. HIDE DEF W, E, h, t
<1>9. \E f \in Nat : /\ c <= f /\ f <= h
                     /\ Own(s, m, t) => t.data = Cut(W, c, f)
                     /\ ~Own(s, m, t) => f = c
                     /\ m = s => Line(W, y.tasks, f, h)
  <2>1. CASE m = s
    <3>1. PICK f \in 0..h : Spans(W, t, c, f) /\ Line(W, Tail(x.tasks), f, h)
      BY <1>2, <1>7, <2>1, LineTail DEF t
    <3>2. f \in Nat /\ f <= h
      BY <1>2, <3>1
    <3>3. Own(s, m, t) <=> t.kind = "data"
      BY <1>8, <2>1 DEF Own
    <3>4. c <= f /\ (Own(s, m, t) => t.data = Cut(W, c, f)) /\ (~Own(s, m, t) => f = c)
      BY <3>1, <3>3 DEF Spans
    <3>. QED
      BY <3>1, <3>2, <3>4
  <2>2. CASE m # s
    <3>1. ~Own(s, m, t)
      BY <1>8, <2>2 DEF Own
    <3>2. c <= c
      OBVIOUS
    <3>. QED
      BY <1>7, <2>2, <3>1, <3>2
  <2>. QED
    BY <2>1, <2>2
<1>10. PICK f \in Nat : /\ c <= f /\ f <= h
                        /\ Own(s, m, t) => t.data = Cut(W, c, f)
                        /\ ~Own(s, m, t) => f = c
                        /\ m = s => Line(W, y.tasks, f, h)
  BY <1>9
<1>11. Stands(s, y.stream, W, E, y.parser, y.out, c, d)
  BY <1>7
<1>12. ReadsAt(s, y, m, t, c, d, f)
  BY <1>10, <1>11 DEF ReadsAt, W, E, h
<1>13. Reads(s, y, m, t)
  BY <1>1, <1>8, <1>12 DEF Reads, W, h
<1>. QED
  BY <1>13 DEF t

\* The parser has got data: r is what a round of unpack leaves
FedBy(x, y, r) ==
    /\ y.stream = x.stream /\ y.heard = x.heard /\ y.tasks = x.tasks
    /\ y.parser = r.parser /\ y.out = x.out \o r.out

LeftBy(s, task, r) ==
    \/ r.left = <<>> /\ task.kind # "data"
    \/ r.left # <<>> /\ task.kind = "data" /\ task.pipe = s /\ task.data = r.left

LEMMA ReadsUnpack ==
    ASSUME NEW s \in Nat, NEW x, NEW m, NEW task, Reads(s, x, m, task),
           task.kind = "data", task.pipe = s,
           NEW y, FedBy(x, y, unpack(x.parser, task.data)),
           NEW task2, LeftBy(s, task2, unpack(x.parser, task.data))
    PROVE  Reads(s, y, m, task2)
<1>. DEFINE str == x.stream
            W == WireOf(s, x.stream)
            E == Edges(s, x.stream)
            h == x.heard
            r == unpack(x.parser, task.data)
<1>1. str \in Seq(Message) /\ h \in 0..Len(W)
  BY DEF Reads
<1>2. World(s, str, W, E) /\ W \in Seq(Units) /\ Len(W) \in Nat
  BY <1>1, WireWorld
<1>3. PICK c \in Nat : \E d \in Nat : \E e \in Nat : ReadsAt(s, x, m, task, c, d, e)
  BY DEF Reads
<1>4. PICK d \in Nat : \E e \in Nat : ReadsAt(s, x, m, task, c, d, e)
  BY <1>3
<1>5. PICK e \in Nat : ReadsAt(s, x, m, task, c, d, e)
  BY <1>4
<1>6. Own(s, m, task)
  BY DEF Own
<1>7. /\ c <= e /\ e <= h /\ Stands(s, str, W, E, x.parser, x.out, c, d)
      /\ task.data = Cut(W, c, e)
      /\ m = s => Line(W, x.tasks, e, h)
  BY <1>5, <1>6 DEF ReadsAt
<1>8. FedBy(x, y, r) /\ LeftBy(s, task2, r)
  OBVIOUS
<1>. HIDE DEF W, E, h, r, str
<1>9. e <= Len(W) /\ h \in Nat
  BY <1>1, <1>2, <1>7
<1>10. ReadsOn(s, str, W, E, x.out, c, e, r)
  <2>1. ReadsOn(s, str, W, E, x.out, c, e, unpack(x.parser, Cut(W, c, e)))
    BY <1>2, <1>7, <1>9, ReadStep
  <2>. QED
    BY <1>7, <2>1 DEF r
<1>11. PICK c2 \in c..e : \E d2 \in Nat :
        Stands(s, str, W, E, r.parser, x.out \o r.out, c2, d2) /\ r.left = Cut(W, c2, e)
  BY <1>10 DEF ReadsOn
<1>12. PICK d2 \in Nat : Stands(s, str, W, E, r.parser, x.out \o r.out, c2, d2) /\ r.left = Cut(W, c2, e)
  BY <1>11
<1>13. c2 \in Nat /\ c2 <= e
  BY <1>11
<1>14. r.left = <<>> <=> c2 = e
  <2>1. Cut(W, c2, e) = <<>> <=> c2 = e
    BY <1>2, <1>9, <1>13, CutEmpty
  <2>. QED
    BY <1>12, <2>1
<1>15. /\ Own(s, m, task2) => task2.data = Cut(W, c2, e)
       /\ ~Own(s, m, task2) => e = c2
       /\ task2.kind = "data" => task2.pipe = s
  BY <1>8, <1>12, <1>14 DEF Own, LeftBy
<1>16. /\ y.stream = str /\ y.heard = h /\ y.tasks = x.tasks
       /\ Stands(s, str, W, E, y.parser, y.out, c2, d2)
  BY <1>8, <1>12 DEF FedBy, str, h
<1>17. ReadsAt(s, y, m, task2, c2, d2, e)
  BY <1>7, <1>13, <1>15, <1>16 DEF ReadsAt, W, E, str
<1>. QED
  BY <1>1, <1>15, <1>16, <1>17 DEF Reads, W, str

\* What has been handed over is what was sent, and all of it when nothing is
\* left to do.
LEMMA ReadsWhole ==
    ASSUME NEW s \in Nat, NEW x, NEW m, NEW task, Reads(s, x, m, task)
    PROVE  LET E == Edges(s, x.stream) IN
           /\ IsPrefix(OutOf(x.stream, x.out), PickedTo(s, x.stream, E, x.heard))
           /\ m = s /\ x.tasks = <<>> /\ task.kind = "none" =>
                 OutOf(x.stream, x.out) = PickedTo(s, x.stream, E, x.heard)
<1>. DEFINE str == x.stream
            W == WireOf(s, x.stream)
            E == Edges(s, x.stream)
            h == x.heard
<1>1. str \in Seq(Message) /\ h \in 0..Len(W)
  BY DEF Reads
<1>2. World(s, str, W, E) /\ W \in Seq(Units) /\ Len(W) \in Nat
  BY <1>1, WireWorld
<1>3. PICK c \in Nat : \E d \in Nat : \E e \in Nat : ReadsAt(s, x, m, task, c, d, e)
  BY DEF Reads
<1>4. PICK d \in Nat : \E e \in Nat : ReadsAt(s, x, m, task, c, d, e)
  BY <1>3
<1>5. PICK e \in Nat : ReadsAt(s, x, m, task, c, d, e)
  BY <1>4
<1>6. /\ c <= e /\ e <= h /\ Stands(s, str, W, E, x.parser, x.out, c, d)
      /\ ~Own(s, m, task) => e = c
      /\ m = s => Line(W, x.tasks, e, h)
  BY <1>5 DEF ReadsAt
<1>. HIDE DEF W, E, h, str
<1>7. At(s, str, W, E, x.parser, c, d) /\ OutOf(str, x.out) = PickedTo(s, str, E, d)
  BY <1>6 DEF Stands
<1>8. d <= c /\ h \in Nat
  BY <1>1, <1>2, <1>7 DEF At
<1>9. d <= h
  BY <1>6, <1>8
<1>10. IsPrefix(PickedTo(s, str, E, d), PickedTo(s, str, E, h))
  BY <1>2, <1>8, <1>9, PrefixPicks
<1>11. ASSUME m = s, x.tasks = <<>>, task.kind = "none"
       PROVE  OutOf(str, x.out) = PickedTo(s, str, E, h)
  <2>1. ~Own(s, m, task)
    BY <1>11 DEF Own
  <2>2. Line(W, <<>>, c, h)
    BY <1>6, <1>11, <2>1
  <2>3. c = h
    BY <1>8, <2>2, LineEmpty
  <2>4. PickedTo(s, str, E, d) = PickedTo(s, str, E, c)
    BY <1>2, <1>7, AtPicks
  <2>. QED
    BY <1>7, <2>3, <2>4
<1>. QED
  BY <1>7, <1>10, <1>11 DEF E, h, str

-----------------------------------------------------------------------------
(* The sessions with their parsers.                                        *)

TaskTyped(t) == t.kind = "data" => t.data \in Seq(Units)

SesTyped(x) ==
    /\ x.link \in {"asked", "connected", "failed", "closed"}
    /\ Len(x.tasks) <= MaxWaiting /\ IsParser(x.parser)
    /\ x.stream \in Seq(Message) /\ x.heard \in Nat
    /\ \A k \in DOMAIN x.tasks : TaskTyped(x.tasks[k])

History == mixed \subseteq Sessions /\ cut \subseteq Sessions /\ passed \subseteq Sessions /\ wrong \subseteq Sessions

Typed ==
    /\ down \in BOOLEAN /\ History
    /\ \A s \in Ids : SesTyped(ses[s]) /\ TaskTyped(run[s])

\* Every parser that only got the data of its own session reads its stream
Reading == \A s \in Ids \ mixed : Reads(s, ses[s], pipes[peer[s]], run[s])

Flowing == Inv /\ Typed /\ Reading

LEMMA IdsAre == Ids \subseteq Nat \ {0}
BY PipesAssumption DEF Ids

LEMMA NewTyped ==
    ASSUME NEW str \in Seq(Message)
    PROVE  SesTyped(Session(str))
<1>1. MaxWaiting \in Nat /\ Len(<<>>) = 0 /\ DOMAIN <<>> = {}
  BY PipesAssumption, EmptySeq
<1>2. /\ Session(str).stream = str /\ Session(str).heard = 0 /\ Session(str).tasks = <<>>
      /\ Session(str).parser = NewParser /\ Session(str).link = "asked"
  BY DEF Session
<1>. QED
  BY <1>1, <1>2, NewIsParser DEF SesTyped

LEMMA GoneIs ==
    /\ SesTyped(Gone) /\ Gone.stream \in Seq(Message) /\ Gone.heard = 0 /\ Gone.tasks = <<>>
    /\ Gone.parser = NewParser /\ Gone.out = <<>>
<1>1. MaxWaiting \in Nat /\ Len(<<>>) = 0 /\ DOMAIN <<>> = {} /\ <<>> \in Seq(Message)
  BY PipesAssumption, EmptySeq
<1>2. /\ Gone.stream = <<>> /\ Gone.heard = 0 /\ Gone.tasks = <<>>
      /\ Gone.parser = NewParser /\ Gone.out = <<>> /\ Gone.link = "closed"
  BY DEF Gone, Session
<1>. QED
  BY <1>1, <1>2, NewIsParser DEF SesTyped

LEMMA GoneReads ==
    ASSUME NEW s \in Ids, NEW m, NEW task, task.kind # "data"
    PROVE  Reads(s, Gone, m, task)
BY IdsAre, GoneIs, ReadsNew

\* A session that is kept or destroyed, and in the map no more than before.
LEMMA ReadsReleased ==
    ASSUME NEW s \in Ids, NEW x, NEW m, NEW task, Reads(s, x, m, task),
           NEW y, y = x \/ (y = Gone /\ task.kind # "data"), NEW m2, m2 = m \/ m2 # s
    PROVE  Reads(s, y, m2, task)
<1>1. CASE y = x
  BY <1>1, ReadsMap
<1>2. CASE y = Gone /\ task.kind # "data"
  BY <1>2, GoneReads
<1>. QED
  BY <1>1, <1>2

LEMMA ReleasedIs ==
    ASSUME NEW map, NEW sessions, NEW running
    PROVE  \A s \in Ids : \/ Released(map, sessions, running)[s] = sessions[s]
                          \/ /\ Released(map, sessions, running)[s] = Gone
                             /\ running[s].kind # "data"
BY DEF Released, Held

LEMMA BusyAre ==
    \A p : Busy(p) \subseteq Sessions /\ Notifying(p) \subseteq Sessions
BY DEF Busy, Notifying

\* A session is put into the map.
LEMMA RequestFlows ==
    ASSUME Inv, Typed, Reading, NEW p \in Peers, NEW str \in Seq(Message), onSessionRequest(p, str)
    PROVE  Typed' /\ Reading'
<1>. DEFINE n == last + 1
            rel == Released(pipes', ses, run)
<1>1. /\ New(p) /\ pipes' = [pipes EXCEPT ![p] = n]
      /\ ses' = [rel EXCEPT ![n] = Session(str)]
      /\ passed' = passed \cup Notifying(p)
      /\ UNCHANGED <<down, run, mixed, cut, wrong>>
  BY DEF onSessionRequest, appendDataPipe
<1>2. /\ last \in Nat /\ n \in Ids /\ last' = n
      /\ peer' \in [Ids -> Peers] /\ peer'[n] = p
      /\ \A t \in Ids : t # n => peer'[t] = peer[t]
      /\ run[n] = NoTask
  BY <1>1, NewIs DEF Inv
<1>3. peer \in [Ids -> Peers] /\ pipes \in [Peers -> 0..last]
  BY DEF Inv, Core, Shapes
<1>4. Sessions \subseteq Sessions'
  BY <1>2 DEF Sessions
<1>5. \A t \in Ids : rel[t] = ses[t] \/ (rel[t] = Gone /\ run[t].kind # "data")
  BY ReleasedIs
<1>6. rel = [t \in Ids |-> rel[t]]
  BY DEF Released
<1>. HIDE DEF rel, n
<1>7. ses'[n] = Session(str) /\ \A t \in Ids : t # n => ses'[t] = rel[t]
  BY <1>1, <1>2, <1>6
<1>8. \A t \in Ids : t # n => pipes'[peer'[t]] = pipes[peer[t]] \/ pipes'[peer'[t]] = n
  BY <1>1, <1>2, <1>3
<1>9. Typed'
  <2>1. History'
    BY <1>1, <1>4, BusyAre DEF Typed, History
  <2>2. \A t \in Ids : SesTyped(ses'[t]) /\ TaskTyped(run'[t])
    BY <1>1, <1>5, <1>7, GoneIs, NewTyped DEF Typed
  <2>. QED
    BY <1>1, <2>1, <2>2 DEF Typed
<1>10. ASSUME NEW t \in Ids \ mixed PROVE Reads(t, ses'[t], pipes'[peer'[t]], run[t])
  <2>1. CASE t = n
    <3>1. /\ ses'[t].stream \in Seq(Message) /\ ses'[t].heard = 0 /\ ses'[t].tasks = <<>>
          /\ ses'[t].parser = NewParser /\ ses'[t].out = <<>>
      BY <1>7, <2>1 DEF Session
    <3>2. run[t].kind # "data" /\ t \in Nat
      BY <1>2, <2>1, Kinds, IdsAre
    <3>. QED
      BY <3>1, <3>2, ReadsNew
  <2>2. CASE t # n
    <3>1. Reads(t, ses[t], pipes[peer[t]], run[t])
      BY DEF Reading
    <3>2. pipes'[peer'[t]] = pipes[peer[t]] \/ pipes'[peer'[t]] # t
      BY <1>8, <2>2
    <3>3. ses'[t] = ses[t] \/ (ses'[t] = Gone /\ run[t].kind # "data")
      BY <1>5, <1>7, <2>2
    <3>. QED
      BY <3>1, <3>2, <3>3, ReadsReleased
  <2>. QED
    BY <2>1, <2>2
<1>11. Reading'
  BY <1>1, <1>10 DEF Reading
<1>. QED
  BY <1>9, <1>11

\* A session is refused.
LEMMA RequestFailsFlows ==
    ASSUME Inv, Typed, Reading, NEW p \in Peers, SessionRequestFails(p)
    PROVE  Typed' /\ Reading'
<1>. DEFINE n == last + 1
<1>1. /\ New(p)
      /\ \/ run' = [run EXCEPT ![n] = Notify("Error")] /\ passed' = passed \cup {n}
         \/ UNCHANGED <<run, passed>>
         \/ passed' = passed \cup {n} /\ UNCHANGED run
      /\ UNCHANGED <<pipes, ses, mixed, cut, wrong>>
  BY DEF SessionRequestFails, Throws
<1>2. /\ last \in Nat /\ n \in Ids /\ last' = n
      /\ \A t \in Ids : t # n => peer'[t] = peer[t]
      /\ run[n] = NoTask /\ ses[n] = Gone
  BY <1>1, NewIs DEF Inv
<1>3. run = [t \in Ids |-> run[t]]
  BY DEF Inv, Core, Shapes
<1>4. /\ \A t \in Ids : t # n => run'[t] = run[t]
      /\ run'[n] = NoTask \/ run'[n] = Notify("Error")
      /\ passed' \subseteq passed \cup {n}
  BY <1>1, <1>2, <1>3
<1>5. Sessions \subseteq Sessions' /\ n \in Sessions'
  BY <1>2 DEF Sessions
<1>. HIDE DEF n
<1>6. run'[n].kind # "data"
  BY <1>4, Kinds
<1>7. Typed'
  <2>1. History'
    BY <1>1, <1>4, <1>5 DEF Typed, History
  <2>2. \A t \in Ids : SesTyped(ses'[t]) /\ TaskTyped(run'[t])
    BY <1>1, <1>4, <1>6 DEF Typed, TaskTyped
  <2>3. down' \in BOOLEAN
    BY DEF SessionRequestFails, Throws, Typed
  <2>. QED
    BY <1>1, <2>1, <2>2, <2>3 DEF Typed
<1>8. ASSUME NEW t \in Ids \ mixed PROVE Reads(t, ses[t], pipes[peer'[t]], run'[t])
  <2>1. CASE t = n
    BY <1>2, <1>6, <2>1, GoneReads
  <2>2. CASE t # n
    BY <1>2, <1>4, <2>2 DEF Reading
  <2>. QED
    BY <2>1, <2>2
<1>9. Reading'
  BY <1>1, <1>8 DEF Reading
<1>. QED
  BY <1>7, <1>9

\* A task is posted to a session.
LEMMA PostedFlows ==
    ASSUME Inv, Typed, Reading, NEW s \in Ids, NEW task, IsTask(task), TaskTyped(task),
           task.kind = "data" => task.pipe = 0,
           \A t \in Ids : t # s => ses'[t] = ses[t],
           ses'[s].link \in {"asked", "connected", "failed", "closed"},
           ses'[s].stream = ses[s].stream, ses'[s].parser = ses[s].parser, ses'[s].out = ses[s].out,
           Len(ses[s].tasks) < MaxWaiting, ses'[s].tasks = Append(ses[s].tasks, task),
           ses'[s].heard \in Nat,
           s \notin mixed => /\ ses'[s].heard \in 0..Len(WireOf(s, ses[s].stream))
                            /\ Spans(WireOf(s, ses[s].stream), task, ses[s].heard, ses'[s].heard),
           UNCHANGED <<down, last, peer, pipes, run, mixed, cut, passed, wrong>>
    PROVE  Typed' /\ Reading'
<1>. DEFINE q == ses[s].tasks
            a == Append(q, task)
<1>1. IsQueue(q)
  BY DEF Inv, Core, Shapes, IsSession
<1>2. \A k \in DOMAIN a : (k \in DOMAIN q /\ a[k] = q[k]) \/ a[k] = task
  BY <1>1, QueueAppend
<1>3. Len(a) <= MaxWaiting
  <2>1. PICK S : q \in Seq(S)
    BY <1>1 DEF IsQueue
  <2>. DEFINE T == S \cup {task}
  <2>2. q \in Seq(T) /\ task \in T
    BY <2>1, SeqMonotonic
  <2>. HIDE DEF T
  <2>3. Len(a) = Len(q) + 1 /\ Len(q) \in Nat
    BY <2>2, AppendProperties, LenProperties
  <2>. QED
    BY <2>3, PipesAssumption
<1>4. SesTyped(ses[s]) /\ s \in Nat
  BY IdsAre DEF Typed
<1>5. ses[s].stream \in Seq(Message) /\ IsParser(ses[s].parser) /\ \A k \in DOMAIN q : TaskTyped(q[k])
  BY <1>4 DEF SesTyped
<1>. HIDE DEF a, q
<1>8. \A k \in DOMAIN a : TaskTyped(a[k])
  BY <1>2, <1>5
<1>9. ses'[s].tasks = a
  BY DEF a, q
<1>10. SesTyped(ses'[s])
  BY <1>3, <1>5, <1>8, <1>9 DEF SesTyped
<1>11. History'
  BY DEF Typed, History, Sessions
<1>12. Typed'
  BY <1>10, <1>11 DEF Typed
<1>13. ASSUME NEW t \in Ids \ mixed PROVE Reads(t, ses'[t], pipes[peer[t]], run[t])
  <2>1. Reads(t, ses[t], pipes[peer[t]], run[t])
    BY DEF Reading
  <2>2. CASE t = s
    <3>1. /\ ses'[s].heard \in 0..Len(WireOf(s, ses[s].stream))
          /\ Spans(WireOf(s, ses[s].stream), task, ses[s].heard, ses'[s].heard)
      BY <2>2
    <3>2. Reads(s, ses'[s], pipes[peer[s]], run[s])
      BY <1>1, <1>4, <2>1, <2>2, <3>1, ReadsPost DEF q
    <3>. QED
      BY <2>2, <3>2
  <2>3. CASE t # s
    BY <2>1, <2>3
  <2>. QED
    BY <2>2, <2>3
<1>14. Reading'
  BY <1>13 DEF Reading
<1>. QED
  BY <1>12, <1>14

\* Data comes in: what follows on the wire.
LEMMA ReceivedFlows ==
    ASSUME Inv, Typed, Reading, NEW s \in Ids, NEW n \in Chunks, onReceivedData(s, n)
    PROVE  Typed' /\ Reading'
<1>. DEFINE W == WireOf(s, ses[s].stream)
            h == ses[s].heard
            g == h + n
            task == Data(SubSeq(W, h + 1, g))
            q == Append(ses[s].tasks, task)
<1>1. Wire(s) = W
  BY DEF Wire, Frames, WireOf, Packs
<1>2. /\ ses[s].link = "connected" /\ Len(ses[s].tasks) < MaxWaiting /\ g <= Len(W)
      /\ ses' = [ses EXCEPT ![s].heard = g, ![s].tasks = q]
      /\ UNCHANGED <<down, last, peer, pipes, run, mixed, cut, passed, wrong>>
  BY <1>1 DEF onReceivedData, Post, history
<1>3. ses = [t \in Ids |-> ses[t]] /\ IsSession(ses[s])
  BY DEF Inv, Core, Shapes
<1>4. SesTyped(ses[s]) /\ s \in Nat /\ n \in Nat
  BY IdsAre, StreamsAssumption DEF Typed
<1>5. h \in Nat /\ ses[s].stream \in Seq(Message)
  BY <1>4 DEF SesTyped
<1>6. W \in Seq(Units) /\ Len(W) \in Nat
  BY <1>4, <1>5, WireWorld
<1>7. task.kind = "data" /\ task.pipe = 0 /\ task.data = Cut(W, h, g) /\ IsTask(task)
  BY Kinds DEF Data, Cut
<1>8. g \in Nat /\ h <= g
  BY <1>4, <1>5
<1>. HIDE DEF W, h, g, task, q
<1>9. g \in 0..Len(W)
  BY <1>2, <1>6, <1>8
<1>10. Cut(W, h, g) \in Seq(Units)
  BY <1>2, <1>5, <1>6, <1>8, CutIs
<1>11. TaskTyped(task) /\ Spans(W, task, h, g)
  BY <1>7, <1>8, <1>10 DEF TaskTyped, Spans
<1>12. /\ \A t \in Ids : t # s => ses'[t] = ses[t]
       /\ ses'[s] = [ses[s] EXCEPT !.heard = g, !.tasks = q]
  BY <1>2, <1>3
<1>13. /\ ses'[s].link = ses[s].link /\ ses'[s].stream = ses[s].stream
       /\ ses'[s].parser = ses[s].parser /\ ses'[s].out = ses[s].out
       /\ ses'[s].tasks = q /\ ses'[s].heard = g
  BY <1>3, <1>12 DEF IsSession
<1>14. ses'[s].link \in {"asked", "connected", "failed", "closed"}
  BY <1>2, <1>13
<1>15. ses'[s].heard \in 0..Len(WireOf(s, ses[s].stream))
  BY <1>9, <1>13 DEF W
<1>16. Spans(WireOf(s, ses[s].stream), task, ses[s].heard, ses'[s].heard)
  BY <1>11, <1>13 DEF W, h
<1>17. ses'[s].tasks = Append(ses[s].tasks, task)
  BY <1>13 DEF q
<1>18. ses'[s].heard \in Nat
  BY <1>8, <1>13
<1>. QED
  BY <1>2, <1>7, <1>11, <1>12, <1>13, <1>14, <1>15, <1>16, <1>17, <1>18, PostedFlows

\* A notification is posted.
LEMMA StateChangedFlows ==
    ASSUME Inv, Typed, Reading, NEW s \in Ids, NEW from,
           NEW to \in {"asked", "connected", "failed", "closed"}, NEW what,
           StateChanged(s, from, to, what)
    PROVE  Typed' /\ Reading'
<1>. DEFINE task == Notify(what)
            q == Append(ses[s].tasks, task)
<1>2. /\ Len(ses[s].tasks) < MaxWaiting
      /\ ses' = [ses EXCEPT ![s].link = to, ![s].tasks = q]
      /\ UNCHANGED <<down, last, peer, pipes, run, mixed, cut, passed, wrong>>
  BY DEF StateChanged, Post, history
<1>3. ses = [t \in Ids |-> ses[t]] /\ IsSession(ses[s])
  BY DEF Inv, Core, Shapes
<1>4. IsTask(task) /\ task.kind = "notify"
  BY Kinds
<1>. HIDE DEF task, q
<1>5. /\ \A t \in Ids : t # s => ses'[t] = ses[t]
      /\ ses'[s] = [ses[s] EXCEPT !.link = to, !.tasks = q]
  BY <1>2, <1>3
<1>6. /\ ses'[s].link = to /\ ses'[s].stream = ses[s].stream
      /\ ses'[s].parser = ses[s].parser /\ ses'[s].out = ses[s].out
      /\ ses'[s].tasks = q /\ ses'[s].heard = ses[s].heard
  BY <1>3, <1>5 DEF IsSession
<1>7. s \notin mixed => ses[s].heard \in 0..Len(WireOf(s, ses[s].stream))
  BY DEF Reading, Reads
<1>8. ses[s].heard \in Nat
  BY DEF Typed, SesTyped
<1>9. ses[s].heard <= ses[s].heard
  BY <1>8
<1>10. TaskTyped(task) /\ Spans(WireOf(s, ses[s].stream), task, ses[s].heard, ses'[s].heard)
  BY <1>4, <1>6, <1>9 DEF TaskTyped, Spans
<1>11. ses'[s].tasks = Append(ses[s].tasks, task)
  BY <1>6 DEF q
<1>12. ses'[s].heard \in Nat /\ (s \notin mixed => ses'[s].heard \in 0..Len(WireOf(s, ses[s].stream)))
  BY <1>6, <1>7, <1>8
<1>. QED
  BY <1>2, <1>4, <1>5, <1>6, <1>10, <1>11, <1>12, PostedFlows

\* A thread with a notification is done with it, and other threads go on.
Delivers == \A t \in Ids : run'[t] = run[t] \/ (run[t].kind = "notify" /\ run'[t] = NoTask)

LEMMA DeliveredReads ==
    ASSUME Typed, Reading, Delivers, NEW t \in Ids
    PROVE  /\ TaskTyped(run'[t])
           /\ t \notin mixed => Reads(t, ses[t], pipes[peer[t]], run'[t])
<1>1. run'[t] = run[t] \/ (run[t].kind = "notify" /\ run'[t] = NoTask)
  BY DEF Delivers
<1>2. TaskTyped(run[t]) /\ (t \notin mixed => Reads(t, ses[t], pipes[peer[t]], run[t]))
  BY DEF Typed, Reading
<1>3. CASE run'[t] = run[t]
  BY <1>2, <1>3
<1>4. CASE run[t].kind = "notify" /\ run'[t] = NoTask
  <2>1. run'[t].kind = "none"
    BY <1>4, Kinds
  <2>2. ~Own(t, pipes[peer[t]], run[t]) /\ ~Own(t, pipes[peer[t]], run'[t])
    BY <1>4, <2>1 DEF Own
  <2>. QED
    BY <1>2, <2>1, <2>2, ReadsRest DEF TaskTyped
<1>. QED
  BY <1>1, <1>3, <1>4

\* Pipes are removed.
LEMMA RemovedFlows ==
    ASSUME Inv, Typed, Reading, NEW peers \in SUBSET Peers, NEW except, Removed(peers, run', except),
           Delivers, UNCHANGED <<down, last, peer, mixed>>, wrong' \subseteq Sessions
    PROVE  Typed' /\ Reading'
<1>1. /\ pipes' = [p \in Peers |-> IF p \in peers THEN 0 ELSE pipes[p]]
      /\ ses' = Released(pipes', ses, run')
      /\ cut' = cut \cup UNION {Busy(p) : p \in peers}
      /\ passed' = passed \cup ((UNION {Notifying(p) : p \in peers}) \ except)
  BY DEF Removed, Without
<1>2. peer \in [Ids -> Peers]
  BY DEF Inv, Core, Shapes
<1>3. \A t \in Ids : pipes'[peer[t]] = pipes[peer[t]] \/ pipes'[peer[t]] # t
  BY <1>1, <1>2, IdsAre
<1>4. \A t \in Ids : ses'[t] = ses[t] \/ (ses'[t] = Gone /\ run'[t].kind # "data")
  BY <1>1, ReleasedIs
<1>5. History'
  <2>1. mixed \subseteq Sessions /\ cut \subseteq Sessions /\ passed \subseteq Sessions
    BY DEF Typed, History
  <2>2. UNION {Busy(p) : p \in peers} \subseteq Sessions
    BY BusyAre
  <2>3. UNION {Notifying(p) : p \in peers} \subseteq Sessions
    BY BusyAre
  <2>4. Sessions' = Sessions
    BY DEF Sessions
  <2>5. cut' \subseteq Sessions
    BY <1>1, <2>1, <2>2
  <2>6. passed' \subseteq Sessions
    BY <1>1, <2>1, <2>3
  <2>. QED
    BY <2>1, <2>4, <2>5, <2>6 DEF History
<1>6. Typed'
  BY <1>4, <1>5, GoneIs, DeliveredReads DEF Typed
<1>7. ASSUME NEW t \in Ids \ mixed PROVE Reads(t, ses'[t], pipes'[peer[t]], run'[t])
  <2>1. Reads(t, ses[t], pipes[peer[t]], run'[t])
    BY DeliveredReads
  <2>. QED
    BY <1>3, <1>4, <2>1, ReadsReleased
<1>8. Reading'
  BY <1>7 DEF Reading
<1>. QED
  BY <1>6, <1>8

\* The last reference to a session goes while its thread is between two tasks.
LEMMA PopGoneFlows ==
    ASSUME Typed, Reading, NEW s \in Ids, PopGone(s)
    PROVE  Typed' /\ Reading'
<1>1. /\ UNCHANGED <<last, peer, pipes, ses, run, mixed, cut, wrong>>
      /\ down' \in BOOLEAN /\ passed' = passed \cup {s} /\ s \in Sessions
  BY DEF PopGone, Throws
<1>2. History'
  BY <1>1 DEF Typed, History, Sessions
<1>3. Typed'
  BY <1>1, <1>2 DEF Typed, Ids
<1>4. Reading'
  BY <1>1 DEF Reading, Ids
<1>. QED
  BY <1>3, <1>4

\* Nothing but the end of the process.
LEMMA CrashFlows ==
    ASSUME Typed, Reading, UNCHANGED <<last, peer, pipes, ses, run, mixed, cut, passed, wrong>>,
           down' \in BOOLEAN
    PROVE  Typed' /\ Reading'
BY DEF Typed, Reading, History, Sessions, Ids

LEMMA NotifyFlows ==
    ASSUME Inv, Typed, Reading, NEW s \in Ids, onNotify(s)
    PROVE  Typed' /\ Reading'
<1>1. Core /\ run[s].kind = "notify"
  BY DEF Inv, onNotify
<1>2. s \in Sessions
  <2>1. ~(s > last)
    BY <1>1, Kinds DEF Core, Fresh
  <2>2. last \in Nat
    BY <1>1, PipesAssumption DEF Core, Shapes
  <2>. QED
    BY <2>1, <2>2, IdsAre DEF Sessions
<1>3. CASE Crash
  <2>1. UNCHANGED <<last, peer, pipes, ses, run, mixed, cut, passed, wrong>> /\ down' \in BOOLEAN
    BY <1>3 DEF Crash, history
  <2>. QED
    BY <2>1, CrashFlows
<1>4. ASSUME run' = Done(s) PROVE Delivers
  BY <1>1, <1>4, DoneIs DEF Delivers
<1>5. CASE /\ run' = Done(s) /\ removeDataPipe(peer[s], Done(s), {s})
           /\ wrong' = IF pipes[peer[s]] \in {0, s} THEN wrong ELSE wrong \cup {s}
           /\ UNCHANGED <<down, last, peer, mixed>>
  <2>1. Removed({peer[s]}, run', {s})
    BY <1>5 DEF removeDataPipe
  <2>2. {peer[s]} \in SUBSET Peers
    BY <1>1 DEF Core, Shapes
  <2>3. wrong' \subseteq Sessions
    BY <1>2, <1>5 DEF Typed, History
  <2>. QED
    BY <1>4, <1>5, <2>1, <2>2, <2>3, RemovedFlows
<1>6. CASE /\ run' = Done(s) /\ UNCHANGED <<pipes, ses, cut, passed, wrong>>
           /\ UNCHANGED <<down, last, peer, mixed>>
  <2>1. Delivers
    BY <1>4, <1>6
  <2>2. History'
    BY <1>6 DEF Typed, History, Sessions
  <2>3. Typed'
    BY <1>6, <2>1, <2>2, DeliveredReads DEF Typed
  <2>4. Reading'
    BY <1>6, <2>1, DeliveredReads DEF Reading
  <2>. QED
    BY <2>3, <2>4
<1>. QED
  BY <1>3, <1>5, <1>6 DEF onNotify

\* The first task begins to run.
LEMMA PopFlows ==
    ASSUME Inv, Typed, Reading, NEW s \in Ids, Pop(s)
    PROVE  Typed' /\ Reading'
<1>. DEFINE q == ses[s].tasks
            a == Tail(q)
            h == Head(q)
<1>1. /\ run[s].kind = "none" /\ q # <<>>
      /\ run' = [run EXCEPT ![s] = h] /\ ses' = [ses EXCEPT ![s].tasks = Tail(@)]
      /\ UNCHANGED <<down, last, peer, pipes, mixed, cut, passed, wrong>>
  BY DEF Pop, history
<1>2. /\ ses = [t \in Ids |-> ses[t]] /\ run = [t \in Ids |-> run[t]]
      /\ IsSession(ses[s]) /\ IsQueue(q)
  BY DEF Inv, Core, Shapes, IsSession
<1>3. /\ \A k \in DOMAIN a : k + 1 \in DOMAIN q /\ a[k] = q[k + 1]
      /\ 1 \in DOMAIN q /\ h = q[1]
  BY <1>1, <1>2, QueueTail
<1>4. ses'[s] = [ses[s] EXCEPT !.tasks = a]
  BY <1>1, <1>2
<1>5. Len(a) = Len(q) - 1 /\ Len(q) \in Nat
  <2>1. PICK S : q \in Seq(S)
    BY <1>2 DEF IsQueue
  <2>. HIDE DEF q
  <2>. QED
    BY <1>1, <2>1, HeadTailProperties, LenProperties
<1>. HIDE DEF a, h
<1>6. /\ \A t \in Ids : t # s => ses'[t] = ses[t] /\ run'[t] = run[t]
      /\ run'[s] = h
  BY <1>1, <1>2
<1>7. /\ ses'[s].tasks = a /\ ses'[s].link = ses[s].link /\ ses'[s].stream = ses[s].stream
      /\ ses'[s].heard = ses[s].heard /\ ses'[s].parser = ses[s].parser /\ ses'[s].out = ses[s].out
  BY <1>2, <1>4 DEF IsSession
<1>8. SesTyped(ses[s])
  BY DEF Typed
<1>9. SesTyped(ses'[s]) /\ TaskTyped(h)
  <2>1. Len(q) <= MaxWaiting /\ \A k \in DOMAIN q : TaskTyped(q[k])
    BY <1>8 DEF SesTyped
  <2>. HIDE DEF q
  <2>2. Len(a) <= MaxWaiting
    BY <1>5, <2>1, PipesAssumption
  <2>3. TaskTyped(h) /\ \A k \in DOMAIN a : TaskTyped(a[k])
    BY <1>3, <2>1
  <2>. QED
    BY <1>7, <1>8, <2>2, <2>3 DEF SesTyped
<1>10. History'
  BY <1>1 DEF Typed, History, Sessions
<1>11. Typed'
  BY <1>1, <1>6, <1>9, <1>10 DEF Typed
<1>12. ASSUME NEW t \in Ids \ mixed PROVE Reads(t, ses'[t], pipes[peer[t]], run'[t])
  <2>1. Reads(t, ses[t], pipes[peer[t]], run[t])
    BY DEF Reading
  <2>2. CASE t = s
    <3>1. Reads(s, ses'[s], pipes[peer[s]], Head(ses[s].tasks))
      BY <1>1, <1>2, <1>7, <2>1, <2>2, IdsAre, ReadsPop DEF a
    <3>. QED
      BY <1>6, <2>2, <3>1 DEF h
  <2>3. CASE t # s
    BY <1>6, <2>1, <2>3
  <2>. QED
    BY <2>2, <2>3
<1>13. Reading'
  BY <1>1, <1>12 DEF Reading
<1>. QED
  BY <1>11, <1>13

\* Data finds its pipe: its own session's, or one that then has foreign data.
LEMMA FindPipeFlows ==
    ASSUME Inv, Typed, Reading, NEW s \in Ids, FindPipe(s)
    PROVE  Typed' /\ Reading'
<1>. DEFINE p == pipes[peer[s]]
<1>1. run[s].kind = "data" /\ run[s].pipe = 0
  BY DEF FindPipe
<1>2. CASE Crash
  <2>1. UNCHANGED <<last, peer, pipes, ses, run, mixed, cut, passed, wrong>> /\ down' \in BOOLEAN
    BY <1>2 DEF Crash, history
  <2>. QED
    BY <2>1, CrashFlows
<1>3. CASE /\ p # 0 /\ run' = [run EXCEPT ![s].pipe = p]
           /\ mixed' = IF p = s THEN mixed ELSE mixed \cup {p}
           /\ UNCHANGED <<down, last, peer, pipes, ses, cut, passed, wrong>>
  <2>1. run = [t \in Ids |-> run[t]] /\ IsTask(run[s]) /\ p \in 0..last /\ last \in Nat
    BY PipesAssumption DEF Inv, Core, Shapes
  <2>2. /\ \A t \in Ids : t # s => run'[t] = run[t]
        /\ run'[s] = [run[s] EXCEPT !.pipe = p]
    BY <1>3, <2>1
  <2>3. run[s] = [kind |-> "data", data |-> run[s].data, pipe |-> run[s].pipe]
    BY <1>1, <2>1 DEF IsTask, NoTask
  <2>4. run'[s].kind = "data" /\ run'[s].pipe = p /\ run'[s].data = run[s].data
    BY <2>2, <2>3
  <2>5. p \in Sessions /\ mixed \subseteq mixed'
    BY <1>3, <2>1 DEF Sessions
  <2>6. History'
    <3>1. Sessions' = Sessions
      BY <1>3 DEF Sessions
    <3>. QED
      BY <1>3, <2>5, <3>1 DEF Typed, History
  <2>7. \A t \in Ids : TaskTyped(run'[t])
    <3>1. TaskTyped(run'[s])
      BY <1>1, <2>4 DEF Typed, TaskTyped
    <3>. QED
      BY <2>2, <3>1 DEF Typed
  <2>8. Typed'
    BY <1>3, <2>6, <2>7 DEF Typed
  <2>9. ASSUME NEW t \in Ids \ mixed' PROVE Reads(t, ses[t], pipes[peer[t]], run'[t])
    <3>1. Reads(t, ses[t], pipes[peer[t]], run[t])
      BY <2>5 DEF Reading
    <3>2. CASE t # s
      BY <2>2, <3>1, <3>2
    <3>3. CASE t = s /\ p = s
      <4>1. Own(s, p, run[s]) /\ Own(s, p, run'[s])
        BY <1>1, <2>4, <3>3 DEF Own
      <4>2. Reads(s, ses[s], p, run[s])
        BY <3>1, <3>3
      <4>. HIDE DEF p
      <4>3. Reads(s, ses[s], p, run'[s])
        BY <2>4, <4>1, <4>2, ReadsSame
      <4>. QED
        BY <3>3, <4>3 DEF p
    <3>4. CASE t = s /\ p # s
      <4>1. ~Own(s, p, run'[s])
        BY <2>4, <3>4 DEF Own
      <4>2. Reads(s, ses[s], p, run[s])
        BY <3>1, <3>4
      <4>. HIDE DEF p
      <4>3. Reads(s, ses[s], p, run'[s])
        BY <3>4, <4>1, <4>2, ReadsRest
      <4>. QED
        BY <3>4, <4>3 DEF p
    <3>. QED
      BY <3>2, <3>3, <3>4
  <2>10. Reading'
    BY <1>3, <2>9 DEF Reading
  <2>. QED
    BY <2>8, <2>10
<1>. QED
  BY <1>2, <1>3 DEF FindPipe

\* What a round of unpack leaves of the thread's task.
LEMMA AfterIs ==
    ASSUME Inv, NEW s \in Ids, run[s].kind = "data", NEW r
    PROVE  /\ \A t \in Ids : t # s => After(s, r)[t] = run[t]
           /\ LeftBy(run[s].pipe, After(s, r)[s], r)
<1>1. run = [t \in Ids |-> run[t]] /\ IsTask(run[s]) /\ Core
  BY DEF Inv, Core, Shapes
<1>2. CASE r.left = <<>>
  <2>1. After(s, r) = Done(s)
    BY <1>2 DEF After
  <2>2. Done(s)[s].kind # "data" /\ \A t \in Ids : t # s => Done(s)[t] = run[t]
    BY <1>1, DoneIs, Kinds
  <2>. QED
    BY <1>2, <2>1, <2>2 DEF LeftBy
<1>3. CASE r.left # <<>>
  <2>. DEFINE f == [run EXCEPT ![s].data = r.left]
  <2>1. After(s, r) = f
    BY <1>3 DEF After
  <2>2. (\A t \in Ids : t # s => f[t] = run[t]) /\ f[s] = [run[s] EXCEPT !.data = r.left]
    BY <1>1
  <2>3. run[s] = [kind |-> "data", data |-> run[s].data, pipe |-> run[s].pipe]
    BY <1>1 DEF IsTask, NoTask
  <2>. HIDE DEF f
  <2>4. f[s].kind = "data" /\ f[s].pipe = run[s].pipe /\ f[s].data = r.left
    BY <2>2, <2>3
  <2>. QED
    BY <1>3, <2>1, <2>2, <2>4 DEF LeftBy
<1>. QED
  BY <1>2, <1>3

LEMMA FedIs ==
    ASSUME Inv, NEW p \in Ids, NEW r
    PROVE  /\ \A t \in Ids : t # p => Fed(p, r)[t] = ses[t]
           /\ Fed(p, r)[p].link = ses[p].link /\ Fed(p, r)[p].tasks = ses[p].tasks
           /\ Fed(p, r)[p].stream = ses[p].stream /\ Fed(p, r)[p].heard = ses[p].heard
           /\ Fed(p, r)[p].parser = r.parser
           /\ p \notin mixed => FedBy(ses[p], Fed(p, r)[p], r)
<1>. DEFINE o == IF p \in mixed THEN <<>> ELSE ses[p].out \o r.out
            f == Fed(p, r)
<1>1. ses = [t \in Ids |-> ses[t]] /\ IsSession(ses[p])
  BY DEF Inv, Core, Shapes
<1>2. (\A t \in Ids : t # p => f[t] = ses[t]) /\ f[p] = [ses[p] EXCEPT !.parser = r.parser, !.out = o]
  BY <1>1 DEF Fed
<1>3. p \notin mixed => o = ses[p].out \o r.out
  OBVIOUS
<1>. HIDE DEF o, f
<1>4. /\ f[p].link = ses[p].link /\ f[p].tasks = ses[p].tasks
      /\ f[p].stream = ses[p].stream /\ f[p].heard = ses[p].heard
      /\ f[p].parser = r.parser /\ f[p].out = o
  BY <1>1, <1>2 DEF IsSession
<1>5. p \notin mixed => FedBy(ses[p], f[p], r)
  BY <1>3, <1>4 DEF FedBy
<1>. QED
  BY <1>2, <1>4, <1>5 DEF f

LEMMA UnpackFlows ==
    ASSUME Inv, Typed, Reading, NEW s \in Ids, Unpack(s)
    PROVE  Typed' /\ Reading'
<1>. DEFINE p == run[s].pipe
            r == unpack(ses[p].parser, run[s].data)
            fed == Fed(p, r)
            next == After(s, r)
<1>1. run[s].kind = "data" /\ p # 0
  BY DEF Unpack
<1>2. CASE Crash
  <2>1. UNCHANGED <<last, peer, pipes, ses, run, mixed, cut, passed, wrong>> /\ down' \in BOOLEAN
    BY <1>2 DEF Crash, history
  <2>. QED
    BY <2>1, CrashFlows
<1>3. CASE /\ run' = next /\ ses' = Released(pipes, fed, next)
           /\ UNCHANGED <<down, last, peer, pipes, mixed, cut, passed, wrong>>
  <2>1. p \in Ids
    <3>1. p \in 0..last /\ last \in 0..MaxSessions /\ MaxSessions \in Nat
      BY <1>1, PipesAssumption DEF Inv, Core, Shapes
    <3>. QED
      BY <1>1, <3>1 DEF Ids
  <2>2. (\A t \in Ids : t # s => next[t] = run[t]) /\ LeftBy(p, next[s], r)
    BY <1>1, AfterIs
  <2>3. /\ \A t \in Ids : t # p => fed[t] = ses[t]
        /\ fed[p].link = ses[p].link /\ fed[p].tasks = ses[p].tasks
        /\ fed[p].stream = ses[p].stream /\ fed[p].heard = ses[p].heard
        /\ fed[p].parser = r.parser
        /\ p \notin mixed => FedBy(ses[p], fed[p], r)
    BY <2>1, FedIs
  <2>4. \A t \in Ids : ses'[t] = fed[t] \/ (ses'[t] = Gone /\ next[t].kind # "data")
    BY <1>3, ReleasedIs
  <2>5. SesTyped(ses[p]) /\ TaskTyped(run[s])
    BY <2>1 DEF Typed
  <2>6. IsParser(r.parser) /\ r.left \in Seq(Units)
    <3>1. IsParser(ses[p].parser) /\ run[s].data \in Seq(Units)
      BY <1>1, <2>5 DEF SesTyped, TaskTyped
    <3>. QED
      BY <3>1, ParserType
  <2>. HIDE DEF fed, next, r, p
  <2>7. SesTyped(fed[p])
    BY <2>3, <2>5, <2>6 DEF SesTyped
  <2>8. TaskTyped(next[s])
    BY <2>2, <2>6 DEF LeftBy, TaskTyped
  <2>9. \A t \in Ids : SesTyped(ses'[t]) /\ TaskTyped(run'[t])
    BY <1>3, <2>2, <2>3, <2>4, <2>7, <2>8, GoneIs DEF Typed
  <2>10. History'
    BY <1>3 DEF Typed, History, Sessions
  <2>11. Typed'
    BY <1>3, <2>9, <2>10 DEF Typed
  <2>12. p = s \/ p \in mixed
    BY <1>1, <2>1 DEF Inv, Core, Foreign, p
  <2>13. ASSUME NEW t \in Ids \ mixed PROVE Reads(t, fed[t], pipes[peer[t]], next[t])
    <3>1. Reads(t, ses[t], pipes[peer[t]], run[t])
      BY DEF Reading
    <3>2. CASE t # s
      <4>1. t # p
        BY <2>12, <3>2
      <4>. QED
        BY <2>2, <2>3, <3>1, <3>2, <4>1
    <3>3. CASE t = s /\ p = s
      <4>1. FedBy(ses[s], fed[s], r) /\ LeftBy(s, next[s], r)
        BY <2>2, <2>3, <3>3
      <4>2. r = unpack(ses[s].parser, run[s].data) /\ run[s].pipe = s
        BY <3>3 DEF r, p
      <4>3. FedBy(ses[s], fed[s], unpack(ses[s].parser, run[s].data))
        BY <4>1, <4>2
      <4>4. LeftBy(s, next[s], unpack(ses[s].parser, run[s].data))
        BY <4>1, <4>2
      <4>5. s \in Nat /\ Reads(s, ses[s], pipes[peer[s]], run[s])
        BY <3>1, <3>3, IdsAre
      <4>6. Reads(s, fed[s], pipes[peer[s]], next[s])
        BY <1>1, <4>2, <4>3, <4>4, <4>5, ReadsUnpack
      <4>. QED
        BY <3>3, <4>6
    <3>4. CASE t = s /\ p # s
      <4>1. fed[s] = ses[s]
        BY <2>3, <3>4
      <4>2. pipes[peer[s]] # s
        BY <1>1, <3>1, <3>4 DEF Reads, p
      <4>3. ~Own(s, pipes[peer[s]], next[s])
        BY <2>2, <3>4, <4>2 DEF Own, LeftBy
      <4>4. Reads(s, ses[s], pipes[peer[s]], next[s])
        BY <3>1, <3>4, <4>2, <4>3, ReadsRest
      <4>. QED
        BY <3>4, <4>1, <4>4
    <3>. QED
      BY <3>2, <3>3, <3>4
  <2>14. ASSUME NEW t \in Ids \ mixed PROVE Reads(t, ses'[t], pipes[peer[t]], next[t])
    BY <2>4, <2>13, ReadsReleased
  <2>15. Reading'
    BY <1>3, <2>14 DEF Reading
  <2>. QED
    BY <2>11, <2>15
<1>. QED
  BY <1>2, <1>3 DEF Unpack, history

-----------------------------------------------------------------------------
(* What has been handed over, and the theorems about it.                   *)

\* Out and Complete are what the lemmas about the parser are about.
LEMMA OutIs == \A s : Out(s) = OutOf(ses[s].stream, ses[s].out)
BY DEF Out, OutOf, Counted, CountedOf, Old, HasOld

LEMMA CompleteIs ==
    ASSUME NEW s, ses[s].stream \in Seq(Message)
    PROVE  Complete(s) = PickedTo(s, ses[s].stream, Edges(s, ses[s].stream), ses[s].heard)
<1>. DEFINE str == ses[s].stream
            h == ses[s].heard
            E == Edges(s, str)
            end(i) == Len(FlattenSeq(SubSeq(Frames(s), 1, i)))
            whole(i) == str[i].kind = "frame" /\ end(i) <= h /\ \A j \in 1..i : str[j].kind # "old"
            G == [i \in DOMAIN str |-> IF whole(i) THEN Counted(s, Sent(s, i)) ELSE <<>>]
<1>1. DOMAIN str = 1..Len(str) /\ Len(str) \in Nat
  BY LenProperties
<1>2. Frames(s) = Packs(s, str)
  BY DEF Frames, Packs
<1>3. ASSUME NEW i \in DOMAIN str PROVE E[i] = end(i)
  <2>1. i \in 0..Len(str)
    BY <1>1
  <2>. QED
    BY <1>2, <2>1 DEF Edges, Flow
<1>4. ASSUME NEW i \in DOMAIN str PROVE whole(i) <=> IsDue(str, E, h, i)
  BY <1>3 DEF IsDue, NoOld
<1>5. ASSUME NEW i \in DOMAIN str PROVE Counted(s, Sent(s, i)) = CountedOf(str, MessageOf(s, str, i))
  BY DEF Counted, CountedOf, Old, HasOld, Sent, MessageOf
<1>6. Complete(s) = FlattenSeq(G)
  BY DEF Complete
<1>. HIDE DEF E, h, whole
<1>7. G = Due(s, str, E, h)
  BY <1>4, <1>5 DEF Due
<1>. QED
  BY <1>6, <1>7 DEF PickedTo, E, h

LEMMA FlowingTyped == Flowing => TypeOK
<1>. SUFFICES ASSUME Flowing PROVE TypeOK
  OBVIOUS
<1>1. Inv /\ Typed
  BY DEF Flowing
<1>2. /\ last \in 0..MaxSessions /\ peer \in [Ids -> Peers] /\ pipes \in [Peers -> 0..last]
      /\ \A s \in Ids : IsTask(run[s])
  BY <1>1 DEF Inv, Core, Shapes
<1>3. ASSUME NEW s \in Ids
      PROVE  /\ ses[s].link \in {"asked", "connected", "failed", "closed"}
             /\ Len(ses[s].tasks) <= MaxWaiting
             /\ run[s].kind \in {"none", "notify", "data"}
             /\ Len(ses[s].parser.head) <= ses[s].parser.hs
             /\ Len(ses[s].parser.body) <= ses[s].parser.bs
  <2>1. SesTyped(ses[s])
    BY <1>1 DEF Typed
  <2>2. ParserShape(ses[s].parser)
    BY <2>1 DEF SesTyped, IsParser
  <2>3. run[s].kind \in {"none", "notify", "data"}
    <3>1. CASE run[s] = NoTask
      BY <3>1, Kinds
    <3>2. CASE run[s] = [kind |-> "notify", what |-> run[s].what]
      BY <3>2
    <3>3. CASE run[s] = [kind |-> "data", data |-> run[s].data, pipe |-> run[s].pipe]
      BY <3>3
    <3>. QED
      BY <1>2, <3>1, <3>2, <3>3 DEF IsTask
  <2>. QED
    BY <2>1, <2>2, <2>3 DEF SesTyped, ParserShape
<1>4. down \in BOOLEAN /\ mixed \cup cut \cup passed \cup wrong \subseteq Sessions
  BY <1>1 DEF Typed, History
<1>. QED
  BY <1>2, <1>3, <1>4 DEF TypeOK

LEMMA FlowingWhole == Flowing => WholeMessages
<1>. SUFFICES ASSUME Flowing PROVE WholeMessages
  OBVIOUS
<1>1. Inv /\ Typed /\ Reading /\ TypeOK
  BY FlowingTyped DEF Flowing
<1>2. Sessions \subseteq Ids
  BY <1>1, PipesAssumption DEF Inv, Core, Shapes, Sessions, Ids
<1>3. ASSUME NEW s \in Sessions \ mixed
      PROVE  /\ IsPrefix(Out(s), Complete(s))
             /\ pipes[peer[s]] = s /\ ses[s].tasks = <<>> /\ run[s].kind = "none" => Out(s) = Complete(s)
  <2>1. Reads(s, ses[s], pipes[peer[s]], run[s]) /\ s \in Nat
    BY <1>1, <1>2, IdsAre DEF Reading
  <2>2. ses[s].stream \in Seq(Message)
    BY <2>1 DEF Reads
  <2>3. /\ Out(s) = OutOf(ses[s].stream, ses[s].out)
        /\ Complete(s) = PickedTo(s, ses[s].stream, Edges(s, ses[s].stream), ses[s].heard)
    BY <2>2, OutIs, CompleteIs
  <2>. QED
    BY <2>1, <2>3, ReadsWhole
<1>. QED
  BY <1>1, <1>3 DEF WholeMessages

LEMMA InitFlows == Init => Flowing
<1>. SUFFICES ASSUME Init PROVE Flowing
  OBVIOUS
<1>1. /\ down = FALSE /\ ses = [s \in Ids |-> Gone] /\ run = [s \in Ids |-> NoTask]
      /\ mixed = {} /\ cut = {} /\ passed = {} /\ wrong = {}
  BY DEF Init
<1>2. \A s \in Ids : ses[s] = Gone /\ run[s] = NoTask /\ run[s].kind # "data"
  BY <1>1, Kinds
<1>3. Typed
  BY <1>1, <1>2, GoneIs DEF Typed, History, TaskTyped
<1>4. Reading
  BY <1>2, GoneReads DEF Reading
<1>. QED
  BY <1>3, <1>4, InitInv DEF Flowing

LEMMA NextFlows == Flowing /\ [Next]_vars => Flowing'
<1>. SUFFICES ASSUME Flowing, [Next]_vars PROVE Flowing'
  OBVIOUS
<1>1. Inv /\ Typed /\ Reading
  BY DEF Flowing
<1>2. SUFFICES Typed' /\ Reading'
  BY <1>1, NextInv DEF Flowing
<1>3. ASSUME NEW p \in Peers, NEW s \in Ids, NEW str \in Streams[s], onSessionRequest(p, str)
      PROVE  Typed' /\ Reading'
  <2>1. str \in Seq(Message)
    BY StreamsAssumption DEF Ids
  <2>. QED
    BY <1>1, <1>3, <2>1, RequestFlows
<1>4. ASSUME NEW p \in Peers, SessionRequestFails(p) PROVE Typed' /\ Reading'
  BY <1>1, <1>4, RequestFailsFlows
<1>5. ASSUME NEW peers \in SUBSET Peers, Removed(peers, run, {}),
             UNCHANGED <<down, last, peer, run, mixed, wrong>>
      PROVE  Typed' /\ Reading'
  <2>1. Delivers /\ wrong' \subseteq Sessions /\ Removed(peers, run', {})
    BY <1>1, <1>5 DEF Delivers, Typed, History
  <2>. QED
    BY <1>1, <1>5, <2>1, RemovedFlows
<1>6. ASSUME NEW p \in Peers, FriendOffline(p) PROVE Typed' /\ Reading'
  <2>1. {p} \in SUBSET Peers
    OBVIOUS
  <2>. QED
    BY <1>5, <1>6, <2>1 DEF FriendOffline, removeDataPipe
<1>7. CASE clearAllDataPipe
  <2>1. Peers \in SUBSET Peers
    OBVIOUS
  <2>2. Removed(Peers, run, {}) /\ UNCHANGED <<down, last, peer, run, mixed, wrong>>
    BY <1>7 DEF clearAllDataPipe
  <2>. QED
    BY <1>5, <2>1, <2>2
<1>8. ASSUME NEW s \in Ids, onStateChanged(s) PROVE Typed' /\ Reading'
  <2>1. CASE StateChanged(s, {"asked"}, "connected", "Connected")
    BY <1>1, <2>1, StateChangedFlows
  <2>2. CASE StateChanged(s, {"asked", "connected"}, "failed", "Error")
    BY <1>1, <2>2, StateChangedFlows
  <2>3. CASE StateChanged(s, {"asked", "connected", "failed"}, "closed", "Closed")
    BY <1>1, <2>3, StateChangedFlows
  <2>. QED
    BY <1>8, <2>1, <2>2, <2>3 DEF onStateChanged
<1>9. ASSUME NEW s \in Ids, NEW n \in Chunks, onReceivedData(s, n) PROVE Typed' /\ Reading'
  BY <1>1, <1>9, ReceivedFlows
<1>10. ASSUME NEW s \in Ids, Pool(s) PROVE Typed' /\ Reading'
  BY <1>1, <1>10, PopFlows, NotifyFlows, FindPipeFlows, UnpackFlows DEF Pool
<1>11. CASE UNCHANGED vars
  BY <1>1, <1>11 DEF vars, Typed, Reading, History, Sessions, Ids
<1>12. CASE Next
  <2>1. CASE \E p \in Peers, s \in Ids : \E str \in Streams[s] :
                s = last + 1 /\ onSessionRequest(p, str)
    BY <1>3, <2>1
  <2>2. CASE \E p \in Peers : SessionRequestFails(p) \/ FriendOffline(p)
    BY <1>4, <1>6, <2>2
  <2>3. CASE \E s \in Ids : \/ onStateChanged(s)
                            \/ \E n \in Chunks : onReceivedData(s, n)
                            \/ Pool(s)
                            \/ PopGone(s)
    BY <1>1, <1>8, <1>9, <1>10, <2>3, PopGoneFlows
  <2>. QED
    BY <1>7, <1>12, <2>1, <2>2, <2>3 DEF Next
<1>. QED
  BY <1>11, <1>12

\* The inductive invariant of the parsers, for streams of any messages that come
\* in chunks of any sizes: where each parser stands in its stream, and that what
\* the thread and the tasks of its session hold follows on from there.
THEOREM StreamInvariant == Spec => []Flowing
BY InitFlows, NextFlows, PTL DEF Spec

\* The types of the variables; a parser never holds more of a head or of a body
\* than the Info announced (SessionParser.cpp:44), whatever data it gets, that
\* of another session included.
THEOREM TypeCorrect == Spec => []TypeOK
BY StreamInvariant, FlowingTyped, PTL

\* A parser that only got the data of its own session hands over the messages
\* that were sent, each once, whole and in order, however the stream was cut into
\* chunks and whatever came between two frames, and all that have come in
\* completely once the session has nothing left to do (SessionParser.cpp:44,
\* 112).
THEOREM MessagesWhole == Spec => []WholeMessages
BY StreamInvariant, FlowingWhole, PTL

=============================================================================
