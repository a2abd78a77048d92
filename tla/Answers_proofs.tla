--------------------------- MODULE Answers_proofs ---------------------------
(***************************************************************************)
(* Proofs about Answers, for any sizes, any number of rows and any limits: *)
(* the responses of an answer hold its rows once and in order, what        *)
(* is_last says is true, and responses are no larger than they should be.  *)
(***************************************************************************)
EXTENDS Answers, WellFoundedInduction, SequenceTheorems, TLAPS

-----------------------------------------------------------------------------
(* Sequences of sequences.  FlattenSeq is defined by a recursive function; *)
(* what it returns is found by looking at the least number for which it    *)
(* would be wrong.                                                         *)

LEMMA LeastNumber ==
    ASSUME NEW T \in SUBSET Nat, T # {}
    PROVE  \E n \in T : \A m \in T : n <= m
<1>. DEFINE R == OpToRel(<, Nat)
<1>1. IsWellFoundedOn(R, Nat)
  BY NatLessThanWellFounded
<1>2. \A m, n \in Nat : m < n => <<m, n>> \in R
  BY DEF OpToRel
<1>. HIDE DEF R
<1>3. PICK x \in T : \A y \in T : ~ (<<y, x>> \in R)
  BY <1>1, WFMin
<1>4. \A y \in T : x <= y
  <2>. TAKE y \in T
  <2>1. x \in Nat /\ y \in Nat /\ ~ (y < x)
    BY <1>2, <1>3
  <2>. QED
    BY <2>1
<1>. QED
  BY <1>4

\* The function of FlattenSeq, for the first n sequences
Flat(f, ss, n) == f = [k \in 1..n |-> IF k = 1 THEN ss[k] ELSE f[k - 1] \o ss[k]]

Agree(f, g, n) == \A k \in 1..n : f[k] = g[k]

\* There is such a function,
LEMMA FlatExists ==
    ASSUME NEW ss, NEW n \in Nat
    PROVE  \E f : Flat(f, ss, n)
<1>. DEFINE T == {m \in Nat : ~ \E f : Flat(f, ss, m)}
<1>1. SUFFICES ASSUME T # {} PROVE FALSE
  OBVIOUS
<1>2. PICK m \in T : \A j \in T : m <= j
  BY <1>1, LeastNumber
<1>3. CASE m = 0
  <2>. DEFINE f == [k \in 1..0 |-> 0]
  <2>1. Flat(f, ss, 0)
    BY DEF Flat
  <2>. QED
    BY <1>2, <1>3, <2>1
<1>4. CASE m # 0
  <2>1. m \in Nat /\ m - 1 \in Nat /\ m - 1 \notin T
    BY <1>2, <1>4
  <2>2. PICK f : Flat(f, ss, m - 1)
    BY <2>1
  <2>. DEFINE g == [k \in 1..m |-> IF k < m THEN f[k] ELSE IF k = 1 THEN ss[k] ELSE f[k - 1] \o ss[k]]
  <2>3. \A k \in 1..m : g[k] = IF k = 1 THEN ss[k] ELSE g[k - 1] \o ss[k]
    <3>. TAKE k \in 1..m
    <3>1. CASE k < m
      <4>1. k \in 1..(m - 1) /\ g[k] = f[k]
        BY <2>1, <3>1
      <4>2. f[k] = IF k = 1 THEN ss[k] ELSE f[k - 1] \o ss[k]
        BY <4>1, <2>2 DEF Flat
      <4>3. k # 1 => g[k - 1] = f[k - 1]
        BY <2>1, <3>1
      <4>. QED
        BY <4>1, <4>2, <4>3
    <3>2. CASE k = m
      <4>1. k # 1 => g[k - 1] = f[k - 1]
        BY <2>1, <3>2
      <4>. QED
        BY <2>1, <3>2, <4>1
    <3>. QED
      BY <2>1, <3>1, <3>2
  <2>4. Flat(g, ss, m)
    BY <2>3 DEF Flat
  <2>. QED
    BY <1>2, <2>4
<1>. QED
  BY <1>3, <1>4

\* and only one: two of them agree as far as their sequences do.
LEMMA FlatAgree ==
    ASSUME NEW ss, NEW tt, NEW m \in Nat, NEW n \in Nat, m <= n,
           Agree(ss, tt, m), NEW f, NEW g, Flat(f, ss, m), Flat(g, tt, n)
    PROVE  Agree(f, g, m)
<1>. DEFINE T == {k \in 1..m : f[k] # g[k]}
<1>1. SUFFICES ASSUME T # {} PROVE FALSE
  BY DEF Agree
<1>2. T \in SUBSET Nat
  OBVIOUS
<1>3. PICK k \in T : \A j \in T : k <= j
  BY <1>1, <1>2, LeastNumber
<1>4. k \in 1..m /\ k \in 1..n /\ f[k] # g[k]
  BY <1>3
<1>5. /\ f[k] = IF k = 1 THEN ss[k] ELSE f[k - 1] \o ss[k]
      /\ g[k] = IF k = 1 THEN tt[k] ELSE g[k - 1] \o tt[k]
  BY <1>4 DEF Flat
<1>6. k # 1
  BY <1>4, <1>5 DEF Agree
<1>7. k - 1 \in 1..m /\ k - 1 \notin T
  BY <1>3, <1>4, <1>6
<1>8. f[k - 1] = g[k - 1] /\ ss[k] = tt[k]
  BY <1>4, <1>7 DEF Agree
<1>. QED
  BY <1>4, <1>5, <1>6, <1>8

\* Its values are sequences of what the sequences consist of.
LEMMA FlatType ==
    ASSUME NEW S, NEW n \in Nat, NEW ss, \A k \in 1..n : ss[k] \in Seq(S),
           NEW f, Flat(f, ss, n)
    PROVE  \A k \in 1..n : f[k] \in Seq(S)
<1>. DEFINE T == {k \in 1..n : f[k] \notin Seq(S)}
<1>1. SUFFICES ASSUME T # {} PROVE FALSE
  OBVIOUS
<1>2. T \in SUBSET Nat
  OBVIOUS
<1>3. PICK k \in T : \A j \in T : k <= j
  BY <1>1, <1>2, LeastNumber
<1>4. k \in 1..n /\ f[k] \notin Seq(S) /\ ss[k] \in Seq(S)
  BY <1>3
<1>5. f[k] = IF k = 1 THEN ss[k] ELSE f[k - 1] \o ss[k]
  BY <1>4 DEF Flat
<1>6. k # 1
  BY <1>4, <1>5
<1>7. k - 1 \in 1..n /\ k - 1 \notin T
  BY <1>3, <1>4, <1>6
<1>8. f[k - 1] \in Seq(S)
  BY <1>7
<1>. QED
  BY <1>4, <1>5, <1>6, <1>8, ConcatProperties

LEMMA FlattenIs ==
    ASSUME NEW ss, Len(ss) \in Nat \ {0}
    PROVE  \E f : Flat(f, ss, Len(ss)) /\ FlattenSeq(ss) = f[Len(ss)]
<1>. DEFINE f == CHOOSE f : Flat(f, ss, Len(ss))
<1>1. FlattenSeq(ss) = f[Len(ss)]
  BY DEF FlattenSeq, Flat
<1>2. Flat(f, ss, Len(ss))
  BY FlatExists
<1>. QED
  BY <1>1, <1>2

LEMMA FlattenType ==
    ASSUME NEW S, NEW ss \in Seq(Seq(S))
    PROVE  FlattenSeq(ss) \in Seq(S) /\ (Len(ss) = 0 => FlattenSeq(ss) = << >>)
<1>1. Len(ss) \in Nat /\ DOMAIN ss = 1..Len(ss) /\ \A k \in 1..Len(ss) : ss[k] \in Seq(S)
  BY LenProperties
<1>2. CASE Len(ss) = 0
  <2>1. ss = << >>
    BY <1>2, EmptySeq
  <2>. QED
    BY <1>2, <2>1, EmptySeq DEF FlattenSeq
<1>3. CASE Len(ss) # 0
  <2>1. PICK f : Flat(f, ss, Len(ss)) /\ FlattenSeq(ss) = f[Len(ss)]
    BY <1>1, <1>3, FlattenIs
  <2>2. f[Len(ss)] \in Seq(S)
    <3>1. Len(ss) \in Nat /\ Flat(f, ss, Len(ss))
      BY <1>1, <2>1
    <3>2. \A k \in 1..Len(ss) : ss[k] \in Seq(S)
      BY <1>1
    <3>3. \A k \in 1..Len(ss) : f[k] \in Seq(S)
      BY <3>1, <3>2, FlatType
    <3>. QED
      BY <1>1, <1>3, <3>3
  <2>. QED
    BY <1>3, <2>1, <2>2
<1>. QED
  BY <1>2, <1>3

LEMMA FlattenAppend ==
    ASSUME NEW S, NEW ss \in Seq(Seq(S)), NEW t \in Seq(S)
    PROVE  FlattenSeq(Append(ss, t)) = FlattenSeq(ss) \o t
<1>. DEFINE tt == Append(ss, t)
            n == Len(ss)
<1>1. /\ tt \in Seq(Seq(S)) /\ Len(tt) = n + 1 /\ n \in Nat
      /\ \A k \in 1..n : tt[k] = ss[k]
      /\ tt[n + 1] = t
  BY AppendProperties, LenProperties
<1>. HIDE DEF tt
<1>2. PICK g : Flat(g, tt, n + 1) /\ FlattenSeq(tt) = g[n + 1]
  BY <1>1, FlattenIs
<1>3. g[n + 1] = IF n + 1 = 1 THEN t ELSE g[n] \o t
  <2>1. n + 1 \in 1..(n + 1) /\ (n + 1) - 1 = n
    BY <1>1
  <2>. QED
    BY <1>1, <1>2, <2>1 DEF Flat
<1>4. CASE n = 0
  <2>1. FlattenSeq(ss) = << >>
    BY <1>4, FlattenType
  <2>2. << >> \o t = t
    BY ConcatEmptySeq
  <2>. QED
    BY <1>1, <1>2, <1>3, <1>4, <2>1, <2>2 DEF tt
<1>5. CASE n # 0
  <2>1. PICK f : Flat(f, ss, n) /\ FlattenSeq(ss) = f[n]
    BY <1>1, <1>5, FlattenIs
  <2>2. \A k \in 1..n : f[k] = g[k]
    <3>1. n \in Nat /\ n + 1 \in Nat /\ n <= n + 1 /\ Agree(ss, tt, n)
      BY <1>1 DEF Agree
    <3>2. Flat(f, ss, n) /\ Flat(g, tt, n + 1)
      BY <1>2, <2>1
    <3>. HIDE DEF n
    <3>3. Agree(f, g, n)
      BY <3>1, <3>2, FlatAgree
    <3>. QED
      BY <3>3 DEF Agree
  <2>3. f[n] = g[n]
    BY <1>1, <1>5, <2>2
  <2>. QED
    BY <1>1, <1>2, <1>3, <1>5, <2>1, <2>3 DEF tt
<1>. QED
  BY <1>4, <1>5

-----------------------------------------------------------------------------
(* The rows of responses.                                                  *)

LEMMA UpToNext ==
    ASSUME NEW n \in Nat
    PROVE  /\ UpTo(n) \in Seq(Nat)
           /\ UpTo(0) = << >>
           /\ UpTo(n + 1) = Append(UpTo(n), n + 1)
<1>1. \A m \in Nat : UpTo(m) \in Seq(Nat) /\ Len(UpTo(m)) = m /\ \A k \in 1..m : UpTo(m)[k] = k
  BY DEF UpTo
<1>2. UpTo(0) = << >>
  BY <1>1, EmptySeq
<1>3. UpTo(n + 1) = Append(UpTo(n), n + 1)
  <2>. DEFINE a == Append(UpTo(n), n + 1)
  <2>1. /\ a \in Seq(Nat) /\ Len(a) = n + 1
        /\ \A k \in 1..n : a[k] = UpTo(n)[k]
        /\ a[n + 1] = n + 1
    BY <1>1, AppendProperties
  <2>. HIDE DEF a
  <2>2. \A k \in 1..(n + 1) : a[k] = k
    <3>. TAKE k \in 1..(n + 1)
    <3>1. CASE k = n + 1
      BY <2>1, <3>1
    <3>2. CASE k # n + 1
      <4>1. k \in 1..n
        BY <3>2
      <4>. QED
        BY <1>1, <2>1, <4>1
    <3>. QED
      BY <3>1, <3>2
  <2>3. n + 1 \in Nat
    OBVIOUS
  <2>4. a = UpTo(n + 1)
    BY <1>1, <2>1, <2>2, <2>3, SeqEqual
  <2>. QED
    BY <2>4 DEF a
<1>. QED
  BY <1>1, <1>2, <1>3

\* The rows of responses are those of all but the last, and then those of the last.
LEMMA RowsOfAppend ==
    ASSUME NEW rs \in Seq(Response), NEW r \in Response
    PROVE  /\ RowsOf(rs) \in Seq(1..MaxRows)
           /\ RowsOf(<< >>) = << >>
           /\ RowsOf(Append(rs, r)) = RowsOf(rs) \o r.rows
<1>. DEFINE I == 1..MaxRows
            L(ss) == [k \in 1..Len(ss) |-> ss[k].rows]
<1>1. \A ss \in Seq(Response) : /\ L(ss) \in Seq(Seq(I)) /\ Len(L(ss)) = Len(ss)
                                /\ \A k \in 1..Len(ss) : L(ss)[k] = ss[k].rows
  <2>. TAKE ss \in Seq(Response)
  <2>1. Len(ss) \in Nat /\ \A k \in 1..Len(ss) : ss[k] \in Response
    BY LenProperties
  <2>2. \A k \in 1..Len(ss) : ss[k].rows \in Seq(I)
    BY <2>1 DEF Response
  <2>. HIDE DEF I
  <2>. QED
    BY <2>1, <2>2
<1>2. r.rows \in Seq(I)
  BY DEF Response
<1>3. Append(rs, r) \in Seq(Response) /\ Len(Append(rs, r)) = Len(rs) + 1
      /\ (\A k \in 1..Len(rs) : Append(rs, r)[k] = rs[k]) /\ Append(rs, r)[Len(rs) + 1] = r
  BY AppendProperties
<1>4. << >> \in Seq(Response) /\ Len(<< >>) = 0 /\ Len(rs) \in Nat
  BY EmptySeq, LenProperties
<1>. HIDE DEF I, L
<1>5. L(Append(rs, r)) = Append(L(rs), r.rows)
  <2>. DEFINE a == Append(L(rs), r.rows)
              b == L(Append(rs, r))
  <2>1. /\ a \in Seq(Seq(I)) /\ Len(a) = Len(rs) + 1
        /\ (\A k \in 1..Len(rs) : a[k] = rs[k].rows) /\ a[Len(rs) + 1] = r.rows
    BY <1>1, <1>2, AppendProperties
  <2>2. /\ b \in Seq(Seq(I)) /\ Len(b) = Len(rs) + 1
        /\ (\A k \in 1..Len(rs) : b[k] = rs[k].rows) /\ b[Len(rs) + 1] = r.rows
    <3>. DEFINE c == Append(rs, r)
    <3>1. c \in Seq(Response) /\ Len(c) = Len(rs) + 1
          /\ (\A k \in 1..Len(rs) : c[k] = rs[k]) /\ c[Len(rs) + 1] = r
      BY <1>3
    <3>. HIDE DEF c
    <3>2. L(c) \in Seq(Seq(I)) /\ Len(L(c)) = Len(c) /\ \A k \in 1..Len(c) : L(c)[k] = c[k].rows
      BY <1>1, <3>1
    <3>3. (\A k \in 1..Len(rs) : k \in 1..Len(c)) /\ Len(rs) + 1 \in 1..Len(c)
      BY <1>4, <3>1
    <3>4. \A k \in 1..Len(rs) : L(c)[k] = rs[k].rows
      BY <3>1, <3>2, <3>3
    <3>5. L(c)[Len(rs) + 1] = r.rows
      BY <3>1, <3>2, <3>3
    <3>. QED
      BY <3>1, <3>2, <3>4, <3>5 DEF c
  <2>. HIDE DEF a, b
  <2>3. \A k \in 1..Len(a) : a[k] = b[k]
    <3>. TAKE k \in 1..Len(a)
    <3>1. k \in 1..Len(rs) \/ k = Len(rs) + 1
      BY <1>4, <2>1
    <3>. QED
      BY <2>1, <2>2, <3>1
  <2>4. a = b
    BY <2>1, <2>2, <2>3, SeqEqual
  <2>. QED
    BY <2>4 DEF a, b
<1>6. \A ss : RowsOf(ss) = FlattenSeq(L(ss))
  BY DEF RowsOf, L
<1>7. FlattenSeq(L(rs)) \in Seq(I)
  BY <1>1, FlattenType
<1>8. FlattenSeq(L(<< >>)) = << >>
  BY <1>1, <1>4, FlattenType
<1>9. FlattenSeq(Append(L(rs), r.rows)) = FlattenSeq(L(rs)) \o r.rows
  BY <1>1, <1>2, FlattenAppend
<1>. QED
  BY <1>5, <1>6, <1>7, <1>8, <1>9 DEF I

\* Moving the first response of array to the end of out changes nothing of both.
LEMMA HeadMoves ==
    ASSUME NEW S, NEW s \in Seq(S), NEW t \in Seq(S), t # << >>
    PROVE  Append(s, Head(t)) \o Tail(t) = s \o t
<1>1. Head(t) \in S /\ Tail(t) \in Seq(S) /\ Len(Tail(t)) = Len(t) - 1
      /\ (\A k \in 1..Len(Tail(t)) : Tail(t)[k] = t[k + 1]) /\ Head(t) = t[1]
  BY HeadTailProperties
<1>2. Len(s) \in Nat /\ Len(t) \in Nat \ {0}
  BY EmptySeq, LenProperties
<1>3. Append(s, Head(t)) \in Seq(S) /\ Len(Append(s, Head(t))) = Len(s) + 1
      /\ (\A k \in 1..Len(s) : Append(s, Head(t))[k] = s[k])
      /\ Append(s, Head(t))[Len(s) + 1] = Head(t)
  BY <1>1, AppendProperties
<1>. DEFINE u == Append(s, Head(t))
            a == u \o Tail(t)
            b == s \o t
<1>. HIDE DEF u
<1>4. a \in Seq(S) /\ Len(a) = Len(u) + Len(Tail(t))
      /\ \A k \in 1..(Len(u) + Len(Tail(t))) : a[k] = IF k <= Len(u) THEN u[k] ELSE Tail(t)[k - Len(u)]
  BY <1>1, <1>3, ConcatProperties DEF u
<1>5. b \in Seq(S) /\ Len(b) = Len(s) + Len(t)
      /\ \A k \in 1..(Len(s) + Len(t)) : b[k] = IF k <= Len(s) THEN s[k] ELSE t[k - Len(s)]
  BY ConcatProperties
<1>. HIDE DEF a, b
<1>6. Len(u) = Len(s) + 1 /\ Len(a) = Len(b)
  BY <1>1, <1>2, <1>3, <1>4, <1>5 DEF u
<1>7. ASSUME NEW k \in 1..Len(a) PROVE a[k] = b[k]
  <2>1. CASE k <= Len(s)
    <3>1. a[k] = u[k] /\ b[k] = s[k] /\ k \in 1..Len(s)
      BY <1>1, <1>2, <1>4, <1>5, <1>6, <2>1
    <3>. QED
      BY <1>3, <3>1 DEF u
  <2>2. CASE k = Len(s) + 1
    <3>1. a[k] = u[k] /\ b[k] = t[k - Len(s)]
      BY <1>1, <1>2, <1>4, <1>5, <1>6, <2>2
    <3>2. u[k] = t[1] /\ k - Len(s) = 1
      BY <1>1, <1>2, <1>3, <2>2 DEF u
    <3>. QED
      BY <3>1, <3>2
  <2>3. CASE k > Len(s) + 1
    <3>1. a[k] = Tail(t)[k - Len(u)] /\ b[k] = t[k - Len(s)]
      BY <1>1, <1>2, <1>4, <1>5, <1>6, <2>3
    <3>2. k - Len(u) \in 1..Len(Tail(t)) /\ (k - Len(u)) + 1 = k - Len(s)
      BY <1>1, <1>2, <1>4, <1>6, <2>3
    <3>. QED
      BY <1>1, <3>1, <3>2
  <2>. QED
    BY <1>2, <1>5, <1>6, <2>1, <2>2, <2>3
<1>. QED
  BY <1>4, <1>5, <1>6, <1>7, SeqEqual DEF a, b, u

-----------------------------------------------------------------------------
(* The field is_last.                                                      *)

NoLast(rs) == \A k \in DOMAIN rs : ~rs[k].last
LastAtEnd(rs) == \A k \in DOMAIN rs : rs[k].last => k = Len(rs)
Closed(rs) == rs # << >> /\ LastAtEnd(rs) /\ rs[Len(rs)].last

LEMMA LastAppend ==
    ASSUME NEW rs \in Seq(Response), NEW r \in Response, NoLast(rs)
    PROVE  /\ Append(rs, r) \in Seq(Response)
           /\ ~r.last => NoLast(Append(rs, r))
           /\ r.last => Closed(Append(rs, r))
<1>. DEFINE a == Append(rs, r)
            n == Len(rs)
<1>1. a \in Seq(Response) /\ a # << >> /\ Len(a) = n + 1 /\ n \in Nat
      /\ (\A k \in 1..n : a[k] = rs[k]) /\ a[n + 1] = r
  BY AppendProperties, LenProperties
<1>2. DOMAIN a = 1..(n + 1) /\ DOMAIN rs = 1..n
  BY <1>1, LenProperties
<1>. HIDE DEF a, n
<1>3. \A k \in 1..(n + 1) : k = n + 1 \/ k \in 1..n
  BY <1>1
<1>4. \A k \in 1..n : ~a[k].last
  BY <1>1, <1>2 DEF NoLast
<1>5. ~r.last => NoLast(a)
  BY <1>1, <1>2, <1>3, <1>4 DEF NoLast
<1>6. r.last => LastAtEnd(a)
  BY <1>1, <1>2, <1>3, <1>4 DEF LastAtEnd
<1>. QED
  BY <1>1, <1>5, <1>6 DEF Closed, a

LEMMA LastTail ==
    ASSUME NEW rs \in Seq(Response), Closed(rs)
    PROVE  /\ Head(rs) \in Response /\ Tail(rs) \in Seq(Response)
           /\ Tail(rs) = << >> => Head(rs).last
           /\ Tail(rs) # << >> => ~Head(rs).last /\ Closed(Tail(rs))
<1>. DEFINE t == Tail(rs)
            n == Len(rs)
<1>1. rs # << >> /\ LastAtEnd(rs) /\ rs[n].last
  BY DEF Closed
<1>2. Head(rs) \in Response /\ t \in Seq(Response) /\ Len(t) = n - 1 /\ n \in Nat \ {0}
      /\ (\A k \in 1..Len(t) : t[k] = rs[k + 1]) /\ Head(rs) = rs[1]
  BY <1>1, HeadTailProperties, EmptySeq
<1>3. DOMAIN rs = 1..n /\ DOMAIN t = 1..(n - 1)
  BY <1>2, LenProperties
<1>4. t = << >> <=> n = 1
  BY <1>2, EmptySeq
<1>. HIDE DEF t, n
<1>5. t = << >> => Head(rs).last
  BY <1>1, <1>2, <1>4
<1>6. ASSUME t # << >> PROVE ~Head(rs).last /\ Closed(t)
  <2>1. 1 \in 1..n /\ n # 1 /\ n - 1 \in 1..(n - 1) /\ (n - 1) + 1 = n
    BY <1>2, <1>4, <1>6
  <2>2. ~rs[1].last
    BY <1>1, <1>3, <2>1 DEF LastAtEnd, n
  <2>3. t[Len(t)].last
    BY <1>1, <1>2, <2>1
  <2>4. LastAtEnd(t)
    <3>. SUFFICES ASSUME NEW k \in 1..(n - 1), t[k].last PROVE k = Len(t)
      BY <1>3 DEF LastAtEnd
    <3>1. t[k] = rs[k + 1] /\ k + 1 \in 1..n
      BY <1>2
    <3>2. k + 1 = n
      BY <1>1, <1>3, <3>1 DEF LastAtEnd, n
    <3>. QED
      BY <1>2, <3>2
  <2>. QED
    BY <1>2, <1>6, <2>2, <2>3, <2>4 DEF Closed
<1>. QED
  BY <1>2, <1>5, <1>6 DEF t

-----------------------------------------------------------------------------
(* The invariant.                                                          *)

\* What the variables are like at each point of a handler
Shape ==
    /\ st = "split" => /\ kind \in Split /\ i < Len(rows) /\ ~lost
                       /\ array = << >> /\ NoLast(out)
    /\ st = "step" => kind = "multi" /\ ~lost /\ out = << >> /\ NoLast(array)
    /\ st = "sending" => /\ kind = "multi" /\ i = Len(rows) /\ tmp = << >>
                         /\ Closed(array) /\ NoLast(out)
    /\ st = "done" => /\ i = Len(rows) /\ tmp = << >> /\ array = << >> /\ LastAtEnd(out)
                      /\ IF lost THEN kind = "multi" ELSE Closed(out)
    /\ st = "broken" => lost /\ NoLast(out)
    /\ st \in {"idle", "refused"} => out = << >>

InOrder == ~lost /\ st # "refused" => RowsOf(out \o array) \o tmp = UpTo(i)

Inv == TypeOK /\ Shape /\ InOrder

\* A row that the handler is at, and what it charges.
LEMMA CurrentRow ==
    ASSUME TypeOK, i < Len(rows)
    PROVE  /\ i \in Nat /\ Len(rows) \in Nat /\ Len(rows) <= MaxRows /\ MaxRows \in Nat
           /\ Current \in 1..Len(rows) /\ Current \in 1..MaxRows /\ Current = i + 1
           /\ rows[Current] \in Row
           /\ rows[Current].con \in Nat /\ rows[Current].thu \in Nat
           /\ rows[Current].con + rows[Current].thu < Word
<1>1. rows \in Seq(Row) /\ Len(rows) <= MaxRows /\ i \in 0..Len(rows)
  BY DEF TypeOK
<1>2. Len(rows) \in Nat /\ \A k \in 1..Len(rows) : rows[k] \in Row
  BY <1>1, LenProperties
<1>3. MaxRows \in Nat
  BY AnswersAssumption
<1>4. i \in Nat /\ Current \in 1..Len(rows) /\ Current \in 1..MaxRows /\ Current = i + 1
  BY <1>1, <1>2, <1>3 DEF Current
<1>5. rows[Current] \in Row
  BY <1>2, <1>4
<1>. QED
  BY <1>1, <1>2, <1>3, <1>4, <1>5, AnswersAssumption DEF Row

\* size_t subtraction.
LEMMA Subtraction ==
    ASSUME NEW l \in Nat, NEW s \in Nat, l < Word, s < Word, Word \in Nat
    PROVE  /\ Minus(l, s) \in Nat /\ Minus(l, s) < Word
           /\ s <= l => Minus(l, s) = l - s
<1>1. (l + Word - s) % Word \in 0..(Word - 1)
  OBVIOUS
<1>2. s <= l => (l + Word - s) % Word = l - s
  OBVIOUS
<1>. QED
  BY <1>1, <1>2 DEF Minus

\* One more row: appended to what is collected, or sent with it.
LEMMA RowAdded ==
    ASSUME NEW ss \in Seq(Response), NEW t \in Seq(1..MaxRows), NEW n \in Nat,
           n + 1 \in 1..MaxRows, RowsOf(ss) \o t = UpTo(n), NEW b \in BOOLEAN
    PROVE  /\ Append(t, n + 1) \in Seq(1..MaxRows)
           /\ RowsOf(ss) \o Append(t, n + 1) = UpTo(n + 1)
           /\ [rows |-> Append(t, n + 1), last |-> b] \in Response
           /\ Append(ss, [rows |-> Append(t, n + 1), last |-> b]) \in Seq(Response)
           /\ RowsOf(Append(ss, [rows |-> Append(t, n + 1), last |-> b])) = UpTo(n + 1)
<1>. DEFINE I == 1..MaxRows
            u == Append(t, n + 1)
            x == [rows |-> u, last |-> b]
<1>1. u \in Seq(I) /\ u = t \o <<n + 1>> /\ <<n + 1>> \in Seq(I)
  BY AppendProperties, AppendIsConcat
<1>2. x \in Response /\ x.rows = u
  BY <1>1 DEF Response
<1>. HIDE DEF I, u, x
<1>3. RowsOf(ss) \in Seq(I) /\ RowsOf(Append(ss, x)) = RowsOf(ss) \o u
  BY <1>2, RowsOfAppend DEF I
<1>4. t \in Seq(I)
  BY DEF I
<1>5. RowsOf(ss) \o u = (RowsOf(ss) \o t) \o <<n + 1>>
  <2>1. \A v, w \in Seq(I) : (v \o t) \o w = v \o (t \o w)
    BY <1>4, ConcatAssociative
  <2>. QED
    BY <1>1, <1>3, <2>1
<1>6. UpTo(n) \in Seq(Nat) /\ UpTo(n + 1) = Append(UpTo(n), n + 1)
  BY UpToNext
<1>7. UpTo(n) \o <<n + 1>> = Append(UpTo(n), n + 1)
  BY <1>6, AppendIsConcat
<1>8. Append(ss, x) \in Seq(Response)
  BY <1>2, AppendProperties
<1>. QED
  BY <1>1, <1>2, <1>3, <1>5, <1>6, <1>7, <1>8 DEF I, u, x

LEMMA EmptyTypes ==
    /\ << >> \in Seq(Row) /\ << >> \in Seq(Response) /\ << >> \in Seq(1..MaxRows)
    /\ Len(<< >>) = 0 /\ Word \in Nat /\ 0 < Word /\ MaxRows \in Nat
BY EmptySeq, AnswersAssumption

LEMMA Empties ==
    /\ << >> \in Seq(Row) /\ << >> \in Seq(Response) /\ << >> \in Seq(1..MaxRows)
    /\ Len(<< >>) = 0
    /\ NoLast(<< >>) /\ LastAtEnd(<< >>)
    /\ RowsOf(<< >>) = << >> /\ UpTo(0) = << >>
    /\ \A ss \in Seq(Response) : ss \o << >> = ss /\ << >> \o ss = ss
    /\ \A t \in Seq(1..MaxRows) : t \o << >> = t /\ << >> \o t = t
<1>1. DOMAIN << >> = {} /\ Len(<< >>) = 0
  BY EmptySeq
<1>2. << >> \in Seq(Response) /\ [rows |-> << >>, last |-> TRUE] \in Response
  BY EmptySeq DEF Response
<1>3. RowsOf(<< >>) = << >>
  BY <1>2, RowsOfAppend
<1>4. UpTo(0) = << >>
  BY UpToNext
<1>5. NoLast(<< >>) /\ LastAtEnd(<< >>)
  BY <1>1 DEF NoLast, LastAtEnd
<1>. QED
  BY <1>1, <1>3, <1>4, <1>5, EmptySeq, ConcatEmptySeq

\* A handler that waits, or ended without an answer.
LEMMA FreshState ==
    ASSUME kind' \in Kinds, st' \in {"idle", "refused"}, rows' = << >>, i' = 0, left' = 0,
           tmp' = << >>, array' = << >>, out' = << >>, lost' = FALSE
    PROVE  Inv'
<1>1. TypeOK'
  <2>1. rows' \in Seq(Row) /\ Len(rows') <= MaxRows /\ i' \in 0..Len(rows')
    BY EmptyTypes
  <2>2. left' \in Nat /\ left' < Word
    BY EmptyTypes
  <2>3. tmp' \in Seq(1..MaxRows)
    BY EmptyTypes
  <2>4. array' \in Seq(Response) /\ out' \in Seq(Response)
    BY EmptyTypes
  <2>5. lost' \in BOOLEAN
    OBVIOUS
  <2>6. st' \in Final \cup {"idle", "split", "step", "sending"}
    BY DEF Final
  <2>. QED
    BY <2>1, <2>2, <2>3, <2>4, <2>5, <2>6 DEF TypeOK
<1>2. Shape'
  BY Empties DEF Shape
<1>3. out' \o array' = << >> /\ RowsOf(out' \o array') \o tmp' = UpTo(i')
  BY Empties
<1>4. InOrder'
  BY <1>3 DEF InOrder
<1>. QED
  BY <1>1, <1>2, <1>4 DEF Inv

\* An answer of one response holds all rows.
LEMMA SingleRows ==
    ASSUME NEW rs \in Seq(Row), Len(rs) <= MaxRows
    PROVE  LET x == [rows |-> UpTo(Len(rs)), last |-> TRUE]
           IN  x \in Response /\ Closed(<<x>>) /\ <<x>> \in Seq(Response) /\ RowsOf(<<x>>) = UpTo(Len(rs))
<1>. DEFINE x == [rows |-> UpTo(Len(rs)), last |-> TRUE]
<1>1. Len(rs) \in Nat /\ MaxRows \in Nat
  BY LenProperties, AnswersAssumption
<1>2. UpTo(Len(rs)) \in Seq(1..MaxRows)
  BY <1>1 DEF UpTo
<1>3. x \in Response /\ x.last /\ x.rows = UpTo(Len(rs))
  BY <1>2 DEF Response
<1>. HIDE DEF x
<1>4. Append(<< >>, x) = <<x>>
  OBVIOUS
<1>5. Closed(<<x>>) /\ <<x>> \in Seq(Response)
  BY <1>3, <1>4, LastAppend, Empties
<1>6. RowsOf(<<x>>) = << >> \o UpTo(Len(rs))
  BY <1>3, <1>4, RowsOfAppend, Empties
<1>. QED
  BY <1>2, <1>3, <1>5, <1>6, Empties DEF x

LEMMA OpenInv ==
    ASSUME Inv, NEW k \in Split \cup {"whole"}, NEW rs \in Seq(Row), Len(rs) <= MaxRows, Open(k, rs)
    PROVE  Inv'
<1>1. kind' = k /\ rows' = rs /\ tmp' = << >> /\ array' = << >> /\ left' = MaxContentLen
  BY DEF Open
<1>2. Len(rs) \in Nat /\ MaxContentLen \in Nat /\ MaxContentLen < Word /\ k \in Kinds
      /\ (rs # << >> => Len(rs) > 0)
  BY LenProperties, EmptySeq, AnswersAssumption DEF Kinds
<1>3. CASE k # "whole" /\ rs # << >>
  <2>1. i' = 0 /\ st' = "split" /\ out' = << >> /\ lost' = FALSE
    BY <1>3 DEF Open
  <2>2. TypeOK'
    <3>1. rows' \in Seq(Row) /\ Len(rows') <= MaxRows /\ i' \in 0..Len(rows')
      BY <1>1, <1>2, <2>1, EmptyTypes
    <3>2. left' \in Nat /\ (kind' \in Split => left' < Word) /\ kind' \in Kinds
      BY <1>1, <1>2, <2>1
    <3>3. tmp' \in Seq(1..MaxRows)
      BY <1>1, <1>2, <2>1, EmptyTypes
    <3>4. array' \in Seq(Response) /\ out' \in Seq(Response)
      BY <1>1, <2>1, EmptyTypes
    <3>5. st' \in Final \cup {"idle", "split", "step", "sending"} /\ lost' \in BOOLEAN
      BY <1>1, <1>2, <2>1 DEF Final
    <3>. QED
      BY <3>1, <3>2, <3>3, <3>4, <3>5 DEF TypeOK
  <2>3. Shape'
    BY <1>1, <1>2, <1>3, <2>1, Empties DEF Shape
  <2>4. out' \o array' = << >> /\ RowsOf(out' \o array') \o tmp' = UpTo(i')
    BY <1>1, <2>1, Empties
  <2>5. InOrder'
    BY <2>4 DEF InOrder
  <2>. QED
    BY <2>2, <2>3, <2>5 DEF Inv
<1>4. CASE ~(k # "whole" /\ rs # << >>)
  <2>1. i' = Len(rs) /\ Single(rs)
    BY <1>4 DEF Open
  <2>2. CASE out' = <<[rows |-> UpTo(Len(rs)), last |-> TRUE]>> /\ st' = "done" /\ lost' = FALSE
    <3>1. out' \in Seq(Response) /\ Closed(out') /\ RowsOf(out') = UpTo(Len(rs))
      BY <2>2, SingleRows
    <3>2. TypeOK'
      <4>1. rows' \in Seq(Row) /\ Len(rows') <= MaxRows /\ i' \in 0..Len(rows')
        BY <1>1, <1>2, <2>1, <2>2, EmptyTypes
      <4>2. left' \in Nat /\ (kind' \in Split => left' < Word) /\ kind' \in Kinds
        BY <1>1, <1>2, <2>1, <2>2
      <4>3. tmp' \in Seq(1..MaxRows)
        BY <1>1, <1>2, <2>1, <2>2, EmptyTypes
      <4>4. array' \in Seq(Response) /\ out' \in Seq(Response)
        BY <1>1, <3>1, EmptyTypes
      <4>5. st' \in Final \cup {"idle", "split", "step", "sending"} /\ lost' \in BOOLEAN
        BY <1>1, <1>2, <2>1, <2>2 DEF Final
      <4>. QED
        BY <4>1, <4>2, <4>3, <4>4, <4>5 DEF TypeOK
    <3>3. Shape'
      BY <1>1, <2>1, <2>2, <3>1 DEF Shape, Closed
    <3>4. out' \o array' = out' /\ RowsOf(out') \o tmp' = RowsOf(out')
      <4>1. RowsOf(out') \in Seq(1..MaxRows)
        <5>1. [rows |-> << >>, last |-> TRUE] \in Response
          BY Empties DEF Response
        <5>. QED
          BY <3>1, <5>1, RowsOfAppend
      <4>. QED
        BY <1>1, <3>1, <4>1, Empties
    <3>5. InOrder'
      BY <2>1, <3>1, <3>4 DEF InOrder
    <3>. QED
      BY <3>2, <3>3, <3>5 DEF Inv
  <2>3. CASE out' = << >> /\ st' = "broken" /\ lost' = TRUE
    <3>1. TypeOK'
      BY <1>1, <1>2, <2>1, <2>3, Empties DEF TypeOK, Final
    <3>2. Shape' /\ InOrder'
      BY <2>3, Empties DEF Shape, InOrder
    <3>. QED
      BY <3>1, <3>2 DEF Inv
  <2>. QED
    BY <2>1, <2>2, <2>3 DEF Single, UpTo
<1>. QED
  BY <1>3, <1>4

LEMMA OpenMultiInv ==
    ASSUME Inv, NEW rs \in Seq(Row), Len(rs) <= MaxRows, OpenMulti(rs)
    PROVE  Inv'
<1>1. /\ kind' = "multi" /\ st' = "step" /\ rows' = rs /\ i' = 0 /\ left' = ResponseSize
      /\ tmp' = << >> /\ array' = << >> /\ out' = << >> /\ lost' = FALSE
  BY DEF OpenMulti
<1>2. Len(rs) \in Nat /\ ResponseSize \in Nat
  BY LenProperties, AnswersAssumption
<1>3. TypeOK'
  <2>1. rows' \in Seq(Row) /\ Len(rows') <= MaxRows /\ i' \in 0..Len(rows')
    BY <1>1, <1>2, EmptyTypes
  <2>2. left' \in Nat /\ (kind' \in Split => left' < Word) /\ kind' \in Kinds
    BY <1>1, <1>2 DEF Kinds, Split
  <2>3. tmp' \in Seq(1..MaxRows)
    BY <1>1, <1>2, EmptyTypes
  <2>4. array' \in Seq(Response) /\ out' \in Seq(Response)
    BY <1>1, EmptyTypes
  <2>5. st' \in Final \cup {"idle", "split", "step", "sending"} /\ lost' \in BOOLEAN
    BY <1>1, <1>2 DEF Final
  <2>. QED
    BY <2>1, <2>2, <2>3, <2>4, <2>5 DEF TypeOK
<1>4. Shape'
  BY <1>1, Empties DEF Shape
<1>5. out' \o array' = << >> /\ RowsOf(out' \o array') \o tmp' = UpTo(i')
  BY <1>1, Empties
<1>6. InOrder'
  BY <1>5 DEF InOrder
<1>. QED
  BY <1>3, <1>4, <1>6 DEF Inv

-----------------------------------------------------------------------------
(* The split of feeds.c.                                                   *)

LEMMA LeftType ==
    ASSUME TypeOK, kind \in Split, i < Len(rows)
    PROVE  /\ Word \in Nat /\ left \in Nat /\ left < Word
           /\ Charged(kind, rows[Current]) \in Nat /\ Charged(kind, rows[Current]) < Word
           /\ LeftNow \in Nat /\ LeftNow < Word
           /\ Charged(kind, rows[Current]) <= left => LeftNow = left - Charged(kind, rows[Current])
<1>. DEFINE c == Charged(kind, rows[Current])
<1>1. Word \in Nat /\ left \in Nat /\ left < Word
  BY AnswersAssumption DEF TypeOK
<1>2. rows[Current].con \in Nat /\ rows[Current].thu \in Nat
      /\ rows[Current].con + rows[Current].thu < Word
  BY CurrentRow
<1>3. c \in Nat /\ c < Word
  BY <1>1, <1>2 DEF Charged
<1>. HIDE DEF c
<1>4. /\ Minus(left, c) \in Nat /\ Minus(left, c) < Word
      /\ c <= left => Minus(left, c) = left - c
  BY <1>1, <1>3, Subtraction
<1>. QED
  BY <1>1, <1>3, <1>4 DEF LeftNow, c

LEMMA SplitFacts ==
    ASSUME Inv, st = "split"
    PROVE  /\ kind \in Split /\ i < Len(rows) /\ ~lost /\ array = << >> /\ NoLast(out)
           /\ i \in Nat /\ Len(rows) \in Nat /\ Current = i + 1
           /\ Current \in 1..MaxRows /\ Current \in 0..Len(rows) /\ LeftNow \in Nat /\ LeftNow < Word
           /\ out \in Seq(Response) /\ tmp \in Seq(1..MaxRows)
           /\ RowsOf(out) \o tmp = UpTo(i)
<1>1. kind \in Split /\ i < Len(rows) /\ ~lost /\ array = << >> /\ NoLast(out)
  BY DEF Inv, Shape
<1>2. i \in Nat /\ Len(rows) \in Nat /\ Current = i + 1 /\ Current \in 1..MaxRows /\ Current \in 1..Len(rows)
  BY <1>1, CurrentRow DEF Inv
<1>3. LeftNow \in Nat /\ LeftNow < Word
  BY <1>1, LeftType DEF Inv
<1>4. out \in Seq(Response) /\ tmp \in Seq(1..MaxRows)
  BY DEF Inv, TypeOK
<1>5. out \o array = out
  BY <1>1, <1>4, Empties
<1>6. RowsOf(out) \o tmp = UpTo(i)
  BY <1>1, <1>5 DEF Inv, InOrder
<1>. QED
  BY <1>1, <1>2, <1>3, <1>4, <1>6

LEMMA CollectInv ==
    ASSUME Inv, Collect
    PROVE  Inv'
<1>1. /\ st = "split" /\ ~Cut(Current, LeftNow)
      /\ i' = Current /\ left' = LeftNow /\ tmp' = Append(tmp, Current)
      /\ UNCHANGED <<kind, st, rows, array, out, lost>>
  BY DEF Collect
<1>2. /\ kind \in Split /\ i < Len(rows) /\ ~lost /\ array = << >> /\ NoLast(out)
      /\ i \in Nat /\ Len(rows) \in Nat /\ Current = i + 1
      /\ Current \in 1..MaxRows /\ Current \in 0..Len(rows) /\ LeftNow \in Nat /\ LeftNow < Word
      /\ out \in Seq(Response) /\ tmp \in Seq(1..MaxRows)
      /\ RowsOf(out) \o tmp = UpTo(i)
  BY <1>1, SplitFacts
<1>3. Current < Len(rows)
  BY <1>1, <1>2 DEF Cut
<1>4. tmp' \in Seq(1..MaxRows) /\ RowsOf(out) \o tmp' = UpTo(i')
  BY <1>1, <1>2, RowAdded
<1>5. TypeOK'
  BY <1>1, <1>2, <1>4 DEF Inv, TypeOK
<1>6. Shape'
  BY <1>1, <1>2, <1>3 DEF Shape, NoLast
<1>7. out' \o array' = out
  BY <1>1, <1>2, Empties
<1>8. InOrder'
  BY <1>1, <1>4, <1>7 DEF InOrder
<1>. QED
  BY <1>5, <1>6, <1>8 DEF Inv

LEMMA SendChunkInv ==
    ASSUME Inv, SendChunk
    PROVE  Inv'
<1>. DEFINE x == [rows |-> Append(tmp, Current), last |-> IsLast(Current)]
<1>1. /\ st = "split" /\ i' = Current /\ left' = MaxContentLen /\ tmp' = << >>
      /\ out' = Append(out, x)
      /\ st' = IF Current = Len(rows) THEN "done" ELSE "split"
      /\ UNCHANGED <<kind, rows, array, lost>>
  BY DEF SendChunk, Reset
<1>2. /\ kind \in Split /\ i < Len(rows) /\ ~lost /\ array = << >> /\ NoLast(out)
      /\ i \in Nat /\ Len(rows) \in Nat /\ Current = i + 1
      /\ Current \in 1..MaxRows /\ Current \in 0..Len(rows) /\ LeftNow \in Nat /\ LeftNow < Word
      /\ out \in Seq(Response) /\ tmp \in Seq(1..MaxRows)
      /\ RowsOf(out) \o tmp = UpTo(i)
  BY <1>1, SplitFacts
<1>3. IsLast(Current) \in BOOLEAN /\ (IsLast(Current) <=> Current = Len(rows))
  BY DEF IsLast
<1>4. x \in Response /\ out' \in Seq(Response) /\ RowsOf(out') = UpTo(i')
  BY <1>1, <1>2, <1>3, RowAdded
<1>5. x.last <=> Current = Len(rows)
  BY <1>3
<1>. HIDE DEF x
<1>6. (~x.last => NoLast(out')) /\ (x.last => Closed(out'))
  BY <1>1, <1>2, <1>4, LastAppend
<1>7. TypeOK'
  <2>1. left' \in Nat /\ left' < Word /\ tmp' \in Seq(1..MaxRows)
    BY <1>1, AnswersAssumption, EmptyTypes
  <2>2. i' \in 0..Len(rows') /\ st' \in Final \cup {"idle", "split", "step", "sending"}
    BY <1>1, <1>2 DEF Final
  <2>. QED
    BY <1>1, <1>4, <2>1, <2>2 DEF Inv, TypeOK
<1>8. Shape'
  <2>1. CASE Current = Len(rows)
    BY <1>1, <1>2, <1>5, <1>6, <2>1 DEF Shape, Closed
  <2>2. CASE Current # Len(rows)
    <3>1. i' < Len(rows)
      BY <1>1, <1>2, <2>2
    <3>. QED
      BY <1>1, <1>2, <1>5, <1>6, <2>2, <3>1 DEF Shape
  <2>. QED
    BY <2>1, <2>2
<1>9. out' \o array' = out' /\ RowsOf(out') \o << >> = RowsOf(out')
  <2>1. RowsOf(out') \in Seq(1..MaxRows)
    BY <1>4, RowsOfAppend
  <2>. QED
    BY <1>1, <1>2, <1>4, <2>1, Empties
<1>10. InOrder'
  BY <1>1, <1>4, <1>9 DEF InOrder
<1>. QED
  BY <1>7, <1>8, <1>10 DEF Inv

LEMMA EnqFailsInv ==
    ASSUME Inv, EnqFails
    PROVE  Inv'
<1>1. /\ st = "split" /\ i' = Current /\ lost' = TRUE /\ st' = "broken"
      /\ left' = LeftNow /\ tmp' = Append(tmp, Current)
      /\ UNCHANGED <<kind, rows, array, out>>
  BY DEF EnqFails, AfterFailure
<1>2. /\ NoLast(out) /\ Current = i + 1 /\ i \in Nat
      /\ Current \in 1..MaxRows /\ Current \in 0..Len(rows) /\ LeftNow \in Nat /\ LeftNow < Word
      /\ tmp \in Seq(1..MaxRows)
  BY <1>1, SplitFacts
<1>3. tmp' \in Seq(1..MaxRows)
  BY <1>1, <1>2, AppendProperties
<1>4. TypeOK'
  BY <1>1, <1>2, <1>3 DEF Inv, TypeOK, Final
<1>5. Shape' /\ InOrder'
  BY <1>1, <1>2 DEF Shape, InOrder, NoLast
<1>. QED
  BY <1>4, <1>5 DEF Inv

-----------------------------------------------------------------------------
(* The get_multi_* methods.                                                *)

LEMMA StepInv ==
    ASSUME Inv, Step
    PROVE  Inv'
<1>. DEFINE t == Append(tmp, Current)
            x == [rows |-> t, last |-> FALSE]
            size == left + MultiLen(rows[Current])
<1>1. /\ st = "step" /\ i < Len(rows) /\ i' = Current
      /\ UNCHANGED <<kind, st, rows, out, lost>>
      /\ IF Full(size)
         THEN array' = Append(array, x) /\ tmp' = << >> /\ left' = ResponseSize
         ELSE tmp' = t /\ left' = size /\ array' = array
  BY DEF Step
<1>2. kind = "multi" /\ ~lost /\ out = << >> /\ NoLast(array) /\ array \in Seq(Response)
      /\ tmp \in Seq(1..MaxRows) /\ left \in Nat
  BY <1>1 DEF Inv, Shape, TypeOK
<1>3. i \in Nat /\ Current = i + 1 /\ Current \in 1..MaxRows /\ Current \in 1..Len(rows)
      /\ rows[Current].con \in Nat /\ rows[Current].thu \in Nat
  BY <1>1, CurrentRow DEF Inv
<1>4. size \in Nat /\ ResponseSize \in Nat
  <2>1. RowSize \in Nat /\ ResponseSize \in Nat
    BY AnswersAssumption
  <2>2. MultiLen(rows[Current]) \in Nat
    BY <1>3, <2>1 DEF MultiLen
  <2>3. left \in Nat
    BY <1>2
  <2>. QED
    BY <2>1, <2>2, <2>3
<1>5. out \o array = array
  BY <1>2, Empties
<1>6. RowsOf(array) \o tmp = UpTo(i)
  BY <1>1, <1>2, <1>5 DEF Inv, InOrder
<1>7. t \in Seq(1..MaxRows) /\ RowsOf(array) \o t = UpTo(i') /\ x \in Response
      /\ Append(array, x) \in Seq(Response) /\ RowsOf(Append(array, x)) = UpTo(i')
  BY <1>1, <1>2, <1>3, <1>6, RowAdded
<1>8. ~x.last
  OBVIOUS
<1>9. NoLast(Append(array, x))
  BY <1>2, <1>7, <1>8, LastAppend
<1>. HIDE DEF size, t, x
<1>10. CASE Full(size)
  <2>1. array' = Append(array, x) /\ tmp' = << >> /\ left' = ResponseSize
    BY <1>1, <1>10
  <2>2. tmp' \in Seq(1..MaxRows)
    BY <2>1, EmptyTypes
  <2>3. TypeOK'
    BY <1>1, <1>2, <1>3, <1>4, <1>7, <2>1, <2>2 DEF Inv, TypeOK, Split
  <2>4. Shape'
    BY <1>1, <1>2, <1>9, <2>1 DEF Shape
  <2>5. out' \o array' = array' /\ RowsOf(array') \o tmp' = RowsOf(array')
    <3>1. RowsOf(array') \in Seq(1..MaxRows)
      BY <1>7, <2>1, RowsOfAppend
    <3>. QED
      BY <1>1, <1>2, <1>7, <2>1, <3>1, Empties
  <2>6. InOrder'
    BY <1>7, <2>1, <2>5 DEF InOrder
  <2>. QED
    BY <2>3, <2>4, <2>6 DEF Inv
<1>11. CASE ~Full(size)
  <2>1. tmp' = t /\ left' = size /\ array' = array
    BY <1>1, <1>11
  <2>2. TypeOK'
    BY <1>1, <1>2, <1>3, <1>4, <1>7, <2>1 DEF Inv, TypeOK, Split
  <2>3. Shape'
    BY <1>1, <1>2, <2>1 DEF Shape
  <2>4. out' \o array' = array
    BY <1>1, <1>5, <2>1
  <2>5. InOrder'
    BY <1>7, <2>1, <2>4 DEF InOrder
  <2>. QED
    BY <2>2, <2>3, <2>5 DEF Inv
<1>. QED
  BY <1>10, <1>11

LEMMA StepsDoneInv ==
    ASSUME Inv, StepsDone
    PROVE  Inv'
<1>. DEFINE x == [rows |-> tmp, last |-> TRUE]
<1>1. /\ st = "step" /\ i = Len(rows) /\ st' = "sending"
      /\ array' = Append(array, x) /\ tmp' = << >>
      /\ UNCHANGED <<kind, rows, i, left, out, lost>>
  BY DEF StepsDone
<1>2. kind = "multi" /\ ~lost /\ out = << >> /\ NoLast(array) /\ array \in Seq(Response)
      /\ tmp \in Seq(1..MaxRows)
  BY <1>1 DEF Inv, Shape, TypeOK
<1>3. x \in Response /\ x.last /\ x.rows = tmp
  BY <1>2 DEF Response
<1>. HIDE DEF x
<1>4. array' \in Seq(Response) /\ Closed(array')
  BY <1>1, <1>2, <1>3, LastAppend
<1>5. RowsOf(array') = RowsOf(array) \o tmp /\ RowsOf(array') \in Seq(1..MaxRows)
  BY <1>1, <1>2, <1>3, <1>4, RowsOfAppend
<1>6. out \o array = array /\ out' \o array' = array' /\ RowsOf(array') \o tmp' = RowsOf(array')
  BY <1>1, <1>2, <1>4, <1>5, Empties
<1>7. RowsOf(array) \o tmp = UpTo(i)
  BY <1>1, <1>2, <1>6 DEF Inv, InOrder
<1>8. InOrder'
  BY <1>1, <1>5, <1>6, <1>7 DEF InOrder
<1>9. TypeOK'
  BY <1>1, <1>4, EmptyTypes DEF Inv, TypeOK
<1>10. Shape'
  BY <1>1, <1>2, <1>4, Empties DEF Shape
<1>. QED
  BY <1>8, <1>9, <1>10 DEF Inv

LEMMA StepFailsInv ==
    ASSUME Inv, StepFails
    PROVE  Inv'
<1>1. /\ st = "step" /\ array' = << >> /\ tmp' = << >> /\ st' = "refused"
      /\ UNCHANGED <<kind, rows, i, left, out, lost>>
  BY DEF StepFails
<1>2. TypeOK'
  BY <1>1, EmptyTypes DEF Inv, TypeOK, Final
<1>3. Shape' /\ InOrder'
  BY <1>1 DEF Inv, Shape, InOrder
<1>. QED
  BY <1>2, <1>3 DEF Inv

LEMMA AdvanceInv ==
    ASSUME Inv, processAdvance
    PROVE  Inv'
<1>1. /\ st = "sending" /\ array' = Tail(array)
      /\ st' = IF Tail(array) = << >> THEN "done" ELSE "sending"
      /\ \/ out' = Append(out, Head(array)) /\ lost' = lost
         \/ lost' = TRUE /\ out' = out
      /\ UNCHANGED <<kind, rows, i, left, tmp>>
  BY DEF processAdvance
<1>2. kind = "multi" /\ i = Len(rows) /\ tmp = << >> /\ Closed(array) /\ NoLast(out)
      /\ array \in Seq(Response) /\ out \in Seq(Response) /\ lost \in BOOLEAN
  BY <1>1 DEF Inv, Shape, TypeOK
<1>3. /\ Head(array) \in Response /\ array' \in Seq(Response)
      /\ array' = << >> => Head(array).last
      /\ array' # << >> => ~Head(array).last /\ Closed(array')
  BY <1>1, <1>2, LastTail
<1>4. CASE out' = Append(out, Head(array)) /\ lost' = lost
  <2>1. /\ out' \in Seq(Response)
        /\ ~Head(array).last => NoLast(out')
        /\ Head(array).last => Closed(out')
    BY <1>2, <1>3, <1>4, LastAppend
  <2>2. out' \o array' = out \o array
    BY <1>1, <1>2, <1>4, HeadMoves DEF Closed
  <2>3. TypeOK'
    BY <1>1, <1>3, <1>4, <2>1 DEF Inv, TypeOK, Final
  <2>4. Shape'
    <3>1. CASE array' = << >>
      BY <1>1, <1>2, <1>3, <2>1, <3>1 DEF Shape, Closed
    <3>2. CASE array' # << >>
      BY <1>1, <1>2, <1>3, <2>1, <3>2 DEF Shape
    <3>. QED
      BY <3>1, <3>2
  <2>5. InOrder'
    BY <1>1, <1>4, <2>2 DEF Inv, InOrder
  <2>. QED
    BY <2>3, <2>4, <2>5 DEF Inv
<1>5. CASE lost' = TRUE /\ out' = out
  <2>1. TypeOK'
    BY <1>1, <1>3, <1>5 DEF Inv, TypeOK, Final
  <2>2. NoLast(out') /\ LastAtEnd(out')
    BY <1>2, <1>5 DEF NoLast, LastAtEnd
  <2>3. Shape'
    BY <1>1, <1>2, <1>3, <1>5, <2>2 DEF Shape
  <2>4. InOrder'
    BY <1>5 DEF InOrder
  <2>. QED
    BY <2>1, <2>3, <2>4 DEF Inv
<1>. QED
  BY <1>1, <1>4, <1>5

-----------------------------------------------------------------------------
(* The invariant holds at the start and in every step.                     *)

LEMMA InitInv == Init => Inv
<1>. SUFFICES ASSUME Init PROVE Inv
  OBVIOUS
<1>1. rows = << >> /\ i = 0 /\ left = 0 /\ tmp = << >> /\ array = << >> /\ out = << >>
      /\ lost = FALSE /\ st = "idle" /\ kind = "whole"
  BY DEF Init
<1>2. TypeOK
  <2>1. rows \in Seq(Row) /\ Len(rows) <= MaxRows /\ i \in 0..Len(rows)
    BY <1>1, EmptyTypes
  <2>2. left \in Nat /\ left < Word /\ kind \in Kinds
    BY <1>1, EmptyTypes DEF Kinds
  <2>3. tmp \in Seq(1..MaxRows) /\ array \in Seq(Response) /\ out \in Seq(Response)
    BY <1>1, EmptyTypes
  <2>4. st \in Final \cup {"idle", "split", "step", "sending"} /\ lost \in BOOLEAN
    BY <1>1
  <2>. QED
    BY <2>1, <2>2, <2>3, <2>4 DEF TypeOK
<1>3. Shape
  BY <1>1 DEF Shape
<1>4. out \o array = << >> /\ RowsOf(out \o array) \o tmp = UpTo(i)
  BY <1>1, Empties
<1>5. InOrder
  BY <1>4 DEF InOrder
<1>. QED
  BY <1>2, <1>3, <1>5 DEF Inv

\* A request opens an answer of some kind, or a get_multi_* answer.
LEMMA AskOpens ==
    ASSUME NEW n \in 0..MaxRows, NEW rs \in [1..n -> Row], Ask(rs)
    PROVE  /\ rs \in Seq(Row) /\ Len(rs) <= MaxRows
           /\ OpenMulti(rs) \/ \E k \in Split \cup {"whole"} : Open(k, rs)
<1>1. rs \in Seq(Row) /\ Len(rs) <= MaxRows
  BY AnswersAssumption
<1>2. \/ OpenMulti(rs)
      \/ Open("chans", rs) \/ Open("posts", rs) \/ Open("liked_data", rs) \/ Open("cmts", rs)
      \/ Open("reported", rs) \/ Open("whole", rs)
  BY DEF Ask, hdl_get_my_chans_req, hdl_get_chans_req, hdl_get_sub_chans_req, hdl_get_posts_req,
         hdl_get_liked_posts_req, hdl_get_liked_data_req, hdl_get_cmts_req,
         hdl_get_reported_cmts_req, hdl_get_my_chans_meta_req, hdl_get_posts_lac_req,
         hdl_get_cmts_likes_req, onGetMultiComments, onGetMultiLikesAndCommentsCount,
         onGetMultiSubscribersCount
<1>. QED
  BY <1>1, <1>2 DEF Split

LEMMA DetailOpens ==
    ASSUME NEW r \in Row, hdl_get_chan_dtl_req(r)
    PROVE  <<r>> \in Seq(Row) /\ Len(<<r>>) <= MaxRows /\ Open("whole", <<r>>)
<1>1. MaxRows \in Nat \ {0}
  BY AnswersAssumption
<1>. QED
  BY <1>1 DEF hdl_get_chan_dtl_req

LEMMA NextInv == Inv /\ [Next]_vars => Inv'
<1>. SUFFICES ASSUME Inv, [Next]_vars PROVE Inv'
  OBVIOUS
<1>1. ASSUME NEW n \in 0..MaxRows, NEW rs \in [1..n -> Row], Ask(rs) PROVE Inv'
  BY <1>1, AskOpens, OpenInv, OpenMultiInv
<1>2. ASSUME NEW r \in Row, hdl_get_chan_dtl_req(r) PROVE Inv'
  BY <1>2, DetailOpens, OpenInv
<1>3. ASSUME NEW k \in Kinds, Refuse(k) PROVE Inv'
  BY <1>3, FreshState DEF Refuse
<1>4. CASE Collect
  BY <1>4, CollectInv
<1>5. CASE SendChunk
  BY <1>5, SendChunkInv
<1>6. CASE EnqFails
  BY <1>6, EnqFailsInv
<1>7. CASE Step
  BY <1>7, StepInv
<1>8. CASE StepFails
  BY <1>8, StepFailsInv
<1>9. CASE StepsDone
  BY <1>9, StepsDoneInv
<1>10. CASE processAdvance
  BY <1>10, AdvanceInv
<1>11. CASE Finish
  BY <1>11, FreshState DEF Finish, Kinds
<1>12. CASE UNCHANGED vars
  BY <1>12 DEF vars, Inv, TypeOK, Shape, InOrder
<1>. QED
  BY <1>1, <1>2, <1>3, <1>4, <1>5, <1>6, <1>7, <1>8, <1>9, <1>10, <1>11, <1>12 DEF Next

\* The invariant: the types of Answers, what its variables are like at each point
\* of a handler, and the rows so far.
THEOREM Invariant == Spec => []Inv
BY InitInv, NextInv, PTL DEF Spec

\* However the get_* handlers of feeds.c and the get_multi_* methods cut an
\* answer, for any sizes and limits, the responses hold each row once, in order.
THEOREM EachRowOnce == Spec => []RowsOnce
<1>1. Inv => RowsOnce
  BY DEF Inv, InOrder, RowsOnce
<1>. QED
  BY <1>1, Invariant, PTL

\* A response with is_last ends its answer and its client has all rows, unless a
\* get_multi_* method lost one; an answer enqueued without a failure has one.
THEOREM IsLastIsTrue == Spec => []LastMeansAll
<1>1. ASSUME Inv PROVE LastMeansAll
  <2>1. out \in Seq(Response) /\ st \in Final \cup {"idle", "split", "step", "sending"}
    BY <1>1 DEF Inv, TypeOK
  <2>2. CASE st # "done"
    <3>1. NoLast(out)
      BY <1>1, <2>1, <2>2, Empties DEF Inv, Shape, Final
    <3>. QED
      BY <2>2, <3>1 DEF LastMeansAll, NoLast
  <2>3. CASE st = "done" /\ lost
    BY <1>1, <2>3 DEF Inv, Shape, LastMeansAll, LastAtEnd
  <2>4. CASE st = "done" /\ ~lost
    <3>1. i = Len(rows) /\ tmp = << >> /\ array = << >> /\ LastAtEnd(out) /\ Closed(out)
      BY <1>1, <2>4 DEF Inv, Shape
    <3>2. RowsOf(out \o array) \o tmp = UpTo(i)
      BY <1>1, <2>4 DEF Inv, InOrder
    <3>3. [rows |-> << >>, last |-> TRUE] \in Response
      BY Empties DEF Response
    <3>4. RowsOf(out) \in Seq(1..MaxRows)
      BY <2>1, <3>3, RowsOfAppend
    <3>5. RowsOf(out) = UpTo(Len(rows))
      BY <2>1, <3>1, <3>2, <3>4, Empties
    <3>. QED
      BY <3>1, <3>5 DEF LastMeansAll, LastAtEnd, Closed
  <2>. QED
    BY <2>2, <2>3, <2>4
<1>. QED
  BY <1>1, Invariant, PTL

-----------------------------------------------------------------------------
(* Sizes.  Sum is defined by a recursive function too.                     *)

Summing(f, s, n) == f = [k \in 0..n |-> IF k = 0 THEN 0 ELSE f[k - 1] + s[k]]

LEMMA SummingExists ==
    ASSUME NEW s, NEW n \in Nat
    PROVE  \E f : Summing(f, s, n)
<1>. DEFINE T == {m \in Nat : ~ \E f : Summing(f, s, m)}
<1>1. SUFFICES ASSUME T # {} PROVE FALSE
  OBVIOUS
<1>2. PICK m \in T : \A j \in T : m <= j
  BY <1>1, LeastNumber
<1>3. CASE m = 0
  <2>. DEFINE f == [k \in 0..0 |-> 0]
  <2>1. Summing(f, s, 0)
    BY DEF Summing
  <2>. QED
    BY <1>2, <1>3, <2>1
<1>4. CASE m # 0
  <2>1. m \in Nat /\ m - 1 \in Nat /\ m - 1 \notin T
    BY <1>2, <1>4
  <2>2. PICK f : Summing(f, s, m - 1)
    BY <2>1
  <2>. DEFINE g == [k \in 0..m |-> IF k < m THEN f[k] ELSE f[k - 1] + s[k]]
  <2>3. \A k \in 0..m : g[k] = IF k = 0 THEN 0 ELSE g[k - 1] + s[k]
    <3>. TAKE k \in 0..m
    <3>1. CASE k < m
      <4>1. k \in 0..(m - 1) /\ g[k] = f[k]
        BY <2>1, <3>1
      <4>2. f[k] = IF k = 0 THEN 0 ELSE f[k - 1] + s[k]
        BY <4>1, <2>2 DEF Summing
      <4>3. k # 0 => g[k - 1] = f[k - 1]
        BY <2>1, <3>1
      <4>. QED
        BY <4>1, <4>2, <4>3
    <3>2. CASE k = m
      <4>1. g[k] = f[k - 1] + s[k] /\ g[k - 1] = f[k - 1] /\ k # 0
        BY <1>4, <2>1, <3>2
      <4>. QED
        BY <4>1
    <3>. QED
      BY <2>1, <3>1, <3>2
  <2>4. Summing(g, s, m)
    BY <2>3 DEF Summing
  <2>. QED
    BY <1>2, <2>4
<1>. QED
  BY <1>3, <1>4

LEMMA SummingAgree ==
    ASSUME NEW s, NEW t, NEW m \in Nat, NEW n \in Nat, m <= n,
           Agree(s, t, m), NEW f, NEW g, Summing(f, s, m), Summing(g, t, n)
    PROVE  f[m] = g[m]
<1>. DEFINE T == {k \in 0..m : f[k] # g[k]}
<1>1. SUFFICES ASSUME T # {} PROVE FALSE
  OBVIOUS
<1>2. T \in SUBSET Nat
  OBVIOUS
<1>3. PICK k \in T : \A j \in T : k <= j
  BY <1>1, <1>2, LeastNumber
<1>4. k \in 0..m /\ k \in 0..n /\ f[k] # g[k]
  BY <1>3
<1>5. /\ f[k] = IF k = 0 THEN 0 ELSE f[k - 1] + s[k]
      /\ g[k] = IF k = 0 THEN 0 ELSE g[k - 1] + t[k]
  BY <1>4 DEF Summing
<1>6. k # 0
  BY <1>4, <1>5
<1>7. k - 1 \in 0..m /\ k - 1 \notin T
  BY <1>3, <1>4, <1>6
<1>8. f[k - 1] = g[k - 1] /\ s[k] = t[k]
  BY <1>4, <1>6, <1>7 DEF Agree
<1>. QED
  BY <1>4, <1>5, <1>6, <1>8

LEMMA SumIs ==
    ASSUME NEW s, Len(s) \in Nat
    PROVE  \E f : Summing(f, s, Len(s)) /\ Sum(s) = f[Len(s)]
<1>. DEFINE f == CHOOSE f : Summing(f, s, Len(s))
<1>1. Sum(s) = f[Len(s)]
  BY DEF Sum, Summing
<1>2. Summing(f, s, Len(s))
  BY SummingExists
<1>. QED
  BY <1>1, <1>2

LEMMA SumNext ==
    ASSUME NEW s, NEW t, NEW n \in Nat, Len(s) = n, Len(t) = n + 1, Agree(s, t, n)
    PROVE  Sum(t) = Sum(s) + t[n + 1]
<1>0. n + 1 \in Nat /\ n <= n + 1
  OBVIOUS
<1>1. PICK f : Summing(f, s, n) /\ Sum(s) = f[n]
  BY SumIs
<1>2. PICK g : Summing(g, t, n + 1) /\ Sum(t) = g[n + 1]
  BY <1>0, SumIs
<1>3. f[n] = g[n]
  BY <1>0, <1>1, <1>2, SummingAgree
<1>4. g[n + 1] = g[n] + t[n + 1]
  <2>1. n + 1 \in 0..(n + 1) /\ (n + 1) - 1 = n /\ n + 1 # 0
    OBVIOUS
  <2>. QED
    BY <1>2, <2>1 DEF Summing
<1>. QED
  BY <1>1, <1>2, <1>3, <1>4

\* The size of a row, and of the rows of a response, as Fits counts them
Weight(k, x) == IF k \in {"posts", "multi"} THEN x.con + x.thu ELSE x.con
Weighed(k, rs, s) == Sum([j \in 1..Len(s) |-> Weight(k, rs[s[j]])])

LEMMA WeighedAppend ==
    ASSUME NEW S, NEW s \in Seq(S), NEW c \in S, NEW k, NEW rs
    PROVE  /\ Weighed(k, rs, Append(s, c)) = Weighed(k, rs, s) + Weight(k, rs[c])
           /\ Weighed(k, rs, << >>) = 0
<1>. DEFINE w(u) == [j \in 1..Len(u) |-> Weight(k, rs[u[j]])]
            n == Len(s)
            a == Append(s, c)
<1>1. n \in Nat /\ Len(a) = n + 1 /\ (\A j \in 1..n : a[j] = s[j]) /\ a[n + 1] = c
  BY AppendProperties, LenProperties
<1>2. ASSUME NEW u, Len(u) \in Nat PROVE Len(w(u)) = Len(u)
  BY <1>2
<1>3. Len(w(s)) = n /\ Len(w(a)) = n + 1
  BY <1>1, <1>2
<1>4. Agree(w(s), w(a), n) /\ w(a)[n + 1] = Weight(k, rs[c])
  BY <1>1 DEF Agree
<1>. HIDE DEF w
<1>5. Sum(w(a)) = Sum(w(s)) + w(a)[n + 1]
  BY <1>1, <1>3, <1>4, SumNext
<1>6. Weighed(k, rs, << >>) = 0
  <2>1. Len(w(<< >>)) = 0
    BY EmptySeq DEF w
  <2>2. PICK f : Summing(f, w(<< >>), 0) /\ Sum(w(<< >>)) = f[0]
    BY <2>1, SumIs
  <2>3. Sum(w(<< >>)) = 0
    BY <2>2 DEF Summing
  <2>. QED
    BY <2>3 DEF w, Weighed
<1>. QED
  BY <1>4, <1>5, <1>6 DEF w, Weighed

LEMMA FrontAppend ==
    ASSUME NEW S, NEW s \in Seq(S), NEW c \in S
    PROVE  Front(Append(s, c)) = s
<1>. DEFINE a == Append(s, c)
            n == Len(s)
<1>1. n \in Nat /\ Len(a) = n + 1 /\ (\A j \in 1..n : a[j] = s[j])
  BY AppendProperties, LenProperties
<1>2. \A j \in 1..n : s[j] \in S
  BY LenProperties
<1>. HIDE DEF a, n
<1>3. Front(a) = SubSeq(a, 1, n)
  BY <1>1 DEF Front
<1>4. \A j \in 1..n : a[j] \in S
  BY <1>1, <1>2
<1>5. SubSeq(a, 1, n) \in Seq(S) /\ Len(SubSeq(a, 1, n)) = n /\ \A j \in 1..n : SubSeq(a, 1, n)[j] = a[j]
  <2>1. /\ SubSeq(a, 1, n) \in Seq(S)
        /\ Len(SubSeq(a, 1, n)) = IF 1 <= n THEN n - 1 + 1 ELSE 0
        /\ \A j \in 1..(n - 1 + 1) : SubSeq(a, 1, n)[j] = a[1 + j - 1]
    BY <1>1, <1>4, SubSeqProperties
  <2>. QED
    BY <1>1, <2>1
<1>. QED
  BY <1>1, <1>3, <1>5, SeqEqual DEF a, n

-----------------------------------------------------------------------------
(* The size of a response.                                                 *)

\* Some row is larger than the one before it
Grows(rs, s) == \E j \in 2..Len(s) : rs[s[j]].con > rs[s[j - 1]].con

\* A response with rows s of an answer with rows rs fits, in the sense of Fits
FitsIn(k, rs, s) ==
    /\ k \in {"chans", "posts", "cmts", "liked_data"} =>
          \/ Weighed(k, rs, s) <= MaxContentLen
          \/ Weight(k, rs[s[1]]) > MaxContentLen
          \/ k = "liked_data" /\ Grows(rs, s)
    /\ k = "multi" /\ s # << >> =>
          ResponseSize + (Len(s) - 1) * RowSize + Weighed(k, rs, Front(s)) < MaxAvailableSize

AllFit(k, rs, ss) == \A j \in DOMAIN ss : FitsIn(k, rs, ss[j].rows)

\* What is left belongs to the rows collected, unless the first of them was larger
\* than a response; and the next row fits into it, as far as the handler looks
Room ==
    /\ st = "split" /\ tmp = << >> => left = MaxContentLen
    /\ st = "split" /\ tmp # << >> => tmp[Len(tmp)] = i
    /\ st = "split" /\ kind # "reported" =>
          /\ Weighed(kind, rows, tmp) \in Nat
          /\ \/ tmp = << >>
             \/ Weight(kind, rows[tmp[1]]) > MaxContentLen
             \/ kind = "liked_data" /\ Grows(rows, tmp)
             \/ /\ Weighed(kind, rows, tmp) + left = MaxContentLen
                /\ IF kind = "liked_data" THEN rows[i].con <= left
                   ELSE Weight(kind, rows[i + 1]) <= left
    /\ st = "step" => /\ Weighed(kind, rows, tmp) \in Nat
                      /\ left = ResponseSize + Len(tmp) * RowSize + Weighed(kind, rows, tmp)
                      /\ left < MaxAvailableSize
                      /\ FitsIn(kind, rows, tmp)
    /\ AllFit(kind, rows, array) /\ AllFit(kind, rows, out)

LEMMA FitsIsAllFit == AllFit(kind, rows, out) => Fits
<1>. SUFFICES ASSUME AllFit(kind, rows, out), NEW k \in DOMAIN out
              PROVE  LET s == out[k].rows IN
        /\ kind = "chans" => Contents(s) <= MaxContentLen \/ rows[s[1]].con > MaxContentLen
        /\ kind = "posts" =>
              Total(s) <= MaxContentLen \/ rows[s[1]].con + rows[s[1]].thu > MaxContentLen
        /\ kind = "cmts" => Contents(s) <= MaxContentLen \/ rows[s[1]].con > MaxContentLen
        /\ kind = "liked_data" =>
              \/ Contents(s) <= MaxContentLen
              \/ rows[s[1]].con > MaxContentLen
              \/ \E j \in 2..Len(s) : rows[s[j]].con > rows[s[j - 1]].con
        /\ kind = "multi" /\ s # << >> =>
              ResponseSize + (Len(s) - 1) * RowSize + Total(Front(s)) < MaxAvailableSize
  BY DEF Fits
<1>. DEFINE s == out[k].rows
<1>1. FitsIn(kind, rows, s)
  BY DEF AllFit
<1>. HIDE DEF s
<1>2. \A u : kind \in {"posts", "multi"} => Weighed(kind, rows, u) = Total(u)
  BY DEF Weighed, Weight, Total
<1>3. \A u : kind \in {"chans", "cmts", "liked_data"} => Weighed(kind, rows, u) = Contents(u)
  BY DEF Weighed, Weight, Contents
<1>4. /\ kind \in {"posts", "multi"} => Weight(kind, rows[s[1]]) = rows[s[1]].con + rows[s[1]].thu
      /\ kind \in {"chans", "cmts", "liked_data"} => Weight(kind, rows[s[1]]) = rows[s[1]].con
  BY DEF Weight
<1>5. kind = "chans" => Contents(s) <= MaxContentLen \/ rows[s[1]].con > MaxContentLen
  BY <1>1, <1>3, <1>4 DEF FitsIn
<1>6. kind = "posts" =>
        Total(s) <= MaxContentLen \/ rows[s[1]].con + rows[s[1]].thu > MaxContentLen
  BY <1>1, <1>2, <1>4 DEF FitsIn
<1>7. kind = "cmts" => Contents(s) <= MaxContentLen \/ rows[s[1]].con > MaxContentLen
  BY <1>1, <1>3, <1>4 DEF FitsIn
<1>8. kind = "liked_data" =>
              \/ Contents(s) <= MaxContentLen
              \/ rows[s[1]].con > MaxContentLen
              \/ \E j \in 2..Len(s) : rows[s[j]].con > rows[s[j - 1]].con
  BY <1>1, <1>3, <1>4 DEF FitsIn, Grows
<1>9. kind = "multi" /\ s # << >> =>
              ResponseSize + (Len(s) - 1) * RowSize + Total(Front(s)) < MaxAvailableSize
  BY <1>1, <1>2 DEF FitsIn
<1>. QED
  BY <1>5, <1>6, <1>7, <1>8, <1>9 DEF s

LEMMA AllFitAppend ==
    ASSUME NEW k, NEW rs, NEW ss \in Seq(Response), NEW x \in Response,
           AllFit(k, rs, ss), FitsIn(k, rs, x.rows)
    PROVE  AllFit(k, rs, Append(ss, x))
<1>1. Append(ss, x) \in Seq(Response) /\ Len(Append(ss, x)) = Len(ss) + 1
      /\ (\A j \in 1..Len(ss) : Append(ss, x)[j] = ss[j]) /\ Append(ss, x)[Len(ss) + 1] = x
  BY AppendProperties
<1>2. DOMAIN Append(ss, x) = 1..(Len(ss) + 1) /\ DOMAIN ss = 1..Len(ss) /\ Len(ss) \in Nat
  BY <1>1, LenProperties
<1>. SUFFICES ASSUME NEW j \in 1..(Len(ss) + 1)
              PROVE  FitsIn(k, rs, Append(ss, x)[j].rows)
  BY <1>2 DEF AllFit
<1>3. j \in 1..Len(ss) \/ j = Len(ss) + 1
  BY <1>2
<1>. QED
  BY <1>1, <1>2, <1>3 DEF AllFit

\* One more row in the sequence of a response.
LEMMA OneMore ==
    ASSUME NEW t \in Seq(1..MaxRows), NEW c \in 1..MaxRows, NEW k, NEW rs
    PROVE  LET u == Append(t, c)
           IN  /\ u \in Seq(1..MaxRows) /\ u # << >> /\ Len(u) = Len(t) + 1 /\ u[Len(u)] = c
               /\ u[1] = IF t = << >> THEN c ELSE t[1]
               /\ Weighed(k, rs, u) = Weighed(k, rs, t) + Weight(k, rs[c])
               /\ t = << >> => Weighed(k, rs, t) = 0
               /\ Grows(rs, t) => Grows(rs, u)
               /\ t # << >> /\ rs[c].con > rs[t[Len(t)]].con => Grows(rs, u)
<1>. DEFINE u == Append(t, c)
            n == Len(t)
<1>1. u \in Seq(1..MaxRows) /\ u # << >> /\ Len(u) = n + 1 /\ n \in Nat
      /\ (\A j \in 1..n : u[j] = t[j]) /\ u[n + 1] = c
  BY AppendProperties, LenProperties
<1>2. Weighed(k, rs, u) = Weighed(k, rs, t) + Weight(k, rs[c]) /\ Weighed(k, rs, << >>) = 0
  BY WeighedAppend
<1>3. (t = << >> => n = 0) /\ (t # << >> => n >= 1)
  BY EmptySeq
<1>. HIDE DEF u, n
<1>4. u[1] = IF t = << >> THEN c ELSE t[1]
  BY <1>1, <1>3
<1>5. ASSUME Grows(rs, t) PROVE Grows(rs, u)
  <2>1. PICK j \in 2..n : rs[t[j]].con > rs[t[j - 1]].con
    BY <1>5 DEF Grows, n
  <2>2. j \in 2..(n + 1) /\ u[j] = t[j] /\ u[j - 1] = t[j - 1]
    BY <1>1
  <2>. QED
    BY <1>1, <2>1, <2>2 DEF Grows
<1>6. ASSUME t # << >>, rs[c].con > rs[t[n]].con PROVE Grows(rs, u)
  <2>1. n + 1 \in 2..(n + 1) /\ u[n + 1] = c /\ (n + 1) - 1 = n /\ u[n] = t[n]
    BY <1>1, <1>3, <1>6
  <2>. QED
    BY <1>1, <1>6, <2>1 DEF Grows
<1>. QED
  BY <1>1, <1>2, <1>4, <1>5, <1>6 DEF u, n

\* The current row fits into the response being filled, or one of the exceptions
\* applies; when the response is not cut after it, the same is known of the next.
LEMMA Taken ==
    ASSUME Inv, Room, st = "split"
    PROVE  LET u == Append(tmp, Current)
           IN  /\ FitsIn(kind, rows, u)
               /\ kind # "reported" /\ ~Cut(Current, LeftNow) =>
                     /\ Weighed(kind, rows, u) \in Nat
                     /\ \/ Weight(kind, rows[u[1]]) > MaxContentLen
                        \/ kind = "liked_data" /\ Grows(rows, u)
                        \/ /\ Weighed(kind, rows, u) + LeftNow = MaxContentLen
                           /\ IF kind = "liked_data" THEN rows[Current].con <= LeftNow
                              ELSE Weight(kind, rows[Current + 1]) <= LeftNow
<1>. DEFINE c == Current
            u == Append(tmp, c)
            w == Weighed(kind, rows, tmp)
            wc == Weight(kind, rows[c])
            Large(s) == Weight(kind, rows[s[1]]) > MaxContentLen
            Odd(s) == kind = "liked_data" /\ Grows(rows, s)
<1>1. /\ kind \in Split /\ i < Len(rows) /\ i \in Nat /\ Len(rows) \in Nat /\ Current = i + 1
      /\ Current \in 1..MaxRows /\ tmp \in Seq(1..MaxRows)
  BY SplitFacts
<1>2. CASE kind = "reported"
  BY <1>2 DEF FitsIn
<1>3. CASE kind # "reported"
  <2>1. kind \in {"chans", "posts", "cmts", "liked_data"} /\ kind # "multi"
    BY <1>1, <1>3 DEF Split
  <2>2. rows[c].con \in Nat /\ rows[c].thu \in Nat
    BY <1>1, CurrentRow DEF Inv
  <2>3. wc = Charged(kind, rows[c]) /\ wc \in Nat
    BY <2>1, <2>2 DEF Weight, Charged
  <2>4. /\ left \in Nat /\ LeftNow \in Nat /\ MaxContentLen \in Nat
        /\ wc <= left => LeftNow = left - wc
    BY <1>1, <2>3, LeftType, AnswersAssumption DEF Inv
  <2>5. /\ u # << >> /\ u[Len(u)] = c
        /\ u[1] = IF tmp = << >> THEN c ELSE tmp[1]
        /\ Weighed(kind, rows, u) = w + wc
        /\ tmp = << >> => w = 0
        /\ Grows(rows, tmp) => Grows(rows, u)
        /\ tmp # << >> /\ rows[c].con > rows[tmp[Len(tmp)]].con => Grows(rows, u)
    BY <1>1, OneMore
  <2>6. w \in Nat
    BY <1>3 DEF Room
  <2>7. \/ tmp = << >> /\ left = MaxContentLen
        \/ tmp # << >> /\ (Large(tmp) \/ Odd(tmp))
        \/ /\ tmp # << >> /\ w + left = MaxContentLen /\ tmp[Len(tmp)] = i
           /\ IF kind = "liked_data" THEN rows[i].con <= left ELSE Weight(kind, rows[i + 1]) <= left
    BY <1>3 DEF Room
  <2>8. Large(u) \/ Odd(u) \/ (wc <= left /\ w + left = MaxContentLen)
    <3>1. CASE tmp = << >> /\ left = MaxContentLen
      <4>1. u[1] = c /\ w = 0
        BY <2>5, <3>1
      <4>2. wc > MaxContentLen \/ wc <= left
        BY <2>3, <2>4, <3>1
      <4>. QED
        BY <2>4, <3>1, <4>1, <4>2
    <3>2. CASE tmp # << >> /\ (Large(tmp) \/ Odd(tmp))
      BY <2>5, <3>2
    <3>3. CASE /\ tmp # << >> /\ w + left = MaxContentLen /\ tmp[Len(tmp)] = i
               /\ IF kind = "liked_data" THEN rows[i].con <= left ELSE Weight(kind, rows[i + 1]) <= left
      <4>1. CASE kind # "liked_data"
        BY <1>1, <3>3, <4>1
      <4>2. CASE kind = "liked_data"
        <5>1. i \in 1..Len(rows)
          <6>1. tmp[Len(tmp)] \in 1..MaxRows
            <7>1. Len(tmp) \in 1..Len(tmp)
              BY <1>1, <3>3, EmptySeq
            <7>. QED
              BY <1>1, <7>1, ElementOfSeq
          <6>. QED
            BY <1>1, <3>3, <6>1
        <5>2. rows[i] \in Row
          <6>1. rows \in Seq(Row)
            BY DEF Inv, TypeOK
          <6>. QED
            BY <5>1, <6>1, ElementOfSeq
        <5>3. rows[i].con \in Nat
          BY <5>2, AnswersAssumption DEF Row
        <5>4. wc = rows[c].con
          BY <4>2 DEF Weight
        <5>5. rows[c].con > rows[i].con \/ wc <= left
          BY <2>2, <2>4, <3>3, <4>2, <5>3, <5>4
        <5>. QED
          BY <2>5, <3>3, <4>2, <5>5
      <4>. QED
        BY <4>1, <4>2
    <3>. QED
      BY <2>7, <3>1, <3>2, <3>3
  <2>9. FitsIn(kind, rows, u)
    <3>1. wc <= left /\ w + left = MaxContentLen => Weighed(kind, rows, u) <= MaxContentLen
      BY <2>3, <2>4, <2>5, <2>6
    <3>. QED
      BY <2>1, <2>8, <3>1 DEF FitsIn
  <2>10. Weighed(kind, rows, u) \in Nat
    BY <2>3, <2>5, <2>6
  <2>11. ASSUME ~Cut(c, LeftNow)
         PROVE  IF kind = "liked_data" THEN rows[c].con <= LeftNow
                ELSE Weight(kind, rows[c + 1]) <= LeftNow
    <3>1. c < Len(rows) /\ ~(Needed(kind, c) > LeftNow)
      BY <2>11 DEF Cut
    <3>2. rows[c + 1] \in Row
      <4>1. rows \in Seq(Row) /\ c + 1 \in 1..Len(rows)
        BY <1>1, <3>1 DEF Inv, TypeOK
      <4>. QED
        BY <4>1, ElementOfSeq
    <3>3. rows[c + 1].con \in Nat /\ rows[c + 1].thu \in Nat
      BY <3>2, AnswersAssumption DEF Row
    <3>4. CASE kind = "liked_data"
      <4>1. Needed(kind, c) = rows[c].con
        BY <3>4 DEF Needed
      <4>. QED
        BY <2>2, <2>4, <3>1, <3>4, <4>1
    <3>5. CASE kind \in {"posts", "cmts"}
      <4>1. Needed(kind, c) = rows[c + 1].con + rows[c + 1].thu
        BY <3>5 DEF Needed
      <4>. QED
        BY <2>4, <3>1, <3>3, <3>5, <4>1 DEF Weight
    <3>6. CASE kind = "chans"
      <4>1. Needed(kind, c) = rows[c + 1].con
        BY <3>6 DEF Needed
      <4>. QED
        BY <2>4, <3>1, <3>3, <3>6, <4>1 DEF Weight
    <3>. QED
      BY <2>1, <3>4, <3>5, <3>6
  <2>12. wc <= left /\ w + left = MaxContentLen => Weighed(kind, rows, u) + LeftNow = MaxContentLen
    BY <2>3, <2>4, <2>5, <2>6
  <2>. QED
    BY <2>8, <2>9, <2>10, <2>11, <2>12
<1>. QED
  BY <1>2, <1>3

LEMMA NoRows ==
    ASSUME NEW k, NEW rs
    PROVE  /\ AllFit(k, rs, << >>) /\ Weighed(k, rs, << >>) = 0
           /\ FitsIn(k, rs, << >>)
<1>1. DOMAIN << >> = {}
  OBVIOUS
<1>2. AllFit(k, rs, << >>)
  BY <1>1 DEF AllFit
<1>3. Weighed(k, rs, << >>) = 0
  <2>1. << >> \in Seq({0}) /\ 0 \in {0}
    BY EmptySeq
  <2>. QED
    BY <2>1, WeighedAppend
<1>4. 0 <= MaxContentLen
  BY AnswersAssumption
<1>5. FitsIn(k, rs, << >>)
  BY <1>3, <1>4 DEF FitsIn
<1>. QED
  BY <1>2, <1>3, <1>5

LEMMA OpenRoom ==
    ASSUME NEW k \in Split \cup {"whole"}, NEW rs \in Seq(Row), Len(rs) <= MaxRows, Open(k, rs)
    PROVE  Room'
<1>1. kind' = k /\ rows' = rs /\ tmp' = << >> /\ array' = << >> /\ left' = MaxContentLen
  BY DEF Open
<1>2. AllFit(kind', rows', array') /\ AllFit(kind', rows', << >>) /\ Weighed(kind', rows', tmp') = 0
  BY <1>1, NoRows
<1>3. CASE k # "whole" /\ rs # << >>
  <2>1. st' = "split" /\ out' = << >>
    BY <1>3 DEF Open
  <2>. QED
    BY <1>1, <1>2, <2>1 DEF Room
<1>4. CASE ~(k # "whole" /\ rs # << >>)
  <2>1. Single(rs)
    BY <1>4 DEF Open
  <2>2. CASE out' = << >> /\ st' = "broken"
    BY <1>1, <1>2, <2>2 DEF Room
  <2>3. CASE out' = <<[rows |-> UpTo(Len(rs)), last |-> TRUE]>> /\ st' = "done"
    <3>1. FitsIn(k, rs, UpTo(Len(rs)))
      <4>1. CASE k = "whole"
        BY <4>1 DEF FitsIn
      <4>2. CASE rs = << >>
        BY <4>2, NoRows, Empties
      <4>. QED
        BY <1>4, <4>1, <4>2
    <3>2. AllFit(k, rs, out')
      BY <2>3, <3>1 DEF AllFit
    <3>. QED
      BY <1>1, <1>2, <2>3, <3>2 DEF Room
  <2>. QED
    BY <2>1, <2>2, <2>3 DEF Single, UpTo
<1>. QED
  BY <1>3, <1>4

LEMMA OpenMultiRoom ==
    ASSUME NEW rs, OpenMulti(rs)
    PROVE  Room'
<1>1. /\ st' = "step" /\ left' = ResponseSize /\ tmp' = << >> /\ array' = << >> /\ out' = << >>
  BY DEF OpenMulti
<1>2. AllFit(kind', rows', << >>) /\ Weighed(kind', rows', << >>) = 0 /\ FitsIn(kind', rows', << >>)
  BY NoRows
<1>3. ResponseSize \in Nat /\ RowSize \in Nat /\ ResponseSize < MaxAvailableSize /\ Len(<< >>) = 0
  BY AnswersAssumption, EmptySeq
<1>4. ResponseSize = ResponseSize + 0 * RowSize + 0
  BY <1>3
<1>. QED
  BY <1>1, <1>2, <1>3, <1>4 DEF Room

LEMMA SplitRoom ==
    ASSUME Inv, Room, Collect \/ SendChunk \/ EnqFails
    PROVE  Room'
<1>. DEFINE u == Append(tmp, Current)
<1>1. st = "split" /\ kind' = kind /\ rows' = rows /\ array' = array
  BY DEF Collect, SendChunk, EnqFails
<1>2. /\ Current \in 1..MaxRows /\ out \in Seq(Response) /\ tmp \in Seq(1..MaxRows) /\ Current = i + 1
  BY <1>1, SplitFacts
<1>3. AllFit(kind, rows, array) /\ AllFit(kind, rows, out)
  BY DEF Room
<1>4. u \in Seq(1..MaxRows) /\ u # << >> /\ u[Len(u)] = Current
  BY <1>2, OneMore
<1>5. /\ FitsIn(kind, rows, u)
      /\ kind # "reported" /\ ~Cut(Current, LeftNow) =>
                     /\ Weighed(kind, rows, u) \in Nat
                     /\ \/ Weight(kind, rows[u[1]]) > MaxContentLen
                        \/ kind = "liked_data" /\ Grows(rows, u)
                        \/ /\ Weighed(kind, rows, u) + LeftNow = MaxContentLen
                           /\ IF kind = "liked_data" THEN rows[Current].con <= LeftNow
                              ELSE Weight(kind, rows[Current + 1]) <= LeftNow
  BY <1>1, Taken
<1>6. CASE Collect
  <2>1. /\ ~Cut(Current, LeftNow) /\ i' = Current /\ left' = LeftNow /\ tmp' = u
        /\ st' = "split" /\ out' = out
    BY <1>1, <1>6 DEF Collect
  <2>. HIDE DEF u
  <2>. QED
    BY <1>1, <1>3, <1>4, <1>5, <2>1 DEF Room
<1>7. CASE SendChunk
  <2>. DEFINE x == [rows |-> u, last |-> IsLast(Current)]
  <2>1. /\ left' = MaxContentLen /\ tmp' = << >> /\ out' = Append(out, x)
        /\ st' \in {"done", "split"}
    BY <1>7 DEF SendChunk, Reset
  <2>2. x \in Response /\ x.rows = u
    BY <1>4 DEF Response, IsLast
  <2>. HIDE DEF u, x
  <2>3. AllFit(kind, rows, out')
    BY <1>2, <1>3, <1>5, <2>1, <2>2, AllFitAppend
  <2>4. Weighed(kind', rows', << >>) = 0
    BY NoRows
  <2>. QED
    BY <1>1, <1>3, <2>1, <2>3, <2>4 DEF Room
<1>8. CASE EnqFails
  <2>1. st' = "broken" /\ out' = out
    BY <1>8 DEF EnqFails, AfterFailure
  <2>. QED
    BY <1>1, <1>3, <2>1 DEF Room
<1>. QED
  BY <1>6, <1>7, <1>8

LEMMA StepRoom ==
    ASSUME Inv, Room, Step
    PROVE  Room'
<1>. DEFINE t == Append(tmp, Current)
            x == [rows |-> t, last |-> FALSE]
            w == Weighed(kind, rows, tmp)
            wc == Weight(kind, rows[Current])
            size == left + MultiLen(rows[Current])
<1>1. /\ st = "step" /\ i < Len(rows) /\ UNCHANGED <<kind, st, rows, out, lost>>
      /\ IF Full(size)
         THEN array' = Append(array, x) /\ tmp' = << >> /\ left' = ResponseSize
         ELSE tmp' = t /\ left' = size /\ array' = array
  BY DEF Step
<1>2. kind = "multi" /\ tmp \in Seq(1..MaxRows) /\ array \in Seq(Response) /\ Len(tmp) \in Nat
  BY <1>1, LenProperties DEF Inv, Shape, TypeOK
<1>3. Current \in 1..MaxRows /\ rows[Current].con \in Nat /\ rows[Current].thu \in Nat
  BY <1>1, CurrentRow DEF Inv
<1>4. /\ ResponseSize \in Nat /\ RowSize \in Nat /\ MaxAvailableSize \in Nat
      /\ ResponseSize < MaxAvailableSize
  BY AnswersAssumption
<1>5. /\ w \in Nat /\ left = ResponseSize + Len(tmp) * RowSize + w /\ left < MaxAvailableSize
      /\ AllFit(kind, rows, array) /\ AllFit(kind, rows, out)
  BY <1>1 DEF Room
<1>6. wc = rows[Current].con + rows[Current].thu /\ wc \in Nat
  BY <1>2, <1>3 DEF Weight
<1>7. t \in Seq(1..MaxRows) /\ t # << >> /\ Len(t) = Len(tmp) + 1 /\ Weighed(kind, rows, t) = w + wc
  BY <1>2, <1>3, OneMore
<1>8. Front(t) = tmp
  BY <1>2, <1>3, FrontAppend
<1>9. x \in Response /\ x.rows = t
  BY <1>7 DEF Response
<1>10. size = left + (RowSize + wc)
  <2>1. MultiLen(rows[Current]) = RowSize + wc
    BY <1>3, <1>4, <1>6 DEF MultiLen
  <2>. QED
    BY <2>1
<1>. HIDE DEF t, x, w, wc, size
<1>11. FitsIn(kind, rows, t)
  <2>1. Len(t) - 1 = Len(tmp)
    BY <1>2, <1>7
  <2>2. ResponseSize + (Len(t) - 1) * RowSize + Weighed(kind, rows, Front(t)) < MaxAvailableSize
    BY <1>5, <1>8, <2>1 DEF w
  <2>. QED
    BY <1>2, <2>2 DEF FitsIn
<1>12. CASE Full(size)
  <2>1. AllFit(kind, rows, Append(array, x))
    BY <1>2, <1>5, <1>9, <1>11, AllFitAppend
  <2>2. Weighed(kind, rows, << >>) = 0 /\ FitsIn(kind, rows, << >>)
    BY NoRows
  <2>3. Len(<< >>) = 0 /\ ResponseSize = ResponseSize + 0 * RowSize + 0
    BY <1>4, EmptySeq
  <2>. QED
    <3>1. /\ st' = "step" /\ kind' = kind /\ rows' = rows /\ tmp' = << >> /\ left' = ResponseSize
          /\ array' = Append(array, x) /\ out' = out
      BY <1>1, <1>12
    <3>2. Weighed(kind', rows', tmp') = 0 /\ FitsIn(kind', rows', tmp')
      BY <2>2, <3>1
    <3>3. left' = ResponseSize + Len(tmp') * RowSize + Weighed(kind', rows', tmp')
      BY <2>3, <3>1, <3>2
    <3>4. AllFit(kind', rows', array') /\ AllFit(kind', rows', out')
      BY <1>5, <2>1, <3>1
    <3>. QED
      BY <1>4, <3>1, <3>2, <3>3, <3>4 DEF Room
<1>13. CASE ~Full(size)
  <2>1. (Len(tmp) + 1) * RowSize = Len(tmp) * RowSize + RowSize /\ Len(tmp) * RowSize \in Nat
    BY <1>2, <1>4
  <2>2. size = ResponseSize + Len(t) * RowSize + (w + wc)
    <3>. DEFINE p == Len(tmp) * RowSize
    <3>1. Len(t) * RowSize = p + RowSize /\ p \in Nat
      BY <1>7, <2>1
    <3>2. left = ResponseSize + p + w
      BY <1>5
    <3>3. w \in Nat /\ wc \in Nat /\ RowSize \in Nat /\ ResponseSize \in Nat
      BY <1>4, <1>5, <1>6
    <3>. HIDE DEF p
    <3>4. size = ResponseSize + (p + RowSize) + (w + wc)
      BY <1>10, <3>1, <3>2, <3>3
    <3>. QED
      BY <3>1, <3>4
  <2>3. size < MaxAvailableSize
    BY <1>4, <1>5, <1>6, <1>10, <1>13, <2>1 DEF Full
  <2>4. w + wc \in Nat
    BY <1>5, <1>6
  <2>. QED
    BY <1>1, <1>5, <1>7, <1>11, <1>13, <2>2, <2>3, <2>4 DEF Room
<1>. QED
  BY <1>12, <1>13

LEMMA AdvanceRoom ==
    ASSUME Inv, Room, StepFails \/ StepsDone \/ processAdvance
    PROVE  Room'
<1>1. kind' = kind /\ rows' = rows /\ st' \in {"refused", "sending", "done"}
  BY DEF StepFails, StepsDone, processAdvance
<1>2. AllFit(kind, rows, array) /\ AllFit(kind, rows, out)
  BY DEF Room
<1>3. array \in Seq(Response) /\ out \in Seq(Response) /\ tmp \in Seq(1..MaxRows)
  BY DEF Inv, TypeOK
<1>4. CASE StepFails
  BY <1>1, <1>2, <1>4, NoRows DEF Room, StepFails
<1>5. CASE StepsDone
  <2>. DEFINE x == [rows |-> tmp, last |-> TRUE]
  <2>1. array' = Append(array, x) /\ out' = out /\ st = "step"
    BY <1>5 DEF StepsDone
  <2>2. x \in Response /\ x.rows = tmp
    BY <1>3 DEF Response
  <2>. HIDE DEF x
  <2>3. FitsIn(kind, rows, x.rows)
    BY <2>1, <2>2 DEF Room
  <2>4. AllFit(kind, rows, array')
    BY <1>2, <1>3, <2>1, <2>2, <2>3, AllFitAppend
  <2>. QED
    BY <1>1, <1>2, <2>1, <2>4 DEF Room
<1>6. CASE processAdvance
  <2>1. st = "sending" /\ array' = Tail(array) /\ (out' = out \/ out' = Append(out, Head(array)))
    BY <1>6 DEF processAdvance
  <2>2. array # << >>
    BY <2>1 DEF Inv, Shape, Closed
  <2>3. /\ Tail(array) \in Seq(Response) /\ Len(Tail(array)) = Len(array) - 1
        /\ (\A k \in 1..Len(Tail(array)) : Tail(array)[k] = array[k + 1])
        /\ Head(array) = array[1] /\ Head(array) \in Response /\ Len(array) \in Nat \ {0}
    BY <1>3, <2>2, HeadTailProperties, EmptySeq
  <2>4. DOMAIN array = 1..Len(array) /\ DOMAIN Tail(array) = 1..(Len(array) - 1)
    BY <1>3, <2>3, LenProperties
  <2>5. FitsIn(kind, rows, Head(array).rows)
    BY <1>2, <2>3, <2>4 DEF AllFit
  <2>6. AllFit(kind, rows, Tail(array))
    <3>. SUFFICES ASSUME NEW k \in 1..(Len(array) - 1)
                  PROVE  FitsIn(kind, rows, Tail(array)[k].rows)
      BY <2>4 DEF AllFit
    <3>1. Tail(array)[k] = array[k + 1] /\ k + 1 \in 1..Len(array)
      BY <2>3
    <3>. QED
      BY <1>2, <2>4, <3>1 DEF AllFit
  <2>7. AllFit(kind, rows, Append(out, Head(array)))
    BY <1>2, <1>3, <2>3, <2>5, AllFitAppend
  <2>8. AllFit(kind, rows, out')
    BY <1>2, <2>1, <2>7
  <2>9. st' \in {"sending", "done"}
    BY <1>6 DEF processAdvance
  <2>. QED
    BY <1>1, <2>1, <2>6, <2>8, <2>9 DEF Room
<1>. QED
  BY <1>4, <1>5, <1>6

LEMMA RestRoom ==
    ASSUME st' \in {"idle", "refused"}, array' = << >>, out' = << >>
    PROVE  Room'
BY NoRows DEF Room

LEMMA NextRoom == Inv /\ Room /\ [Next]_vars => Room'
<1>. SUFFICES ASSUME Inv, Room, [Next]_vars PROVE Room'
  OBVIOUS
<1>1. ASSUME NEW n \in 0..MaxRows, NEW rs \in [1..n -> Row], Ask(rs) PROVE Room'
  BY <1>1, AskOpens, OpenRoom, OpenMultiRoom
<1>2. ASSUME NEW r \in Row, hdl_get_chan_dtl_req(r) PROVE Room'
  BY <1>2, DetailOpens, OpenRoom
<1>3. ASSUME NEW k \in Kinds, Refuse(k) PROVE Room'
  BY <1>3, RestRoom DEF Refuse
<1>4. CASE Collect \/ SendChunk \/ EnqFails
  BY <1>4, SplitRoom
<1>5. CASE Step
  BY <1>5, StepRoom
<1>6. CASE StepFails \/ StepsDone \/ processAdvance
  BY <1>6, AdvanceRoom
<1>7. CASE Finish
  BY <1>7, RestRoom DEF Finish
<1>8. CASE UNCHANGED vars
  BY <1>8 DEF vars, Room
<1>. QED
  BY <1>1, <1>2, <1>3, <1>4, <1>5, <1>6, <1>7, <1>8 DEF Next

\* No response of the get_* handlers holds more than MAX_CONTENT_LEN, for any
\* sizes and any number of rows, except where the code measures too little or a
\* single row is larger, as Fits lists; a get_multi_* response is closed by the
\* row that makes it full.
THEOREM ResponsesFit == Spec => []Fits
<1>1. Init => Room
  BY NoRows DEF Init, Room
<1>2. Room => Fits
  BY FitsIsAllFit DEF Room
<1>. QED
  BY <1>1, <1>2, NextRoom, Invariant, PTL DEF Spec
=============================================================================
