--------------------------- MODULE Listing_proofs ---------------------------
(***************************************************************************)
(* Proofs about Listing, for any number of rows and any time: the client   *)
(* that synchronises misses no change, and the one that pages gets every   *)
(* row once.                                                               *)
(***************************************************************************)
EXTENDS Listing, FunctionTheorems, FiniteSetTheorems, SequenceTheorems, TLAPS

Shown(id) == object = "comment" \/ tab[id].upd = tab[id].chg

\* What the synchronising client lacks was updated no earlier than the newest
\* update it knows, which is not in the future
Known ==
    /\ mark <= now
    /\ \A id \in stale \cap Listed : Shown(id) => tab[id].upd >= mark

\* Where the paging client stands: what it has is below the next id it asks for,
\* in ascending order, and what it lacks is not
Read ==
    /\ page.goal \subseteq Listed
    /\ \A j, k \in DOMAIN page.got : j < k => page.got[j] < page.got[k]
    /\ \A k \in DOMAIN page.got : page.got[k] < page.cur
    /\ \A id \in page.goal :
          (\E k \in DOMAIN page.got : page.got[k] = id) \/ (page.on /\ id >= page.cur)

Inv == TypeOK /\ Known /\ Read

-----------------------------------------------------------------------------
(* The answers to a query.                                                 *)

Queries == [by : {"ID", "UPD_AT"}, lower : Nat, upper : Nat, maxcnt : Nat]

\* The rows are numbered from 1 to their number, and are rows.
LEMMA Rows ==
    ASSUME TypeOK
    PROVE  /\ Len(tab) \in Nat /\ Len(tab) <= MaxIds /\ MaxIds \in Nat
           /\ DOMAIN tab = 1..Len(tab)
           /\ \A id \in DOMAIN tab : tab[id] \in Row
           /\ Listed \subseteq DOMAIN tab
           /\ DOMAIN tab \subseteq Ids
           /\ stale \subseteq DOMAIN tab
           /\ \A id \in DOMAIN tab : tab[id].crt <= tab[id].upd /\ tab[id].upd <= now
<1>1. tab \in Seq(Row) /\ Len(tab) <= MaxIds /\ stale \subseteq DOMAIN tab
      /\ \A id \in DOMAIN tab : tab[id].crt <= tab[id].upd /\ tab[id].upd <= now
  BY DEF TypeOK
<1>2. Len(tab) \in Nat /\ DOMAIN tab = 1..Len(tab) /\ tab \in [1..Len(tab) -> Row]
  BY <1>1, LenProperties
<1>3. MaxIds \in Nat
  BY ListingAssumption
<1>4. Listed \subseteq DOMAIN tab
  BY DEF Listed
<1>5. DOMAIN tab \subseteq Ids
  BY <1>1, <1>2, <1>3 DEF Ids
<1>. QED
  BY <1>1, <1>2, <1>3, <1>4, <1>5

\* The matching rows are finitely many.
LEMMA MatchingFinite ==
    ASSUME TypeOK, NEW q
    PROVE  /\ Matching(q) \subseteq Listed
           /\ IsFiniteSet(Matching(q))
           /\ Cardinality(Matching(q)) \in Nat
<1>1. Matching(q) \subseteq Listed
  BY DEF Matching
<1>2. Matching(q) \in SUBSET (1..Len(tab)) /\ Len(tab) \in Nat
  BY <1>1, Rows
<1>3. IsFiniteSet(1..Len(tab))
  BY <1>2, FS_Interval
<1>4. IsFiniteSet(Matching(q))
  BY <1>2, <1>3, FS_Subset
<1>. QED
  BY <1>1, <1>4, FS_CardinalityType

\* An answer is a sequence of matching rows, and has all of them unless it is as
\* long as the limit.
LEMMA Answer ==
    ASSUME TypeOK, NEW q \in Queries, NEW s \in Select(q)
    PROVE  /\ s \in Seq(Matching(q))
           /\ Len(s) = Count(q) /\ Count(q) \in Nat
           /\ DOMAIN s = 1..Count(q)
           /\ \A k \in 1..Count(q) : s[k] \in Matching(q)
           /\ \A j, k \in 1..Count(q) : j < k => s[j] # s[k] /\ Before(s[j], s[k], q.by)
           /\ \A k \in 1..Count(q), id \in Matching(q) :
                 (\A j \in 1..Count(q) : s[j] # id) => Before(s[k], id, q.by)
           /\ q.maxcnt = 0 \/ Count(q) < q.maxcnt =>
                 \A id \in Matching(q) : \E k \in 1..Count(q) : s[k] = id
<1>. DEFINE M == Matching(q)
            n == Count(q)
<1>1. s \in [1..n -> M]
      /\ (\A j, k \in DOMAIN s : j < k => s[j] # s[k] /\ Before(s[j], s[k], q.by))
      /\ \A k \in DOMAIN s, id \in M : (\A j \in DOMAIN s : s[j] # id) => Before(s[k], id, q.by)
  BY DEF Select
<1>2. Cardinality(M) \in Nat /\ IsFiniteSet(M) /\ q.maxcnt \in Nat
  BY MatchingFinite DEF Queries
<1>3. n \in Nat /\ (q.maxcnt = 0 \/ n < q.maxcnt => n = Cardinality(M))
  BY <1>2 DEF Count, Smaller
<1>. HIDE DEF M, n
<1>4. s \in Seq(M) /\ Len(s) = n /\ DOMAIN s = 1..n
  BY <1>1, <1>3
<1>5. ASSUME n = Cardinality(M), NEW id \in M
      PROVE  \E k \in 1..n : s[k] = id
  <2>1. \A j, k \in 1..n : j # k => s[j] # s[k]
    BY <1>1, <1>3, <1>4
  <2>2. s \in Injection(1..n, M)
    BY <1>1, <2>1 DEF Injection, IsInjective
  <2>3. Cardinality(1..n) = n
    BY <1>3, FS_Interval
  <2>4. s \in Surjection(1..n, M)
    BY <1>2, <1>5, <2>2, <2>3, FS_Injection
  <2>. QED
    BY <2>4 DEF Surjection
<1>6. /\ \A k \in 1..n : s[k] \in M
      /\ \A j, k \in 1..n : j < k => s[j] # s[k] /\ Before(s[j], s[k], q.by)
      /\ \A k \in 1..n, id \in M : (\A j \in 1..n : s[j] # id) => Before(s[k], id, q.by)
  BY <1>1, <1>4
<1>. QED
  BY <1>3, <1>4, <1>5, <1>6 DEF M, n

-----------------------------------------------------------------------------
(* Changes of the rows.                                                    *)

\* A row that a request leaves in place of row id.  The status of a post changes
\* without its updated_at; everything else that changes sets it.
Follows(id, r, t) ==
    /\ r \in Row
    /\ r.crt = tab[id].crt
    /\ object = "post" => r.stat \in {"available", "deleted"}
    /\ \/ r.upd = now
       \/ /\ object = "post"
          /\ r.upd = tab[id].upd
          /\ \/ r.chg = now
             \/ r.chg = tab[id].chg /\ r.stat = tab[id].stat /\ t = stale
    /\ stale \subseteq t /\ t \subseteq stale \cup {id}

\* What the six requests on a row write.
LEMMA RowChanges ==
    ASSUME Inv, NEW id \in DOMAIN tab,
           \/ Edit(id)
           \/ hdl_del_post_req(id) \/ hdl_notify_post_req(id)
           \/ hdl_del_cmt_req(id) \/ hdl_block_cmt_req(id) \/ hdl_unblock_cmt_req(id)
    PROVE  \E r : /\ Follows(id, r, stale')
                  /\ tab' = [tab EXCEPT ![id] = r]
                  /\ UNCHANGED <<object, now, mark, page>>
<1>. DEFINE old == tab[id]
<1>1. old \in Row /\ now \in Times /\ object \in {"post", "comment"}
  BY Rows, ListingAssumption DEF Inv, TypeOK
<1>2. CASE Edit(id)
  BY <1>1, <1>2 DEF Edit, Put, Updated, Follows, Row
<1>3. CASE hdl_del_post_req(id)
  <2>. DEFINE r == db_set_post_status(old, "deleted")
  <2>1. tab' = [tab EXCEPT ![id] = r] /\ UNCHANGED <<object, now, mark, page>>
        /\ object = "post" /\ old.stat = "available" /\ stale' = stale \cup {id}
    BY <1>3 DEF hdl_del_post_req, Put
  <2>2. r \in Row /\ r.crt = old.crt /\ r.upd = old.upd /\ r.stat = "deleted"
        /\ (old.stat = "available" => r.chg = now)
    BY <1>1 DEF db_set_post_status, Row
  <2>. HIDE DEF r
  <2>3. Follows(id, r, stale')
    BY <2>1, <2>2 DEF Follows
  <2>. QED
    BY <2>1, <2>3
<1>4. CASE hdl_notify_post_req(id)
  <2>. DEFINE r == db_set_post_status(old, "available")
  <2>1. tab' = [tab EXCEPT ![id] = r] /\ UNCHANGED <<object, now, mark, page>>
    BY <1>4 DEF hdl_notify_post_req, Put
  <2>2. r \in Row /\ r.crt = old.crt /\ r.upd = old.upd /\ r.stat = "available"
        /\ (old.stat # "available" => r.chg = now)
        /\ (old.stat = "available" => r.chg = old.chg)
    BY <1>1 DEF db_set_post_status, Row
  <2>3. object = "post" /\ stale' = IF old.stat = "declared" THEN stale \cup {id} ELSE stale
    BY <1>4 DEF hdl_notify_post_req, Put
  <2>. HIDE DEF r
  <2>4. Follows(id, r, stale')
    BY <2>2, <2>3 DEF Follows
  <2>. QED
    BY <2>1, <2>4
<1>5. CASE hdl_del_cmt_req(id)
  BY <1>1, <1>5 DEF hdl_del_cmt_req, db_set_cmt_status, Put, Follows, Row
<1>6. CASE hdl_block_cmt_req(id)
  BY <1>1, <1>6 DEF hdl_block_cmt_req, db_set_cmt_status, Put, Follows, Row
<1>7. CASE hdl_unblock_cmt_req(id)
  BY <1>1, <1>7 DEF hdl_unblock_cmt_req, db_set_cmt_status, Put, Follows, Row
<1>. QED
  BY <1>2, <1>3, <1>4, <1>5, <1>6, <1>7

\* A listed row stays listed, and such a change keeps the invariant.
LEMMA Changed ==
    ASSUME Inv, NEW id \in DOMAIN tab, NEW r,
           Follows(id, r, stale'), tab' = [tab EXCEPT ![id] = r],
           UNCHANGED <<object, now, mark, page>>
    PROVE  Inv'
<1>1. tab \in Seq(Row) /\ id \in 1..Len(tab) /\ r \in Row
  BY Rows DEF Inv, TypeOK, Follows
<1>2. /\ tab' \in Seq(Row) /\ Len(tab') = Len(tab)
      /\ \A j \in 1..Len(tab) : tab'[j] = IF j = id THEN r ELSE tab[j]
  BY <1>1, ExceptSeq
<1>3. DOMAIN tab' = 1..Len(tab') /\ DOMAIN tab = 1..Len(tab)
  BY <1>1, <1>2, LenProperties
<1>4. /\ now \in Nat /\ mark \in Nat /\ mark <= now
      /\ r.crt <= now /\ r.crt \in Nat /\ r.upd \in Nat /\ r.chg \in Nat
      /\ tab[id].upd \in Nat /\ tab[id].upd <= now /\ tab[id].crt <= tab[id].upd
  <2>1. now \in Nat /\ mark \in Nat /\ mark <= now
    BY ListingAssumption DEF Inv, TypeOK, Known, Times
  <2>2. tab[id] \in Row /\ tab[id].crt <= tab[id].upd /\ tab[id].upd <= now
    BY Rows DEF Inv
  <2>3. \A x \in Row : x.crt \in Nat /\ x.upd \in Nat /\ x.chg \in Nat
    BY ListingAssumption DEF Row, Times
  <2>. QED
    BY <1>1, <2>1, <2>2, <2>3 DEF Follows
<1>5. TypeOK'
  <2>1. \A j \in DOMAIN tab' : tab'[j].crt <= tab'[j].upd /\ tab'[j].upd <= now
    BY <1>2, <1>3, <1>4 DEF Inv, TypeOK, Follows
  <2>2. stale' \subseteq DOMAIN tab'
    BY <1>2, <1>3 DEF Inv, TypeOK, Follows
  <2>. QED
    BY <1>2, <2>1, <2>2 DEF Inv, TypeOK
<1>6. Listed \subseteq Listed'
  BY <1>2, <1>3 DEF Listed, Follows
<1>7. Known'
  <2>. SUFFICES ASSUME NEW j \in stale' \cap Listed', Shown(j)'
                PROVE  tab'[j].upd >= mark
    BY <1>4 DEF Known
  <2>1. CASE j # id
    BY <1>2, <1>3, <2>1 DEF Inv, Known, Shown, Listed, Follows
  <2>2. CASE j = id /\ r.upd = now
    BY <1>2, <1>3, <1>4, <2>2 DEF Listed
  <2>3. CASE j = id /\ r.upd # now
    <3>1. object = "post" /\ r.upd = r.chg /\ tab'[j].upd = r.upd
      BY <1>2, <1>3, <2>3 DEF Shown, Follows, Listed
    <3>2. r.upd = tab[id].upd /\ r.chg = tab[id].chg /\ r.stat = tab[id].stat /\ stale' = stale
      BY <2>3, <3>1 DEF Follows
    <3>3. id \in stale \cap Listed /\ Shown(id)
      BY <2>3, <3>1, <3>2, <1>2, <1>3 DEF Shown, Listed
    <3>. QED
      BY <3>1, <3>2, <3>3 DEF Inv, Known
  <2>. QED
    BY <2>1, <2>2, <2>3
<1>8. Read'
  BY <1>6 DEF Inv, Read
<1>. QED
  BY <1>5, <1>7, <1>8 DEF Inv

\* A new row is listed after all others.
LEMMA Added ==
    ASSUME Inv, NEW stat \in {"available", "declared"}, Add(stat)
    PROVE  Inv'
<1>. DEFINE r == [stat |-> stat, crt |-> now, upd |-> now, chg |-> now]
<1>1. tab \in Seq(Row) /\ now \in Times /\ r \in Row
  BY DEF Inv, TypeOK, Row
<1>2. tab' = Append(tab, r) /\ Len(tab) < MaxIds /\ stale' = stale \cup {Len(tab) + 1}
      /\ UNCHANGED <<object, now, mark, page>>
  BY DEF Add
<1>3. r.crt = now /\ r.upd = now
  OBVIOUS
<1>. HIDE DEF r
<1>4. /\ tab' \in Seq(Row) /\ Len(tab') = Len(tab) + 1
      /\ \A j \in 1..Len(tab) : tab'[j] = tab[j]
      /\ tab'[Len(tab) + 1] = r
  BY <1>1, <1>2, AppendProperties
<1>5. DOMAIN tab' = 1..Len(tab') /\ DOMAIN tab = 1..Len(tab) /\ Len(tab) \in Nat
  BY <1>1, <1>4, LenProperties
<1>6. now \in Nat /\ mark \in Nat /\ mark <= now /\ MaxIds \in Nat
  BY ListingAssumption DEF Inv, TypeOK, Known, Times
<1>7. TypeOK'
  <2>1. \A j \in DOMAIN tab' : tab'[j].crt <= tab'[j].upd /\ tab'[j].upd <= now
    BY <1>3, <1>4, <1>5, <1>6 DEF Inv, TypeOK
  <2>2. stale' \subseteq DOMAIN tab'
    BY <1>2, <1>4, <1>5 DEF Inv, TypeOK
  <2>. QED
    BY <1>2, <1>4, <1>5, <1>6, <2>1, <2>2 DEF Inv, TypeOK
<1>8. Listed \subseteq Listed'
  BY <1>2, <1>4, <1>5 DEF Listed
<1>9. Known'
  <2>. SUFFICES ASSUME NEW j \in stale' \cap Listed', Shown(j)'
                PROVE  tab'[j].upd >= mark
    BY <1>2, <1>6 DEF Known
  <2>1. CASE j = Len(tab) + 1
    BY <1>3, <1>4, <1>6, <2>1
  <2>2. CASE j # Len(tab) + 1
    <3>1. j \in stale /\ j \in 1..Len(tab) /\ tab'[j] = tab[j]
      BY <1>2, <1>4, <1>5, <2>2 DEF Inv, TypeOK
    <3>2. j \in Listed /\ Shown(j)
      BY <1>2, <1>5, <3>1 DEF Listed, Shown
    <3>. QED
      BY <3>1, <3>2 DEF Inv, Known
  <2>. QED
    BY <2>1, <2>2
<1>10. Read'
  BY <1>2, <1>8 DEF Inv, Read
<1>. QED
  BY <1>7, <1>9, <1>10 DEF Inv

-----------------------------------------------------------------------------
(* The two clients.                                                        *)

\* What is new to the client matches its query, and the answer has all of it.
LEMMA InNextAnswer ==
    ASSUME Inv, NEW upper \in {0, now}, NEW id \in stale \cap Listed, Shown(id)
    PROVE  id \in Matching(SinceMark(upper))
<1>1. tab[id].upd >= mark /\ tab[id].upd <= now
  BY Rows DEF Inv, Known
<1>. QED
  BY <1>1 DEF Matching, SinceMark, query_column, AtLeast, AtMost

LEMMA Synchronised ==
    ASSUME Inv, NEW upper \in {0, now}, Sync(upper)
    PROVE  Inv'
<1>. DEFINE q == SinceMark(upper)
<1>1. PICK s \in Select(q) :
        /\ stale' = stale \ {s[k] : k \in DOMAIN s}
        /\ mark' = IF s = << >> THEN mark ELSE tab[s[1]].upd
        /\ UNCHANGED <<object, tab, now, page>>
  BY DEF Sync
<1>2. now \in Times /\ mark \in Times /\ mark \in Nat /\ now \in Nat /\ mark <= now
  BY ListingAssumption DEF Inv, TypeOK, Known, Times
<1>3. q \in Queries /\ q.maxcnt = 0
  BY <1>2 DEF SinceMark, Queries
<1>4. \A id \in stale \cap Listed : Shown(id) => id \in Matching(q)
  BY InNextAnswer
<1>. HIDE DEF q
<1>5. /\ s \in Seq(Matching(q)) /\ DOMAIN s = 1..Count(q) /\ Len(s) = Count(q) /\ Count(q) \in Nat
      /\ \A k \in 1..Count(q) : s[k] \in Matching(q)
      /\ \A id \in Matching(q) : \E k \in 1..Count(q) : s[k] = id
  BY <1>3, Answer DEF Inv
<1>6. \A id \in stale' \cap Listed : ~Shown(id)
  BY <1>1, <1>4, <1>5
<1>7. mark' \in Times /\ mark' <= now
  <2>1. CASE s = << >>
    BY <1>1, <1>2, <2>1
  <2>2. CASE s # << >>
    <3>1. s[1] \in DOMAIN tab
      BY <1>5, <2>2, MatchingFinite, Rows DEF Inv
    <3>. QED
      BY <1>1, <2>2, <3>1, Rows DEF Inv, Row
  <2>. QED
    BY <2>1, <2>2
<1>8. Known'
  BY <1>1, <1>6, <1>7 DEF Known, Shown, Listed
<1>9. TypeOK'
  BY <1>1, <1>7 DEF Inv, TypeOK
<1>10. Read'
  BY <1>1 DEF Inv, Read, Listed
<1>. QED
  BY <1>8, <1>9, <1>10 DEF Inv

LEMMA Started ==
    ASSUME Inv, PageStart
    PROVE  Inv'
<1>1. page' = [on |-> TRUE, cur |-> 0, got |-> << >>, goal |-> Listed]
      /\ UNCHANGED <<object, tab, now, mark, stale>>
  BY DEF PageStart
<1>2. Listed \subseteq Ids /\ \A id \in Listed : id >= 0
  BY Rows DEF Inv, Ids
<1>3. << >> \in Seq(Ids) /\ DOMAIN << >> = {}
  BY EmptySeq
<1>4. page' \in Paging
  BY <1>1, <1>2, <1>3 DEF Paging
<1>5. Read'
  BY <1>1, <1>2, <1>3 DEF Read, Listed
<1>. QED
  BY <1>1, <1>4, <1>5 DEF Inv, TypeOK, Known, Shown, Listed

\* A page goes on where the last one ended.  What it passes over was not listed
\* when the client started, for ids ascend; a page that is not full has the rest.
LEMMA Paged ==
    ASSUME Inv, NEW n \in 1..2, PageNext(n)
    PROVE  Inv'
<1>. DEFINE q == [by |-> "ID", lower |-> page.cur, upper |-> 0, maxcnt |-> n]
            M == Matching(q)
            c == Count(q)
<1>1. PICK s \in Select(q) :
        page' = [page EXCEPT !.on = (Len(s) = n),
                             !.cur = IF s = << >> THEN @ ELSE s[Len(s)] + 1,
                             !.got = @ \o s]
  BY DEF PageNext
<1>2. UNCHANGED <<object, tab, now, mark, stale>> /\ page.on
  BY DEF PageNext
<1>3. page \in Paging /\ page.cur \in Nat /\ page.got \in Seq(Ids) /\ page.goal \subseteq Ids
  BY DEF Inv, TypeOK, Paging
<1>4. q \in Queries
  BY <1>3 DEF Queries
<1>5. \A id : id \in M <=> id \in Listed /\ (page.cur # 0 => id >= page.cur)
  BY <1>3 DEF Matching, query_column, AtLeast, AtMost
<1>6. /\ M \subseteq Listed /\ Listed \subseteq Ids /\ Ids \subseteq Nat
      /\ \A id \in M : id \in Nat
  BY <1>5, Rows DEF Inv, Ids
<1>7. \A id \in M : id >= page.cur
  <2>. TAKE id \in M
  <2>. HIDE DEF M
  <2>1. id \in Nat /\ (page.cur # 0 => id >= page.cur)
    BY <1>5, <1>6
  <2>. QED
    BY <1>3, <2>1
<1>8. \A id \in Listed : id >= page.cur => id \in M
  BY <1>5
<1>9. /\ s \in Seq(M) /\ Len(s) = c /\ c \in Nat /\ DOMAIN s = 1..c
      /\ \A k \in 1..c : s[k] \in M
      /\ \A j, k \in 1..c : j < k => s[j] # s[k] /\ Before(s[j], s[k], "ID")
      /\ \A k \in 1..c, id \in M : (\A j \in 1..c : s[j] # id) => Before(s[k], id, "ID")
      /\ c < n => \A id \in M : \E k \in 1..c : s[k] = id
  BY <1>4, Answer DEF Inv
<1>10. c <= n
  BY <1>4, MatchingFinite DEF Inv, Count, Smaller
<1>. HIDE DEF q, M, c
<1>11. \A j, k \in 1..c : j < k => s[j] < s[k]
  <2>. TAKE j, k \in 1..c
  <2>. HAVE j < k
  <2>1. s[j] \in Nat /\ s[k] \in Nat /\ s[j] # s[k] /\ s[j] <= s[k]
    BY <1>6, <1>9 DEF Before
  <2>. QED
    BY <2>1
<1>12. \A k \in 1..c, id \in M : (\A j \in 1..c : s[j] # id) => s[k] < id
  <2>. TAKE k \in 1..c, id \in M
  <2>. HAVE \A j \in 1..c : s[j] # id
  <2>1. s[k] \in Nat /\ id \in Nat /\ s[k] # id /\ s[k] <= id
    BY <1>6, <1>9 DEF Before
  <2>. QED
    BY <2>1
<1>. DEFINE g == page.got
            m == Len(g)
            cur == IF s = << >> THEN page.cur ELSE s[Len(s)] + 1
<1>13. page'.on = (c = n) /\ page'.cur = cur /\ page'.got = g \o s /\ page'.goal = page.goal
  BY <1>1, <1>3, <1>9 DEF Paging
<1>14. s \in Seq(Ids) /\ m \in Nat /\ DOMAIN g = 1..m /\ \A k \in 1..m : g[k] \in Ids
  <2>1. M \subseteq Ids
    BY <1>6
  <2>2. s \in Seq(Ids)
    BY <1>9, <2>1, SeqMonotonic
  <2>3. m \in Nat /\ DOMAIN g = 1..m /\ g \in [1..m -> Ids]
    BY <1>3, LenProperties
  <2>. QED
    BY <2>2, <2>3
<1>15. /\ g \o s \in Seq(Ids) /\ Len(g \o s) = m + c
       /\ \A k \in 1..(m + c) : (g \o s)[k] = IF k <= m THEN g[k] ELSE s[k - m]
  <2>1. g \in Seq(Ids) /\ s \in Seq(Ids) /\ Len(s) = c
    BY <1>3, <1>9, <1>14
  <2>. HIDE DEF g
  <2>. QED
    BY <2>1, ConcatProperties
<1>16. DOMAIN (g \o s) = 1..(m + c)
  BY <1>15, LenProperties
<1>17. cur \in Nat /\ cur >= page.cur /\ \A k \in 1..c : s[k] < cur
  <2>1. CASE s = << >>
    BY <1>3, <1>9, <2>1
  <2>2. CASE s # << >>
    <3>1. c \in 1..c
      BY <1>9, <2>2
    <3>2. s[c] \in Nat /\ s[c] >= page.cur
      BY <1>6, <1>7, <1>9, <3>1
    <3>3. \A k \in 1..c : s[k] \in Nat /\ s[k] <= s[c]
      <4>. TAKE k \in 1..c
      <4>1. s[k] \in Nat
        BY <1>6, <1>9
      <4>2. k < c => s[k] < s[c]
        BY <1>11, <3>1
      <4>3. k < c \/ k = c
        BY <1>9
      <4>. QED
        BY <3>2, <4>1, <4>2, <4>3
    <3>. QED
      BY <1>3, <1>9, <2>2, <3>2, <3>3
  <2>. QED
    BY <2>1, <2>2
<1>18. \A k \in 1..m : g[k] \in Nat /\ g[k] < page.cur
  BY <1>6, <1>14 DEF Inv, Read
<1>19. \A j, k \in 1..m : j < k => g[j] < g[k]
  BY <1>14 DEF Inv, Read
<1>20. \A id \in page.goal : (\E k \in 1..m : g[k] = id) \/ id >= page.cur
  BY <1>14 DEF Inv, Read
<1>21. \A k \in 1..c : s[k] \in Nat /\ s[k] >= page.cur
  BY <1>6, <1>7, <1>9
<1>22. page' \in Paging
  <2>1. (c = n) \in BOOLEAN
    OBVIOUS
  <2>. QED
    BY <1>1, <1>3, <1>9, <1>15, <1>17, <2>1 DEF Paging
<1>. HIDE DEF g, m, cur
<1>23. \A k \in 1..(m + c) : (g \o s)[k] < cur
  <2>. TAKE k \in 1..(m + c)
  <2>1. CASE k <= m
    BY <1>3, <1>14, <1>15, <1>17, <1>18, <2>1
  <2>2. CASE k > m
    BY <1>9, <1>14, <1>15, <1>17, <2>2
  <2>. QED
    BY <1>9, <1>14, <2>1, <2>2
<1>24. \A j, k \in 1..(m + c) : j < k => (g \o s)[j] < (g \o s)[k]
  <2>. TAKE j, k \in 1..(m + c)
  <2>. HAVE j < k
  <2>1. CASE k <= m
    BY <1>14, <1>9, <1>15, <1>19, <2>1
  <2>2. CASE j <= m /\ k > m
    <3>1. k - m \in 1..c /\ j \in 1..m
      BY <1>9, <1>14, <2>2
    <3>2. g[j] < page.cur /\ g[j] \in Nat /\ s[k - m] >= page.cur /\ s[k - m] \in Nat
      BY <1>18, <1>21, <3>1
    <3>. QED
      BY <1>3, <1>9, <1>14, <1>15, <2>2, <3>2
  <2>3. CASE j > m
    BY <1>9, <1>11, <1>14, <1>15, <2>3
  <2>. QED
    BY <1>9, <1>14, <2>1, <2>2, <2>3
<1>25. ASSUME NEW id \in page.goal
       PROVE  (\E k \in 1..(m + c) : (g \o s)[k] = id) \/ (c = n /\ id >= cur)
  <2>1. CASE \E k \in 1..m : g[k] = id
    BY <1>9, <1>14, <1>15, <2>1
  <2>2. CASE \E k \in 1..c : s[k] = id
    <3>1. PICK k \in 1..c : s[k] = id
      BY <2>2
    <3>2. m + k \in 1..(m + c) /\ ~(m + k <= m) /\ (m + k) - m = k
      BY <1>9, <1>14
    <3>. QED
      BY <1>15, <3>1, <3>2
  <2>3. CASE id >= page.cur /\ \A k \in 1..c : s[k] # id
    <3>1. id \in M /\ id \in Nat
      BY <1>6, <1>8, <2>3 DEF Inv, Read
    <3>2. c = n
      BY <1>9, <1>10, <2>3, <3>1
    <3>3. s # << >> /\ c \in 1..c
      BY <1>9, <3>2
    <3>4. s[c] < id /\ s[c] \in Nat
      BY <1>6, <1>9, <1>12, <2>3, <3>1, <3>3
    <3>. QED
      BY <1>9, <3>1, <3>2, <3>3, <3>4 DEF cur
  <2>. QED
    BY <1>20, <2>1, <2>2, <2>3
<1>26. Read'
  <2>1. page'.goal \subseteq Listed'
    BY <1>2, <1>13 DEF Inv, Read, Listed
  <2>. QED
    BY <1>13, <1>16, <1>23, <1>24, <1>25, <2>1 DEF Read
<1>. QED
  BY <1>2, <1>22, <1>26 DEF Inv, TypeOK, Known, Shown, Listed

-----------------------------------------------------------------------------
(* The invariant holds at the start and in every step.                     *)

LEMMA InitInv == Init => Inv
<1>. SUFFICES ASSUME Init PROVE Inv
  OBVIOUS
<1>1. << >> \in Seq(Row) /\ << >> \in Seq(Ids) /\ Len(<< >>) = 0 /\ DOMAIN << >> = {}
  BY EmptySeq
<1>2. TypeOK
  BY <1>1, ListingAssumption DEF Init, TypeOK, Times, Paging
<1>3. Known /\ Read
  BY <1>1 DEF Init, Known, Read
<1>. QED
  BY <1>2, <1>3 DEF Inv

LEMMA NextInv == Inv /\ [Next]_vars => Inv'
<1>. SUFFICES ASSUME Inv, [Next]_vars PROVE Inv'
  OBVIOUS
<1>1. CASE Tick
  <2>1. now' = now + 1 /\ now < MaxTime /\ UNCHANGED <<object, tab, mark, stale, page>>
    BY <1>1 DEF Tick
  <2>2. now \in Nat /\ mark \in Nat /\ MaxTime \in Nat /\ mark <= now
    BY ListingAssumption DEF Inv, TypeOK, Known, Times
  <2>3. \A id \in DOMAIN tab : tab[id].upd \in Nat
    BY Rows, ListingAssumption DEF Inv, Row, Times
  <2>4. TypeOK'
    BY <2>1, <2>2, <2>3 DEF Inv, TypeOK, Times
  <2>5. Known'
    BY <2>1, <2>2 DEF Inv, Known, Shown, Listed
  <2>6. Read'
    BY <2>1 DEF Inv, Read, Listed
  <2>. QED
    BY <2>4, <2>5, <2>6 DEF Inv
<1>2. CASE Add("available") \/ (object = "post" /\ Add("declared"))
  BY <1>2, Added
<1>3. ASSUME NEW id \in DOMAIN tab,
             \/ Edit(id)
             \/ hdl_del_post_req(id) \/ hdl_notify_post_req(id)
             \/ hdl_del_cmt_req(id) \/ hdl_block_cmt_req(id) \/ hdl_unblock_cmt_req(id)
      PROVE  Inv'
  BY <1>3, RowChanges, Changed
<1>4. ASSUME NEW upper \in {0, now}, Sync(upper) PROVE Inv'
  BY <1>4, Synchronised
<1>5. CASE PageStart
  BY <1>5, Started
<1>6. ASSUME NEW n \in 1..2, PageNext(n) PROVE Inv'
  BY <1>6, Paged
<1>7. CASE UNCHANGED vars
  BY <1>7 DEF vars, Inv, TypeOK, Known, Read, Shown, Listed
<1>. QED
  BY <1>1, <1>2, <1>3, <1>4, <1>5, <1>6, <1>7 DEF Next

\* The invariant: the types of Listing, and where the two clients of
\* db_iter_posts and db_iter_cmts stand.
THEOREM Invariant == Spec => []Inv
BY InitInv, NextInv, PTL DEF Spec

\* A client that asks db_iter_posts or db_iter_cmts for what was updated since
\* the newest update it knows misses no row, for any number of rows and changes,
\* except posts whose status changed without their updated_at.
THEOREM NoChangeMissed == Spec => []NothingMissed
<1>1. Inv => NothingMissed
  BY InNextAnswer DEF NothingMissed, Shown
<1>. QED
  BY <1>1, Invariant, PTL

\* A client that pages through db_iter_posts or db_iter_cmts by id gets every row
\* that was listed when it started, once and in ascending order, for any number
\* of rows and whatever changes between the pages.
THEOREM EveryPageRead == Spec => []PagesAll
<1>1. Inv => PagesAll
  BY DEF Inv, Read, PagesAll
<1>. QED
  BY <1>1, Invariant, PTL
=============================================================================
