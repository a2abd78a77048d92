---------------------------- MODULE Feeds_proofs ----------------------------
(***************************************************************************)
(* Proofs about Feeds, for any users, names and limits: the cache of the   *)
(* channels is what a restart would load, ids have no gaps, counters are   *)
(* right, no row refers to a missing one, and which requests bring deleted *)
(* rows back or close a ring of replies.                                   *)
(***************************************************************************)
EXTENDS Feeds, FiniteSetTheorems, TLAPS

\* The name of a channel that exists is a name
Named == \A c \in 1..nchans : chan[c].name \in Names

\* A channel that does not exist yet has no posts
Unused == \A c \in Chans : c > nchans => chan[c].next_post_id = 1

SubersOf(c) == {u \in Users : <<u, c>> \in subs}
LikersOf(c, p, k) == {u \in Users : <<u, <<c, p, k>>>> \in likes}

\* LikesCounted by channel, post and comment
Liked ==
    /\ \A c \in Chans, p \in PostIds :
           post[c, p].likes = Cardinality(LikersOf(c, p, 0))
    /\ \A c \in Chans, p \in PostIds, k \in CmtIds \ {0} :
           cmt[c, p, k].likes = Cardinality(LikersOf(c, p, k))

\* NoDangling, one reference after the other
Refers ==
    /\ \A u \in Users, c \in Chans, p \in PostIds :
           <<u, <<c, p, 0>>>> \in likes => db_post_exists(c, p)
    /\ \A u \in Users, c \in Chans, p \in PostIds, k \in CmtIds \ {0} :
           <<u, <<c, p, k>>>> \in likes \cup reported => db_cmt_exists(c, p, k)
    /\ \A c \in Chans, p \in PostIds, k \in CmtIds :
           db_cmt_exists(c, p, k) => db_post_exists(c, p)
    /\ \A c \in Chans, p \in PostIds, k \in CmtIds, r \in CmtIds \ {0} :
           db_cmt_exists(c, p, k) /\ cmt[c, p, k].ref = r => db_cmt_exists(c, p, r)
    /\ \A u \in Users, c \in Chans : <<u, c>> \in subs => c \in 1..nchans

IInv ==
    /\ TypeOK /\ CacheMatchesDb /\ Named /\ Unused /\ SubsCounted
    /\ IdsDense /\ Refers /\ Liked

-----------------------------------------------------------------------------
LEMMA Consts ==
    /\ MaxFeeds \in Nat /\ MaxPost \in Nat /\ MaxCmt \in Nat
    /\ Owner \in Users /\ NoName \notin Names
BY FeedsAssumption

LEMMA LikedIsCounted ==
    ASSUME TypeOK
    PROVE  Liked <=> LikesCounted
<1>1. ASSUME Liked, NEW x \in CmtKeys
      PROVE  (IF x[3] = 0 THEN post[x[1], x[2]].likes ELSE cmt[x].likes)
                 = Cardinality({u \in Users : <<u, x>> \in likes})
  <2>1. PICK c \in Chans, p \in PostIds, k \in CmtIds : x = <<c, p, k>>
    BY <1>1 DEF CmtKeys
  <2>2. {u \in Users : <<u, x>> \in likes} = LikersOf(c, p, k)
    BY <2>1 DEF LikersOf
  <2>. QED
    BY <1>1, <2>1, <2>2 DEF Liked
<1>2. ASSUME LikesCounted
      PROVE  Liked
  <2>1. ASSUME NEW c \in Chans, NEW p \in PostIds, NEW k \in CmtIds
        PROVE  (IF k = 0 THEN post[c, p].likes ELSE cmt[c, p, k].likes) = Cardinality(LikersOf(c, p, k))
    <3>1. <<c, p, k>> \in CmtKeys
      BY DEF CmtKeys
    <3>. QED
      BY <1>2, <3>1 DEF LikesCounted, LikersOf
  <2>2. 0 \in CmtIds
    BY Consts DEF CmtIds
  <2>. QED
    BY <2>1, <2>2 DEF Liked
<1>. QED
  BY <1>1, <1>2 DEF LikesCounted

LEMMA Replied ==
    ASSUME Refers, NEW c \in Chans, NEW p \in PostIds, NEW k \in CmtIds, NEW r \in CmtIds \ {0},
           db_cmt_exists(c, p, k), cmt[c, p, k].ref = r
    PROVE  db_cmt_exists(c, p, r)
<1>1. \A m \in CmtIds, q \in CmtIds \ {0} :
        db_cmt_exists(c, p, m) /\ cmt[c, p, m].ref = q => db_cmt_exists(c, p, q)
  BY DEF Refers
<1>. QED
  BY <1>1

LEMMA LikedExists ==
    ASSUME Refers, NEW u \in Users, NEW c \in Chans, NEW p \in PostIds, NEW k \in CmtIds,
           <<u, <<c, p, k>>>> \in likes
    PROVE  IF k = 0 THEN db_post_exists(c, p) ELSE db_cmt_exists(c, p, k)
<1>1. CASE k = 0
  <2>1. <<u, <<c, p, 0>>>> \in likes => db_post_exists(c, p)
    BY DEF Refers
  <2>. QED
    BY <1>1, <2>1
<1>2. CASE k # 0
  <2>1. \A m \in CmtIds \ {0} : <<u, <<c, p, m>>>> \in likes \cup reported => db_cmt_exists(c, p, m)
    BY DEF Refers
  <2>. QED
    BY <1>2, <2>1
<1>. QED
  BY <1>1, <1>2

LEMMA RefersIsNoDangling ==
    ASSUME TypeOK, Refers
    PROVE  NoDangling
<1>1. \A c \in Chans, p \in PostIds, k \in CmtIds : cmt[c, p, k].ref \in CmtIds
  BY DEF TypeOK, CmtKeys, Cmt
<1>2. \A u \in Users, c \in Chans, p \in PostIds, k \in CmtIds :
        /\ <<u, <<c, p, k>>>> \in likes =>
               IF k = 0 THEN db_post_exists(c, p) ELSE db_cmt_exists(c, p, k)
        /\ <<u, <<c, p, k>>>> \in reported /\ k # 0 => db_cmt_exists(c, p, k)
  BY DEF Refers
<1>3. \A c \in Chans, p \in PostIds, k \in CmtIds :
        db_cmt_exists(c, p, k) =>
            /\ db_post_exists(c, p)
            /\ cmt[c, p, k].ref # 0 => db_cmt_exists(c, p, cmt[c, p, k].ref)
  <2>1. ASSUME NEW c \in Chans, NEW p \in PostIds, NEW k \in CmtIds, db_cmt_exists(c, p, k),
               cmt[c, p, k].ref # 0
        PROVE  db_cmt_exists(c, p, cmt[c, p, k].ref)
    <3>1. PICK r \in CmtIds : r # 0 /\ cmt[c, p, k].ref = r
      BY <1>1, <2>1
    <3>2. db_cmt_exists(c, p, r)
      BY <2>1, <3>1, Replied
    <3>. QED
      BY <3>1, <3>2
  <2>. QED
    BY <2>1 DEF Refers
<1>. QED
  BY <1>2, <1>3 DEF Refers, NoDangling

\* A new element of a set of users adds one, an old one takes one away
LEMMA Counting ==
    ASSUME NEW S \in SUBSET Users, NEW u \in Users
    PROVE  /\ Cardinality(S) \in Int
           /\ u \notin S => Cardinality(S \cup {u}) = Cardinality(S) + 1
           /\ u \in S => Cardinality(S \ {u}) = Cardinality(S) - 1
<1>1. IsFiniteSet(S)
  BY FeedsAssumption, FS_Subset
<1>. QED
  BY <1>1, FS_AddElement, FS_RemoveElement, FS_CardinalityType

-----------------------------------------------------------------------------
(* One row of a table is replaced *)

LEMMA PostRow ==
    ASSUME TypeOK, NEW c \in Chans, NEW p \in PostIds, NEW new \in Post,
           post' = [post EXCEPT ![<<c, p>>] = new]
    PROVE  /\ post' \in [PostKeys -> Post]
           /\ post'[c, p] = new
           /\ \A d \in Chans, q \in PostIds : d # c \/ q # p => post'[d, q] = post[d, q]
<1>1. post \in [PostKeys -> Post] /\ <<c, p>> \in PostKeys
  BY DEF TypeOK, PostKeys
<1>2. \A d \in Chans, q \in PostIds : <<d, q>> \in PostKeys
  BY DEF PostKeys
<1>3. \A d, q : <<d, q>> = <<c, p>> => d = c /\ q = p
  OBVIOUS
<1>. QED
  BY <1>1, <1>2, <1>3

LEMMA CmtRow ==
    ASSUME TypeOK, NEW c \in Chans, NEW p \in PostIds, NEW k \in CmtIds, NEW new \in Cmt,
           cmt' = [cmt EXCEPT ![<<c, p, k>>] = new]
    PROVE  /\ cmt' \in [CmtKeys -> Cmt]
           /\ cmt'[c, p, k] = new
           /\ \A d \in Chans, q \in PostIds, m \in CmtIds :
                 d # c \/ q # p \/ m # k => cmt'[d, q, m] = cmt[d, q, m]
<1>1. cmt \in [CmtKeys -> Cmt] /\ <<c, p, k>> \in CmtKeys
  BY DEF TypeOK, CmtKeys
<1>2. \A d \in Chans, q \in PostIds, m \in CmtIds : <<d, q, m>> \in CmtKeys
  BY DEF CmtKeys
<1>3. \A d, q, m : <<d, q, m>> = <<c, p, k>> => d = c /\ q = p /\ m = k
  OBVIOUS
<1>. QED
  BY <1>1, <1>2, <1>3

\* What the rows are
LEMMA Rows ==
    ASSUME TypeOK
    PROVE  /\ \A c \in Chans, p \in PostIds : post[c, p] \in Post
           /\ \A c \in Chans, p \in PostIds, k \in CmtIds : cmt[c, p, k] \in Cmt
BY DEF TypeOK, PostKeys, CmtKeys

\* Posts, comments and likes change: the channels stay as they are
LEMMA BodyStep ==
    ASSUME IInv, UNCHANGED <<memVars, chanVars, subs>>,
           daemon' \in {"up", "aborted"},
           post' \in [PostKeys -> Post], cmt' \in [CmtKeys -> Cmt],
           likes' \in SUBSET (Users \X CmtKeys), reported' \in SUBSET (Users \X CmtKeys),
           IdsDense', Refers', Liked'
    PROVE  IInv'
<1>1. TypeOK'
  BY DEF IInv, TypeOK, memVars, chanVars
<1>2. CacheMatchesDb' /\ Named' /\ Unused'
  BY DEF IInv, CacheMatchesDb, Named, Unused, memVars, chanVars
<1>3. SubsCounted'
  BY DEF IInv, SubsCounted, memVars, chanVars
<1>. QED
  BY <1>1, <1>2, <1>3 DEF IInv

\* A post that exists goes on to exist with its counters
LEMMA PostKept ==
    ASSUME IInv, NEW c \in Chans, NEW p \in PostIds, NEW new \in Post,
           post' = [post EXCEPT ![<<c, p>>] = new],
           db_post_exists(c, p), new.stat # "none",
           new.next_comment_id = post[c, p].next_comment_id, new.likes = post[c, p].likes,
           UNCHANGED <<daemon, memVars, chanVars, subs, cmt, likes, reported>>
    PROVE  IInv'
<1>1. /\ post' \in [PostKeys -> Post]
      /\ post'[c, p] = new
      /\ \A d \in Chans, q \in PostIds : d # c \/ q # p => post'[d, q] = post[d, q]
  BY PostRow DEF IInv
<1>2. \A d \in Chans, q \in PostIds :
         /\ post'[d, q].next_comment_id = post[d, q].next_comment_id
         /\ post'[d, q].likes = post[d, q].likes
         /\ db_post_exists(d, q)' <=> db_post_exists(d, q)
  BY <1>1 DEF db_post_exists
<1>3. chan' = chan /\ nchans' = nchans /\ cmt' = cmt /\ likes' = likes
  BY DEF chanVars
<1>4. \A d \in Chans, q \in PostIds, m \in CmtIds : db_cmt_exists(d, q, m)' <=> db_cmt_exists(d, q, m)
  BY <1>3 DEF db_cmt_exists
<1>5. IdsDense'
  BY <1>2, <1>3, <1>4 DEF IInv, IdsDense
<1>6. Refers'
  <2>1. /\ likes' = likes /\ reported' = reported /\ cmt' = cmt /\ subs' = subs
        /\ nchans' = nchans /\ Refers
    BY DEF IInv, chanVars
  <2>. QED
    BY <1>2, <1>4, <2>1 DEF Refers
<1>7. Liked'
  <2>1. \A d, q, m : LikersOf(d, q, m)' = LikersOf(d, q, m)
    BY <1>3 DEF LikersOf
  <2>2. Liked
    BY DEF IInv
  <2>. QED
    BY <1>2, <1>3, <2>1, <2>2 DEF Liked
<1>. QED
  BY <1>1, <1>5, <1>6, <1>7, BodyStep DEF IInv, TypeOK

\* A comment that exists goes on to exist with its likes, whatever becomes of
\* its status, and refers to a comment of the post
LEMMA CmtKept ==
    ASSUME IInv, NEW c \in Chans, NEW p \in PostIds, NEW k \in CmtIds, NEW new \in Cmt,
           cmt' = [cmt EXCEPT ![<<c, p, k>>] = new],
           db_cmt_exists(c, p, k), new.stat # "none", RefOk(c, p, new.ref),
           new.likes = cmt[c, p, k].likes, daemon' \in {"up", "aborted"},
           UNCHANGED <<memVars, chanVars, subs, post, likes, reported>>
    PROVE  IInv'
<1>1. /\ cmt' \in [CmtKeys -> Cmt]
      /\ cmt'[c, p, k] = new
      /\ \A d \in Chans, q \in PostIds, m \in CmtIds :
            d # c \/ q # p \/ m # k => cmt'[d, q, m] = cmt[d, q, m]
  BY CmtRow DEF IInv
<1>2. \A d \in Chans, q \in PostIds, m \in CmtIds :
         /\ cmt'[d, q, m].likes = cmt[d, q, m].likes
         /\ db_cmt_exists(d, q, m)' <=> db_cmt_exists(d, q, m)
         /\ \A r \in CmtIds \ {0} : db_cmt_exists(d, q, m) /\ cmt'[d, q, m].ref = r => db_cmt_exists(d, q, r)
  <2>1. SUFFICES ASSUME NEW d \in Chans, NEW q \in PostIds, NEW m \in CmtIds
                 PROVE  /\ cmt'[d, q, m].likes = cmt[d, q, m].likes
                        /\ db_cmt_exists(d, q, m)' <=> db_cmt_exists(d, q, m)
                        /\ \A r \in CmtIds \ {0} : db_cmt_exists(d, q, m) /\ cmt'[d, q, m].ref = r => db_cmt_exists(d, q, r)
    OBVIOUS
  <2>2. CASE d = c /\ q = p /\ m = k
    <3>1. \A r \in CmtIds \ {0} : cmt'[d, q, m].ref = r => db_cmt_exists(d, q, r)
      BY <1>1, <2>2 DEF RefOk
    <3>. QED
      BY <1>1, <2>2, <3>1 DEF db_cmt_exists
  <2>3. CASE ~(d = c /\ q = p /\ m = k)
    <3>1. cmt'[d, q, m] = cmt[d, q, m]
      BY <1>1, <2>3
    <3>2. \A r \in CmtIds \ {0} : db_cmt_exists(d, q, m) /\ cmt[d, q, m].ref = r => db_cmt_exists(d, q, r)
      BY DEF IInv, Refers
    <3>. QED
      BY <3>1, <3>2 DEF db_cmt_exists
  <2>. QED
    BY <2>2, <2>3
<1>3. chan' = chan /\ nchans' = nchans /\ post' = post /\ likes' = likes
  BY DEF chanVars
<1>4. \A d \in Chans, q \in PostIds : db_post_exists(d, q)' <=> db_post_exists(d, q)
  BY <1>3 DEF db_post_exists
<1>5. IdsDense'
  BY <1>2, <1>3, <1>4 DEF IInv, IdsDense
<1>6. Refers'
  <2>1. /\ likes' = likes /\ reported' = reported /\ subs' = subs
        /\ nchans' = nchans /\ Refers
    BY DEF IInv, chanVars
  <2>. QED
    BY <1>2, <1>4, <2>1 DEF Refers
<1>7. Liked'
  <2>1. \A d, q, m : LikersOf(d, q, m)' = LikersOf(d, q, m)
    BY <1>3 DEF LikersOf
  <2>2. Liked
    BY DEF IInv
  <2>. QED
    <3>1. SUFFICES ASSUME NEW d \in Chans, NEW q \in PostIds, NEW m \in CmtIds \ {0}
                   PROVE  cmt'[d, q, m].likes = Cardinality(LikersOf(d, q, m))
      BY <1>3, <2>1, <2>2 DEF Liked
    <3>2. cmt'[d, q, m].likes = cmt[d, q, m].likes
      BY <1>2
    <3>. QED
      BY <2>2, <3>2 DEF Liked
<1>. QED
  BY <1>1, <1>5, <1>6, <1>7, BodyStep DEF IInv, TypeOK

-----------------------------------------------------------------------------
(* The handlers that change posts, comments, likes and reports *)

\* hdl_notify_post_req and hdl_del_post_req
LEMMA StatusOfPost ==
    ASSUME IInv, NEW u \in Users, NEW c \in Chans, NEW p \in PostIds,
           NotifyPost(u, c, p) \/ DelPost(u, c, p)
    PROVE  IInv'
<1>1. PICK stat \in {"available", "deleted"} : db_set_post_status(c, p, stat)
  BY DEF NotifyPost, DelPost
<1>2. db_post_exists(c, p) /\ UNCHANGED <<daemon, memVars, chanVars, subs, cmt, likes, reported>>
  BY DEF NotifyPost, DelPost, Notifiable, db_post_is_avail, db_post_exists
<1>. DEFINE new == [post[c, p] EXCEPT !.stat = stat]
<1>3. post' = [post EXCEPT ![<<c, p>>] = new]
  BY <1>1 DEF db_set_post_status
<1>4. post[c, p] \in Post
  BY Rows DEF IInv
<1>5. /\ new \in Post /\ new.stat # "none"
      /\ new.next_comment_id = post[c, p].next_comment_id /\ new.likes = post[c, p].likes
  BY <1>4 DEF Post
<1>. HIDE DEF new
<1>. QED
  BY <1>2, <1>3, <1>5, PostKept

\* hdl_edit_cmt_req
LEMMA EditOfCmt ==
    ASSUME IInv, NEW u \in Users, NEW c \in Chans, NEW p \in PostIds, NEW k \in CmtIds,
           NEW r \in CmtIds, EditCmt(u, c, p, k, r)
    PROVE  IInv'
<1>1. /\ db_cmt_exists(c, p, k) /\ RefOk(c, p, r) /\ daemon' \in {"up", "aborted"}
      /\ UNCHANGED <<memVars, chanVars, subs, post, likes, reported>>
  BY DEF EditCmt, db_cmt_is_avail, db_cmt_exists
<1>. DEFINE new == [cmt[c, p, k] EXCEPT !.ref = r]
<1>2. cmt' = [cmt EXCEPT ![<<c, p, k>>] = new]
  BY DEF EditCmt, db_upd_cmt
<1>3. cmt[c, p, k] \in Cmt
  BY Rows DEF IInv
<1>4. /\ new \in Cmt /\ new.stat # "none" /\ new.ref = r /\ new.likes = cmt[c, p, k].likes
  BY <1>1, <1>3 DEF Cmt, db_cmt_exists
<1>. HIDE DEF new
<1>. QED
  BY <1>1, <1>2, <1>4, CmtKept

\* hdl_del_cmt_req, hdl_block_cmt_req and hdl_unblock_cmt_req
LEMMA StatusOfCmt ==
    ASSUME IInv, NEW u \in Users, NEW c \in Chans, NEW p \in PostIds, NEW k \in CmtIds,
           \/ DelCmt(u, c, p, k)
           \/ \E watched \in BOOLEAN : BlockCmt(u, c, p, k, watched)
           \/ UnblockCmt(u, c, p, k)
    PROVE  IInv'
<1>1. /\ db_cmt_exists(c, p, k) /\ daemon' \in {"up", "aborted"}
      /\ UNCHANGED <<memVars, chanVars, subs, post, likes, reported>>
  BY DEF DelCmt, BlockCmt, UnblockCmt, db_cmt_is_avail, db_cmt_exists
<1>2. PICK stat \in {"available", "deleted", "blocked"} : db_set_cmt_status(c, p, k, stat)
  BY DEF DelCmt, BlockCmt, UnblockCmt
<1>. DEFINE new == [cmt[c, p, k] EXCEPT !.stat = stat]
<1>3. cmt' = [cmt EXCEPT ![<<c, p, k>>] = new]
  BY <1>2 DEF db_set_cmt_status
<1>4. cmt[c, p, k] \in Cmt
  BY Rows DEF IInv
<1>5. /\ new \in Cmt /\ new.stat # "none" /\ new.ref = cmt[c, p, k].ref
      /\ new.likes = cmt[c, p, k].likes
  BY <1>4 DEF Cmt
<1>6. RefOk(c, p, cmt[c, p, k].ref)
  BY <1>1, RefersIsNoDangling DEF IInv, NoDangling, RefOk
<1>. HIDE DEF new
<1>7. RefOk(c, p, new.ref)
  BY <1>5, <1>6
<1>. QED
  BY <1>1, <1>3, <1>5, <1>7, CmtKept

\* hdl_get_cmts_req, and hdl_report_illegal_cmt_req, whose RefOk is what makes
\* a report one of a comment that exists
LEMMA OtherOfCmt ==
    ASSUME IInv, NEW u \in Users, NEW c \in Chans, NEW p \in PostIds, NEW k \in CmtIds,
           GetCmtsAborts(c, p, k) \/ ReportIllegalCmt(u, c, p, k)
    PROVE  IInv'
<1>1. /\ UNCHANGED <<memVars, chanVars, subs, post, cmt, likes>> /\ daemon' \in {"up", "aborted"}
      /\ \/ reported' = reported
         \/ RefOk(c, p, k) /\ reported' = reported \cup {<<u, <<c, p, k>>>>}
  BY DEF GetCmtsAborts, ReportIllegalCmt, db_add_reported_cmts, bodyVars
<1>2. /\ chan' = chan /\ nchans' = nchans /\ subs' = subs /\ post' = post /\ cmt' = cmt /\ likes' = likes
  BY <1>1 DEF chanVars
<1>3. reported' \in SUBSET (Users \X CmtKeys)
  BY <1>1 DEF IInv, TypeOK, CmtKeys
<1>4. IdsDense'
  BY <1>2 DEF IInv, IdsDense, db_post_exists, db_cmt_exists
<1>5. Refers'
  <2>1. \A v \in Users, d \in Chans, q \in PostIds, m \in CmtIds \ {0} :
          <<v, <<d, q, m>>>> \in reported' => <<v, <<d, q, m>>>> \in reported \/ db_cmt_exists(d, q, m)
    BY <1>1 DEF RefOk
  <2>. QED
    BY <1>2, <2>1 DEF IInv, Refers, db_post_exists, db_cmt_exists
<1>6. Liked'
  <2>1. \A d, q, m : LikersOf(d, q, m)' = LikersOf(d, q, m)
    BY <1>2 DEF LikersOf
  <2>. QED
    BY <1>2, <2>1 DEF IInv, Liked
<1>. QED
  BY <1>1, <1>2, <1>3, <1>4, <1>5, <1>6, BodyStep DEF IInv, TypeOK

\* hdl_post_cmt_req: the comment takes the next id of its post, which no like
\* and no reply knows yet
LEMMA NewCmt ==
    ASSUME IInv, NEW u \in Users, NEW c \in Chans, NEW p \in PostIds, NEW r \in CmtIds,
           PostCmt(u, c, p, r)
    PROVE  IInv'
<1>. DEFINE k == post[c, p].next_comment_id
            newCmt == [stat |-> "available", uid |-> u, ref |-> r, likes |-> 0]
            newPost == [post[c, p] EXCEPT !.next_comment_id = k + 1]
<1>1. /\ db_post_exists(c, p) /\ k <= MaxCmt /\ ~db_cmt_exists(c, p, k) /\ RefOk(c, p, r)
      /\ cmt' = [cmt EXCEPT ![<<c, p, k>>] = newCmt]
      /\ post' = [post EXCEPT ![<<c, p>>] = newPost]
  BY DEF PostCmt, db_add_cmt
<1>2. UNCHANGED <<daemon, memVars, chanVars, subs, likes, reported>>
  BY DEF PostCmt
<1>3. post[c, p] \in Post
  BY Rows DEF IInv
<1>4. PICK n \in 1..MaxCmt + 1 : n = k /\ n <= MaxCmt
  BY <1>1, <1>3 DEF Post
<1>5. /\ n \in CmtIds \ {0} /\ n \in Nat /\ n + 1 \in 1..MaxCmt + 1
      /\ \A m \in CmtIds : m \in 1..((n + 1) - 1) <=> (m \in 1..(n - 1) \/ m = n)
  <2>1. n <= MaxCmt
    BY <1>4
  <2>. QED
    BY <2>1, Consts DEF CmtIds
<1>6. newCmt \in Cmt /\ newCmt.stat # "none" /\ newCmt.ref = r /\ newCmt.likes = 0
  BY DEF Cmt
<1>7. /\ newPost \in Post /\ newPost.stat = post[c, p].stat
      /\ newPost.likes = post[c, p].likes /\ newPost.next_comment_id = n + 1
  BY <1>3, <1>4, <1>5 DEF Post
<1>. HIDE DEF newCmt, newPost
<1>8. /\ cmt' = [cmt EXCEPT ![<<c, p, n>>] = newCmt] /\ ~db_cmt_exists(c, p, n)
      /\ post[c, p].next_comment_id = n
  BY <1>1, <1>4
<1>. HIDE DEF k
<1>9. /\ cmt' \in [CmtKeys -> Cmt]
      /\ cmt'[c, p, n] = newCmt
      /\ \A d \in Chans, q \in PostIds, m \in CmtIds :
            d # c \/ q # p \/ m # n => cmt'[d, q, m] = cmt[d, q, m]
  <2>1. TypeOK /\ n \in CmtIds /\ newCmt \in Cmt
    BY <1>5, <1>6 DEF IInv
  <2>2. cmt' = [cmt EXCEPT ![<<c, p, n>>] = newCmt]
    BY <1>8
  <2>. QED
    BY <2>1, <2>2, CmtRow
<1>10. /\ post' \in [PostKeys -> Post]
      /\ post'[c, p] = newPost
      /\ \A d \in Chans, q \in PostIds : d # c \/ q # p => post'[d, q] = post[d, q]
  BY <1>1, <1>7, PostRow DEF IInv
<1>11. /\ chan' = chan /\ nchans' = nchans /\ subs' = subs /\ likes' = likes /\ reported' = reported
  BY <1>2 DEF chanVars
<1>12. \A d \in Chans, q \in PostIds :
          /\ db_post_exists(d, q)' <=> db_post_exists(d, q)
          /\ post'[d, q].likes = post[d, q].likes
  BY <1>7, <1>10 DEF db_post_exists
<1>13. \A d \in Chans, q \in PostIds, m \in CmtIds :
          db_cmt_exists(d, q, m)' <=> (db_cmt_exists(d, q, m) \/ (d = c /\ q = p /\ m = n))
  <2>1. SUFFICES ASSUME NEW d \in Chans, NEW q \in PostIds, NEW m \in CmtIds
                 PROVE  db_cmt_exists(d, q, m)' <=>
                           (db_cmt_exists(d, q, m) \/ (d = c /\ q = p /\ m = n))
    OBVIOUS
  <2>2. CASE d = c /\ q = p /\ m = n
    BY <1>6, <1>9, <2>2 DEF db_cmt_exists
  <2>3. CASE ~(d = c /\ q = p /\ m = n)
    <3>1. cmt'[d, q, m] = cmt[d, q, m]
      BY <1>9, <2>3
    <3>. QED
      BY <2>3, <3>1 DEF db_cmt_exists
  <2>. QED
    BY <2>2, <2>3
<1>14. IdsDense'
  <2>1. \A d \in Chans, q \in PostIds :
          db_post_exists(d, q)' <=> q \in 1..chan'[d].next_post_id - 1
    BY <1>11, <1>12 DEF IInv, IdsDense
  <2>2. ASSUME NEW d \in Chans, NEW q \in PostIds, NEW m \in CmtIds
        PROVE  db_cmt_exists(d, q, m)' <=> m \in 1..post'[d, q].next_comment_id - 1
    <3>0. db_cmt_exists(d, q, m) <=> m \in 1..post[d, q].next_comment_id - 1
      BY DEF IInv, IdsDense
    <3>1. CASE d = c /\ q = p
      <4>1. post'[d, q].next_comment_id = n + 1 /\ post[d, q].next_comment_id = n /\ n \in Nat
        BY <1>5, <1>7, <1>8, <1>10, <3>1
      <4>2. db_cmt_exists(d, q, m)' <=> (m \in 1..(n - 1) \/ m = n)
        BY <1>13, <3>0, <3>1, <4>1
      <4>. QED
        BY <1>5, <4>1, <4>2
    <3>2. CASE ~(d = c /\ q = p)
      BY <1>10, <1>13, <3>0, <3>2
    <3>. QED
      BY <3>1, <3>2
  <2>. QED
    BY <2>1, <2>2 DEF IdsDense
<1>15. Refers'
  <2>1. ASSUME NEW d \in Chans, NEW q \in PostIds, NEW m \in CmtIds, NEW s \in CmtIds \ {0},
               db_cmt_exists(d, q, m)', cmt'[d, q, m].ref = s
        PROVE  db_cmt_exists(d, q, s)'
    <3>1. CASE d = c /\ q = p /\ m = n
      <4>1. s = r
        BY <1>6, <1>9, <2>1, <3>1
      <4>. QED
        BY <1>1, <1>13, <3>1, <4>1 DEF RefOk
    <3>2. CASE ~(d = c /\ q = p /\ m = n)
      <4>1. db_cmt_exists(d, q, m) /\ cmt[d, q, m].ref = s
        BY <1>9, <1>13, <2>1, <3>2
      <4>2. db_cmt_exists(d, q, s)
        BY <4>1, Replied DEF IInv
      <4>. QED
        BY <1>13, <4>2
    <3>. QED
      BY <3>1, <3>2
  <2>2. \A d \in Chans, q \in PostIds, m \in CmtIds : db_cmt_exists(d, q, m)' => db_post_exists(d, q)'
    <3>1. \A d \in Chans, q \in PostIds, m \in CmtIds : db_cmt_exists(d, q, m) => db_post_exists(d, q)
      BY DEF IInv, Refers
    <3>. QED
      BY <1>1, <1>12, <1>13, <3>1
  <2>. QED
    BY <1>11, <1>12, <1>13, <2>1, <2>2 DEF IInv, Refers
<1>16. Liked'
  <2>1. \A d, q, m : LikersOf(d, q, m)' = LikersOf(d, q, m)
    BY <1>11 DEF LikersOf
  <2>2. LikersOf(c, p, n) = {}
    <3>1. ASSUME NEW v \in Users, <<v, <<c, p, n>>>> \in likes
          PROVE  FALSE
      BY <1>5, <1>8, <3>1, LikedExists DEF IInv
    <3>. QED
      BY <3>1 DEF LikersOf
  <2>3. ASSUME NEW d \in Chans, NEW q \in PostIds, NEW m \in CmtIds \ {0}
        PROVE  cmt'[d, q, m].likes = Cardinality(LikersOf(d, q, m))
    <3>1. CASE d = c /\ q = p /\ m = n
      BY <1>6, <1>9, <2>2, <3>1, FS_EmptySet
    <3>2. CASE ~(d = c /\ q = p /\ m = n)
      BY <1>9, <3>2 DEF IInv, Liked
    <3>. QED
      BY <3>1, <3>2
  <2>. QED
    BY <1>12, <2>1, <2>3 DEF IInv, Liked
<1>. QED
  BY <1>2, <1>9, <1>10, <1>11, <1>14, <1>15, <1>16, BodyStep DEF IInv, TypeOK

LEMMA MovedPost ==
    ASSUME NEW row \in Post, NEW by \in Int
    PROVE  LET new == [row EXCEPT !.likes = row.likes + by] IN
           /\ new \in Post /\ new.stat = row.stat
           /\ new.next_comment_id = row.next_comment_id /\ new.likes = row.likes + by
<1>1. row.likes + by \in Int
  BY DEF Post
<1>. QED
  BY <1>1 DEF Post

LEMMA MovedCmt ==
    ASSUME NEW row \in Cmt, NEW by \in Int
    PROVE  LET new == [row EXCEPT !.likes = row.likes + by] IN
           /\ new \in Cmt /\ new.stat = row.stat
           /\ new.ref = row.ref /\ new.likes = row.likes + by
<1>1. row.likes + by \in Int
  BY DEF Cmt
<1>. QED
  BY <1>1 DEF Cmt

LEMMA CountedCmt ==
    ASSUME TypeOK, NEW c \in Chans, NEW p \in PostIds, NEW k \in CmtIds, NEW by \in Int,
           CountLike(c, p, k, by)
    PROVE  /\ cmt' \in [CmtKeys -> Cmt]
           /\ \A d \in Chans, q \in PostIds, m \in CmtIds :
                 /\ cmt'[d, q, m].stat = cmt[d, q, m].stat
                 /\ cmt'[d, q, m].ref = cmt[d, q, m].ref
                 /\ d # c \/ q # p \/ m # k \/ k = 0 => cmt'[d, q, m].likes = cmt[d, q, m].likes
           /\ k # 0 => cmt'[c, p, k].likes = cmt[c, p, k].likes + by
<1>0. cmt[c, p, k] \in Cmt
  BY Rows
<1>1. CASE k # 0
  <2>1. cmt' = [cmt EXCEPT ![<<c, p, k>>] = [cmt[c, p, k] EXCEPT !.likes = cmt[c, p, k].likes + by]]
    BY <1>1 DEF CountLike
  <2>2. PICK new \in Cmt :
          /\ cmt' = [cmt EXCEPT ![<<c, p, k>>] = new] /\ new.stat = cmt[c, p, k].stat
          /\ new.ref = cmt[c, p, k].ref /\ new.likes = cmt[c, p, k].likes + by
    BY <1>0, <2>1, MovedCmt
  <2>3. /\ cmt' \in [CmtKeys -> Cmt] /\ cmt'[c, p, k] = new
        /\ \A d \in Chans, q \in PostIds, m \in CmtIds :
              d # c \/ q # p \/ m # k => cmt'[d, q, m] = cmt[d, q, m]
    <3>1. cmt' = [cmt EXCEPT ![<<c, p, k>>] = new]
      BY <2>2
    <3>2. cmt' \in [CmtKeys -> Cmt]
      BY <3>1, CmtRow
    <3>3. cmt'[c, p, k] = new
      BY <3>1 DEF TypeOK, CmtKeys
    <3>4. \A d \in Chans, q \in PostIds, m \in CmtIds :
              d # c \/ q # p \/ m # k => cmt'[d, q, m] = cmt[d, q, m]
      BY <3>1, CmtRow
    <3>. QED
      BY <3>2, <3>3, <3>4
  <2>. QED
    BY <1>1, <2>2, <2>3
<1>2. CASE k = 0
  <2>1. cmt' = cmt
    BY <1>2 DEF CountLike
  <2>. QED
    BY <1>2, <2>1 DEF TypeOK
<1>. QED
  BY <1>1, <1>2

\* The likes and the counter of one post or comment move together
LEMMA Counted ==
    ASSUME IInv, NEW c \in Chans, NEW p \in PostIds, NEW k \in CmtIds, NEW by \in Int,
           CountLike(c, p, k, by), likes' \in SUBSET (Users \X CmtKeys),
           IF k = 0 THEN db_post_exists(c, p) ELSE db_cmt_exists(c, p, k),
           \A v \in Users, d \in Chans, q \in PostIds, m \in CmtIds :
               <<v, <<d, q, m>>>> \in likes' => <<v, <<d, q, m>>>> \in likes \/ (d = c /\ q = p /\ m = k),
           \A d \in Chans, q \in PostIds, m \in CmtIds :
               d # c \/ q # p \/ m # k => LikersOf(d, q, m)' = LikersOf(d, q, m),
           Cardinality(LikersOf(c, p, k)') = Cardinality(LikersOf(c, p, k)) + by,
           UNCHANGED <<daemon, memVars, chanVars, subs, reported>>
    PROVE  IInv'
<1>1. TypeOK /\ post[c, p] \in Post /\ cmt[c, p, k] \in Cmt /\ Liked
  BY Rows DEF IInv
<1>2. /\ post' \in [PostKeys -> Post]
      /\ \A d \in Chans, q \in PostIds :
            /\ post'[d, q].stat = post[d, q].stat
            /\ post'[d, q].next_comment_id = post[d, q].next_comment_id
            /\ d # c \/ q # p \/ k # 0 => post'[d, q].likes = post[d, q].likes
      /\ k = 0 => post'[c, p].likes = post[c, p].likes + by
  <2>1. CASE k = 0
    <3>. DEFINE new == [post[c, p] EXCEPT !.likes = post[c, p].likes + by]
    <3>1. post' = [post EXCEPT ![<<c, p>>] = new]
      BY <2>1 DEF CountLike
    <3>2. /\ new \in Post /\ new.stat = post[c, p].stat
          /\ new.next_comment_id = post[c, p].next_comment_id /\ new.likes = post[c, p].likes + by
      BY <1>1, MovedPost
    <3>. HIDE DEF new
    <3>3. /\ post' \in [PostKeys -> Post] /\ post'[c, p] = new
          /\ \A d \in Chans, q \in PostIds : d # c \/ q # p => post'[d, q] = post[d, q]
      BY <1>1, <3>1, <3>2, PostRow
    <3>. QED
      BY <2>1, <3>2, <3>3
  <2>2. CASE k # 0
    <3>1. post' = post
      BY <2>2 DEF CountLike
    <3>. QED
      BY <1>1, <2>2, <3>1 DEF TypeOK
  <2>. QED
    BY <2>1, <2>2
<1>3. /\ cmt' \in [CmtKeys -> Cmt]
      /\ \A d \in Chans, q \in PostIds, m \in CmtIds :
            /\ cmt'[d, q, m].stat = cmt[d, q, m].stat
            /\ cmt'[d, q, m].ref = cmt[d, q, m].ref
            /\ d # c \/ q # p \/ m # k \/ k = 0 => cmt'[d, q, m].likes = cmt[d, q, m].likes
      /\ k # 0 => cmt'[c, p, k].likes = cmt[c, p, k].likes + by
  BY <1>1, CountedCmt
<1>4. /\ chan' = chan /\ nchans' = nchans /\ subs' = subs /\ reported' = reported
  BY DEF chanVars
<1>5. \A d \in Chans, q \in PostIds : db_post_exists(d, q)' <=> db_post_exists(d, q)
  BY <1>2 DEF db_post_exists
<1>6. \A d \in Chans, q \in PostIds, m \in CmtIds : db_cmt_exists(d, q, m)' <=> db_cmt_exists(d, q, m)
  BY <1>3 DEF db_cmt_exists
<1>7. IdsDense'
  <2>1. IdsDense
    BY DEF IInv
  <2>. QED
    BY <1>2, <1>4, <1>5, <1>6, <2>1 DEF IdsDense
<1>8. Refers'
  <2>1. Refers
    BY DEF IInv
  <2>2. ASSUME NEW v \in Users, NEW d \in Chans, NEW q \in PostIds, NEW m \in CmtIds,
               <<v, <<d, q, m>>>> \in likes'
        PROVE  IF m = 0 THEN db_post_exists(d, q) ELSE db_cmt_exists(d, q, m)
    <3>1. CASE <<v, <<d, q, m>>>> \in likes
      BY <2>1, <3>1, LikedExists
    <3>2. CASE d = c /\ q = p /\ m = k
      BY <3>2
    <3>. QED
      BY <2>2, <3>1, <3>2
  <2>3. 0 \in CmtIds
    BY Consts DEF CmtIds
  <2>4. /\ \A v \in Users, d \in Chans, q \in PostIds :
              <<v, <<d, q, 0>>>> \in likes' => db_post_exists(d, q)'
        /\ \A v \in Users, d \in Chans, q \in PostIds, m \in CmtIds \ {0} :
              <<v, <<d, q, m>>>> \in likes' => db_cmt_exists(d, q, m)'
    BY <1>5, <1>6, <2>2, <2>3
  <2>5. \A v \in Users, d \in Chans, q \in PostIds, m \in CmtIds \ {0} :
           <<v, <<d, q, m>>>> \in likes' \cup reported' => db_cmt_exists(d, q, m)'
    <3>1. \A v \in Users, d \in Chans, q \in PostIds, m \in CmtIds \ {0} :
             <<v, <<d, q, m>>>> \in reported => db_cmt_exists(d, q, m)
      BY <2>1 DEF Refers
    <3>. QED
      BY <1>4, <1>6, <2>4, <3>1
  <2>6. \A d \in Chans, q \in PostIds, m \in CmtIds, r \in CmtIds \ {0} :
           db_cmt_exists(d, q, m)' /\ cmt'[d, q, m].ref = r => db_cmt_exists(d, q, r)'
    <3>1. SUFFICES ASSUME NEW d \in Chans, NEW q \in PostIds, NEW m \in CmtIds, NEW r \in CmtIds \ {0},
                          db_cmt_exists(d, q, m)', cmt'[d, q, m].ref = r
                   PROVE  db_cmt_exists(d, q, r)'
      OBVIOUS
    <3>2. db_cmt_exists(d, q, m) /\ cmt[d, q, m].ref = r
      BY <1>3, <1>6, <3>1
    <3>3. db_cmt_exists(d, q, r)
      BY <2>1, <3>2, Replied
    <3>. QED
      BY <1>6, <3>3
  <2>7. \A d \in Chans, q \in PostIds, m \in CmtIds : db_cmt_exists(d, q, m)' => db_post_exists(d, q)'
    BY <1>5, <1>6, <2>1 DEF Refers
  <2>8. \A v \in Users, d \in Chans : <<v, d>> \in subs' => d \in 1..nchans'
    BY <1>4, <2>1 DEF Refers
  <2>. QED
    BY <2>4, <2>5, <2>6, <2>7, <2>8 DEF Refers
<1>9. Liked'
  <2>1. 0 \in CmtIds
    BY Consts DEF CmtIds
  <2>2. ASSUME NEW d \in Chans, NEW q \in PostIds
        PROVE  post'[d, q].likes = Cardinality(LikersOf(d, q, 0)')
    <3>1. post[d, q].likes = Cardinality(LikersOf(d, q, 0))
      BY <1>1 DEF Liked
    <3>2. CASE d = c /\ q = p /\ k = 0
      BY <1>2, <3>1, <3>2
    <3>3. CASE ~(d = c /\ q = p /\ k = 0)
      BY <1>2, <2>1, <3>1, <3>3
    <3>. QED
      BY <3>2, <3>3
  <2>3. ASSUME NEW d \in Chans, NEW q \in PostIds, NEW m \in CmtIds \ {0}
        PROVE  cmt'[d, q, m].likes = Cardinality(LikersOf(d, q, m)')
    <3>1. cmt[d, q, m].likes = Cardinality(LikersOf(d, q, m))
      BY <1>1 DEF Liked
    <3>2. CASE d = c /\ q = p /\ m = k
      BY <1>3, <3>1, <3>2
    <3>3. CASE ~(d = c /\ q = p /\ m = k)
      BY <1>3, <3>1, <3>3
    <3>. QED
      BY <3>2, <3>3
  <2>. QED
    BY <2>2, <2>3 DEF Liked
<1>. QED
  BY <1>2, <1>3, <1>4, <1>7, <1>8, <1>9, BodyStep DEF IInv, TypeOK

\* hdl_post_like_req
LEMMA Liking ==
    ASSUME IInv, NEW u \in Users, NEW c \in Chans, NEW p \in PostIds, NEW k \in CmtIds,
           PostLike(u, c, p, k)
    PROVE  IInv'
<1>1. /\ IF k = 0 THEN db_post_exists(c, p) ELSE db_cmt_exists(c, p, k)
      /\ <<u, <<c, p, k>>>> \notin likes /\ CountLike(c, p, k, 1)
      /\ likes' = likes \cup {<<u, <<c, p, k>>>>}
      /\ UNCHANGED <<daemon, memVars, chanVars, subs, reported>>
  BY DEF PostLike, db_add_like
<1>2. likes' \in SUBSET (Users \X CmtKeys)
  BY <1>1 DEF IInv, TypeOK, CmtKeys
<1>3. \A v \in Users, d \in Chans, q \in PostIds, m \in CmtIds :
        <<v, <<d, q, m>>>> \in likes' <=>
           (<<v, <<d, q, m>>>> \in likes \/ (v = u /\ d = c /\ q = p /\ m = k))
  BY <1>1
<1>4. \A d \in Chans, q \in PostIds, m \in CmtIds :
        d # c \/ q # p \/ m # k => LikersOf(d, q, m)' = LikersOf(d, q, m)
  BY <1>3 DEF LikersOf
<1>5. LikersOf(c, p, k)' = LikersOf(c, p, k) \cup {u} /\ u \notin LikersOf(c, p, k)
  BY <1>1, <1>3 DEF LikersOf
<1>6. LikersOf(c, p, k) \in SUBSET Users
  BY DEF LikersOf
<1>7. Cardinality(LikersOf(c, p, k)') = Cardinality(LikersOf(c, p, k)) + 1
  BY <1>5, <1>6, Counting
<1>. QED
  BY <1>1, <1>2, <1>3, <1>4, <1>7, Counted

\* hdl_post_unlike_req decrements without a test: the like that is there keeps
\* the counter from going below zero
LEMMA Unliking ==
    ASSUME IInv, NEW u \in Users, NEW c \in Chans, NEW p \in PostIds, NEW k \in CmtIds,
           PostUnlike(u, c, p, k)
    PROVE  IInv'
<1>1. /\ <<u, <<c, p, k>>>> \in likes /\ CountLike(c, p, k, -1)
      /\ likes' = likes \ {<<u, <<c, p, k>>>>}
      /\ UNCHANGED <<daemon, memVars, chanVars, subs, reported>>
  BY DEF PostUnlike, db_rm_like, db_like_exists
<1>2. likes' \in SUBSET (Users \X CmtKeys)
  BY <1>1 DEF IInv, TypeOK
<1>3. \A v \in Users, d \in Chans, q \in PostIds, m \in CmtIds :
        <<v, <<d, q, m>>>> \in likes' <=>
           (<<v, <<d, q, m>>>> \in likes /\ ~(v = u /\ d = c /\ q = p /\ m = k))
  BY <1>1
<1>4. \A d \in Chans, q \in PostIds, m \in CmtIds :
        d # c \/ q # p \/ m # k => LikersOf(d, q, m)' = LikersOf(d, q, m)
  BY <1>3 DEF LikersOf
<1>5. LikersOf(c, p, k)' = LikersOf(c, p, k) \ {u} /\ u \in LikersOf(c, p, k)
  BY <1>1, <1>3 DEF LikersOf
<1>6. LikersOf(c, p, k) \in SUBSET Users
  BY DEF LikersOf
<1>7. /\ Cardinality(LikersOf(c, p, k)') = Cardinality(LikersOf(c, p, k)) - 1
      /\ Cardinality(LikersOf(c, p, k)) \in Int
  BY <1>5, <1>6, Counting
<1>8. Cardinality(LikersOf(c, p, k)') = Cardinality(LikersOf(c, p, k)) + (-1)
  BY <1>7
<1>9. IF k = 0 THEN db_post_exists(c, p) ELSE db_cmt_exists(c, p, k)
  BY <1>1, LikedExists DEF IInv
<1>. QED
  BY <1>1, <1>2, <1>3, <1>4, <1>8, <1>9, Counted

-----------------------------------------------------------------------------
(* The handlers that change channels *)

\* The next channel id of the memory and of SQLite, and the channels there are
LEMMA Ids ==
    ASSUME IInv
    PROVE  /\ nchans \in Nat /\ nchans <= MaxFeeds
           /\ chans_by_id = 1..nchans /\ nxt_chan_id = nchans + 1
           /\ chans_by_id \subseteq Chans
           /\ \A c \in chans_by_id : mem[c] = chan[c] /\ chan[c].name \in Names
           /\ \A c \in Chans : chan[c] \in Chan /\ mem[c] \in Chan /\ c \in Nat /\ c # 0
<1>1. nchans \in 0..MaxFeeds /\ chans_by_id = 1..nchans /\ nxt_chan_id = nchans + 1
  BY DEF IInv, TypeOK, CacheMatchesDb
<1>2. \A c \in chans_by_id : mem[c] = chan[c] /\ chan[c].name \in Names
  BY <1>1 DEF IInv, CacheMatchesDb, Named
<1>3. \A c \in Chans : chan[c] \in Chan /\ mem[c] \in Chan
  BY DEF IInv, TypeOK
<1>4. \A c \in Chans : c \in Nat /\ c # 0
  BY Consts DEF Chans
<1>5. /\ nchans \in Nat /\ nchans <= MaxFeeds /\ 1..nchans \subseteq Chans
  BY <1>1, Consts DEF Chans
<1>. QED
  BY <1>1, <1>2, <1>3, <1>4, <1>5

\* A row of the table and of the cache is replaced by the same one, with the
\* name it had
LEMMA SameNames ==
    ASSUME IInv, NEW c \in chans_by_id, NEW new \in Chan, new.name = chan[c].name,
           chan' = [chan EXCEPT ![c] = new], mem' = [mem EXCEPT ![c] = new],
           UNCHANGED <<nxt_chan_id, chans_by_id, chans_by_name, nchans>>
    PROVE  /\ chan' \in [Chans -> Chan] /\ mem' \in [Chans -> Chan]
           /\ CacheMatchesDb' /\ Named'
           /\ chan'[c] = new /\ \A d \in Chans : d # c => chan'[d] = chan[d]
<1>1. c \in Chans /\ chans_by_id \subseteq Chans
  BY Ids
<1>2. /\ chan \in [Chans -> Chan] /\ mem \in [Chans -> Chan]
  BY DEF IInv, TypeOK
<1>3. /\ chan' \in [Chans -> Chan] /\ mem' \in [Chans -> Chan]
      /\ chan'[c] = new /\ mem'[c] = new
      /\ \A d \in Chans : d # c => chan'[d] = chan[d] /\ mem'[d] = mem[d]
  BY <1>1, <1>2
<1>4. /\ \A d \in chans_by_id : mem'[d] = chan'[d]
      /\ \A d \in Chans : chan'[d].name = chan[d].name
      /\ \A d \in chans_by_id : mem'[d].name = mem[d].name
  BY <1>1, <1>3, Ids
<1>5. CacheMatchesDb'
  <2>1. \A n \in Names, d \in Chans :
           chans_by_name[n] = d <=> d \in chans_by_id /\ mem'[d].name = n
    <3>1. \A n \in Names, d \in Chans :
             chans_by_name[n] = d <=> d \in chans_by_id /\ mem[d].name = n
      BY DEF IInv, CacheMatchesDb
    <3>. QED
      BY <1>4, <3>1
  <2>. QED
    BY <1>4, <2>1, Ids DEF CacheMatchesDb
<1>6. Named'
  <2>1. \A d \in 1..nchans : d \in Chans /\ chan[d].name \in Names
    BY Ids
  <2>. QED
    BY <1>4, <2>1 DEF Named
<1>. QED
  BY <1>3, <1>5, <1>6

\* Posts, comments and likes stay as they are
LEMMA BodyStays ==
    ASSUME IInv, UNCHANGED bodyVars
    PROVE  /\ Liked'
           /\ \A c \in Chans, p \in PostIds : db_post_exists(c, p)' <=> db_post_exists(c, p)
           /\ \A c \in Chans, p \in PostIds, k \in CmtIds :
                 /\ db_cmt_exists(c, p, k)' <=> db_cmt_exists(c, p, k)
           /\ post' = post /\ cmt' = cmt /\ likes' = likes /\ reported' = reported
<1>1. post' = post /\ cmt' = cmt /\ likes' = likes /\ reported' = reported
  BY DEF bodyVars
<1>2. \A c, p, k : LikersOf(c, p, k)' = LikersOf(c, p, k)
  BY <1>1 DEF LikersOf
<1>3. Liked'
  BY <1>1, <1>2 DEF IInv, Liked
<1>. QED
  BY <1>1, <1>3 DEF db_post_exists, db_cmt_exists

\* The numbers of posts stay as they are too
LEMMA PostsStay ==
    ASSUME IInv, UNCHANGED bodyVars, nchans <= nchans',
           nchans' \in Nat, \A c \in Chans : chan'[c].next_post_id = chan[c].next_post_id,
           \A u \in Users, c \in Chans : <<u, c>> \in subs' => c \in 1..nchans'
    PROVE  IdsDense' /\ Refers' /\ Liked' /\ Unused'
<1>1. IdsDense /\ Refers /\ Unused
  BY DEF IInv
<1>2. IdsDense'
  BY <1>1, BodyStays DEF IdsDense
<1>3. Refers'
  BY <1>1, BodyStays DEF Refers
<1>4. Unused'
  <2>1. \A c \in Chans : c > nchans' => c > nchans
    BY Ids
  <2>. QED
    BY <1>1, <2>1 DEF Unused
<1>. QED
  BY <1>2, <1>3, <1>4, BodyStays

\* hdl_sub_chan_req and hdl_unsub_chan_req
LEMMA Subscribing ==
    ASSUME IInv, NEW u \in Users, NEW c \in Chans, SubChan(u, c) \/ UnsubChan(u, c)
    PROVE  IInv'
<1>1. /\ c \in chans_by_id
      /\ UNCHANGED <<daemon, nxt_chan_id, chans_by_id, chans_by_name, nchans, bodyVars>>
  BY DEF SubChan, UnsubChan
<1>2. SubersOf(c) \in SUBSET Users /\ chan[c].subs = Cardinality(SubersOf(c))
      /\ Cardinality(SubersOf(c)) \in Int
  <2>1. SubersOf(c) \in SUBSET Users
    BY DEF SubersOf
  <2>2. Cardinality(SubersOf(c)) \in Int
    BY <2>1, Counting
  <2>. QED
    BY <2>1, <2>2 DEF IInv, SubsCounted, SubersOf
<1>3. PICK by \in {1, -1} :
        /\ chan' = [chan EXCEPT ![c].subs = @ + by]
        /\ mem' = [mem EXCEPT ![c].subs = @ + by]
        /\ subs' \in SUBSET (Users \X Chans)
        /\ \A v \in Users, d \in Chans : d # c => (<<v, d>> \in subs' <=> <<v, d>> \in subs)
        /\ Cardinality(SubersOf(c)') = Cardinality(SubersOf(c)) + by
  <2>1. CASE SubChan(u, c)
    <3>1. /\ subs' = subs \cup {<<u, c>>} /\ <<u, c>> \notin subs
          /\ chan' = [chan EXCEPT ![c].subs = @ + 1] /\ mem' = [mem EXCEPT ![c].subs = @ + 1]
      BY <2>1 DEF SubChan, db_add_sub
    <3>2. SubersOf(c)' = SubersOf(c) \cup {u} /\ u \notin SubersOf(c)
      BY <3>1 DEF SubersOf
    <3>3. Cardinality(SubersOf(c)') = Cardinality(SubersOf(c)) + 1
      BY <1>2, <3>2, Counting
    <3>4. /\ subs' \in SUBSET (Users \X Chans)
          /\ \A v \in Users, d \in Chans : d # c => (<<v, d>> \in subs' <=> <<v, d>> \in subs)
      BY <3>1 DEF IInv, TypeOK
    <3>. QED
      BY <3>1, <3>3, <3>4
  <2>2. CASE UnsubChan(u, c)
    <3>1. /\ subs' = subs \ {<<u, c>>} /\ <<u, c>> \in subs
          /\ chan' = [chan EXCEPT ![c].subs = @ - 1] /\ mem' = [mem EXCEPT ![c].subs = @ - 1]
      BY <2>2 DEF UnsubChan, db_unsub, db_is_suber
    <3>2. SubersOf(c)' = SubersOf(c) \ {u} /\ u \in SubersOf(c)
      BY <3>1 DEF SubersOf
    <3>3. Cardinality(SubersOf(c)') = Cardinality(SubersOf(c)) - 1
      BY <1>2, <3>2, Counting
    <3>4. /\ subs' \in SUBSET (Users \X Chans)
          /\ \A v \in Users, d \in Chans : d # c => (<<v, d>> \in subs' <=> <<v, d>> \in subs)
      BY <3>1 DEF IInv, TypeOK
    <3>5. chan' = [chan EXCEPT ![c].subs = @ + (-1)] /\ mem' = [mem EXCEPT ![c].subs = @ + (-1)]
      <4>1. chan[c].subs \in Int /\ mem[c].subs = chan[c].subs
        BY <1>1, <1>2, Ids
      <4>2. chan[c].subs - 1 = chan[c].subs + (-1)
        BY <4>1
      <4>. QED
        BY <3>1, <4>1, <4>2
    <3>6. Cardinality(SubersOf(c)') = Cardinality(SubersOf(c)) + (-1)
      BY <1>2, <3>3
    <3>. QED
      BY <3>4, <3>5, <3>6
  <2>. QED
    BY <2>1, <2>2
<1>4. PICK new \in Chan :
        /\ chan' = [chan EXCEPT ![c] = new] /\ mem' = [mem EXCEPT ![c] = new]
        /\ new.name = chan[c].name /\ new.next_post_id = chan[c].next_post_id
        /\ new.subs = chan[c].subs + by
  <2>1. chan[c] \in Chan /\ mem[c] = chan[c]
    BY <1>1, Ids
  <2>2. chan[c].subs + by \in Int
    BY <2>1 DEF Chan
  <2>3. [chan[c] EXCEPT !.subs = chan[c].subs + by] \in Chan
    BY <2>1, <2>2 DEF Chan
  <2>4. /\ chan' = [chan EXCEPT ![c] = [chan[c] EXCEPT !.subs = chan[c].subs + by]]
        /\ mem' = [mem EXCEPT ![c] = [chan[c] EXCEPT !.subs = chan[c].subs + by]]
    BY <1>3, <2>1
  <2>. QED
    BY <2>1, <2>3, <2>4 DEF Chan
<1>5. /\ chan' \in [Chans -> Chan] /\ mem' \in [Chans -> Chan] /\ CacheMatchesDb' /\ Named'
      /\ chan'[c] = new /\ \A d \in Chans : d # c => chan'[d] = chan[d]
  <2>1. UNCHANGED <<nxt_chan_id, chans_by_id, chans_by_name, nchans>>
    BY <1>1
  <2>. QED
    BY <1>1, <1>4, <2>1, SameNames
<1>6. TypeOK'
  BY <1>1, <1>3, <1>5 DEF IInv, TypeOK, bodyVars
<1>7. SubsCounted'
  <2>1. ASSUME NEW d \in Chans
        PROVE  chan'[d].subs = Cardinality(SubersOf(d)')
    <3>1. CASE d = c
      BY <1>2, <1>3, <1>4, <1>5, <3>1
    <3>2. CASE d # c
      <4>1. SubersOf(d)' = SubersOf(d)
        BY <1>3, <3>2 DEF SubersOf
      <4>2. chan[d].subs = Cardinality(SubersOf(d))
        BY DEF IInv, SubsCounted, SubersOf
      <4>. QED
        BY <1>5, <3>2, <4>1, <4>2
    <3>. QED
      BY <3>1, <3>2
  <2>. QED
    BY <2>1 DEF SubsCounted, SubersOf
<1>8. IdsDense' /\ Refers' /\ Liked' /\ Unused'
  <2>1. \A d \in Chans : chan'[d].next_post_id = chan[d].next_post_id
    BY <1>4, <1>5
  <2>2. \A v \in Users, d \in Chans : <<v, d>> \in subs' => d \in 1..nchans
    BY <1>1, <1>3, Ids DEF IInv, Refers
  <2>3. nchans' = nchans /\ nchans \in Nat /\ nchans <= nchans /\ UNCHANGED bodyVars
    BY <1>1, Ids
  <2>. QED
    BY <2>1, <2>2, <2>3, PostsStay
<1>. QED
  BY <1>5, <1>6, <1>7, <1>8 DEF IInv

\* hdl_pub_post_req and hdl_declare_post_req: the post takes the next id of the
\* cache, which is the one of the table; nothing refers to it yet
LEMMA NewPost ==
    ASSUME IInv, NEW u \in Users, NEW c \in Chans, NEW stat \in {"available", "declared"},
           AddPost(u, c, stat)
    PROVE  IInv'
<1>1. /\ c \in chans_by_id /\ mem[c] = chan[c] /\ chan[c] \in Chan
      /\ UNCHANGED <<daemon, nxt_chan_id, chans_by_id, chans_by_name, nchans, subs, cmt, likes, reported>>
  BY Ids DEF AddPost
<1>2. PICK p \in 1..MaxPost + 1 : p = chan[c].next_post_id /\ p = mem[c].next_post_id /\ p <= MaxPost
  <2>1. chan[c].next_post_id \in 1..MaxPost + 1
    BY <1>1 DEF Chan
  <2>2. mem[c].next_post_id <= MaxPost
    BY DEF AddPost, new_post_id
  <2>. QED
    BY <1>1, <2>1, <2>2
<1>3. /\ p \in PostIds /\ p \in Nat /\ p + 1 \in 1..MaxPost + 1
      /\ \A q \in PostIds : q \in 1..((p + 1) - 1) <=> (q \in 1..(p - 1) \/ q = p)
  <2>1. p <= MaxPost
    BY <1>2
  <2>. QED
    BY <2>1, Consts DEF PostIds
<1>4. /\ ~db_post_exists(c, p)
      /\ post' = [post EXCEPT ![<<c, p>>] = [NoPost EXCEPT !.stat = stat]]
      /\ chan' = [chan EXCEPT ![c].next_post_id = @ + 1]
      /\ mem' = [mem EXCEPT ![c].next_post_id = @ + 1]
  BY <1>2 DEF AddPost, db_add_post, new_post_id
<1>5. PICK row \in Post :
        /\ post' = [post EXCEPT ![<<c, p>>] = row]
        /\ row.stat # "none" /\ row.next_comment_id = 1 /\ row.likes = 0
  <2>1. 1 \in 1..MaxCmt + 1
    BY Consts
  <2>2. [NoPost EXCEPT !.stat = stat] = [stat |-> stat, next_comment_id |-> 1, likes |-> 0]
    BY DEF NoPost
  <2>3. [stat |-> stat, next_comment_id |-> 1, likes |-> 0] \in Post
    BY <2>1 DEF Post
  <2>. QED
    BY <1>4, <2>2, <2>3
<1>6. PICK new \in Chan :
        /\ chan' = [chan EXCEPT ![c] = new] /\ mem' = [mem EXCEPT ![c] = new]
        /\ new.name = chan[c].name /\ new.next_post_id = p + 1 /\ new.subs = chan[c].subs
  <2>1. [chan[c] EXCEPT !.next_post_id = p + 1] \in Chan
    BY <1>1, <1>3 DEF Chan
  <2>2. /\ chan' = [chan EXCEPT ![c] = [chan[c] EXCEPT !.next_post_id = p + 1]]
        /\ mem' = [mem EXCEPT ![c] = [chan[c] EXCEPT !.next_post_id = p + 1]]
    BY <1>1, <1>2, <1>4
  <2>. QED
    BY <1>1, <2>1, <2>2 DEF Chan
<1>7. /\ chan' \in [Chans -> Chan] /\ mem' \in [Chans -> Chan] /\ CacheMatchesDb' /\ Named'
      /\ chan'[c] = new /\ \A d \in Chans : d # c => chan'[d] = chan[d]
  <2>1. UNCHANGED <<nxt_chan_id, chans_by_id, chans_by_name, nchans>>
    BY <1>1
  <2>. QED
    BY <1>1, <1>6, <2>1, SameNames
<1>8. /\ post' \in [PostKeys -> Post]
      /\ post'[c, p] = row
      /\ \A d \in Chans, q \in PostIds : d # c \/ q # p => post'[d, q] = post[d, q]
  <2>1. TypeOK /\ p \in PostIds
    BY <1>3 DEF IInv
  <2>2. post' = [post EXCEPT ![<<c, p>>] = row]
    BY <1>5
  <2>. QED
    BY <2>1, <2>2, PostRow
<1>9. TypeOK'
  BY <1>1, <1>7, <1>8 DEF IInv, TypeOK
<1>10. SubsCounted'
  <2>1. \A d \in Chans : chan'[d].subs = chan[d].subs
    BY <1>6, <1>7
  <2>. QED
    BY <1>1, <2>1 DEF IInv, SubsCounted
<1>11. Unused'
  <2>1. ~(c > nchans) /\ nchans' = nchans
    BY <1>1, Ids
  <2>. QED
    BY <1>7, <2>1 DEF IInv, Unused
<1>12. \A d \in Chans, q \in PostIds :
          db_post_exists(d, q)' <=> (db_post_exists(d, q) \/ (d = c /\ q = p))
  <2>1. SUFFICES ASSUME NEW d \in Chans, NEW q \in PostIds
                 PROVE  db_post_exists(d, q)' <=> (db_post_exists(d, q) \/ (d = c /\ q = p))
    OBVIOUS
  <2>2. CASE d = c /\ q = p
    BY <1>5, <1>8, <2>2 DEF db_post_exists
  <2>3. CASE ~(d = c /\ q = p)
    <3>1. post'[d, q] = post[d, q]
      BY <1>8, <2>3
    <3>. QED
      BY <2>3, <3>1 DEF db_post_exists
  <2>. QED
    BY <2>2, <2>3
<1>13. \A d \in Chans, q \in PostIds, m \in CmtIds : db_cmt_exists(d, q, m)' <=> db_cmt_exists(d, q, m)
  BY <1>1 DEF db_cmt_exists
<1>14. \A m \in CmtIds : ~db_cmt_exists(c, p, m)
  <2>1. \A m \in CmtIds : db_cmt_exists(c, p, m) => db_post_exists(c, p)
    BY <1>3 DEF IInv, Refers
  <2>. QED
    BY <1>4, <2>1
<1>15. IdsDense'
  <2>1. ASSUME NEW d \in Chans, NEW q \in PostIds
        PROVE  db_post_exists(d, q)' <=> q \in 1..chan'[d].next_post_id - 1
    <3>1. db_post_exists(d, q) <=> q \in 1..chan[d].next_post_id - 1
      BY DEF IInv, IdsDense
    <3>2. CASE d = c
      <4>1. chan'[d].next_post_id = p + 1 /\ chan[d].next_post_id = p
        BY <1>2, <1>6, <1>7, <3>2
      <4>2. db_post_exists(d, q)' <=> (q \in 1..(p - 1) \/ q = p)
        BY <1>12, <3>1, <3>2, <4>1
      <4>. QED
        BY <1>3, <4>1, <4>2
    <3>3. CASE d # c
      BY <1>7, <1>12, <3>1, <3>3
    <3>. QED
      BY <3>2, <3>3
  <2>2. ASSUME NEW d \in Chans, NEW q \in PostIds, NEW m \in CmtIds
        PROVE  db_cmt_exists(d, q, m)' <=> m \in 1..post'[d, q].next_comment_id - 1
    <3>1. db_cmt_exists(d, q, m) <=> m \in 1..post[d, q].next_comment_id - 1
      BY DEF IInv, IdsDense
    <3>2. CASE d = c /\ q = p
      <4>1. post'[d, q].next_comment_id = 1
        BY <1>5, <1>8, <3>2
      <4>2. ~(m \in 1..(1 - 1))
        BY Consts DEF CmtIds
      <4>. QED
        BY <1>13, <1>14, <3>2, <4>1, <4>2
    <3>3. CASE ~(d = c /\ q = p)
      BY <1>8, <1>13, <3>1, <3>3
    <3>. QED
      BY <3>2, <3>3
  <2>. QED
    BY <2>1, <2>2 DEF IdsDense
<1>16. Refers'
  <2>1. Refers
    BY DEF IInv
  <2>. QED
    BY <1>1, <1>12, <1>13, <2>1 DEF Refers
<1>17. Liked'
  <2>1. \A d, q, m : LikersOf(d, q, m)' = LikersOf(d, q, m)
    BY <1>1 DEF LikersOf
  <2>2. LikersOf(c, p, 0) = {}
    <3>1. ASSUME NEW v \in Users, <<v, <<c, p, 0>>>> \in likes
          PROVE  FALSE
      <4>1. 0 \in CmtIds
        BY Consts DEF CmtIds
      <4>. QED
        BY <1>3, <1>4, <3>1, <4>1, LikedExists DEF IInv
    <3>. QED
      BY <3>1 DEF LikersOf
  <2>3. ASSUME NEW d \in Chans, NEW q \in PostIds
        PROVE  post'[d, q].likes = Cardinality(LikersOf(d, q, 0))
    <3>1. CASE d = c /\ q = p
      BY <1>5, <1>8, <2>2, <3>1, FS_EmptySet
    <3>2. CASE ~(d = c /\ q = p)
      BY <1>8, <3>2 DEF IInv, Liked
    <3>. QED
      BY <3>1, <3>2
  <2>. QED
    BY <1>1, <2>1, <2>3 DEF IInv, Liked
<1>. QED
  BY <1>7, <1>9, <1>10, <1>11, <1>15, <1>16, <1>17 DEF IInv

\* hdl_create_chan_req: SQLite and the cache give the channel the same id, and
\* nobody has the name
LEMMA Creating ==
    ASSUME IInv, NEW u \in Users, NEW n \in Names, CreateChan(u, n)
    PROVE  IInv'
<1>. DEFINE new == [name |-> n, next_post_id |-> 1, subs |-> 0]
<1>1. PICK c \in Chans : /\ c = nchans + 1 /\ c = nxt_chan_id /\ c \notin chans_by_id
                         /\ 1..c = (1..nchans) \cup {c}
  <2>1. nchans \in Nat /\ nchans < MaxFeeds /\ nxt_chan_id = nchans + 1 /\ chans_by_id = 1..nchans
    BY Ids DEF CreateChan, BelowLimit
  <2>2. nchans + 1 \in Chans /\ nchans + 1 \notin 1..nchans /\ 1..(nchans + 1) = (1..nchans) \cup {nchans + 1}
    BY <2>1, Consts DEF Chans
  <2>. QED
    BY <2>1, <2>2
<1>2. /\ nchans' = c /\ chans_by_id' = chans_by_id \cup {c} /\ nxt_chan_id' = c + 1
      /\ chans_by_name' = [chans_by_name EXCEPT ![n] = c] /\ chans_by_name[n] = 0
      /\ chan' = [chan EXCEPT ![c] = new] /\ mem' = [mem EXCEPT ![c] = new]
      /\ UNCHANGED <<daemon, subs, bodyVars>>
  <2>1. [NoChan EXCEPT !.name = n] = new
    BY DEF NoChan
  <2>. HIDE DEF new
  <2>. QED
    BY <1>1, <2>1 DEF CreateChan, db_create_chan, chan_exist_by_name
<1>3. new \in Chan
  <2>1. 1 \in 1..MaxPost + 1
    BY Consts
  <2>. QED
    BY <2>1 DEF Chan
<1>4. new.name = n /\ new.next_post_id = 1 /\ new.subs = 0
  OBVIOUS
<1>. HIDE DEF new
<1>5. /\ chan \in [Chans -> Chan] /\ mem \in [Chans -> Chan] /\ chans_by_name \in [Names -> 0..MaxFeeds]
  BY DEF IInv, TypeOK
<1>6. /\ chan' \in [Chans -> Chan] /\ mem' \in [Chans -> Chan]
      /\ chan'[c] = new /\ mem'[c] = new
      /\ \A d \in Chans : d # c => chan'[d] = chan[d] /\ mem'[d] = mem[d]
  BY <1>2, <1>3, <1>5
<1>7. /\ chans_by_name' \in [Names -> 0..MaxFeeds] /\ chans_by_name'[n] = c
      /\ \A m \in Names : m # n => chans_by_name'[m] = chans_by_name[m]
  <2>1. c \in 0..MaxFeeds
    BY Consts DEF Chans
  <2>. QED
    BY <1>2, <1>5, <2>1
<1>8. /\ nchans' \in 0..MaxFeeds /\ nxt_chan_id' \in 1..MaxFeeds + 1 /\ chans_by_id' \in SUBSET Chans
  <2>1. c \in 0..MaxFeeds /\ c + 1 \in 1..MaxFeeds + 1
    BY Consts DEF Chans
  <2>. QED
    BY <1>2, <2>1, Ids
<1>9. TypeOK'
  BY <1>2, <1>6, <1>7, <1>8 DEF IInv, TypeOK, bodyVars
<1>10. CacheMatchesDb'
  <2>1. chans_by_id' = 1..nchans' /\ nxt_chan_id' = nchans' + 1
    BY <1>1, <1>2, Ids
  <2>2. \A d \in chans_by_id' : mem'[d] = chan'[d]
    BY <1>2, <1>6, Ids
  <2>3. ASSUME NEW m \in Names, NEW d \in Chans
        PROVE  chans_by_name'[m] = d <=> d \in chans_by_id' /\ mem'[d].name = m
    <3>1. chans_by_name[m] = d <=> d \in chans_by_id /\ mem[d].name = m
      BY DEF IInv, CacheMatchesDb
    <3>2. CASE m = n /\ d = c
      BY <1>2, <1>4, <1>6, <1>7, <3>2
    <3>3. CASE m = n /\ d # c
      <4>1. d # 0
        BY Ids
      <4>. QED
        BY <1>2, <1>6, <1>7, <3>1, <3>3, <4>1
    <3>4. CASE m # n /\ d = c
      BY <1>1, <1>4, <1>6, <1>7, <3>1, <3>4
    <3>5. CASE m # n /\ d # c
      BY <1>2, <1>6, <1>7, <3>1, <3>5
    <3>. QED
      BY <3>2, <3>3, <3>4, <3>5
  <2>. QED
    BY <2>1, <2>2, <2>3 DEF CacheMatchesDb
<1>11. Named'
  <2>1. \A d \in 1..nchans' : d = c \/ (d \in chans_by_id /\ d \in Chans)
    BY <1>1, <1>2, Ids
  <2>. QED
    BY <1>1, <1>4, <1>6, <2>1, Ids DEF Named
<1>12. SubsCounted'
  <2>1. SubersOf(c) = {}
    <3>1. ASSUME NEW v \in Users, <<v, c>> \in subs
          PROVE  FALSE
      BY <1>1, <3>1, Ids DEF IInv, Refers
    <3>. QED
      BY <3>1 DEF SubersOf
  <2>2. ASSUME NEW d \in Chans
        PROVE  chan'[d].subs = Cardinality(SubersOf(d))
    <3>1. CASE d = c
      BY <1>4, <1>6, <2>1, <3>1, FS_EmptySet
    <3>2. CASE d # c
      BY <1>6, <3>2 DEF IInv, SubsCounted, SubersOf
    <3>. QED
      BY <3>1, <3>2
  <2>3. subs' = subs
    BY <1>2
  <2>. QED
    BY <2>2, <2>3 DEF SubsCounted, SubersOf
<1>13. IdsDense' /\ Refers' /\ Liked' /\ Unused'
  <2>1. nchans \in Nat /\ nchans' \in Nat /\ nchans <= nchans' /\ c > nchans
    BY <1>1, <1>2, Ids
  <2>2. \A d \in Chans : chan'[d].next_post_id = chan[d].next_post_id
    <3>1. chan[c].next_post_id = 1
      BY <2>1 DEF IInv, Unused
    <3>. QED
      BY <1>4, <1>6, <3>1
  <2>3. \A v \in Users, d \in Chans : <<v, d>> \in subs' => d \in 1..nchans'
    BY <1>1, <1>2 DEF IInv, Refers
  <2>. QED
    BY <1>2, <2>1, <2>2, <2>3, PostsStay
<1>. QED
  BY <1>9, <1>10, <1>11, <1>12, <1>13 DEF IInv

\* hdl_upd_chan_req: the entry of the old name is removed before the new one is
\* put, and no other channel has either
LEMMA Renaming ==
    ASSUME IInv, NEW u \in Users, NEW c \in Chans, NEW n \in Names, UpdChan(u, c, n)
    PROVE  IInv'
<1>1. /\ c \in chans_by_id /\ mem[c] = chan[c] /\ chan[c] \in Chan /\ chan[c].name \in Names /\ c # 0
      /\ n = chan[c].name \/ chans_by_name[n] = 0
      /\ UNCHANGED <<daemon, nxt_chan_id, chans_by_id, nchans, subs, bodyVars>>
  BY Ids DEF UpdChan, chan_exist_by_name
<1>2. PICK old \in Names : old = chan[c].name
  BY <1>1
<1>3. PICK new \in Chan :
        /\ chan' = [chan EXCEPT ![c] = new] /\ mem' = [mem EXCEPT ![c] = new]
        /\ new.name = n /\ new.next_post_id = chan[c].next_post_id /\ new.subs = chan[c].subs
  <2>1. [chan[c] EXCEPT !.name = n] \in Chan
    BY <1>1 DEF Chan
  <2>2. /\ chan' = [chan EXCEPT ![c] = [chan[c] EXCEPT !.name = n]]
        /\ mem' = [mem EXCEPT ![c] = [chan[c] EXCEPT !.name = n]]
    BY <1>1 DEF UpdChan, db_upd_chan, chan_create_upd
  <2>. QED
    BY <1>1, <2>1, <2>2 DEF Chan
<1>4. /\ chan \in [Chans -> Chan] /\ mem \in [Chans -> Chan] /\ chans_by_name \in [Names -> 0..MaxFeeds]
  BY DEF IInv, TypeOK
<1>5. /\ chan' \in [Chans -> Chan] /\ mem' \in [Chans -> Chan]
      /\ chan'[c] = new /\ mem'[c] = new
      /\ \A d \in Chans : d # c => chan'[d] = chan[d] /\ mem'[d] = mem[d]
  BY <1>3, <1>4
<1>6. /\ chans_by_name' \in [Names -> 0..MaxFeeds] /\ chans_by_name'[n] = c
      /\ old # n => chans_by_name'[old] = 0
      /\ \A m \in Names : m # n /\ m # old => chans_by_name'[m] = chans_by_name[m]
  <2>1. c \in 0..MaxFeeds /\ 0 \in 0..MaxFeeds
    BY Consts DEF Chans
  <2>2. chans_by_name' = [[chans_by_name EXCEPT ![old] = 0] EXCEPT ![n] = c]
    BY <1>1, <1>2 DEF UpdChan, chan_sub
  <2>. QED
    BY <1>4, <2>1, <2>2
<1>7. TypeOK'
  BY <1>1, <1>5, <1>6 DEF IInv, TypeOK, bodyVars
<1>8. CacheMatchesDb'
  <2>1. chans_by_id' = 1..nchans' /\ nxt_chan_id' = nchans' + 1
    BY <1>1, Ids
  <2>2. \A d \in chans_by_id' : mem'[d] = chan'[d]
    BY <1>1, <1>5, Ids
  <2>3. ASSUME NEW m \in Names, NEW d \in Chans
        PROVE  chans_by_name'[m] = d <=> d \in chans_by_id' /\ mem'[d].name = m
    <3>1. chans_by_name[m] = d <=> d \in chans_by_id /\ mem[d].name = m
      BY DEF IInv, CacheMatchesDb
    <3>2. chans_by_name[old] = c
      BY <1>1, <1>2 DEF IInv, CacheMatchesDb
    <3>3. d # 0
      BY Ids
    <3>4. CASE d = c /\ m = n
      BY <1>1, <1>3, <1>5, <1>6, <3>4
    <3>5. CASE d = c /\ m # n
      <4>1. ~(mem'[d].name = m)
        BY <1>3, <1>5, <3>5
      <4>2. CASE m = old
        BY <1>1, <1>6, <3>5, <4>1, <4>2
      <4>3. CASE m # old
        BY <1>1, <1>2, <1>6, <3>1, <3>5, <4>1, <4>3
      <4>. QED
        BY <4>2, <4>3
    <3>6. CASE d # c /\ m = n
      <4>1. chans_by_name[n] # d
        BY <1>1, <1>2, <3>2, <3>3, <3>6
      <4>. QED
        BY <1>1, <1>5, <1>6, <3>1, <3>6, <4>1
    <3>7. CASE d # c /\ m # n
      BY <1>1, <1>5, <1>6, <3>1, <3>2, <3>3, <3>7
    <3>. QED
      BY <3>4, <3>5, <3>6, <3>7
  <2>. QED
    BY <2>1, <2>2, <2>3 DEF CacheMatchesDb
<1>9. Named'
  <2>1. \A d \in 1..nchans : d \in Chans /\ chan[d].name \in Names
    BY Ids
  <2>. QED
    BY <1>1, <1>3, <1>5, <2>1 DEF Named
<1>10. SubsCounted'
  <2>1. \A d \in Chans : chan'[d].subs = chan[d].subs
    BY <1>3, <1>5
  <2>. QED
    BY <1>1, <2>1 DEF IInv, SubsCounted
<1>11. IdsDense' /\ Refers' /\ Liked' /\ Unused'
  <2>1. \A d \in Chans : chan'[d].next_post_id = chan[d].next_post_id
    BY <1>3, <1>5
  <2>2. \A v \in Users, d \in Chans : <<v, d>> \in subs' => d \in 1..nchans
    BY <1>1 DEF IInv, Refers
  <2>3. nchans' = nchans /\ nchans \in Nat /\ nchans <= nchans /\ UNCHANGED bodyVars
    BY <1>1, Ids
  <2>. QED
    BY <2>1, <2>2, <2>3, PostsStay
<1>. QED
  BY <1>7, <1>8, <1>9, <1>10, <1>11 DEF IInv

\* load_chans_from_db finds what the cache had, at any moment
LEMMA Restarting ==
    ASSUME IInv, Restart
    PROVE  IInv'
<1>1. /\ daemon' = "up" /\ chans_by_id' = 1..nchans /\ nxt_chan_id' = nchans + 1
      /\ chans_by_name' = [n \in Names |->
           IF \E c \in 1..nchans : chan[c].name = n
           THEN CHOOSE c \in 1..nchans : chan[c].name = n
           ELSE 0]
      /\ mem' = [c \in Chans |-> IF c \in 1..nchans THEN chan[c] ELSE NoChan]
      /\ UNCHANGED <<chanVars, subs, bodyVars>>
  BY DEF Restart, LoadedChans
<1>2. chan' = chan /\ nchans' = nchans /\ subs' = subs
  BY <1>1 DEF chanVars
<1>3. NoChan \in Chan
  <2>1. 1 \in 1..MaxPost + 1
    BY Consts
  <2>. QED
    BY <2>1 DEF NoChan, Chan
<1>4. /\ mem' \in [Chans -> Chan]
      /\ \A c \in chans_by_id' : mem'[c] = chan[c]
  BY <1>1, <1>3, Ids
<1>5. ASSUME NEW n \in Names, NEW c \in Chans
      PROVE  /\ chans_by_name'[n] = c <=> c \in chans_by_id' /\ mem'[c].name = n
             /\ chans_by_name'[n] \in 0..MaxFeeds
  <2>1. \A d \in Chans : chans_by_name[n] = d <=> d \in 1..nchans /\ chan[d].name = n
    BY Ids DEF IInv, CacheMatchesDb
  <2>2. 1..nchans \subseteq Chans /\ c # 0
    BY Ids
  <2>3. 0 \in 0..MaxFeeds /\ Chans \subseteq 0..MaxFeeds
    BY Consts DEF Chans
  <2>4. CASE \E d \in 1..nchans : chan[d].name = n
    <3>1. chans_by_name'[n] = (CHOOSE d \in 1..nchans : chan[d].name = n)
      BY <1>1, <2>4
    <3>2. chans_by_name'[n] \in 1..nchans /\ chan[chans_by_name'[n]].name = n
      BY <2>4, <3>1
    <3>3. chans_by_name'[n] = chans_by_name[n]
      BY <2>1, <2>2, <3>2
    <3>. QED
      BY <1>1, <1>4, <2>1, <2>2, <2>3, <3>2, <3>3
  <2>5. CASE ~\E d \in 1..nchans : chan[d].name = n
    <3>1. chans_by_name'[n] = 0
      BY <1>1, <2>5
    <3>. QED
      BY <1>1, <1>4, <2>2, <2>3, <2>5, <3>1
  <2>. QED
    BY <2>4, <2>5
<1>6. chans_by_name' \in [Names -> 0..MaxFeeds]
  <2>1. ASSUME NEW n \in Names
        PROVE  chans_by_name'[n] \in 0..MaxFeeds
    <3>1. CASE \E d \in 1..nchans : chan[d].name = n
      <4>1. PICK d \in Chans : TRUE
        BY <3>1, Ids
      <4>. QED
        BY <1>5
    <3>2. CASE ~\E d \in 1..nchans : chan[d].name = n
      <4>1. chans_by_name'[n] = 0
        BY <1>1, <3>2
      <4>. QED
        BY <4>1, Consts
    <3>. QED
      BY <3>1, <3>2
  <2>. QED
    BY <1>1, <2>1
<1>7. TypeOK'
  <2>1. nxt_chan_id' \in 1..MaxFeeds + 1 /\ chans_by_id' \in SUBSET Chans
    BY <1>1, Ids, Consts
  <2>. QED
    BY <1>1, <1>2, <1>4, <1>6, <2>1 DEF IInv, TypeOK, bodyVars
<1>8. CacheMatchesDb'
  BY <1>1, <1>2, <1>4, <1>5 DEF CacheMatchesDb
<1>9. Named' /\ SubsCounted'
  BY <1>2 DEF IInv, Named, SubsCounted
<1>10. IdsDense' /\ Refers' /\ Liked' /\ Unused'
  <2>1. \A v \in Users, d \in Chans : <<v, d>> \in subs' => d \in 1..nchans
    BY <1>2 DEF IInv, Refers
  <2>2. nchans' = nchans /\ nchans \in Nat /\ nchans <= nchans /\ UNCHANGED bodyVars
    BY <1>1, <1>2, Ids
  <2>. QED
    BY <1>2, <2>1, <2>2, PostsStay
<1>. QED
  BY <1>7, <1>8, <1>9, <1>10 DEF IInv

\* db_init: the tables and the cache are empty
LEMMA Starting ==
    ASSUME Init
    PROVE  IInv
<1>1. NoChan \in Chan /\ NoPost \in Post /\ NoCmt \in Cmt
  <2>1. 1 \in 1..MaxPost + 1 /\ 1 \in 1..MaxCmt + 1 /\ 0 \in CmtIds
    BY Consts DEF CmtIds
  <2>. QED
    BY <2>1, Consts DEF NoChan, Chan, NoPost, Post, NoCmt, Cmt
<1>2. /\ NoChan.next_post_id = 1 /\ NoChan.subs = 0
      /\ NoPost.stat = "none" /\ NoPost.next_comment_id = 1 /\ NoPost.likes = 0
      /\ NoCmt.stat = "none" /\ NoCmt.likes = 0
  BY DEF NoChan, NoPost, NoCmt
<1>3. /\ \A c \in Chans : chan[c] = NoChan
      /\ \A c \in Chans, p \in PostIds : post[c, p] = NoPost
      /\ \A c \in Chans, p \in PostIds, k \in CmtIds : cmt[c, p, k] = NoCmt
  BY DEF Init, PostKeys, CmtKeys
<1>4. TypeOK
  <2>1. 1 \in 1..MaxFeeds + 1 /\ 0 \in 0..MaxFeeds
    BY Consts
  <2>2. /\ mem \in [Chans -> Chan] /\ chan \in [Chans -> Chan] /\ post \in [PostKeys -> Post]
        /\ cmt \in [CmtKeys -> Cmt] /\ chans_by_name \in [Names -> 0..MaxFeeds]
    BY <1>1, <2>1 DEF Init
  <2>. QED
    BY <2>1, <2>2 DEF Init, TypeOK
<1>5. 1..nchans = {} /\ \A c \in Chans : c # 0
  BY Consts DEF Init, Chans
<1>6. CacheMatchesDb
  <2>1. chans_by_id = 1..nchans /\ nxt_chan_id = nchans + 1 /\ chans_by_id = {}
    BY <1>5 DEF Init
  <2>2. \A n \in Names : chans_by_name[n] = 0
    BY DEF Init
  <2>. QED
    BY <1>5, <2>1, <2>2 DEF CacheMatchesDb
<1>7. Named /\ Unused
  BY <1>2, <1>3, <1>5 DEF Named, Unused
<1>8. SubsCounted
  <2>1. \A c : {u \in Users : <<u, c>> \in subs} = {}
    BY DEF Init
  <2>. QED
    BY <1>2, <1>3, <2>1, FS_EmptySet DEF SubsCounted
<1>9. IdsDense
  <2>1. \A i \in Int : ~(i \in 1..(1 - 1))
    OBVIOUS
  <2>2. PostIds \subseteq Int /\ CmtIds \subseteq Int
    BY Consts DEF PostIds, CmtIds
  <2>. QED
    BY <1>2, <1>3, <2>1, <2>2 DEF IdsDense, db_post_exists, db_cmt_exists
<1>10. Refers
  <2>1. \A c \in Chans, p \in PostIds, k \in CmtIds : ~db_cmt_exists(c, p, k)
    BY <1>2, <1>3 DEF db_cmt_exists
  <2>2. likes = {} /\ reported = {} /\ subs = {}
    BY DEF Init
  <2>. QED
    BY <2>1, <2>2 DEF Refers
<1>11. Liked
  <2>1. \A c, p, k : LikersOf(c, p, k) = {}
    BY DEF Init, LikersOf
  <2>. QED
    BY <1>2, <1>3, <2>1, FS_EmptySet DEF Liked
<1>. QED
  BY <1>4, <1>6, <1>7, <1>8, <1>9, <1>10, <1>11 DEF IInv

\* None of the above
LEMMA Stuttering ==
    ASSUME IInv, UNCHANGED vars
    PROVE  IInv'
<1>1. /\ UNCHANGED <<daemon, memVars, chanVars, subs, bodyVars>>
      /\ nxt_chan_id' = nxt_chan_id /\ chans_by_id' = chans_by_id
      /\ chans_by_name' = chans_by_name /\ mem' = mem
      /\ chan' = chan /\ nchans' = nchans /\ subs' = subs
  BY DEF vars, memVars, chanVars
<1>2. TypeOK' /\ CacheMatchesDb' /\ Named' /\ SubsCounted'
  BY <1>1 DEF IInv, TypeOK, CacheMatchesDb, Named, SubsCounted, bodyVars
<1>3. IdsDense' /\ Refers' /\ Liked' /\ Unused'
  <2>1. \A v \in Users, d \in Chans : <<v, d>> \in subs' => d \in 1..nchans
    BY <1>1 DEF IInv, Refers
  <2>2. nchans' = nchans /\ nchans \in Nat /\ nchans <= nchans /\ UNCHANGED bodyVars
    BY <1>1, Ids
  <2>. QED
    BY <1>1, <2>1, <2>2, PostsStay
<1>. QED
  BY <1>2, <1>3 DEF IInv

\* One step: one of the handlers, or the start of the process
LEMMA Steps ==
    ASSUME Next
    PROVE  \/ \E u \in Users, n \in Names : CreateChan(u, n)
           \/ \E u \in Users, c \in Chans, n \in Names : UpdChan(u, c, n)
           \/ \E u \in Users, c \in Chans : SubChan(u, c) \/ UnsubChan(u, c)
           \/ \E u \in Users, c \in Chans, stat \in {"available", "declared"} : AddPost(u, c, stat)
           \/ \E u \in Users, c \in Chans, p \in PostIds : NotifyPost(u, c, p) \/ DelPost(u, c, p)
           \/ \E u \in Users, c \in Chans, p \in PostIds, k \in CmtIds : PostCmt(u, c, p, k)
           \/ \E u \in Users, c \in Chans, p \in PostIds, k \in CmtIds, r \in CmtIds : EditCmt(u, c, p, k, r)
           \/ \E u \in Users, c \in Chans, p \in PostIds, k \in CmtIds :
                 \/ DelCmt(u, c, p, k)
                 \/ \E watched \in BOOLEAN : BlockCmt(u, c, p, k, watched)
                 \/ UnblockCmt(u, c, p, k)
           \/ \E u \in Users, c \in Chans, p \in PostIds, k \in CmtIds :
                 GetCmtsAborts(c, p, k) \/ ReportIllegalCmt(u, c, p, k)
           \/ \E u \in Users, c \in Chans, p \in PostIds, k \in CmtIds :
                 PostLike(u, c, p, k) \/ PostUnlike(u, c, p, k)
           \/ Restart
<1>1. ASSUME NEW u \in Users, NEW c \in Chans, PubPost(u, c) \/ \E w \in BOOLEAN : DeclarePost(u, c, w)
      PROVE  \E stat \in {"available", "declared"} : AddPost(u, c, stat)
  BY <1>1 DEF PubPost, DeclarePost
<1>. QED
  BY <1>1 DEF Next, ChanNext, PostNext, CmtNext, LikeNext

-----------------------------------------------------------------------------
\* Every reachable state satisfies the inductive invariant, for any users,
\* names and limits.
THEOREM Invariant == Spec => []IInv
<1>1. ASSUME IInv, Next
      PROVE  IInv'
  BY <1>1, Steps, Creating, Renaming, Subscribing, NewPost, StatusOfPost, NewCmt, EditOfCmt,
     StatusOfCmt, OtherOfCmt, Liking, Unliking, Restarting
<1>2. IInv /\ [Next]_vars => IInv'
  BY <1>1, Stuttering
<1>. QED
  BY <1>2, Starting, PTL DEF Spec

\* Tables and cache keep their types.
THEOREM TypeCorrect == Spec => []TypeOK
<1>1. IInv => TypeOK
  BY DEF IInv
<1>. QED
  BY <1>1, Invariant, PTL

\* The cache that the handlers of feeds.c keep beside the table channels is
\* always the one load_chans_from_db would build, the index by name included.
THEOREM CacheIsTable == Spec => []CacheMatchesDb
<1>1. IInv => CacheMatchesDb
  BY DEF IInv
<1>. QED
  BY <1>1, Invariant, PTL

\* The column subscribers, incremented and decremented without looking, is the
\* number of the rows it stands for.
THEOREM SubscribersRight == Spec => []SubsCounted
<1>1. IInv => SubsCounted
  BY DEF IInv
<1>. QED
  BY <1>1, Invariant, PTL

\* The same of the column likes of posts and comments.
THEOREM LikesRight == Spec => []LikesCounted
<1>1. IInv => LikesCounted
  BY LikedIsCounted DEF IInv
<1>. QED
  BY <1>1, Invariant, PTL

\* The ids that the cache gives to posts and the table to comments are dense.
THEOREM NoGaps == Spec => []IdsDense
<1>1. IInv => IdsDense
  BY DEF IInv
<1>. QED
  BY <1>1, Invariant, PTL

\* The checks of the handlers do what the unenforced foreign keys would.
THEOREM NoneDangling == Spec => []NoDangling
<1>1. IInv => NoDangling
  BY RefersIsNoDangling DEF IInv
<1>. QED
  BY <1>1, Invariant, PTL

-----------------------------------------------------------------------------
(* What a step never does *)

\* Which step changes the status of a post, and the status and the reference
\* of a comment
LEMMA PostStatus ==
    ASSUME TypeOK, Next, NEW c \in Chans, NEW p \in PostIds, post[c, p].stat = "deleted"
    PROVE  post'[c, p].stat = "deleted"
<1>1. post \in [PostKeys -> Post] /\ <<c, p>> \in PostKeys
  BY DEF TypeOK, PostKeys
<1>2. CASE post' = post
  BY <1>2
<1>3. ASSUME NEW u \in Users, NEW d \in Chans, NEW stat \in {"available", "declared"}, AddPost(u, d, stat)
      PROVE  post'[c, p].stat = "deleted"
  <2>1. /\ post[d, new_post_id(d)].stat = "none"
        /\ post' = [post EXCEPT ![<<d, new_post_id(d)>>] = [NoPost EXCEPT !.stat = stat]]
    BY <1>3 DEF AddPost, db_add_post, db_post_exists
  <2>2. <<d, new_post_id(d)>> # <<c, p>>
    BY <2>1
  <2>. QED
    BY <1>1, <2>1, <2>2
<1>4. ASSUME NEW u \in Users, NEW d \in Chans, NEW q \in PostIds, NotifyPost(u, d, q) \/ DelPost(u, d, q)
      PROVE  post'[c, p].stat = "deleted"
  <2>1. CASE NotifyPost(u, d, q)
    <3>1. post[d, q].stat # "deleted" /\ post' = [post EXCEPT ![<<d, q>>].stat = "available"]
      BY <2>1 DEF NotifyPost, Notifiable, db_set_post_status
    <3>. QED
      BY <1>1, <3>1
  <2>2. CASE DelPost(u, d, q)
    <3>1. post' = [post EXCEPT ![<<d, q>>].stat = "deleted"]
      BY <2>2 DEF DelPost, db_set_post_status
    <3>2. CASE <<d, q>> = <<c, p>>
      BY <1>1, <3>1, <3>2 DEF Post
    <3>3. CASE <<d, q>> # <<c, p>>
      BY <1>1, <3>1, <3>3
    <3>. QED
      BY <3>2, <3>3
  <2>. QED
    BY <1>4, <2>1, <2>2
<1>5. ASSUME NEW u \in Users, NEW d \in Chans, NEW q \in PostIds, NEW r \in CmtIds, PostCmt(u, d, q, r)
      PROVE  post'[c, p].stat = "deleted"
  <2>1. post' = [post EXCEPT ![<<d, q>>].next_comment_id = @ + 1]
    BY <1>5 DEF PostCmt, db_add_cmt
  <2>2. CASE <<d, q>> = <<c, p>>
    BY <1>1, <2>1, <2>2 DEF Post
  <2>3. CASE <<d, q>> # <<c, p>>
    BY <1>1, <2>1, <2>3
  <2>. QED
    BY <2>2, <2>3
<1>6. ASSUME NEW u \in Users, NEW d \in Chans, NEW q \in PostIds, NEW k \in CmtIds,
             PostLike(u, d, q, k) \/ PostUnlike(u, d, q, k)
      PROVE  post'[c, p].stat = "deleted"
  <2>1. PICK by \in {1, -1} : post' = post \/ post' = [post EXCEPT ![<<d, q>>].likes = @ + by]
    BY <1>6 DEF PostLike, PostUnlike, db_add_like, db_rm_like, CountLike
  <2>2. CASE <<d, q>> = <<c, p>>
    BY <1>1, <2>1, <2>2 DEF Post
  <2>3. CASE <<d, q>> # <<c, p>>
    BY <1>1, <2>1, <2>3
  <2>. QED
    BY <2>2, <2>3
<1>7. ASSUME \/ \E u \in Users, n \in Names : CreateChan(u, n)
             \/ \E u \in Users, d \in Chans, n \in Names : UpdChan(u, d, n)
             \/ \E u \in Users, d \in Chans : SubChan(u, d) \/ UnsubChan(u, d)
             \/ Restart
      PROVE  post' = post
  BY <1>7 DEF CreateChan, UpdChan, SubChan, UnsubChan, Restart, bodyVars
<1>8. ASSUME NEW u \in Users, NEW d \in Chans, NEW q \in PostIds, NEW k \in CmtIds,
             \/ \E r \in CmtIds : EditCmt(u, d, q, k, r)
             \/ DelCmt(u, d, q, k)
             \/ \E watched \in BOOLEAN : BlockCmt(u, d, q, k, watched)
             \/ UnblockCmt(u, d, q, k)
             \/ GetCmtsAborts(d, q, k)
             \/ ReportIllegalCmt(u, d, q, k)
      PROVE  post' = post
  BY <1>8 DEF EditCmt, DelCmt, BlockCmt, UnblockCmt, GetCmtsAborts, ReportIllegalCmt, bodyVars
<1>. QED
  BY <1>2, <1>3, <1>4, <1>5, <1>6, <1>7, <1>8, Steps

\* hdl_notify_post_req asks for the status, hdl_del_post_req and the counters
\* leave it, and hdl_pub_post_req never meets an old key.
THEOREM DeletedStays == Spec => DeletedPostFinal
<1>1. ASSUME TypeOK, [Next]_vars
      PROVE  [\A x \in PostKeys : post[x].stat = "deleted" => post'[x].stat = "deleted"]_vars
  <2>1. ASSUME Next, NEW x \in PostKeys, post[x].stat = "deleted"
        PROVE  post'[x].stat = "deleted"
    <3>1. PICK c \in Chans, p \in PostIds : x = <<c, p>>
      BY DEF PostKeys
    <3>. QED
      BY <1>1, <2>1, <3>1, PostStatus
  <2>. QED
    BY <1>1, <2>1
<1>. QED
  BY <1>1, TypeCorrect, PTL DEF Spec, DeletedPostFinal

\* The steps that leave status and reference of every comment alone
LEMMA CmtsAlone ==
    ASSUME TypeOK,
           \/ \E u \in Users, n \in Names : CreateChan(u, n)
           \/ \E u \in Users, c \in Chans, n \in Names : UpdChan(u, c, n)
           \/ \E u \in Users, c \in Chans : SubChan(u, c) \/ UnsubChan(u, c)
           \/ \E u \in Users, c \in Chans, stat \in {"available", "declared"} : AddPost(u, c, stat)
           \/ \E u \in Users, c \in Chans, p \in PostIds : NotifyPost(u, c, p) \/ DelPost(u, c, p)
           \/ \E u \in Users, c \in Chans, p \in PostIds, k \in CmtIds :
                 GetCmtsAborts(c, p, k) \/ ReportIllegalCmt(u, c, p, k)
           \/ \E u \in Users, c \in Chans, p \in PostIds, k \in CmtIds :
                 PostLike(u, c, p, k) \/ PostUnlike(u, c, p, k)
           \/ Restart
    PROVE  \A c \in Chans, p \in PostIds, k \in CmtIds :
              cmt'[c, p, k].stat = cmt[c, p, k].stat /\ cmt'[c, p, k].ref = cmt[c, p, k].ref
<1>1. ASSUME NEW u \in Users, NEW c \in Chans, NEW p \in PostIds, NEW k \in CmtIds,
             PostLike(u, c, p, k) \/ PostUnlike(u, c, p, k)
      PROVE  \A d \in Chans, q \in PostIds, m \in CmtIds :
                cmt'[d, q, m].stat = cmt[d, q, m].stat /\ cmt'[d, q, m].ref = cmt[d, q, m].ref
  <2>1. PICK by \in Int : CountLike(c, p, k, by)
    BY <1>1 DEF PostLike, PostUnlike, db_add_like, db_rm_like
  <2>2. /\ cmt' \in [CmtKeys -> Cmt]
        /\ \A d \in Chans, q \in PostIds, m \in CmtIds :
              /\ cmt'[d, q, m].stat = cmt[d, q, m].stat
              /\ cmt'[d, q, m].ref = cmt[d, q, m].ref
              /\ d # c \/ q # p \/ m # k \/ k = 0 => cmt'[d, q, m].likes = cmt[d, q, m].likes
        /\ k # 0 => cmt'[c, p, k].likes = cmt[c, p, k].likes + by
    BY <2>1, CountedCmt
  <2>. QED
    BY <2>2
<1>2. ASSUME NEW u \in Users, NEW c \in Chans, NEW p \in PostIds, NEW k \in CmtIds,
             GetCmtsAborts(c, p, k) \/ ReportIllegalCmt(u, c, p, k)
      PROVE  cmt' = cmt
  BY <1>2 DEF GetCmtsAborts, ReportIllegalCmt, bodyVars
<1>3. ASSUME \/ \E u \in Users, n \in Names : CreateChan(u, n)
             \/ \E u \in Users, c \in Chans, n \in Names : UpdChan(u, c, n)
             \/ \E u \in Users, c \in Chans : SubChan(u, c) \/ UnsubChan(u, c)
             \/ \E u \in Users, c \in Chans, stat \in {"available", "declared"} : AddPost(u, c, stat)
             \/ \E u \in Users, c \in Chans, p \in PostIds : NotifyPost(u, c, p) \/ DelPost(u, c, p)
             \/ Restart
      PROVE  cmt' = cmt
  BY <1>3 DEF CreateChan, UpdChan, SubChan, UnsubChan, AddPost, NotifyPost, DelPost, Restart, bodyVars
<1>. QED
  BY <1>1, <1>2, <1>3

\* What a step of hdl_del_cmt_req, hdl_block_cmt_req or hdl_unblock_cmt_req does
\* to the comments: one gets another status
NewStatus(c, p, k, stat) ==
    /\ cmt'[c, p, k].stat = stat
    /\ \A d \in Chans, q \in PostIds, m \in CmtIds :
          /\ d # c \/ q # p \/ m # k => cmt'[d, q, m].stat = cmt[d, q, m].stat
          /\ cmt'[d, q, m].ref = cmt[d, q, m].ref

LEMMA OneStatus ==
    ASSUME TypeOK, NEW c \in Chans, NEW p \in PostIds, NEW k \in CmtIds,
           NEW stat \in {"available", "deleted", "blocked"}, db_set_cmt_status(c, p, k, stat)
    PROVE  NewStatus(c, p, k, stat)
<1>1. cmt[c, p, k] \in Cmt
  BY Rows
<1>2. cmt' = [cmt EXCEPT ![<<c, p, k>>] = [cmt[c, p, k] EXCEPT !.stat = stat]]
  BY DEF db_set_cmt_status
<1>3. PICK new \in Cmt : /\ cmt' = [cmt EXCEPT ![<<c, p, k>>] = new]
                         /\ new.stat = stat /\ new.ref = cmt[c, p, k].ref
  <2>. DEFINE row == [cmt[c, p, k] EXCEPT !.stat = stat]
  <2>1. row \in Cmt /\ row.stat = stat /\ row.ref = cmt[c, p, k].ref
    BY <1>1 DEF Cmt
  <2>2. cmt' = [cmt EXCEPT ![<<c, p, k>>] = row]
    BY <1>2
  <2>. HIDE DEF row
  <2>. QED
    BY <2>1, <2>2
<1>4. cmt' = [cmt EXCEPT ![<<c, p, k>>] = new]
  BY <1>3
<1>5. cmt'[c, p, k] = new
  BY <1>4 DEF TypeOK, CmtKeys
<1>6. \A d \in Chans, q \in PostIds, m \in CmtIds :
        d # c \/ q # p \/ m # k => cmt'[d, q, m] = cmt[d, q, m]
  BY <1>4, CmtRow
<1>. QED
  BY <1>3, <1>5, <1>6 DEF NewStatus

\* What a step of hdl_edit_cmt_req does to the comments: one may get another
\* reference
NewRef(c, p, k) ==
    \A d \in Chans, q \in PostIds, m \in CmtIds :
       /\ cmt'[d, q, m].stat = cmt[d, q, m].stat
       /\ d # c \/ q # p \/ m # k => cmt'[d, q, m] = cmt[d, q, m]

LEMMA OneRef ==
    ASSUME TypeOK, NEW c \in Chans, NEW p \in PostIds, NEW k \in CmtIds,
           NEW r \in CmtIds, db_upd_cmt(c, p, k, r)
    PROVE  NewRef(c, p, k)
<1>1. cmt[c, p, k] \in Cmt
  BY Rows
<1>2. cmt' = [cmt EXCEPT ![<<c, p, k>>] = [cmt[c, p, k] EXCEPT !.ref = r]]
  BY DEF db_upd_cmt
<1>3. PICK new \in Cmt : /\ cmt' = [cmt EXCEPT ![<<c, p, k>>] = new]
                         /\ new.stat = cmt[c, p, k].stat
  <2>. DEFINE row == [cmt[c, p, k] EXCEPT !.ref = r]
  <2>1. row \in Cmt /\ row.stat = cmt[c, p, k].stat
    BY <1>1 DEF Cmt
  <2>2. cmt' = [cmt EXCEPT ![<<c, p, k>>] = row]
    BY <1>2
  <2>. HIDE DEF row
  <2>. QED
    BY <2>1, <2>2
<1>4. cmt' = [cmt EXCEPT ![<<c, p, k>>] = new]
  BY <1>3
<1>5. cmt'[c, p, k] = new
  BY <1>4 DEF TypeOK, CmtKeys
<1>6. \A d \in Chans, q \in PostIds, m \in CmtIds :
        d # c \/ q # p \/ m # k => cmt'[d, q, m] = cmt[d, q, m]
  BY <1>4, CmtRow
<1>. QED
  BY <1>3, <1>5, <1>6 DEF NewRef

\* What a step of hdl_post_cmt_req does to the comments: one that was not there
OneNew(c, p, r) ==
    \E n \in CmtIds \ {0} :
       /\ cmt[c, p, n].stat = "none" /\ cmt'[c, p, n].ref = r /\ RefOk(c, p, r)
       /\ \A d \in Chans, q \in PostIds, m \in CmtIds :
             d # c \/ q # p \/ m # n => cmt'[d, q, m] = cmt[d, q, m]

LEMMA OneMore ==
    ASSUME TypeOK, NEW u \in Users, NEW c \in Chans, NEW p \in PostIds, NEW r \in CmtIds,
           PostCmt(u, c, p, r)
    PROVE  OneNew(c, p, r)
<1>. DEFINE new == [stat |-> "available", uid |-> u, ref |-> r, likes |-> 0]
<1>1. post[c, p].next_comment_id \in 1..MaxCmt + 1
  BY Rows DEF Post
<1>2. /\ post[c, p].next_comment_id <= MaxCmt /\ RefOk(c, p, r)
      /\ cmt[c, p, post[c, p].next_comment_id].stat = "none"
      /\ cmt' = [cmt EXCEPT ![<<c, p, post[c, p].next_comment_id>>] = new]
  BY DEF PostCmt, db_add_cmt, db_cmt_exists
<1>3. new \in Cmt /\ new.ref = r
  BY DEF Cmt
<1>. HIDE DEF new
<1>4. PICK n \in 1..MaxCmt + 1 : n = post[c, p].next_comment_id
  BY <1>1
<1>5. n \in CmtIds \ {0}
  <2>1. n <= MaxCmt
    BY <1>2, <1>4
  <2>. QED
    BY <2>1, Consts DEF CmtIds
<1>6. cmt' = [cmt EXCEPT ![<<c, p, n>>] = new] /\ cmt[c, p, n].stat = "none"
  BY <1>2, <1>4
<1>7. cmt'[c, p, n] = new
  BY <1>5, <1>6 DEF TypeOK, CmtKeys
<1>8. \A d \in Chans, q \in PostIds, m \in CmtIds :
        d # c \/ q # p \/ m # n => cmt'[d, q, m] = cmt[d, q, m]
  <2>1. cmt' = [cmt EXCEPT ![<<c, p, n>>] = new] /\ n \in CmtIds
    BY <1>5, <1>6
  <2>. QED
    BY <1>3, <2>1, CmtRow
<1>. QED
  BY <1>2, <1>3, <1>5, <1>6, <1>7, <1>8 DEF OneNew

LEMMA CmtBack ==
    ASSUME TypeOK, Next, NEW c \in Chans, NEW p \in PostIds, NEW k \in CmtIds,
           cmt[c, p, k].stat = "deleted", cmt'[c, p, k].stat # "deleted"
    PROVE  \/ UnblockCmt(cmt[c, p, k].uid, c, p, k)
           \/ \E watched \in BOOLEAN : BlockCmt(cmt[c, p, k].uid, c, p, k, watched)
<1>1. ASSUME NEW u \in Users, NEW d \in Chans, NEW q \in PostIds, NEW r \in CmtIds, PostCmt(u, d, q, r)
      PROVE  FALSE
  <2>0. OneNew(d, q, r)
    BY <1>1, OneMore
  <2>1. PICK n \in CmtIds \ {0} :
           /\ cmt[d, q, n].stat = "none" /\ cmt'[d, q, n].ref = r /\ RefOk(d, q, r)
           /\ \A e \in Chans, s \in PostIds, m \in CmtIds :
                 e # d \/ s # q \/ m # n => cmt'[e, s, m] = cmt[e, s, m]
    BY <2>0 DEF OneNew
  <2>2. ~(c = d /\ p = q /\ k = n)
    BY <2>1
  <2>3. cmt'[c, p, k] = cmt[c, p, k]
    BY <2>1, <2>2
  <2>. QED
    BY <2>3
<1>2. ASSUME NEW u \in Users, NEW d \in Chans, NEW q \in PostIds, NEW m \in CmtIds, NEW r \in CmtIds,
             EditCmt(u, d, q, m, r)
      PROVE  FALSE
  <2>1. db_upd_cmt(d, q, m, r)
    BY <1>2 DEF EditCmt
  <2>2. NewRef(d, q, m)
    BY <2>1, OneRef
  <2>. QED
    BY <2>2 DEF NewRef
<1>3. ASSUME NEW u \in Users, NEW d \in Chans, NEW q \in PostIds, NEW m \in CmtIds, DelCmt(u, d, q, m)
      PROVE  FALSE
  <2>1. db_set_cmt_status(d, q, m, "deleted")
    BY <1>3 DEF DelCmt
  <2>2. NewStatus(d, q, m, "deleted")
    BY <2>1, OneStatus
  <2>3. CASE c = d /\ p = q /\ k = m
    BY <2>2, <2>3 DEF NewStatus
  <2>4. CASE ~(c = d /\ p = q /\ k = m)
    <3>1. cmt'[c, p, k].stat = cmt[c, p, k].stat
      BY <2>2, <2>4 DEF NewStatus
    <3>. QED
      BY <3>1
  <2>. QED
    BY <2>3, <2>4
<1>4. ASSUME NEW u \in Users, NEW d \in Chans, NEW q \in PostIds, NEW m \in CmtIds,
             UnblockCmt(u, d, q, m)
      PROVE  UnblockCmt(cmt[c, p, k].uid, c, p, k)
  <2>1. db_set_cmt_status(d, q, m, "available") /\ cmt[d, q, m].uid = u
    BY <1>4 DEF UnblockCmt, db_cmt_uid
  <2>2. NewStatus(d, q, m, "available")
    BY <2>1, OneStatus
  <2>3. d = c /\ q = p /\ m = k
    <3>1. SUFFICES ASSUME ~(c = d /\ p = q /\ k = m) PROVE FALSE
      OBVIOUS
    <3>2. cmt'[c, p, k].stat = cmt[c, p, k].stat
      BY <2>2, <3>1 DEF NewStatus
    <3>. QED
      BY <3>2
  <2>. QED
    BY <1>4, <2>1, <2>3
<1>5. ASSUME NEW u \in Users, NEW d \in Chans, NEW q \in PostIds, NEW m \in CmtIds,
             NEW watched \in BOOLEAN, BlockCmt(u, d, q, m, watched)
      PROVE  BlockCmt(cmt[c, p, k].uid, c, p, k, watched)
  <2>0. db_set_cmt_status(d, q, m, "blocked")
    BY <1>5 DEF BlockCmt
  <2>1. cmt[d, q, m].uid = u
    BY <1>5 DEF BlockCmt, db_cmt_uid
  <2>2. NewStatus(d, q, m, "blocked")
    BY <2>0, OneStatus
  <2>3. d = c /\ q = p /\ m = k
    <3>1. SUFFICES ASSUME ~(c = d /\ p = q /\ k = m) PROVE FALSE
      OBVIOUS
    <3>2. cmt'[c, p, k].stat = cmt[c, p, k].stat
      BY <2>2, <3>1 DEF NewStatus
    <3>. QED
      BY <3>2
  <2>. QED
    BY <1>5, <2>1, <2>3
<1>. QED
  BY <1>1, <1>2, <1>3, <1>4, <1>5, CmtsAlone, Steps

\* Of all sequences of requests only unblock_comment and block_comment, by the
\* author, bring a deleted comment back.
THEOREM OnlyUnblockRevives == Spec => DeletedCmtBack
<1>. DEFINE Back ==
       \A x \in CmtKeys :
          cmt[x].stat = "deleted" /\ cmt'[x].stat # "deleted" =>
              \/ UnblockCmt(cmt[x].uid, x[1], x[2], x[3])
              \/ \E watched \in BOOLEAN : BlockCmt(cmt[x].uid, x[1], x[2], x[3], watched)
<1>1. ASSUME TypeOK, Next
      PROVE  Back
  <2>1. SUFFICES ASSUME NEW x \in CmtKeys, cmt[x].stat = "deleted", cmt'[x].stat # "deleted"
                 PROVE  \/ UnblockCmt(cmt[x].uid, x[1], x[2], x[3])
                        \/ \E watched \in BOOLEAN : BlockCmt(cmt[x].uid, x[1], x[2], x[3], watched)
    OBVIOUS
  <2>2. PICK c \in Chans, p \in PostIds, k \in CmtIds : x = <<c, p, k>>
    BY DEF CmtKeys
  <2>3. x[1] = c /\ x[2] = p /\ x[3] = k
    BY <2>2
  <2>. QED
    BY <1>1, <2>1, <2>2, <2>3, CmtBack
<1>2. ASSUME TypeOK, [Next]_vars
      PROVE  [Back]_vars
  <2>. HIDE DEF Back
  <2>. QED
    BY <1>1, <1>2
<1>. QED
  BY <1>2, TypeCorrect, PTL DEF Spec, DeletedCmtBack

\* A step that adds no comment to a post and keeps what its comments reply to
\* closes no ring
LEMMA NoNewRing ==
    ASSUME NEW c \in Chans, NEW p \in PostIds, ReplyLoop(c, p)',
           \A k \in CmtIds : /\ cmt'[c, p, k].ref = cmt[c, p, k].ref
                             /\ cmt[c, p, k].stat = "none" => cmt'[c, p, k].stat = "none"
    PROVE  ReplyLoop(c, p)
<1>1. PICK ks \in SUBSET (CmtIds \ {0}) :
         ks # {} /\ \A k \in ks : cmt'[c, p, k].stat # "none" /\ cmt'[c, p, k].ref \in ks
  BY DEF ReplyLoop, db_cmt_exists
<1>2. ASSUME NEW k \in ks
      PROVE  cmt[c, p, k].stat # "none" /\ cmt[c, p, k].ref \in ks
  <2>1. k \in CmtIds
    BY <1>2
  <2>2. cmt'[c, p, k].stat # "none" /\ cmt'[c, p, k].ref \in ks
    BY <1>1, <1>2
  <2>. QED
    BY <2>1, <2>2
<1>. QED
  BY <1>1, <1>2 DEF ReplyLoop, db_cmt_exists

\* A ring with the new comment in it was a ring without it: nothing replied to
\* the new comment, and it replies to one that was there
LEMMA RingWithoutNew ==
    ASSUME Refers, NEW c \in Chans, NEW p \in PostIds, NEW r \in CmtIds,
           OneNew(c, p, r), ReplyLoop(c, p)'
    PROVE  ReplyLoop(c, p)
<1>1. PICK ks \in SUBSET (CmtIds \ {0}) :
         ks # {} /\ \A k \in ks : cmt'[c, p, k].stat # "none" /\ cmt'[c, p, k].ref \in ks
  BY DEF ReplyLoop, db_cmt_exists
<1>2. PICK n \in CmtIds \ {0} :
         /\ cmt[c, p, n].stat = "none" /\ cmt'[c, p, n].ref = r /\ RefOk(c, p, r)
         /\ \A d \in Chans, q \in PostIds, m \in CmtIds :
               d # c \/ q # p \/ m # n => cmt'[d, q, m] = cmt[d, q, m]
  BY DEF OneNew
<1>3. r # n
  BY <1>2 DEF RefOk, db_cmt_exists
<1>4. ks \ {n} # {}
  <2>1. SUFFICES ASSUME ks = {n} PROVE FALSE
    BY <1>1
  <2>2. cmt'[c, p, n].ref \in ks
    BY <1>1, <2>1
  <2>. QED
    BY <1>2, <1>3, <2>1, <2>2
<1>5. ASSUME NEW k \in ks \ {n}
      PROVE  cmt[c, p, k].stat # "none" /\ cmt[c, p, k].ref \in ks \ {n}
  <2>1. k \in CmtIds /\ k \in ks /\ k # n
    BY <1>5
  <2>2. cmt'[c, p, k] = cmt[c, p, k]
    BY <1>2, <2>1
  <2>3. cmt'[c, p, k].stat # "none" /\ cmt'[c, p, k].ref \in ks
    BY <1>1, <2>1
  <2>4. cmt[c, p, k].ref # n
    <3>1. cmt[c, p, k].stat # "none" /\ cmt[c, p, n].stat = "none"
      BY <1>2, <2>2, <2>3
    <3>2. db_cmt_exists(c, p, k) /\ ~db_cmt_exists(c, p, n)
      BY <3>1 DEF db_cmt_exists
    <3>3. db_cmt_exists(c, p, k) /\ cmt[c, p, k].ref = n => db_cmt_exists(c, p, n)
      BY <2>1 DEF Refers
    <3>. QED
      BY <3>2, <3>3
  <2>. QED
    BY <2>2, <2>3, <2>4
<1>6. ks \ {n} \in SUBSET (CmtIds \ {0})
  BY <1>1
<1>. QED
  BY <1>4, <1>5, <1>6 DEF ReplyLoop, db_cmt_exists

LEMMA RingByEdit ==
    ASSUME TypeOK, Refers, Next, NEW c \in Chans, NEW p \in PostIds,
           ~ReplyLoop(c, p), ReplyLoop(c, p)'
    PROVE  \E u \in Users, k \in CmtIds, r \in CmtIds : EditCmt(u, c, p, k, r)
<1>. DEFINE Kept(k) == /\ cmt'[c, p, k].ref = cmt[c, p, k].ref
                       /\ cmt[c, p, k].stat = "none" => cmt'[c, p, k].stat = "none"
<1>1. ~(\A k \in CmtIds : Kept(k))
  BY NoNewRing
<1>2. ASSUME NEW u \in Users, NEW d \in Chans, NEW q \in PostIds, NEW r \in CmtIds, PostCmt(u, d, q, r)
      PROVE  FALSE
  <2>1. OneNew(d, q, r)
    BY <1>2, OneMore
  <2>2. CASE d = c /\ q = p
    BY <2>1, <2>2, RingWithoutNew
  <2>3. CASE d # c \/ q # p
    <3>1. \A k \in CmtIds : cmt'[c, p, k] = cmt[c, p, k]
      BY <2>1, <2>3 DEF OneNew
    <3>. QED
      BY <1>1, <3>1
  <2>. QED
    BY <2>2, <2>3
<1>3. ASSUME NEW u \in Users, NEW d \in Chans, NEW q \in PostIds, NEW m \in CmtIds, NEW r \in CmtIds,
             EditCmt(u, d, q, m, r)
      PROVE  d = c /\ q = p
  <2>1. SUFFICES ASSUME d # c \/ q # p PROVE FALSE
    OBVIOUS
  <2>2. db_upd_cmt(d, q, m, r)
    BY <1>3 DEF EditCmt
  <2>3. NewRef(d, q, m)
    BY <2>2, OneRef
  <2>4. \A k \in CmtIds : cmt'[c, p, k] = cmt[c, p, k]
    BY <2>1, <2>3 DEF NewRef
  <2>. QED
    BY <1>1, <2>4
<1>4. ASSUME NEW d \in Chans, NEW q \in PostIds, NEW m \in CmtIds,
             NEW stat \in {"available", "deleted", "blocked"},
             NewStatus(d, q, m, stat), db_cmt_exists(d, q, m)
      PROVE  FALSE
  <2>1. ASSUME NEW k \in CmtIds
        PROVE  Kept(k)
    <3>1. cmt'[c, p, k].ref = cmt[c, p, k].ref
      BY <1>4 DEF NewStatus
    <3>2. CASE d = c /\ q = p /\ m = k
      BY <1>4, <3>1, <3>2 DEF db_cmt_exists
    <3>3. CASE ~(d = c /\ q = p /\ m = k)
      <4>1. cmt'[c, p, k].stat = cmt[c, p, k].stat
        BY <1>4, <3>3 DEF NewStatus
      <4>. QED
        BY <3>1, <4>1
    <3>. QED
      BY <3>2, <3>3
  <2>. QED
    BY <1>1, <2>1
<1>5. ASSUME NEW u \in Users, NEW d \in Chans, NEW q \in PostIds, NEW m \in CmtIds,
             \/ DelCmt(u, d, q, m)
             \/ \E watched \in BOOLEAN : BlockCmt(u, d, q, m, watched)
             \/ UnblockCmt(u, d, q, m)
      PROVE  FALSE
  <2>1. PICK stat \in {"available", "deleted", "blocked"} :
           db_set_cmt_status(d, q, m, stat) /\ db_cmt_exists(d, q, m)
    BY <1>5 DEF DelCmt, BlockCmt, UnblockCmt, db_cmt_is_avail, db_cmt_exists
  <2>2. NewStatus(d, q, m, stat)
    BY <2>1, OneStatus
  <2>. QED
    BY <1>4, <2>1, <2>2
<1>6. ASSUME \A d \in Chans, q \in PostIds, k \in CmtIds :
                cmt'[d, q, k].stat = cmt[d, q, k].stat /\ cmt'[d, q, k].ref = cmt[d, q, k].ref
      PROVE  FALSE
  BY <1>1, <1>6
<1>. HIDE DEF Kept
<1>. QED
  BY <1>2, <1>3, <1>5, <1>6, CmtsAlone, Steps

\* A new comment replies to one that is there, so only edit_comment can make
\* comments of a post replies of each other.
THEOREM RingsOnlyByEdit == Spec => LoopsOnlyByEdit
<1>. DEFINE Closed ==
       \A c \in Chans, p \in PostIds :
          ~ReplyLoop(c, p) /\ ReplyLoop(c, p)' =>
              \E u \in Users, k \in CmtIds, r \in CmtIds : EditCmt(u, c, p, k, r)
<1>1. ASSUME IInv, Next
      PROVE  Closed
  BY <1>1, RingByEdit DEF IInv
<1>2. ASSUME IInv, [Next]_vars
      PROVE  [Closed]_vars
  <2>. HIDE DEF Closed
  <2>. QED
    BY <1>1, <1>2
<1>. QED
  BY <1>2, Invariant, PTL DEF Spec, LoopsOnlyByEdit

=============================================================================
