-------------------------------- MODULE Feeds --------------------------------
(***************************************************************************)
(* Channels, posts, comments, likes, subscriptions and reports: the        *)
(* handlers of src/feeds.c that change them, the SQLite tables behind them *)
(* (src/db.cpp), and the cache of the channels that feeds.c keeps in       *)
(* memory and rebuilds from the tables when the daemon starts.             *)
(*                                                                         *)
(* One thread runs the handlers one after the other, and each handler      *)
(* makes its change to the tables in one SQLite transaction, so a step is  *)
(* one successful request.  A request that a handler refuses, or whose     *)
(* transaction fails, changes nothing and is not a step.  A crash between  *)
(* the commit and the update of the memory loses the memory, so it is the  *)
(* whole step followed by Restart.                                         *)
(*                                                                         *)
(* The user u of a request is the one its access token names.  Texts,      *)
(* times, proofs and pictures are left out: edit_post and                  *)
(* update_user_info change nothing else and have no action.                *)
(***************************************************************************)
EXTENDS Integers, FiniteSets

CONSTANTS
    Users,          \* users that have signed in
    Owner,          \* the user with OWNER_USER_ID
    Names,          \* channel names
    NoName,         \* no channel's name
    MaxFeeds,       \* channels a daemon can have: 5 in hdl_create_chan_req
    MaxPost,        \* bound on the posts of a channel
    MaxCmt,         \* bound on the comments of a post
    MaxSubs,        \* bound on the rows of subscriptions
    MaxLikes,       \* bound on the rows of likes
    MaxReports      \* bound on the rows of reported_comments

ASSUME FeedsAssumption ==
    /\ Owner \in Users
    /\ NoName \notin Names
    /\ IsFiniteSet(Users)
    /\ MaxFeeds \in Nat /\ MaxPost \in Nat /\ MaxCmt \in Nat
    /\ MaxSubs \in Nat /\ MaxLikes \in Nat /\ MaxReports \in Nat

VARIABLES
    daemon,         \* whether the process runs or has called abort()
    nxt_chan_id,    \* memory: the id of the next channel
    chans_by_id,    \* memory: keys of the hash table by id
    chans_by_name,  \* memory: the hash table by name; 0 where there is no entry
    mem,            \* memory: Chan.info, for the keys of chans_by_id
    nchans,         \* table channels: number of rows, and the last id given
    chan,           \* table channels: the rows
    post,           \* table posts
    cmt,            \* table comments
    subs,           \* table subscriptions
    likes,          \* table likes
    reported        \* table reported_comments

memVars  == <<nxt_chan_id, chans_by_id, chans_by_name, mem>>
chanVars == <<nchans, chan>>
bodyVars == <<post, cmt, likes, reported>>
vars == <<daemon, memVars, chanVars, subs, bodyVars>>

Chans   == 1..MaxFeeds
PostIds == 0..MaxPost      \* ids a request can name; no post has the id 0
CmtIds  == 0..MaxCmt       \* 0 in a request stands for the post itself

PostKeys == Chans \X PostIds
CmtKeys  == Chans \X PostIds \X CmtIds

Chan == [name : Names \cup {NoName}, next_post_id : 1..MaxPost+1, subs : Int]
Post == [stat : {"none", "available", "deleted", "declared"},
         next_comment_id : 1..MaxCmt+1, likes : Int]
Cmt  == [stat : {"none", "available", "deleted", "blocked"},
         uid : Users, ref : CmtIds, likes : Int]

\* What stands for a row that does not exist, with the defaults of the columns
NoChan == [name |-> NoName, next_post_id |-> 1, subs |-> 0]
NoPost == [stat |-> "none", next_comment_id |-> 1, likes |-> 0]
NoCmt  == [stat |-> "none", uid |-> Owner, ref |-> 0, likes |-> 0]

TypeOK ==
    /\ daemon \in {"up", "aborted"}
    /\ nxt_chan_id \in 1..MaxFeeds+1
    /\ chans_by_id \in SUBSET Chans
    /\ chans_by_name \in [Names -> 0..MaxFeeds]
    /\ mem \in [Chans -> Chan]
    /\ nchans \in 0..MaxFeeds
    /\ chan \in [Chans -> Chan]
    /\ post \in [PostKeys -> Post]
    /\ cmt \in [CmtKeys -> Cmt]
    /\ subs \in SUBSET (Users \X Chans)
    /\ likes \in SUBSET (Users \X CmtKeys)
    /\ reported \in SUBSET (Users \X CmtKeys)

\* The first start: db_init creates empty tables
Init ==
    /\ daemon = "up"
    /\ nxt_chan_id = 1 /\ chans_by_id = {} /\ nchans = 0
    /\ chans_by_name = [n \in Names |-> 0]
    /\ mem = [c \in Chans |-> NoChan]
    /\ chan = [c \in Chans |-> NoChan]
    /\ post = [x \in PostKeys |-> NoPost]
    /\ cmt = [x \in CmtKeys |-> NoCmt]
    /\ subs = {} /\ likes = {} /\ reported = {}

-----------------------------------------------------------------------------
(* The lookups of feeds.c and db.cpp.  An operator whose name starts with  *)
(* Bad is a wrong variant of the one after it.                             *)

BadBelowLimit == nchans <= MaxFeeds
\* hdl_create_chan_req: db_get_count("channels") is below the limit
BelowLimit == nchans < MaxFeeds

chan_exist_by_name(n) == chans_by_name[n] # 0

BadChanCreateUpd(c, n) == [NoChan EXCEPT !.name = n, !.subs = mem[c].subs]
\* What hdl_upd_chan_req keeps of the old Chan.info
chan_create_upd(c, n) == [mem[c] EXCEPT !.name = n]

\* The hash table by name after chan_rm of the old name and the put of n
chan_sub(c, n) == [[chans_by_name EXCEPT ![mem[c].name] = 0] EXCEPT ![n] = c]

BadNewPostId(c) == chan[c].next_post_id - 1
\* The id hdl_pub_post_req and hdl_declare_post_req give the post
new_post_id(c) == mem[c].next_post_id

\* The test "post_id >= chan->info.next_post_id" of the handlers passed
PostIdKnown(c, p) == p < mem[c].next_post_id

db_post_exists(c, p) == post[c, p].stat # "none"
db_post_is_avail(c, p) == post[c, p].stat = "available"

BadNotifiable(c, p) == db_post_exists(c, p)
\* hdl_notify_post_req: db_get_post_status finds a post that is not deleted
Notifiable(c, p) == db_post_exists(c, p) /\ post[c, p].stat # "deleted"

db_cmt_exists(c, p, k) == cmt[c, p, k].stat # "none"
db_cmt_is_avail(c, p, k) == cmt[c, p, k].stat = "available"
db_cmt_uid(c, p, k) == cmt[c, p, k].uid

BadRefOk(c, p, r) == TRUE
\* The id of a comment in a request is 0 or names a comment of the post
RefOk(c, p, r) == r # 0 => db_cmt_exists(c, p, r)

BadLikeExists(u, c, p, k) == TRUE
db_like_exists(u, c, p, k) == <<u, <<c, p, k>>>> \in likes

BadIsSuber(u, c) == TRUE
db_is_suber(u, c) == <<u, c>> \in subs

-----------------------------------------------------------------------------
(* The transactions of db.cpp: when they succeed, and what they change.    *)

\* The column name of channels is UNIQUE
NameFree(n, c) == \A d \in 1..nchans : d # c => chan[d].name # n

db_create_chan(n) ==
    /\ NameFree(n, 0)
    /\ nchans' = nchans + 1
    /\ chan' = [chan EXCEPT ![nchans + 1] = [NoChan EXCEPT !.name = n]]

db_upd_chan(c, n) ==
    /\ NameFree(n, c)
    /\ chan' = [chan EXCEPT ![c].name = n]

db_add_sub(u, c) ==
    /\ <<u, c>> \notin subs
    /\ subs' = subs \cup {<<u, c>>}
    /\ chan' = [chan EXCEPT ![c].subs = @ + 1]

db_unsub(u, c) ==
    /\ subs' = subs \ {<<u, c>>}
    /\ chan' = [chan EXCEPT ![c].subs = @ - 1]

\* The key (channel, post) is new, and the counter of the channel moves on
db_add_post(c, p, stat) ==
    /\ ~db_post_exists(c, p)
    /\ post' = [post EXCEPT ![<<c, p>>] = [NoPost EXCEPT !.stat = stat]]
    /\ chan' = [chan EXCEPT ![c].next_post_id = @ + 1]

db_set_post_status(c, p, stat) == post' = [post EXCEPT ![<<c, p>>].stat = stat]

\* The id of the comment comes from the row of the post, which must exist
db_add_cmt(u, c, p, r) ==
    LET k == post[c, p].next_comment_id IN
    /\ db_post_exists(c, p)
    /\ k <= MaxCmt
    /\ ~db_cmt_exists(c, p, k)
    /\ cmt' = [cmt EXCEPT ![<<c, p, k>>] =
                 [stat |-> "available", uid |-> u, ref |-> r, likes |-> 0]]
    /\ post' = [post EXCEPT ![<<c, p>>].next_comment_id = @ + 1]

db_upd_cmt(c, p, k, r) == cmt' = [cmt EXCEPT ![<<c, p, k>>].ref = r]

db_set_cmt_status(c, p, k, stat) == cmt' = [cmt EXCEPT ![<<c, p, k>>].stat = stat]

\* The counter of a post (k = 0) or of a comment moves by d
CountLike(c, p, k, d) ==
    IF k = 0
    THEN post' = [post EXCEPT ![<<c, p>>].likes = @ + d] /\ UNCHANGED cmt
    ELSE cmt' = [cmt EXCEPT ![<<c, p, k>>].likes = @ + d] /\ UNCHANGED post

\* The transaction ends by reading the row of the subject, and is rolled back
\* when there is none (a like of post 0) or when the like is already there
db_add_like(u, c, p, k) ==
    /\ IF k = 0 THEN db_post_exists(c, p) ELSE db_cmt_exists(c, p, k)
    /\ <<u, <<c, p, k>>>> \notin likes
    /\ CountLike(c, p, k, 1)
    /\ likes' = likes \cup {<<u, <<c, p, k>>>>}

db_rm_like(u, c, p, k) ==
    /\ CountLike(c, p, k, -1)
    /\ likes' = likes \ {<<u, <<c, p, k>>>>}

\* INSERT OR REPLACE
db_add_reported_cmts(u, c, p, k) ==
    reported' = reported \cup {<<u, <<c, p, k>>>>}

-----------------------------------------------------------------------------
(* The handlers of feeds.c: channels and subscriptions *)

\* hdl_create_chan_req
CreateChan(u, n) ==
    /\ daemon = "up"
    /\ BelowLimit
    /\ u = Owner
    /\ ~chan_exist_by_name(n)
    /\ db_create_chan(n)
    /\ chans_by_id' = chans_by_id \cup {nxt_chan_id}
    /\ chans_by_name' = [chans_by_name EXCEPT ![n] = nxt_chan_id]
    /\ mem' = [mem EXCEPT ![nxt_chan_id] = [NoChan EXCEPT !.name = n]]
    /\ nxt_chan_id' = nxt_chan_id + 1
    /\ UNCHANGED <<daemon, subs, bodyVars>>

\* hdl_upd_chan_req: the channel gets the name n, maybe the one it has
UpdChan(u, c, n) ==
    /\ daemon = "up"
    /\ u = Owner
    /\ c \in chans_by_id
    /\ n = mem[c].name \/ ~chan_exist_by_name(n)
    /\ db_upd_chan(c, n)
    /\ mem' = [mem EXCEPT ![c] = chan_create_upd(c, n)]
    /\ chans_by_name' = chan_sub(c, n)
    /\ UNCHANGED <<daemon, nxt_chan_id, chans_by_id, nchans, subs, bodyVars>>

\* hdl_sub_chan_req
SubChan(u, c) ==
    /\ daemon = "up"
    /\ c \in chans_by_id
    /\ ~db_is_suber(u, c)
    /\ Cardinality(subs) < MaxSubs
    /\ db_add_sub(u, c)
    /\ mem' = [mem EXCEPT ![c].subs = @ + 1]
    /\ UNCHANGED <<daemon, nxt_chan_id, chans_by_id, chans_by_name, nchans, bodyVars>>

\* hdl_unsub_chan_req
UnsubChan(u, c) ==
    /\ daemon = "up"
    /\ c \in chans_by_id
    /\ db_is_suber(u, c)
    /\ db_unsub(u, c)
    /\ mem' = [mem EXCEPT ![c].subs = @ - 1]
    /\ UNCHANGED <<daemon, nxt_chan_id, chans_by_id, chans_by_name, nchans, bodyVars>>

-----------------------------------------------------------------------------
(* Posts *)

AddPost(u, c, stat) ==
    /\ daemon = "up"
    /\ u = Owner
    /\ c \in chans_by_id
    /\ new_post_id(c) <= MaxPost
    /\ db_add_post(c, new_post_id(c), stat)
    /\ mem' = [mem EXCEPT ![c].next_post_id = @ + 1]
    /\ UNCHANGED <<daemon, nxt_chan_id, chans_by_id, chans_by_name, nchans,
                   subs, cmt, likes, reported>>

\* hdl_pub_post_req
PubPost(u, c) == AddPost(u, c, "available")

\* hdl_declare_post_req
DeclarePost(u, c, with_notify) ==
    AddPost(u, c, IF with_notify THEN "available" ELSE "declared")

\* hdl_notify_post_req
NotifyPost(u, c, p) ==
    /\ daemon = "up"
    /\ u = Owner
    /\ c \in chans_by_id
    /\ Notifiable(c, p)
    /\ db_set_post_status(c, p, "available")
    /\ UNCHANGED <<daemon, memVars, chanVars, subs, cmt, likes, reported>>

\* hdl_del_post_req
DelPost(u, c, p) ==
    /\ daemon = "up"
    /\ u = Owner
    /\ c \in chans_by_id
    /\ db_post_is_avail(c, p)
    /\ db_set_post_status(c, p, "deleted")
    /\ UNCHANGED <<daemon, memVars, chanVars, subs, cmt, likes, reported>>

-----------------------------------------------------------------------------
(* Comments *)

\* hdl_post_cmt_req; r is the comment replied to, or 0
PostCmt(u, c, p, r) ==
    /\ daemon = "up"
    /\ c \in chans_by_id
    /\ PostIdKnown(c, p)
    /\ RefOk(c, p, r)
    /\ db_add_cmt(u, c, p, r)
    /\ UNCHANGED <<daemon, memVars, chanVars, subs, likes, reported>>

\* The row is replaced whatever its status was
BadEditCmt(u, c, p, k, r) ==
    /\ daemon = "up"
    /\ c \in chans_by_id
    /\ PostIdKnown(c, p)
    /\ db_cmt_exists(c, p, k)
    /\ db_cmt_uid(c, p, k) = u
    /\ RefOk(c, p, r)
    /\ cmt' = [cmt EXCEPT ![<<c, p, k>>].ref = r, ![<<c, p, k>>].stat = "available"]
    /\ UNCHANGED <<daemon, memVars, chanVars, subs, post, likes, reported>>

\* hdl_edit_cmt_req: the author may also change what is replied to
EditCmt(u, c, p, k, r) ==
    /\ daemon = "up"
    /\ c \in chans_by_id
    /\ PostIdKnown(c, p)
    /\ db_cmt_is_avail(c, p, k)
    /\ db_cmt_uid(c, p, k) = u
    /\ RefOk(c, p, r)
    /\ db_upd_cmt(c, p, k, r)
    /\ UNCHANGED <<daemon, memVars, chanVars, subs, post, likes, reported>>

\* hdl_del_cmt_req
DelCmt(u, c, p, k) ==
    /\ daemon = "up"
    /\ c \in chans_by_id
    /\ PostIdKnown(c, p)
    /\ db_cmt_is_avail(c, p, k)
    /\ db_cmt_uid(c, p, k) = u
    /\ db_set_cmt_status(c, p, k, "deleted")
    /\ UNCHANGED <<daemon, memVars, chanVars, subs, post, likes, reported>>

\* hdl_block_cmt_req.  The new status is in the table when the subscribers
\* are notified; notify_of_cmt_upd logs the name of the status, and
\* cmt_stat_str has none for CMT_BLOCKED.  watched: the channel has a
\* destination to notify.
BlockCmt(u, c, p, k, watched) ==
    /\ daemon = "up"
    /\ c \in chans_by_id
    /\ PostIdKnown(c, p)
    /\ db_cmt_exists(c, p, k)
    /\ db_cmt_uid(c, p, k) = u
    /\ db_set_cmt_status(c, p, k, "blocked")
    /\ daemon' = IF watched THEN "aborted" ELSE "up"
    /\ UNCHANGED <<memVars, chanVars, subs, post, likes, reported>>

\* hdl_unblock_cmt_req
UnblockCmt(u, c, p, k) ==
    /\ daemon = "up"
    /\ c \in chans_by_id
    /\ PostIdKnown(c, p)
    /\ db_cmt_exists(c, p, k)
    /\ db_cmt_uid(c, p, k) = u
    /\ db_set_cmt_status(c, p, k, "available")
    /\ UNCHANGED <<daemon, memVars, chanVars, subs, post, likes, reported>>

\* hdl_get_cmts_req only reads, but the log line of a blocked comment that is
\* listed needs cmt_stat_str too
GetCmtsAborts(c, p, k) ==
    /\ daemon = "up"
    /\ c \in chans_by_id
    /\ PostIdKnown(c, p)
    /\ cmt[c, p, k].stat = "blocked"
    /\ daemon' = "aborted"
    /\ UNCHANGED <<memVars, chanVars, subs, bodyVars>>

-----------------------------------------------------------------------------
(* Likes and reports *)

\* hdl_post_like_req; k = 0 is a like of the post
PostLike(u, c, p, k) ==
    /\ daemon = "up"
    /\ c \in chans_by_id
    /\ PostIdKnown(c, p)
    /\ RefOk(c, p, k)
    /\ ~db_like_exists(u, c, p, k)
    /\ Cardinality(likes) < MaxLikes
    /\ db_add_like(u, c, p, k)
    /\ UNCHANGED <<daemon, memVars, chanVars, subs, reported>>

\* hdl_post_unlike_req
PostUnlike(u, c, p, k) ==
    /\ daemon = "up"
    /\ c \in chans_by_id
    /\ db_like_exists(u, c, p, k)
    /\ db_rm_like(u, c, p, k)
    /\ UNCHANGED <<daemon, memVars, chanVars, subs, reported>>

\* hdl_report_illegal_cmt_req
ReportIllegalCmt(u, c, p, k) ==
    /\ daemon = "up"
    /\ c \in chans_by_id
    /\ PostIdKnown(c, p)
    /\ RefOk(c, p, k)
    /\ ~db_like_exists(u, c, p, k)
    /\ Cardinality(reported) < MaxReports
    /\ db_add_reported_cmts(u, c, p, k)
    /\ UNCHANGED <<daemon, memVars, chanVars, subs, post, cmt, likes>>

-----------------------------------------------------------------------------

\* The rows load_chans_from_db reads
LoadedChans == 1..nchans

\* The process ends, for any reason and at any moment, and starts again:
\* feeds_init, load_chans_from_db
Restart ==
    /\ daemon' = "up"
    /\ chans_by_id' = LoadedChans
    /\ chans_by_name' = [n \in Names |->
           IF \E c \in LoadedChans : chan[c].name = n
           THEN CHOOSE c \in LoadedChans : chan[c].name = n
           ELSE 0]
    /\ mem' = [c \in Chans |-> IF c \in LoadedChans THEN chan[c] ELSE NoChan]
    /\ nxt_chan_id' = nchans + 1
    /\ UNCHANGED <<chanVars, subs, bodyVars>>

ChanNext(u) ==
    \/ \E n \in Names : CreateChan(u, n)
    \/ \E c \in Chans :
        \/ \E n \in Names : UpdChan(u, c, n)
        \/ SubChan(u, c)
        \/ UnsubChan(u, c)

PostNext(u) ==
    \E c \in Chans :
        \/ PubPost(u, c)
        \/ \E with_notify \in BOOLEAN : DeclarePost(u, c, with_notify)
        \/ \E p \in PostIds : NotifyPost(u, c, p) \/ DelPost(u, c, p)

CmtNext(u) ==
    \E c \in Chans, p \in PostIds, k \in CmtIds :
        \/ PostCmt(u, c, p, k)
        \/ \E r \in CmtIds : EditCmt(u, c, p, k, r)
        \/ DelCmt(u, c, p, k)
        \/ \E watched \in BOOLEAN : BlockCmt(u, c, p, k, watched)
        \/ UnblockCmt(u, c, p, k)
        \/ GetCmtsAborts(c, p, k)

LikeNext(u) ==
    \E c \in Chans, p \in PostIds, k \in CmtIds :
        \/ PostLike(u, c, p, k)
        \/ PostUnlike(u, c, p, k)
        \/ ReportIllegalCmt(u, c, p, k)

Next ==
    \/ \E u \in Users : ChanNext(u) \/ PostNext(u) \/ CmtNext(u) \/ LikeNext(u)
    \/ Restart

Spec == Init /\ [][Next]_vars

-----------------------------------------------------------------------------
(* Properties *)

\* The cache of the channels says what the table says, after any sequence of
\* requests, renames and restarts: the same channels, with the same name,
\* next post and number of subscribers, and the id that SQLite will give to
\* the next channel is the one the memory will use for it.  The hash table by
\* name finds each channel under its present name and under no earlier one: no
\* name is lost to a channel that was renamed, and no two channels share one.
CacheMatchesDb ==
    /\ chans_by_id = 1..nchans
    /\ nxt_chan_id = nchans + 1
    /\ \A c \in chans_by_id : mem[c] = chan[c]
    /\ \A n \in Names, c \in Chans :
           chans_by_name[n] = c <=> c \in chans_by_id /\ mem[c].name = n

\* The subscriber count of a channel is the number of its subscriptions.
SubsCounted ==
    \A c \in Chans :
        chan[c].subs = Cardinality({u \in Users : <<u, c>> \in subs})

\* The like count of a post or comment is the number of its likes.
LikesCounted ==
    \A x \in CmtKeys :
        (IF x[3] = 0 THEN post[x[1], x[2]].likes ELSE cmt[x].likes)
            = Cardinality({u \in Users : <<u, x>> \in likes})

\* Posts and comments have the ids 1, 2, ... without a gap, up to the
\* counter of their channel or post; none ever takes the key of another.
IdsDense ==
    /\ \A c \in Chans, p \in PostIds :
           db_post_exists(c, p) <=> p \in 1..chan[c].next_post_id - 1
    /\ \A c \in Chans, p \in PostIds, k \in CmtIds :
           db_cmt_exists(c, p, k) <=> k \in 1..post[c, p].next_comment_id - 1

\* Although SQLite does not enforce the foreign keys, a like is of a post or
\* comment that exists, a comment replies to one that exists on the same
\* post, a subscription is to a channel that exists, and a report of a
\* comment is of one that exists.
NoDangling ==
    /\ \A u \in Users, c \in Chans, p \in PostIds, k \in CmtIds :
           /\ <<u, <<c, p, k>>>> \in likes =>
                  IF k = 0 THEN db_post_exists(c, p) ELSE db_cmt_exists(c, p, k)
           /\ <<u, <<c, p, k>>>> \in reported /\ k # 0 => db_cmt_exists(c, p, k)
    /\ \A c \in Chans, p \in PostIds, k \in CmtIds :
           db_cmt_exists(c, p, k) =>
               /\ db_post_exists(c, p)
               /\ cmt[c, p, k].ref # 0 => db_cmt_exists(c, p, cmt[c, p, k].ref)
    /\ \A u \in Users, c \in Chans : <<u, c>> \in subs => c \in 1..nchans

\* A deleted post stays deleted: no request, and no restart, makes it
\* available again.
DeletedPostFinal ==
    [][\A x \in PostKeys :
          post[x].stat = "deleted" => post'[x].stat = "deleted"]_vars

\* A deleted comment comes back only when its author asks to block or unblock
\* it: those two handlers ask whether the comment exists, not whether it is
\* available (feeds.c:2139), and no other sequence of requests revives one.
DeletedCmtBack ==
    [][\A x \in CmtKeys :
          cmt[x].stat = "deleted" /\ cmt'[x].stat # "deleted" =>
              \/ UnblockCmt(cmt[x].uid, x[1], x[2], x[3])
              \/ \E watched \in BOOLEAN :
                    BlockCmt(cmt[x].uid, x[1], x[2], x[3], watched)]_vars

\* Comments that are replies of each other, directly or in a ring: a set of
\* comments of a post closed under "replies to"
ReplyLoop(c, p) ==
    \E ks \in SUBSET (CmtIds \ {0}) :
        ks # {} /\ \A k \in ks : db_cmt_exists(c, p, k) /\ cmt[c, p, k].ref \in ks

\* Replies go back to a comment of the post itself, and only edit_comment,
\* which may change what a comment replies to (feeds.c:1769), closes a ring.
LoopsOnlyByEdit ==
    [][\A c \in Chans, p \in PostIds :
          ~ReplyLoop(c, p) /\ ReplyLoop(c, p)' =>
              \E u \in Users, k \in CmtIds, r \in CmtIds : EditCmt(u, c, p, k, r)]_vars

\* No request ends the process: every status a comment can be given has a
\* name in cmt_stat_str.
NoAbort == daemon # "aborted"

=============================================================================
