------------------------------- MODULE Listing -------------------------------
(***************************************************************************)
(* What a client that reads a list again and again gets: the queries that  *)
(* db_iter_posts and db_iter_cmts of src/db.cpp build from the bounds, the *)
(* order and the count of a request, while other requests add and change   *)
(* the rows.  The list is either the posts of a channel or the comments of *)
(* a post; object says which, and does not change.                         *)
(*                                                                         *)
(* There are two clients, both external.  One pages through the list by    *)
(* id, each time from the id after the last one it got.  The other asks    *)
(* for all rows updated since the newest update it knows.  A handler runs  *)
(* alone, so a query sees the rows between two requests; the responses of  *)
(* an answer are in order (modules Answers and MsgQ).                      *)
(***************************************************************************)
EXTENDS Naturals, Sequences, FiniteSets

CONSTANTS
    Objects,    \* the kinds of list: "post", "comment" or both
    MaxIds,     \* bound on the rows
    MaxTime     \* bound on the clock

ASSUME ListingAssumption ==
    Objects \subseteq {"post", "comment"} /\ MaxIds \in Nat /\ MaxTime \in Nat \ {0}

VARIABLES
    object,     \* what is listed
    tab,        \* the rows in the order of their ids; chg is a history
    now,        \* time(NULL), which does not go back
    mark,       \* the newest updated_at the synchronising client knows
    stale,      \* ids of the rows that changed since that client got them
    page        \* the paging client

vars == <<object, tab, now, mark, stale, page>>

Ids == 1..MaxIds
Times == 0..MaxTime

\* created_at, updated_at, and when the status or the content last changed
Row == [stat : {"available", "deleted", "declared", "blocked"},
        crt : Times, upd : Times, chg : Times]

Paging == [on : BOOLEAN, cur : Nat, got : Seq(Ids), goal : SUBSET Ids]

Init ==
    /\ object \in Objects
    /\ tab = << >> /\ now = 1 /\ mark = 0 /\ stale = {}
    /\ page = [on |-> FALSE, cur |-> 0, got |-> << >>, goal |-> {}]

-----------------------------------------------------------------------------
(* Changes of the rows.                                                    *)

Tick == now < MaxTime /\ now' = now + 1 /\ UNCHANGED <<object, tab, mark, stale, page>>

Put(id, r, changed) ==
    /\ tab' = [tab EXCEPT ![id] = r]
    /\ stale' = IF changed THEN stale \cup {id} ELSE stale
    /\ UNCHANGED <<object, now, mark, page>>

\* hdl_pub_post_req, hdl_declare_post_req and hdl_post_cmt_req: the id is the
\* next one, both times are the same
Add(s) ==
    /\ Len(tab) < MaxIds
    /\ tab' = Append(tab, [stat |-> s, crt |-> now, upd |-> now, chg |-> now])
    /\ stale' = stale \cup {Len(tab) + 1}
    /\ UNCHANGED <<object, now, mark, page>>

\* db_upd_post and db_upd_cmt: new texts and updated_at
Updated(r) == [r EXCEPT !.upd = now, !.chg = now]

\* hdl_edit_post_req, hdl_edit_cmt_req
Edit(id) == tab[id].stat = "available" /\ Put(id, Updated(tab[id]), TRUE)

\* db_set_post_status writes the status alone; an unchanged status is no change
db_set_post_status(r, s) ==
    [r EXCEPT !.stat = s, !.chg = IF s = r.stat THEN r.chg ELSE now]

db_set_cmt_status(r, s) == [r EXCEPT !.stat = s, !.upd = now, !.chg = now]

hdl_del_post_req(id) ==
    /\ object = "post" /\ tab[id].stat = "available"
    /\ Put(id, db_set_post_status(tab[id], "deleted"), TRUE)

hdl_notify_post_req(id) ==
    /\ object = "post" /\ tab[id].stat # "deleted"
    /\ Put(id, db_set_post_status(tab[id], "available"), tab[id].stat = "declared")

hdl_del_cmt_req(id) ==
    /\ object = "comment" /\ tab[id].stat = "available"
    /\ Put(id, db_set_cmt_status(tab[id], "deleted"), TRUE)

hdl_block_cmt_req(id) ==
    /\ object = "comment"
    /\ Put(id, db_set_cmt_status(tab[id], "blocked"), TRUE)

hdl_unblock_cmt_req(id) ==
    /\ object = "comment"
    /\ Put(id, db_set_cmt_status(tab[id], "available"), TRUE)

-----------------------------------------------------------------------------
(* Queries.                                                                *)

query_column(id, by) == IF by = "ID" THEN id ELSE tab[id].upd

\* db_iter_posts leaves out the posts that are declared and not published
Listed ==
    {id \in DOMAIN tab : object = "post" => tab[id].stat \in {"available", "deleted"}}

BadAtLeast(v, lower) == lower # 0 => v > lower

\* A bound of 0 is no bound
AtLeast(v, lower) == lower # 0 => v >= lower
AtMost(v, upper) == upper # 0 => v <= upper

Matching(q) ==
    {id \in Listed : LET v == query_column(id, q.by) IN AtLeast(v, q.lower) /\ AtMost(v, q.upper)}

BadBefore(a, b, by) == query_column(a, by) >= query_column(b, by)

\* ORDER BY: ids ascending, times descending; rows of the same time in any order
Before(a, b, by) ==
    IF by = "ID" THEN a <= b ELSE query_column(a, by) >= query_column(b, by)

Smaller(m, n) == IF m < n THEN m ELSE n

\* LIMIT, where 0 is no limit
Count(q) ==
    LET n == Cardinality(Matching(q)) IN IF q.maxcnt = 0 THEN n ELSE Smaller(n, q.maxcnt)

\* The answers SQLite may give
Select(q) ==
    {s \in [1..Count(q) -> Matching(q)] :
        /\ \A j, k \in DOMAIN s : j < k => s[j] # s[k] /\ Before(s[j], s[k], q.by)
        /\ \A k \in DOMAIN s, id \in Matching(q) :
              (\A j \in DOMAIN s : s[j] # id) => Before(s[k], id, q.by)}

\* get_comments logs the status of each row, which ends the process when a
\* comment is blocked (module Feeds); there is no answer then
Answered(s) == \A k \in DOMAIN s : tab[s[k]].stat # "blocked"

\* The synchronising client asks for what was updated since mark, with or
\* without the present as the upper bound.  The first row is the newest.
SinceMark(upper) == [by |-> "UPD_AT", lower |-> mark, upper |-> upper, maxcnt |-> 0]

Sync(upper) ==
    \E s \in Select(SinceMark(upper)) :
        /\ Answered(s)
        /\ stale' = stale \ {s[k] : k \in DOMAIN s}
        /\ mark' = IF s = << >> THEN mark ELSE tab[s[1]].upd
        /\ UNCHANGED <<object, tab, now, page>>

PageStart ==
    /\ ~page.on
    /\ page' = [on |-> TRUE, cur |-> 0, got |-> << >>, goal |-> Listed]
    /\ UNCHANGED <<object, tab, now, mark, stale>>

\* The next page of at most n rows.  A page with fewer is the last.
PageNext(n) ==
    /\ page.on
    /\ \E s \in Select([by |-> "ID", lower |-> page.cur, upper |-> 0, maxcnt |-> n]) :
        /\ Answered(s)
        /\ page' = [page EXCEPT
              !.on = (Len(s) = n),
              !.cur = IF s = << >> THEN @ ELSE s[Len(s)] + 1,
              !.got = @ \o s]
    /\ UNCHANGED <<object, tab, now, mark, stale>>

-----------------------------------------------------------------------------
Next ==
    \/ Tick
    \/ Add("available")
    \/ object = "post" /\ Add("declared")
    \/ \E id \in DOMAIN tab :
        \/ Edit(id)
        \/ hdl_del_post_req(id) \/ hdl_notify_post_req(id)
        \/ hdl_del_cmt_req(id) \/ hdl_block_cmt_req(id) \/ hdl_unblock_cmt_req(id)
    \/ \E upper \in {0, now} : Sync(upper)
    \/ PageStart
    \/ \E n \in 1..2 : PageNext(n)

Spec == Init /\ [][Next]_vars

-----------------------------------------------------------------------------
(* Properties.                                                             *)

\* Types; no row is updated before it was created or in the future.
TypeOK ==
    /\ object \in Objects
    /\ tab \in Seq(Row) /\ Len(tab) <= MaxIds
    /\ now \in Times /\ mark \in Times /\ stale \subseteq DOMAIN tab
    /\ page \in Paging
    /\ \A id \in DOMAIN tab : tab[id].crt <= tab[id].upd /\ tab[id].upd <= now

\* A client that asks for what was updated since the newest update it knows
\* misses no row: a row it does not have as it is now is in its next answer,
\* also when the row changed in the same second as the client's last query.
\* The exception are posts whose updated_at is not their last change:
\* db_set_post_status (db.cpp:974) leaves it alone, and the client may never
\* hear that the post was deleted or published.
NothingMissed ==
    \A id \in stale \cap Listed :
        object = "comment" \/ tab[id].upd = tab[id].chg =>
            \A upper \in {0, now} : id \in Matching(SinceMark(upper))

\* A client that pages by id gets every row that was listed when it started, each
\* once and in ascending order, whatever was added, edited, deleted or published
\* between the pages.
PagesAll ==
    /\ TypeOK
    /\ \A j, k \in DOMAIN page.got : j < k => page.got[j] < page.got[k]
    /\ ~page.on => \A id \in page.goal : \E k \in DOMAIN page.got : page.got[k] = id
=============================================================================
