------------------------------- MODULE Answers -------------------------------
(***************************************************************************)
(* How an answer with many rows becomes responses.  The get_* handlers of  *)
(* src/feeds.c collect the rows and then split them: a row is taken off    *)
(* "left", an unsigned size that starts at MAX_CONTENT_LEN, and the rows   *)
(* collected so far are sent when nothing is left, at the end, or when the *)
(* next row is larger than what is left.  The handlers do not measure a    *)
(* row alike: Charged and Needed are what each of them subtracts and       *)
(* compares.  The get_multi_* methods of ChannelMethod.cpp split another   *)
(* way: they count up, close a response once it has reached a limit, and   *)
(* send all of them afterwards.                                            *)
(*                                                                         *)
(* A row is its two sizes; a response lists the rows in it by their place  *)
(* in the answer.  The rows are read before the first response leaves and  *)
(* the handler runs alone, so they do not change on the way.  msgq_enq may *)
(* fail at any response.                                                   *)
(***************************************************************************)
EXTENDS Naturals, Sequences, SequencesExt

CONSTANTS
    Sizes,              \* sizes of contents and thumbnails
    MaxRows,            \* bound on the rows of an answer
    MaxContentLen,      \* MAX_CONTENT_LEN
    Word,               \* number of values of size_t
    MaxAvailableSize,   \* Rpc::Factory::MaxAvailableSize
    ResponseSize,       \* sizeof an empty get_multi_* response
    RowSize             \* sizeof the fixed part of its rows

\* A row's size is far from the largest size_t, as the rows came in one Carrier
\* message each.
ASSUME AnswersAssumption ==
    /\ Sizes \subseteq Nat
    /\ {MaxRows, MaxContentLen, Word, MaxAvailableSize, ResponseSize, RowSize} \subseteq Nat
    /\ MaxRows # 0 /\ MaxContentLen \in 1..(Word - 1) /\ ResponseSize < MaxAvailableSize
    /\ \A s, t \in Sizes : s + t < Word

VARIABLES
    kind,       \* how the handler under way measures and splits
    st,         \* how far it is
    rows,       \* the rows it read
    i,          \* number of rows it has been through
    left,       \* what is left of MAX_CONTENT_LEN, or the size counted by get_multi_*
    tmp,        \* the rows of the response being filled
    array,      \* get_multi_*: the responses that are complete
    out,        \* the responses enqueued
    lost        \* some response could not be enqueued

vars == <<kind, st, rows, i, left, tmp, array, out, lost>>

Row == [con : Sizes, thu : Sizes]
Response == [rows : Seq(1..MaxRows), last : BOOLEAN]

Split == {"chans", "posts", "liked_data", "cmts", "reported"}
Kinds == Split \cup {"whole", "multi"}
Final == {"done", "refused", "broken"}

Init ==
    /\ kind = "whole" /\ st = "idle" /\ rows = << >> /\ i = 0 /\ left = 0
    /\ tmp = << >> /\ array = << >> /\ out = << >> /\ lost = FALSE

-----------------------------------------------------------------------------
(* The handlers up to the split.                                           *)

\* An answer without rows, or of a method that never splits, is one response.
\* It is enqueued at the end of the handler, which ignores a failure.  The
\* responses that never split have no field is_last; they are whole.
Single(rs) ==
    \/ /\ out' = <<[rows |-> [k \in 1..Len(rs) |-> k], last |-> TRUE]>>
       /\ st' = "done" /\ lost' = FALSE
    \/ /\ out' = << >> /\ st' = "broken" /\ lost' = TRUE

Open(k, rs) ==
    /\ st = "idle"
    /\ kind' = k /\ rows' = rs /\ tmp' = << >> /\ array' = << >> /\ left' = MaxContentLen
    /\ IF k = "whole" \/ rs = << >>
       THEN i' = Len(rs) /\ Single(rs)
       ELSE i' = 0 /\ st' = "split" /\ out' = << >> /\ lost' = FALSE

\* A request that fails a check, or whose rows cannot be read, gets one error
\* response, or none when the DID is not ready.  It has no rows.
Refuse(k) ==
    /\ st = "idle"
    /\ kind' = k /\ st' = "refused" /\ out' = << >> /\ tmp' = << >> /\ array' = << >>
    /\ rows' = << >> /\ i' = 0 /\ left' = 0 /\ lost' = FALSE

hdl_get_my_chans_req(rs) == Open("chans", rs)
hdl_get_chans_req(rs) == Open("chans", rs)
hdl_get_sub_chans_req(rs) == Open("chans", rs)
hdl_get_posts_req(rs) == Open("posts", rs)
\* The rows of liked posts have a content and no thumbnail, as a channel its avatar
hdl_get_liked_posts_req(rs) == Open("chans", rs)
hdl_get_liked_data_req(rs) == Open("liked_data", rs)
hdl_get_cmts_req(rs) == Open("cmts", rs)
hdl_get_reported_cmts_req(rs) == Open("reported", rs)
hdl_get_my_chans_meta_req(rs) == Open("whole", rs)
hdl_get_posts_lac_req(rs) == Open("whole", rs)
hdl_get_cmts_likes_req(rs) == Open("whole", rs)
hdl_get_chan_dtl_req(r) == Open("whole", <<r>>)

-----------------------------------------------------------------------------
(* The split of feeds.c.                                                   *)

\* What a row takes off "left".  A post's thumbnail counts, a comment's does
\* not.  reported_comments has no such count.
Charged(k, r) ==
    CASE k = "posts" -> r.con + r.thu
      [] k = "reported" -> 0
      [] OTHER -> r.con

BadNeeded(k, j) == Charged(k, rows[j])

\* What is compared with "left" after row j: the size of the next row, its
\* thumbnail included, but in get_liked_data that of row j again.
Needed(k, j) ==
    CASE k \in {"posts", "cmts"} -> rows[j + 1].con + rows[j + 1].thu
      [] k = "liked_data" -> rows[j].con
      [] OTHER -> rows[j + 1].con

\* l - s in size_t
Minus(l, s) == (l + Word - s) % Word

\* The response is sent after row j, with l left.  After the last row there is
\* no other to compare.
Cut(j, l) ==
    \/ kind = "reported"
    \/ l = 0
    \/ j < Len(rows) => Needed(kind, j) > l

IsLast(j) == j = Len(rows)

Current == i + 1
LeftNow == Minus(left, Charged(kind, rows[Current]))

Collect ==
    /\ st = "split"
    /\ ~Cut(Current, LeftNow)
    /\ i' = Current /\ left' = LeftNow /\ tmp' = Append(tmp, Current)
    /\ UNCHANGED <<kind, st, rows, array, out, lost>>

BadEmptied == <<MaxContentLen, tmp>>

\* "left" and the collected rows after a response was sent
Reset == <<MaxContentLen, << >> >>

SendChunk ==
    /\ st = "split"
    /\ Cut(Current, LeftNow)
    /\ out' = Append(out, [rows |-> Append(tmp, Current), last |-> IsLast(Current)])
    /\ i' = Current /\ left' = Reset[1] /\ tmp' = Reset[2]
    /\ st' = IF Current = Len(rows) THEN "done" ELSE "split"
    /\ UNCHANGED <<kind, rows, array, lost>>

BadAfterFailure == <<IF Current = Len(rows) THEN "done" ELSE "split", MaxContentLen, << >> >>

\* The loop is left at the first response that cannot be enqueued
AfterFailure == <<"broken", LeftNow, Append(tmp, Current)>>

EnqFails ==
    /\ st = "split"
    /\ Cut(Current, LeftNow)
    /\ i' = Current /\ lost' = TRUE
    /\ st' = AfterFailure[1] /\ left' = AfterFailure[2] /\ tmp' = AfterFailure[3]
    /\ UNCHANGED <<kind, rows, array, out>>

-----------------------------------------------------------------------------
(* The get_multi_* methods of ChannelMethod.cpp.                           *)

OpenMulti(rs) ==
    /\ st = "idle"
    /\ kind' = "multi" /\ st' = "step" /\ rows' = rs /\ i' = 0 /\ left' = ResponseSize
    /\ tmp' = << >> /\ array' = << >> /\ out' = << >> /\ lost' = FALSE

onGetMultiComments(rs) == OpenMulti(rs)
onGetMultiLikesAndCommentsCount(rs) == OpenMulti(rs)
onGetMultiSubscribersCount(rs) == OpenMulti(rs)

MultiLen(r) == RowSize + r.con + r.thu

Full(size) == size >= MaxAvailableSize

\* The function "step", called for each row
Step ==
    /\ st = "step" /\ i < Len(rows)
    /\ i' = Current
    /\ LET size == left + MultiLen(rows[Current])
           t == Append(tmp, Current)
       IN IF Full(size)
          THEN /\ array' = Append(array, [rows |-> t, last |-> FALSE])
               /\ tmp' = << >> /\ left' = ResponseSize
          ELSE tmp' = t /\ left' = size /\ UNCHANGED array
    /\ UNCHANGED <<kind, st, rows, out, lost>>

\* The statement fails at some row: what is ready is dropped, nothing is sent
StepFails ==
    /\ st = "step"
    /\ array' = << >> /\ tmp' = << >> /\ st' = "refused"
    /\ UNCHANGED <<kind, rows, i, left, out, lost>>

\* The open response, or a new empty one, is the last
StepsDone ==
    /\ st = "step" /\ i = Len(rows)
    /\ array' = Append(array, [rows |-> tmp, last |-> TRUE])
    /\ tmp' = << >> /\ st' = "sending"
    /\ UNCHANGED <<kind, rows, i, left, out, lost>>

\* processAdvance enqueues the responses and goes on when one fails
processAdvance ==
    /\ st = "sending"
    /\ array' = Tail(array)
    /\ st' = IF Tail(array) = << >> THEN "done" ELSE "sending"
    /\ \/ out' = Append(out, Head(array)) /\ UNCHANGED lost
       \/ lost' = TRUE /\ UNCHANGED out
    /\ UNCHANGED <<kind, rows, i, left, tmp>>

\* The handler frees what it collected and the worker takes the next request
Finish ==
    /\ st \in Final
    /\ kind' = "whole" /\ st' = "idle" /\ rows' = << >> /\ i' = 0 /\ left' = 0
    /\ tmp' = << >> /\ array' = << >> /\ out' = << >> /\ lost' = FALSE

-----------------------------------------------------------------------------
Ask(rs) ==
    \/ hdl_get_my_chans_req(rs) \/ hdl_get_chans_req(rs) \/ hdl_get_sub_chans_req(rs)
    \/ hdl_get_posts_req(rs) \/ hdl_get_liked_posts_req(rs) \/ hdl_get_liked_data_req(rs)
    \/ hdl_get_cmts_req(rs) \/ hdl_get_reported_cmts_req(rs)
    \/ hdl_get_my_chans_meta_req(rs) \/ hdl_get_posts_lac_req(rs) \/ hdl_get_cmts_likes_req(rs)
    \/ onGetMultiComments(rs) \/ onGetMultiLikesAndCommentsCount(rs)
    \/ onGetMultiSubscribersCount(rs)

Next ==
    \/ st = "idle" /\ \E n \in 0..MaxRows : \E rs \in [1..n -> Row] : Ask(rs)
    \/ \E r \in Row : hdl_get_chan_dtl_req(r)
    \/ \E k \in Kinds : Refuse(k)
    \/ Collect \/ SendChunk \/ EnqFails
    \/ Step \/ StepFails \/ StepsDone \/ processAdvance \/ Finish

Spec == Init /\ [][Next]_vars

-----------------------------------------------------------------------------
(* Properties.                                                             *)

\* The variables of a handler have their types; "left" is a size_t.
TypeOK ==
    /\ kind \in Kinds /\ st \in Final \cup {"idle", "split", "step", "sending"}
    /\ rows \in Seq(Row) /\ Len(rows) <= MaxRows /\ i \in 0..Len(rows)
    /\ left \in Nat /\ (kind \in Split => left < Word)
    /\ tmp \in Seq(1..MaxRows) /\ lost \in BOOLEAN
    /\ array \in Seq(Response) /\ out \in Seq(Response)

RowsOf(rs) == FlattenSeq([k \in 1..Len(rs) |-> rs[k].rows])
UpTo(n) == [k \in 1..n |-> k]

\* The responses enqueued or ready, with the one being filled, hold every row
\* the handler has been through once and in order, whatever the sizes and
\* wherever the answer was cut.  (LastMeansAll is about failures.)
RowsOnce == TypeOK /\ (~lost /\ st # "refused" => RowsOf(out \o array) \o tmp = UpTo(i))

\* A response with is_last ends its answer, and the client that sees it has all
\* rows: a handler of feeds.c whose response could not be enqueued never sends
\* one.  Only the get_multi_* methods go on after a failure.  An answer that was
\* enqueued without a failure has one, so a client that waits for it is never
\* left waiting.
LastMeansAll ==
    /\ \A k \in DOMAIN out : out[k].last =>
          /\ k = Len(out)
          /\ (kind = "multi" /\ lost) \/ RowsOf(out) = UpTo(Len(rows))
    /\ st = "done" /\ ~lost => out # << >> /\ out[Len(out)].last

Sum(s) ==
    LET sum[k \in 0..Len(s)] == IF k = 0 THEN 0 ELSE sum[k - 1] + s[k] IN sum[Len(s)]
Contents(s) == Sum([k \in 1..Len(s) |-> rows[s[k]].con])
Total(s) == Sum([k \in 1..Len(s) |-> rows[s[k]].con + rows[s[k]].thu])

\* No response holds more than MAX_CONTENT_LEN.  The exceptions are in the code:
\*  - a single row may be larger, and then "left" wraps and its response takes
\*    all that follows;
\*  - a comment's thumbnail is not counted;
\*  - get_liked_data compares a row with itself, so a row larger than the one
\*    before it may not fit;
\*  - a get_multi_* response is closed after the row that makes it full.
Fits ==
    \A k \in DOMAIN out : LET s == out[k].rows IN
        /\ kind = "chans" => Contents(s) <= MaxContentLen \/ rows[s[1]].con > MaxContentLen
        /\ kind = "posts" =>
              Total(s) <= MaxContentLen \/ rows[s[1]].con + rows[s[1]].thu > MaxContentLen
        /\ kind = "cmts" => Contents(s) <= MaxContentLen \/ rows[s[1]].con > MaxContentLen
        /\ kind = "liked_data" =>
              \/ Contents(s) <= MaxContentLen
              \/ rows[s[1]].con > MaxContentLen
              \/ \E j \in 2..Len(s) : rows[s[j]].con > rows[s[j - 1]].con
        /\ kind = "multi" /\ s # << >> =>
              ResponseSize + (Len(s) - 1) * RowSize + Total(Front(s)) < MaxAvailableSize

=============================================================================
