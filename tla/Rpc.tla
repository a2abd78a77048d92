--------------------------------- MODULE Rpc ---------------------------------
(***************************************************************************)
(* From a request to the messages it causes: CommandHandler::process       *)
(* unmarshals the request (RpcParse), LegacyMethod and MassData hand it to *)
(* its handler, the handler stores a row and packs a response and the      *)
(* notifications (RpcPack).                                                *)
(*                                                                         *)
(* Every table holds at most one row here: a message packs each row on its *)
(* own.  Of a row only its status and its columns that are not empty are   *)
(* kept.  A handler may refuse for reasons other modules model (no access  *)
(* token, not the owner, a wrong state), and the tables may hold rows that *)
(* db_init has converted from the format of version 1.                     *)
(*                                                                         *)
(* "dead" stands for what the code leaves undefined or ends with abort().  *)
(***************************************************************************)
EXTENDS RpcParse, RpcPack

CONSTANTS
    Versions,   \* the versions named in the requests
    Variants    \* which requests arrive: "whole", or with one parameter
                \* "missing", "empty", of an "other" type or "swapped"

VARIABLES
    phase,      \* "idle", "received" or "answered"
    req,        \* the request under way
    parsed,     \* what rpc_unmarshal_req made of it
    rows,       \* table -> its row
    out,        \* the messages the request caused
    dead        \* undefined behaviour or abort()

vars == <<phase, req, parsed, rows, out, dead>>

\* The columns of the tables, all NOT NULL, under their names in the requests
Columns == [
    users    |-> {"did", "name", "email", "display_name", "avatar"},
    channels |-> {"name", "introduction", "avatar", "tip_methods", "proof"},
    posts    |-> {"content", "thumbnails", "hash_id", "proof", "origin_post_url"},
    comments |-> {"content", "thumbnails", "hash_id", "proof"},
    likes    |-> {"proof"},
    subscriptions |-> {"proof"},
    reported_comments |-> {"reasons"}]

None == [st |-> "none", full |-> {}]
Row(st, full) == [st |-> st, full |-> full]
Stored(t) == IF rows[t].st = "none" THEN {} ELSE {rows[t]}
User == rows["users"]

\* db_init: the rows of version 1 and the columns retrive_sql adds to them
retrive_sql == [
    users    |-> {"did", "name", "email"} \cup {"display_name", "avatar"},
    channels |-> {"name", "introduction", "avatar"} \cup {"tip_methods", "proof"},
    posts    |-> {"content"} \cup {"hash_id", "proof", "origin_post_url", "thumbnails"},
    comments |-> {"content"} \cup {"hash_id", "proof", "thumbnails"},
    likes    |-> {"proof"},
    subscriptions |-> {"proof"},
    reported_comments |-> {}]

\* db_upsert_user: the credential gives the name, its e-mail or "NA"; a NULL
\* display name and avatar are filled in
db_upsert_user == Row("available", {"did", "name", "email"} \cup {"display_name", "avatar"})

-----------------------------------------------------------------------------
\* The requests that arrive

Whole(p) == [i \in DOMAIN p.fields |-> [key |-> p.fields[i].key, val |-> "full"]]
Variant(params, v, i) ==
    CASE v = "missing" -> RemoveAt(params, i)
      [] v = "swapped" -> [params EXCEPT ![i] = params[Len(params)],
                                         ![Len(params)] = params[i]]
      [] OTHER         -> [params EXCEPT ![i].val = v]

Methods == DOMAIN req_parsers_1_0

Request(version, method, params) ==
    [head |-> TRUE, version |-> version, method |-> method, params |-> params]
Unread == Result("-1", Unnamed, {})
Garbage == [head |-> FALSE, version |-> "", method |-> "", params |-> <<>>]

Requests ==
    {Garbage, Request("1.0", "no_such_method", <<>>), Request("0.9", "get_posts", <<>>),
     Request("1.0", "long_method", <<>>)}
    \cup {Request(v, "subscribe_channel", Whole(unmarshal_sub_chan_req_2)) :
              v \in {"1", "2", "1.0+", "2.0+", "long"}}
    \cup {Request(v, m, Whole(req_parsers(v)[m])) : v \in Versions, m \in Methods}
    \cup UNION {{Request(v, m, Variant(Whole(req_parsers(v)[m]), k, i)) :
                    i \in DOMAIN req_parsers(v)[m].fields,
                    k \in Variants \ {"whole"}} :
                v \in Versions, m \in Methods}

\* The types of the variables; an empty table has no columns filled.
TypeOK ==
    /\ phase \in {"idle", "received", "answered"}
    /\ req \in Requests
    /\ phase # "idle" => parsed \in rpc_unmarshal_req(req)
    /\ rows \in [DOMAIN Columns -> [st : {"none", "available", "deleted", "declared", "blocked"},
                                    full : SUBSET UNION {Columns[t] : t \in DOMAIN Columns}]]
    /\ \A t \in DOMAIN rows : rows[t].st = "none" => rows[t] = None
    /\ \A o \in out : DOMAIN o = {"msg", "maps"}
    /\ dead \in BOOLEAN

Init ==
    /\ phase = "idle"
    /\ req = Garbage
    /\ parsed = Unread
    /\ \E old \in {{}, {"users"}, {"users", "channels", "posts"},
                   DOMAIN Columns \ {"reported_comments"}} :
          rows = [t \in DOMAIN Columns |->
                    IF t \in old THEN Row("available", retrive_sql[t]) ELSE None]
    /\ out = {}
    /\ dead = FALSE

-----------------------------------------------------------------------------
\* A request arrives; parsed is what the worker that takes it up reads of it
Received(m) ==
    /\ phase = "idle"
    /\ ~dead
    /\ req' = m
    /\ \E r \in rpc_unmarshal_req(m) : parsed' = r
    /\ phase' = "received"
    /\ UNCHANGED <<rows, out, dead>>

\* msgq_enq takes the messages; the worker goes on with the next request
Sent ==
    /\ phase = "answered"
    /\ ~dead
    /\ phase' = "idle"
    /\ req' = Garbage
    /\ parsed' = Unread
    /\ out' = {}
    /\ UNCHANGED <<rows, dead>>

Answer(msgs) ==
    /\ phase = "received"
    /\ phase' = "answered"
    /\ out' = msgs
    /\ UNCHANGED <<req, parsed, dead>>

\* the process stops, or anything may happen
Die ==
    /\ phase = "received"
    /\ phase' = "answered"
    /\ dead' = TRUE
    /\ UNCHANGED <<req, parsed, out>>

\* CommandHandler::process and packResponse: there is no request to answer to
Malformed ==
    /\ parsed.rc = "-1"
    /\ Answer({})
    /\ UNCHANGED rows

UnknownOrUnsupported ==
    /\ parsed.rc \in {"-2", "-3"}
    /\ Answer({rpc_marshal_err})
    /\ UNCHANGED rows

\* the parser dereferences NULL, or LegacyMethod::onDispose compares the
\* method NULL with its table
Undefined ==
    /\ \/ parsed.rc = "undefined"
       \/ parsed.rc = "0" /\ ~parsed.method
    /\ Die
    /\ UNCHANGED rows

Handles(m) == phase = "received" /\ req.method = m /\ parsed.rc = "0" /\ parsed.method
Params == parsed.params

\* A handler that refuses: silently while the service is not bound to an
\* owner, else with an error
Refused ==
    /\ parsed.rc = "0" /\ parsed.method
    /\ Answer({}) \/ Answer({rpc_marshal_err})
    /\ UNCHANGED rows

\* A response, and the notifications that have a destination
Reply(resp, notifs) == \E w \in SUBSET notifs : Answer({resp} \cup w)

\* INSERT and UPDATE fail when a NOT NULL column is missing
Store(t, st) ==
    /\ Columns[t] \subseteq Params
    /\ rows' = [rows EXCEPT ![t] = Row(st, Columns[t] \cap Params)]
SetStatus(t, st) == rows' = [rows EXCEPT ![t].st = st]
Has(t) == rows[t].st # "none"

-----------------------------------------------------------------------------
\* The handlers that change a table

hdl_signin_conf_chal_req ==
    /\ Handles("signin_confirm_challenge")
    /\ \/ rows' = [rows EXCEPT !["users"] = db_upsert_user]
       \/ Has("users") /\ UNCHANGED rows
    /\ Reply(rpc_marshal_signin_conf_chal_resp, {rpc_marshal_stats_changed_notif})

hdl_create_chan_req ==
    /\ Handles("create_channel") /\ Has("users") /\ ~Has("channels")
    /\ Store("channels", "available")
    /\ Reply(rpc_marshal_create_chan_resp, {})

hdl_upd_chan_req ==
    /\ Handles("update_feedinfo") /\ Has("channels")
    /\ Store("channels", "available")
    /\ Reply(rpc_marshal_upd_chan_resp,
             {rpc_marshal_chan_upd_notif(rows'["channels"], User)})

hdl_pub_post_req ==
    /\ Handles("publish_post") /\ Has("channels") /\ ~Has("posts")
    /\ Store("posts", "available")
    /\ Reply(rpc_marshal_pub_post_resp, {rpc_marshal_new_post_notif(rows'["posts"])})

\* notifies only if the request says so; the post stays hidden otherwise
hdl_declare_post_req ==
    /\ Handles("declare_post") /\ Has("channels") /\ ~Has("posts")
    /\ \/ /\ Store("posts", "available")
          /\ Reply(rpc_marshal_declare_post_resp, {rpc_marshal_new_post_notif(rows'["posts"])})
       \/ /\ Store("posts", "declared")
          /\ Reply(rpc_marshal_declare_post_resp, {})

hdl_notify_post_req ==
    /\ Handles("notify_post") /\ rows["posts"].st \in {"available", "declared"}
    /\ SetStatus("posts", "available")
    /\ Reply(rpc_marshal_notify_post_resp, {rpc_marshal_post_upd_notif(rows'["posts"])})

hdl_edit_post_req ==
    /\ Handles("edit_post") /\ rows["posts"].st = "available"
    /\ Store("posts", "available")
    /\ Reply(rpc_marshal_edit_post_resp, {rpc_marshal_post_upd_notif(rows'["posts"])})

hdl_del_post_req ==
    /\ Handles("delete_post") /\ rows["posts"].st = "available"
    /\ SetStatus("posts", "deleted")
    /\ Reply(rpc_marshal_del_post_resp, {rpc_marshal_post_upd_notif(Row("deleted", {}))})

hdl_post_cmt_req ==
    /\ Handles("post_comment") /\ Has("posts") /\ ~Has("comments")
    /\ Store("comments", "available")
    /\ Reply(rpc_marshal_post_cmt_resp, {rpc_marshal_new_cmt_notif(rows'["comments"], User)})

hdl_edit_cmt_req ==
    /\ Handles("edit_comment") /\ rows["comments"].st = "available"
    /\ Store("comments", "available")
    /\ Reply(rpc_marshal_edit_cmt_resp, {rpc_marshal_cmt_upd_notif(rows'["comments"], User)})

hdl_del_cmt_req ==
    /\ Handles("delete_comment") /\ rows["comments"].st = "available"
    /\ SetStatus("comments", "deleted")
    /\ Reply(rpc_marshal_del_cmt_resp,
             {rpc_marshal_cmt_upd_notif(Row("deleted", {}), User)})

\* cmt_stat_str aborts on a blocked comment as soon as somebody is notified
hdl_block_cmt_req ==
    /\ Handles("block_comment") /\ Has("comments")
    /\ SetStatus("comments", "blocked")
    /\ Answer({rpc_marshal_block_cmt_resp}) \/ Die

\* the notification is made of a cleared CmtInfo: available, without content
hdl_unblock_cmt_req ==
    /\ Handles("unblock_comment") /\ Has("comments")
    /\ SetStatus("comments", "available")
    /\ Reply(rpc_marshal_unblock_cmt_resp,
             {rpc_marshal_cmt_upd_notif(Row("available", {}), User)})

hdl_post_like_req ==
    /\ Handles("post_like") /\ Has("posts") /\ ~Has("likes")
    /\ Store("likes", "available")
    /\ Reply(rpc_marshal_post_like_resp, {rpc_marshal_new_like_notif(rows'["likes"], User)})

hdl_post_unlike_req ==
    /\ Handles("post_unlike") /\ Has("likes")
    /\ rows' = [rows EXCEPT !["likes"] = None]
    /\ Reply(rpc_marshal_post_unlike_resp, {})

hdl_sub_chan_req ==
    /\ Handles("subscribe_channel") /\ Has("channels") /\ ~Has("subscriptions")
    /\ Store("subscriptions", "available")
    /\ Reply(rpc_marshal_sub_chan_resp(rows["channels"], User),
             {rpc_marshal_new_sub_notif(User)})

hdl_unsub_chan_req ==
    /\ Handles("unsubscribe_channel") /\ Has("subscriptions")
    /\ rows' = [rows EXCEPT !["subscriptions"] = None]
    /\ Reply(rpc_marshal_unsub_chan_resp, {})

\* the ReportedCmtInfo of the notification has no reasons: a pointer read
\* uninitialised, NULL, readable or not
hdl_report_illegal_cmt_req ==
    /\ Handles("report_illegal_comment") /\ Has("posts") /\ ~Has("likes")
    /\ Store("reported_comments", "available")
    /\ \/ \E reasons \in SUBSET {"reasons"} :
              Reply(rpc_marshal_report_illegal_cmt_resp,
                    {rpc_marshal_report_cmt_notif(Row("available", reasons), User)})
       \/ Die

-----------------------------------------------------------------------------
\* The handlers that change no table of this module

Answers(m) ==
    CASE m = "declare_owner" -> {rpc_marshal_decl_owner_resp(d) : d \in BOOLEAN}
      [] m = "import_did" -> {rpc_marshal_imp_did_resp}
      [] m = "issue_credential" -> {rpc_marshal_iss_vc_resp}
      [] m = "update_credential" -> {rpc_marshal_update_vc_resp}
      [] m = "signin_request_challenge" ->
            {rpc_marshal_signin_req_chal_resp(vc) : vc \in BOOLEAN}
      [] m = "get_my_channels" -> {rpc_marshal_get_my_chans_resp(Stored("channels"))}
      [] m = "get_my_channels_metadata" ->
            {rpc_marshal_get_my_chans_meta_resp(Stored("channels"))}
      [] m = "get_channels" -> {rpc_marshal_get_chans_resp(Stored("channels"), User)}
      [] m = "get_channel_detail" ->
            {rpc_marshal_get_chan_dtl_resp(c, User) : c \in Stored("channels")}
      [] m = "get_subscribed_channels" ->
            {rpc_marshal_get_sub_chans_resp(
                IF Has("subscriptions") THEN Stored("channels") ELSE {}, User)}
      [] m = "get_posts" ->
            {rpc_marshal_get_posts_resp({p \in Stored("posts") : p.st # "declared"})}
      [] m = "get_posts_likes_and_comments" ->
            {rpc_marshal_get_posts_lac_resp(Stored("posts"))}
      [] m = "get_liked_posts" ->
            {rpc_marshal_get_liked_posts_resp(
                {p \in Stored("posts") : p.st = "available" /\ Has("likes")})}
      [] m = "get_liked_data" -> {rpc_marshal_get_liked_data_resp(Stored("likes"), User)}
      [] m = "get_comments" -> {rpc_marshal_get_cmts_resp(Stored("comments"), User)}
      [] m = "get_comments_likes" ->
            {rpc_marshal_get_cmts_likes_resp(Stored("comments"))}
      [] m = "get_statistics" -> {rpc_marshal_get_stats_resp}
      [] m = "enable_notification" -> {rpc_marshal_enbl_notif_resp}
      [] m = "get_service_version" -> {rpc_marshal_get_srv_ver_resp}
      [] m = "get_reported_comments" ->
            {rpc_marshal_get_reported_cmts_resp(Stored("reported_comments"), User)}
      [] m = "set_binary" -> {rpc_marshal_set_binary_resp}
      [] m = "get_binary" -> {rpc_marshal_get_binary_resp}
      [] OTHER -> {}

ReadOnly ==
    /\ Handles(req.method)
    /\ ~(req.method = "get_comments" /\ rows["comments"].st = "blocked")
    /\ \E a \in Answers(req.method) : Answer({a})
    /\ UNCHANGED rows

\* cmt_stat_str aborts when a blocked comment is listed
ListsBlocked ==
    /\ Handles("get_comments") /\ rows["comments"].st = "blocked"
    /\ Die
    /\ UNCHANGED rows

Next ==
    \/ \E m \in Requests : Received(m)
    \/ Sent
    \/ Malformed \/ UnknownOrUnsupported \/ Undefined \/ Refused
    \/ hdl_signin_conf_chal_req
    \/ hdl_create_chan_req \/ hdl_upd_chan_req
    \/ hdl_pub_post_req \/ hdl_declare_post_req \/ hdl_notify_post_req
    \/ hdl_edit_post_req \/ hdl_del_post_req
    \/ hdl_post_cmt_req \/ hdl_edit_cmt_req \/ hdl_del_cmt_req
    \/ hdl_block_cmt_req \/ hdl_unblock_cmt_req
    \/ hdl_post_like_req \/ hdl_post_unlike_req
    \/ hdl_sub_chan_req \/ hdl_unsub_chan_req
    \/ hdl_report_illegal_cmt_req
    \/ ReadOnly \/ ListsBlocked

Spec == Init /\ [][Next]_vars

-----------------------------------------------------------------------------
\* Every map of every message has as many pairs as it announces, whatever
\* version stored the rows it was packed from.  Three messages are the
\* exceptions: the comment_update an unblock_comment causes (one pair short),
\* the report_illegal_comment notification (one pair too many when its
\* uninitialised reasons are not NULL) and the rows of get_reported_comments
\* (11 announced, 7 packed).
MapsComplete ==
    /\ TypeOK
    /\ \A o \in out :
        \/ \A m \in o.maps : Complete(m)
        \/ o.msg = "comment_update" /\ req.method = "unblock_comment"
        \/ o.msg = "report_illegal_comment" /\ Cardinality(o.maps) = 2
        \/ o.msg = "get_reported_comments" /\ Has("reported_comments")

\* The table a method inserts into or overwrites
Writes == [create_channel |-> "channels", update_feedinfo |-> "channels",
           publish_post |-> "posts", declare_post |-> "posts", edit_post |-> "posts",
           post_comment |-> "comments", edit_comment |-> "comments",
           post_like |-> "likes", subscribe_channel |-> "subscriptions",
           report_illegal_comment |-> "reported_comments"]

\* What a parser lets through fits the NOT NULL columns of the table, so a
\* client of version 1.0 can still write after the tables have been upgraded.
EveryVersionStores ==
    phase = "received" /\ parsed.rc = "0" /\ req.method \in DOMAIN Writes
        => Columns[Writes[req.method]] \subseteq Params

\* The requests that leave the defined behaviour of the program while they
\* are read, dispatched and answered: a method of more than 1024 bytes
\* (copied into an array of that size), a version of more than four bytes
\* (compared past the end of a literal), any update_user_info (its parser
\* sets no method), a declare_post without with_notify or a set_binary
\* without algo or checksum (dereferenced unchecked), and the handlers that
\* meet a blocked comment or notify of a report.
UndefinedOnly ==
    dead =>
        \/ req.method = "long_method"
        \/ req.version \in {"1.0+", "2.0+", "long"}
        \/ req.method = "update_user_info"
        \/ /\ req.method \in {"declare_post", "set_binary"}
           /\ req.params # Whole(req_parsers(req.version)[req.method])
        \/ req.method = "block_comment"
        \/ req.method = "get_comments" /\ rows["comments"].st = "blocked"
        \/ req.method = "report_illegal_comment"

\* Every complete request of a method in the dispatch table of
\* LegacyMethod.cpp reaches its handler.
HandlerReached ==
    phase = "received" /\ parsed.rc = "0" => parsed.method

=============================================================================
