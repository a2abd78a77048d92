------------------------------- MODULE RpcPack -------------------------------
(***************************************************************************)
(* How src/rpc.c writes responses and notifications.                       *)
(*                                                                         *)
(* A MessagePack map announces how many pairs follow.  The code writes     *)
(* that number as a constant and then packs the pairs one by one; a pair   *)
(* whose string or blob is missing is left out, and the reader of such a   *)
(* map takes the bytes after it for the missing pair.  A packed map is     *)
(* represented by its announced size and the keys that follow.             *)
(*                                                                         *)
(* A row (a channel, a post, a comment...) is its status and the set of    *)
(* its columns that are not empty.                                         *)
(***************************************************************************)
EXTENDS Naturals, FiniteSets

PackedMap(n, keys) == [size |-> n, keys |-> keys]
Complete(m) == Cardinality(m.keys) = m.size

\* pack_kv_str, pack_kv_bin: only the columns that have something
pack_kv(row, keys) == keys \cap row.full

\* pack_kv_nil in place of the contents of a row that is not available
pack_nil_unless(avail, row, keys) == IF avail THEN pack_kv(row, keys) ELSE keys

Response(method, maps) ==
    [msg |-> method, maps |-> {PackedMap(3, {"version", "id", "result"})} \cup maps]
NilResponse(method) == Response(method, {})
Notification(method, map) ==
    [msg |-> method, maps |-> {PackedMap(3, {"version", "method", "params"}), map}]
\* an answer with is_last and an array of rows
Rows(method, array, rows) ==
    Response(method, {PackedMap(2, {"is_last", array})} \cup rows)

-----------------------------------------------------------------------------
\* Notifications.  u is the user (or the owner) the row is joined with.

UserKeys(u, name, did) ==
    {k \in {name, did} : (k = name => "name" \in u.full) /\ (k = did => "did" \in u.full)}

rpc_marshal_new_post_notif(p) ==
    Notification("new_post", PackedMap(12,
        {"channel_id", "id", "status", "comments", "likes", "created_at", "updated_at"}
        \cup pack_kv(p, {"content", "thumbnails", "hash_id", "proof", "origin_post_url"})))

BadPostUpd(p) ==
    Notification("post_update", PackedMap(8,
        {"channel_id", "id", "status", "comments", "likes", "created_at", "updated_at"}
        \cup pack_nil_unless(p.st # "deleted", p,
                {"content", "thumbnails", "hash_id", "proof", "origin_post_url"})))
rpc_marshal_post_upd_notif(p) ==
    Notification("post_update", PackedMap(8,
        {"channel_id", "id", "status", "comments", "likes", "created_at", "updated_at"}
        \cup pack_nil_unless(p.st # "deleted", p, {"content"})))

rpc_marshal_new_cmt_notif(c, u) ==
    Notification("new_comment", PackedMap(14,
        {"channel_id", "post_id", "id", "status", "comment_id", "likes", "created_at",
         "updated_at"}
        \cup UserKeys(u, "user_name", "user_did")
        \cup pack_kv(c, {"content", "thumbnails", "hash_id", "proof"})))

rpc_marshal_cmt_upd_notif(c, u) ==
    Notification("comment_update", PackedMap(11,
        {"channel_id", "post_id", "id", "status", "comment_id", "likes", "created_at",
         "updated_at"}
        \cup UserKeys(u, "user_name", "user_did")
        \cup pack_nil_unless(c.st = "available", c, {"content"})))

rpc_marshal_new_like_notif(l, u) ==
    Notification("new_like", PackedMap(7,
        {"channel_id", "post_id", "comment_id", "total_count"}
        \cup UserKeys(u, "user_name", "user_did") \cup pack_kv(l, {"proof"})))

rpc_marshal_new_sub_notif(u) ==
    Notification("new_subscription", PackedMap(3,
        {"channel_id"} \cup UserKeys(u, "user_name", "user_did")))

ChanKeys(c, u) ==
    {"id", "subscribers", "last_update"} \cup UserKeys(u, "owner_name", "owner_did")
    \cup pack_kv(c, {"name", "introduction", "avatar"})
ChanKeys_2(c, u) ==
    ChanKeys(c, u) \cup {"status"} \cup pack_kv(c, {"tip_methods", "proof"})

rpc_marshal_chan_upd_notif(c, u) ==
    Notification("feedinfo_update", PackedMap(11, ChanKeys_2(c, u)))

rpc_marshal_stats_changed_notif ==
    Notification("statistics_changed", PackedMap(1, {"total_clients"}))

\* announces 6 pairs and packs up to 7
rpc_marshal_report_cmt_notif(r, u) ==
    Notification("report_illegal_comment", PackedMap(6,
        {"channel_id", "post_id", "comment_id", "created_at"}
        \cup UserKeys(u, "reporter_name", "reporter_did") \cup pack_kv(r, {"reasons"})))

-----------------------------------------------------------------------------
\* Responses

\* did: the response carries the DID and its payload
rpc_marshal_decl_owner_resp(did) ==
    Response("declare_owner",
        {PackedMap(IF did THEN 3 ELSE 1,
                   {"phase"} \cup (IF did THEN {"did", "transaction_payload"} ELSE {}))})
rpc_marshal_imp_did_resp ==
    Response("import_did", {PackedMap(2, {"did", "transaction_payload"})})
rpc_marshal_iss_vc_resp == NilResponse("issue_credential")
rpc_marshal_update_vc_resp == NilResponse("update_credential")
\* vc: the response carries the credential of the service
rpc_marshal_signin_req_chal_resp(vc) ==
    Response("signin_request_challenge",
        {PackedMap(IF vc THEN 3 ELSE 2,
                   {"credential_required", "jws"} \cup (IF vc THEN {"credential"} ELSE {}))})
rpc_marshal_signin_conf_chal_resp ==
    Response("signin_confirm_challenge", {PackedMap(2, {"access_token", "exp"})})

rpc_marshal_create_chan_resp == Response("create_channel", {PackedMap(1, {"id"})})
rpc_marshal_upd_chan_resp == NilResponse("update_feedinfo")
rpc_marshal_upd_user_info_resp == NilResponse("update_user_info")
rpc_marshal_pub_post_resp == Response("publish_post", {PackedMap(1, {"id"})})
rpc_marshal_declare_post_resp == Response("declare_post", {PackedMap(1, {"id"})})
rpc_marshal_notify_post_resp == NilResponse("notify_post")
rpc_marshal_edit_post_resp == NilResponse("edit_post")
rpc_marshal_del_post_resp == NilResponse("delete_post")
rpc_marshal_post_cmt_resp == Response("post_comment", {PackedMap(1, {"id"})})
rpc_marshal_edit_cmt_resp == NilResponse("edit_comment")
rpc_marshal_del_cmt_resp == NilResponse("delete_comment")
rpc_marshal_block_cmt_resp == NilResponse("block_comment")
rpc_marshal_unblock_cmt_resp == NilResponse("unblock_comment")
rpc_marshal_post_like_resp == NilResponse("post_like")
rpc_marshal_post_unlike_resp == NilResponse("post_unlike")

\* The answers of the get_* methods pack one map per row
rpc_marshal_get_my_chans_resp(chans) ==
    Rows("get_my_channels", "channels",
         {PackedMap(5, {"id", "subscribers"} \cup pack_kv(c, {"name", "introduction", "avatar"}))
             : c \in chans})
rpc_marshal_get_my_chans_meta_resp(chans) ==
    Response("get_my_channels_metadata",
             {PackedMap(2, {"id", "subscribers"}) : c \in chans})
rpc_marshal_get_chans_resp(chans, u) ==
    Rows("get_channels", "channels", {PackedMap(11, ChanKeys_2(c, u)) : c \in chans})
rpc_marshal_get_chan_dtl_resp(c, u) ==
    Response("get_channel_detail", {PackedMap(8, ChanKeys(c, u))})
rpc_marshal_get_sub_chans_resp(chans, u) ==
    Rows("get_subscribed_channels", "channels",
         {PackedMap(10, ChanKeys(c, u) \cup pack_kv(c, {"proof"}) \cup {"created_at"})
             : c \in chans})
rpc_marshal_get_posts_resp(posts) ==
    Rows("get_posts", "posts",
         {PackedMap(12,
             {"channel_id", "id", "status", "comments", "likes", "created_at", "updated_at"}
             \cup pack_nil_unless(p.st # "deleted", p, {"content", "thumbnails"})
             \cup pack_kv(p, {"hash_id", "proof", "origin_post_url"})) : p \in posts})
rpc_marshal_get_posts_lac_resp(posts) ==
    Response("get_posts_likes_and_comments",
         {PackedMap(1, {"posts"})}
         \cup {PackedMap(4, {"channel_id", "post_id", "comments", "likes"}) : p \in posts})
rpc_marshal_get_liked_posts_resp(posts) ==
    Rows("get_liked_posts", "posts",
         {PackedMap(6, {"channel_id", "id", "comments", "likes", "created_at"}
                       \cup pack_kv(p, {"content"})) : p \in posts})
rpc_marshal_get_liked_data_resp(likes, u) ==
    Rows("get_liked_data", "liked",
         {PackedMap(7, {"channel_id", "post_id", "comment_id", "created_at"}
                       \cup UserKeys(u, "user_name", "user_did")
                       \cup pack_kv(l, {"proof"})) : l \in likes})
rpc_marshal_get_cmts_resp(cmts, u) ==
    Rows("get_comments", "comments",
         {PackedMap(14,
             {"channel_id", "post_id", "id", "status", "comment_id", "likes", "created_at",
              "updated_at"}
             \cup UserKeys(u, "user_name", "user_did")
             \cup pack_nil_unless(c.st = "available", c, {"content", "thumbnails"})
             \cup pack_kv(c, {"hash_id", "proof"})) : c \in cmts})
rpc_marshal_get_cmts_likes_resp(cmts) ==
    Response("get_comments_likes",
         {PackedMap(1, {"comments"})}
         \cup {PackedMap(4, {"channel_id", "post_id", "id", "likes"}) : c \in cmts})
rpc_marshal_get_stats_resp ==
    Response("get_statistics",
             {PackedMap(3, {"did", "connecting_clients", "total_clients"})})

rpc_marshal_sub_chan_resp(c, u) ==
    Response("subscribe_channel", {PackedMap(12, {"is_last"} \cup ChanKeys_2(c, u))})
rpc_marshal_unsub_chan_resp == NilResponse("unsubscribe_channel")
rpc_marshal_enbl_notif_resp == NilResponse("enable_notification")
rpc_marshal_get_srv_ver_resp ==
    Response("get_service_version", {PackedMap(2, {"version", "version_code"})})
rpc_marshal_report_illegal_cmt_resp == NilResponse("report_illegal_comment")
\* announces 11 pairs and packs up to 7
rpc_marshal_get_reported_cmts_resp(reports, u) ==
    Rows("get_reported_comments", "comments",
         {PackedMap(11, {"channel_id", "post_id", "comment_id", "created_at"}
                        \cup UserKeys(u, "reporter_name", "reporter_did")
                        \cup pack_kv(r, {"reasons"})) : r \in reports})
rpc_marshal_set_binary_resp == Response("set_binary", {PackedMap(1, {"key"})})
rpc_marshal_get_binary_resp ==
    Response("get_binary", {PackedMap(4, {"key", "algo", "checksum", "content"})})

rpc_marshal_err ==
    [msg |-> "error", maps |-> {PackedMap(3, {"version", "id", "error"}),
                                PackedMap(2, {"code", "message"})}]

=============================================================================
