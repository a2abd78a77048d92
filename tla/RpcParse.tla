------------------------------ MODULE RpcParse ------------------------------
(***************************************************************************)
(* How src/rpc.c reads a request: one parser per method and protocol       *)
(* version, and rpc_unmarshal_req that chooses it.                         *)
(*                                                                         *)
(* A parser reads the parameters in a fixed order.  A key that is not the  *)
(* next one of the message, or whose value has another type, reads as      *)
(* NULL and the parser stays where it is.  The parsers of version 1.0      *)
(* fill in what only a request of version 2.0 carries ("NA", or one byte   *)
(* for a blob), so that both versions store complete rows.                 *)
(*                                                                         *)
(* The parameters of a message are a sequence of keys with a value that is *)
(* "full", "empty" (no bytes, or an id out of range) or "other" (of        *)
(* another type); what is inside a full value does not matter here.        *)
(***************************************************************************)
EXTENDS Naturals, Sequences, SequencesExt

\* What a parser demands of a field
Fields(ks, need) == [i \in DOMAIN ks |-> [key |-> ks[i], need |-> need]]
Full(ks)    == Fields(ks, "full")       \* refused unless it has contents
Given(ks)   == Fields(ks, "given")      \* refused unless it is there
OptFull(ks) == Fields(ks, "opt_full")   \* refused if there without contents
Opt(ks)     == Fields(ks, "opt")        \* never refused
Deref(ks)   == Fields(ks, "deref")      \* dereferenced, there or not

\* fill: the parameters the parser sets itself.  method: whether the parsed
\* request carries the method's name.
Parser(fields, fill) == [fields |-> fields, fill |-> fill, method |-> TRUE]
Extended(p, fields) == Parser(p.fields \o fields, {})

Authed(ks) == Full(<<"access_token">> \o ks)
OnCmt == Given(<<"comment_id">>)
Page == Full(<<"by">>) \o Given(<<"upper_bound", "lower_bound", "max_count">>)
ChanExtras == <<"tip_methods", "proof">>
PostExtras == <<"thumbnails", "hash_id", "proof", "origin_post_url">>
CmtExtras  == <<"thumbnails", "hash_id", "proof">>

-----------------------------------------------------------------------------
\* The parsers, in the order of the source

unmarshal_decl_owner_req == Parser(Full(<<"nonce", "owner_did">>), {})
unmarshal_imp_did_req == Parser(Opt(<<"mnemonic", "passphrase", "index">>), {})
unmarshal_iss_vc_req == Parser(Full(<<"credential">>), {})
unmarshal_update_vc_req == Parser(Authed(<<"credential">>), {})
unmarshal_signin_req_chal_req ==
    Parser(Full(<<"iss">>) \o Given(<<"credential_required">>), {})
unmarshal_signin_conf_chal_req ==
    Parser(Full(<<"jws">>) \o OptFull(<<"credential">>), {})

BadCreateChan == Parser(Authed(<<"name", "introduction", "avatar">>), {"proof"})
unmarshal_create_chan_req ==
    Parser(Authed(<<"name", "introduction", "avatar">>), ToSet(ChanExtras))
unmarshal_create_chan_req_2 ==
    Extended(unmarshal_create_chan_req, Full(ChanExtras))

\* The only parser that leaves the method's name NULL
unmarshal_upd_user_info_req ==
    [Parser(Authed(<<"name", "email", "display_name", "avatar">>), {})
        EXCEPT !.method = FALSE]

unmarshal_upd_chan_req ==
    Parser(Authed(<<"id", "name", "introduction", "avatar">>), ToSet(ChanExtras))
unmarshal_upd_chan_req_2 == Extended(unmarshal_upd_chan_req, Full(ChanExtras))

unmarshal_pub_post_req ==
    Parser(Authed(<<"channel_id", "content">>), ToSet(PostExtras))
unmarshal_pub_post_req_2 == Extended(unmarshal_pub_post_req, Full(PostExtras))
unmarshal_declare_post_req ==
    Parser(Authed(<<"channel_id", "content">>) \o Deref(<<"with_notify">>),
           ToSet(PostExtras))
unmarshal_declare_post_req_2 ==
    Extended(unmarshal_declare_post_req, Full(PostExtras))
unmarshal_notify_post_req == Parser(Authed(<<"channel_id", "post_id">>), {})
unmarshal_edit_post_req ==
    Parser(Authed(<<"channel_id", "id", "content">>), ToSet(PostExtras))
unmarshal_edit_post_req_2 == Extended(unmarshal_edit_post_req, Full(PostExtras))
unmarshal_del_post_req == Parser(Authed(<<"channel_id", "id">>), {})

unmarshal_post_cmt_req ==
    Parser(Authed(<<"channel_id", "post_id">>) \o OnCmt \o Full(<<"content">>),
           ToSet(CmtExtras))
unmarshal_post_cmt_req_2 == Extended(unmarshal_post_cmt_req, Full(CmtExtras))
unmarshal_edit_cmt_req ==
    Parser(Authed(<<"channel_id", "post_id", "id">>) \o OnCmt \o Full(<<"content">>),
           ToSet(CmtExtras))
unmarshal_edit_cmt_req_2 == Extended(unmarshal_edit_cmt_req, Full(CmtExtras))
unmarshal_del_cmt_req == Parser(Authed(<<"channel_id", "post_id", "id">>), {})
unmarshal_block_cmt_req ==
    Parser(Authed(<<"channel_id", "post_id", "comment_id">>), {})
unmarshal_unblock_cmt_req ==
    Parser(Authed(<<"channel_id", "post_id", "comment_id">>), {})

unmarshal_post_like_req ==
    Parser(Authed(<<"channel_id", "post_id">>) \o OnCmt, {"proof"})
unmarshal_post_like_req_2 == Extended(unmarshal_post_like_req, Full(<<"proof">>))
unmarshal_post_unlike_req ==
    Parser(Authed(<<"channel_id", "post_id">>) \o OnCmt, {})

unmarshal_get_my_chans_req == Parser(Authed(<<>>) \o Page, {})
unmarshal_get_my_chans_meta_req == Parser(Authed(<<>>) \o Page, {})
unmarshal_get_chans_req == Parser(Authed(<<>>) \o Page, {})
unmarshal_get_chan_dtl_req == Parser(Authed(<<"id">>), {})
unmarshal_get_sub_chans_req == Parser(Authed(<<>>) \o Page, {})
unmarshal_get_posts_req == Parser(Authed(<<"channel_id">>) \o Page, {})
unmarshal_get_posts_lac_req == Parser(Authed(<<"channel_id">>) \o Page, {})
unmarshal_get_liked_posts_req == Parser(Authed(<<>>) \o Page, {})
unmarshal_get_liked_data_req == Parser(Authed(<<>>) \o Page, {})
unmarshal_get_cmts_req == Parser(Authed(<<"channel_id", "post_id">>) \o Page, {})
unmarshal_get_cmts_likes_req ==
    Parser(Authed(<<"channel_id", "post_id">>) \o Page, {})
unmarshal_get_stats_req == Parser(Authed(<<>>), {})

unmarshal_sub_chan_req == Parser(Authed(<<"id">>), {"proof"})
unmarshal_sub_chan_req_2 == Extended(unmarshal_sub_chan_req, Full(<<"proof">>))
unmarshal_unsub_chan_req == Parser(Authed(<<"id">>), {})
unmarshal_enbl_notif_req == Parser(Authed(<<>>), {})
unmarshal_set_binary_req ==
    Parser(Authed(<<"key">>) \o Deref(<<"algo", "checksum">>)
           \o Opt(<<"content">>), {})
BadGetBinary == Parser(Authed(<<>>) \o Deref(<<"key">>), {})
unmarshal_get_binary_req == Parser(Authed(<<"key">>), {})
unmarshal_get_srv_ver_req == Parser(Opt(<<"access_token">>), {})
unmarshal_report_illegal_cmt_req ==
    Parser(Authed(<<"channel_id", "post_id">>) \o OnCmt \o Full(<<"reasons">>), {})
unmarshal_get_reported_cmts_req == Parser(Authed(<<>>) \o Page, {})

req_parsers_1_0 == [
    declare_owner                |-> unmarshal_decl_owner_req,
    import_did                   |-> unmarshal_imp_did_req,
    issue_credential             |-> unmarshal_iss_vc_req,
    update_credential            |-> unmarshal_update_vc_req,
    signin_request_challenge     |-> unmarshal_signin_req_chal_req,
    signin_confirm_challenge     |-> unmarshal_signin_conf_chal_req,
    create_channel               |-> unmarshal_create_chan_req,
    update_feedinfo              |-> unmarshal_upd_chan_req,
    update_user_info             |-> unmarshal_upd_user_info_req,
    publish_post                 |-> unmarshal_pub_post_req,
    declare_post                 |-> unmarshal_declare_post_req,
    notify_post                  |-> unmarshal_notify_post_req,
    edit_post                    |-> unmarshal_edit_post_req,
    delete_post                  |-> unmarshal_del_post_req,
    post_comment                 |-> unmarshal_post_cmt_req,
    edit_comment                 |-> unmarshal_edit_cmt_req,
    delete_comment               |-> unmarshal_del_cmt_req,
    block_comment                |-> unmarshal_block_cmt_req,
    unblock_comment              |-> unmarshal_unblock_cmt_req,
    post_like                    |-> unmarshal_post_like_req,
    post_unlike                  |-> unmarshal_post_unlike_req,
    get_my_channels              |-> unmarshal_get_my_chans_req,
    get_my_channels_metadata     |-> unmarshal_get_my_chans_meta_req,
    get_channels                 |-> unmarshal_get_chans_req,
    get_channel_detail           |-> unmarshal_get_chan_dtl_req,
    get_subscribed_channels      |-> unmarshal_get_sub_chans_req,
    get_posts                    |-> unmarshal_get_posts_req,
    get_posts_likes_and_comments |-> unmarshal_get_posts_lac_req,
    get_liked_posts              |-> unmarshal_get_liked_posts_req,
    get_liked_data               |-> unmarshal_get_liked_data_req,
    get_comments                 |-> unmarshal_get_cmts_req,
    get_comments_likes           |-> unmarshal_get_cmts_likes_req,
    get_statistics               |-> unmarshal_get_stats_req,
    subscribe_channel            |-> unmarshal_sub_chan_req,
    unsubscribe_channel          |-> unmarshal_unsub_chan_req,
    enable_notification          |-> unmarshal_enbl_notif_req,
    set_binary                   |-> unmarshal_set_binary_req,
    get_binary                   |-> unmarshal_get_binary_req,
    get_service_version          |-> unmarshal_get_srv_ver_req,
    report_illegal_comment       |-> unmarshal_report_illegal_cmt_req,
    get_reported_comments        |-> unmarshal_get_reported_cmts_req]

req_parsers_2_0 == [req_parsers_1_0 EXCEPT
    !.create_channel    = unmarshal_create_chan_req_2,
    !.update_feedinfo   = unmarshal_upd_chan_req_2,
    !.publish_post      = unmarshal_pub_post_req_2,
    !.declare_post      = unmarshal_declare_post_req_2,
    !.edit_post         = unmarshal_edit_post_req_2,
    !.post_comment      = unmarshal_post_cmt_req_2,
    !.edit_comment      = unmarshal_edit_cmt_req_2,
    !.post_like         = unmarshal_post_like_req_2,
    !.subscribe_channel = unmarshal_sub_chan_req_2]

-----------------------------------------------------------------------------
\* map_nxt_val_*: the value under the key if it is the next one, else NULL;
\* only a value that was read moves the parser on
map_nxt_val(acc, key, params) ==
    IF /\ acc.nxt <= Len(params)
       /\ params[acc.nxt].key = key
       /\ params[acc.nxt].val # "other"
    THEN [nxt |-> acc.nxt + 1, read |-> Append(acc.read, params[acc.nxt])]
    ELSE acc

\* What a parser reads of the parameters: their longest prefix it can follow
ReadParams(p, params) ==
    LET step(acc, f) == map_nxt_val(acc, f.key, params)
    IN  FoldLeft(step, [nxt |-> 1, read |-> <<>>], p.fields).read

Keys(read, vals) == {read[i].key : i \in {j \in DOMAIN read : read[j].val \in vals}}

\* The checks that follow: -1, or undefined when a NULL is dereferenced
Refuses(p, read) ==
    \E i \in DOMAIN p.fields :
        LET f == p.fields[i] IN
        \/ f.need = "full" /\ f.key \notin Keys(read, {"full"})
        \/ f.need = "given" /\ f.key \notin Keys(read, {"full", "empty"})
        \/ f.need = "opt_full" /\ f.key \in Keys(read, {"empty"})
Dereferences(p, read) ==
    \E i \in DOMAIN p.fields :
        p.fields[i].need = "deref" /\ p.fields[i].key \notin Keys(read, {"full", "empty"})

\* A message: head says whether it is a map that starts with a version, a
\* method and an id.
Result(rc, p, params) ==
    [rc |-> rc, method |-> p.method, params |-> params]
Unnamed == Parser(<<>>, {})

Parsed(p, read) ==
    CASE Refuses(p, read)      -> Result("-1", p, {})
      [] Dereferences(p, read) -> Result("undefined", p, {})
      [] OTHER                 -> Result("0", p, Keys(read, {"full"}) \cup p.fill)

\* The version a request is taken to have: memcmp compares as many bytes as
\* the request's version has, so a prefix of "1.0" or "2.0" is as good as the
\* whole.  A version of more than the four bytes of the literal makes memcmp
\* read past its end: "long" is one that differs within them, "1.0+" and
\* "2.0+" start with the literal and its NUL.
TakenAs(version) ==
    CASE version \in {"1", "1.0"} -> {"1.0"}
      [] version \in {"2", "2.0"} -> {"2.0"}
      [] version = "1.0+"         -> {"1.0", "none", "fault"}
      [] version = "2.0+"         -> {"2.0", "none", "fault"}
      [] version = "long"         -> {"none", "fault"}
      [] OTHER                    -> {"none"}

req_parsers(version) == IF version = "1.0" THEN req_parsers_1_0 ELSE req_parsers_2_0

\* strncpy copies the method's name, of whatever length, into method_str
\* before anything looks at it or at the version: "long_method" stands for
\* a name of more than the 1024 bytes of that array.
Overflows(m) == m.method = "long_method"

\* The results a message can have: more than one if memory is read that the
\* program does not own
rpc_unmarshal_req(m) ==
    CASE ~m.head -> {Result("-1", Unnamed, {})}
      [] m.head /\ Overflows(m) -> {Result("undefined", Unnamed, {})}
      [] OTHER ->
            {LET p == req_parsers(v)[m.method]
             IN  CASE v = "fault" -> Result("undefined", Unnamed, {})
                   [] v = "none"  -> Result("-3", Unnamed, {})
                   [] m.method \notin DOMAIN req_parsers(v) -> Result("-2", Unnamed, {})
                   [] OTHER -> Parsed(p, ReadParams(p, m.params)) :
                v \in TakenAs(m.version)}

=============================================================================
