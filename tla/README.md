# Formal model of the feeds service

TLA+ modules, TLC configurations and TLAPS proofs for `feedsd`, the daemon of
this repository: one Carrier node that serves feeds (channels, posts, comments,
likes) to its friends over RPC messages. File names below are relative to
`src/`.

## 1. Inventory

### Parts, their state and how they interact

| part | source | state | operations |
|---|---|---|---|
| Carrier callbacks | `main.cpp` | connected clients | message received, friend connected or disconnected, idle |
| command handler | `cmdhandler/CommandHandler.cpp`, `LegacyMethod.cpp` | a thread pool with one thread | `received` and `send` post tasks, `process` runs a handler |
| thread pool | `utils/ThreadPool.cpp` | FIFO of tasks | `post`, `processTaskQueue` |
| message queues | `msgq.cpp` | table of queues by peer; per queue a list and the mark `depr` | `msgq_enq`, `on_msg_receipt`, `msgq_peer_offline` |
| feeds | `feeds.c`, `obj.h` | cache of the channels by id and by name, next channel id | one handler per RPC method |
| notifications | `feeds.c` | active subscribers, destinations, and the objects that link them | `enable_notification`, subscribe, unsubscribe, walks, `feeds_deactivate_suber` |
| database | `db.cpp`, `feedsd-ext/DataBase.cpp` | SQLite tables | one transaction per change, iterators, upgrade of old tables |
| login | `auth.c` | pending logins, owner's data | `signin_request_challenge`, `signin_confirm_challenge`, `auth_expire_login` |
| standard authentication | `cmdhandler/StandardAuth.cpp` | `authSecretMap` | `standard_sign_in`, `standard_did_auth` |
| DID binding | `did.c` | state, owner, feeds DID, credential, address; users table and DID store | declare owner, import DID, issue and update credential, `did_init` |
| mass data | `massdata/*`, `cmdhandler/MassData.cpp` | data pipe per peer; per session a thread, a state and a parser | session request, state changes, chunks, removal |
| RPC | `rpc.c`, `rpc.h`, `feedsd-ext/Rpc*` | version of the request, unpacked message | a parser per method and version, a packer per message |

Three kinds of threads matter. The *Carrier thread* delivers every callback: requests,
receipts, connections, disconnections. The *worker* is the only thread of the
command handler's pool: it runs request handlers and the actual sends in the
order they were posted. A request is received by the Carrier thread, posted,
handled by the worker, which changes tables and cache and calls `msgq_enq` for
the response and for each notification; `msgq_enq` posts a send or lets the
message wait; the receipt of a send, on the Carrier thread, posts the next one.
A disconnection makes the Carrier thread change the notification tables and the
message queues while the worker may be using them. Only `msgq.cpp` has a mutex,
and it holds it for one table or list operation at a time. Each mass data
session has a *pool thread* of its own, which runs the listeners of its session;
they look the pipe up by peer in a map that the Carrier thread changes.

### What is hard

* `msgq.cpp`: steps of two threads between its critical sections, sends that
  are refused, receipts that come after a disconnection.
* notification tables: no lock at all, and keys that point into objects that
  `update_feedinfo` replaces.
* `feeds.c` and `db.cpp`: a cache and counters kept beside the tables, through
  any sequence of requests and a restart at any moment.
* status changes of posts and comments by requests in any order.
* login: timeouts that are only swept, challenges answered late or twice, two
  ways of logging in that write the same row.
* DID binding: several writes one after the other, with a failed call or the end
  of the process between any two; starts that take what they cannot read for
  absent.
* mass data: pipes replaced and removed by peer while the threads of the sessions
  use them; a stream cut anywhere.
* RPC: maps whose size is announced before the pairs are packed, parsers that
  read in a fixed order, two versions on one set of tables.
* get requests: answers split into several messages with unsigned arithmetic,
  each handler with its own way of measuring a row; clients that page or
  synchronise while the rows change, by columns that not every change writes.

`PROJECT.json` lists these hazards line by line with the properties that cover
them.

### What makes each part correct

* message queues: the messages of a peer in order, nothing lost or stuck but in
  known ways, nothing sent for a queue given up.
* feeds and database: cache equal to the tables, counters equal to what they
  count, ids without gaps, no reference to a missing row, deleted posts final,
  no request ends the process.
* notifications: two-sided links agree, exactly the subscribers who asked are
  notified, at connected nodes.
* answers: every row once and in order, `is_last` exactly at the end, no response
  larger than the limit; a client that pages by id, or asks for what was updated
  since its last answer, misses nothing.
* login: one token per login, for the user who asked, in time, with the user's
  row and a name; the owner's data in memory equal to the owner's row.
* DID binding: memory equal to what a restart would recover, no answer taken back
  by a crash, one owner, one DID, ever newer credentials, and a service that can
  always be brought to the end of the binding.
* mass data: messages whole, once and in order; a session removes its own pipe;
  no pipe of an ended session stays.
* RPC: every packed map complete, what is parsed fits the tables in both versions,
  no request leaves the defined behaviour.

## 2. Modules

| module | models | checked by |
|---|---|---|
| `MsgQ` | `msgq.cpp` with the worker and the Carrier thread | `MCMsgQ` |
| `LossyFifo` | what the handlers may rely on: a lossy FIFO channel per peer | implemented by `MsgQ` |
| `MsgQ_proofs` | theorems about `MsgQ` | TLAPS |
| `Feeds` | the changing handlers of `feeds.c`, the transactions of `db.cpp`, the cache and the restart | `MCFeeds` with `MCFeedsChans`, `MCFeedsCmts`, `MCFeedsAbort` |
| `Feeds_proofs` | theorems about `Feeds` | TLAPS |
| `Subscribers` | active subscribers and notification destinations, two threads | `MCSubscribers` |
| `Subscribers_proofs` | theorems about `Subscribers` | TLAPS |
| `Answers` | how the `get_*` handlers of `feeds.c` and the `get_multi_*` methods of `ChannelMethod.cpp` split rows into responses | `MCAnswers` |
| `Answers_proofs` | theorems about `Answers` | TLAPS |
| `Listing` | the queries of `db_iter_posts` and `db_iter_cmts` and the changes of the rows they list | `MCListing` |
| `Listing_proofs` | theorems about `Listing` | TLAPS |
| `RpcParse` | the request parsers of `rpc.c`, both versions | through `Rpc` |
| `RpcPack` | the responses and notifications `rpc.c` packs | through `Rpc` |
| `Rpc` | a request from `CommandHandler::process` to the messages it causes | `MCRpc` with `MCRpc`, `MCRpcHandlers` |
| `Did` | `did.c`, with failed calls and crashes between any two writes | `MCDid` |
| `Binding` | what the binding promises: one owner, then one DID, then newer credentials | implemented by `Did` |
| `Did_proofs` | theorems about `Did` | TLAPS |
| `Auth` | `auth.c` and `StandardAuth.cpp` on one users table | `MCAuth` |
| `Auth_proofs` | theorems about `Auth` | TLAPS |
| `SessionParser` | the parser of a mass data stream and the frame on the wire | through `DataPipes` |
| `DataPipes` | the pipes by peer, the sessions and their pools | `MCDataPipes` |
| `DataPipes_proofs` | theorems about `DataPipes` | TLAPS |

Operators whose name starts with `Bad` are deliberately wrong variants of the
operator defined after them. They are used by no action; `PROJECT.json` lists
them as mutants, each of which breaks the property it is listed with. Each
module has a type invariant `TypeOK`; where a run does not list it, it is a
conjunct of an invariant of that run, or (`MsgQ`, `Did`) proved.

### MsgQ

A step is one critical section of `msgq.cpp` with the thread-local code around
it. `wpc`, `wto`, `wq` say where the worker is inside `msgq_enq`; `cpc`, `cq`,
`cmsg` where the Carrier thread is inside `on_msg_receipt`. `msgqs` is the hash
table, `peer`, `list` and `depr` are the fields of the queue objects, `tasks` is
the task queue of the pool and `unacked` what Carrier accepted and has not given
a receipt for. Messages are numbered by the calls of `msgq_enq`; a queue object
has the number of the message it was created for. `accepted`, `sent`, `refused`
and `late` are history variables.

| action | code |
|---|---|
| `ReceiveRequest` | `on_receiving_message`, `CommandHandler::received` |
| `PeerOnline`, `PeerOffline` | `friend_connection_callback`, `msgq_peer_offline` |
| `Receipt`, `ReceiptRm`, `ReceiptSend` | `on_msg_receipt`: the test of `depr` and `msgq_pop_head`; `msgq_rm`; the send |
| `StartRequest`, `EndRequest`, `SendTask` | `ThreadPool::processTaskQueue` running `process` or `send` |
| `EnqGet`, `EnqPush`, `EnqCreate`, `EnqPut` | `msgq_enq`: `msgq_get`; `msgq_push_tail`; `msgq_create` and the send; `msgq_put` |

`msgq_peer_offline` removes the queue and then sets `depr` outside the mutex;
it is one step because only the Carrier thread itself reads `depr`. Carrier is
external: it may refuse a message (`SendTask`, second case) and gives one
receipt for each message it accepted, in any order.

### Feeds

A handler runs alone on the worker and changes the tables in one transaction, so
an action is one successful request; the guards are the handler's checks in
their order, and a refused request changes nothing. The operators `db_*` are the
functions of `db.cpp` of the same name: when the transaction succeeds and what
it changes. `mem`, `chans_by_id`, `chans_by_name` and `nxt_chan_id` are the
memory of `feeds.c`; `Restart` rebuilds them as `load_chans_from_db` does, at any
moment. Texts, times, pictures and proofs are left out.

`BlockCmt` and `GetCmtsAborts` include the log lines that call `cmt_stat_str`,
which aborts on a blocked comment. The arguments of a log call are evaluated
whether or not the line is written: the logging function is part of an external
library and is used here as a function.

### Subscribers

`ass` and `nds` are the hash tables of the active subscribers and of the
destinations; `asNodes` and `ndUsers` are the two ends of the
`NotifDestPerActiveSuber` links, `listed` and `hashed` the two ends of the
`ActiveSuberPerChan` links. A handler is two steps: what it looks up, and what
it does with what it found; `Disconnect` (`feeds_deactivate_suber`) may come
between them, or during a walk. If it frees or unlinks an object the handler is
using, the behaviour is undefined and `broken` becomes true; the properties say
nothing until the restart. There are three kinds of walks: over the subscribers of
a channel, over the owner's destinations (`tell`, the second half of a
subscription and the end of `report_illegal_comment`) and over all destinations
(`stats`, `hdl_stats_changed_notify`). `chanObj` counts the `Chan` objects of a
channel: `update_feedinfo` puts a new one and frees the old, into which the keys of
existing `ActiveSuberPerChan` entries point. A lookup may find such an entry or
not: `UnsubChanRemove` may miss it, and `Put` (`aspc_put`) may replace it on the
user's side only, which leaves it on the list of the channel; if its user goes
then, `feeds_deactivate_suber` leaves it there with a freed `ActiveSuber`
(`LeavesBehind`, also `broken`). `dangled` records whose entries have such a key,
until the user has left every node. `Request` and `pending` keep an `enable_notification` that is queued
while its node disconnects. The hash tables and lists of the external library
are used as their callers use them: `put` stores a reference, `remove` hands it
back, and there is no lock because the tables are created unsynchronised.

### Answers

An action opens an answer with any rows, and the following steps are the passes
of the handler's loop: `Collect` keeps a row for the response being filled,
`SendChunk` enqueues the response, `EnqFails` is `msgq_enq` failing, which ends
the loop. A row is the sizes of its content and of its thumbnail; a response is
the places of its rows and `is_last`. The handlers share the loop and differ in
two operators: `Charged` is what a row takes off `left`, `Needed` what is
compared with it. `Minus` is the subtraction of `size_t`, with `Word` values.
The `get_multi_*` methods are `Step` for each row, `StepsDone`, and
`processAdvance`, which enqueues the responses one by one and, unlike
`feeds.c`, goes on after a failure.

### Listing

`tab` holds the rows of one list: the posts of a channel or the comments of a
post, chosen at the start from the constant `Objects`. `Select` is the set of answers SQLite may
give to a query: those of `Matching` in the order of the query, cut at its
count; rows of the same second come in any order. `Add`, `Edit` and the `hdl_*`
actions are the requests that change a row, reduced to its status and its times;
the checks on users and channels are in `Feeds`. `chg` is a history: when the row
last changed. The two clients are external, `Sync` and `PageStart`, `PageNext`;
they use the requests as the fields of `get_posts` and `get_comments` allow. A
list of comments with a blocked one is never answered, because the handler
aborts on it (`Answered`).

### RpcParse, RpcPack, Rpc

A message is its method, its version and a sequence of parameters; a parameter
has a key and a value that is full, empty or of another type. A parser is the
list of the keys it reads, with what it demands of each, and what it fills in
itself; `map_nxt_val` is the reading step all parsers share: a key that is not
the next one reads as NULL. A packed map is the size it announces and the keys
that follow. `Rpc` keeps of each table one row, as the set of its columns that
are not empty, and runs a request from `rpc_unmarshal_req` to the packed
messages. Rows that `db_init` converted from version 1 may be there at the start.
`dead` stands for `abort()`, a dereferenced NULL, the reading of fields that
were never set, and memory read or written past its end. The method's name is
copied into `method_str[1024]` before anything else is looked at (`Overflows`). The
version is compared over the length the request gives it (`TakenAs`): a prefix of
`"1.0"` or `"2.0"` is taken for the whole, and more than the four bytes of the
literal are read past its end, so that `rpc_unmarshal_req` is the set of the
results a message can have. Requests that are refused for reasons the other modules model
may be refused here at any time.

### Did and Binding

`users`, `identity`, `docs` and `cred` are the disk: the users table and the DID
store, which may hold several DIDs; `mem` is the variables of `did.c`, the address of the binding page
included; `job` says where a request is between two of its writes.

| action | code |
|---|---|
| `DeclareFirst`, `DeclareSelected` | `hdl_decl_owner_req` without an owner: the INSERT and the SELECT of `db_upsert_user` |
| `DeclaredBefore` | `hdl_decl_owner_req` with an owner |
| `CreateIdentity`, `NewDID` | `hdl_imp_did_req`: the root identity; the DID with its document and key |
| `hdl_iss_vc_req`, `hdl_update_vc_req`, `Stored` | `process_vc_req`: its checks and the storing; the change of the state |
| `Crash`, `did_init` | the end of the process, and its start |

Each library call may fail, and the handler then does what its error path does.
That includes the calls of `did_init`: one that it checks ends the start, and the
process is started again; one whose failure it takes for absence
(`DIDStore_ContainsRootIdentities`, `DIDStore_LoadDID` and
`DIDStore_LoadCredential`, `did.c:542-568`) lets the process serve in an earlier
state than the disk's (`Misreadings`). `missed` is true while it does, `renewed`
once such a process has written another DID or credential. When the store has
several DIDs, `load_feeds_doc` takes the first that is listed, in any order
(`Recoveries`). `Binding` is the abstract specification; the refinement mapping
reads the disk, and `sight` says whether the process has read it. Assumed of the
DID library: `RootIdentity_NewDIDByIndex` writes key and document together and does
not overwrite a DID that is there, as its last argument asks.

### Auth

A challenge is its number in `chals`; `pending` and `secrets` are
`pending_logins` and `authSecretMap`. A token records its challenge, the row it
was made from and when. The confirmation of `auth.c` takes the login out of the
table before it does anything else; the one of `StandardAuth.cpp` only looks its
challenge up, and replaces the user's name by `"NA"` when the presentation brings
none. Signatures, presentations and the texts of tokens are external: what
matters is who signed and which nonce. `auth_expire_login` runs on the Carrier
thread whenever it is idle; each use of `pending_logins` is one step.

### SessionParser and DataPipes

`unpack`, `unpackProtocol` and `unpackBodyData` are functions of the parser's
state and a chunk. A unit of the wire says which message and which place it comes
from, so that what comes out can be compared with what went in. `DataPipes` has
the map `pipes` and, for each session, the state of its stream, the tasks of its
pool and the task that is running, in as many steps as it uses the map: `Pop`,
`onNotify` or `FindPipe`, `Unpack`. A task with data holds a reference to its
session and a notification a plain pointer, so a session may be destroyed under
it. When the last reference goes while the thread of the session's pool is between
two tasks, `shared_from_this` throws (`ThreadPool.cpp:150`) or the thread reads
`mQuit` of the pool it was the last to refer to (158): `PopGone`, and the last case
of `SessionRequestFails`. `down` is the end of the process by one of these or by a
null pointer; `mixed`, `cut`, `passed` and `wrong` record how the races went.

Two things are assumed here. Carrier makes all its callbacks, those of the streams
included, on the one thread that runs the node, so that no callback of a new
stream comes between `allowConnectAsync`, which registers them, and
`appendDataPipe` (`MassDataManager.cpp:95`, 101): `onSessionRequest` is one step.
And the sizes in a frame are those that `SessionParser::pack` writes: `headSize` is
an `int32_t` on the wire and its sign is not checked (`SessionParser.cpp:169`,
180), but no `pack` writes a negative one.

## 3. Runs

| run | instance | question |
|---|---|---|
| `msgq` | 2 peers, 3 messages, 2 requests | order, losses and removal of queues under every interleaving; refinement of `LossyFifo`; every message is sent or lost in a named way |
| `feeds_chans` | 2 users, 3 channels, 4 names, 2 posts, 3 subscriptions | cache, index by name, subscriber counts, ids, deleted posts |
| `feeds_cmts` | 2 users, 1 channel, 1 post, 2 comments, 2 likes, 1 report | likes, no dangling row, deleted comments, circles of replies |
| `feeds_abort` | 2 users, 1 post, 1 comment | violated: a blocked comment ends the process |
| `subscribers` | the owner and a user, 2 nodes, 1 channel, 2 updates | agreement of the tables, who is notified |
| `answers` | up to 4 rows of sizes 0, 1, 2, 4, limit 3 | rows once and in order, `is_last`, size of the responses |
| `listing` | 3 posts or 3 comments, times to 2 | synchronising and paging clients |
| `rpc` | every method, both versions, complete or with one parameter missing, empty, of another type or out of place; versions that are prefixes or too long, a method that is too long | complete maps, stored columns, undefined behaviour |
| `rpc_handlers` | every method, complete | violated: `update_user_info` does not reach its handler |
| `did` | 2 clients, 2 DIDs, 2 dates, 3 faults | memory and disk, answers kept, refinement of `Binding`, the service becomes ready |
| `auth` | the owner and a user, 1 app, 2 challenges, 2 tokens, both times to live 1, 3 ticks, 1 fault | who gets a token, for what, how late, with which name |
| `data_pipes` | 1 peer, 2 sessions, chunks of 1 and 5, 1 waiting task per pool | whole messages, which pipe is removed, null pointers, ended sessions |

Bounds. Three messages let a peer have a queue with waiting messages, lose it
to a disconnection and get a second queue whose sends mix with those of the
first; two peers show that one does not disturb the other. Two requests are
enough for the worker to be between handlers while messages wait. Three channels
with four names allow a rename to a free name and to one given up, and the limit
(`MaxFeeds`, 5 in the code) is reached. Two comments give a reply and a reply
that is edited to refer to itself or to the other; two users give counters above
one and comments of somebody else. Two nodes per user make the difference
between a subscriber's last destination and another one. Rows of sizes 0, 1, 2
and 4 against a limit of 3 give empty rows, responses that are exactly full,
rows that do not fit beside another and rows that fit in no response, and four
of them give each kind after each other. Three rows read in pages of one or two
leave a page with rows before and after it, and the ticks are enough for a row
to change in the same second as a query or in a later one. One parameter at a
time is varied in a request because a parser stops at the first one it cannot
read or refuses. Three faults are a crash, a start that misreads the disk and
another crash or failed call; two dates give an older and a newer credential. Two
challenges of one user, or one of each kind, meet on the same row, and three
ticks are a challenge, its expiry and a time after it. Chunks of one unit cut
everywhere, chunks of five begin in one frame and end in the next; the streams have junk before a frame, two frames after each other, a frame without a
body and one of another version.

Deadlock is not checked for `msgq`, `rpc`, `rpc_handlers` and `data_pipes`: with
the requests, messages or sessions used up, or after the process has ended on a
null pointer, these models stop. In the other runs something can always happen: a
restart, another request, another query.

Fairness. `Delivery` assumes weak fairness of the worker and of the receipts:
the pool's thread loops as long as there are tasks, Carrier runs its event loop
and reports every message it accepted as received, offline or failed.
`PeerOnline`, `PeerOffline` and `ReceiveRequest` are not fair. `BecomesReady`
assumes that the daemon is started again (`scripts/feedsd.service` says
`Restart=always`), that the worker finishes its request, and of the clients that
they keep sending `declare_owner` and do what its answers ask for (import a DID,
issue a credential): strong fairness, because faults and other clients' requests
come in between and the worker takes requests in the order they came. Faults are bounded, so they
end. `ClosedIsRemoved` assumes that the operating system runs the pool threads;
the formula is weak fairness of `Pool(s)`, written without `ENABLED`, which TLC
would have to evaluate by trying every step.

What the runs show:

* A peer's messages are never reordered or duplicated, even when a disconnection
  leaves sends of an old queue posted among those of a new one (`InOrder`,
  `FifoSpec`), and `on_msg_receipt`, which removes a queue by its peer's name,
  never removes another one (`OwnEntry`).
* A message is lost in exactly three ways (`NothingElseLost`, `Delivery`): the
  peer disconnects; a send of its queue is refused, after which nothing drives
  the queue; or `msgq_enq` pushes it between `msgq_pop_head` and `msgq_rm`.
* The cache is always what a restart would load (`CacheMatchesDb`), the index by
  name follows renames, the ids have no gaps (`IdsDense`), the counters are right although
  `db_unsub` and `db_rm_like` decrement without a test (`SubsCounted`,
  `LikesCounted`), and the handlers do what the unenforced foreign keys would
  (`NoDangling`).
* A deleted post stays deleted (`DeletedPostFinal`). A deleted comment comes back
  only through `unblock_comment` or `block_comment`, which do not ask for the status
  (`DeletedCmtBack`), and replies form a circle only through `edit_comment`
  (`LoopsOnlyByEdit`).
* `NoAbort` and `HandlerReached` are violated: see `findings` in `PROJECT.json`.
* An answer holds every row once and in order, and `is_last` is on its last
  response and on no other (`RowsOnce`, `LastMeansAll`). The
  limit is kept with four exceptions that `Fits` names: a row larger than
  `MAX_CONTENT_LEN` makes `left` wrap, so that its response takes everything that
  follows it; the thumbnails of comments are compared and not subtracted;
  `get_liked_data` compares a row with itself instead of the next; a
  `get_multi_*` response is closed after the row that fills it. After a failure
  of `msgq_enq` only a `get_multi_*` answer can end with `is_last` and lack rows.
* Paging by id and asking for updates from the newest known time, that second
  included, miss no row (`PagesAll`, `NothingMissed`), as long as `updated_at` is
  right. It is right for comments. It is not for posts: `db_set_post_status`
  (`db.cpp:974`) does not write it, unlike `db_set_cmt_status`, so a client that
  asks for updates may never hear that a post was deleted or published.
* The notification tables agree and reach exactly the subscribers who asked,
  with two exceptions that the properties name: a node enabled after it had
  disconnected (`OfflineOnlyIfLate`), and users who were active subscribers of a
  channel when it was updated and have not left every node since (`NoneUnwanted`,
  and `TwoSided` for the entry that a new subscription of theirs leaves behind).
  What follows when an object is freed under the handler that uses it is not
  covered by any property.
* Every packed map has as many pairs as it announces but for three messages that
  `MapsComplete` names: the `comment_update` of an `unblock_comment`, the
  `report_illegal_comment` notification and the rows of
  `get_reported_comments`. Both versions fill every column (`EveryVersionStores`).
  The requests that leave the defined behaviour are those `UndefinedOnly` names: a
  method of more than 1024 bytes, a version of more than four, `update_user_info`,
  `declare_post` and `set_binary` without a parameter that is dereferenced
  unchecked, `block_comment` and `get_comments` with a blocked comment, and
  `report_illegal_comment`.
* The binding survives any three faults (`MemoryIsDisk`, `ToldIsKept`,
  `Implements`), with two exceptions. When `db_upsert_user` fails in its SELECT,
  its row stays while memory is cleared (`did.c:653`), and the next start finds an
  owner of whom the memory knew nothing. And a start that does not read the DID or
  the credential (`did.c:542-568`) serves as if there were none: the next start
  finds them again, unless the owner was led to import another DID, which then
  lies beside the first, or to issue a credential, which replaces the stored one
  whatever its date. From every such state a client gets to
  the end (`BecomesReady`); after a failed `gen_tsx_payload` only through
  `declare_owner`, because a repeated `import_did` is ignored.
* A login of `auth.c` gives one token (`OneTokenPerLogin`), to the user who asked
  and with his row (`TokensAreAskedFor`); it is late only if no sweep came between
  its expiry and the confirmation (`LateOnlyBeforeSweep`). A challenge of
  `StandardAuth.cpp` may be answered again until it expires. A login without a
  name needs a standard login of the same user between its challenge and its
  confirmation (`NamelessOnlyIfReset`). The owner's data in memory is that of the
  row unless an upsert failed after `oinfo_upd` (`OwnerIsFresh`).
* However the stream is cut, a parser hands over what was sent, at once and in
  order, up to the first frame of another version (`WholeMessages`). After such a
  frame the protocol left behind counts as complete with an empty head, and every
  later chunk is taken for a body. A session removes another one's pipe only if it
  was replaced while its notification ran (`RemovesOwnPipe`); a null pointer
  is met only if a pipe was removed while data of its peer was under way, and a
  destroyed pool only if its session went while its thread was between two tasks
  (`DownOnlyIfCut`). The pipe of an ended session never stays (`ClosedIsRemoved`).

## 4. Proofs

`MsgQ_proofs` proves, for any set of peers and any natural `MaxMsgs` and
`MaxReqs` (`MsgQAssumption`, the only assumption):

* `TypeCorrect`: `Spec => []TypeOK`;
* `RemovesOwnEntry`: `Spec => []OwnEntry`;
* `SendsInOrder`: `Spec => []InOrder`;
* `SilentAfterOffline`: `Spec => DeprecatedStaysSilent`;
* `LossesAreKnown`: `Spec => []NothingElseLost`;
* `ImplementsFifo`: `Spec => FifoSpec`, the refinement of `LossyFifo`.

They follow from one inductive invariant `IInv` (theorem `Invariant`). `InOrder`
is not inductive: that the next send is larger than all earlier ones depends on
what is posted, on what the receipt callback holds and on what waits.
The parts of `IInv`:

* `Fresh`: all numbers in use are at most `Bound`, so the message that
  `msgq_enq` is about to push or to create a queue for is the largest;
* `Enqueuing`: what the worker knows between two steps of `msgq_enq`; in
  particular its peer has no queue in the table while it creates one, because
  only the worker puts queues there;
* `Table`: a queue in the table is under its own peer and not deprecated;
* `Drivers`: a message on its way belongs to the queue in the table, to a
  deprecated one, or to the one about to be put;
* `Single`: a queue has at most one message posted, unacknowledged or held by
  the callback, so the callback's removal leaves no message behind it;
* `Order`: for each peer, sent < posted (in the order posted) < held by the
  callback < waiting in the table's queue (in its order);
* `Origin`: a message is only where it was accepted for.

There is one lemma per action; it states what the action changes element by
element and then each part it can disturb. `ElementsOf`, `Posting` and `Taking`
turn sequences into facts about their elements, which is what the provers need.

`LossesAreKnown` needs two more parts, inductive together with `IInv`: `Driven`, a
queue in the table has a message posted, unacknowledged or held by the callback,
or one of its messages was refused, so a receipt is still to come for it; and
`Waiting`, a message that waits is in a queue of the table unless it came late or
the queue is deprecated. `Single` makes the one on its way the only one.

`Did_proofs` proves, for any sets of DIDs and any natural bounds on dates and
faults (`NoDidAssumption`, `BoundsAssumption`):

* `TypeCorrect`: `Spec => []TypeOK`;
* `MemoryAgrees`: `Spec => []MemoryIsDisk`;
* `AnswersSurvive`: `Spec => []ToldIsKept`;
* `ImplementsBinding`: `Spec => Implements`, the refinement of `Binding`.

`MemoryIsDisk` speaks of the moments between two requests and is not inductive:
what memory will be after a request depends on how far the request has come. The
parts of `IInv` beside `TypeOK` and `ToldIsKept`:

* `DiskInOrder`: the disk is written in the order row, identity, DID, credential,
  so that the four cases of `did_init` are all there are, and a second DID comes
  only from a process that had not read the first;
* `Believed`: what memory says of the disk at any moment, also inside a request;
* `InRequest`: for each place in a request, what memory and disk hold there, unless
  the start had missed it; at `idle` it gives `MemoryIsDisk` but for the owner;
* `MissedIsThere`: only a DID that is on the disk can have been missed;
* `OneOwner`: unless an upsert was torn, the owner in memory is the first row.

`RecoveredFields` says what `did_init` makes of the disk, `StateSet` and
`SameMem` let memories be compared field by field; then there is one lemma per
action. The refinement is shown action by action: the INSERT of the first row is
`Declare`, `NewDID` is `Import`, storing a credential is `Issue`; both are `Replace`
when the process had missed what is there; a start that misreads is `Blind` and the
crash after it `See`. All other steps leave the disk's binding as it is.

`Auth_proofs` proves, for any users, apps and names, any times to live and any
bounds (`OwnerAssumption`: the owner is a user; `NamesAssumption`: `"NA"` is not
a name; `TimesAssumption` and `BoundsAssumption`: naturals):

* `OneToken`: `Spec => []OneTokenPerLogin`;
* `AskedFor`: `Spec => []TokensAreAskedFor`;
* `LateBeforeSweep`: `Spec => []LateOnlyBeforeSweep`;
* `FreshOwner`: `Spec => []OwnerIsFresh`;
* `Nameless`: `Spec => []NamelessOnlyIfReset`.

The properties speak of tokens that were given; what makes them true is in the
tables before. The parts of `IInv`:

* `OneRowEach`: the first row is the owner's and no DID has two rows, so a token's
  row is the user's whichever way he logs in;
* `Past`: challenges, the last sweep and the overwritten names are not later than
  now;
* `PendingOk`: a pending login is the only one of its challenge, has given no
  token, was spared by the last sweep and, if it asks for no credential, its user
  has a name or has lost it since the challenge;
* `SecretsOk`: an entry of `authSecretMap` expires as its challenge says;
* `TokensOk`: what the properties say of each token.

`Upsert` says what `db_upsert_user` does to the rows, `TokenStays` and `LoginStays`
what keeps a token and a pending login as they should be, `NewToken` and
`NewChallenge` what the new ones are; then there is one lemma per action.

`Subscribers_proofs` proves, for any users, nodes, channels and any natural number
of updates (`SubscribersAssumption`; `OwnerAssumption`: the owner is a user):

* `BothSides`: `Spec => []TwoSided`;
* `AllNotified`: `Spec => []NoneMissed`;
* `OnlyWanted`: `Spec => []NoneUnwanted`;
* `OfflineLate`: `Spec => []OfflineOnlyIfLate`.

They need each other and two facts more: `Found`, that what a handler looked up is
still so when it acts on it, because only the worker adds and a removal of what it
uses sets `broken`; and `Fresh`, that an entry whose user and channel are not in
`dangled` is on both sides with a key into the present `Chan` object, so that it is
the only one of them and `aspc_remove` finds it. `Entered` is stronger than
`NoneMissed`: every active subscriber has the entries of all his subscriptions,
because those of before are loaded with him and later ones added.

`Feeds_proofs` proves, for any users, names, channels and limits
(`FeedsAssumption`: the users are finitely many and the owner is one of them,
`NoName` is not a name, the bounds are naturals), every property of `Feeds` that
holds:

* `TypeCorrect`: `Spec => []TypeOK`;
* `CacheIsTable`: `Spec => []CacheMatchesDb`;
* `SubscribersRight`, `LikesRight`: `Spec => []SubsCounted`, `Spec => []LikesCounted`;
* `NoGaps`: `Spec => []IdsDense`;
* `NoneDangling`: `Spec => []NoDangling`;
* `DeletedStays`: `Spec => DeletedPostFinal`;
* `OnlyUnblockRevives`: `Spec => DeletedCmtBack`;
* `RingsOnlyByEdit`: `Spec => LoopsOnlyByEdit`.

None of the invariants holds by itself. Their conjunction with two more facts is
inductive: `Named`, that every channel of the table has a name, so the index by
name has an entry for each; and `Unused`, that a channel that was not created has
no posts, so the next ids of a new one start where its posts do. A counter that
starts at zero with a new row is right because `NoDangling` leaves nobody who
could have liked the row before; the id that the cache gives a new post is the
next one of the table because of `CacheMatchesDb`. `Refers` and `Liked` say
`NoDangling` and `LikesCounted` key by key. There is one lemma per handler; the
counters use the library's facts on the cardinality of a set with one element
more or less. The last three are action properties: `OneStatus`, `OneRef` and
`OneMore` say what a step does to the comments. A ring of replies with a new
comment in it was already one without it (`RingWithoutNew`), because nothing
referred to the new comment before and it refers to one that was there.

`Listing_proofs` proves, for any rows, times and page sizes (`ListingAssumption`:
the lists are of posts or of comments, the bounds are naturals):

* `NoChangeMissed`: `Spec => []NothingMissed`;
* `EveryPageRead`: `Spec => []PagesAll`.

The invariant `Inv` has, beside `TypeOK`, what the two clients know. `Known`: a row
that the synchronising client lacks was updated no earlier than the newest update
it has, so the query from there finds it, equality included; it is kept because the
clock does not go back and a change sets the time of its row. `Read`: what the
paging client got is below the next id it asks for, and what it lacks is not. The
lemma `Answer` says what every answer of SQLite has in common: it is as long as the
limit or complete, whatever the order of rows of the same second; an answer by id
that is cut has nothing below its last row left out (`Paged`).

`Answers_proofs` proves, for any rows, sizes, limits and word size
(`AnswersAssumption`: naturals, the content limit is below the word, the sizes of a
row do not wrap when they are added, and an empty `get_multi_*` response is smaller
than its limit, as the constants of the code have it):

* `EachRowOnce`: `Spec => []RowsOnce`;
* `IsLastIsTrue`: `Spec => []LastMeansAll`;
* `ResponsesFit`: `Spec => []Fits`.

`Inv` has `Shape`, which says where in each handler a response with `is_last` can
be and that the failures which end the loop leave none, and `InOrder`. `Fits` needs
`Room` besides: what `left` says of the rows collected, unless the first of them
made it wrap, and that the next row has been compared with it. A response is the
flattening of its parts and its size a sum, both defined by recursive functions.
That such a function exists and what it yields for one element more is proved from
the least-number principle (`LeastNumber`, from the library's `WFMin` and
`NatLessThanWellFounded`): were there a shortest sequence for which it fails, the
one without its last element would be shorter. `FlattenAppend` and `SumNext` are
what the rest uses.

`DataPipes_proofs` proves, for any number of peers, sessions and waiting tasks, any
streams and chunks (`PipesAssumption`: there is a peer, the bounds are naturals;
`StreamsAssumption`: a stream is a sequence of messages of any sizes, of frames of
another version and of junk, and a chunk has a length):

* `OwnPipeRemoved`: `Spec => []RemovesOwnPipe`;
* `DownIsExplained`: `Spec => []DownOnlyIfCut`;
* `TypeCorrect`: `Spec => []TypeOK`;
* `MessagesWhole`: `Spec => []WholeMessages`.

The first two are about the pipes alone: what the parser hands over plays no part.
The parts of their invariant `Inv`:

* `Shapes`, `Fresh`: what sessions and tasks are, and that those not asked for yet
  are untouched;
* `Kept`: a session with tasks is referred to by somebody, so a notification that
  begins to run does so in a session that is there;
* `EndsLast`: behind the notification that a stream failed or was closed there is
  no data, neither in the queue nor in the stream; so when that one runs, only the
  map or another session's thread can hold the session;
* `Foreign`: only a session in `mixed` is in use by another session's thread;
* `Notified`: a session that runs a notification is the one in the map, was passed
  over, is in `mixed`, or has data waiting;
* `UnderWay`: a session with data under way finds a pipe of its peer, unless one was
  removed meanwhile or the session is in `mixed`.

`ReleaseStep` covers all steps that may destroy sessions and `PostedCore` all that
post a task; the other actions have a lemma each. `CrashStep` asks for a member of
one of the history sets, which `Notified`, `UnderWay` or `Foreign` gives at each of
the four places where the process may end on a null pointer; `ThrowsStep` is the
end in a destroyed pool.

`TypeCorrect` and `MessagesWhole` rest on `Flowing` (theorem `StreamInvariant`), which
has two parts more:

* `Typed`: a parser is idle, waits for the rest of a head or fills a body
  (`IsParser`), and never holds more than the Info announced; `unpack` keeps this
  whatever it gets, so it holds for parsers in `mixed` too;
* `Reading`: for each session not in `mixed` there are places `d <= c <= e` of its
  stream such that the parser stands at `c` (`At`), the thread holds the data from
  `c` to `e`, the tasks of a session in the map hold, one after the other, what lies
  between `e` and what was heard (`Line`), and the listener has the messages that end by `d` (`PickedTo`).

`WholeMessages` compares what came out with what was sent and says nothing of what
lies between; `Reading` does, and it is the same however the stream was cut. `At`
has four cases: between two messages, in a head, in a body, and stopped in front of
a frame of another version. One lemma per case says what a round of `unpack` makes
of it (`Rounds`); `PassedPicks` and `FramePicks` say what moving on adds to
the output. The wire is a flattened sequence of frames, and `Laid` states, place by
place, which byte of which message is there (`FrameAt`); a magic number is the
beginning of a message and nothing else (`MagicAt`), which is why junk is skipped
and a frame never is. The flattening is a recursive function; what it returns is
found with the least-number principle, as in `Answers_proofs`. The other actions
leave the parsers alone or add a task at the end of the line; a session whose parser
gets another one's data is in `mixed` and drops out.

Only model-checked:

* liveness (`Delivery`, `BecomesReady`, `ClosedIsRemoved`), which needs fairness;
* all of `Rpc`: it has no bounds, the methods, keys and tables are finite and fixed,
  and the runs enumerate both versions and every variant of a request, so there is
  no larger instance for a theorem to speak of.

## 5. Not modelled, and why

* Data races inside one operation. `pending_logins`, `dataPipeMap` and the tables
  of the subscribers have no lock, and the unpacked message and the version of the
  request are static in `rpc.c` although the pool threads of the mass data parse
  requests too. What two threads inside the same operation of the hash table, of
  `std::map` or of msgpack do to each other is undefined; the models take each
  operation as one step and check the orders of the steps (`Subscribers` marks the
  orders in which an object in use is freed).
* `cleanExpiredChallenge` of `StandardAuth.cpp` has no caller, so `authSecretMap`
  only grows. Only memory is at stake: no expired entry is accepted
  (`TokensAreAskedFor`).
* Configuration, logging, QR code, the HTTP server of the binding page, pid file,
  signals: process set-up and I/O.
* Allocation failures, and SQLite errors where no module says otherwise: a handler
  answers with an internal error and changes nothing.
* The parsers of notifications and responses in `rpc.c`, which only clients use,
  and the C++ `RpcFactory` of the protocol 2 methods, which packs by generated
  code.
* What `set_binary` and `get_binary` do to the file of a key: one write or read.
* Frames with a negative `headSize` or with sizes beyond the range of their fields
  (`SessionParser.cpp:169`), and stream callbacks on another thread than Carrier's.
* What a row of a list contains besides its status, times and sizes; the lists
  of channels, of liked posts and of reports, whose queries are of the same form
  as those of `Listing`.
* The steps of `db_init` that upgrade old tables, interleaved with a crash; `Rpc`
  has only their result.
* The delivery of a DID transaction to the chain, and the files of the DID library.

## 6. Plan

1. `Upgrade`: the steps of `db_init` on old tables, with a crash between any two.
2. A composition of `Subscribers` and `MsgQ`: a notification reaches the channel
   of every destination.
