----------------------------- MODULE Subscribers -----------------------------
(***************************************************************************)
(* Who is notified of a change of a channel: the tables of src/feeds.c     *)
(* that link the active subscribers (ActiveSuber), the channels they       *)
(* subscribed to (ActiveSuberPerChan) and the nodes they enabled           *)
(* notifications from (NotifDest, NotifDestPerActiveSuber).                *)
(*                                                                         *)
(* The tables have no lock.  The command handler's thread changes them in  *)
(* the handlers of enable_notification, subscribe_channel and              *)
(* unsubscribe_channel and walks them in every handler that notifies;      *)
(* meanwhile the Carrier thread takes a node out of them when the friend   *)
(* disconnects (feeds_deactivate_suber).  A handler is two steps here:     *)
(* what it looks up, then what it does with the objects it found.  When    *)
(* the Carrier thread frees or unlinks such an object in between, the      *)
(* handler goes on with a dangling object and the behaviour is undefined:  *)
(* "broken" stands for that, and nothing is known until a restart.         *)
(*                                                                         *)
(* A handler asks the database only between its own steps, so its reads    *)
(* and its commit are put where its tables change.  The channels exist     *)
(* throughout.                                                             *)
(***************************************************************************)
EXTENDS Naturals

CONSTANTS
    Users,      \* users that have signed in
    Owner,      \* the one of them with OWNER_USER_ID
    Nodes,      \* Carrier ids of the friends
    Chans,      \* channel ids
    MaxUpds     \* bound on the updates of a channel

ASSUME SubscribersAssumption == MaxUpds \in Nat
ASSUME OwnerAssumption == Owner \in Users

VARIABLES
    subs,       \* table subscriptions of the database
    ass,        \* hash table of the active subscribers
    nds,        \* hash table of the notification destinations
    asNodes,    \* the ActiveSuber.ndpass tables: user, node
    ndUsers,    \* the NotifDest.ndpass lists: user, node
    listed,     \* the Chan.aspcs lists
    hashed,     \* the ActiveSuber.aspcs tables
    chanObj,    \* which Chan object a channel has: update_feedinfo makes a new one
    online,     \* nodes whose last friend_connection event was Connected
    pending,    \* enable_notification requests in the task queue
    worker,     \* the handler under way
    broken,     \* a handler went on with an object that was freed
    enabled,    \* history: notifications enabled since the node connected
    late,       \* history: nodes enabled after they had disconnected
    dangled     \* history: users and channels with an entry whose key
                \* update_feedinfo has left in freed memory

tables == <<ass, nds, asNodes, ndUsers, listed, hashed>>
vars == <<subs, tables, chanObj, online, pending, worker, broken, enabled, late, dangled>>

\* An ActiveSuberPerChan.  Its key in ActiveSuber.aspcs points into the Chan
\* object it was created with.
Aspc == [u : Users, c : Chans, obj : 0..MaxUpds]

\* The key points into a Chan object that update_feedinfo has freed
Stale(e) == e.obj # chanObj[e.c]

Idle == [op |-> "idle"]
Handler ==
    {Idle}
    \cup [op : {"enbl"}, u : Users, n : Nodes, as : BOOLEAN, nd : BOOLEAN]
    \cup [op : {"sub", "unsub"}, u : Users, c : Chans, as : BOOLEAN]
    \cup [op : {"walk"}, c : Chans]
    \cup [op : {"tell", "stats"}]

TypeOK ==
    /\ subs \in SUBSET (Users \X Chans)
    /\ ass \in SUBSET Users
    /\ nds \in SUBSET Nodes
    /\ asNodes \in SUBSET (Users \X Nodes)
    /\ ndUsers \in SUBSET (Users \X Nodes)
    /\ listed \in SUBSET Aspc
    /\ hashed \in SUBSET Aspc
    /\ chanObj \in [Chans -> 0..MaxUpds]
    /\ online \in SUBSET Nodes
    /\ pending \in SUBSET (Users \X Nodes)
    /\ worker \in Handler
    /\ broken \in BOOLEAN
    /\ enabled \in SUBSET (Users \X Nodes)
    /\ late \in SUBSET Nodes
    /\ dangled \in SUBSET (Users \X Chans)

Init ==
    /\ subs = {}
    /\ ass = {} /\ nds = {} /\ asNodes = {} /\ ndUsers = {}
    /\ listed = {} /\ hashed = {}
    /\ chanObj = [c \in Chans |-> 0]
    /\ online = {} /\ pending = {}
    /\ worker = Idle
    /\ broken = FALSE
    /\ enabled = {} /\ late = {} /\ dangled = {}

-----------------------------------------------------------------------------
(* An operator whose name starts with Bad is a wrong variant of the one    *)
(* after it.                                                               *)

aspc_create(u, c) == [u |-> u, c |-> c, obj |-> chanObj[c]]

BadLoadedAspcs(u) == {}
\* What hdl_enbl_notif_req links for a new ActiveSuber (db_iter_sub_chans)
LoadedAspcs(u) == {aspc_create(u, c) : c \in {d \in Chans : <<u, d>> \in subs}}

BadNdRemove(n) == nds
nd_remove(n) == nds \ {n}

\* The users with a destination on the node: the list of its NotifDest
UsersOf(n) == {u \in Users : <<u, n>> \in ndUsers}

\* The users for whom the node was the last one
Gone(n) ==
    {u \in UsersOf(n) : \A m \in Nodes \ {n} : <<u, m>> \notin asNodes}

BadUnlinked(n) == {}
\* The ActiveSuberPerChan that feeds_deactivate_suber takes off the lists of
\* the channels
Unlinked(n) == {e \in hashed : e.u \in Gone(n)}

\* An ActiveSuberPerChan that a lookup can find in ActiveSuber.aspcs: one
\* with the right key, or one whose key is in freed memory, where comparing
\* may succeed or fail
Findable(u, c) == {e \in hashed : e.u = u /\ e.c = c}
NoneFound(u, c) == \A e \in Findable(u, c) : Stale(e)

\* aspc_put in ActiveSuber.aspcs, where linked_hashtable_put replaces the
\* entry it finds.  That one stays on the list of the channel.
Put(e) ==
    \/ NoneFound(e.u, e.c) /\ hashed' = hashed \cup {e}
    \/ \E f \in Findable(e.u, e.c) : hashed' = (hashed \ {f}) \cup {e}

BadRemoved(e) == {}
\* aspc_remove takes what it found off both sides
Removed(e) == {e}

\* Removing node n frees or unlinks an object that the handler is using
Disturbs(n) ==
    \/ worker.op = "enbl" /\ worker.nd /\ worker.n = n
    \/ worker.op \in {"enbl", "sub", "unsub"} /\ worker.as /\ worker.u \in Gone(n)
    \/ worker.op = "walk" /\ \E e \in listed : e.c = worker.c /\ e.u \in UsersOf(n)
    \/ worker.op = "tell" /\ Owner \in UsersOf(n)
    \/ worker.op = "stats"

\* feeds_deactivate_suber finds no entry that Put has replaced: it stays on
\* the list of its channel, with a freed ActiveSuber for the next walk
LeavesBehind(n) == \E e \in listed \ hashed : e.u \in Gone(n)

-----------------------------------------------------------------------------
(* The Carrier thread *)

\* friend_connection_callback, Connected
Connect(n) ==
    /\ n \notin online
    /\ online' = online \cup {n}
    /\ UNCHANGED <<subs, tables, chanObj, pending, worker, broken, enabled, late, dangled>>

\* CommandHandler::received posts an enable_notification request
Request(u, n) ==
    /\ n \in online
    /\ pending' = pending \cup {<<u, n>>}
    /\ UNCHANGED <<subs, tables, chanObj, online, worker, broken, enabled, late, dangled>>

\* friend_connection_callback, Disconnected: feeds_deactivate_suber, which
\* finds nothing to do when the node has no NotifDest
Disconnect(n) ==
    /\ ~broken
    /\ n \in online
    /\ online' = online \ {n}
    /\ IF n \in nds
       THEN /\ nds' = nd_remove(n)
            /\ asNodes' = asNodes \ (Users \X {n})
            /\ ndUsers' = ndUsers \ (Users \X {n})
            /\ listed' = listed \ Unlinked(n)
            /\ hashed' = {e \in hashed : e.u \notin Gone(n)}
            /\ ass' = ass \ Gone(n)
            /\ broken' = (Disturbs(n) \/ LeavesBehind(n))
            /\ dangled' = dangled \ (Gone(n) \X Chans)
       ELSE UNCHANGED <<tables, broken, dangled>>
    /\ enabled' = enabled \ (Users \X {n})
    /\ late' = late \ {n}
    /\ UNCHANGED <<subs, chanObj, pending, worker>>

-----------------------------------------------------------------------------
(* The command handler's thread *)

\* hdl_enbl_notif_req: as_get, ndpas_exist, nd_get
EnblNotif(u, n) ==
    /\ ~broken /\ worker = Idle
    /\ <<u, n>> \in pending
    /\ pending' = pending \ {<<u, n>>}
    /\ IF u \in ass /\ <<u, n>> \in asNodes
       THEN worker' = Idle /\ enabled' = enabled \cup {<<u, n>>}
       ELSE /\ worker' = [op |-> "enbl", u |-> u, n |-> n,
                          as |-> u \in ass, nd |-> n \in nds]
            /\ UNCHANGED enabled
    /\ UNCHANGED <<subs, tables, chanObj, online, broken, late, dangled>>

\* hdl_enbl_notif_req: ndpas_put, and as_put and nd_put of what is new
EnblNotifPut ==
    /\ ~broken /\ worker.op = "enbl"
    /\ LET u == worker.u
           n == worker.n
           new == IF worker.as THEN {} ELSE LoadedAspcs(u)
       IN /\ asNodes' = asNodes \cup {<<u, n>>}
          /\ ndUsers' = ndUsers \cup {<<u, n>>}
          /\ listed' = listed \cup new
          /\ hashed' = hashed \cup new
          /\ ass' = IF worker.as THEN ass ELSE ass \cup {u}
          /\ nds' = IF worker.nd THEN nds ELSE nds \cup {n}
          /\ enabled' = enabled \cup {<<u, n>>}
          /\ late' = IF n \in online THEN late ELSE late \cup {n}
    /\ worker' = Idle
    /\ UNCHANGED <<subs, chanObj, online, pending, broken, dangled>>

\* hdl_sub_chan_req: as_get
SubChan(u, c) ==
    /\ ~broken /\ worker = Idle
    /\ <<u, c>> \notin subs
    /\ worker' = [op |-> "sub", u |-> u, c |-> c, as |-> u \in ass]
    /\ UNCHANGED <<subs, tables, chanObj, online, pending, broken, enabled, late, dangled>>

\* hdl_sub_chan_req: db_add_sub, aspc_put; then the owner's destinations are
\* walked if he is active
SubChanPut ==
    /\ ~broken /\ worker.op = "sub"
    /\ subs' = subs \cup {<<worker.u, worker.c>>}
    /\ \/ /\ worker.as
          /\ listed' = listed \cup {aspc_create(worker.u, worker.c)}
          /\ Put(aspc_create(worker.u, worker.c))
       \/ /\ ~worker.as
          /\ UNCHANGED <<listed, hashed>>
    /\ worker' = IF Owner \in ass THEN [op |-> "tell"] ELSE Idle
    /\ UNCHANGED <<ass, nds, asNodes, ndUsers, chanObj, online, pending,
                   broken, enabled, late, dangled>>

\* hdl_unsub_chan_req: as_get of aspc_remove
UnsubChan(u, c) ==
    /\ ~broken /\ worker = Idle
    /\ <<u, c>> \in subs
    /\ worker' = [op |-> "unsub", u |-> u, c |-> c, as |-> u \in ass]
    /\ UNCHANGED <<subs, tables, chanObj, online, pending, broken, enabled, late, dangled>>

\* hdl_unsub_chan_req: db_unsub, the rest of aspc_remove
UnsubChanRemove ==
    /\ ~broken /\ worker.op = "unsub"
    /\ subs' = subs \ {<<worker.u, worker.c>>}
    /\ \/ \E e \in Findable(worker.u, worker.c) :
              /\ worker.as
              /\ hashed' = hashed \ {e}
              /\ listed' = listed \ Removed(e)
       \/ /\ ~worker.as \/ NoneFound(worker.u, worker.c)
          /\ UNCHANGED <<hashed, listed>>
    /\ worker' = Idle
    /\ UNCHANGED <<ass, nds, asNodes, ndUsers, chanObj, online, pending,
                   broken, enabled, late, dangled>>

\* hdl_upd_chan_req: chan_sub puts a new Chan object that shares the list of
\* the old one, which is freed; then the list is walked to notify
UpdChan(c) ==
    /\ ~broken /\ worker = Idle
    /\ chanObj[c] < MaxUpds
    /\ chanObj' = [chanObj EXCEPT ![c] = @ + 1]
    /\ worker' = [op |-> "walk", c |-> c]
    /\ dangled' = dangled \cup {<<e.u, e.c>> : e \in {f \in listed : f.c = c}}
    /\ UNCHANGED <<subs, tables, online, pending, broken, enabled, late>>

\* Any handler that notifies the subscribers of c (posts, comments, likes)
NotifySubers(c) ==
    /\ ~broken /\ worker = Idle
    /\ worker' = [op |-> "walk", c |-> c]
    /\ UNCHANGED <<subs, tables, chanObj, online, pending, broken, enabled, late, dangled>>

\* report_illegal_comment notifies the owner
TellOwner ==
    /\ ~broken /\ worker = Idle
    /\ Owner \in ass
    /\ worker' = [op |-> "tell"]
    /\ UNCHANGED <<subs, tables, chanObj, online, pending, broken, enabled, late, dangled>>

\* hdl_stats_changed_notify, when somebody has signed in: every destination
StatsChanged ==
    /\ ~broken /\ worker = Idle
    /\ worker' = [op |-> "stats"]
    /\ UNCHANGED <<subs, tables, chanObj, online, pending, broken, enabled, late, dangled>>

\* The end of the foreach over Chan.aspcs, over the owner's ndpass or over nds
WalkEnd ==
    /\ ~broken /\ worker.op \in {"walk", "tell", "stats"}
    /\ worker' = Idle
    /\ UNCHANGED <<subs, tables, chanObj, online, pending, broken, enabled, late, dangled>>

\* The process ends and starts again: feeds_init makes empty tables, the
\* channels are read from the database, and no friend is connected
Restart ==
    /\ ass' = {} /\ nds' = {} /\ asNodes' = {} /\ ndUsers' = {}
    /\ listed' = {} /\ hashed' = {}
    /\ chanObj' = [c \in Chans |-> 0]
    /\ online' = {} /\ pending' = {}
    /\ worker' = Idle
    /\ broken' = FALSE
    /\ enabled' = {} /\ late' = {} /\ dangled' = {}
    /\ UNCHANGED subs

Next ==
    \/ \E n \in Nodes : Connect(n) \/ Disconnect(n)
    \/ \E u \in Users, n \in Nodes : Request(u, n) \/ EnblNotif(u, n)
    \/ EnblNotifPut
    \/ \E u \in Users, c \in Chans : SubChan(u, c) \/ UnsubChan(u, c)
    \/ SubChanPut
    \/ UnsubChanRemove
    \/ \E c \in Chans : UpdChan(c) \/ NotifySubers(c)
    \/ TellOwner
    \/ StatsChanged
    \/ WalkEnd
    \/ Restart

Spec == Init /\ [][Next]_vars

-----------------------------------------------------------------------------
(* Properties *)

\* The two sides of every link agree, and nothing stays in a table without
\* a reason to be there: a subscriber is active while some node of his is,
\* a destination is there while some user has it, and only active
\* subscribers are on the lists of the channels.  The exception is an entry
\* that a new subscription has replaced on the user's side only, because the
\* old key dangled.  Nothing is said once an object was freed under a handler.
TwoSided ==
    /\ TypeOK
    /\ ~broken =>
        /\ asNodes = ndUsers
        /\ hashed \subseteq listed
        /\ \A e \in listed \ hashed : <<e.u, e.c>> \in dangled
        /\ ass = {u \in Users : \E n \in Nodes : <<u, n>> \in asNodes}
        /\ nds = {n \in Nodes : \E u \in Users : <<u, n>> \in ndUsers}
        /\ \A e \in listed : e.u \in ass

\* A user who subscribed to a channel, before or after he enabled
\* notifications, is notified of its changes at every node from which he
\* enabled them since that node connected.
NoneMissed ==
    ~broken =>
        \A u \in Users, n \in Nodes, c \in Chans :
            <<u, n>> \in enabled /\ <<u, c>> \in subs =>
                /\ <<u, n>> \in asNodes
                /\ \E e \in listed : e.u = u /\ e.c = c

\* Nobody is notified who did not ask for it: a destination was enabled, and
\* an entry on the list of a channel belongs to a subscriber.  An update of a
\* channel takes this from those only who were active subscribers of it at
\* that moment, until they have left every node: the key of their entry
\* dangles, and aspc_remove may miss it or take another.  Whoever subscribes
\* or becomes active later is safe.
NoneUnwanted ==
    ~broken =>
        /\ \A e \in listed : <<e.u, e.c>> \in subs \cup dangled
        /\ asNodes \subseteq enabled

\* Only connected nodes are destinations, except those whose request to
\* enable notifications was still in the task queue when they disconnected.
OfflineOnlyIfLate == ~broken => nds \subseteq online \cup late

=============================================================================
