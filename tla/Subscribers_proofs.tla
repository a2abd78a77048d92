------------------------- MODULE Subscribers_proofs -------------------------
(***************************************************************************)
(* Proofs about Subscribers, for any users, nodes and channels: outside of *)
(* the races that free an object in use, the linked tables agree and       *)
(* exactly the right destinations are notified.                            *)
(***************************************************************************)
EXTENDS Subscribers, TLAPS

Enbl == [op : {"enbl"}, u : Users, n : Nodes, as : BOOLEAN, nd : BOOLEAN]
OnChan == [op : {"sub", "unsub"}, u : Users, c : Chans, as : BOOLEAN]
Walk == [op : {"walk"}, c : Chans] \cup [op : {"tell", "stats"}]

\* What the handler found is still true of the tables: only the handler itself
\* adds to them, and what takes its objects away breaks it
Found ==
    /\ worker.op = "enbl" => /\ worker.as <=> worker.u \in ass
                             /\ worker.nd <=> worker.n \in nds
    /\ worker.op \in {"sub", "unsub"} => (worker.as <=> worker.u \in ass)

\* Where no key dangles, an entry is on both sides and its key points into the
\* present Chan object: it is the only one of its user and channel
Fresh ==
    \A e \in listed :
        <<e.u, e.c>> \in dangled \/ (e \in hashed /\ e.obj = chanObj[e.c])

\* The agreement of TwoSided, user by user and node by node
Linked ==
    /\ asNodes = ndUsers
    /\ hashed \subseteq listed
    /\ \A u \in Users : u \in ass <=> \E n \in Nodes : <<u, n>> \in asNodes
    /\ \A n \in Nodes : n \in nds <=> \E u \in Users : <<u, n>> \in asNodes
    /\ \A e \in listed : e.u \in ass

\* Every subscription of an active subscriber has its entry
Entered ==
    \A u \in Users, c \in Chans :
        u \in ass /\ <<u, c>> \in subs => \E e \in listed : e.u = u /\ e.c = c

\* A destination is one that was enabled, and the other way round
Enabled == asNodes = enabled

Unwanted == \A e \in listed : <<e.u, e.c>> \in subs \cup dangled

Good == Found /\ Fresh /\ Linked /\ Entered /\ Enabled /\ Unwanted /\ nds \subseteq online \cup late

IInv == TypeOK /\ (~broken => Good)

-----------------------------------------------------------------------------
\* The handler under way, by its kind
LEMMA Kinds ==
    ASSUME worker \in Handler
    PROVE  /\ worker.op = "enbl" => worker \in Enbl
           /\ worker.op \in {"sub", "unsub"} => worker \in OnChan
           /\ worker.op \in {"walk", "tell", "stats"} => worker \in Walk
BY DEF Handler, Idle, Enbl, OnChan, Walk

LEMMA IdleIsOne == Idle \in Handler
BY DEF Handler

\* A new entry points into the present Chan object
LEMMA Created ==
    ASSUME TypeOK, NEW u \in Users, NEW c \in Chans
    PROVE  /\ aspc_create(u, c) \in Aspc
           /\ aspc_create(u, c).u = u
           /\ aspc_create(u, c).c = c
           /\ aspc_create(u, c).obj = chanObj[c]
<1>1. chanObj[c] \in 0..MaxUpds /\ chanObj[c] \in Nat
  BY SubscribersAssumption DEF TypeOK
<1>. QED
  BY <1>1 DEF aspc_create, Aspc

\* The entries a new ActiveSuber gets: one for each of his subscriptions
LEMMA Loaded ==
    ASSUME TypeOK, NEW u \in Users
    PROVE  /\ \A e \in LoadedAspcs(u) :
                /\ e \in Aspc /\ e.u = u
                /\ <<u, e.c>> \in subs /\ e.obj = chanObj[e.c]
           /\ \A c \in Chans : <<u, c>> \in subs =>
                \E e \in LoadedAspcs(u) : e.u = u /\ e.c = c
<1>1. ASSUME NEW e \in LoadedAspcs(u)
      PROVE  /\ e \in Aspc /\ e.u = u
             /\ <<u, e.c>> \in subs /\ e.obj = chanObj[e.c]
  <2>1. PICK d \in Chans : <<u, d>> \in subs /\ e = aspc_create(u, d)
    BY <1>1 DEF LoadedAspcs
  <2>. QED
    BY <2>1, Created
<1>2. ASSUME NEW c \in Chans, <<u, c>> \in subs
      PROVE  \E e \in LoadedAspcs(u) : e.u = u /\ e.c = c
  <2>1. aspc_create(u, c) \in LoadedAspcs(u)
    BY <1>2 DEF LoadedAspcs
  <2>. QED
    BY <2>1, Created
<1>. QED
  BY <1>1, <1>2

\* The invariant gives the properties
LEMMA Implied ==
    ASSUME IInv
    PROVE  TwoSided /\ NoneMissed /\ NoneUnwanted /\ OfflineOnlyIfLate
<1>1. TwoSided
  <2>1. ASSUME ~broken
        PROVE  /\ ass = {u \in Users : \E n \in Nodes : <<u, n>> \in asNodes}
               /\ nds = {n \in Nodes : \E u \in Users : <<u, n>> \in ndUsers}
    BY <2>1 DEF IInv, Good, Linked, TypeOK
  <2>. QED
    BY <2>1 DEF IInv, Good, Fresh, Linked, TwoSided
<1>2. NoneMissed
  BY DEF IInv, Good, Linked, Entered, Enabled, NoneMissed
<1>3. NoneUnwanted
  BY DEF IInv, Good, Enabled, Unwanted, NoneUnwanted
<1>4. OfflineOnlyIfLate
  BY DEF IInv, Good, OfflineOnlyIfLate
<1>. QED
  BY <1>1, <1>2, <1>3, <1>4

\* Connections, requests, walks: the tables stay as they are
LEMMA TablesStay ==
    ASSUME IInv, UNCHANGED <<subs, tables, chanObj, broken, enabled, late, dangled>>, Found',
           online \subseteq online', TypeOK'
    PROVE  IInv'
BY DEF IInv, Good, Fresh, Linked, Entered, Enabled, Unwanted, tables

\* friend_connection_callback, Connected
LEMMA Connecting ==
    ASSUME IInv, NEW n \in Nodes, Connect(n)
    PROVE  IInv'
<1>1. TypeOK'
  BY DEF IInv, TypeOK, Connect, tables
<1>2. CASE ~broken
  <2>1. Found'
    BY <1>2 DEF IInv, Good, Found, Connect, tables
  <2>. QED
    BY <1>1, <2>1, TablesStay DEF Connect
<1>3. CASE broken
  BY <1>1, <1>3 DEF IInv, Connect
<1>. QED
  BY <1>2, <1>3 DEF IInv, TypeOK

\* CommandHandler::received
LEMMA Requesting ==
    ASSUME IInv, NEW u \in Users, NEW n \in Nodes, Request(u, n)
    PROVE  IInv'
<1>1. TypeOK'
  BY DEF IInv, TypeOK, Request, tables
<1>2. CASE ~broken
  <2>1. Found'
    BY <1>2 DEF IInv, Good, Found, Request, tables
  <2>. QED
    BY <1>1, <2>1, TablesStay DEF Request
<1>3. CASE broken
  BY <1>1, <1>3 DEF IInv, Request
<1>. QED
  BY <1>2, <1>3 DEF IInv, TypeOK

\* feeds_deactivate_suber, beside whatever the handler is doing
LEMMA Disconnecting ==
    ASSUME IInv, NEW n \in Nodes, Disconnect(n)
    PROVE  IInv'
<1>1. ~broken /\ Good /\ TypeOK /\ worker \in Handler
  BY DEF IInv, Disconnect, TypeOK
<1>2. /\ online' = online \ {n} /\ enabled' = enabled \ (Users \X {n}) /\ late' = late \ {n}
      /\ UNCHANGED <<subs, chanObj, pending, worker>>
  BY DEF Disconnect
<1>3. CASE n \notin nds
  <2>1. UNCHANGED <<tables, broken, dangled>>
    BY <1>3 DEF Disconnect
  <2>2. TypeOK'
    BY <1>1, <1>2, <2>1 DEF TypeOK, tables
  <2>3. \A u \in Users : <<u, n>> \notin asNodes
    BY <1>1, <1>3 DEF Good, Linked
  <2>4. Enabled'
    BY <1>1, <1>2, <2>1, <2>3 DEF Good, Enabled, tables, TypeOK
  <2>5. Found' /\ Fresh' /\ Linked' /\ Entered' /\ Unwanted'
    BY <1>1, <1>2, <2>1 DEF Good, Found, Fresh, Linked, Entered, Unwanted, tables
  <2>6. nds' \subseteq online' \cup late'
    BY <1>1, <1>2, <1>3, <2>1 DEF Good, tables
  <2>. QED
    BY <2>2, <2>4, <2>5, <2>6 DEF IInv, Good
<1>4. CASE n \in nds
  <2>1. /\ nds' = nds \ {n} /\ asNodes' = asNodes \ (Users \X {n})
        /\ ndUsers' = ndUsers \ (Users \X {n}) /\ listed' = listed \ Unlinked(n)
        /\ hashed' = {e \in hashed : e.u \notin Gone(n)} /\ ass' = ass \ Gone(n)
        /\ broken' = (Disturbs(n) \/ LeavesBehind(n))
        /\ dangled' = dangled \ (Gone(n) \X Chans)
    BY <1>4 DEF Disconnect, nd_remove
  <2>2. broken' \in BOOLEAN
    BY <2>1 DEF Disturbs, LeavesBehind
  <2>3. TypeOK'
    BY <1>1, <1>2, <2>1, <2>2 DEF TypeOK
  <2>4. \A u \in Users : u \in Gone(n) <=>
           <<u, n>> \in asNodes /\ \A m \in Nodes \ {n} : <<u, m>> \notin asNodes
    BY <1>1 DEF Gone, UsersOf, Good, Linked
  <2>5. \A u \in Users, m \in Nodes : <<u, m>> \in asNodes' <=> <<u, m>> \in asNodes /\ m # n
    BY <2>1
  <2>6. \A u \in Users : u \in ass' <=> \E m \in Nodes : <<u, m>> \in asNodes'
    BY <1>1, <2>1, <2>4, <2>5 DEF Good, Linked
  <2>7. \A m \in Nodes : m \in nds' <=> \E u \in Users : <<u, m>> \in asNodes'
    BY <1>1, <2>1, <2>5 DEF Good, Linked
  <2>8. SUFFICES ASSUME ~broken' PROVE Good'
    BY <2>3 DEF IInv
  <2>9. ~Disturbs(n) /\ \A e \in listed \ hashed : e.u \notin Gone(n)
    BY <2>1, <2>8 DEF LeavesBehind
  <2>10. /\ asNodes' = ndUsers' /\ hashed' \subseteq listed'
         /\ \A e \in listed' : e.u \in ass' /\ e \in listed /\ e.u \notin Gone(n)
    BY <1>1, <2>1, <2>9 DEF Good, Linked, Unlinked
  <2>11. Linked'
    BY <2>6, <2>7, <2>10 DEF Linked
  <2>12. \A e \in listed : e.u \in ass' => e \in listed'
    BY <1>1, <2>1 DEF Unlinked
  <2>13. Entered'
    BY <1>1, <1>2, <2>1, <2>12 DEF Good, Entered
  <2>14. Fresh' /\ Unwanted'
    BY <1>1, <1>2, <2>1, <2>10 DEF Good, Fresh, Unwanted
  <2>15. Enabled'
    BY <1>1, <1>2, <2>1 DEF Good, Enabled
  <2>16. nds' \subseteq online' \cup late'
    BY <1>1, <1>2, <2>1 DEF Good
  <2>17. Found'
    <3>1. CASE worker.op = "enbl"
      <4>1. worker.u \in Users /\ worker.n \in Nodes
        BY <1>1, <3>1, Kinds DEF Enbl
      <4>. QED
        BY <1>1, <1>2, <2>1, <2>9, <3>1, <4>1 DEF Good, Found, Disturbs
    <3>2. CASE worker.op \in {"sub", "unsub"}
      BY <1>1, <1>2, <2>1, <2>9, <3>2 DEF Good, Found, Disturbs
    <3>. QED
      BY <1>2, <3>1, <3>2 DEF Found
  <2>. QED
    BY <2>13, <2>14, <2>15, <2>16, <2>17, <2>11 DEF Good
<1>. QED
  BY <1>3, <1>4

\* hdl_enbl_notif_req, the lookups
LEMMA Enabling ==
    ASSUME IInv, NEW u \in Users, NEW n \in Nodes, EnblNotif(u, n)
    PROVE  IInv'
<1>1. /\ ~broken /\ Good /\ TypeOK /\ pending' = pending \ {<<u, n>>}
      /\ UNCHANGED <<subs, tables, chanObj, online, broken, late, dangled>>
  BY DEF IInv, EnblNotif
<1>2. CASE u \in ass /\ <<u, n>> \in asNodes
  <2>1. worker' = Idle /\ enabled' = enabled \cup {<<u, n>>}
    BY <1>2 DEF EnblNotif
  <2>2. TypeOK'
    BY <1>1, <2>1 DEF TypeOK, tables, Handler
  <2>3. UNCHANGED enabled
    BY <1>1, <1>2, <2>1 DEF Good, Enabled
  <2>4. Found'
    BY <2>1 DEF Found, Idle
  <2>. QED
    BY <1>1, <2>2, <2>3, <2>4, TablesStay
<1>3. CASE ~(u \in ass /\ <<u, n>> \in asNodes)
  <2>1. /\ worker' = [op |-> "enbl", u |-> u, n |-> n, as |-> u \in ass, nd |-> n \in nds]
        /\ UNCHANGED enabled
    BY <1>3 DEF EnblNotif
  <2>2. worker' \in Handler
    <3>1. worker' \in Enbl
      BY <2>1 DEF Enbl
    <3>. QED
      BY <3>1 DEF Handler, Enbl
  <2>3. TypeOK'
    BY <1>1, <2>1, <2>2 DEF TypeOK, tables
  <2>4. Found'
    BY <1>1, <2>1 DEF Found, tables
  <2>. QED
    BY <1>1, <2>1, <2>3, <2>4, TablesStay
<1>. QED
  BY <1>2, <1>3

\* hdl_enbl_notif_req, the links: a new ActiveSuber gets an entry for each of
\* his subscriptions, one that was there has them already
LEMMA EnablingPut ==
    ASSUME IInv, EnblNotifPut
    PROVE  IInv'
<1>. DEFINE u == worker.u
            n == worker.n
            new == IF worker.as THEN {} ELSE LoadedAspcs(u)
<1>1. /\ ~broken /\ Good /\ TypeOK /\ worker.op = "enbl" /\ worker \in Handler
      /\ worker' = Idle /\ UNCHANGED <<subs, chanObj, online, pending, broken, dangled>>
      /\ asNodes' = asNodes \cup {<<u, n>>} /\ ndUsers' = ndUsers \cup {<<u, n>>}
      /\ listed' = listed \cup new /\ hashed' = hashed \cup new
      /\ ass' = (IF worker.as THEN ass ELSE ass \cup {u})
      /\ nds' = (IF worker.nd THEN nds ELSE nds \cup {n})
      /\ enabled' = enabled \cup {<<u, n>>}
      /\ late' = (IF n \in online THEN late ELSE late \cup {n})
  BY DEF IInv, TypeOK, EnblNotifPut
<1>2. u \in Users /\ n \in Nodes /\ (worker.as <=> u \in ass) /\ (worker.nd <=> n \in nds)
  BY <1>1, Kinds DEF Enbl, Good, Found
<1>3. \A e \in new : e \in Aspc /\ e.u = u /\ <<u, e.c>> \in subs /\ e.obj = chanObj[e.c]
  BY <1>1, <1>2, Loaded
<1>4. \A c \in Chans : u \notin ass /\ <<u, c>> \in subs => \E e \in new : e.u = u /\ e.c = c
  BY <1>1, <1>2, Loaded
<1>. HIDE DEF u, n, new
<1>5. ass' = ass \cup {u} /\ nds' = nds \cup {n}
  BY <1>1, <1>2
<1>6. TypeOK'
  <2>1. /\ ass' \subseteq Users /\ nds' \subseteq Nodes /\ late' \subseteq Nodes
        /\ asNodes' \subseteq Users \X Nodes /\ ndUsers' \subseteq Users \X Nodes
        /\ enabled' \subseteq Users \X Nodes
    BY <1>1, <1>2, <1>5 DEF TypeOK
  <2>2. listed' \subseteq Aspc /\ hashed' \subseteq Aspc
    BY <1>1, <1>3 DEF TypeOK
  <2>. QED
    BY <1>1, <2>1, <2>2, IdleIsOne DEF TypeOK
<1>7. Found'
  BY <1>1 DEF Found, Idle
<1>8. Fresh'
  BY <1>1, <1>3 DEF Good, Fresh
<1>9. Linked'
  <2>1. asNodes' = ndUsers' /\ hashed' \subseteq listed'
    BY <1>1 DEF Good, Linked
  <2>2. \A w \in Users, m \in Nodes : <<w, m>> \in asNodes' <=> <<w, m>> \in asNodes \/ (w = u /\ m = n)
    BY <1>1
  <2>3. \A w \in Users : w \in ass' <=> \E m \in Nodes : <<w, m>> \in asNodes'
    BY <1>1, <1>2, <1>5, <2>2 DEF Good, Linked
  <2>4. \A m \in Nodes : m \in nds' <=> \E w \in Users : <<w, m>> \in asNodes'
    BY <1>1, <1>2, <1>5, <2>2 DEF Good, Linked
  <2>5. \A e \in listed' : e.u \in ass'
    BY <1>1, <1>3, <1>5 DEF Good, Linked
  <2>. QED
    BY <2>1, <2>3, <2>4, <2>5 DEF Linked
<1>10. Entered'
  BY <1>1, <1>2, <1>4, <1>5 DEF Good, Entered
<1>11. Enabled' /\ Unwanted'
  BY <1>1, <1>3 DEF Good, Enabled, Unwanted
<1>12. nds' \subseteq online' \cup late'
  BY <1>1, <1>5 DEF Good
<1>. QED
  BY <1>6, <1>7, <1>8, <1>9, <1>10, <1>11, <1>12 DEF IInv, Good

\* hdl_sub_chan_req and hdl_unsub_chan_req, the lookups
LEMMA LookingUp ==
    ASSUME IInv, NEW u \in Users, NEW c \in Chans, SubChan(u, c) \/ UnsubChan(u, c)
    PROVE  IInv'
<1>1. /\ ~broken /\ Good /\ TypeOK
      /\ UNCHANGED <<subs, tables, chanObj, online, pending, broken, enabled, late, dangled>>
  BY DEF IInv, SubChan, UnsubChan
<1>2. PICK o \in {"sub", "unsub"} : worker' = [op |-> o, u |-> u, c |-> c, as |-> u \in ass]
  BY DEF SubChan, UnsubChan
<1>3. worker' \in Handler
  <2>1. worker' \in OnChan
    BY <1>2 DEF OnChan
  <2>. QED
    BY <2>1 DEF Handler, OnChan
<1>4. TypeOK'
  BY <1>1, <1>3 DEF TypeOK, tables
<1>5. Found'
  BY <1>1, <1>2 DEF Found, tables
<1>. QED
  BY <1>1, <1>4, <1>5, TablesStay

\* aspc_put replaces at most one entry, of the same user and channel
LEMMA Putting ==
    ASSUME NEW e, Put(e)
    PROVE  \E gone \in SUBSET hashed :
              /\ hashed' = (hashed \ gone) \cup {e}
              /\ \A f \in gone : f.u = e.u /\ f.c = e.c
<1>1. CASE hashed' = hashed \cup {e}
  <2>1. hashed' = (hashed \ {}) \cup {e} /\ {} \in SUBSET hashed
    BY <1>1
  <2>. QED
    BY <2>1
<1>2. CASE \E f \in Findable(e.u, e.c) : hashed' = (hashed \ {f}) \cup {e}
  <2>1. PICK f \in Findable(e.u, e.c) : hashed' = (hashed \ {f}) \cup {e}
    BY <1>2
  <2>2. {f} \in SUBSET hashed /\ f.u = e.u /\ f.c = e.c
    BY DEF Findable
  <2>. QED
    BY <2>1, <2>2
<1>. QED
  BY <1>1, <1>2 DEF Put

\* An active subscriber gets a new entry, which may replace another one
Enters(u, c, new, gone) ==
    /\ listed' = listed \cup new /\ hashed' = (hashed \ gone) \cup new
    /\ \A e \in new : e.u = u /\ e.c = c /\ e.obj = chanObj[c] /\ u \in ass
    /\ \A e \in gone : e.u = u /\ e.c = c /\ u \in ass
    /\ u \in ass => new # {}

\* hdl_sub_chan_req, the entry
LEMMA Subscribing ==
    ASSUME IInv, SubChanPut
    PROVE  IInv'
<1>. DEFINE u == worker.u
            c == worker.c
<1>1. /\ ~broken /\ Good /\ TypeOK /\ worker.op \in {"sub", "unsub"} /\ worker \in Handler
      /\ worker' \in Walk \cup {Idle} /\ subs' = subs \cup {<<u, c>>}
      /\ UNCHANGED <<ass, nds, asNodes, ndUsers, chanObj, online, pending, broken, enabled, late, dangled>>
  BY DEF IInv, TypeOK, SubChanPut, Walk
<1>2. u \in Users /\ c \in Chans /\ (worker.as <=> u \in ass)
  BY <1>1, Kinds DEF OnChan, Good, Found
<1>3. \E new \in SUBSET Aspc, gone \in SUBSET hashed : Enters(u, c, new, gone)
  <2>1. CASE worker.as
    <3>. DEFINE e == aspc_create(u, c)
    <3>1. Put(e) /\ listed' = listed \cup {e}
      BY <2>1 DEF SubChanPut
    <3>2. e \in Aspc /\ e.u = u /\ e.c = c /\ e.obj = chanObj[c]
      BY <1>1, <1>2, Created
    <3>. HIDE DEF e
    <3>3. PICK gone \in SUBSET hashed :
            hashed' = (hashed \ gone) \cup {e} /\ \A f \in gone : f.u = e.u /\ f.c = e.c
      BY <3>1, Putting
    <3>4. Enters(u, c, {e}, gone) /\ {e} \in SUBSET Aspc
      BY <1>2, <2>1, <3>1, <3>2, <3>3 DEF Enters
    <3>. QED
      BY <3>4
  <2>2. CASE ~worker.as
    <3>1. listed' = listed \cup {} /\ hashed' = (hashed \ {}) \cup {}
      BY <2>2 DEF SubChanPut
    <3>2. Enters(u, c, {}, {}) /\ {} \in SUBSET Aspc /\ {} \in SUBSET hashed
      BY <1>2, <2>2, <3>1 DEF Enters
    <3>. QED
      BY <3>2
  <2>. QED
    BY <2>1, <2>2
<1>4. PICK new \in SUBSET Aspc, gone \in SUBSET hashed :
        /\ listed' = listed \cup new /\ hashed' = (hashed \ gone) \cup new
        /\ \A e \in new : e.u = u /\ e.c = c /\ e.obj = chanObj[c] /\ u \in ass
        /\ \A e \in gone : e.u = u /\ e.c = c /\ u \in ass
        /\ u \in ass => new # {}
  BY <1>3 DEF Enters
<1>. HIDE DEF u, c
<1>5. TypeOK'
  <2>1. worker' \in Handler
    BY <1>1 DEF Handler, Walk
  <2>2. subs' \in SUBSET (Users \X Chans)
    BY <1>1, <1>2 DEF TypeOK
  <2>3. listed' \in SUBSET Aspc /\ hashed' \in SUBSET Aspc
    BY <1>1, <1>4 DEF TypeOK
  <2>. QED
    BY <1>1, <2>1, <2>2, <2>3 DEF TypeOK
<1>6. Found' /\ Enabled' /\ nds' \subseteq online' \cup late'
  BY <1>1 DEF Found, Idle, Walk, Good, Enabled
<1>7. Linked'
  BY <1>1, <1>4 DEF Good, Linked
<1>8. Fresh'
  <2>1. SUFFICES ASSUME NEW e \in listed', <<e.u, e.c>> \notin dangled
                 PROVE  e \in hashed' /\ e.obj = chanObj[e.c]
    BY <1>1 DEF Fresh
  <2>2. CASE e \in new
    BY <1>4, <2>2
  <2>3. CASE e \in listed /\ ~(e.u = u /\ e.c = c)
    BY <1>1, <1>4, <2>1, <2>3 DEF Good, Fresh
  <2>4. CASE e \in listed /\ e.u = u /\ e.c = c
    <3>1. e \in hashed /\ e.obj = chanObj[e.c] /\ e \in Aspc /\ u \in ass
      BY <1>1, <2>1, <2>4 DEF Good, Fresh, Linked, TypeOK
    <3>2. PICK f \in new : TRUE
      BY <1>4, <3>1
    <3>3. f = e
      BY <1>4, <2>4, <3>1, <3>2 DEF Aspc
    <3>. QED
      BY <1>4, <3>1, <3>3
  <2>. QED
    BY <1>4, <2>2, <2>3, <2>4
<1>9. Entered'
  <2>1. SUFFICES ASSUME NEW w \in Users, NEW d \in Chans, w \in ass, <<w, d>> \in subs'
                 PROVE  \E e \in listed' : e.u = w /\ e.c = d
    BY <1>1 DEF Entered
  <2>2. CASE w = u /\ d = c
    BY <1>4, <2>1, <2>2
  <2>3. CASE ~(w = u /\ d = c)
    <3>1. <<w, d>> \in subs
      BY <1>1, <2>1, <2>3
    <3>. QED
      BY <1>1, <1>4, <2>1, <3>1 DEF Good, Entered
  <2>. QED
    BY <2>2, <2>3
<1>10. Unwanted'
  BY <1>1, <1>4 DEF Good, Unwanted
<1>. QED
  BY <1>5, <1>6, <1>7, <1>8, <1>9, <1>10 DEF IInv, Good

\* hdl_unsub_chan_req and aspc_remove: unless its key dangles, the entry of
\* the user is the only one and is found
LEMMA Unsubscribing ==
    ASSUME IInv, UnsubChanRemove
    PROVE  IInv'
<1>. DEFINE u == worker.u
            c == worker.c
<1>1. /\ ~broken /\ Good /\ TypeOK /\ worker.op \in {"sub", "unsub"} /\ worker \in Handler
      /\ worker' = Idle /\ subs' = subs \ {<<u, c>>}
      /\ UNCHANGED <<ass, nds, asNodes, ndUsers, chanObj, online, pending, broken, enabled, late, dangled>>
  BY DEF IInv, TypeOK, UnsubChanRemove
<1>2. u \in Users /\ c \in Chans /\ (worker.as <=> u \in ass)
  BY <1>1, Kinds DEF OnChan, Good, Found
<1>3. PICK gone \in SUBSET hashed :
        /\ hashed' = hashed \ gone /\ listed' = listed \ gone
        /\ \A e \in gone : e.u = u /\ e.c = c
        /\ \/ gone # {}
           \/ ~worker.as
           \/ \A e \in hashed : e.u = u /\ e.c = c => e.obj # chanObj[e.c]
  <2>1. ASSUME NEW e \in Findable(u, c), hashed' = hashed \ {e}, listed' = listed \ Removed(e)
        PROVE  /\ {e} \in SUBSET hashed /\ listed' = listed \ {e} /\ e.u = u /\ e.c = c
    BY <2>1 DEF Findable, Removed
  <2>2. CASE \E e \in Findable(u, c) : hashed' = hashed \ {e} /\ listed' = listed \ Removed(e)
    BY <2>1, <2>2
  <2>3. CASE /\ ~worker.as \/ NoneFound(u, c)
             /\ UNCHANGED <<hashed, listed>>
    <3>1. hashed' = hashed \ {} /\ listed' = listed \ {} /\ {} \in SUBSET hashed
      BY <2>3
    <3>2. ~worker.as \/ \A e \in hashed : e.u = u /\ e.c = c => e.obj # chanObj[e.c]
      BY <2>3 DEF NoneFound, Findable, Stale
    <3>. QED
      BY <3>1, <3>2
  <2>. QED
    BY <2>2, <2>3 DEF UnsubChanRemove
<1>. HIDE DEF u, c
<1>4. TypeOK'
  BY <1>1, <1>3 DEF TypeOK, Handler
<1>5. Found' /\ Enabled' /\ nds' \subseteq online' \cup late'
  BY <1>1 DEF Found, Idle, Good, Enabled
<1>6. Fresh' /\ Linked'
  BY <1>1, <1>3 DEF Good, Fresh, Linked
<1>7. Entered'
  <2>1. SUFFICES ASSUME NEW w \in Users, NEW d \in Chans, w \in ass', <<w, d>> \in subs'
                 PROVE  \E e \in listed' : e.u = w /\ e.c = d
    BY DEF Entered
  <2>2. PICK e \in listed : e.u = w /\ e.c = d
    BY <1>1, <2>1 DEF Good, Entered
  <2>3. ~(w = u /\ d = c)
    BY <1>1, <2>1
  <2>. QED
    BY <1>3, <2>2, <2>3
<1>8. Unwanted'
  <2>1. SUFFICES ASSUME NEW e \in listed', e.u = u, e.c = c, <<u, c>> \notin dangled
                 PROVE  FALSE
    BY <1>1, <1>3 DEF Good, Unwanted
  <2>2. e \in listed /\ e \in hashed /\ e \in Aspc /\ e.obj = chanObj[c] /\ e \notin gone
    BY <1>1, <1>3, <2>1 DEF Good, Fresh, TypeOK
  <2>3. \A f \in hashed : f.u = u /\ f.c = c => f \in Aspc /\ f.obj = chanObj[c]
    BY <1>1, <2>1 DEF Good, Fresh, Linked, TypeOK
  <2>4. \A f \in hashed : f.u = u /\ f.c = c => f = e
    BY <2>1, <2>2, <2>3 DEF Aspc
  <2>5. gone = {}
    BY <1>3, <2>2, <2>4
  <2>6. worker.as
    BY <1>1, <1>2, <2>1, <2>2 DEF Good, Linked
  <2>. QED
    BY <1>3, <2>1, <2>2, <2>5, <2>6
<1>. QED
  BY <1>4, <1>5, <1>6, <1>7, <1>8 DEF IInv, Good

\* hdl_upd_chan_req: the keys of the channel's entries now dangle
LEMMA Updating ==
    ASSUME IInv, NEW c \in Chans, UpdChan(c)
    PROVE  IInv'
<1>1. /\ ~broken /\ Good /\ TypeOK /\ chanObj[c] < MaxUpds
      /\ chanObj' = [chanObj EXCEPT ![c] = @ + 1] /\ worker' = [op |-> "walk", c |-> c]
      /\ dangled' = dangled \cup {<<e.u, e.c>> : e \in {f \in listed : f.c = c}}
      /\ UNCHANGED <<subs, tables, online, pending, broken, enabled, late>>
  BY DEF IInv, UpdChan
<1>2. \A d \in Chans : chanObj'[d] \in 0..MaxUpds /\ (d # c => chanObj'[d] = chanObj[d])
  BY <1>1, SubscribersAssumption DEF TypeOK
<1>3. worker' \in Handler
  <2>1. worker' \in Walk
    BY <1>1 DEF Walk
  <2>. QED
    BY <2>1 DEF Handler, Walk
<1>4. chanObj' \in [Chans -> 0..MaxUpds]
  BY <1>1, <1>2 DEF TypeOK
<1>5. TypeOK'
  <2>1. dangled' \in SUBSET (Users \X Chans)
    BY <1>1 DEF TypeOK, Aspc
  <2>. QED
    BY <1>1, <1>3, <1>4, <2>1 DEF TypeOK, tables
<1>6. Found'
  BY <1>1 DEF Found
<1>7. Linked' /\ Entered' /\ Enabled' /\ nds' \subseteq online' \cup late'
  BY <1>1 DEF Good, Linked, Entered, Enabled, tables
<1>8. Fresh'
  <2>1. SUFFICES ASSUME NEW e \in listed, <<e.u, e.c>> \notin dangled'
                 PROVE  e \in hashed /\ e.obj = chanObj'[e.c]
    BY <1>1 DEF Fresh, tables
  <2>2. e.c # c /\ e.c \in Chans /\ <<e.u, e.c>> \notin dangled
    BY <1>1, <2>1 DEF TypeOK, Aspc
  <2>. QED
    BY <1>1, <1>2, <2>1, <2>2 DEF Good, Fresh
<1>9. Unwanted'
  BY <1>1 DEF Good, Unwanted, tables
<1>. QED
  BY <1>5, <1>6, <1>7, <1>8, <1>9 DEF IInv, Good

\* A walk of a channel's list or of the destinations begins, or ends
LEMMA Walking ==
    ASSUME IInv, (\E c \in Chans : NotifySubers(c)) \/ TellOwner \/ StatsChanged \/ WalkEnd
    PROVE  IInv'
<1>1. /\ TypeOK /\ worker' \in Walk \cup {Idle}
      /\ UNCHANGED <<subs, tables, chanObj, online, pending, broken, enabled, late, dangled>>
  BY DEF IInv, NotifySubers, TellOwner, StatsChanged, WalkEnd, Walk
<1>2. worker' \in Handler
  BY <1>1 DEF Handler, Walk
<1>3. TypeOK'
  BY <1>1, <1>2 DEF TypeOK, tables
<1>4. Found'
  BY <1>1 DEF Found, Walk, Idle
<1>. QED
  BY <1>1, <1>3, <1>4, TablesStay

\* feeds_init: the tables are empty
LEMMA Starting ==
    ASSUME Init
    PROVE  IInv
<1>1. chanObj \in [Chans -> 0..MaxUpds]
  BY SubscribersAssumption DEF Init
<1>2. TypeOK
  BY <1>1, IdleIsOne DEF TypeOK, Init
<1>3. Good
  BY DEF Init, Good, Found, Idle, Fresh, Linked, Entered, Enabled, Unwanted
<1>. QED
  BY <1>2, <1>3 DEF IInv

\* The same after a restart, with the subscriptions of the database
LEMMA Restarting ==
    ASSUME IInv, Restart
    PROVE  IInv'
<1>1. subs' \in SUBSET (Users \X Chans)
  BY DEF IInv, TypeOK, Restart
<1>2. TypeOK'
  <2>1. chanObj' \in [Chans -> 0..MaxUpds]
    BY SubscribersAssumption DEF Restart
  <2>. QED
    BY <1>1, <2>1, IdleIsOne DEF TypeOK, Restart
<1>3. Good'
  BY DEF Restart, Good, Found, Idle, Fresh, Linked, Entered, Enabled, Unwanted
<1>. QED
  BY <1>2, <1>3 DEF IInv

\* None of the above
LEMMA Stuttering ==
    ASSUME IInv, UNCHANGED vars
    PROVE  IInv'
BY DEF IInv, TypeOK, Good, Found, Fresh, Linked, Entered, Enabled, Unwanted, vars, tables

-----------------------------------------------------------------------------
\* Every reachable state satisfies the inductive invariant, for any users,
\* nodes, channels and number of updates.
THEOREM Invariant == Spec => []IInv
<1>1. ASSUME IInv, Next
      PROVE  IInv'
  BY <1>1, Connecting, Disconnecting, Requesting, Enabling, EnablingPut, LookingUp,
     Subscribing, Unsubscribing, Updating, Walking, Restarting DEF Next
<1>2. IInv /\ [Next]_vars => IInv'
  BY <1>1, Stuttering
<1>. QED
  BY <1>2, Starting, PTL DEF Spec

\* Whatever the Carrier thread does between the steps of the handlers, short
\* of freeing an object in use, the two sides of the links of feeds.c agree
\* and no subscriber or destination outlives its last link.
THEOREM BothSides == Spec => []TwoSided
BY Invariant, Implied, PTL

\* A subscriber with notifications enabled is on the list of each of his
\* channels and has each of his nodes, in whatever order he subscribed,
\* enabled, and other nodes of his left.
THEOREM AllNotified == Spec => []NoneMissed
BY Invariant, Implied, PTL

\* aspc_remove leaves no entry of a user whose key did not dangle, and
\* feeds_deactivate_suber no destination that was disconnected.
THEOREM OnlyWanted == Spec => []NoneUnwanted
BY Invariant, Implied, PTL

\* A destination that is offline is one whose request was carried out after
\* feeds_deactivate_suber had run for it.
THEOREM OfflineLate == Spec => []OfflineOnlyIfLate
BY Invariant, Implied, PTL

=============================================================================
