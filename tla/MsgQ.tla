-------------------------------- MODULE MsgQ --------------------------------
(***************************************************************************)
(* Outgoing messages of the feeds daemon (src/msgq.cpp), together with the *)
(* two threads that drive them:                                            *)
(*                                                                         *)
(*  - the single thread of CommandHandler's thread pool, which runs        *)
(*    request handlers and the sends in the order they were posted; a      *)
(*    handler calls msgq_enq for every response and notification;          *)
(*  - the Carrier thread, which delivers on_msg_receipt, the disconnection *)
(*    of a friend (msgq_peer_offline) and incoming requests.               *)
(*                                                                         *)
(* msgq.cpp takes its mutex around each table or list operation, never     *)
(* around a sequence of them, so a step of this module is one such         *)
(* critical section with the thread-local code around it.                  *)
(*                                                                         *)
(* Messages are numbered in the order of the msgq_enq calls.  A queue      *)
(* object is identified by the message it was created for, and 0 stands    *)
(* for the null pointer.  Carrier itself is external: it accepts or        *)
(* refuses a message, and gives one receipt for each it accepted, in any   *)
(* order.  Allocation failures are left out.                               *)
(***************************************************************************)
EXTENDS Naturals, Sequences, FiniteSets, Functions

CONSTANTS
    Peers,      \* Carrier ids of the friends
    MaxMsgs,    \* bound on the calls of msgq_enq
    MaxReqs     \* bound on the requests received

ASSUME MsgQAssumption ==
    /\ MaxMsgs \in Nat
    /\ MaxReqs \in Nat

VARIABLES
    tasks,      \* task queue of the command handler's thread pool
    wpc,        \* where the worker is: see WorkerPc
    wto,        \* worker: argument "to" of msgq_enq
    wq,         \* worker: the queue msgq_get returned
    cpc,        \* where the Carrier thread is: see CarrierPc
    cq,         \* Carrier thread: the receipt's context
    cmsg,       \* Carrier thread: the message msgq_pop_head returned
    msgqs,      \* hash table of the queues, by peer
    peer,       \* MsgQ.peer
    list,       \* MsgQ.q
    depr,       \* MsgQ.depr
    online,     \* peers whose last friend_connection event was Connected
    unacked,    \* tasks handed to Carrier whose receipt is still to come
    nmsg,       \* calls of msgq_enq so far; the last one's message
    nreq,       \* requests received so far
    accepted,   \* history: messages given to msgq_enq, by peer
    sent,       \* history: messages Carrier took, by peer, in order
    refused,    \* history: sends Carrier refused
    late        \* history: messages pushed on a queue about to be, or
                \* already, removed by ReceiptRm or PeerOffline

workerVars  == <<wpc, wto, wq>>
carrierVars == <<cpc, cq, cmsg>>
queueVars   == <<msgqs, peer, list, depr>>
history     == <<accepted, sent, refused, late>>
vars == <<tasks, workerVars, carrierVars, queueVars, online, unacked,
          nmsg, nreq, history>>

Msgs == 1..MaxMsgs
NoQ  == 0
Task == [q : 0..MaxMsgs, msg : 0..MaxMsgs]

\* A received message waiting for CommandHandler::process
Request == [q |-> NoQ, msg |-> 0]

WorkerPc  == {"idle", "handler", "push", "create", "put"}
CarrierPc == {"idle", "rm", "send"}

TypeOK ==
    /\ tasks \in Seq(Task)
    /\ wpc \in WorkerPc
    /\ wto \in Peers
    /\ wq \in 0..MaxMsgs
    /\ cpc \in CarrierPc
    /\ cq \in 0..MaxMsgs
    /\ cmsg \in 0..MaxMsgs
    /\ msgqs \in [Peers -> 0..MaxMsgs]
    /\ peer \in [Msgs -> Peers]
    /\ list \in [Msgs -> Seq(Msgs)]
    /\ depr \in [Msgs -> BOOLEAN]
    /\ online \in SUBSET Peers
    /\ unacked \in SUBSET Task
    /\ nmsg \in 0..MaxMsgs
    /\ nreq \in 0..MaxReqs
    /\ accepted \in [Peers -> SUBSET Msgs]
    /\ sent \in [Peers -> Seq(Msgs)]
    /\ refused \in SUBSET Task
    /\ late \in SUBSET Msgs

\* msgq_init; the fields of queues that do not exist yet are arbitrary
Init ==
    /\ tasks = <<>>
    /\ wpc = "idle" /\ wto \in Peers /\ wq = NoQ
    /\ cpc = "idle" /\ cq = NoQ /\ cmsg = 0
    /\ msgqs = [p \in Peers |-> NoQ]
    /\ peer = [q \in Msgs |-> wto]
    /\ list = [q \in Msgs |-> <<>>]
    /\ depr = [q \in Msgs |-> FALSE]
    /\ online = {}
    /\ unacked = {}
    /\ nmsg = 0 /\ nreq = 0
    /\ accepted = [p \in Peers |-> {}]
    /\ sent = [p \in Peers |-> <<>>]
    /\ refused = {} /\ late = {}

-----------------------------------------------------------------------------
(* The operations of msgq.cpp on its table and its lists, each under the   *)
(* mutex: the new value of the table or of the lists.  An operator whose   *)
(* name starts with Bad is a wrong variant of the one after it.            *)

\* msgq_get found a queue: a message for p is under way
Busy(p) == msgqs[p] # NoQ

msgq_put(q) == [msgqs EXCEPT ![peer[q]] = q]

BadRm(p) == msgqs
msgq_rm(p) == [msgqs EXCEPT ![p] = NoQ]

BadPopHead(q) == list
\* The list without its first message, which is Head(list[q])
msgq_pop_head(q) == [list EXCEPT ![q] = Tail(@)]

BadPushHead(q, m) == [list EXCEPT ![q] = <<m>> \o @]
msgq_push_tail(q, m) == [list EXCEPT ![q] = Append(@, m)]

BadDeprecate(p) == depr
\* msgq_peer_offline marks the queue it removed, if any
Deprecate(p) == [q \in Msgs |-> depr[q] \/ q = msgqs[p]]

BadDeprecated(q) == FALSE
\* The test of on_msg_receipt
Deprecated(q) == depr[q]

-----------------------------------------------------------------------------
(* The Carrier thread *)

\* on_receiving_message -> CommandHandler::received -> ThreadPool::post
ReceiveRequest ==
    /\ cpc = "idle"
    /\ nreq < MaxReqs
    /\ nreq' = nreq + 1
    /\ tasks' = Append(tasks, Request)
    /\ UNCHANGED <<workerVars, carrierVars, queueVars, online, unacked, nmsg, history>>

\* friend_connection_callback, Connected
PeerOnline(p) ==
    /\ cpc = "idle"
    /\ p \notin online
    /\ online' = online \cup {p}
    /\ UNCHANGED <<tasks, workerVars, carrierVars, queueVars, unacked, nmsg, nreq, history>>

\* friend_connection_callback, Disconnected: msgq_peer_offline
PeerOffline(p) ==
    /\ cpc = "idle"
    /\ p \in online
    /\ online' = online \ {p}
    /\ msgqs' = msgq_rm(p)
    /\ depr' = Deprecate(p)
    /\ UNCHANGED <<tasks, workerVars, carrierVars, peer, list, unacked, nmsg, nreq, history>>

\* on_msg_receipt up to msgq_pop_head: nothing more happens to a deprecated
\* queue; otherwise the first waiting message leaves the list
Receipt(t) ==
    /\ cpc = "idle"
    /\ t \in unacked
    /\ unacked' = unacked \ {t}
    /\ \/ /\ depr[t.q]
          /\ UNCHANGED <<carrierVars, list>>
       \/ /\ ~Deprecated(t.q)
          /\ list[t.q] = <<>>
          /\ cpc' = "rm" /\ cq' = t.q
          /\ UNCHANGED <<cmsg, list>>
       \/ /\ ~Deprecated(t.q)
          /\ list[t.q] # <<>>
          /\ cpc' = "send" /\ cq' = t.q
          /\ cmsg' = Head(list[t.q])
          /\ list' = msgq_pop_head(t.q)
    /\ UNCHANGED <<tasks, workerVars, msgqs, peer, depr, online, nmsg, nreq, history>>

\* on_msg_receipt: msgq_rm(q->peer), by the peer's name
ReceiptRm ==
    /\ cpc = "rm"
    /\ msgqs' = msgq_rm(peer[cq])
    /\ cpc' = "idle"
    /\ UNCHANGED <<tasks, workerVars, cq, cmsg, peer, list, depr, online,
                   unacked, nmsg, nreq, history>>

\* on_msg_receipt: the popped message is posted for sending
ReceiptSend ==
    /\ cpc = "send"
    /\ tasks' = Append(tasks, [q |-> cq, msg |-> cmsg])
    /\ cpc' = "idle"
    /\ UNCHANGED <<workerVars, cq, cmsg, queueVars, online, unacked, nmsg, nreq, history>>

-----------------------------------------------------------------------------
(* The command handler's thread *)

\* ThreadPool::processTaskQueue takes a request: CommandHandler::process
StartRequest ==
    /\ wpc = "idle"
    /\ tasks # <<>> /\ Head(tasks).q = NoQ
    /\ tasks' = Tail(tasks)
    /\ wpc' = "handler"
    /\ UNCHANGED <<wto, wq, carrierVars, queueVars, online, unacked, nmsg, nreq, history>>

\* The handler returns
EndRequest ==
    /\ wpc = "handler"
    /\ wpc' = "idle"
    /\ UNCHANGED <<tasks, wto, wq, carrierVars, queueVars, online, unacked, nmsg, nreq, history>>

\* ThreadPool::processTaskQueue takes a send: CommandHandler::send.  When
\* Carrier refuses the message the task returns and no receipt will come.
SendTask ==
    /\ wpc = "idle"
    /\ tasks # <<>> /\ Head(tasks).q # NoQ
    /\ tasks' = Tail(tasks)
    /\ LET t == Head(tasks) IN
       \/ /\ unacked' = unacked \cup {t}
          /\ sent' = [sent EXCEPT ![peer[t.q]] = Append(@, t.msg)]
          /\ UNCHANGED refused
       \/ /\ refused' = refused \cup {t}
          /\ UNCHANGED <<unacked, sent>>
    /\ UNCHANGED <<workerVars, carrierVars, queueVars, online, nmsg, nreq, accepted, late>>

\* msgq_enq(to, msg) called by the handler: msgq_get
EnqGet(p) ==
    /\ wpc = "handler"
    /\ nmsg < MaxMsgs
    /\ nmsg' = nmsg + 1
    /\ accepted' = [accepted EXCEPT ![p] = @ \cup {nmsg + 1}]
    /\ wto' = p
    /\ wq' = msgqs[p]
    /\ wpc' = IF Busy(p) THEN "push" ELSE "create"
    /\ UNCHANGED <<tasks, carrierVars, queueVars, online, unacked, nreq, sent, refused, late>>

\* q is the queue of its peer, and the Carrier thread is not about to drop it
Live(q) == msgqs[peer[q]] = q /\ ~(cpc = "rm" /\ cq = q)

\* msgq_enq: the channel is busy, msgq_push_tail
EnqPush ==
    /\ wpc = "push"
    /\ list' = msgq_push_tail(wq, nmsg)
    /\ late' = IF Live(wq) THEN late ELSE late \cup {nmsg}
    /\ wpc' = "handler"
    /\ UNCHANGED <<tasks, wto, wq, carrierVars, msgqs, peer, depr, online,
                   unacked, nmsg, nreq, accepted, sent, refused>>

\* msgq_enq: msgq_create, and the message itself is posted for sending
EnqCreate ==
    /\ wpc = "create"
    /\ peer' = [peer EXCEPT ![nmsg] = wto]
    /\ list' = [list EXCEPT ![nmsg] = <<>>]
    /\ depr' = [depr EXCEPT ![nmsg] = FALSE]
    /\ tasks' = Append(tasks, [q |-> nmsg, msg |-> nmsg])
    /\ wq' = nmsg
    /\ wpc' = "put"
    /\ UNCHANGED <<wto, carrierVars, msgqs, online, unacked, nmsg, nreq, history>>

\* msgq_enq: msgq_put
EnqPut ==
    /\ wpc = "put"
    /\ msgqs' = msgq_put(wq)
    /\ wpc' = "handler"
    /\ UNCHANGED <<tasks, wto, wq, carrierVars, peer, list, depr, online,
                   unacked, nmsg, nreq, history>>

-----------------------------------------------------------------------------

Worker ==
    \/ StartRequest \/ EndRequest \/ SendTask
    \/ \E p \in Peers : EnqGet(p)
    \/ EnqPush \/ EnqCreate \/ EnqPut

Receipts == (\E t \in unacked : Receipt(t)) \/ ReceiptRm \/ ReceiptSend

Next ==
    \/ ReceiveRequest
    \/ \E p \in Peers : PeerOnline(p) \/ PeerOffline(p)
    \/ Receipts
    \/ Worker

Spec == Init /\ [][Next]_vars

\* The worker thread and the Carrier thread keep running, and Carrier gives
\* every message it accepted a receipt (received, friend offline or error):
\* there are finitely many messages, so Receipts need not be fair one by one.
Fairness == WF_vars(Worker) /\ WF_vars(Receipts)

FairSpec == Spec /\ Fairness

-----------------------------------------------------------------------------
(* Properties *)

\* The ways a message of q is on its way: posted, with Carrier, or handled
\* by the receipt callback
InFlight(q) ==
    Cardinality({i \in DOMAIN tasks : tasks[i].q = q})
    + Cardinality({t \in unacked : t.q = q})
    + (IF cpc # "idle" /\ cq = q THEN 1 ELSE 0)

\* on_msg_receipt removes the queue by the peer's name; the entry it finds is
\* its own queue, never one created meanwhile for the same peer.
OwnEntry == cpc # "idle" => msgqs[peer[cq]] = cq

\* Carrier gets the messages for a peer in the order msgq_enq was called for
\* them, each at most once, even across a disconnection that leaves sends of
\* the old queue among those of a new one.
InOrder ==
    \A p \in Peers : \A i, j \in DOMAIN sent[p] :
        i < j => sent[p][i] < sent[p][j]

\* A message is left behind in a queue only if the peer disconnected, if a
\* send of that queue was refused, or if msgq_enq pushed it in the window
\* between the last msgq_pop_head and the removal of the queue.
NothingElseLost ==
    \A q \in Msgs : \A m \in Range(list[q]) :
        \/ depr[q]
        \/ m \in late
        \/ \E t \in refused : t.q = q
        \/ Live(q) /\ InFlight(q) = 1

\* Once a disconnection has deprecated a queue, nothing more is posted for it.
DeprecatedStaysSilent ==
    [][\A q \in Msgs : depr[q] =>
          \A i \in DOMAIN tasks' : tasks'[i].q = q =>
              \E j \in DOMAIN tasks : tasks[j] = tasks'[i]]_vars

\* Every message given to msgq_enq reaches Carrier, except the ones lost in
\* the ways NothingElseLost names.
Delivery ==
    \A p \in Peers : \A m \in Msgs :
        m \in accepted[p] ~>
            \/ m \in Range(sent[p])
            \/ m \in late
            \/ \E t \in refused : t.msg = m \/ m \in Range(list[t.q])
            \/ \E q \in Msgs : depr[q] /\ m \in Range(list[q])

\* msgq.cpp implements one lossy first-in first-out channel per peer.
Fifo == INSTANCE LossyFifo WITH
            Peers <- Peers, MaxMsgs <- MaxMsgs,
            accepted <- accepted, sent <- sent
FifoSpec == Fifo!Spec

=============================================================================
