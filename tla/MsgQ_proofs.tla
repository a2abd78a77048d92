----------------------------- MODULE MsgQ_proofs -----------------------------
(***************************************************************************)
(* Proofs about MsgQ: the type invariant, OwnEntry, InOrder,               *)
(* DeprecatedStaysSilent and NothingElseLost, and that MsgQ implements     *)
(* LossyFifo, for any peers and any numbers of messages and requests.      *)
(***************************************************************************)
EXTENDS MsgQ, FiniteSetTheorems, TLAPS

Increasing(s) == \A i, j \in DOMAIN s : i < j => s[i] < s[j]

InTable(q) == msgqs[peer[q]] = q

\* Numbers above this one have not been used: while msgq_enq is about to
\* push the message or to create a queue for it, its own is still unused
Bound == IF wpc \in {"push", "create"} THEN nmsg - 1 ELSE nmsg

\* What is posted, waiting or recorded has a number that was given
Fresh ==
    /\ wpc \in {"push", "create", "put"} => nmsg > 0
    /\ \A i \in DOMAIN tasks : tasks[i].q =< Bound /\ tasks[i].msg =< Bound
    /\ \A t \in unacked : t.q =< Bound
    /\ cq =< Bound /\ cmsg =< Bound
    /\ \A p \in Peers : msgqs[p] =< Bound
    /\ \A q \in Msgs : \A m \in Range(list[q]) : m =< Bound
    /\ \A p \in Peers : \A m \in Range(sent[p]) : m =< Bound
    /\ \A p \in Peers : \A m \in accepted[p] : m =< nmsg
    /\ \A q \in Msgs : q > Bound => ~depr[q]

\* What the worker knows in the middle of msgq_enq
Enqueuing ==
    /\ wpc = "push" => wq \in Msgs /\ peer[wq] = wto
    /\ wpc \in {"create", "put"} => msgqs[wto] = NoQ
    /\ wpc = "put" => wq = nmsg /\ peer[wq] = wto /\ list[wq] = <<>> /\ ~depr[wq]
    /\ wpc \in {"push", "create"} => nmsg \in accepted[wto]

\* The table has a queue under its own peer, and no deprecated one
Table == \A p \in Peers :
    msgqs[p] # NoQ => peer[msgqs[p]] = p /\ ~depr[msgqs[p]]

\* A message on its way belongs to the queue in the table, unless the queue
\* is deprecated or about to be put there
Drivers ==
    /\ \A i \in DOMAIN tasks : tasks[i].q # NoQ =>
           depr[tasks[i].q] \/ InTable(tasks[i].q) \/ (wpc = "put" /\ wq = tasks[i].q)
    /\ \A t \in unacked : t.q # NoQ /\ (depr[t.q] \/ InTable(t.q))
    /\ cpc # "idle" => cq # NoQ /\ InTable(cq)

\* A queue has at most one message on its way
Single ==
    /\ \A i, j \in DOMAIN tasks :
           tasks[i].q # NoQ /\ tasks[i].q = tasks[j].q => i = j
    /\ \A i \in DOMAIN tasks : \A t \in unacked : t.q # tasks[i].q
    /\ \A s, t \in unacked : s.q = t.q => s = t
    /\ cpc # "idle" => /\ \A i \in DOMAIN tasks : tasks[i].q # cq
                       /\ \A t \in unacked : t.q # cq

\* The messages of a peer that were sent, that are posted, that the receipt
\* callback holds and that wait in the queue in the table come in this order
Order ==
    /\ \A p \in Peers : Increasing(sent[p])
    /\ \A i, j \in DOMAIN tasks :
           /\ i < j /\ tasks[i].q # NoQ /\ tasks[j].q # NoQ
           /\ peer[tasks[i].q] = peer[tasks[j].q]
           => tasks[i].msg < tasks[j].msg
    /\ \A i \in DOMAIN tasks : tasks[i].q # NoQ =>
           \A m \in Range(sent[peer[tasks[i].q]]) : m < tasks[i].msg
    /\ cpc = "send" =>
           /\ \A m \in Range(sent[peer[cq]]) : m < cmsg
           /\ \A i \in DOMAIN tasks :
                 tasks[i].q # NoQ /\ peer[tasks[i].q] = peer[cq] => tasks[i].msg < cmsg
           /\ \A m \in Range(list[cq]) : cmsg < m
    /\ \A p \in Peers : msgqs[p] # NoQ =>
           /\ Increasing(list[msgqs[p]])
           /\ \A m \in Range(list[msgqs[p]]) :
                 /\ \A k \in Range(sent[p]) : k < m
                 /\ \A i \in DOMAIN tasks :
                       tasks[i].q # NoQ /\ peer[tasks[i].q] = p => tasks[i].msg < m

\* A message is only ever where it was accepted for
Origin ==
    /\ \A i \in DOMAIN tasks : tasks[i].q # NoQ =>
           tasks[i].msg \in accepted[peer[tasks[i].q]]
    /\ cpc = "send" => cmsg \in accepted[peer[cq]]
    /\ \A q \in Msgs : \A m \in Range(list[q]) : m \in accepted[peer[q]]

IInv == TypeOK /\ Fresh /\ Enqueuing /\ Table /\ Drivers /\ Single /\ Order /\ Origin

\* TypeOK, element by element
Elements ==
    /\ nmsg \in Nat /\ cq \in 0..MaxMsgs /\ cmsg \in 0..MaxMsgs /\ wto \in Peers
    /\ \A i \in DOMAIN tasks :
          i \in Nat /\ tasks[i].q \in 0..MaxMsgs /\ tasks[i].msg \in 0..MaxMsgs
    /\ \A t \in unacked : t.q \in 0..MaxMsgs /\ t \in Task
    /\ \A p \in Peers : msgqs[p] \in 0..MaxMsgs
    /\ \A q \in Msgs : peer[q] \in Peers
    /\ \A q \in Msgs : \A m \in Range(list[q]) : m \in Nat
    /\ \A p \in Peers : \A m \in Range(sent[p]) : m \in Nat
    /\ \A p \in Peers : \A m \in accepted[p] : m \in Nat
    /\ MaxMsgs \in Nat

\* ThreadPool::post added t to the tasks
Posts(t) ==
    \E n \in Nat :
        /\ n \notin DOMAIN tasks
        /\ DOMAIN tasks' = DOMAIN tasks \cup {n}
        /\ tasks'[n] = t
        /\ \A i \in DOMAIN tasks : i < n /\ tasks'[i] = tasks[i]

\* ThreadPool::processTaskQueue took the first task
Takes ==
    /\ 1 \in DOMAIN tasks /\ Head(tasks) = tasks[1]
    /\ \A i \in DOMAIN tasks' :
          i \in Nat /\ i > 0 /\ i + 1 \in DOMAIN tasks /\ tasks'[i] = tasks[i + 1]

-----------------------------------------------------------------------------
(* Facts about sequences *)

\* What a sequence holds.
LEMMA SeqHolds ==
    ASSUME NEW S, NEW s \in Seq(S)
    PROVE  (\A i \in DOMAIN s : i \in Nat /\ s[i] \in S) /\ Range(s) \subseteq S
<1>1. \A i \in DOMAIN s : i \in Nat /\ s[i] \in S
  OBVIOUS
<1> QED BY <1>1 DEF Range

\* An element appended to a sequence comes after the others, which stay.
LEMMA AppendIs ==
    ASSUME NEW S, NEW s \in Seq(S), NEW e \in S
    PROVE  /\ Append(s, e) \in Seq(S)
           /\ DOMAIN Append(s, e) = DOMAIN s \cup {Len(s) + 1}
           /\ Len(s) + 1 \notin DOMAIN s
           /\ \A i \in DOMAIN s : i \in Nat /\ i < Len(s) + 1 /\ Append(s, e)[i] = s[i]
           /\ Append(s, e)[Len(s) + 1] = e
           /\ Range(Append(s, e)) = Range(s) \cup {e}
<1>1. /\ Append(s, e) \in Seq(S)
      /\ Len(Append(s, e)) = Len(s) + 1
      /\ \A i \in 1..Len(s) : Append(s, e)[i] = s[i]
      /\ Append(s, e)[Len(s) + 1] = e
  OBVIOUS
<1>2. DOMAIN s = 1..Len(s) /\ DOMAIN Append(s, e) = 1..Len(s) + 1 /\ Len(s) \in Nat
  BY <1>1
<1>3. Range(Append(s, e)) = Range(s) \cup {e}
  BY <1>1, <1>2 DEF Range
<1> QED BY <1>1, <1>2, <1>3

\* Taking the first element off a sequence moves the others down.
LEMMA TailIs ==
    ASSUME NEW S, NEW s \in Seq(S), s # <<>>
    PROVE  /\ Tail(s) \in Seq(S) /\ Head(s) \in S
           /\ 1 \in DOMAIN s /\ Head(s) = s[1] /\ Head(s) \in Range(s)
           /\ \A i \in DOMAIN Tail(s) :
                 i \in Nat /\ i > 0 /\ i + 1 \in DOMAIN s /\ Tail(s)[i] = s[i + 1]
           /\ Range(Tail(s)) \subseteq Range(s)
<1>1. /\ Tail(s) \in Seq(S)
      /\ Len(s) \in Nat /\ Len(s) > 0
      /\ Len(Tail(s)) = Len(s) - 1
      /\ \A i \in 1..Len(s) - 1 : Tail(s)[i] = s[i + 1]
      /\ Head(s) = s[1]
  OBVIOUS
<1>2. DOMAIN s = 1..Len(s) /\ DOMAIN Tail(s) = 1..Len(s) - 1
  BY <1>1
<1>3. Head(s) \in S
  OBVIOUS
<1>4. Head(s) \in Range(s) /\ Range(Tail(s)) \subseteq Range(s)
  BY <1>1, <1>2 DEF Range
<1> QED BY <1>1, <1>2, <1>3, <1>4

\* A sequence stays increasing when something larger is appended.
LEMMA AppendIncreasing ==
    ASSUME NEW S, NEW s \in Seq(S), NEW e \in S, Increasing(s),
           \A x \in Range(s) : x < e
    PROVE  Increasing(Append(s, e))
<1>1. \A i \in DOMAIN s : s[i] < e
  BY DEF Range
<1> QED BY <1>1, AppendIs DEF Increasing

\* The rest of an increasing sequence is increasing, and above its first
\* element.
LEMMA TailIncreasing ==
    ASSUME NEW S, NEW s \in Seq(S), s # <<>>, Increasing(s)
    PROVE  Increasing(Tail(s)) /\ \A x \in Range(Tail(s)) : Head(s) < x
<1>1. Increasing(Tail(s))
  BY TailIs DEF Increasing
<1>2. \A i \in DOMAIN Tail(s) : Head(s) < Tail(s)[i]
  BY TailIs DEF Increasing
<1> QED BY <1>1, <1>2 DEF Range

-----------------------------------------------------------------------------
(* Inductive invariant *)

\* Every step keeps the types.
LEMMA TypeStep ==
    ASSUME IInv, [Next]_vars
    PROVE  TypeOK'
<1> USE DEF IInv
<1>1. CASE ReceiveRequest
  <2>1. Request \in Task
    BY MsgQAssumption DEF Request, Task, NoQ
  <2>2. tasks' \in Seq(Task)
    BY <1>1, <2>1, AppendIs DEF ReceiveRequest, TypeOK
  <2>3. nreq' \in 0..MaxReqs
    BY <1>1, MsgQAssumption DEF ReceiveRequest, TypeOK
  <2> QED
    BY <1>1, <2>2, <2>3 DEF ReceiveRequest, workerVars, carrierVars, queueVars, history, TypeOK
<1>2. ASSUME NEW p \in Peers, PeerOnline(p)
      PROVE  TypeOK'
  BY <1>2 DEF PeerOnline, workerVars, carrierVars, queueVars, history, TypeOK
<1>3. ASSUME NEW p \in Peers, PeerOffline(p)
      PROVE  TypeOK'
  <2>1. msgqs' = [msgqs EXCEPT ![p] = 0] /\ msgqs \in [Peers -> 0..MaxMsgs] /\ 0 \in 0..MaxMsgs
    BY <1>3, MsgQAssumption DEF PeerOffline, msgq_rm, NoQ, TypeOK
  <2>2. msgqs' \in [Peers -> 0..MaxMsgs]
    BY <2>1
  <2>3. depr' \in [Msgs -> BOOLEAN]
    BY <1>3, Zenon DEF PeerOffline, Deprecate
  <2> QED
    BY <1>3, <2>2, <2>3 DEF PeerOffline, workerVars, carrierVars, history, TypeOK
<1>4. ASSUME NEW t \in unacked, Receipt(t)
      PROVE  TypeOK'
  <2>1. t.q \in Msgs /\ t.q \in 0..MaxMsgs
    BY MsgQAssumption DEF TypeOK, Drivers, Task, Msgs, NoQ
  <2>2. list \in [Msgs -> Seq(Msgs)] /\ list[t.q] \in Seq(Msgs)
    BY <2>1 DEF TypeOK
  <2>3. CASE UNCHANGED <<cpc, cq, cmsg, list>>
    BY <1>4, <2>3 DEF Receipt, workerVars, history, TypeOK
  <2>4. CASE cpc' = "rm" /\ cq' = t.q /\ UNCHANGED <<cmsg, list>>
    BY <1>4, <2>1, <2>4 DEF Receipt, workerVars, history, TypeOK, CarrierPc
  <2>5. CASE /\ list[t.q] # <<>> /\ cpc' = "send" /\ cq' = t.q
             /\ cmsg' = Head(list[t.q]) /\ list' = [list EXCEPT ![t.q] = Tail(@)]
    <3>1. Tail(list[t.q]) \in Seq(Msgs) /\ Head(list[t.q]) \in Msgs
      BY <2>2, <2>5, TailIs
    <3>2. list' \in [Msgs -> Seq(Msgs)]
      BY <2>2, <2>5, <3>1
    <3>3. cmsg' \in 0..MaxMsgs
      BY <2>5, <3>1, MsgQAssumption DEF Msgs
    <3> QED BY <1>4, <2>1, <2>5, <3>2, <3>3 DEF Receipt, workerVars, history, TypeOK, CarrierPc
  <2> QED BY <1>4, <2>3, <2>4, <2>5 DEF Receipt, Deprecated, msgq_pop_head, carrierVars
<1>5. CASE ReceiptRm
  <2>1. msgqs' = [msgqs EXCEPT ![peer[cq]] = 0]
    BY <1>5 DEF ReceiptRm, msgq_rm, NoQ
  <2>2. msgqs \in [Peers -> 0..MaxMsgs] /\ 0 \in 0..MaxMsgs
    BY MsgQAssumption DEF TypeOK
  <2>3. msgqs' \in [Peers -> 0..MaxMsgs]
    BY <2>1, <2>2
  <2> QED BY <1>5, <2>3 DEF ReceiptRm, workerVars, carrierVars, queueVars, history, TypeOK, CarrierPc
<1>6. CASE ReceiptSend
  <2>1. [q |-> cq, msg |-> cmsg] \in Task
    BY DEF TypeOK, Task
  <2> QED BY <1>6, <2>1, AppendIs DEF ReceiptSend, workerVars, carrierVars, queueVars, history, TypeOK, CarrierPc
<1>7. CASE StartRequest
  BY <1>7, TailIs DEF StartRequest, workerVars, carrierVars, queueVars, history, TypeOK, WorkerPc
<1>8. CASE EndRequest
  BY <1>8 DEF EndRequest, workerVars, carrierVars, queueVars, history, TypeOK, WorkerPc
<1>9. CASE SendTask
  <2>1. Tail(tasks) \in Seq(Task) /\ Head(tasks) \in Task /\ Head(tasks).q \in Msgs
    <3>1. tasks \in Seq(Task) /\ tasks # <<>> /\ Head(tasks).q # 0
      BY <1>9 DEF SendTask, TypeOK, NoQ
    <3>2. Tail(tasks) \in Seq(Task) /\ Head(tasks) \in Task
      BY <3>1, TailIs
    <3> QED BY <3>1, <3>2, MsgQAssumption DEF Task, Msgs
  <2>2. Head(tasks).msg \in Msgs
    BY <1>9, <2>1, TailIs DEF SendTask, TypeOK, Origin
  <2>3. peer[Head(tasks).q] \in Peers
    BY <2>1 DEF TypeOK
  <2>4. Append(sent[peer[Head(tasks).q]], Head(tasks).msg) \in Seq(Msgs)
    BY <2>2, <2>3, AppendIs DEF TypeOK
  <2>5. tasks' \in Seq(Task) /\ unacked' \in SUBSET Task /\ refused' \in SUBSET Task
    BY <1>9, <2>1 DEF SendTask, TypeOK
  <2>6. sent' \in [Peers -> Seq(Msgs)]
    BY <1>9, <2>4 DEF SendTask, TypeOK
  <2> QED BY <1>9, <2>5, <2>6 DEF SendTask, workerVars, carrierVars, queueVars, history, TypeOK
<1>10. ASSUME NEW p \in Peers, EnqGet(p)
      PROVE  TypeOK'
  <2>1. nmsg + 1 \in Msgs /\ nmsg + 1 \in 0..MaxMsgs
    BY <1>10, MsgQAssumption DEF EnqGet, TypeOK, Msgs
  <2>2. accepted' \in [Peers -> SUBSET Msgs]
    BY <1>10, <2>1 DEF EnqGet, TypeOK
  <2>3. wpc' \in WorkerPc /\ wq' \in 0..MaxMsgs
    BY <1>10 DEF EnqGet, TypeOK, WorkerPc
  <2> QED BY <1>10, <2>1, <2>2, <2>3 DEF EnqGet, workerVars, carrierVars, queueVars, history, TypeOK
<1>11. CASE EnqPush
  <2>1. nmsg \in Msgs /\ wq \in Msgs
    BY <1>11, MsgQAssumption DEF EnqPush, TypeOK, Enqueuing, Fresh, Msgs
  <2>2. Append(list[wq], nmsg) \in Seq(Msgs)
    BY <2>1, AppendIs DEF TypeOK
  <2>3. list' \in [Msgs -> Seq(Msgs)]
    BY <1>11, <2>2 DEF EnqPush, TypeOK, msgq_push_tail
  <2>4. late' \in SUBSET Msgs
    BY <1>11, <2>1 DEF EnqPush, TypeOK
  <2> QED BY <1>11, <2>3, <2>4 DEF EnqPush, workerVars, carrierVars, queueVars, history, TypeOK, WorkerPc
<1>12. CASE EnqCreate
  <2>1. nmsg \in Msgs
    BY <1>12, MsgQAssumption DEF EnqCreate, TypeOK, Fresh, Msgs
  <2>2. [q |-> nmsg, msg |-> nmsg] \in Task
    BY DEF TypeOK, Task
  <2>3. tasks' \in Seq(Task)
    BY <1>12, <2>2, AppendIs DEF EnqCreate, TypeOK
  <2>4. list' \in [Msgs -> Seq(Msgs)] /\ peer' \in [Msgs -> Peers]
    <3>1. /\ list \in [Msgs -> Seq(Msgs)] /\ list' = [list EXCEPT ![nmsg] = <<>>]
          /\ peer \in [Msgs -> Peers] /\ peer' = [peer EXCEPT ![nmsg] = wto]
          /\ wto \in Peers /\ <<>> \in Seq(Msgs)
      BY <1>12 DEF EnqCreate, TypeOK
    <3> QED BY <3>1
  <2>5. depr' \in [Msgs -> BOOLEAN]
    <3>1. depr \in [Msgs -> BOOLEAN] /\ depr' = [depr EXCEPT ![nmsg] = FALSE]
      BY <1>12 DEF EnqCreate, TypeOK
    <3> QED BY <3>1, Zenon
  <2> QED
    BY <1>12, <2>3, <2>4, <2>5
    DEF EnqCreate, workerVars, carrierVars, queueVars, history, TypeOK, WorkerPc
<1>13. CASE EnqPut
  BY <1>13, MsgQAssumption DEF EnqPut, workerVars, carrierVars, queueVars, history, TypeOK, WorkerPc, msgq_put
<1>14. CASE UNCHANGED vars
  BY <1>14 DEF vars, workerVars, carrierVars, queueVars, history, TypeOK
<1> QED
  BY <1>1, <1>2, <1>3, <1>4, <1>5, <1>6, <1>7, <1>8, <1>9, <1>10, <1>11, <1>12, <1>13, <1>14 DEF Next, Worker, Receipts

\* The types of what the structures hold.
LEMMA ElementsOf ==
    ASSUME TypeOK
    PROVE  Elements
<1>1. /\ nmsg \in Nat /\ cq \in 0..MaxMsgs /\ cmsg \in 0..MaxMsgs /\ wto \in Peers
      /\ \A t \in unacked : t.q \in 0..MaxMsgs /\ t \in Task
      /\ \A p \in Peers : msgqs[p] \in 0..MaxMsgs
      /\ \A q \in Msgs : peer[q] \in Peers
      /\ MaxMsgs \in Nat
  BY MsgQAssumption DEF TypeOK, Task
<1>2. \A i \in DOMAIN tasks :
          i \in Nat /\ tasks[i].q \in 0..MaxMsgs /\ tasks[i].msg \in 0..MaxMsgs
  <2>1. \A i \in DOMAIN tasks : i \in Nat /\ tasks[i] \in Task
    BY SeqHolds DEF TypeOK
  <2> QED BY <2>1 DEF Task
<1>3. \A s \in Seq(Msgs) : \A m \in Range(s) : m \in Nat
  <2> SUFFICES ASSUME NEW s \in Seq(Msgs) PROVE Range(s) \subseteq Nat
    OBVIOUS
  <2>1. Range(s) \subseteq Msgs
    BY SeqHolds
  <2> QED BY <2>1 DEF Msgs
<1>4. \A q \in Msgs : list[q] \in Seq(Msgs)
  BY DEF TypeOK
<1>5. \A p \in Peers : sent[p] \in Seq(Msgs) /\ accepted[p] \subseteq Nat
  BY DEF TypeOK, Msgs
<1> QED BY <1>1, <1>2, <1>3, <1>4, <1>5 DEF Elements

\* The effect of posting a task.
LEMMA Posting ==
    ASSUME TypeOK, NEW t \in Task, tasks' = Append(tasks, t)
    PROVE  Posts(t)
<1>1. tasks \in Seq(Task) /\ Len(tasks) + 1 \in Nat
  BY DEF TypeOK
<1> QED BY <1>1, AppendIs DEF Posts

\* The effect of taking a task.
LEMMA Taking ==
    ASSUME TypeOK, tasks # <<>>, tasks' = Tail(tasks)
    PROVE  Takes
<1>1. tasks \in Seq(Task)
  BY DEF TypeOK
<1> QED BY <1>1, TailIs DEF Takes

\* A request posted for the worker disturbs no message.
LEMMA ReceiveRequestStep ==
    ASSUME IInv, ReceiveRequest
    PROVE  (Fresh /\ Enqueuing /\ Table /\ Drivers /\ Single /\ Order /\ Origin)'
<1>1. UNCHANGED <<wpc, wto, wq, cpc, cq, cmsg, msgqs, peer, list, depr, unacked, nmsg, accepted, sent>>
  BY DEF ReceiveRequest, workerVars, carrierVars, queueVars, history
<1>2. Elements
  BY ElementsOf DEF IInv
<1>3. PICK n \in Nat :
        /\ n \notin DOMAIN tasks
        /\ DOMAIN tasks' = DOMAIN tasks \cup {n}
        /\ tasks'[n].q = 0 /\ tasks'[n].msg = 0
        /\ \A i \in DOMAIN tasks : i < n /\ tasks'[i] = tasks[i]
  <2>1. Request \in Task /\ Request.q = 0 /\ Request.msg = 0
    BY MsgQAssumption DEF Request, NoQ, Task
  <2> QED BY <2>1, Posting DEF IInv, ReceiveRequest, Posts
<1>4. Fresh'
  BY <1>1, <1>2, <1>3 DEF IInv, Fresh, Bound, Elements
<1>5. Enqueuing' /\ Table'
  BY <1>1 DEF IInv, Enqueuing, Table
<1>6. Drivers'
  BY <1>1, <1>2, <1>3 DEF IInv, Drivers, InTable, Elements, NoQ
<1>7. Single'
  BY <1>1, <1>2, <1>3 DEF IInv, Single, Drivers, Elements, NoQ
<1>8. Order'
  BY <1>1, <1>2, <1>3 DEF IInv, Order, Elements, NoQ
<1>9. Origin'
  BY <1>1, <1>2, <1>3 DEF IInv, Origin, NoQ
<1> QED BY <1>4, <1>5, <1>6, <1>7, <1>8, <1>9

\* Nothing the invariant is about changes when a peer connects, or when
\* nothing does.
LEMMA UnchangedStep ==
    ASSUME IInv,
           UNCHANGED <<tasks, wpc, wto, wq, cpc, cq, cmsg, msgqs, peer, list, depr,
                       unacked, nmsg, accepted, sent>>
    PROVE  (Fresh /\ Enqueuing /\ Table /\ Drivers /\ Single /\ Order /\ Origin)'
<1>1. Fresh' /\ Enqueuing' /\ Table'
  BY DEF IInv, Fresh, Bound, Enqueuing, Table
<1>2. Drivers' /\ Single'
  BY DEF IInv, Drivers, InTable, Single
<1>3. Order' /\ Origin'
  BY DEF IInv, Order, Origin
<1> QED BY <1>1, <1>2, <1>3

\* A disconnection takes the peer's queue out of the table and deprecates it,
\* which leaves the messages on their way with a deprecated queue.
LEMMA PeerOfflineStep ==
    ASSUME IInv, NEW p \in Peers, PeerOffline(p)
    PROVE  (Fresh /\ Enqueuing /\ Table /\ Drivers /\ Single /\ Order /\ Origin)'
<1>1. /\ UNCHANGED <<tasks, wpc, wto, wq, cpc, cq, cmsg, peer, list, unacked, nmsg, accepted, sent>>
      /\ cpc = "idle"
  BY DEF PeerOffline, workerVars, carrierVars, history
<1>2. Elements
  BY ElementsOf DEF IInv
<1>3. \A x \in Peers : msgqs'[x] = IF x = p THEN 0 ELSE msgqs[x]
  BY DEF IInv, TypeOK, PeerOffline, msgq_rm, NoQ
<1>4. \A q \in Msgs : depr'[q] <=> (depr[q] \/ q = msgqs[p])
  BY DEF PeerOffline, Deprecate
<1>5. Fresh'
  BY <1>1, <1>2, <1>3, <1>4 DEF IInv, Fresh, Bound, Elements, Msgs
<1>6. Table'
  BY <1>1, <1>2, <1>3, <1>4 DEF IInv, Table, Elements, Msgs, NoQ
<1>7. Enqueuing'
  <2>1. wpc \in {"create", "put"} => msgqs'[wto] = 0
    BY <1>2, <1>3 DEF IInv, Enqueuing, Elements, NoQ
  <2>2. wpc = "put" => ~depr'[wq]
    <3> SUFFICES ASSUME wpc = "put" PROVE ~depr'[wq]
      OBVIOUS
    <3>1. wq \in Msgs /\ wto \in Peers
      BY <1>2 DEF IInv, TypeOK, Enqueuing, Fresh, Elements, Msgs
    <3>2. ~depr[wq] /\ wq # msgqs[p]
      BY <1>2, <3>1 DEF IInv, Enqueuing, Table, Elements, Msgs, NoQ
    <3> QED BY <1>4, <3>1, <3>2
  <2> QED BY <1>1, <2>1, <2>2 DEF IInv, Enqueuing, NoQ
<1>8. Drivers'
  <2>1. ASSUME NEW q \in Msgs, depr[q] \/ InTable(q) PROVE depr'[q] \/ msgqs'[peer[q]] = q
    BY <1>2, <1>3, <1>4, <2>1 DEF InTable, Elements
  <2> QED BY <1>1, <1>2, <2>1 DEF IInv, Drivers, InTable, Elements, Msgs, NoQ
<1>9. Single' /\ Origin'
  BY <1>1 DEF IInv, Single, Origin
<1>10. Order'
  BY <1>1, <1>3 DEF IInv, Order, NoQ
<1> QED BY <1>5, <1>6, <1>7, <1>8, <1>9, <1>10

\* A receipt either finds its queue deprecated, or that queue is the one in
\* the table, and the callback takes over from the receipt what drives it.
LEMMA ReceiptStep ==
    ASSUME IInv, NEW t \in unacked, Receipt(t)
    PROVE  (Fresh /\ Enqueuing /\ Table /\ Drivers /\ Single /\ Order /\ Origin)'
<1>1. /\ UNCHANGED <<tasks, wpc, wto, wq, msgqs, peer, depr, nmsg, accepted, sent>>
      /\ unacked' = unacked \ {t}
      /\ cpc = "idle"
  BY DEF Receipt, workerVars, history
<1>2. Elements /\ t.q \in Msgs
  BY ElementsOf DEF IInv, Elements, Drivers, Msgs, NoQ
<1>3. CASE UNCHANGED <<cpc, cq, cmsg, list>>
  <2>1. Fresh' /\ Enqueuing' /\ Table'
    BY <1>1, <1>3 DEF IInv, Fresh, Bound, Enqueuing, Table
  <2>2. Drivers' /\ Single'
    BY <1>1, <1>3 DEF IInv, Drivers, InTable, Single
  <2>3. Order' /\ Origin'
    BY <1>1, <1>3 DEF IInv, Order, Origin
  <2> QED BY <2>1, <2>2, <2>3
<1>4. CASE ~depr[t.q] /\ cpc' = "rm" /\ cq' = t.q /\ UNCHANGED <<cmsg, list>>
  <2>1. Fresh' /\ Enqueuing' /\ Table'
    BY <1>1, <1>4 DEF IInv, Fresh, Bound, Enqueuing, Table
  <2>2. Drivers' /\ Single'
    BY <1>1, <1>2, <1>4 DEF IInv, Drivers, InTable, Single, Msgs, NoQ
  <2>3. Order' /\ Origin'
    BY <1>1, <1>4 DEF IInv, Order, Origin
  <2> QED BY <2>1, <2>2, <2>3
<1>5. CASE /\ ~depr[t.q] /\ list[t.q] # <<>> /\ cpc' = "send" /\ cq' = t.q
           /\ cmsg' = Head(list[t.q]) /\ list' = msgq_pop_head(t.q)
  <2>1. list[t.q] \in Seq(Msgs)
    BY <1>2 DEF IInv, TypeOK
  <2>2. cmsg' \in Range(list[t.q]) /\ Range(Tail(list[t.q])) \subseteq Range(list[t.q])
    BY <1>5, <2>1, TailIs
  <2>3. \A q \in Msgs : list'[q] = IF q = t.q THEN Tail(list[t.q]) ELSE list[q]
    BY <1>2, <1>5 DEF IInv, TypeOK, msgq_pop_head
  <2>4. \A q \in Msgs : Range(list'[q]) \subseteq Range(list[q])
    BY <2>2, <2>3
  <2>5. Fresh'
    BY <1>1, <1>2, <1>5, <2>2, <2>4 DEF IInv, Fresh, Bound
  <2>6. Enqueuing' /\ Table'
    <3>1. wpc = "put" => list'[wq] = <<>>
      BY <1>2, <1>5, <2>3 DEF IInv, Enqueuing, Fresh, TypeOK, Msgs
    <3> QED BY <1>1, <3>1 DEF IInv, Enqueuing, Table
  <2>7. Drivers' /\ Single'
    BY <1>1, <1>2, <1>5 DEF IInv, Drivers, InTable, Single, Msgs, NoQ
  <2>8. Origin'
    BY <1>1, <1>2, <1>5, <2>2, <2>4 DEF IInv, Origin
  <2>9. Order'
    <3>1. msgqs[peer[t.q]] = t.q /\ peer[t.q] \in Peers /\ t.q # NoQ
      BY <1>2, <1>5 DEF IInv, Drivers, InTable, Elements
    <3>2. Increasing(list[t.q])
      BY <3>1 DEF IInv, Order
    <3>3. Increasing(Tail(list[t.q])) /\ \A m \in Range(Tail(list[t.q])) : cmsg' < m
      BY <1>5, <2>1, <3>2, TailIncreasing
    <3>4. /\ \A m \in Range(sent[peer[t.q]]) : m < cmsg'
          /\ \A i \in DOMAIN tasks :
                tasks[i].q # NoQ /\ peer[tasks[i].q] = peer[t.q] => tasks[i].msg < cmsg'
      BY <2>2, <3>1 DEF IInv, Order
    <3>5. \A x \in Peers : msgqs[x] # NoQ =>
             Increasing(list'[msgqs[x]]) /\ Range(list'[msgqs[x]]) \subseteq Range(list[msgqs[x]])
      BY <1>2, <2>3, <2>4, <3>3 DEF IInv, Order, Elements, Msgs, NoQ
    <3>6. \A m \in Range(list'[t.q]) : cmsg' < m
      BY <1>2, <2>3, <3>3
    <3> QED BY <1>1, <1>5, <3>4, <3>5, <3>6 DEF IInv, Order
  <2> QED BY <2>5, <2>6, <2>7, <2>8, <2>9
<1> QED BY <1>3, <1>4, <1>5 DEF Receipt, Deprecated, carrierVars

\* The callback removes its own queue, and no message of it is on its way.
LEMMA ReceiptRmStep ==
    ASSUME IInv, ReceiptRm
    PROVE  (Fresh /\ Enqueuing /\ Table /\ Drivers /\ Single /\ Order /\ Origin)'
<1>1. /\ UNCHANGED <<tasks, wpc, wto, wq, cq, cmsg, peer, list, depr, unacked, nmsg, accepted, sent>>
      /\ cpc = "rm" /\ cpc' = "idle"
  BY DEF ReceiptRm, workerVars, history
<1>2. Elements
  BY ElementsOf DEF IInv
<1>3. cq \in Msgs /\ peer[cq] \in Peers /\ msgqs[peer[cq]] = cq
  BY <1>1, <1>2 DEF IInv, Drivers, InTable, Elements, Msgs, NoQ
<1>4. \A x \in Peers : msgqs'[x] = IF x = peer[cq] THEN 0 ELSE msgqs[x]
  BY <1>3 DEF IInv, TypeOK, ReceiptRm, msgq_rm, NoQ
<1>5. Fresh' /\ Table'
  BY <1>1, <1>2, <1>4 DEF IInv, Fresh, Bound, Table, Elements, NoQ
<1>6. Enqueuing'
  BY <1>1, <1>2, <1>4 DEF IInv, Enqueuing, Elements, NoQ
<1>7. Drivers'
  <2>1. ASSUME NEW q \in Msgs, InTable(q), q # cq PROVE msgqs'[peer[q]] = q
    BY <1>2, <1>3, <1>4, <2>1 DEF InTable, Elements
  <2> QED BY <1>1, <1>2, <2>1 DEF IInv, Drivers, Single, InTable, Elements, Msgs, NoQ
<1>8. Single' /\ Origin'
  BY <1>1 DEF IInv, Single, Origin
<1>9. Order'
  BY <1>1, <1>4 DEF IInv, Order, NoQ
<1> QED BY <1>5, <1>6, <1>7, <1>8, <1>9

\* The message the callback popped is posted, behind everything of its peer
\* that was posted or sent before.
LEMMA ReceiptSendStep ==
    ASSUME IInv, ReceiptSend
    PROVE  (Fresh /\ Enqueuing /\ Table /\ Drivers /\ Single /\ Order /\ Origin)'
<1>1. /\ UNCHANGED <<wpc, wto, wq, cq, cmsg, msgqs, peer, list, depr, unacked, nmsg, accepted, sent>>
      /\ cpc = "send" /\ cpc' = "idle"
  BY DEF ReceiptSend, workerVars, queueVars, history
<1>2. Elements /\ cq \in Msgs /\ InTable(cq)
  BY <1>1, ElementsOf DEF IInv, Drivers, Elements, Msgs, NoQ
<1>3. PICK n \in Nat :
        /\ n \notin DOMAIN tasks
        /\ DOMAIN tasks' = DOMAIN tasks \cup {n}
        /\ tasks'[n].q = cq /\ tasks'[n].msg = cmsg
        /\ \A i \in DOMAIN tasks : i < n /\ tasks'[i] = tasks[i]
  <2>1. [q |-> cq, msg |-> cmsg] \in Task
    BY DEF IInv, TypeOK, Task
  <2> QED BY <2>1, Posting DEF IInv, ReceiptSend, Posts
<1>4. Fresh'
  BY <1>1, <1>2, <1>3 DEF IInv, Fresh, Bound, Elements
<1>5. Enqueuing' /\ Table'
  BY <1>1 DEF IInv, Enqueuing, Table
<1>6. Drivers'
  BY <1>1, <1>2, <1>3 DEF IInv, Drivers, InTable, Elements, NoQ
<1>7. Single'
  BY <1>1, <1>2, <1>3 DEF IInv, Single, Drivers, Elements, NoQ
<1>8. Order'
  <2>1. \A x \in Peers : msgqs[x] # NoQ /\ peer[cq] = x =>
            \A m \in Range(list[msgqs[x]]) : cmsg < m
    BY <1>1, <1>2 DEF IInv, Order, InTable
  <2>2. \A i, j \in DOMAIN tasks' :
            /\ i < j /\ tasks'[i].q # NoQ /\ tasks'[j].q # NoQ
            /\ peer[tasks'[i].q] = peer[tasks'[j].q]
            => tasks'[i].msg < tasks'[j].msg
    BY <1>1, <1>2, <1>3 DEF IInv, Order, Elements
  <2>3. \A i \in DOMAIN tasks' : tasks'[i].q # NoQ =>
            \A m \in Range(sent[peer[tasks'[i].q]]) : m < tasks'[i].msg
    BY <1>1, <1>3 DEF IInv, Order
  <2>4. \A x \in Peers : msgqs[x] # NoQ =>
            \A m \in Range(list[msgqs[x]]) : \A i \in DOMAIN tasks' :
                tasks'[i].q # NoQ /\ peer[tasks'[i].q] = x => tasks'[i].msg < m
    BY <1>3, <2>1 DEF IInv, Order
  <2> QED BY <1>1, <2>2, <2>3, <2>4 DEF IInv, Order
<1>9. Origin'
  BY <1>1, <1>3 DEF IInv, Origin
<1> QED BY <1>4, <1>5, <1>6, <1>7, <1>8, <1>9

\* The worker starts a request.
LEMMA StartRequestStep ==
    ASSUME IInv, StartRequest
    PROVE  (Fresh /\ Enqueuing /\ Table /\ Drivers /\ Single /\ Order /\ Origin)'
<1>1. /\ UNCHANGED <<wto, wq, cpc, cq, cmsg, msgqs, peer, list, depr, unacked, nmsg, accepted, sent>>
      /\ wpc = "idle" /\ wpc' = "handler"
  BY DEF StartRequest, carrierVars, queueVars, history
<1>2. Elements /\ Takes
  BY ElementsOf, Taking DEF IInv, StartRequest
<1>3. Fresh'
  BY <1>1, <1>2 DEF IInv, Fresh, Bound, Takes
<1>4. Enqueuing' /\ Table'
  BY <1>1 DEF IInv, Enqueuing, Table
<1>5. Drivers'
  BY <1>1, <1>2 DEF IInv, Drivers, InTable, Takes
<1>6. Single'
  BY <1>1, <1>2 DEF IInv, Single, Takes
<1>7. Order'
  BY <1>1, <1>2 DEF IInv, Order, Takes
<1>8. Origin'
  BY <1>1, <1>2 DEF IInv, Origin, Takes
<1> QED BY <1>3, <1>4, <1>5, <1>6, <1>7, <1>8

\* The worker ends a request.
LEMMA EndRequestStep ==
    ASSUME IInv, EndRequest
    PROVE  (Fresh /\ Enqueuing /\ Table /\ Drivers /\ Single /\ Order /\ Origin)'
<1>1. /\ UNCHANGED <<tasks, wto, wq, cpc, cq, cmsg, msgqs, peer, list, depr, unacked, nmsg, accepted, sent>>
      /\ wpc = "handler" /\ wpc' = "idle"
  BY DEF EndRequest, carrierVars, queueVars, history
<1>2. Fresh' /\ Enqueuing' /\ Table'
  BY <1>1 DEF IInv, Fresh, Bound, Enqueuing, Table
<1>3. Drivers' /\ Single'
  BY <1>1 DEF IInv, Drivers, InTable, Single
<1>4. Order' /\ Origin'
  BY <1>1 DEF IInv, Order, Origin
<1> QED BY <1>2, <1>3, <1>4

\* The worker sends the first posted message, which follows all that was
\* sent to its peer and precedes all that is posted, held or waiting for it.
LEMMA SendTaskStep ==
    ASSUME IInv, SendTask
    PROVE  (Fresh /\ Enqueuing /\ Table /\ Drivers /\ Single /\ Order /\ Origin)'
<1> DEFINE t == tasks[1]
<1>1. /\ UNCHANGED <<wpc, wto, wq, cpc, cq, cmsg, msgqs, peer, list, depr, nmsg, accepted>>
      /\ wpc = "idle"
  BY DEF SendTask, workerVars, carrierVars, queueVars
<1>2. Elements /\ Takes
  BY ElementsOf, Taking DEF IInv, SendTask
<1>3. t.q \in Msgs /\ t.msg \in Msgs /\ 1 \in DOMAIN tasks /\ peer[t.q] \in Peers
  <2>1. t.q \in Msgs /\ 1 \in DOMAIN tasks /\ peer[t.q] \in Peers
    BY <1>2 DEF SendTask, Takes, Elements, Msgs, NoQ
  <2>2. t.msg \in accepted[peer[t.q]]
    BY <2>1 DEF IInv, Origin, Msgs, NoQ
  <2> QED BY <2>1, <2>2 DEF IInv, TypeOK
<1>4. \/ unacked' = unacked \cup {t} /\ sent' = [sent EXCEPT ![peer[t.q]] = Append(@, t.msg)]
      \/ UNCHANGED <<unacked, sent>>
  BY <1>2 DEF SendTask, Takes
<1>5. \A u \in unacked' : u \in unacked \/ u = t
  BY <1>4
<1>6. \A x \in Peers : /\ Increasing(sent'[x])
                       /\ \A m \in Range(sent'[x]) :
                             m \in Range(sent[x]) \/ (x = peer[t.q] /\ m = t.msg)
  <2>1. CASE UNCHANGED sent
    BY <2>1 DEF IInv, Order
  <2>2. CASE sent' = [sent EXCEPT ![peer[t.q]] = Append(@, t.msg)]
    <3>1. \A x \in Peers : sent'[x] = IF x = peer[t.q] THEN Append(sent[x], t.msg) ELSE sent[x]
      BY <2>2 DEF IInv, TypeOK
    <3>2. sent[peer[t.q]] \in Seq(Msgs)
      BY <1>3 DEF IInv, TypeOK
    <3>3. Increasing(sent[peer[t.q]]) /\ \A m \in Range(sent[peer[t.q]]) : m < t.msg
      BY <1>3 DEF IInv, Order, Msgs, NoQ
    <3>4. /\ Increasing(Append(sent[peer[t.q]], t.msg))
          /\ Range(Append(sent[peer[t.q]], t.msg)) = Range(sent[peer[t.q]]) \cup {t.msg}
      BY <1>3, <3>2, <3>3, AppendIncreasing, AppendIs
    <3> QED BY <3>1, <3>4 DEF IInv, Order
  <2> QED BY <1>4, <2>1, <2>2
<1>7. Fresh'
  BY <1>1, <1>2, <1>3, <1>5, <1>6 DEF IInv, Fresh, Bound, Takes
<1>8. Enqueuing' /\ Table'
  BY <1>1 DEF IInv, Enqueuing, Table
<1>9. Drivers'
  BY <1>1, <1>2, <1>3, <1>5 DEF IInv, Drivers, InTable, Takes, Msgs, NoQ
<1>10. Single'
  BY <1>1, <1>2, <1>3, <1>5 DEF IInv, Single, Takes, Msgs, NoQ, Drivers
<1>11. Order'
  <2>1. \A i \in DOMAIN tasks' : tasks'[i].q # NoQ /\ peer[tasks'[i].q] = peer[t.q] =>
             t.msg < tasks'[i].msg
    BY <1>2, <1>3 DEF IInv, Order, Takes, Msgs, NoQ
  <2>2. cpc = "send" /\ peer[t.q] = peer[cq] => t.msg < cmsg
    BY <1>3 DEF IInv, Order, Msgs, NoQ
  <2>3. \A x \in Peers : msgqs[x] # NoQ /\ peer[t.q] = x =>
             \A m \in Range(list[msgqs[x]]) : t.msg < m
    BY <1>3 DEF IInv, Order, Msgs, NoQ
  <2>4. \A i \in DOMAIN tasks' : tasks'[i].q # NoQ => peer[tasks'[i].q] \in Peers
    BY <1>2 DEF Takes, Elements, Msgs, NoQ
  <2>5. cpc = "send" => peer[cq] \in Peers
    BY <1>2 DEF IInv, Drivers, Elements, Msgs, NoQ
  <2>6. \A i, j \in DOMAIN tasks' :
            /\ i < j /\ tasks'[i].q # NoQ /\ tasks'[j].q # NoQ
            /\ peer[tasks'[i].q] = peer[tasks'[j].q]
            => tasks'[i].msg < tasks'[j].msg
    BY <1>2 DEF IInv, Order, Takes
  <2>7. \A i \in DOMAIN tasks' : tasks'[i].q # NoQ =>
            \A m \in Range(sent'[peer[tasks'[i].q]]) : m < tasks'[i].msg
    BY <1>2, <1>6, <2>1, <2>4 DEF IInv, Order, Takes
  <2>8. cpc = "send" =>
            /\ \A m \in Range(sent'[peer[cq]]) : m < cmsg
            /\ \A i \in DOMAIN tasks' :
                  tasks'[i].q # NoQ /\ peer[tasks'[i].q] = peer[cq] => tasks'[i].msg < cmsg
            /\ \A m \in Range(list[cq]) : cmsg < m
    BY <1>2, <1>6, <2>2, <2>5 DEF IInv, Order, Takes
  <2>9. \A x \in Peers : msgqs[x] # NoQ =>
            /\ Increasing(list[msgqs[x]])
            /\ \A m \in Range(list[msgqs[x]]) :
                  /\ \A k \in Range(sent'[x]) : k < m
                  /\ \A i \in DOMAIN tasks' :
                        tasks'[i].q # NoQ /\ peer[tasks'[i].q] = x => tasks'[i].msg < m
    <3> SUFFICES ASSUME NEW x \in Peers, msgqs[x] # NoQ, NEW m \in Range(list[msgqs[x]])
                 PROVE  /\ \A k \in Range(sent'[x]) : k < m
                        /\ \A i \in DOMAIN tasks' :
                              tasks'[i].q # NoQ /\ peer[tasks'[i].q] = x => tasks'[i].msg < m
      BY DEF IInv, Order
    <3>1. \A k \in Range(sent'[x]) : k < m
      BY <1>6, <2>3 DEF IInv, Order
    <3>2. \A i \in DOMAIN tasks' :
             tasks'[i].q # NoQ /\ peer[tasks'[i].q] = x => tasks'[i].msg < m
      BY <1>2 DEF IInv, Order, Takes
    <3> QED BY <3>1, <3>2
  <2> QED BY <1>1, <1>6, <2>6, <2>7, <2>8, <2>9 DEF Order
<1>12. Origin'
  BY <1>1, <1>2 DEF IInv, Origin, Takes
<1> QED BY <1>7, <1>8, <1>9, <1>10, <1>11, <1>12

\* msgq_enq takes the next number, and finds the peer's queue or none.
LEMMA EnqGetStep ==
    ASSUME IInv, NEW p \in Peers, EnqGet(p)
    PROVE  (Fresh /\ Enqueuing /\ Table /\ Drivers /\ Single /\ Order /\ Origin)'
<1>1. /\ UNCHANGED <<tasks, cpc, cq, cmsg, msgqs, peer, list, depr, unacked, sent>>
      /\ wpc = "handler" /\ nmsg' = nmsg + 1 /\ wto' = p /\ wq' = msgqs[p]
      /\ wpc' = IF msgqs[p] # 0 THEN "push" ELSE "create"
  BY DEF EnqGet, carrierVars, queueVars, Busy, NoQ
<1>2. Elements
  BY ElementsOf DEF IInv
<1>3. /\ nmsg + 1 \in accepted'[p]
      /\ \A x \in Peers : accepted[x] \subseteq accepted'[x]
      /\ \A x \in Peers : \A m \in accepted'[x] : m \in accepted[x] \/ m = nmsg + 1
  BY DEF IInv, TypeOK, EnqGet
<1>4. Fresh'
  <2>1. Bound' = nmsg /\ Bound = nmsg
    BY <1>1, <1>2 DEF Bound, Elements
  <2>2. \A x \in Peers : \A m \in accepted'[x] : m =< nmsg + 1
    BY <1>2, <1>3 DEF IInv, Fresh, Elements
  <2> QED BY <1>1, <1>2, <2>1, <2>2 DEF IInv, Fresh, Elements
<1>5. Enqueuing' /\ Table'
  BY <1>1, <1>2, <1>3 DEF IInv, Enqueuing, Table, Elements, Msgs, NoQ
<1>6. Drivers' /\ Single'
  BY <1>1 DEF IInv, Drivers, Single, InTable
<1>7. Order'
  BY <1>1 DEF IInv, Order
<1>8. Origin'
  <2>1. /\ \A q \in Msgs : accepted[peer[q]] \subseteq accepted'[peer[q]]
        /\ \A i \in DOMAIN tasks : tasks[i].q # NoQ => tasks[i].q \in Msgs
        /\ cpc = "send" => cq \in Msgs
    BY <1>2, <1>3 DEF IInv, Drivers, Elements, Msgs, NoQ
  <2> QED BY <1>1, <2>1 DEF IInv, Origin
<1> QED BY <1>4, <1>5, <1>6, <1>7, <1>8

\* Until msgq_enq has pushed it or created a queue for it, the latest message
\* has a larger number than everything else.
LEMMA Latest ==
    ASSUME IInv, wpc \in {"push", "create"}
    PROVE  /\ \A i \in DOMAIN tasks : tasks[i].q < nmsg /\ tasks[i].msg < nmsg
           /\ \A t \in unacked : t.q < nmsg
           /\ cq < nmsg /\ cmsg < nmsg
           /\ \A x \in Peers : msgqs[x] < nmsg
           /\ \A q \in Msgs : \A m \in Range(list[q]) : m < nmsg
           /\ \A x \in Peers : \A m \in Range(sent[x]) : m < nmsg
<1>1. Elements
  BY ElementsOf DEF IInv
<1>2. \A k \in Nat : k =< Bound => k < nmsg
  BY <1>1 DEF Bound, Elements
<1>3. /\ \A i \in DOMAIN tasks : tasks[i].q < nmsg /\ tasks[i].msg < nmsg
      /\ \A t \in unacked : t.q < nmsg
      /\ cq < nmsg /\ cmsg < nmsg
      /\ \A x \in Peers : msgqs[x] < nmsg
  BY <1>1, <1>2 DEF IInv, Fresh, Elements
<1>4. \A q \in Msgs : \A m \in Range(list[q]) : m < nmsg
  BY <1>1, <1>2 DEF IInv, Fresh, Elements
<1>5. \A x \in Peers : \A m \in Range(sent[x]) : m < nmsg
  BY <1>1, <1>2 DEF IInv, Fresh, Elements
<1> QED BY <1>3, <1>4, <1>5

\* msgq_enq pushes the latest message behind every earlier one.
LEMMA EnqPushStep ==
    ASSUME IInv, EnqPush
    PROVE  (Fresh /\ Enqueuing /\ Table /\ Drivers /\ Single /\ Order /\ Origin)'
<1>1. /\ UNCHANGED <<tasks, wto, wq, cpc, cq, cmsg, msgqs, peer, depr, unacked, nmsg, accepted, sent>>
      /\ wpc = "push" /\ wpc' = "handler"
  BY DEF EnqPush, carrierVars
<1>2. Elements /\ nmsg \in Msgs /\ wq \in Msgs /\ peer[wq] = wto /\ nmsg \in accepted[wto]
  BY <1>1, ElementsOf, MsgQAssumption DEF IInv, TypeOK, Fresh, Enqueuing, Msgs
<1>3. /\ \A x \in Peers : \A m \in Range(sent[x]) : m < nmsg
      /\ \A i \in DOMAIN tasks : tasks[i].q < nmsg /\ tasks[i].msg < nmsg
      /\ \A q \in Msgs : \A m \in Range(list[q]) : m < nmsg
      /\ \A t \in unacked : t.q < nmsg
      /\ \A x \in Peers : msgqs[x] < nmsg
      /\ cq < nmsg /\ cmsg < nmsg
  BY <1>1, Latest
<1>4. \A q \in Msgs : list'[q] = IF q = wq THEN Append(list[wq], nmsg) ELSE list[q]
  BY <1>2 DEF EnqPush, msgq_push_tail, IInv, TypeOK
<1>5. list[wq] \in Seq(Msgs)
  BY <1>2 DEF IInv, TypeOK
<1>6. \A q \in Msgs : \A m \in Range(list'[q]) :
          m \in Range(list[q]) \/ (q = wq /\ m = nmsg)
  <2>1. Range(Append(list[wq], nmsg)) = Range(list[wq]) \cup {nmsg}
    BY <1>2, <1>5, AppendIs
  <2> QED BY <1>4, <2>1
<1>7. Fresh'
  <2>1. Bound' = nmsg /\ \A q \in Msgs : q > nmsg => ~depr[q]
    BY <1>1, <1>2 DEF IInv, Fresh, Bound, Msgs
  <2>2. \A q \in Msgs : \A m \in Range(list'[q]) : m =< nmsg
    <3> SUFFICES ASSUME NEW q \in Msgs, NEW m \in Range(list'[q]) PROVE m =< nmsg
      OBVIOUS
    <3>1. m \in Range(list[q]) \/ m = nmsg
      BY <1>6
    <3>2. (m \in Range(list[q]) => m \in Nat /\ m < nmsg) /\ nmsg \in Nat
      BY <1>2, <1>3 DEF Elements
    <3> QED BY <3>1, <3>2
  <2>3. \A x \in Peers : \A m \in Range(sent[x]) : m =< nmsg
    BY <1>2, <1>3 DEF Elements
  <2> QED BY <1>1, <1>2, <1>3, <2>1, <2>2, <2>3 DEF IInv, Fresh, Elements
<1>8. Enqueuing' /\ Table'
  BY <1>1 DEF IInv, Enqueuing, Table
<1>9. Drivers' /\ Single'
  BY <1>1 DEF IInv, Drivers, Single, InTable
<1>10. Origin'
  BY <1>1, <1>2, <1>6 DEF IInv, Origin
<1>11. Order'
  <2>2. \A x \in Peers : msgqs[x] # NoQ => Increasing(list'[msgqs[x]])
    <3> SUFFICES ASSUME NEW x \in Peers, msgqs[x] # NoQ PROVE Increasing(list'[msgqs[x]])
      OBVIOUS
    <3>1. Increasing(list[msgqs[x]]) /\ msgqs[x] \in Msgs
      BY <1>2 DEF IInv, Order, Elements, Msgs, NoQ
    <3>2. CASE msgqs[x] = wq
      <4>1. Increasing(Append(list[wq], nmsg))
        BY <1>2, <1>3, <1>5, <3>1, <3>2, AppendIncreasing
      <4> QED BY <1>2, <1>4, <3>2, <4>1
    <3>3. CASE msgqs[x] # wq
      BY <1>4, <3>1, <3>3
    <3> QED BY <3>2, <3>3
  <2>3. cpc = "send" => \A m \in Range(list'[cq]) : cmsg < m
    BY <1>2, <1>3, <1>6 DEF IInv, Order, Drivers, Elements, Msgs, NoQ
  <2>4. \A x \in Peers : msgqs[x] # NoQ => \A m \in Range(list'[msgqs[x]]) :
            /\ \A k \in Range(sent[x]) : k < m
            /\ \A i \in DOMAIN tasks :
                  tasks[i].q # NoQ /\ peer[tasks[i].q] = x => tasks[i].msg < m
    <3> SUFFICES ASSUME NEW x \in Peers, msgqs[x] # NoQ, NEW m \in Range(list'[msgqs[x]])
                 PROVE  /\ \A k \in Range(sent[x]) : k < m
                        /\ \A i \in DOMAIN tasks :
                              tasks[i].q # NoQ /\ peer[tasks[i].q] = x => tasks[i].msg < m
      OBVIOUS
    <3>1. m \in Range(list[msgqs[x]]) \/ m = nmsg
      BY <1>2, <1>6 DEF Elements, Msgs, NoQ
    <3> QED BY <1>3, <3>1 DEF IInv, Order
  <2> QED BY <1>1, <2>2, <2>3, <2>4 DEF IInv, Order
<1> QED BY <1>7, <1>8, <1>9, <1>10, <1>11

\* msgq_enq creates a queue under a number not used yet, for a peer that has
\* none in the table, and posts the latest message.
LEMMA EnqCreateStep ==
    ASSUME IInv, EnqCreate
    PROVE  (Fresh /\ Enqueuing /\ Table /\ Drivers /\ Single /\ Order /\ Origin)'
<1>1. /\ UNCHANGED <<wto, cpc, cq, cmsg, msgqs, unacked, nmsg, accepted, sent>>
      /\ wpc = "create" /\ wpc' = "put" /\ wq' = nmsg
  BY DEF EnqCreate, carrierVars, history
<1>2. /\ Elements /\ nmsg \in Msgs /\ wto \in Peers
      /\ nmsg \in accepted[wto] /\ msgqs[wto] = 0
  BY <1>1, ElementsOf, MsgQAssumption DEF IInv, TypeOK, Fresh, Enqueuing, Msgs, NoQ
<1>3. Bound' = nmsg /\ \A q \in Msgs : q > nmsg => ~depr[q]
  BY <1>1, <1>2 DEF IInv, Fresh, Bound, Msgs
<1>4. /\ \A i \in DOMAIN tasks : tasks[i].q < nmsg /\ tasks[i].msg < nmsg
      /\ \A t \in unacked : t.q < nmsg
      /\ cq < nmsg /\ cmsg < nmsg
      /\ \A x \in Peers : msgqs[x] < nmsg
      /\ \A q \in Msgs : \A m \in Range(list[q]) : m < nmsg
      /\ \A x \in Peers : \A m \in Range(sent[x]) : m < nmsg
  BY <1>1, Latest
<1>5. PICK n \in Nat :
        /\ n \notin DOMAIN tasks
        /\ DOMAIN tasks' = DOMAIN tasks \cup {n}
        /\ tasks'[n].q = nmsg /\ tasks'[n].msg = nmsg
        /\ \A i \in DOMAIN tasks : i < n /\ tasks'[i] = tasks[i]
  <2>1. [q |-> nmsg, msg |-> nmsg] \in Task
    BY DEF IInv, TypeOK, Task
  <2> QED BY <2>1, Posting DEF IInv, EnqCreate, Posts
<1>6. peer'[nmsg] = wto /\ \A q \in Msgs : q # nmsg => peer'[q] = peer[q]
  BY <1>2 DEF EnqCreate, IInv, TypeOK
<1>7. list'[nmsg] = <<>> /\ \A q \in Msgs : q # nmsg => list'[q] = list[q]
  BY <1>2 DEF EnqCreate, IInv, TypeOK
<1>8. ~depr'[nmsg] /\ \A q \in Msgs : q # nmsg => depr'[q] = depr[q]
  <2>1. depr \in [Msgs -> BOOLEAN] /\ depr' = [depr EXCEPT ![nmsg] = FALSE]
    BY DEF EnqCreate, IInv, TypeOK
  <2> QED BY <1>2, <2>1, Zenon
<1>9. \A q \in Msgs : \A m \in Range(list'[q]) : q # nmsg /\ m \in Range(list[q])
  <2>1. Range(<<>>) = {}
    BY DEF Range
  <2> QED BY <1>7, <2>1
<1>10. Fresh'
  <2>1. \A q \in Msgs : q > nmsg => ~depr'[q]
    BY <1>2, <1>3, <1>8 DEF Msgs
  <2>2. \A q \in Msgs : \A m \in Range(list'[q]) : m =< nmsg
    <3> SUFFICES ASSUME NEW q \in Msgs, NEW m \in Range(list'[q]) PROVE m =< nmsg
      OBVIOUS
    <3>1. m \in Range(list[q])
      BY <1>9
    <3>2. m \in Nat /\ m < nmsg /\ nmsg \in Nat
      BY <1>2, <1>4, <3>1 DEF Elements
    <3> QED BY <3>2
  <2>3. \A x \in Peers : \A m \in Range(sent[x]) : m =< nmsg
    BY <1>2, <1>4 DEF Elements
  <2>4. \A i \in DOMAIN tasks' : tasks'[i].q =< nmsg /\ tasks'[i].msg =< nmsg
    BY <1>2, <1>4, <1>5 DEF Elements
  <2>5. nmsg > 0 /\ cq =< nmsg /\ cmsg =< nmsg
    BY <1>2, <1>4 DEF Elements, Msgs
  <2>6. (\A t \in unacked : t.q =< nmsg) /\ \A x \in Peers : msgqs[x] =< nmsg
    BY <1>2, <1>4 DEF Elements
  <2> QED BY <1>1, <1>3, <2>1, <2>2, <2>3, <2>4, <2>5, <2>6 DEF IInv, Fresh
<1>11. Enqueuing'
  BY <1>1, <1>2, <1>6, <1>7, <1>8 DEF Enqueuing, NoQ
<1>12. Table'
  BY <1>1, <1>2, <1>4, <1>6, <1>8 DEF IInv, Table, Elements, Msgs, NoQ
<1>13. Drivers'
  <2>1. \A q \in Msgs : q # nmsg /\ (depr[q] \/ InTable(q)) => depr'[q] \/ msgqs[peer'[q]] = q
    BY <1>6, <1>8 DEF InTable
  <2> QED BY <1>1, <1>2, <1>4, <1>5, <1>6, <1>8, <2>1 DEF IInv, Drivers, InTable, Elements, Msgs, NoQ
<1>14. Single'
  BY <1>1, <1>2, <1>4, <1>5 DEF IInv, Single, Elements, Msgs, NoQ
<1>15. Origin'
  <2>1. \A i \in DOMAIN tasks' : tasks'[i].q # NoQ =>
            tasks'[i].msg \in accepted[peer'[tasks'[i].q]]
    BY <1>2, <1>4, <1>5, <1>6 DEF IInv, Origin, Elements, Msgs, NoQ
  <2>2. cpc = "send" => cmsg \in accepted[peer'[cq]]
    BY <1>2, <1>4, <1>6 DEF IInv, Origin, Drivers, Elements, Msgs, NoQ
  <2>3. \A q \in Msgs : \A m \in Range(list'[q]) : m \in accepted[peer'[q]]
    BY <1>6, <1>9 DEF IInv, Origin
  <2> QED BY <1>1, <2>1, <2>2, <2>3 DEF Origin
<1>16. Order'
  <2>1. \A i \in DOMAIN tasks : tasks[i].q # NoQ =>
            tasks'[i] = tasks[i] /\ peer'[tasks[i].q] = peer[tasks[i].q]
    BY <1>2, <1>4, <1>5, <1>6 DEF Elements, Msgs, NoQ
  <2>2. \A i, j \in DOMAIN tasks' :
            /\ i < j /\ tasks'[i].q # NoQ /\ tasks'[j].q # NoQ
            /\ peer'[tasks'[i].q] = peer'[tasks'[j].q]
            => tasks'[i].msg < tasks'[j].msg
    BY <1>2, <1>4, <1>5, <2>1 DEF IInv, Order, Elements
  <2>3. \A i \in DOMAIN tasks' : tasks'[i].q # NoQ =>
            \A m \in Range(sent[peer'[tasks'[i].q]]) : m < tasks'[i].msg
    BY <1>2, <1>4, <1>5, <1>6, <2>1 DEF IInv, Order
  <2>4. cpc = "send" =>
            /\ cq \in Msgs /\ cq # nmsg /\ peer'[cq] = peer[cq] /\ peer[cq] # wto
            /\ list'[cq] = list[cq]
    BY <1>2, <1>4, <1>6, <1>7 DEF IInv, Drivers, InTable, Elements, Msgs, NoQ
  <2>5. cpc = "send" =>
            /\ \A m \in Range(sent[peer'[cq]]) : m < cmsg
            /\ \A i \in DOMAIN tasks' :
                  tasks'[i].q # NoQ /\ peer'[tasks'[i].q] = peer'[cq] => tasks'[i].msg < cmsg
            /\ \A m \in Range(list'[cq]) : cmsg < m
    BY <1>5, <1>6, <2>1, <2>4 DEF IInv, Order
  <2>6. \A x \in Peers : msgqs[x] # NoQ => x # wto /\ list'[msgqs[x]] = list[msgqs[x]]
    BY <1>2, <1>4, <1>7 DEF Elements, Msgs, NoQ
  <2>7. \A x \in Peers : x # wto => \A i \in DOMAIN tasks' :
            tasks'[i].q # NoQ /\ peer'[tasks'[i].q] = x =>
                i \in DOMAIN tasks /\ tasks'[i] = tasks[i] /\ peer[tasks[i].q] = x
    BY <1>5, <1>6, <2>1
  <2>8. \A x \in Peers : msgqs[x] # NoQ =>
            /\ Increasing(list'[msgqs[x]])
            /\ \A m \in Range(list'[msgqs[x]]) :
                  /\ \A k \in Range(sent[x]) : k < m
                  /\ \A i \in DOMAIN tasks' :
                        tasks'[i].q # NoQ /\ peer'[tasks'[i].q] = x => tasks'[i].msg < m
    BY <2>6, <2>7 DEF IInv, Order
  <2> QED BY <1>1, <2>2, <2>3, <2>5, <2>8 DEF IInv, Order
<1> QED BY <1>10, <1>11, <1>12, <1>13, <1>14, <1>15, <1>16

\* msgq_enq puts the new, empty queue in the table.
LEMMA EnqPutStep ==
    ASSUME IInv, EnqPut
    PROVE  (Fresh /\ Enqueuing /\ Table /\ Drivers /\ Single /\ Order /\ Origin)'
<1>1. /\ UNCHANGED <<tasks, wto, wq, cpc, cq, cmsg, peer, list, depr, unacked, nmsg, accepted, sent>>
      /\ wpc = "put" /\ wpc' = "handler"
  BY DEF EnqPut, carrierVars, history
<1>2. /\ Elements /\ nmsg \in Msgs /\ wq = nmsg /\ wto \in Peers /\ peer[wq] = wto
      /\ msgqs[wto] = 0 /\ list[wq] = <<>> /\ ~depr[wq]
  <2>1. Elements
    BY ElementsOf DEF IInv
  <2>2. nmsg \in Msgs
    BY <1>1, MsgQAssumption DEF IInv, TypeOK, Fresh, Msgs
  <2> QED BY <1>1, <2>1, <2>2 DEF IInv, Enqueuing, Elements, NoQ
<1>3. msgqs'[wto] = wq /\ \A x \in Peers : x # wto => msgqs'[x] = msgqs[x]
  BY <1>2 DEF EnqPut, msgq_put, IInv, TypeOK
<1>4. Fresh'
  BY <1>1, <1>2, <1>3 DEF IInv, Fresh, Bound, Elements
<1>5. Enqueuing'
  BY <1>1 DEF Enqueuing
<1>6. Table'
  BY <1>1, <1>2, <1>3 DEF IInv, Table
<1>7. Drivers'
  <2>1. \A q \in Msgs : InTable(q) => msgqs'[peer[q]] = q
    BY <1>2, <1>3 DEF InTable, Elements, Msgs
  <2> QED BY <1>1, <1>2, <1>3, <2>1 DEF IInv, Drivers, InTable, Elements, Msgs, NoQ
<1>8. Single' /\ Origin'
  BY <1>1 DEF IInv, Single, Origin
<1>9. Order'
  <2>1. Range(<<>>) = {} /\ Increasing(<<>>)
    BY DEF Range, Increasing
  <2>2. \A x \in Peers : msgqs'[x] # NoQ => list[msgqs'[x]] = <<>> \/ msgqs'[x] = msgqs[x]
    BY <1>2, <1>3
  <2> QED BY <1>1, <2>1, <2>2 DEF IInv, Order
<1> QED BY <1>4, <1>5, <1>6, <1>7, <1>8, <1>9

\* Every step keeps the invariant.
LEMMA IInvStep ==
    ASSUME IInv, [Next]_vars
    PROVE  IInv'
<1> DEFINE Goal == (Fresh /\ Enqueuing /\ Table /\ Drivers /\ Single /\ Order /\ Origin)'
<1>1. TypeOK'
  BY TypeStep
<1>2. ASSUME NEW p \in Peers, PeerOnline(p) PROVE Goal
  <2>1. UNCHANGED <<tasks, wpc, wto, wq, cpc, cq, cmsg, msgqs, peer, list, depr,
                    unacked, nmsg, accepted, sent>>
    BY <1>2 DEF PeerOnline, workerVars, carrierVars, queueVars, history
  <2> QED BY <2>1, UnchangedStep
<1>3. CASE UNCHANGED vars
  <2>1. UNCHANGED <<tasks, wpc, wto, wq, cpc, cq, cmsg, msgqs, peer, list, depr,
                    unacked, nmsg, accepted, sent>>
    BY <1>3 DEF vars, workerVars, carrierVars, queueVars, history
  <2> QED BY <1>1, <2>1, UnchangedStep DEF IInv
<1>4. CASE Next
  <2>1. ASSUME Worker PROVE Goal
    BY <2>1, StartRequestStep, EndRequestStep, SendTaskStep, EnqGetStep, EnqPushStep,
       EnqCreateStep, EnqPutStep
    DEF Worker
  <2>2. ASSUME Receipts PROVE Goal
    BY <2>2, ReceiptStep, ReceiptRmStep, ReceiptSendStep DEF Receipts
  <2>3. Goal
    BY <1>2, <1>4, <2>1, <2>2, ReceiveRequestStep, PeerOfflineStep DEF Next
  <2> QED BY <1>1, <2>3 DEF IInv
<1> QED BY <1>3, <1>4

\* The invariant holds when the daemon has started.
LEMMA IInvInit ==
    ASSUME Init
    PROVE  IInv
<1>1. TypeOK
  <2>1. <<>> \in Seq(Msgs) /\ <<>> \in Seq(Task)
    OBVIOUS
  <2>2. depr \in [Msgs -> BOOLEAN]
    BY Zenon DEF Init
  <2> QED BY <2>1, <2>2, MsgQAssumption DEF Init, TypeOK, WorkerPc, CarrierPc, NoQ
<1>2. Range(<<>>) = {} /\ DOMAIN <<>> = {} /\ Increasing(<<>>)
  BY DEF Range, Increasing
<1>3. Fresh
  BY <1>2 DEF Init, Fresh, Bound, NoQ
<1>4. Enqueuing /\ Table
  BY DEF Init, Enqueuing, Table
<1>5. Drivers /\ Single
  BY <1>2 DEF Init, Drivers, Single
<1>6. Order /\ Origin
  BY <1>2 DEF Init, Order, Origin
<1> QED BY <1>1, <1>3, <1>4, <1>5, <1>6 DEF IInv

\* The inductive invariant: where each message is, which queue it belongs to
\* and how it is ordered against the others, at every step of both threads.
THEOREM Invariant == Spec => []IInv
<1>1. Init => IInv
  BY IInvInit
<1>2. IInv /\ [Next]_vars => IInv'
  BY IInvStep
<1> QED BY <1>1, <1>2, PTL DEF Spec

-----------------------------------------------------------------------------
(* Results *)

\* The fields of the queues, the tasks and what the two threads hold across
\* their steps always have their types; in particular msgq_pop_head only ever
\* yields a message that was enqueued.
THEOREM TypeCorrect == Spec => []TypeOK
<1>1. IInv => TypeOK
  BY DEF IInv
<1> QED BY <1>1, Invariant, PTL

\* When on_msg_receipt removes the entry of q->peer from the table, that entry
\* is q itself.
THEOREM RemovesOwnEntry == Spec => []OwnEntry
<1>1. IInv => OwnEntry
  BY DEF IInv, Drivers, InTable, OwnEntry
<1> QED BY <1>1, Invariant, PTL

\* Carrier gets the messages for a peer in the order of the msgq_enq calls,
\* whatever disconnections come in between.
THEOREM SendsInOrder == Spec => []InOrder
<1>1. IInv => InOrder
  BY DEF IInv, Order, Increasing, InOrder
<1> QED BY <1>1, Invariant, PTL

\* After msgq_peer_offline nothing more is posted for the queue it marked.
THEOREM SilentAfterOffline == Spec => DeprecatedStaysSilent
<1> DEFINE Old(q) == \A i \in DOMAIN tasks' : tasks'[i].q = q =>
                         \E j \in DOMAIN tasks : tasks[j] = tasks'[i]
           Silent == \A q \in Msgs : depr[q] => Old(q)
<1>1. ASSUME IInv, Next PROVE Silent
  <2>1. CASE UNCHANGED tasks
    BY <2>1
  <2>2. CASE tasks # <<>> /\ tasks' = Tail(tasks)
    <3>1. Takes
      BY <1>1, <2>2, Taking DEF IInv
    <3> QED BY <3>1 DEF Takes
  <2>3. ASSUME NEW t \in Task, tasks' = Append(tasks, t), t.q \in Msgs => ~depr[t.q]
        PROVE  Silent
    <3>1. Posts(t)
      BY <1>1, <2>3, Posting DEF IInv
    <3> QED BY <2>3, <3>1 DEF Posts
  <2>4. CASE ReceiveRequest
    <3>1. Request \in Task /\ Request.q \notin Msgs
      BY MsgQAssumption DEF Request, Task, NoQ, Msgs
    <3> QED BY <2>3, <2>4, <3>1 DEF ReceiveRequest
  <2>5. CASE ReceiptSend
    <3>1. cq \in Msgs => ~depr[cq]
      BY <1>1, <2>5, ElementsOf
      DEF ReceiptSend, IInv, Drivers, InTable, Table, Elements, NoQ
    <3>2. [q |-> cq, msg |-> cmsg] \in Task /\ [q |-> cq, msg |-> cmsg].q = cq
      BY <1>1 DEF IInv, TypeOK, Task
    <3> QED BY <2>3, <2>5, <3>1, <3>2 DEF ReceiptSend
  <2>6. CASE EnqCreate
    <3>1. nmsg \in Msgs => ~depr[nmsg]
      BY <1>1, <2>6 DEF EnqCreate, IInv, Fresh, Bound, Msgs
    <3>2. [q |-> nmsg, msg |-> nmsg] \in Task /\ [q |-> nmsg, msg |-> nmsg].q = nmsg
      BY <1>1 DEF IInv, TypeOK, Task
    <3> QED BY <2>3, <2>6, <3>1, <3>2 DEF EnqCreate
  <2>7. ASSUME Worker PROVE Silent
    BY <2>1, <2>2, <2>6, <2>7
    DEF Worker, StartRequest, EndRequest, SendTask, EnqGet, EnqPush, EnqPut
  <2>8. ASSUME Receipts PROVE Silent
    BY <2>1, <2>5, <2>8 DEF Receipts, Receipt, ReceiptRm
  <2> QED BY <1>1, <2>1, <2>4, <2>7, <2>8 DEF Next, PeerOnline, PeerOffline
<1>2. IInv /\ [Next]_vars => [Silent]_vars
  BY <1>1
<1> QED BY <1>2, Invariant, PTL DEF Spec, DeprecatedStaysSilent

\* msgq.cpp implements one lossy first-in first-out channel per peer: nothing
\* is reordered, duplicated or sent to a peer it was not enqueued for.
THEOREM ImplementsFifo == Spec => FifoSpec
<1>1. Init => Fifo!Init
  BY DEF Init, Fifo!Init
<1>2. ASSUME IInv, Next PROVE [Fifo!Next]_<<accepted, sent>>
  <2>1. CASE UNCHANGED <<accepted, sent>>
    BY <2>1
  <2>2. ASSUME NEW p \in Peers, EnqGet(p) PROVE Fifo!Next
    <3>1. Elements /\ nmsg + 1 \in Msgs
      BY <1>2, <2>2, ElementsOf, MsgQAssumption DEF IInv, TypeOK, EnqGet, Msgs
    <3>2. \A x \in Peers : \A k \in accepted[x] : k < nmsg + 1
      BY <1>2, <3>1 DEF IInv, Fresh, Elements
    <3>3. Fifo!Accept(p, nmsg + 1)
      BY <2>2, <3>2 DEF EnqGet, Fifo!Accept
    <3> QED BY <3>1, <3>3 DEF Fifo!Next, Fifo!Msgs, Msgs
  <2>3. ASSUME SendTask PROVE [Fifo!Next]_<<accepted, sent>>
    <3> DEFINE t == tasks[1]
    <3>1. Elements /\ Takes /\ t.q \in Msgs /\ t.q # NoQ /\ 1 \in DOMAIN tasks
      BY <1>2, <2>3, ElementsOf, Taking DEF IInv, SendTask, Takes, Elements, Msgs, NoQ
    <3>2. peer[t.q] \in Peers /\ t.msg \in accepted[peer[t.q]]
      BY <1>2, <3>1 DEF IInv, Origin, Elements
    <3>3. t.msg \in Msgs
      BY <1>2, <3>2 DEF IInv, TypeOK
    <3>4. \A i \in DOMAIN sent[peer[t.q]] : sent[peer[t.q]][i] < t.msg
      BY <1>2, <3>1 DEF IInv, Order, Range
    <3>5. CASE UNCHANGED sent
      BY <2>3, <3>5 DEF SendTask
    <3>6. CASE sent' = [sent EXCEPT ![peer[t.q]] = Append(@, t.msg)]
      <4>1. Fifo!Transmit(peer[t.q], t.msg)
        BY <2>3, <3>2, <3>4, <3>6 DEF SendTask, Fifo!Transmit
      <4> QED BY <3>2, <3>3, <4>1 DEF Fifo!Next, Fifo!Msgs, Msgs
    <3> QED BY <2>3, <3>1, <3>5, <3>6 DEF SendTask, Takes
  <2>4. ASSUME Worker PROVE [Fifo!Next]_<<accepted, sent>>
    BY <2>1, <2>2, <2>3, <2>4
    DEF Worker, StartRequest, EndRequest, EnqPush, EnqCreate, EnqPut, history
  <2>5. ASSUME Receipts PROVE UNCHANGED <<accepted, sent>>
    BY <2>5 DEF Receipts, Receipt, ReceiptRm, ReceiptSend, history
  <2> QED BY <1>2, <2>1, <2>4, <2>5 DEF Next, ReceiveRequest, PeerOnline, PeerOffline, history
<1>3. IInv /\ [Next]_vars => [Fifo!Next]_<<accepted, sent>>
  BY <1>2 DEF vars, history
<1> QED BY <1>1, <1>3, Invariant, PTL DEF Spec, FifoSpec, Fifo!Spec

-----------------------------------------------------------------------------
(* What is left behind *)

\* A queue in the table has a message on its way, or one of its was refused; a
\* queue about to be put there has its first message posted
Driven ==
    /\ wpc = "put" => \E i \in DOMAIN tasks : tasks[i].q = wq
    /\ \A q \in Msgs : InTable(q) =>
          \/ \E i \in DOMAIN tasks : tasks[i].q = q
          \/ \E t \in unacked : t.q = q
          \/ cpc # "idle" /\ cq = q
          \/ \E t \in refused : t.q = q

\* A message that waits is in the queue in the table, unless it came too late
\* or the queue is deprecated
Waiting == \A q \in Msgs : \A m \in Range(list[q]) : depr[q] \/ m \in late \/ Live(q)

\* Nothing that Driven and Waiting are about changes.
LEMMA LeftUnchanged ==
    ASSUME Driven, Waiting, wpc' # "put" \/ UNCHANGED <<wpc, wq>>,
           UNCHANGED <<cpc, cq, msgqs, peer, list, depr, unacked, refused, late>>,
           \A i \in DOMAIN tasks : tasks[i].q # NoQ =>
               \E j \in DOMAIN tasks' : tasks'[j].q = tasks[i].q,
           wpc = "put" => wq # NoQ
    PROVE  Driven' /\ Waiting'
<1>1. Waiting'
  BY DEF Waiting, Live
<1>2. Driven'
  BY DEF Driven, InTable, Msgs, NoQ
<1> QED BY <1>1, <1>2

\* Requests that come, start and end, and peers that connect.
LEMMA LeftByRequests ==
    ASSUME IInv, Driven, Waiting,
           \/ ReceiveRequest \/ StartRequest \/ EndRequest
           \/ \E p \in Peers : PeerOnline(p)
           \/ \E p \in Peers : EnqGet(p)
           \/ UNCHANGED vars
    PROVE  Driven' /\ Waiting'
<1>1. Elements /\ (wpc = "put" => wq # NoQ)
  BY ElementsOf DEF IInv, Enqueuing, Fresh, NoQ
<1>2. CASE ReceiveRequest
  <2>1. Request \in Task
    BY MsgQAssumption DEF Request, NoQ, Task
  <2>2. Posts(Request)
    BY <1>2, <2>1, Posting DEF IInv, ReceiveRequest
  <2> QED
    BY <1>1, <1>2, <2>2, LeftUnchanged
    DEF ReceiveRequest, Posts, workerVars, carrierVars, queueVars, history
<1>3. CASE StartRequest
  <2>1. Takes
    BY <1>3, Taking DEF IInv, StartRequest
  <2>2. \A i \in DOMAIN tasks : tasks[i].q # NoQ => i > 1
    BY <1>1, <1>3, <2>1 DEF StartRequest, Takes, Elements, IInv, TypeOK
  <2>3. \A i \in DOMAIN tasks : i > 1 => i - 1 \in DOMAIN tasks' /\ tasks'[i - 1] = tasks[i]
    BY <1>1, <1>3 DEF StartRequest, IInv, TypeOK
  <2>4. \A i \in DOMAIN tasks : tasks[i].q # NoQ =>
            \E j \in DOMAIN tasks' : tasks'[j].q = tasks[i].q
    BY <2>2, <2>3
  <2> QED BY <1>1, <1>3, <2>4, LeftUnchanged DEF StartRequest, carrierVars, queueVars, history
<1>4. CASE EndRequest
  BY <1>1, <1>4, LeftUnchanged DEF EndRequest, carrierVars, queueVars, history
<1>5. ASSUME NEW p \in Peers, PeerOnline(p) PROVE Driven' /\ Waiting'
  BY <1>1, <1>5, LeftUnchanged DEF PeerOnline, workerVars, carrierVars, queueVars, history
<1>6. ASSUME NEW p \in Peers, EnqGet(p) PROVE Driven' /\ Waiting'
  BY <1>1, <1>6, LeftUnchanged DEF EnqGet, carrierVars, queueVars, history
<1>7. CASE UNCHANGED vars
  BY <1>1, <1>7, LeftUnchanged DEF vars, workerVars, carrierVars, queueVars, history
<1> QED BY <1>2, <1>3, <1>4, <1>5, <1>6, <1>7

\* A disconnection deprecates the queue it removes.
LEMMA LeftByOffline ==
    ASSUME IInv, Driven, Waiting, NEW p \in Peers, PeerOffline(p)
    PROVE  Driven' /\ Waiting'
<1>1. UNCHANGED <<tasks, wpc, wq, cpc, cq, peer, list, unacked, refused, late>> /\ cpc = "idle"
  BY DEF PeerOffline, workerVars, carrierVars, history
<1>2. Elements
  BY ElementsOf DEF IInv
<1>3. \A x \in Peers : msgqs'[x] = IF x = p THEN 0 ELSE msgqs[x]
  BY DEF IInv, TypeOK, PeerOffline, msgq_rm, NoQ
<1>4. \A q \in Msgs : depr'[q] <=> (depr[q] \/ q = msgqs[p])
  BY DEF PeerOffline, Deprecate
<1>5. \A q \in Msgs : msgqs'[peer[q]] = q => InTable(q)
  BY <1>2, <1>3 DEF InTable, Elements, Msgs
<1>6. \A q \in Msgs : InTable(q) => msgqs'[peer[q]] = q \/ depr'[q]
  BY <1>2, <1>3, <1>4 DEF InTable, Elements
<1>7. Driven'
  BY <1>1, <1>5 DEF Driven, InTable
<1>8. Waiting'
  BY <1>1, <1>4, <1>6 DEF Waiting, Live, InTable
<1> QED BY <1>7, <1>8

\* The callback takes over from the receipt; if nothing waits, nothing is left.
LEMMA LeftByReceipt ==
    ASSUME IInv, Driven, Waiting, NEW t \in unacked, Receipt(t)
    PROVE  Driven' /\ Waiting'
<1>1. /\ UNCHANGED <<tasks, wpc, wq, msgqs, peer, depr, refused, late>>
      /\ unacked' = unacked \ {t} /\ cpc = "idle"
  BY DEF Receipt, workerVars, history
<1>2. Elements /\ t.q \in Msgs
  BY ElementsOf DEF IInv, Elements, Drivers, Msgs, NoQ
<1>3. \A s \in unacked : s.q = t.q => s = t
  BY DEF IInv, Single
<1>4. CASE depr[t.q] /\ UNCHANGED <<cpc, cq, cmsg, list>>
  <2>1. ~InTable(t.q)
    BY <1>2, <1>4 DEF IInv, Table, InTable, Elements, Msgs, NoQ
  <2>2. Driven'
    BY <1>1, <1>4, <2>1 DEF Driven, InTable
  <2>3. Waiting'
    BY <1>1, <1>4 DEF Waiting, Live
  <2> QED BY <2>2, <2>3
<1>5. CASE list[t.q] = <<>> /\ cpc' = "rm" /\ cq' = t.q /\ UNCHANGED <<cmsg, list>>
  <2>1. Driven'
    BY <1>1, <1>5 DEF Driven, InTable
  <2>2. Range(<<>>) = {}
    BY DEF Range
  <2>3. Waiting'
    BY <1>1, <1>5, <2>2 DEF Waiting, Live
  <2> QED BY <2>1, <2>3
<1>6. CASE list[t.q] # <<>> /\ cpc' = "send" /\ cq' = t.q /\ list' = msgq_pop_head(t.q)
  <2>1. Driven'
    BY <1>1, <1>6 DEF Driven, InTable
  <2>2. list[t.q] \in Seq(Msgs)
    BY <1>2 DEF IInv, TypeOK
  <2>3. Range(Tail(list[t.q])) \subseteq Range(list[t.q])
    BY <1>6, <2>2, TailIs
  <2>4. \A q \in Msgs : list'[q] = IF q = t.q THEN Tail(list[t.q]) ELSE list[q]
    BY <1>2, <1>6 DEF IInv, TypeOK, msgq_pop_head
  <2>5. \A q \in Msgs : Range(list'[q]) \subseteq Range(list[q])
    BY <2>3, <2>4
  <2>6. Waiting'
    BY <1>1, <1>6, <2>5 DEF Waiting, Live
  <2> QED BY <2>1, <2>6
<1> QED BY <1>4, <1>5, <1>6 DEF Receipt, Deprecated, carrierVars

\* The queue that leaves the table only has what was pushed too late.
LEMMA LeftByRm ==
    ASSUME IInv, Driven, Waiting, ReceiptRm
    PROVE  Driven' /\ Waiting'
<1>1. /\ UNCHANGED <<tasks, wpc, wq, peer, list, depr, unacked, refused, late>>
      /\ cpc = "rm" /\ cpc' = "idle"
  BY DEF ReceiptRm, workerVars, history
<1>2. Elements
  BY ElementsOf DEF IInv
<1>3. cq \in Msgs /\ peer[cq] \in Peers /\ msgqs[peer[cq]] = cq
  BY <1>1, <1>2 DEF IInv, Drivers, InTable, Elements, Msgs, NoQ
<1>4. \A x \in Peers : msgqs'[x] = IF x = peer[cq] THEN 0 ELSE msgqs[x]
  BY <1>3 DEF IInv, TypeOK, ReceiptRm, msgq_rm, NoQ
<1>5. \A q \in Msgs : msgqs'[peer[q]] = q <=> InTable(q) /\ q # cq
  BY <1>2, <1>3, <1>4 DEF InTable, Elements, Msgs
<1>6. Driven'
  BY <1>1, <1>5 DEF Driven, InTable
<1>7. Waiting'
  BY <1>1, <1>5 DEF Waiting, Live, InTable
<1> QED BY <1>6, <1>7

LEMMA LeftByReceiptSend ==
    ASSUME IInv, Driven, Waiting, ReceiptSend
    PROVE  Driven' /\ Waiting'
<1>1. /\ UNCHANGED <<wpc, wq, cq, msgqs, peer, list, depr, unacked, refused, late>>
      /\ cpc = "send" /\ cpc' = "idle"
  BY DEF ReceiptSend, workerVars, queueVars, history
<1>2. PICK n \in Nat :
        /\ DOMAIN tasks' = DOMAIN tasks \cup {n}
        /\ tasks'[n].q = cq
        /\ \A i \in DOMAIN tasks : tasks'[i] = tasks[i]
  <2>1. [q |-> cq, msg |-> cmsg] \in Task /\ [q |-> cq, msg |-> cmsg].q = cq
    BY DEF IInv, TypeOK, Task
  <2> QED BY <2>1, Posting DEF IInv, ReceiptSend, Posts
<1>3. Driven'
  BY <1>1, <1>2 DEF Driven, InTable
<1>4. Waiting'
  BY <1>1 DEF Waiting, Live
<1> QED BY <1>3, <1>4

\* The message is with Carrier, or its queue has had a refusal.
LEMMA LeftBySend ==
    ASSUME IInv, Driven, Waiting, SendTask
    PROVE  Driven' /\ Waiting'
<1>1. UNCHANGED <<wpc, wq, cpc, cq, msgqs, peer, list, depr, late>> /\ wpc = "idle"
  BY DEF SendTask, workerVars, carrierVars, queueVars
<1>2. Elements /\ Takes
  BY ElementsOf, Taking DEF IInv, SendTask
<1>3. /\ unacked \subseteq unacked' /\ refused \subseteq refused'
      /\ tasks[1] \in unacked' \cup refused'
  BY <1>2 DEF SendTask, Takes
<1>4. \A i \in DOMAIN tasks : i # 1 => i - 1 \in DOMAIN tasks' /\ tasks'[i - 1] = tasks[i]
  <2>1. tasks \in Seq(Task) /\ tasks # <<>> /\ tasks' = Tail(tasks)
    BY DEF SendTask, IInv, TypeOK
  <2> QED BY <2>1
<1>5. \A q \in Msgs : (\E i \in DOMAIN tasks : tasks[i].q = q) =>
          \/ \E i \in DOMAIN tasks' : tasks'[i].q = q
          \/ \E t \in unacked' \cup refused' : t.q = q
  BY <1>3, <1>4
<1>6. Driven'
  BY <1>1, <1>3, <1>5 DEF Driven, InTable
<1>7. Waiting'
  BY <1>1 DEF Waiting, Live
<1> QED BY <1>6, <1>7

\* A message is pushed on the queue in the table, or too late.
LEMMA LeftByPush ==
    ASSUME IInv, Driven, Waiting, EnqPush
    PROVE  Driven' /\ Waiting'
<1>1. /\ UNCHANGED <<tasks, cpc, cq, msgqs, peer, depr, unacked, refused>>
      /\ wpc = "push" /\ wpc' = "handler"
      /\ late \subseteq late' /\ (nmsg \in late' \/ Live(wq))
  BY DEF EnqPush, carrierVars
<1>2. wq \in Msgs /\ nmsg \in Msgs /\ list[wq] \in Seq(Msgs)
  BY <1>1, MsgQAssumption DEF IInv, TypeOK, Enqueuing, Fresh, Msgs
<1>3. Range(Append(list[wq], nmsg)) = Range(list[wq]) \cup {nmsg}
  BY <1>2, AppendIs
<1>4. \A q \in Msgs : list'[q] = IF q = wq THEN Append(list[wq], nmsg) ELSE list[q]
  BY <1>2 DEF EnqPush, msgq_push_tail, IInv, TypeOK
<1>5. \A q \in Msgs : \A m \in Range(list'[q]) : m \in Range(list[q]) \/ (q = wq /\ m = nmsg)
  BY <1>3, <1>4
<1>6. Driven'
  BY <1>1 DEF Driven, InTable
<1>7. Waiting'
  BY <1>1, <1>5 DEF Waiting, Live
<1> QED BY <1>6, <1>7

\* The new queue has its message posted and is not in the table yet.
LEMMA LeftByCreate ==
    ASSUME IInv, Driven, Waiting, EnqCreate
    PROVE  Driven' /\ Waiting'
<1>1. /\ UNCHANGED <<cpc, cq, msgqs, unacked, refused, late>>
      /\ wpc = "create" /\ wpc' = "put" /\ wq' = nmsg
  BY DEF EnqCreate, carrierVars, history
<1>2. /\ Elements /\ nmsg \in Msgs /\ wto \in Peers /\ msgqs[wto] = 0
  BY <1>1, ElementsOf, MsgQAssumption DEF IInv, TypeOK, Fresh, Enqueuing, Msgs, NoQ
<1>3. PICK n \in Nat :
        /\ DOMAIN tasks' = DOMAIN tasks \cup {n}
        /\ tasks'[n].q = nmsg
        /\ \A i \in DOMAIN tasks : tasks'[i] = tasks[i]
  <2>1. [q |-> nmsg, msg |-> nmsg] \in Task /\ [q |-> nmsg, msg |-> nmsg].q = nmsg
    BY DEF IInv, TypeOK, Task
  <2> QED BY <2>1, Posting DEF IInv, EnqCreate, Posts
<1>4. peer'[nmsg] = wto /\ \A q \in Msgs : q # nmsg => peer'[q] = peer[q]
  BY <1>2 DEF EnqCreate, IInv, TypeOK
<1>5. list'[nmsg] = <<>> /\ \A q \in Msgs : q # nmsg => list'[q] = list[q]
  BY <1>2 DEF EnqCreate, IInv, TypeOK
<1>6. \A q \in Msgs : q # nmsg => depr'[q] = depr[q]
  <2>1. depr \in [Msgs -> BOOLEAN] /\ depr' = [depr EXCEPT ![nmsg] = FALSE]
    BY DEF EnqCreate, IInv, TypeOK
  <2> QED BY <1>2, <2>1, Zenon
<1>7. Driven'
  BY <1>1, <1>2, <1>3, <1>4 DEF Driven, InTable, Msgs
<1>8. Waiting'
  <2>1. Range(<<>>) = {}
    BY DEF Range
  <2>2. \A q \in Msgs : \A m \in Range(list'[q]) : q # nmsg /\ m \in Range(list[q])
    BY <1>5, <2>1
  <2> QED BY <1>1, <1>4, <1>6, <2>2 DEF Waiting, Live
<1> QED BY <1>7, <1>8

LEMMA LeftByPut ==
    ASSUME IInv, Driven, Waiting, EnqPut
    PROVE  Driven' /\ Waiting'
<1>1. /\ UNCHANGED <<tasks, wq, cpc, cq, peer, list, depr, unacked, refused, late>>
      /\ wpc = "put" /\ wpc' = "handler"
  BY DEF EnqPut, carrierVars, history
<1>2. /\ Elements /\ wq \in Msgs /\ wto \in Peers /\ peer[wq] = wto /\ msgqs[wto] = 0
  <2>1. Elements
    BY ElementsOf DEF IInv
  <2>2. nmsg \in Msgs
    BY <1>1, MsgQAssumption DEF IInv, TypeOK, Fresh, Msgs
  <2> QED BY <1>1, <2>1, <2>2 DEF IInv, Enqueuing, Elements, NoQ
<1>3. msgqs'[wto] = wq /\ \A x \in Peers : x # wto => msgqs'[x] = msgqs[x]
  BY <1>2 DEF EnqPut, msgq_put, IInv, TypeOK
<1>4. \A q \in Msgs : msgqs'[peer[q]] = q <=> InTable(q) \/ q = wq
  BY <1>2, <1>3 DEF InTable, Elements, Msgs
<1>5. Driven'
  BY <1>1, <1>4 DEF Driven, InTable
<1>6. Waiting'
  BY <1>1, <1>4 DEF Waiting, Live, InTable
<1> QED BY <1>5, <1>6

\* With one message on its way, InFlight counts one.
LEMMA CountsOne ==
    ASSUME IInv, Driven, NEW q \in Msgs, InTable(q), ~\E t \in refused : t.q = q
    PROVE  InFlight(q) = 1
<1> DEFINE Posted == {i \in DOMAIN tasks : tasks[i].q = q}
           Given == {t \in unacked : t.q = q}
<1>1. Cardinality({}) = 0 /\ \A x : Cardinality({x}) = 1
  BY FS_EmptySet, FS_Singleton
<1>2. q # NoQ
  BY DEF Msgs, NoQ
<1>3. CASE \E i \in DOMAIN tasks : tasks[i].q = q
  <2>1. PICK i \in DOMAIN tasks : tasks[i].q = q
    BY <1>3
  <2>2. Posted = {i} /\ Given = {} /\ ~(cpc # "idle" /\ cq = q)
    BY <1>2, <2>1 DEF IInv, Single
  <2>3. Cardinality(Posted) = 1 /\ Cardinality(Given) = 0
    BY <1>1, <2>2
  <2> QED BY <2>2, <2>3 DEF InFlight
<1>4. CASE \E t \in unacked : t.q = q
  <2>1. PICK t \in unacked : t.q = q
    BY <1>4
  <2>2. Posted = {} /\ Given = {t} /\ ~(cpc # "idle" /\ cq = q)
    BY <2>1 DEF IInv, Single
  <2>3. Cardinality(Posted) = 0 /\ Cardinality(Given) = 1
    BY <1>1, <2>2
  <2> QED BY <2>2, <2>3 DEF InFlight
<1>5. CASE cpc # "idle" /\ cq = q
  <2>1. Posted = {} /\ Given = {}
    BY <1>5 DEF IInv, Single
  <2>2. Cardinality(Posted) = 0 /\ Cardinality(Given) = 0
    BY <1>1, <2>1
  <2> QED BY <1>5, <2>2 DEF InFlight
<1> QED BY <1>3, <1>4, <1>5 DEF Driven

\* A message stays behind in a queue only after a disconnection of its peer,
\* after a refused send of its queue, or when msgq_enq pushed it between the
\* last msgq_pop_head and the removal of the queue; every other message that
\* waits is in the queue in the table, and exactly one message drives it.
THEOREM LossesAreKnown == Spec => []NothingElseLost
<1>1. Init => Driven /\ Waiting
  <2>1. Range(<<>>) = {} /\ DOMAIN <<>> = {}
    BY DEF Range
  <2> QED BY <2>1 DEF Init, Driven, Waiting, InTable, Msgs, NoQ
<1>2. ASSUME IInv, Driven, Waiting, [Next]_vars PROVE Driven' /\ Waiting'
  <2>1. ASSUME Worker PROVE Driven' /\ Waiting'
    BY <1>2, <2>1, LeftByRequests, LeftBySend, LeftByPush, LeftByCreate, LeftByPut DEF Worker
  <2>2. ASSUME Receipts PROVE Driven' /\ Waiting'
    BY <1>2, <2>2, LeftByReceipt, LeftByRm, LeftByReceiptSend DEF Receipts
  <2> QED BY <1>2, <2>1, <2>2, LeftByRequests, LeftByOffline DEF Next
<1>3. ASSUME IInv, Driven, Waiting PROVE NothingElseLost
  <2>1. SUFFICES ASSUME NEW q \in Msgs, NEW m \in Range(list[q]),
                        ~depr[q], m \notin late, ~\E t \in refused : t.q = q
                 PROVE  Live(q) /\ InFlight(q) = 1
    BY DEF NothingElseLost
  <2>2. Live(q)
    BY <1>3, <2>1 DEF Waiting
  <2>3. InTable(q)
    BY <2>2 DEF Live, InTable
  <2> QED BY <1>3, <2>1, <2>2, <2>3, CountsOne
<1> QED BY <1>1, <1>2, <1>3, Invariant, PTL DEF Spec

=============================================================================
