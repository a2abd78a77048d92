----------------------------- MODULE Did_proofs -----------------------------
(***************************************************************************)
(* Proofs about Did, for any clients, any DIDs and any number of faults:   *)
(* the type invariant, MemoryIsDisk, ToldIsKept, and that the disk         *)
(* implements Binding through every crash, failed call and restart.        *)
(***************************************************************************)
EXTENDS Did, TLAPS

\* The disk is written in this order: a row, an identity, a DID, a credential;
\* a second DID only by a process that had not read the first
DiskInOrder ==
    /\ docs # {} => users # <<>> /\ identity
    /\ \A s \in FeedsDids \ docs : cred[s] = 0
    /\ ~renewed => \A s \in docs : docs = {s}

\* What the memory says of the disk at any moment, also inside a request
Believed ==
    /\ mem.url = gen_feeds_url(mem.state, mem.did)
    /\ mem.state # "NO_OWNER" => users # <<>>
    /\ mem.state \in {"NO_OWNER", "OWNER_DECLED"} => mem.did = NoDid
    /\ mem.state \in {"DID_IMPED", "VC_ISSED"} => mem.did \in docs
    /\ mem.state # "VC_ISSED" => mem.vc = 0
    /\ mem.state = "VC_ISSED" => mem.vc > 0 /\ mem.vc <= cred[mem.did]

\* Where the request stands that the worker is in the middle of
InRequest ==
    /\ job.at = "idle" =>
          /\ job = Idle
          /\ mem.state = "NO_OWNER" => mem.owner = NoDid /\ docs = {}
          /\ mem.state = "OWNER_DECLED" /\ ~missed => docs = {}
          /\ mem.state = "DID_IMPED" /\ ~missed => cred[mem.did] = 0
          /\ mem.state = "VC_ISSED" => mem.vc = cred[mem.did] /\ ~missed
    /\ job.at = "down" => job = Down /\ mem = Blank /\ ~missed
    /\ job.at = "select" =>
          /\ mem.state = "NO_OWNER" /\ mem.owner = job.from /\ job.from \in Dids
          /\ users # <<>> /\ docs = {}
    /\ job.at = "new_did" =>
          /\ mem.state = "OWNER_DECLED" /\ job.from \in Dids /\ job.did \in FeedsDids
          /\ identity /\ (~missed => docs = {})
    /\ job.at = "stored" =>
          /\ mem.state \in {"DID_IMPED", "VC_ISSED"} /\ job.from \in Dids
          /\ job.date = cred[mem.did] /\ job.date > 0 /\ ~missed

\* Only a DID that is there can have been missed
MissedIsThere == missed => docs # {}

\* But for a torn upsert the owner in memory is the one of the first row
OneOwner ==
    ~torn =>
      /\ mem.state # "NO_OWNER" => mem.owner = db_get_owner
      /\ job.at = "idle" /\ mem.state = "NO_OWNER" => users = <<>>
      /\ job.at = "select" => mem.owner = db_get_owner

IInv ==
    /\ TypeOK /\ DiskInOrder /\ Believed /\ InRequest /\ MissedIsThere
    /\ OneOwner /\ ToldIsKept

-----------------------------------------------------------------------------
(* The process's variables *)

Url == [scheme : {"feeds", "feeds_raw"}, did : FeedsDids \cup {NoDid}, nonce : BOOLEAN]
Mem == [state : States, owner : Dids \cup {NoDid}, did : FeedsDids \cup {NoDid},
        vc : Nat, url : Url]
Job == [at : {"idle", "down", "select", "new_did", "stored"},
        from : Dids \cup {NoDid}, did : FeedsDids \cup {NoDid}, date : Nat]

\* state_set (did.c) changes the state and the address and nothing else
LEMMA StateSet ==
    ASSUME NEW m \in Mem, NEW s \in States
    PROVE  /\ state_set(m, s) \in Mem
           /\ state_set(m, s).state = s
           /\ state_set(m, s).owner = m.owner
           /\ state_set(m, s).did = m.did
           /\ state_set(m, s).vc = m.vc
           /\ state_set(m, s).url = gen_feeds_url(s, m.did)
<1>1. gen_feeds_url(s, m.did) \in Url
  BY DEF gen_feeds_url, Mem, Url
<1>. QED
  BY <1>1 DEF state_set, Mem

\* A process that has just been started knows of no owner
LEMMA BlankType ==
    /\ Blank \in Mem
    /\ Blank.state = "NO_OWNER"
    /\ Blank.owner = NoDid
    /\ Blank.did = NoDid
    /\ Blank.vc = 0
    /\ Blank.url = gen_feeds_url("NO_OWNER", NoDid)
<1>1. gen_feeds_url("NO_OWNER", NoDid) \in Url
  BY DEF gen_feeds_url, Url
<1>. QED
  BY <1>1 DEF Blank, Mem, States


\* Memories are compared field by field
LEMMA SameMem ==
    ASSUME NEW a \in Mem, NEW b \in Mem, a.state = b.state, a.owner = b.owner,
           a.did = b.did, a.vc = b.vc, a.url = b.url
    PROVE  a = b
BY DEF Mem

\* How far the disk has come decides what did_init recovers
IsRecovered(r, s, n) ==
    /\ r \in Mem
    /\ r.url = gen_feeds_url(r.state, r.did)
    /\ r.owner = db_get_owner
    /\ users = <<>> => r.state = "NO_OWNER" /\ r.did = NoDid /\ r.vc = 0
    /\ users # <<>> /\ (~identity \/ s = NoDid) =>
          r.state = "OWNER_DECLED" /\ r.did = NoDid /\ r.vc = 0
    /\ users # <<>> /\ identity /\ s # NoDid /\ n = 0 =>
          r.state = "DID_IMPED" /\ r.did = s /\ r.vc = 0
    /\ users # <<>> /\ identity /\ s # NoDid /\ n > 0 =>
          r.state = "VC_ISSED" /\ r.did = s /\ r.vc = n

\* did_init (did.c:499-590) for any document and any credential it may read
LEMMA RecoveredFields ==
    ASSUME TypeOK, NEW s \in FeedsDids \cup {NoDid}, NEW n \in Nat
    PROVE  IsRecovered(Recovered(s, n), s, n)
<1>. DEFINE owned == [Blank EXCEPT !.owner = db_get_owner]
            named == [owned EXCEPT !.did = s]
            issued == [named EXCEPT !.vc = n]
<1>1. users # <<>> => db_get_owner \in Dids
  BY DEF db_get_owner, TypeOK
<1>2. db_get_owner \in Dids \cup {NoDid} /\ (users = <<>> => db_get_owner = NoDid)
  BY <1>1 DEF db_get_owner
<1>3. owned \in Mem /\ owned.owner = db_get_owner /\ owned.did = NoDid /\ owned.vc = 0
  BY <1>2, BlankType DEF Mem
<1>4. named \in Mem /\ named.owner = db_get_owner /\ named.did = s /\ named.vc = 0
  BY <1>3 DEF Mem
<1>5. issued \in Mem /\ issued.owner = db_get_owner /\ issued.did = s /\ issued.vc = n
  BY <1>4 DEF Mem
<1>6. "OWNER_DECLED" \in States /\ "DID_IMPED" \in States /\ "VC_ISSED" \in States
  BY DEF States
<1>. HIDE DEF owned, named, issued
<1>7. CASE users = <<>>
  <2>1. Recovered(s, n) = Blank
    BY <1>7 DEF Recovered
  <2>. QED
    BY <2>1, <1>7, <1>2, BlankType DEF IsRecovered
<1>8. CASE users # <<>> /\ (~identity \/ s = NoDid)
  <2>1. Recovered(s, n) = state_set(owned, "OWNER_DECLED")
    BY <1>8 DEF Recovered, owned
  <2>2. LET r == state_set(owned, "OWNER_DECLED") IN
        /\ r \in Mem /\ r.state = "OWNER_DECLED" /\ r.owner = db_get_owner
        /\ r.did = NoDid /\ r.vc = 0 /\ r.url = gen_feeds_url("OWNER_DECLED", NoDid)
    BY <1>3, <1>6, StateSet, Zenon
  <2>. QED
    BY <2>1, <1>8, <2>2 DEF IsRecovered
<1>9. CASE users # <<>> /\ identity /\ s # NoDid /\ n = 0
  <2>1. Recovered(s, n) = state_set(named, "DID_IMPED")
    BY <1>9 DEF Recovered, owned, named
  <2>2. LET r == state_set(named, "DID_IMPED") IN
        /\ r \in Mem /\ r.state = "DID_IMPED" /\ r.owner = db_get_owner
        /\ r.did = s /\ r.vc = 0 /\ r.url = gen_feeds_url("DID_IMPED", s)
    BY <1>4, <1>6, StateSet, Zenon
  <2>. QED
    BY <2>1, <1>9, <2>2 DEF IsRecovered
<1>10. CASE users # <<>> /\ identity /\ s # NoDid /\ n > 0
  <2>1. Recovered(s, n) = state_set(issued, "VC_ISSED")
    BY <1>10 DEF Recovered, owned, named, issued
  <2>2. LET r == state_set(issued, "VC_ISSED") IN
        /\ r \in Mem /\ r.state = "VC_ISSED" /\ r.owner = db_get_owner
        /\ r.did = s /\ r.vc = n /\ r.url = gen_feeds_url("VC_ISSED", s)
    BY <1>5, <1>6, StateSet, Zenon
  <2>. QED
    BY <2>1, <1>10, <2>2 DEF IsRecovered
<1>. QED
  BY <1>7, <1>8, <1>9, <1>10

-----------------------------------------------------------------------------
(* The invariant holds of a fresh service, and says what is to be shown *)

\* A service that has never run satisfies the invariant
LEMMA InitInv == Init => IInv
<1>. SUFFICES ASSUME Init PROVE IInv
  OBVIOUS
<1>. USE DEF Init
<1>1. TypeOK
  <2>1. job \in Job /\ mem \in Mem
    BY BlankType DEF Job, Down, Idle
  <2>2. told \in [owners : SUBSET Dids, dids : SUBSET FeedsDids, date : Nat]
    BY Zenon
  <2>3. users \in Seq(Dids) /\ heard \in [Dids -> Phases \cup {"none", "error"}]
    OBVIOUS
  <2>. QED
    BY <2>1, <2>2, <2>3 DEF TypeOK, Mem, Url, Job
<1>2. DiskInOrder /\ ToldIsKept /\ MissedIsThere
  BY DEF DiskInOrder, ToldIsKept, MissedIsThere
<1>3. Believed
  BY BlankType DEF Believed
<1>4. InRequest /\ OneOwner
  BY BlankType DEF InRequest, OneOwner, Down, Idle
<1>. QED
  BY <1>1, <1>2, <1>3, <1>4 DEF IInv

\* Between requests the invariant leaves the memory no choice (did.c)
LEMMA InvMemory == IInv => MemoryIsDisk
<1>. SUFFICES ASSUME IInv, Serving, ~torn, ~missed PROVE mem \in Recoveries
  BY DEF MemoryIsDisk
<1>1. mem \in Mem /\ TypeOK /\ job.at = "idle"
  BY DEF IInv, TypeOK, Mem, Url, Serving, Idle
<1>2. mem.owner = db_get_owner /\ (users = <<>> => mem.state = "NO_OWNER")
  BY <1>1 DEF IInv, InRequest, OneOwner, Believed, db_get_owner
<1>3. mem.state \in {"NO_OWNER", "OWNER_DECLED", "DID_IMPED", "VC_ISSED"}
  BY <1>1 DEF Mem, States
<1>4. CASE docs = {}
  <2>1. IsRecovered(Recovered(NoDid, 0), NoDid, 0)
    BY <1>1, RecoveredFields
  <2>2. /\ mem.state \in {"NO_OWNER", "OWNER_DECLED"} /\ mem.did = NoDid /\ mem.vc = 0
        /\ mem.url = gen_feeds_url(mem.state, mem.did)
        /\ users = <<>> <=> mem.state = "NO_OWNER"
    BY <1>1, <1>2, <1>3, <1>4 DEF IInv, Believed, InRequest, OneOwner
  <2>3. mem = Recovered(NoDid, 0)
    BY <1>1, <1>2, <2>1, <2>2, SameMem DEF IsRecovered
  <2>. QED
    BY <1>4, <2>3 DEF Recoveries
<1>5. CASE docs # {}
  <2>1. /\ mem.state \in {"DID_IMPED", "VC_ISSED"} /\ mem.did \in docs
        /\ mem.url = gen_feeds_url(mem.state, mem.did)
        /\ users # <<>> /\ identity /\ cred[mem.did] = mem.vc
        /\ mem.state = "VC_ISSED" <=> mem.vc > 0
    BY <1>1, <1>3, <1>5 DEF IInv, Believed, InRequest, DiskInOrder, Mem
  <2>2. mem.did \in FeedsDids /\ mem.did # NoDid /\ cred[mem.did] \in Nat
    BY <1>1, <2>1, NoDidAssumption DEF TypeOK
  <2>3. IsRecovered(Recovered(mem.did, cred[mem.did]), mem.did, cred[mem.did])
    BY <1>1, <2>2, RecoveredFields
  <2>4. mem = Recovered(mem.did, cred[mem.did])
    BY <1>1, <1>2, <2>1, <2>2, <2>3, SameMem DEF IsRecovered
  <2>. QED
    BY <1>5, <2>1, <2>4 DEF Recoveries
<1>. QED
  BY <1>4, <1>5

-----------------------------------------------------------------------------
(* One lemma per action *)

\* A process that has started, from s and n, missing something or not
LEMMA StartedInv ==
    ASSUME IInv, job = Down, job' = Idle, faults' \in Nat,
           UNCHANGED <<disk, renewed, torn, heard, told>>,
           NEW s \in FeedsDids \cup {NoDid}, NEW n \in Nat, mem' = Recovered(s, n),
           s # NoDid => s \in docs /\ n <= cred[s],
           missed' \in BOOLEAN,
           missed' => docs # {} /\ (s # NoDid => n = 0),
           ~missed' => IF docs = {} THEN s = NoDid ELSE s # NoDid /\ n = cred[s]
    PROVE  IInv'
<1>. USE DEF IInv, disk
<1>0. IsRecovered(mem', s, n)
  BY RecoveredFields
<1>1. TypeOK'
  BY <1>0 DEF IsRecovered, TypeOK, Mem, Url, Idle
<1>2. DiskInOrder' /\ ToldIsKept' /\ MissedIsThere'
  BY DEF DiskInOrder, ToldIsKept, MissedIsThere, db_get_owner
<1>3. n \in Nat /\ (s # NoDid => cred[s] \in Nat /\ users # <<>> /\ identity)
  BY DEF TypeOK, DiskInOrder
<1>4. Believed'
  BY <1>0, <1>3 DEF IsRecovered, Believed
<1>5. job'.at = "idle"
  BY DEF Idle
<1>6. InRequest'
  <2>1. mem'.state = "NO_OWNER" => mem'.owner = NoDid /\ docs' = {}
    BY <1>0, <1>3 DEF IsRecovered, DiskInOrder, db_get_owner
  <2>2. mem'.state = "OWNER_DECLED" /\ ~missed' => docs' = {}
    BY <1>0, <1>3 DEF IsRecovered
  <2>3. mem'.state = "DID_IMPED" /\ ~missed' => cred'[mem'.did] = 0
    BY <1>0, <1>3 DEF IsRecovered
  <2>4. mem'.state = "VC_ISSED" => mem'.vc = cred'[mem'.did] /\ ~missed'
    BY <1>0, <1>3 DEF IsRecovered
  <2>. QED
    BY <1>5, <2>1, <2>2, <2>3, <2>4 DEF InRequest
<1>7. OneOwner'
  BY <1>0, <1>3, <1>5 DEF IsRecovered, OneOwner, db_get_owner
<1>. QED
  BY <1>1, <1>2, <1>4, <1>6, <1>7

\* Starting again, well or not, keeps the invariant (did_init, did.c)
LEMMA StartInv == ASSUME IInv, did_init PROVE IInv'
<1>0. /\ job = Down /\ UNCHANGED <<disk, renewed, torn, heard, told>>
      /\ faults' \in Nat /\ ~missed /\ missed \in BOOLEAN
  BY DEF did_init, Fault, NoFault, IInv, TypeOK, InRequest, Down, Idle
<1>1. \A s \in docs : s \in FeedsDids /\ s # NoDid /\ cred[s] \in Nat
  BY NoDidAssumption DEF IInv, TypeOK
<1>2. CASE mem' \in Recoveries /\ job' = Idle /\ UNCHANGED missed
  <2>1. CASE docs = {}
    <3>1. mem' = Recovered(NoDid, 0)
      BY <1>2, <2>1 DEF Recoveries
    <3>. QED
      BY <1>0, <1>2, <2>1, <3>1, StartedInv
  <2>2. CASE docs # {}
    <3>1. PICK s \in docs : mem' = Recovered(s, cred[s])
      BY <1>2, <2>2 DEF Recoveries
    <3>2. s \in FeedsDids /\ s # NoDid /\ cred[s] \in Nat /\ cred[s] <= cred[s]
      BY <1>1
    <3>. QED
      BY <1>0, <1>2, <2>2, <3>1, <3>2, StartedInv
  <2>. QED
    BY <2>1, <2>2
<1>3. CASE mem' \in Misreadings /\ job' = Idle /\ missed' = TRUE
  <2>1. CASE docs # {} /\ mem' = Recovered(NoDid, 0)
    BY <1>0, <1>3, <2>1, StartedInv
  <2>2. CASE \E s \in docs : mem' = Recovered(s, 0)
    <3>1. PICK s \in docs : mem' = Recovered(s, 0)
      BY <2>2
    <3>2. s \in FeedsDids /\ s # NoDid /\ 0 <= cred[s]
      BY <1>1
    <3>. QED
      BY <1>0, <1>3, <3>1, <3>2, StartedInv
  <2>. QED
    BY <1>3, <2>1, <2>2 DEF Misreadings
<1>4. CASE UNCHANGED <<mem, job, missed>>
  BY <1>0, <1>4 DEF disk, IInv, TypeOK, DiskInOrder, Believed, InRequest, MissedIsThere,
                    OneOwner, ToldIsKept, db_get_owner, gen_feeds_url
<1>. QED
  BY <1>2, <1>3, <1>4 DEF did_init

\* A crash keeps what is on the disk and forgets the rest
LEMMA CrashInv == ASSUME IInv, Crash PROVE IInv'
<1>. USE DEF IInv, Crash, disk, Fault
<1>1. TypeOK'
  <2>1. mem' \in Mem
    BY BlankType
  <2>2. job' \in Job
    BY DEF Job, Down, Idle
  <2>3. faults' \in Nat /\ missed' = FALSE
    BY DEF TypeOK
  <2>. QED
    BY <2>1, <2>2, <2>3 DEF TypeOK, Mem, Url, Job
<1>2. DiskInOrder' /\ ToldIsKept' /\ MissedIsThere'
  BY DEF DiskInOrder, ToldIsKept, MissedIsThere, db_get_owner
<1>3. Believed'
  BY BlankType DEF Believed, TypeOK
<1>4. InRequest' /\ OneOwner'
  BY BlankType DEF InRequest, OneOwner, Down, Idle, db_get_owner
<1>. QED
  BY <1>1, <1>2, <1>3, <1>4

\* Declaring the first owner (hdl_decl_owner_req, did.c)
LEMMA DeclareFirstInv ==
    ASSUME IInv, NEW d \in Dids, DeclareFirst(d)
    PROVE  IInv'
<1>. USE DEF IInv, DeclareFirst, Serving, past
<1>0. job.at = "idle" /\ mem \in Mem
  BY DEF Idle, TypeOK, Mem, Url
<1>1. CASE UNCHANGED users /\ UNCHANGED mem /\ UNCHANGED job
  <2>1. TypeOK'
    BY <1>1 DEF TypeOK, Hear, Fault, NoFault
  <2>2. DiskInOrder' /\ Believed' /\ InRequest' /\ MissedIsThere' /\ OneOwner' /\ ToldIsKept'
    BY <1>1 DEF DiskInOrder, Believed, InRequest, MissedIsThere, OneOwner, ToldIsKept,
                  db_get_owner, gen_feeds_url
  <2>. QED
    BY <2>1, <2>2
<1>2. CASE /\ users' = IF d \in {users[i] : i \in DOMAIN users}
                          THEN users ELSE Append(users, d)
           /\ mem' = [mem EXCEPT !.owner = d]
           /\ job' = [Idle EXCEPT !.at = "select", !.from = d]
           /\ NoFault
           /\ UNCHANGED heard
  <2>1. /\ mem' \in Mem /\ mem'.owner = d /\ mem'.state = mem.state
        /\ mem'.did = mem.did /\ mem'.vc = mem.vc /\ mem'.url = mem.url
    BY <1>2, <1>0 DEF Mem
  <2>2. job' \in Job /\ job'.at = "select" /\ job'.from = d
    BY <1>2 DEF Job, Idle
  <2>3. users' \in Seq(Dids) /\ users' # <<>>
    <3>1. users \in Seq(Dids)
      BY DEF TypeOK
    <3>2. CASE users' = Append(users, d)
      BY <3>1, <3>2
    <3>3. CASE users' = users /\ d \in {users[i] : i \in DOMAIN users}
      BY <3>1, <3>3
    <3>. QED
      BY <1>2, <3>2, <3>3
  <2>4. TypeOK'
    BY <1>2, <2>1, <2>2, <2>3 DEF TypeOK, Mem, Url, Job, NoFault
  <2>5. DiskInOrder' /\ Believed' /\ MissedIsThere'
    BY <2>1, <2>3 DEF DiskInOrder, Believed, MissedIsThere, gen_feeds_url
  <2>6. InRequest'
    BY <1>0, <2>1, <2>2, <2>3 DEF InRequest
  <2>7. ~torn => users = <<>> /\ db_get_owner = NoDid /\ users' = <<d>> /\ db_get_owner' = d
    BY <1>0, <1>2 DEF OneOwner, db_get_owner
  <2>8. OneOwner'
    BY <2>7, <2>1, <2>2 DEF OneOwner
  <2>9. ~torn => told.owners = {}
    BY <2>7, NoDidAssumption DEF ToldIsKept, TypeOK
  <2>10. ToldIsKept'
    BY <2>9 DEF ToldIsKept
  <2>. QED
    BY <2>4, <2>5, <2>6, <2>8, <2>10
<1>. QED
  BY <1>1, <1>2

\* The end of that request, whether its SELECT succeeds or not
LEMMA DeclareSelectedInv == ASSUME IInv, DeclareSelected PROVE IInv'
<1>. USE DEF IInv, DeclareSelected, disk
<1>0. /\ job.at = "select" /\ mem \in Mem /\ mem.state = "NO_OWNER"
      /\ mem.owner = job.from /\ job.from \in Dids /\ users # <<>> /\ docs = {}
      /\ mem.did = NoDid /\ mem.vc = 0
  BY DEF TypeOK, Mem, Url, InRequest, Believed
<1>1. job' = Idle /\ job' \in Job /\ job'.at = "idle"
  BY DEF Job, Idle
<1>2. heard' \in [Dids -> Phases \cup {"none", "error"}]
  BY <1>0 DEF TypeOK, Hear, Phases
<1>3. CASE /\ mem' = state_set(mem, "OWNER_DECLED")
           /\ told' = [told EXCEPT !.owners = @ \cup {job.from}]
           /\ NoFault
           /\ UNCHANGED torn
  <2>0. "OWNER_DECLED" \in States
    BY DEF States
  <2>1. /\ mem' \in Mem /\ mem'.state = "OWNER_DECLED" /\ mem'.owner = mem.owner
        /\ mem'.did = NoDid /\ mem'.vc = 0
        /\ mem'.url = gen_feeds_url("OWNER_DECLED", NoDid)
    BY <1>0, <1>3, <2>0, StateSet
  <2>2. /\ told' \in [owners : SUBSET Dids, dids : SUBSET FeedsDids, date : Nat]
        /\ told'.owners = told.owners \cup {job.from}
        /\ told'.dids = told.dids /\ told'.date = told.date
    BY <1>0, <1>3 DEF TypeOK
  <2>3. TypeOK'
    BY <1>1, <1>2, <1>3, <2>1, <2>2 DEF TypeOK, Mem, Url, Job, NoFault
  <2>4. DiskInOrder' /\ Believed' /\ InRequest' /\ MissedIsThere'
    BY <1>0, <1>1, <2>1 DEF DiskInOrder, Believed, InRequest, MissedIsThere
  <2>5. OneOwner'
    BY <1>0, <1>1, <1>3, <2>1 DEF OneOwner, db_get_owner
  <2>6. ToldIsKept'
    BY <1>0, <1>3, <2>2 DEF ToldIsKept, OneOwner, db_get_owner
  <2>. QED
    BY <2>3, <2>4, <2>5, <2>6
<1>4. CASE /\ Fault
           /\ mem' = [mem EXCEPT !.owner = NoDid]
           /\ torn' = TRUE
           /\ UNCHANGED told
  <2>1. /\ mem' \in Mem /\ mem'.owner = NoDid /\ mem'.state = mem.state
        /\ mem'.did = mem.did /\ mem'.vc = mem.vc /\ mem'.url = mem.url
    BY <1>4, <1>0 DEF Mem
  <2>2. TypeOK'
    <3>1. faults' \in Nat
      BY <1>4 DEF TypeOK, Fault
    <3>. QED
      BY <1>1, <1>2, <1>4, <2>1, <3>1 DEF TypeOK, Mem, Url, Job
  <2>3. DiskInOrder' /\ Believed' /\ InRequest' /\ MissedIsThere'
    BY <1>0, <1>1, <2>1 DEF DiskInOrder, Believed, InRequest, MissedIsThere, gen_feeds_url
  <2>4. OneOwner' /\ ToldIsKept'
    BY <1>4 DEF OneOwner, ToldIsKept
  <2>. QED
    BY <2>2, <2>3, <2>4
<1>. QED
  BY <1>3, <1>4

\* A declaration after the first changes what clients have been told only
LEMMA DeclaredBeforeInv ==
    ASSUME IInv, NEW d \in Dids, DeclaredBefore(d)
    PROVE  IInv'
<1>. USE DEF IInv, disk
<1>0. /\ UNCHANGED <<users, identity, docs, cred, mem, job, missed, renewed, torn>>
      /\ faults' \in Nat
  BY DEF DeclaredBefore, past, TypeOK, Fault, NoFault
<1>1. heard' \in [Dids -> Phases \cup {"none", "error"}]
  BY DEF DeclaredBefore, TypeOK, Hear, Phases
<1>2. DiskInOrder' /\ Believed' /\ InRequest' /\ MissedIsThere' /\ OneOwner'
  BY <1>0 DEF DiskInOrder, Believed, InRequest, MissedIsThere, OneOwner, db_get_owner,
              gen_feeds_url
<1>3. /\ told' \in [owners : SUBSET Dids, dids : SUBSET FeedsDids, date : Nat]
      /\ ToldIsKept'
  <2>1. CASE UNCHANGED told
    BY <2>1, <1>0 DEF ToldIsKept, TypeOK, db_get_owner
  <2>2. CASE /\ mem.owner = d /\ mem.state = "OWNER_DECLED"
             /\ told' = [told EXCEPT !.owners = @ \cup {d}]
    BY <2>2, <1>0 DEF ToldIsKept, TypeOK, OneOwner, db_get_owner
  <2>3. CASE /\ mem.owner = d /\ mem.state = "DID_IMPED"
             /\ told' = [told EXCEPT !.owners = @ \cup {d}, !.dids = @ \cup {mem.did}]
    <3>1. /\ told'.owners = told.owners \cup {d}
          /\ told'.dids = told.dids \cup {mem.did} /\ told'.date = told.date
          /\ mem.did \in docs
          /\ told' \in [owners : SUBSET Dids, dids : SUBSET FeedsDids, date : Nat]
      BY <2>3 DEF TypeOK, Believed
    <3>. QED
      BY <2>3, <3>1, <1>0 DEF ToldIsKept, OneOwner, db_get_owner
  <2>4. CASE /\ mem.owner = d /\ mem.state = "VC_ISSED"
             /\ told' = [told EXCEPT !.owners = @ \cup {d}, !.date = mem.vc]
    <3>1. /\ told'.owners = told.owners \cup {d}
          /\ told'.dids = told.dids /\ told'.date = mem.vc
          /\ told' \in [owners : SUBSET Dids, dids : SUBSET FeedsDids, date : Nat]
      BY <2>4 DEF TypeOK
    <3>2. ~renewed => \A s \in docs : docs = {s} /\ told'.date <= cred[s]
      BY <2>4, <3>1 DEF ToldIsKept, Believed
    <3>3. docs # {}
      BY <2>4 DEF Believed
    <3>. QED
      BY <2>4, <3>1, <3>2, <3>3, <1>0 DEF ToldIsKept, OneOwner, db_get_owner
  <2>. QED
    BY <2>1, <2>2, <2>3, <2>4 DEF DeclaredBefore
<1>4. TypeOK'
  BY <1>0, <1>1, <1>3 DEF TypeOK
<1>. QED
  BY <1>2, <1>3, <1>4

\* Creating the root identity of import_did (hdl_imp_did_req, did.c)
LEMMA CreateIdentityInv ==
    ASSUME IInv, NEW d \in Dids, NEW s \in FeedsDids, CreateIdentity(d, s)
    PROVE  IInv'
<1>. USE DEF IInv, CreateIdentity, Serving, past
<1>0. job.at = "idle" /\ faults' \in Nat
  BY DEF Idle, TypeOK, Fault, NoFault
<1>1. heard' \in [Dids -> Phases \cup {"none", "error"}]
  BY DEF TypeOK, Hear
<1>2. CASE UNCHANGED <<identity, job>>
  <2>1. TypeOK'
    BY <1>0, <1>1, <1>2 DEF TypeOK
  <2>2. DiskInOrder' /\ Believed' /\ InRequest' /\ MissedIsThere' /\ OneOwner' /\ ToldIsKept'
    BY <1>2 DEF DiskInOrder, Believed, InRequest, MissedIsThere, OneOwner, ToldIsKept,
                  db_get_owner, gen_feeds_url
  <2>. QED
    BY <2>1, <2>2
<1>3. CASE /\ identity' = TRUE
           /\ job' = [Idle EXCEPT !.at = "new_did", !.from = d, !.did = s]
  <2>1. job' \in Job /\ job'.at = "new_did" /\ job'.from = d /\ job'.did = s
    BY <1>3 DEF Job, Idle
  <2>2. TypeOK'
    BY <1>0, <1>1, <1>3, <2>1 DEF TypeOK, Job
  <2>3. DiskInOrder' /\ Believed' /\ MissedIsThere' /\ ToldIsKept'
    BY <1>3 DEF DiskInOrder, Believed, MissedIsThere, ToldIsKept, db_get_owner, gen_feeds_url
  <2>4. InRequest'
    BY <1>0, <1>3, <2>1 DEF InRequest
  <2>5. OneOwner'
    BY <2>1 DEF OneOwner, db_get_owner
  <2>. QED
    BY <2>2, <2>3, <2>4, <2>5
<1>. QED
  BY <1>2, <1>3

\* The document of import_did, its payload, and their failures
LEMMA NewDIDInv == ASSUME IInv, NewDID PROVE IInv'
<1>. USE DEF IInv, NewDID
<1>0. /\ job.at = "new_did" /\ mem \in Mem /\ mem.state = "OWNER_DECLED"
      /\ job.from \in Dids /\ job.did \in FeedsDids /\ identity
      /\ ~missed => docs = {}
      /\ users # <<>> /\ mem.vc = 0
  BY DEF TypeOK, Mem, Url, InRequest, Believed
<1>1. job' = Idle /\ job' \in Job /\ job'.at = "idle"
  BY DEF Job, Idle
<1>2. heard' \in [Dids -> Phases \cup {"none", "error"}] /\ faults' \in Nat
  <2>1. heard \in [Dids -> Phases \cup {"none", "error"}] /\ faults \in Nat
    BY DEF TypeOK
  <2>2. Hear(job.from, "did_imported") \/ Hear(job.from, "error")
    OBVIOUS
  <2>3. Fault \/ NoFault
    OBVIOUS
  <2>. QED
    BY <2>1, <2>2, <2>3 DEF Hear, Phases, Fault, NoFault
<1>3. CASE /\ job.did \notin docs
           /\ docs' = docs \cup {job.did}
           /\ mem' = state_set([mem EXCEPT !.did = job.did], "DID_IMPED")
           /\ Write
  <2>. DEFINE m == [mem EXCEPT !.did = job.did]
  <2>0. m \in Mem /\ m.owner = mem.owner /\ m.did = job.did /\ m.vc = 0
    BY <1>0 DEF Mem
  <2>1. "DID_IMPED" \in States
    BY DEF States
  <2>. HIDE DEF m
  <2>2. /\ mem' \in Mem /\ mem'.state = "DID_IMPED" /\ mem'.owner = mem.owner
        /\ mem'.did = job.did /\ mem'.vc = 0
        /\ mem'.url = gen_feeds_url("DID_IMPED", job.did)
    <3>1. mem' = state_set(m, "DID_IMPED")
      BY <1>3 DEF m
    <3>. QED
      BY <3>1, <2>0, <2>1, StateSet
  <2>3. /\ told' \in [owners : SUBSET Dids, dids : SUBSET FeedsDids, date : Nat]
        /\ told'.owners = told.owners /\ told'.dids \subseteq told.dids \cup {job.did}
        /\ told'.date = told.date
    BY <1>0, <1>3 DEF TypeOK
  <2>4. /\ missed' = FALSE /\ renewed' \in BOOLEAN
        /\ ~renewed' => ~renewed /\ docs = {} /\ docs' = {job.did}
    BY <1>0, <1>3 DEF Write, TypeOK
  <2>5. cred[job.did] = 0 /\ cred' = cred
    BY <1>0, <1>3 DEF DiskInOrder
  <2>6. TypeOK'
    BY <1>0, <1>1, <1>2, <1>3, <2>2, <2>3, <2>4 DEF TypeOK, Mem, Url, Job
  <2>7. DiskInOrder' /\ MissedIsThere'
    BY <1>0, <1>3, <2>4 DEF DiskInOrder, MissedIsThere
  <2>8. Believed'
    BY <1>0, <1>3, <2>2 DEF Believed
  <2>9. InRequest'
    BY <1>0, <1>1, <1>3, <2>2, <2>4, <2>5 DEF InRequest
  <2>10. OneOwner'
    BY <1>0, <1>1, <2>2 DEF OneOwner, db_get_owner
  <2>11. ToldIsKept'
    <3>1. ~torn => told'.owners \subseteq {db_get_owner}
      BY <2>3 DEF ToldIsKept
    <3>2. told'.dids \subseteq docs'
      BY <1>3, <2>3 DEF ToldIsKept
    <3>3. ~renewed' => docs' = {job.did} /\ told'.date = 0 /\ 0 <= cred[job.did]
      BY <2>3, <2>4, <2>5 DEF ToldIsKept
    <3>. QED
      BY <1>3, <2>5, <3>1, <3>2, <3>3 DEF ToldIsKept, db_get_owner
  <2>. QED
    BY <2>6, <2>7, <2>8, <2>9, <2>10, <2>11
<1>4. CASE UNCHANGED <<docs, mem, missed, renewed, told>>
  <2>1. TypeOK'
    BY <1>1, <1>2, <1>4 DEF TypeOK, Job
  <2>2. DiskInOrder' /\ Believed' /\ MissedIsThere' /\ ToldIsKept'
    BY <1>4 DEF DiskInOrder, Believed, MissedIsThere, ToldIsKept, db_get_owner, gen_feeds_url
  <2>3. InRequest' /\ OneOwner'
    BY <1>0, <1>1, <1>4 DEF InRequest, OneOwner, db_get_owner
  <2>. QED
    BY <2>1, <2>2, <2>3
<1>. QED
  BY <1>3, <1>4

\* Unless the process has missed one, a credential is stored only if it is newer than the one that is there
LEMMA AcceptableIs ==
    ASSUME IInv, Serving, NEW vc \in Credentials, Acceptable(vc)
    PROVE  /\ mem.state \in {"DID_IMPED", "VC_ISSED"}
           /\ vc.date \in Dates /\ vc.date \in Nat /\ vc.date > 0
           /\ mem.did \in docs /\ mem.did \in FeedsDids /\ cred[mem.did] \in Nat
           /\ ~missed => vc.date > cred[mem.did]
           /\ users # <<>> /\ identity
<1>1. job.at = "idle"
  BY DEF Serving, Idle
<1>2. vc.date \in Dates /\ vc.date \in Nat /\ vc.date > 0
  BY BoundsAssumption DEF Credentials, Dates
<1>3. mem.did \in docs /\ mem.did \in FeedsDids /\ cred[mem.did] \in Nat
  BY DEF IInv, Acceptable, Believed, TypeOK
<1>. QED
  BY <1>1, <1>2, <1>3 DEF IInv, Acceptable, InRequest, DiskInOrder

\* Storing the credential, or refusing it (process_vc_req, did.c)
LEMMA ProcessInv ==
    ASSUME IInv, Serving, NEW d \in Dids, NEW vc \in Credentials, process_vc_req(d, vc)
    PROVE  IInv'
<1>. USE DEF IInv, process_vc_req
<1>0. job.at = "idle" /\ faults' \in Nat /\ heard' \in [Dids -> Phases \cup {"none", "error"}]
  <2>1. heard \in [Dids -> Phases \cup {"none", "error"}] /\ faults \in Nat
    BY DEF TypeOK
  <2>2. Hear(d, "error") \/ UNCHANGED heard
    OBVIOUS
  <2>3. Fault \/ NoFault
    OBVIOUS
  <2>. QED
    BY <2>1, <2>2, <2>3 DEF Serving, Idle, Hear, Fault, NoFault
<1>1. CASE UNCHANGED <<cred, job, missed, renewed>>
  <2>1. TypeOK'
    BY <1>0, <1>1 DEF TypeOK
  <2>2. DiskInOrder' /\ Believed' /\ InRequest' /\ MissedIsThere' /\ OneOwner' /\ ToldIsKept'
    BY <1>1 DEF DiskInOrder, Believed, InRequest, MissedIsThere, OneOwner, ToldIsKept,
                  db_get_owner, gen_feeds_url
  <2>. QED
    BY <2>1, <2>2
<1>2. CASE /\ Acceptable(vc)
           /\ cred' = [cred EXCEPT ![mem.did] = vc.date]
           /\ job' = [Idle EXCEPT !.at = "stored", !.from = d, !.date = vc.date]
           /\ Write
  <2>0. /\ mem.state \in {"DID_IMPED", "VC_ISSED"}
        /\ vc.date \in Nat /\ vc.date > 0
        /\ mem.did \in docs /\ mem.did \in FeedsDids /\ cred[mem.did] \in Nat
        /\ ~missed => vc.date > cred[mem.did]
        /\ users # <<>> /\ identity
    BY <1>2, AcceptableIs
  <2>1. job' \in Job /\ job'.at = "stored" /\ job'.from = d /\ job'.date = vc.date
    BY <1>2, <2>0 DEF Job, Idle
  <2>2. /\ missed' = FALSE /\ renewed' \in BOOLEAN
        /\ ~renewed' => ~renewed /\ ~missed /\ docs = {mem.did}
    BY <1>2, <2>0 DEF Write, TypeOK, DiskInOrder
  <2>3. /\ cred' \in [FeedsDids -> Nat] /\ cred'[mem.did] = vc.date
        /\ \A s \in FeedsDids : s # mem.did => cred'[s] = cred[s]
    BY <1>2, <2>0 DEF TypeOK
  <2>4. TypeOK'
    BY <1>0, <2>1, <2>2, <2>3 DEF TypeOK, Job
  <2>5. DiskInOrder' /\ MissedIsThere'
    BY <2>0, <2>2, <2>3 DEF DiskInOrder, MissedIsThere, TypeOK
  <2>6. Believed'
    <3>1. mem.state = "VC_ISSED" => mem.vc <= vc.date
      <4>1. mem.state = "VC_ISSED" => mem.vc = cred[mem.did] /\ ~missed
        BY <1>0 DEF InRequest
      <4>. QED
        BY <2>0, <4>1
    <3>. QED
      BY <2>0, <2>3, <3>1 DEF Believed, gen_feeds_url
  <2>7. InRequest'
    BY <2>0, <2>1, <2>2, <2>3 DEF InRequest
  <2>8. OneOwner'
    BY <2>0, <2>1 DEF OneOwner, db_get_owner
  <2>9. ToldIsKept'
    <3>1. ~renewed' => told.date <= cred'[mem.did]
      <4>1. told.date \in Nat
        BY DEF TypeOK
      <4>2. ~renewed' => told.date <= cred[mem.did]
        BY <2>0, <2>2 DEF ToldIsKept
      <4>. QED
        BY <2>0, <2>2, <2>3, <4>1, <4>2
    <3>. QED
      BY <2>0, <2>2, <3>1 DEF ToldIsKept, db_get_owner
  <2>. QED
    BY <2>4, <2>5, <2>6, <2>7, <2>8, <2>9
<1>. QED
  BY <1>1, <1>2

\* update_credential is issue_credential for the owner of a service that is
\* ready (hdl_update_vc_req, did.c)
LEMMA UpdateInv ==
    ASSUME IInv, NEW d \in Dids, NEW vc \in Credentials, hdl_update_vc_req(d, vc)
    PROVE  IInv'
<1>. USE DEF IInv, disk, past
<1>1. CASE process_vc_req(d, vc)
  BY <1>1, ProcessInv DEF hdl_update_vc_req
<1>2. CASE Hear(d, "error") /\ NoFault /\ UNCHANGED <<disk, mem, job, past, told>>
  <2>1. TypeOK'
    BY <1>2 DEF TypeOK, Hear, NoFault
  <2>2. DiskInOrder' /\ Believed' /\ InRequest' /\ MissedIsThere' /\ OneOwner' /\ ToldIsKept'
    BY <1>2 DEF DiskInOrder, Believed, InRequest, MissedIsThere, OneOwner, ToldIsKept,
                  db_get_owner, gen_feeds_url
  <2>. QED
    BY <2>1, <2>2
<1>. QED
  BY <1>1, <1>2 DEF hdl_update_vc_req

\* The credential is stored and the process takes note of it
LEMMA StoredInv == ASSUME IInv, Stored PROVE IInv'
<1>. USE DEF IInv, Stored, disk, past
<1>0. /\ job.at = "stored" /\ mem \in Mem /\ mem.state \in {"DID_IMPED", "VC_ISSED"}
      /\ job.from \in Dids /\ job.date = cred[mem.did] /\ job.date > 0 /\ job.date \in Nat
      /\ mem.did \in docs /\ users # <<>> /\ ~missed
  BY DEF TypeOK, Mem, Url, InRequest, Believed
<1>1. job' = Idle /\ job' \in Job /\ job'.at = "idle"
  BY DEF Job, Idle
<1>2. heard' \in [Dids -> Phases \cup {"none", "error"}]
  BY <1>0 DEF TypeOK, Hear, Phases
<1>. DEFINE m == [mem EXCEPT !.vc = job.date]
<1>3. m \in Mem /\ m.owner = mem.owner /\ m.did = mem.did /\ m.vc = job.date
  BY <1>0 DEF Mem
<1>4. "VC_ISSED" \in States
  BY DEF States
<1>5. mem' = state_set(m, "VC_ISSED")
  OBVIOUS
<1>. HIDE DEF m
<1>6. /\ mem' \in Mem /\ mem'.state = "VC_ISSED" /\ mem'.owner = mem.owner
      /\ mem'.did = mem.did /\ mem'.vc = job.date
      /\ mem'.url = gen_feeds_url("VC_ISSED", mem.did)
  BY <1>3, <1>4, <1>5, StateSet
<1>7. /\ told' \in [owners : SUBSET Dids, dids : SUBSET FeedsDids, date : Nat]
      /\ told'.owners = told.owners /\ told'.dids = told.dids /\ told'.date = job.date
  BY <1>0 DEF TypeOK
<1>8. TypeOK'
  BY <1>0, <1>1, <1>2, <1>6, <1>7 DEF TypeOK, Mem, Url, Job
<1>9. DiskInOrder' /\ Believed' /\ InRequest' /\ MissedIsThere'
  BY <1>0, <1>1, <1>6 DEF DiskInOrder, Believed, InRequest, MissedIsThere
<1>10. OneOwner' /\ ToldIsKept'
  BY <1>0, <1>1, <1>6, <1>7 DEF OneOwner, ToldIsKept, db_get_owner
<1>. QED
  BY <1>8, <1>9, <1>10

-----------------------------------------------------------------------------
(* The theorems *)

\* Every step keeps the invariant
LEMMA StepInv == IInv /\ [Next]_vars => IInv'
<1>. SUFFICES ASSUME IInv, [Next]_vars PROVE IInv'
  OBVIOUS
<1>1. CASE did_init
  BY <1>1, StartInv
<1>2. CASE Crash
  BY <1>2, CrashInv
<1>3. CASE Worker
  BY <1>3, DeclareSelectedInv, NewDIDInv, StoredInv DEF Worker
<1>4. ASSUME NEW d \in Dids, DeclareFirst(d) PROVE IInv'
  BY <1>4, DeclareFirstInv
<1>5. ASSUME NEW d \in Dids, DeclaredBefore(d) PROVE IInv'
  BY <1>5, DeclaredBeforeInv
<1>6. ASSUME NEW d \in Dids, NEW s \in FeedsDids, CreateIdentity(d, s) PROVE IInv'
  BY <1>6, CreateIdentityInv
<1>7. ASSUME NEW d \in Dids, NEW vc \in Credentials, hdl_iss_vc_req(d, vc) PROVE IInv'
  BY <1>7, ProcessInv DEF hdl_iss_vc_req
<1>8. ASSUME NEW d \in Dids, NEW vc \in Credentials, hdl_update_vc_req(d, vc) PROVE IInv'
  BY <1>8, UpdateInv
<1>9. CASE UNCHANGED vars
  BY <1>9 DEF vars, disk, past, IInv, TypeOK, DiskInOrder, Believed, InRequest,
              MissedIsThere, OneOwner, ToldIsKept, db_get_owner, gen_feeds_url
<1>. QED
  BY <1>1, <1>2, <1>3, <1>4, <1>5, <1>6, <1>7, <1>8, <1>9 DEF Next

\* The order in which did.c writes the disk, what the memory says of it inside
\* every request, and where a request stands, hold through every crash and
\* every failed call
THEOREM Invariant == Spec => []IInv
BY InitInv, StepInv, PTL DEF Spec

\* The binding keeps its types
THEOREM TypeCorrect == Spec => []TypeOK
<1>1. IInv => TypeOK
  BY DEF IInv
<1>. QED
  BY <1>1, Invariant, PTL

\* Between two requests the variables of did.c are what did_init would make
\* of the disk, but for a torn upsert and a start that did not read it
THEOREM MemoryAgrees == Spec => []MemoryIsDisk
BY InvMemory, Invariant, PTL

\* No crash, no failed call and no start that does not read the disk takes
\* back what a client has been answered, but for what such a process rewrites
THEOREM AnswersSurvive == Spec => []ToldIsKept
<1>1. IInv => ToldIsKept
  BY DEF IInv
<1>. QED
  BY <1>1, Invariant, PTL

-----------------------------------------------------------------------------
(* The disk implements the binding *)

\* While nothing has been renewed the store has one DID or none
LEMMA OnlyDidIs ==
    ASSUME IInv
    PROVE  /\ renewed \/ docs = {} => OnlyDid = NoDid /\ ItsDate = 0
           /\ ~renewed => \A s \in docs : OnlyDid = s /\ s # NoDid /\ ItsDate = cred[s]
<1>1. renewed \/ docs = {} => OnlyDid = NoDid /\ ItsDate = 0
  BY DEF OnlyDid, ItsDate
<1>2. ASSUME ~renewed, NEW s \in docs PROVE OnlyDid = s /\ s # NoDid /\ ItsDate = cred[s]
  <2>1. docs = {s} /\ s # NoDid
    BY <1>2, NoDidAssumption DEF IInv, DiskInOrder, TypeOK
  <2>2. OnlyDid = s
    BY <1>2, <2>1 DEF OnlyDid
  <2>. QED
    BY <2>1, <2>2 DEF ItsDate
<1>. QED
  BY <1>1, <1>2

\* Once a DID or a credential has been renewed the binding promises the owner
\* only, and a service that has an owner keeps it
LEMMA RenewedRefines ==
    ASSUME IInv, IInv', renewed, renewed', UNCHANGED db_get_owner
    PROVE  UNCHANGED Bound!bindingVars
<1>1. OnlyDid = NoDid /\ ItsDate = 0 /\ Sight = "replaced"
  BY OnlyDidIs DEF Sight
<1>2. OnlyDid' = NoDid /\ ItsDate' = 0 /\ Sight' = "replaced"
  BY DEF Sight, OnlyDid, ItsDate
<1>. QED
  BY <1>1, <1>2 DEF Bound!bindingVars

\* A process that has missed a DID or a credential writes another
LEMMA ReplaceRefines ==
    ASSUME IInv, ~renewed, missed, renewed', UNCHANGED db_get_owner
    PROVE  Bound!Replace
<1>1. Sight = "blind"
  BY DEF Sight
<1>2. OnlyDid' = NoDid /\ ItsDate' = 0 /\ Sight' = "replaced"
  BY DEF Sight, OnlyDid, ItsDate
<1>. QED
  BY <1>1, <1>2 DEF Bound!Replace

\* A step of process_vc_req issues a credential of the binding, or replaces
\* one it has not read, or does nothing
LEMMA ProcessRefines ==
    ASSUME IInv, IInv', Serving, NEW d \in Dids, NEW vc \in Credentials, process_vc_req(d, vc)
    PROVE  [Bound!Next]_(Bound!bindingVars)
<1>0. UNCHANGED docs /\ UNCHANGED db_get_owner
  BY DEF process_vc_req, db_get_owner
<1>1. CASE UNCHANGED <<cred, job, missed, renewed>>
  BY <1>0, <1>1 DEF Bound!bindingVars, OnlyDid, ItsDate, Sight
<1>2. CASE Acceptable(vc) /\ cred' = [cred EXCEPT ![mem.did] = vc.date] /\ Write
  <2>1. /\ vc.date \in Dates /\ mem.did \in docs /\ mem.did \in FeedsDids
        /\ ~missed => vc.date > cred[mem.did]
        /\ missed \in BOOLEAN /\ renewed \in BOOLEAN
    BY <1>2, AcceptableIs DEF IInv, TypeOK
  <2>2. cred'[mem.did] = vc.date
    BY <1>2, <2>1 DEF IInv, TypeOK
  <2>3. CASE renewed
    BY <1>0, <1>2, <2>3, RenewedRefines DEF Write
  <2>4. CASE ~renewed /\ missed
    BY <1>0, <1>2, <2>4, ReplaceRefines DEF Write, Bound!Next
  <2>5. CASE ~renewed /\ ~missed
    <3>1. OnlyDid = mem.did /\ mem.did # NoDid /\ ItsDate = cred[mem.did] /\ Sight = "good"
      BY <2>1, <2>5, OnlyDidIs DEF Sight
    <3>2. ~renewed' /\ ~missed'
      BY <1>2, <2>5 DEF Write
    <3>3. OnlyDid' = OnlyDid /\ Sight' = "good"
      BY <1>0, <2>5, <3>2 DEF OnlyDid, Sight
    <3>4. ItsDate' = vc.date
      BY <2>2, <3>1, <3>3 DEF ItsDate, process_vc_req
    <3>5. Bound!Issue(vc.date)
      BY <1>0, <2>1, <2>5, <3>1, <3>3, <3>4 DEF Bound!Issue
    <3>. QED
      BY <2>1, <3>5 DEF Bound!Next
  <2>. QED
    BY <2>1, <2>3, <2>4, <2>5
<1>. QED
  BY <1>1, <1>2 DEF process_vc_req

\* import_did gives the binding its DID, or one that replaces it, or none
LEMMA NewDIDRefines ==
    ASSUME IInv, IInv', NewDID
    PROVE  [Bound!Next]_(Bound!bindingVars)
<1>0. /\ users # <<>> /\ job.did \in FeedsDids /\ (~missed => docs = {})
      /\ UNCHANGED db_get_owner /\ UNCHANGED cred
  BY DEF NewDID, IInv, InRequest, Believed, db_get_owner
<1>1. CASE UNCHANGED <<docs, mem, missed, renewed, told>>
  BY <1>0, <1>1 DEF Bound!bindingVars, OnlyDid, ItsDate, Sight
<1>2. CASE job.did \notin docs /\ docs' = docs \cup {job.did} /\ Write
  <2>1. CASE renewed
    BY <1>0, <1>2, <2>1, RenewedRefines DEF Write
  <2>2. CASE ~renewed /\ missed
    BY <1>0, <1>2, <2>2, ReplaceRefines DEF Write, Bound!Next
  <2>3. CASE ~renewed /\ ~missed
    <3>1. OnlyDid = NoDid /\ ItsDate = 0 /\ Sight = "good"
      BY <1>0, <2>3, OnlyDidIs DEF Sight
    <3>2. ~renewed' /\ ~missed' /\ docs' = {job.did}
      BY <1>0, <1>2, <2>3 DEF Write
    <3>3. OnlyDid' = job.did /\ Sight' = "good"
      BY <3>2 DEF OnlyDid, Sight
    <3>4. ItsDate' = 0
      <4>1. cred[job.did] = 0
        BY <1>0, <1>2 DEF IInv, DiskInOrder
      <4>. QED
        BY <1>0, <3>3, <4>1 DEF ItsDate
    <3>5. db_get_owner # NoDid
      BY <1>0, NoDidAssumption DEF db_get_owner, IInv, TypeOK
    <3>6. Bound!Import(job.did)
      BY <1>0, <3>1, <3>3, <3>4, <3>5 DEF Bound!Import
    <3>. QED
      BY <1>0, <3>6 DEF Bound!Next
  <2>. QED
    BY <2>1, <2>2, <2>3
<1>. QED
  BY <1>1, <1>2 DEF NewDID

\* A start sees what is there, is blind to it, or fails; a crash gives the
\* next start another chance
LEMMA RestartRefines ==
    ASSUME IInv, IInv', did_init \/ Crash
    PROVE  [Bound!Next]_(Bound!bindingVars)
<1>0. UNCHANGED <<docs, cred, renewed>> /\ UNCHANGED db_get_owner
  BY DEF did_init, Crash, disk, db_get_owner
<1>1. UNCHANGED OnlyDid /\ UNCHANGED ItsDate
  BY <1>0 DEF OnlyDid, ItsDate
<1>2. missed \in BOOLEAN /\ missed' \in BOOLEAN /\ (missed' => docs # {})
  BY <1>0 DEF IInv, TypeOK, MissedIsThere
<1>3. CASE renewed
  BY <1>0, <1>3, RenewedRefines
<1>4. CASE ~renewed /\ missed' = missed
  BY <1>0, <1>1, <1>4 DEF Sight, Bound!bindingVars
<1>5. CASE ~renewed /\ missed /\ ~missed'
  <2>1. Sight = "blind" /\ Sight' = "good"
    BY <1>0, <1>5 DEF Sight
  <2>. QED
    BY <1>0, <1>1, <2>1 DEF Bound!Next, Bound!See
<1>6. CASE ~renewed /\ ~missed /\ missed'
  <2>1. Sight = "good" /\ Sight' = "blind"
    BY <1>0, <1>6 DEF Sight
  <2>2. OnlyDid # NoDid
    BY <1>2, <1>6, OnlyDidIs
  <2>. QED
    BY <1>0, <1>1, <2>1, <2>2 DEF Bound!Next, Bound!Blind
<1>. QED
  BY <1>2, <1>3, <1>4, <1>5, <1>6

\* Only an empty users table takes an owner
LEMMA DeclareRefines ==
    ASSUME IInv, NEW d \in Dids, DeclareFirst(d)
    PROVE  [Bound!Next]_(Bound!bindingVars)
<1>1. UNCHANGED OnlyDid /\ UNCHANGED ItsDate /\ UNCHANGED Sight
  BY DEF DeclareFirst, past, OnlyDid, ItsDate, Sight
<1>2. CASE UNCHANGED users
  BY <1>1, <1>2 DEF Bound!bindingVars, db_get_owner
<1>3. CASE users = <<>> /\ users' = <<d>>
  <2>1. db_get_owner = NoDid /\ db_get_owner' = d
    BY <1>3 DEF db_get_owner
  <2>. QED
    BY <1>1, <2>1 DEF Bound!Next, Bound!Declare
<1>4. CASE users # <<>>
  <2>1. users' # <<>> /\ users'[1] = users[1]
    BY <1>4 DEF DeclareFirst, IInv, TypeOK
  <2>2. UNCHANGED db_get_owner
    BY <1>4, <2>1 DEF db_get_owner
  <2>. QED
    BY <1>1, <2>2 DEF Bound!bindingVars
<1>5. CASE users = <<>>
  <2>1. UNCHANGED users \/ users' = Append(users, d)
    BY DEF DeclareFirst
  <2>. QED
    BY <1>2, <1>3, <1>5, <2>1
<1>. QED
  BY <1>4, <1>5

\* Every step of did.c is a step of the binding or leaves it alone
LEMMA StepRefines == IInv /\ IInv' /\ [Next]_vars => [Bound!Next]_(Bound!bindingVars)
<1>. SUFFICES ASSUME IInv, IInv', [Next]_vars PROVE [Bound!Next]_(Bound!bindingVars)
  OBVIOUS
<1>1. CASE UNCHANGED <<users, docs, cred, missed, renewed>>
  BY <1>1 DEF Bound!bindingVars, db_get_owner, OnlyDid, ItsDate, Sight
<1>2. CASE NewDID
  BY <1>2, NewDIDRefines
<1>3. CASE did_init \/ Crash
  BY <1>3, RestartRefines
<1>4. ASSUME NEW d \in Dids, DeclareFirst(d) PROVE [Bound!Next]_(Bound!bindingVars)
  BY <1>4, DeclareRefines
<1>5. ASSUME NEW d \in Dids, NEW vc \in Credentials,
             hdl_iss_vc_req(d, vc) \/ hdl_update_vc_req(d, vc)
      PROVE  [Bound!Next]_(Bound!bindingVars)
  <2>1. CASE process_vc_req(d, vc)
    BY <1>5, <2>1, ProcessRefines DEF hdl_iss_vc_req, hdl_update_vc_req
  <2>2. CASE UNCHANGED <<disk, past>>
    BY <2>2, <1>1 DEF disk, past
  <2>. QED
    BY <1>5, <2>1, <2>2 DEF hdl_iss_vc_req, hdl_update_vc_req
<1>6. ASSUME NEW d \in Dids, DeclaredBefore(d)
      PROVE  UNCHANGED <<users, docs, cred, missed, renewed>>
  BY <1>6 DEF DeclaredBefore, disk, past
<1>7. ASSUME NEW d \in Dids, NEW s \in FeedsDids, CreateIdentity(d, s)
      PROVE  UNCHANGED <<users, docs, cred, missed, renewed>>
  BY <1>7 DEF CreateIdentity, past
<1>8. DeclareSelected \/ Stored \/ UNCHANGED vars
        => UNCHANGED <<users, docs, cred, missed, renewed>>
  BY DEF DeclareSelected, Stored, disk, past, vars
<1>. QED
  BY <1>1, <1>2, <1>3, <1>4, <1>5, <1>6, <1>7, <1>8 DEF Next, Worker

\* Through every crash, failed call and restart the disk implements the
\* binding: one owner, then one DID, then ever newer credentials, unless a
\* start that could not read them led to others
THEOREM ImplementsBinding == Spec => Implements
<1>1. Init => Bound!Init
  BY DEF Init, Bound!Init, db_get_owner, OnlyDid, ItsDate, Sight
<1>. QED
  BY <1>1, Invariant, StepRefines, PTL DEF Spec, Implements, Bound!Spec

=============================================================================
