-------------------------------- MODULE Did --------------------------------
(***************************************************************************)
(* How a feeds service is bound to its owner (did.c): the owner is         *)
(* declared, a DID is created in the DID store, and the owner issues the   *)
(* service a credential.  Each request changes the users table or the DID  *)
(* store first and the process's own variables after; did_init rebuilds    *)
(* those variables from the disk at every start.  A library call may fail, *)
(* those of did_init included, which takes what it cannot read for absent, *)
(* and the process may die between any two writes.                         *)
(***************************************************************************)
EXTENDS Naturals, Sequences

CONSTANTS
    Dids,        \* the DIDs clients declare themselves with
    FeedsDids,   \* the DIDs the mnemonics of import_did requests lead to
    MaxDate,     \* bound: issuance dates of credentials are 1..MaxDate
    MaxFaults,   \* bound: library calls that fail and crashes, together
    NoDid

ASSUME NoDidAssumption == NoDid \notin Dids /\ NoDid \notin FeedsDids
ASSUME BoundsAssumption == MaxDate \in Nat /\ MaxFaults \in Nat

VARIABLES
    users,       \* disk: the DIDs of the users table, by user_id
    identity,    \* disk: does the DID store contain a root identity?
    docs,        \* disk: the DIDs whose document and key are in the store
    cred,        \* disk: per DID, the issuance date of its credential, or 0
    mem,         \* the process: state, feeds_owner_info, feeds_did, feeds_vc
                 \* and feeds_url
    job,         \* the request the worker is in the middle of
    faults,      \* failed calls and crashes so far
    missed,      \* has this process not read a DID or a credential that is
                 \* on the disk, nor written another since?
    renewed,     \* has a process that had missed one ever written another?
    torn,        \* has an upsert failed after its INSERT had succeeded?
    heard,       \* per client, the last answer it received
    told         \* everything the answers have said so far

disk == <<users, identity, docs, cred>>
past == <<missed, renewed, torn>>
vars == <<disk, mem, job, faults, past, heard, told>>

Dates == 1..MaxDate
States == {"NO_OWNER", "OWNER_DECLED", "DID_IMPED", "VC_ISSED"}
Phases == {"owner_declared", "did_imported", "credential_issued"}

Idle == [at |-> "idle", from |-> NoDid, did |-> NoDid, date |-> 0]
Down == [Idle EXCEPT !.at = "down"]

Serving == job = Idle
Fault == faults < MaxFaults /\ faults' = faults + 1
NoFault == faults' = faults

-----------------------------------------------------------------------------
(* The process's variables *)

\* The address the binding page shows: its scheme, and the parts it contains
gen_feeds_url(state, did) ==
    [scheme |-> IF state = "VC_ISSED" THEN "feeds" ELSE "feeds_raw",
     did    |-> IF state \in {"DID_IMPED", "VC_ISSED"} THEN did ELSE NoDid,
     nonce  |-> state # "VC_ISSED"]

state_set(m, s) == [m EXCEPT !.state = s, !.url = gen_feeds_url(s, m.did)]

Blank ==
    [state |-> "NO_OWNER", owner |-> NoDid, did |-> NoDid, vc |-> 0,
     url |-> gen_feeds_url("NO_OWNER", NoDid)]

\* The row with OWNER_USER_ID, which is the first one inserted
db_get_owner == IF users = <<>> THEN NoDid ELSE users[1]

\* What did_init makes of the disk if DIDStore_ListDIDs leads it to the
\* document of s, or to none, and the credential it loads is dated n, or 0
Recovered(s, n) ==
    LET owned == [Blank EXCEPT !.owner = db_get_owner]
        named == [owned EXCEPT !.did = s]
    IN  CASE users = <<>> -> Blank
          [] users # <<>> /\ (~identity \/ s = NoDid) ->
                state_set(owned, "OWNER_DECLED")
          [] users # <<>> /\ identity /\ s # NoDid /\ n = 0 ->
                state_set(named, "DID_IMPED")
          [] users # <<>> /\ identity /\ s # NoDid /\ n > 0 ->
                state_set([named EXCEPT !.vc = n], "VC_ISSED")

\* The store lists its DIDs in any order, and load_feeds_doc takes the first
Recoveries ==
    IF docs = {} THEN {Recovered(NoDid, 0)} ELSE {Recovered(s, cred[s]) : s \in docs}

\* The identity, the document or the credential is there and is not read
Misreadings ==
    {Recovered(NoDid, 0) : s \in docs} \cup {Recovered(s, 0) : s \in {t \in docs : cred[t] > 0}}

\* did_init without its look at the stored credential
BadInit ==
    /\ job = Down
    /\ mem' \in IF docs = {} THEN Recoveries ELSE {Recovered(s, 0) : s \in docs}
    /\ missed' = FALSE
    /\ job' = Idle
    /\ UNCHANGED <<disk, faults, renewed, torn, heard, told>>

\* A call that did_init checks fails, and with it the start; or one whose
\* failure it takes for absence; or none
did_init ==
    /\ job = Down
    /\ \/ /\ mem' \in Recoveries
          /\ job' = Idle
          /\ NoFault
          /\ UNCHANGED missed
       \/ /\ mem' \in Misreadings
          /\ job' = Idle
          /\ missed' = TRUE
          /\ Fault
       \/ /\ Fault
          /\ UNCHANGED <<mem, job, missed>>
    /\ UNCHANGED <<disk, renewed, torn, heard, told>>

\* The process dies; feedsd.service starts it again
Crash ==
    /\ job # Down
    /\ Fault
    /\ mem' = Blank
    /\ job' = Down
    /\ missed' = FALSE
    /\ UNCHANGED <<disk, renewed, torn, heard, told>>

-----------------------------------------------------------------------------
(* declare_owner *)

Hear(d, answer) == heard' = [heard EXCEPT ![d] = answer]

\* oinfo_init, and the INSERT of db_upsert_user: the row is on the disk when
\* it succeeds.  When it fails oinfo_clear undoes the rest.
DeclareFirst(d) ==
    /\ Serving
    /\ mem.state = "NO_OWNER"
    /\ \/ /\ users' = IF d \in {users[i] : i \in DOMAIN users}
                        THEN users ELSE Append(users, d)
          /\ mem' = [mem EXCEPT !.owner = d]
          /\ job' = [Idle EXCEPT !.at = "select", !.from = d]
          /\ NoFault
          /\ UNCHANGED heard
       \/ /\ Fault
          /\ Hear(d, "error")
          /\ UNCHANGED <<users, mem, job>>
    /\ UNCHANGED <<identity, docs, cred, past, told>>

\* The SELECT of db_upsert_user, and the answer.  When the SELECT fails the
\* memory is cleared and the row stays.
DeclareSelected ==
    /\ job.at = "select"
    /\ job' = Idle
    /\ \/ /\ mem' = state_set(mem, "OWNER_DECLED")
          /\ Hear(job.from, "owner_declared")
          /\ told' = [told EXCEPT !.owners = @ \cup {job.from}]
          /\ NoFault
          /\ UNCHANGED torn
       \/ /\ Fault
          /\ mem' = [mem EXCEPT !.owner = NoDid]
          /\ Hear(job.from, "error")
          /\ torn' = TRUE
          /\ UNCHANGED told
    /\ UNCHANGED <<disk, missed, renewed>>

\* An imported DID is answered only as such, without the way to go on
BadDeclaredBefore(d) ==
    /\ Serving
    /\ mem.state # "NO_OWNER"
    /\ Hear(d, CASE mem.owner # d -> "error"
                 [] mem.owner = d /\ mem.state = "VC_ISSED" -> "credential_issued"
                 [] OTHER -> "owner_declared")
    /\ NoFault
    /\ UNCHANGED <<disk, mem, job, past, told>>

\* An owner is known: somebody else is refused, the owner learns the phase.
\* gen_tsx_payload, needed for an imported DID only, may fail.
DeclaredBefore(d) ==
    /\ Serving
    /\ mem.state # "NO_OWNER"
    /\ \/ /\ mem.owner # d
          /\ Hear(d, "error")
          /\ NoFault
          /\ UNCHANGED told
       \/ /\ mem.owner = d
          /\ mem.state = "OWNER_DECLED"
          /\ Hear(d, "owner_declared")
          /\ told' = [told EXCEPT !.owners = @ \cup {d}]
          /\ NoFault
       \/ /\ mem.owner = d
          /\ mem.state = "DID_IMPED"
          /\ Hear(d, "did_imported")
          /\ told' = [told EXCEPT !.owners = @ \cup {d}, !.dids = @ \cup {mem.did}]
          /\ NoFault
       \/ /\ mem.owner = d
          /\ mem.state = "DID_IMPED"
          /\ Fault
          /\ Hear(d, "error")
          /\ UNCHANGED told
       \/ /\ mem.owner = d
          /\ mem.state = "VC_ISSED"
          /\ Hear(d, "credential_issued")
          /\ told' = [told EXCEPT !.owners = @ \cup {d}, !.date = mem.vc]
          /\ NoFault
    /\ UNCHANGED <<disk, mem, job, past>>

-----------------------------------------------------------------------------
(* import_did: any client may send it, and it is silent in a wrong state *)

\* Generating a mnemonic and RootIdentity_Create, which overwrites
CreateIdentity(d, s) ==
    /\ Serving
    /\ mem.state = "OWNER_DECLED"
    /\ \/ /\ identity' = TRUE
          /\ job' = [Idle EXCEPT !.at = "new_did", !.from = d, !.did = s]
          /\ NoFault
          /\ UNCHANGED heard
       \/ /\ Fault
          /\ Hear(d, "error")
          /\ UNCHANGED <<identity, job>>
    /\ UNCHANGED <<users, docs, cred, mem, past, told>>

\* The process writes: what it had missed is replaced, or left behind
Write ==
    /\ renewed' = (renewed \/ missed)
    /\ missed' = FALSE

\* A document that could not be made is taken for one that is there
BadNewDID ==
    /\ job.at = "new_did"
    /\ job' = Idle
    /\ \/ /\ docs' = docs \cup {job.did}
          /\ NoFault
       \/ /\ Fault
          /\ UNCHANGED docs
    /\ mem' = state_set([mem EXCEPT !.did = job.did], "DID_IMPED")
    /\ Write
    /\ Hear(job.from, "did_imported")
    /\ told' = [told EXCEPT !.dids = @ \cup {job.did}]
    /\ UNCHANGED <<users, identity, cred, torn>>

\* RootIdentity_NewDIDByIndex, which does not overwrite, the new state, and
\* the answer with the payload of the transaction.  A payload that fails
\* leaves the new state behind.
NewDID ==
    /\ job.at = "new_did"
    /\ job' = Idle
    /\ \/ /\ job.did \notin docs
          /\ docs' = docs \cup {job.did}
          /\ mem' = state_set([mem EXCEPT !.did = job.did], "DID_IMPED")
          /\ Write
          /\ \/ /\ Hear(job.from, "did_imported")
                /\ told' = [told EXCEPT !.dids = @ \cup {job.did}]
                /\ NoFault
             \/ /\ Fault
                /\ Hear(job.from, "error")
                /\ UNCHANGED told
       \/ /\ Fault \/ (job.did \in docs /\ NoFault)
          /\ Hear(job.from, "error")
          /\ UNCHANGED <<docs, mem, missed, renewed, told>>
    /\ UNCHANGED <<users, identity, cred, torn>>

-----------------------------------------------------------------------------
(* issue_credential and update_credential *)

\* A credential for the DID vc.did.  One that cannot be parsed, is not valid
\* or has another id or owner counts as one for another DID.
Credentials == [did : FeedsDids, issuer : Dids, date : Dates]

\* The conditions of process_vc_req
Acceptable(vc) ==
    /\ mem.state \in {"DID_IMPED", "VC_ISSED"}
    /\ vc.did = mem.did
    /\ vc.issuer = mem.owner
    /\ mem.state = "VC_ISSED" => vc.date > mem.vc

\* The result of DIDStore_StoreCredential is not looked at
BadProcess(d, vc) ==
    /\ \/ /\ Acceptable(vc)
          /\ cred' = [cred EXCEPT ![mem.did] = vc.date]
          /\ NoFault
       \/ /\ Acceptable(vc)
          /\ Fault
          /\ UNCHANGED cred
    /\ job' = [Idle EXCEPT !.at = "stored", !.from = d, !.date = vc.date]
    /\ Write
    /\ UNCHANGED <<users, identity, docs, mem, torn, heard, told>>

\* DIDStore_StoreCredential, or the answer with the error
process_vc_req(d, vc) ==
    /\ \/ /\ Acceptable(vc)
          /\ cred' = [cred EXCEPT ![mem.did] = vc.date]
          /\ job' = [Idle EXCEPT !.at = "stored", !.from = d, !.date = vc.date]
          /\ Write
          /\ NoFault
          /\ UNCHANGED heard
       \/ /\ Fault \/ (~Acceptable(vc) /\ NoFault)
          /\ Hear(d, "error")
          /\ UNCHANGED <<cred, job, missed, renewed>>
    /\ UNCHANGED <<users, identity, docs, mem, torn, told>>

hdl_iss_vc_req(d, vc) ==
    /\ Serving
    /\ process_vc_req(d, vc)

\* The token says who asks; the answer to another client than the owner is an
\* error, and there is none before the service is ready
hdl_update_vc_req(d, vc) ==
    /\ Serving
    /\ mem.state = "VC_ISSED"
    /\ \/ /\ d = mem.owner
          /\ process_vc_req(d, vc)
       \/ /\ Hear(d, "error")
          /\ NoFault
          /\ UNCHANGED <<disk, mem, job, past, told>>

\* The credential is stored: feeds_vc, the state and the answer
Stored ==
    /\ job.at = "stored"
    /\ job' = Idle
    /\ mem' = state_set([mem EXCEPT !.vc = job.date], "VC_ISSED")
    /\ Hear(job.from, "credential_issued")
    /\ told' = [told EXCEPT !.date = job.date]
    /\ UNCHANGED <<disk, faults, past>>

-----------------------------------------------------------------------------
Init ==
    /\ users = <<>>
    /\ identity = FALSE
    /\ docs = {}
    /\ cred = [s \in FeedsDids |-> 0]
    /\ mem = Blank
    /\ job = Down
    /\ faults = 0
    /\ missed = FALSE
    /\ renewed = FALSE
    /\ torn = FALSE
    /\ heard = [d \in Dids |-> "none"]
    /\ told = [owners |-> {}, dids |-> {}, date |-> 0]

Worker == DeclareSelected \/ NewDID \/ Stored

Next ==
    \/ did_init
    \/ Crash
    \/ Worker
    \/ \E d \in Dids :
         \/ DeclareFirst(d)
         \/ DeclaredBefore(d)
         \/ \E s \in FeedsDids : CreateIdentity(d, s)
         \/ \E vc \in Credentials : hdl_iss_vc_req(d, vc) \/ hdl_update_vc_req(d, vc)

Spec == Init /\ [][Next]_vars

\* A client that does what the answers ask of it.  It sends no mnemonic, and
\* the service makes a new one.
Imports(d) ==
    /\ heard[d] = "owner_declared"
    /\ \E s \in FeedsDids \ docs : CreateIdentity(d, s)

Issues(d) ==
    /\ heard[d] = "did_imported"
    /\ \E vc \in Credentials : Acceptable(vc) /\ hdl_iss_vc_req(d, vc)

\* The daemon is restarted, the worker goes on, and a client keeps asking; the
\* worker takes requests in the order they came, so none waits for ever
Fairness ==
    /\ WF_vars(did_init)
    /\ WF_vars(Worker)
    /\ \A d \in Dids :
         /\ SF_vars(DeclareFirst(d) \/ DeclaredBefore(d))
         /\ SF_vars(Imports(d))
         /\ SF_vars(Issues(d))

FairSpec == Spec /\ Fairness

-----------------------------------------------------------------------------
(* Properties *)

\* The types of the variables.
TypeOK ==
    /\ users \in Seq(Dids)
    /\ identity \in BOOLEAN
    /\ docs \in SUBSET FeedsDids
    /\ cred \in [FeedsDids -> Nat]
    /\ mem \in [state : States, owner : Dids \cup {NoDid},
                did : FeedsDids \cup {NoDid}, vc : Nat,
                url : [scheme : {"feeds", "feeds_raw"},
                       did : FeedsDids \cup {NoDid}, nonce : BOOLEAN]]
    /\ job \in [at : {"idle", "down", "select", "new_did", "stored"},
                from : Dids \cup {NoDid}, did : FeedsDids \cup {NoDid}, date : Nat]
    /\ faults \in Nat
    /\ missed \in BOOLEAN
    /\ renewed \in BOOLEAN
    /\ torn \in BOOLEAN
    /\ heard \in [Dids -> Phases \cup {"none", "error"}]
    /\ told \in [owners : SUBSET Dids, dids : SUBSET FeedsDids, date : Nat]

\* Between two requests the process's variables, the address on the binding
\* page included, are what a restart would make of the disk: no failed step
\* of import_did or of the credential leaves the two apart (did.c:736-955).
\* The exceptions are an upsert whose INSERT succeeded and whose SELECT failed
\* (did.c:653, db.cpp:2524), and a start that could not read the DID or the
\* credential (did.c:542-568), until the process writes another.
MemoryIsDisk == Serving /\ ~torn /\ ~missed => mem \in Recoveries

\* What a client has been told survives every crash and every start that does
\* not read the disk: the owner it was told is the owner of the disk (again
\* but for the torn upsert), and the DID stays in the store.  Unless a
\* process that had not read them wrote new ones, it is the only DID there,
\* with no older a credential than the answered one.
ToldIsKept ==
    /\ ~torn => told.owners \subseteq {db_get_owner}
    /\ told.dids \subseteq docs
    /\ ~renewed =>
         /\ \A s \in docs : docs = {s} /\ told.date <= cred[s]
         /\ docs = {} => told.date = 0

\* Across crashes and restarts the disk implements the binding: one owner,
\* then one DID, then credentials issued later and later, even when a restart
\* or a failed step came in between.  A start that does not read the disk
\* makes it blind, which the next start undoes unless the process has written
\* a DID or a credential before.
OnlyDid == IF renewed \/ docs = {} THEN NoDid ELSE CHOOSE s \in docs : TRUE
ItsDate == IF OnlyDid = NoDid THEN 0 ELSE cred[OnlyDid]
Sight == CASE renewed             -> "replaced"
           [] ~renewed /\ missed  -> "blind"
           [] ~renewed /\ ~missed -> "good"
Bound == INSTANCE Binding
         WITH owner <- db_get_owner, did <- OnlyDid, date <- ItsDate, sight <- Sight
Implements == Bound!Spec

\* A client that keeps asking declare_owner and does what it is told gets the
\* service bound, whatever failed or crashed on the way
BecomesReady ==
    /\ <>[](mem.state = "VC_ISSED")
    /\ \E d \in Dids : []<>(heard[d] = "credential_issued")

=============================================================================
