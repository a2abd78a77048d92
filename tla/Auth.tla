-------------------------------- MODULE Auth --------------------------------
(***************************************************************************)
(* How clients log in once the service is bound: the challenge of auth.c   *)
(* (signin_request_challenge, signin_confirm_challenge) and the one of     *)
(* StandardAuth.cpp (standard_sign_in, standard_did_auth), which share the *)
(* users table and the owner's data in memory.  Requests run one after the *)
(* other on the command handler's thread; the Carrier thread sweeps the    *)
(* pending logins when it is idle, and a restart forgets every challenge   *)
(* but no token.                                                           *)
(*                                                                         *)
(* Requests that are refused before they change anything (a jws or a       *)
(* presentation that is not valid, another realm, an unknown nonce) and    *)
(* challenges that cannot be signed are left out: they leave every         *)
(* variable as it is.                                                      *)
(***************************************************************************)
EXTENDS Naturals, Sequences

CONSTANTS
    Users,       \* the DIDs users log in with
    Owner,       \* the one of the service's owner
    Apps,        \* the DIDs of the apps of a standard sign in
    Names,       \* the names credentials and sign in requests carry
    LoginTtl,    \* a login of auth.c is pending for 60 seconds
    SecretTtl,   \* a challenge of StandardAuth.cpp is good for 5 minutes
    MaxTime, MaxChals, MaxTokens, MaxFaults    \* bounds

ASSUME OwnerAssumption == Owner \in Users
ASSUME NamesAssumption == "NA" \notin Names
ASSUME TimesAssumption == LoginTtl \in Nat /\ SecretTtl \in Nat /\ MaxTime \in Nat
ASSUME BoundsAssumption == MaxChals \in Nat /\ MaxTokens \in Nat /\ MaxFaults \in Nat

VARIABLES
    now,         \* time(NULL), in ticks
    rows,        \* the users table by user_id: a DID and a name
    ownerName,   \* feeds_owner_info.name
    behind,      \* has an upsert of the owner failed since the last good one?
    pending,     \* pending_logins
    secrets,     \* authSecretMap
    chals,       \* every challenge handed out; its index stands for its nonce
    tokens,      \* every access token handed out
    resets,      \* every name that was overwritten with "NA": whose and when
    swept,       \* when auth_expire_login last ran
    faults

db == <<rows, ownerName, behind, resets>>
vars == <<now, rows, ownerName, behind, pending, secrets, chals, tokens,
          resets, swept, faults>>

Fault == faults < MaxFaults /\ faults' = faults + 1
NoFault == faults' = faults

-----------------------------------------------------------------------------
(* The users table *)

Stored(d) == \E i \in DOMAIN rows : rows[i].did = d

\* The user_id of an existing row, as the SELECT finds it
UidOf(table, d) == CHOOSE i \in DOMAIN table : table[i].did = d

\* The row is inserted, or has its name replaced
Upserted(d, name) ==
    IF Stored(d)
      THEN [i \in DOMAIN rows |->
              IF rows[i].did = d THEN [rows[i] EXCEPT !.name = name] ELSE rows[i]]
      ELSE Append(rows, [did |-> d, name |-> name])

BadNeed(d) == ~ \E i \in DOMAIN rows : rows[i].did = d
db_need_upsert_user(d) == ~ \E i \in DOMAIN rows : rows[i].did = d /\ rows[i].name # "NA"

BadOinfo(d, name) == ownerName
oinfo_upd(d, name) == IF d = Owner THEN name ELSE ownerName

Token(kind, nonce, d, table) ==
    LET uid == UidOf(table, d)
    IN  [kind |-> kind, nonce |-> nonce, did |-> d, uid |-> uid,
         name |-> table[uid].name, at |-> now, swept |-> swept]

\* What both logins do with a name: the owner's goes to memory first, then
\* db_upsert_user, then the token.  Its INSERT may fail, and its SELECT or
\* the signing of the token after it.
LogIn(kind, nonce, d, name) ==
    /\ ownerName' = oinfo_upd(d, name)
    /\ \/ /\ NoFault
          /\ rows' = Upserted(d, name)
          /\ behind' = IF d = Owner THEN FALSE ELSE behind
          /\ resets' = IF name = "NA" THEN resets \cup {[did |-> d, at |-> now]}
                                      ELSE resets
          /\ Len(tokens) < MaxTokens
          /\ tokens' = Append(tokens, Token(kind, nonce, d, rows'))
       \/ /\ Fault
          /\ rows' = Upserted(d, name)
          /\ behind' = IF d = Owner THEN FALSE ELSE behind
          /\ resets' = IF name = "NA" THEN resets \cup {[did |-> d, at |-> now]}
                                      ELSE resets
          /\ UNCHANGED tokens
       \/ /\ Fault
          /\ behind' = IF d = Owner THEN TRUE ELSE behind
          /\ UNCHANGED <<rows, resets, tokens>>

-----------------------------------------------------------------------------
(* auth.c *)

\* A database that does not answer makes the credential required
login_create(d, failed) ==
    [nonce |-> Len(chals) + 1, sub |-> d, expat |-> now + LoginTtl,
     vc_req |-> failed \/ db_need_upsert_user(d)]

hdl_signin_req_chal_req(d) ==
    /\ Len(chals) < MaxChals
    /\ \/ /\ NoFault
          /\ pending' = pending \cup {login_create(d, FALSE)}
       \/ /\ Fault
          /\ pending' = pending \cup {login_create(d, TRUE)}
    /\ chals' = Append(chals, [kind |-> "login", did |-> d, at |-> now])
    /\ UNCHANGED <<now, db, secrets, tokens, swept>>

BadRemove(login) == pending
pending_login_remove(login) == pending \ {login}

\* The last check of chal_resp_is_valid: the login is already removed when it
\* fails, and the time is not looked at
BadSigner(login, signer) == TRUE
SignerIsSubject(login, signer) == signer = login.sub

\* What a confirmation brings along: no credential, one that is not valid, not
\* the signer's or without a name, or the name in it
Brought == Names \cup {"nothing", "useless"}

hdl_signin_conf_chal_req(signer, login, vc) ==
    /\ login \in pending
    /\ pending' = pending_login_remove(login)
    /\ \/ /\ \/ ~SignerIsSubject(login, signer)
             \/ login.vc_req /\ vc = "nothing"
             \/ vc = "useless"
          /\ NoFault
          /\ UNCHANGED <<db, tokens>>
       \/ /\ SignerIsSubject(login, signer)
          /\ vc \in Names
          /\ LogIn("login", login.nonce, signer, vc)
       \/ /\ SignerIsSubject(login, signer)
          /\ vc = "nothing" /\ ~login.vc_req
          /\ \/ /\ NoFault
                /\ Len(tokens) < MaxTokens
                /\ tokens' = Append(tokens, Token("login", login.nonce, login.sub, rows))
             \/ Fault /\ UNCHANGED tokens
          /\ UNCHANGED db
    /\ UNCHANGED <<now, secrets, chals, swept>>

\* The sweep gives a login another period of grace
BadExpired(login) == login.expat + LoginTtl < now
Expired(login) == login.expat < now

\* The idle callback of the Carrier thread
auth_expire_login ==
    /\ pending' = {l \in pending : ~Expired(l)}
    /\ swept' = now
    /\ UNCHANGED <<now, db, secrets, chals, tokens, faults>>

-----------------------------------------------------------------------------
(* StandardAuth.cpp *)

onStandardSignIn(app) ==
    /\ Len(chals) < MaxChals
    /\ secrets' = secrets \cup {[nonce |-> Len(chals) + 1, did |-> app,
                                 expiration |-> now + SecretTtl]}
    /\ chals' = Append(chals, [kind |-> "standard", did |-> app, at |-> now])
    /\ UNCHANGED <<now, db, pending, tokens, swept, faults>>

\* The name a request without one logs in with
UserName(name) == IF name = "" THEN "NA" ELSE name

\* checkAuthToken: the secret is looked up, not removed
checkAuthToken(secret, app) == secret.did = app /\ secret.expiration >= now

onStandardDidAuth(secret, app, d, name) ==
    /\ secret \in secrets
    /\ checkAuthToken(secret, app)
    /\ LogIn("standard", secret.nonce, d, UserName(name))
    /\ UNCHANGED <<now, pending, secrets, chals, swept>>

-----------------------------------------------------------------------------
Tick ==
    /\ now < MaxTime
    /\ now' = now + 1
    /\ UNCHANGED <<db, pending, secrets, chals, tokens, swept, faults>>

\* auth_init and did_init: the challenges are gone, the owner's data is read
\* back from the table
Restart ==
    /\ Fault
    /\ pending' = {}
    /\ secrets' = {}
    /\ ownerName' = rows[1].name
    /\ behind' = FALSE
    /\ UNCHANGED <<now, rows, resets, chals, tokens, swept>>

\* The service is bound: its owner has the first row, still without a name
Init ==
    /\ now = 0
    /\ rows = <<[did |-> Owner, name |-> "NA"]>>
    /\ ownerName = "NA"
    /\ behind = FALSE
    /\ pending = {}
    /\ secrets = {}
    /\ chals = <<>>
    /\ tokens = <<>>
    /\ resets = {}
    /\ swept = 0
    /\ faults = 0

Next ==
    \/ \E d \in Users : hdl_signin_req_chal_req(d)
    \/ \E d \in Users, l \in pending, vc \in Brought : hdl_signin_conf_chal_req(d, l, vc)
    \/ \E a \in Apps : onStandardSignIn(a)
    \/ \E s \in secrets, a \in Apps, d \in Users, n \in Names \cup {""} :
          onStandardDidAuth(s, a, d, n)
    \/ auth_expire_login
    \/ Tick
    \/ Restart

Spec == Init /\ [][Next]_vars

-----------------------------------------------------------------------------
(* Properties *)

\* The types of the variables; the bounds hold.
TypeOK ==
    /\ now \in 0..MaxTime
    /\ rows \in Seq([did : Users, name : Names \cup {"NA"}])
    /\ ownerName \in Names \cup {"NA"}
    /\ behind \in BOOLEAN
    /\ pending \subseteq [nonce : 1..MaxChals, sub : Users, expat : Nat, vc_req : BOOLEAN]
    /\ secrets \subseteq [nonce : 1..MaxChals, did : Apps, expiration : Nat]
    /\ chals \in Seq([kind : {"login", "standard"}, did : Users \cup Apps, at : Nat])
    /\ tokens \in Seq([kind : {"login", "standard"}, nonce : 1..MaxChals, did : Users,
                       uid : Nat, name : Names \cup {"NA"}, at : Nat, swept : Nat])
    /\ resets \subseteq [did : Users, at : Nat]
    /\ swept \in 0..MaxTime
    /\ faults \in 0..MaxFaults

Logins == {i \in DOMAIN tokens : tokens[i].kind = "login"}

\* A challenge of auth.c is good for one token, whatever fails, expires or is
\* repeated: the confirmation takes the login out of the table first
\* (auth.c:285).  StandardAuth.cpp:392 only looks its challenge up.
OneTokenPerLogin ==
    \A i, j \in Logins : tokens[i].nonce = tokens[j].nonce => i = j

\* A token goes to the one who asked for its challenge: to the user of a
\* login, and for a standard sign in within the time of the challenge.  The
\* user_id in it is the one of the user's row, now and later, although rows are
\* inserted and updated by one statement (db.cpp:2471).  The variables have
\* their types.
TokensAreAskedFor ==
    /\ TypeOK
    /\ \A i \in DOMAIN tokens :
        LET t == tokens[i]
            c == chals[t.nonce]
        IN  /\ t.uid \in DOMAIN rows /\ rows[t.uid].did = t.did
            /\ t.kind = c.kind
            /\ t.kind = "login" => t.did = c.did
            /\ t.kind = "standard" => t.at <= c.at + SecretTtl

\* Nobody looks at the time when a login is confirmed: it is late only if the
\* idle callback has not come round since the login expired (auth.c:692)
LateOnlyBeforeSweep ==
    \A i \in Logins :
        LET expat == chals[tokens[i].nonce].at + LoginTtl
        IN  tokens[i].at > expat => tokens[i].swept <= expat

\* The owner's name in memory is the one of the owner's row, but after an
\* upsert that failed once oinfo_upd was done (auth.c:498, StandardAuth.cpp:463)
OwnerIsFresh == ~behind => ownerName = rows[1].name

\* A login without a name happens only when a standard login has overwritten
\* the user's name between the challenge and the confirmation: the credential
\* is required by what the table held at the time of the challenge (auth.c:92)
NamelessOnlyIfReset ==
    \A i \in Logins :
        tokens[i].name = "NA" =>
            \E r \in resets : /\ r.did = tokens[i].did
                              /\ chals[tokens[i].nonce].at <= r.at
                              /\ r.at <= tokens[i].at

=============================================================================
