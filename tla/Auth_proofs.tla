---------------------------- MODULE Auth_proofs ----------------------------
(***************************************************************************)
(* Proofs about Auth, for any users, apps and names, any periods and any   *)
(* bounds: who gets a token, for which challenge, how late, and with which *)
(* row and name.                                                           *)
(***************************************************************************)
EXTENDS Auth, TLAPS

Names1 == Names \cup {"NA"}
RowType == [did : Users, name : Names1]
LoginType == [nonce : 1..MaxChals, sub : Users, expat : Nat, vc_req : BOOLEAN]
SecretType == [nonce : 1..MaxChals, did : Apps, expiration : Nat]
ChalType == [kind : {"login", "standard"}, did : Users \cup Apps, at : Nat]
TokenType == [kind : {"login", "standard"}, nonce : 1..MaxChals, did : Users,
              uid : Nat, name : Names1, at : Nat, swept : Nat]

\* The first row is the owner's, and a user has one row
OneRowEach ==
    /\ 1 \in DOMAIN rows /\ rows[1].did = Owner
    /\ \A i, j \in DOMAIN rows : rows[i].did = rows[j].did => i = j

\* Nothing has happened later than now
Past ==
    /\ swept <= now
    /\ \A i \in DOMAIN chals : chals[i].at <= now
    /\ \A r \in resets : r.at <= now

\* The name of user d was overwritten since t
ResetSince(d, t) == \E r \in resets : r.did = d /\ t <= r.at /\ r.at <= now

\* A login in the table is the one of its challenge, has given no token, was
\* spared by the last sweep, and is let in without a credential only if the
\* user's row has a name or has lost it since
LoginOk(l) ==
    /\ l.nonce \in DOMAIN chals
    /\ chals[l.nonce].kind = "login" /\ chals[l.nonce].did = l.sub
    /\ l.expat = chals[l.nonce].at + LoginTtl
    /\ \A i \in DOMAIN tokens : tokens[i].nonce # l.nonce
    /\ swept <= l.expat
    /\ ~l.vc_req =>
         \E i \in DOMAIN rows :
            /\ rows[i].did = l.sub
            /\ rows[i].name # "NA" \/ ResetSince(l.sub, chals[l.nonce].at)

PendingOk ==
    /\ \A l \in pending : LoginOk(l)
    /\ \A l, m \in pending : l.nonce = m.nonce => l = m

SecretOk(s) ==
    /\ s.nonce \in DOMAIN chals
    /\ chals[s.nonce].kind = "standard"
    /\ s.expiration = chals[s.nonce].at + SecretTtl

SecretsOk == \A s \in secrets : SecretOk(s)

\* What the properties say of one token
TokenOk(t) ==
    /\ t.nonce \in DOMAIN chals /\ t.at <= now
    /\ t.uid \in DOMAIN rows /\ rows[t.uid].did = t.did
    /\ t.kind = chals[t.nonce].kind
    /\ t.kind = "login" =>
         /\ t.did = chals[t.nonce].did
         /\ t.at > chals[t.nonce].at + LoginTtl => t.swept <= chals[t.nonce].at + LoginTtl
         /\ t.name = "NA" =>
              \E r \in resets : r.did = t.did /\ chals[t.nonce].at <= r.at /\ r.at <= t.at
    /\ t.kind = "standard" => t.at <= chals[t.nonce].at + SecretTtl

TokensOk == \A i \in DOMAIN tokens : TokenOk(tokens[i])

IInv ==
    /\ TypeOK /\ OneRowEach /\ Past /\ PendingOk /\ SecretsOk /\ TokensOk
    /\ OneTokenPerLogin /\ OwnerIsFresh

-----------------------------------------------------------------------------
(* The users table *)

\* db_upsert_user keeps every row where it is, and the row of d has the name
LEMMA Upsert ==
    ASSUME TypeOK, OneRowEach, NEW d \in Users, NEW name \in Names1
    PROVE  LET new == Upserted(d, name) IN
           /\ new \in Seq(RowType)
           /\ \A i \in DOMAIN rows :
                 /\ i \in DOMAIN new /\ new[i].did = rows[i].did
                 /\ rows[i].did = d => new[i].name = name
                 /\ rows[i].did # d => new[i] = rows[i]
           /\ \A i, j \in DOMAIN new : new[i].did = new[j].did => i = j
           /\ \E i \in DOMAIN new : new[i].did = d /\ new[i].name = name
<1>. DEFINE new == Upserted(d, name)
<1>0. rows \in Seq(RowType)
  BY DEF TypeOK, RowType, Names1
<1>1. CASE Stored(d)
  <2>. DEFINE f == [i \in DOMAIN rows |->
                 IF rows[i].did = d THEN [rows[i] EXCEPT !.name = name] ELSE rows[i]]
  <2>1. new = f
    BY <1>1 DEF Upserted
  <2>2. DOMAIN rows = 1..Len(rows) /\ Len(rows) \in Nat /\ \A i \in DOMAIN rows : rows[i] \in RowType
    BY <1>0
  <2>3. \A i \in DOMAIN rows : f[i] \in RowType /\ f[i].did = rows[i].did
                               /\ (rows[i].did = d => f[i].name = name)
                               /\ (rows[i].did # d => f[i] = rows[i])
    BY <2>2 DEF RowType
  <2>4. f \in Seq(RowType)
    <3>1. f \in [1..Len(rows) -> RowType]
      BY <2>2, <2>3
    <3>. QED
      BY <3>1, <2>2
  <2>5. DOMAIN f = DOMAIN rows
    OBVIOUS
  <2>6. PICK k \in DOMAIN rows : rows[k].did = d
    BY <1>1 DEF Stored
  <2>. HIDE DEF f
  <2>. QED
    BY <2>1, <2>3, <2>4, <2>5, <2>6 DEF OneRowEach
<1>2. CASE ~Stored(d)
  <2>. DEFINE r == [did |-> d, name |-> name]
              f == Append(rows, r)
  <2>1. new = f
    BY <1>2 DEF Upserted
  <2>2. r \in RowType /\ r.did = d /\ r.name = name
    BY DEF RowType
  <2>. HIDE DEF r
  <2>3. /\ f \in Seq(RowType) /\ DOMAIN rows = 1..Len(rows) /\ Len(rows) \in Nat
        /\ DOMAIN f = 1..(Len(rows) + 1) /\ f[Len(rows) + 1] = r
        /\ \A i \in 1..Len(rows) : f[i] = rows[i]
    BY <1>0, <2>2
  <2>4. \A i \in 1..Len(rows) : rows[i].did # d
    BY <1>2, <2>3 DEF Stored
  <2>. HIDE DEF f
  <2>5. \A i \in DOMAIN f : i = Len(rows) + 1 \/ i \in DOMAIN rows
    BY <2>3
  <2>6. Len(rows) + 1 \in DOMAIN f
    BY <2>3
  <2>. QED
    BY <2>1, <2>2, <2>3, <2>4, <2>5, <2>6 DEF OneRowEach
<1>. QED
  BY <1>1, <1>2

\* The user_id of a user who has a row in the table is the one of that row
LEMMA UidFound ==
    ASSUME NEW table, NEW d, NEW k \in DOMAIN table, table[k].did = d
    PROVE  UidOf(table, d) \in DOMAIN table /\ table[UidOf(table, d)].did = d
BY DEF UidOf

-----------------------------------------------------------------------------
(* What every step leaves as it is *)

\* Challenges and overwritten names are only added, and the row of a user
\* stays his: it loses its name only by an overwriting that is recorded
Grown ==
    /\ resets \subseteq resets' /\ now <= now'
    /\ \A i \in DOMAIN chals : i \in DOMAIN chals' /\ chals'[i] = chals[i]
    /\ \A i \in DOMAIN rows :
         /\ i \in DOMAIN rows' /\ rows'[i].did = rows[i].did
         /\ \/ rows'[i].name # "NA"
            \/ rows'[i].name = rows[i].name
            \/ \E r \in resets' : r.did = rows[i].did /\ r.at = now

\* A token that was right stays right
LEMMA TokenStays ==
    ASSUME IInv, Grown, now' \in Nat, NEW t \in TokenType, TokenOk(t)
    PROVE  TokenOk(t)'
<1>1. now \in Nat
  BY TimesAssumption DEF IInv, TypeOK
<1>2. t.at \in Nat
  BY DEF TokenType
<1>3. t.at <= now'
  BY <1>1, <1>2 DEF Grown, TokenOk
<1>. QED
  BY <1>3 DEF Grown, TokenOk

\* So does a pending login that gave no token and that no sweep has passed
LEMMA LoginStays ==
    ASSUME IInv, Grown, now' \in Nat, NEW l \in pending,
           swept' <= l.expat, \A i \in DOMAIN tokens' : tokens'[i].nonce # l.nonce
    PROVE  LoginOk(l)'
<1>1. now \in Nat /\ chals \in Seq(ChalType) /\ LoginOk(l) /\ resets \in SUBSET [did : Users, at : Nat]
  BY TimesAssumption DEF IInv, TypeOK, ChalType, PendingOk
<1>2. chals[l.nonce] \in ChalType /\ chals'[l.nonce] = chals[l.nonce] /\ l.nonce \in DOMAIN chals'
  BY <1>1 DEF LoginOk, Grown
<1>3. chals[l.nonce].at \in Nat /\ chals[l.nonce].at <= now
  BY <1>1, <1>2 DEF ChalType, IInv, Past, LoginOk
<1>4. ASSUME ~l.vc_req
      PROVE  \E i \in DOMAIN rows' :
                /\ rows'[i].did = l.sub
                /\ rows'[i].name # "NA" \/ ResetSince(l.sub, chals[l.nonce].at)'
  <2>1. PICK i \in DOMAIN rows : /\ rows[i].did = l.sub
                                 /\ rows[i].name # "NA" \/ ResetSince(l.sub, chals[l.nonce].at)
    BY <1>1, <1>4 DEF LoginOk
  <2>2. i \in DOMAIN rows' /\ rows'[i].did = l.sub
    BY <2>1 DEF Grown
  <2>3. CASE ResetSince(l.sub, chals[l.nonce].at)
    <3>1. PICK r \in resets : r.did = l.sub /\ chals[l.nonce].at <= r.at /\ r.at <= now
      BY <2>3 DEF ResetSince
    <3>2. r \in resets' /\ r.at \in Nat
      BY <1>1 DEF Grown
    <3>3. r.at <= now'
      BY <1>1, <3>1, <3>2 DEF Grown
    <3>. QED
      BY <1>2, <2>2, <3>1, <3>2, <3>3 DEF ResetSince
  <2>4. CASE \E r \in resets' : r.did = rows[i].did /\ r.at = now
    BY <1>1, <1>2, <1>3, <2>1, <2>2, <2>4 DEF ResetSince, Grown
  <2>5. CASE rows'[i].name # "NA"
    BY <2>2, <2>5
  <2>. QED
    BY <2>1, <2>3, <2>4, <2>5 DEF Grown
<1>. QED
  BY <1>1, <1>2, <1>4 DEF LoginOk

\* The parts about challenges and tokens survive a step without a new token
LEMMA NoNewToken ==
    ASSUME IInv, Grown, now' \in Nat, UNCHANGED tokens
    PROVE  TokensOk' /\ OneTokenPerLogin'
<1>1. tokens \in Seq(TokenType)
  BY DEF IInv, TypeOK, TokenType, Names1
<1>2. TokensOk'
  BY <1>1, TokenStays DEF IInv, TokensOk
<1>. QED
  BY <1>2 DEF IInv, OneTokenPerLogin, Logins

\* They survive a new token that is right, if its login gave none before
LEMMA NewToken ==
    ASSUME IInv, Grown, now' \in Nat, NEW t \in TokenType, TokenOk(t)',
           tokens' = Append(tokens, t),
           t.kind = "login" => \A i \in DOMAIN tokens : tokens[i].nonce # t.nonce
    PROVE  /\ tokens' \in Seq(TokenType) /\ TokensOk' /\ OneTokenPerLogin'
           /\ \A i \in DOMAIN tokens' : tokens'[i] = t \/ (i \in DOMAIN tokens /\ tokens'[i] = tokens[i])
<1>1. tokens \in Seq(TokenType)
  BY DEF IInv, TypeOK, TokenType, Names1
<1>2. /\ tokens' \in Seq(TokenType) /\ DOMAIN tokens = 1..Len(tokens) /\ Len(tokens) \in Nat
      /\ DOMAIN tokens' = 1..(Len(tokens) + 1) /\ tokens'[Len(tokens) + 1] = t
      /\ \A i \in 1..Len(tokens) : tokens[i] \in TokenType /\ tokens'[i] = tokens[i]
  BY <1>1
<1>3. \A i \in DOMAIN tokens' :
         \/ i = Len(tokens) + 1 /\ tokens'[i] = t
         \/ i \in DOMAIN tokens /\ tokens'[i] = tokens[i] /\ tokens[i] \in TokenType
  BY <1>2
<1>4. TokensOk'
  <2>1. ASSUME NEW i \in DOMAIN tokens'
        PROVE  \E u \in TokenType : u = tokens'[i] /\ TokenOk(u)'
    <3>1. CASE tokens'[i] = t
      BY <3>1
    <3>2. CASE i \in DOMAIN tokens /\ tokens'[i] = tokens[i] /\ tokens[i] \in TokenType
      <4>1. PICK u \in TokenType : u = tokens[i]
        BY <3>2
      <4>2. TokenOk(u)
        BY <3>2, <4>1 DEF IInv, TokensOk
      <4>3. TokenOk(u)'
        BY <4>2, TokenStays
      <4>. QED
        BY <3>2, <4>1, <4>3
    <3>. QED
      BY <1>3, <3>1, <3>2
  <2>. QED
    BY <2>1 DEF TokensOk, TokenOk
<1>5. OneTokenPerLogin'
  <2>1. SUFFICES ASSUME NEW i \in DOMAIN tokens', NEW j \in DOMAIN tokens',
                        tokens'[i].kind = "login", tokens'[j].kind = "login",
                        tokens'[i].nonce = tokens'[j].nonce
                 PROVE  i = j
    BY DEF OneTokenPerLogin, Logins
  <2>. QED
    BY <1>3, <2>1 DEF IInv, OneTokenPerLogin, Logins
<1>. QED
  BY <1>2, <1>3, <1>4, <1>5

\* Logging in with a name, which auth.c:504 and StandardAuth.cpp:451 do in the
\* same order, whatever of it fails
LEMMA LoggingIn ==
    ASSUME IInv, NEW kind \in {"login", "standard"}, NEW nonce \in 1..MaxChals,
           NEW d \in Users, NEW name \in Names1,
           LogIn(kind, nonce, d, name), UNCHANGED <<now, chals, swept>>
    PROVE  /\ rows' \in Seq(RowType) /\ ownerName' \in Names1 /\ behind' \in BOOLEAN
           /\ resets' \subseteq [did : Users, at : Nat] /\ faults' \in 0..MaxFaults
           /\ OneRowEach' /\ Past' /\ OwnerIsFresh' /\ Grown
           /\ \/ UNCHANGED tokens
              \/ \E t \in TokenType :
                   /\ tokens' = Append(tokens, t)
                   /\ t.kind = kind /\ t.nonce = nonce /\ t.did = d /\ t.name = name
                   /\ t.uid \in DOMAIN rows' /\ rows'[t.uid].did = d
                   /\ t.at = now /\ t.swept = swept
<1>. DEFINE new == Upserted(d, name)
            reset == [did |-> d, at |-> now]
<1>1. /\ now \in Nat /\ swept \in Nat /\ rows \in Seq(RowType) /\ faults \in 0..MaxFaults
      /\ ownerName \in Names1 /\ behind \in BOOLEAN /\ resets \subseteq [did : Users, at : Nat]
  BY TimesAssumption DEF IInv, TypeOK, RowType, Names1
<1>2. OneRowEach /\ Past /\ OwnerIsFresh /\ TypeOK
  BY DEF IInv
<1>3. /\ new \in Seq(RowType)
      /\ \A i \in DOMAIN rows :
            /\ i \in DOMAIN new /\ new[i].did = rows[i].did
            /\ rows[i].did = d => new[i].name = name
            /\ rows[i].did # d => new[i] = rows[i]
      /\ \A i, j \in DOMAIN new : new[i].did = new[j].did => i = j
      /\ \E i \in DOMAIN new : new[i].did = d /\ new[i].name = name
  BY <1>2, Upsert
<1>4. ownerName' = (IF d = Owner THEN name ELSE ownerName)
  BY DEF LogIn, oinfo_upd
<1>5. faults' \in 0..MaxFaults
  <2>1. Fault \/ NoFault
    BY DEF LogIn
  <2>. QED
    BY <1>1, <2>1, BoundsAssumption DEF Fault, NoFault
<1>6. reset \in [did : Users, at : Nat] /\ reset.did = d /\ reset.at = now
  BY <1>1
<1>. HIDE DEF new, reset
<1>7. ASSUME rows' = new, behind' = (IF d = Owner THEN FALSE ELSE behind),
             resets' = (IF name = "NA" THEN resets \cup {reset} ELSE resets)
      PROVE  /\ rows' \in Seq(RowType) /\ behind' \in BOOLEAN
             /\ resets' \subseteq [did : Users, at : Nat]
             /\ OneRowEach' /\ Past' /\ OwnerIsFresh' /\ Grown
  <2>1. OneRowEach'
    BY <1>2, <1>3, <1>7 DEF OneRowEach
  <2>2. Past'
    BY <1>1, <1>2, <1>6, <1>7 DEF Past
  <2>3. OwnerIsFresh'
    <3>1. 1 \in DOMAIN rows /\ rows[1].did = Owner
      BY <1>2 DEF OneRowEach
    <3>2. CASE d = Owner
      BY <1>3, <1>4, <1>7, <3>1, <3>2 DEF OwnerIsFresh
    <3>3. CASE d # Owner
      BY <1>2, <1>3, <1>4, <1>7, <3>1, <3>3 DEF OwnerIsFresh
    <3>. QED
      BY <3>2, <3>3
  <2>4. Grown
    <3>1. resets \subseteq resets' /\ now <= now' /\ UNCHANGED chals
      BY <1>1, <1>7
    <3>2. ASSUME NEW i \in DOMAIN rows
          PROVE  /\ i \in DOMAIN rows' /\ rows'[i].did = rows[i].did
                 /\ \/ rows'[i].name # "NA"
                    \/ rows'[i].name = rows[i].name
                    \/ \E r \in resets' : r.did = rows[i].did /\ r.at = now
      BY <1>3, <1>6, <1>7
    <3>. QED
      BY <3>1, <3>2 DEF Grown
  <2>5. behind' \in BOOLEAN
    BY <1>1, <1>7, Zenon
  <2>6. resets' \subseteq [did : Users, at : Nat]
    BY <1>1, <1>6, <1>7
  <2>. QED
    BY <1>3, <1>7, <2>1, <2>2, <2>3, <2>4, <2>5, <2>6
<1>8. ownerName' \in Names1
  BY <1>1, <1>4
<1>9. CASE /\ rows' = new /\ behind' = (IF d = Owner THEN FALSE ELSE behind)
           /\ resets' = (IF name = "NA" THEN resets \cup {reset} ELSE resets)
           /\ tokens' = Append(tokens, Token(kind, nonce, d, rows'))
  <2>. DEFINE t == Token(kind, nonce, d, rows')
              uid == UidOf(rows', d)
  <2>1. uid \in DOMAIN rows' /\ rows'[uid].did = d /\ rows'[uid].name = name
    BY <1>3, <1>9, UidFound
  <2>2. uid \in Nat
    BY <1>3, <1>9, <2>1
  <2>3. t = [kind |-> kind, nonce |-> nonce, did |-> d, uid |-> uid,
             name |-> rows'[uid].name, at |-> now, swept |-> swept]
    BY DEF Token
  <2>. HIDE DEF t, uid
  <2>4. /\ t \in TokenType /\ t.kind = kind /\ t.nonce = nonce /\ t.did = d /\ t.name = name
        /\ t.uid = uid /\ t.at = now /\ t.swept = swept
    BY <1>1, <2>1, <2>2, <2>3 DEF TokenType
  <2>5. tokens' = Append(tokens, t)
    BY <1>9 DEF t
  <2>. QED
    BY <1>5, <1>7, <1>8, <1>9, <2>1, <2>4, <2>5
<1>10. CASE /\ rows' = new /\ behind' = (IF d = Owner THEN FALSE ELSE behind)
            /\ resets' = (IF name = "NA" THEN resets \cup {reset} ELSE resets)
            /\ UNCHANGED tokens
  BY <1>5, <1>7, <1>8, <1>10
<1>11. CASE /\ behind' = (IF d = Owner THEN TRUE ELSE behind)
            /\ UNCHANGED <<rows, resets, tokens>>
  <2>1. OneRowEach' /\ Past'
    BY <1>2, <1>11 DEF OneRowEach, Past
  <2>2. OwnerIsFresh'
    BY <1>2, <1>4, <1>11 DEF OwnerIsFresh
  <2>3. Grown
    BY <1>1, <1>11 DEF Grown
  <2>4. behind' \in BOOLEAN
    BY <1>1, <1>11, Zenon
  <2>. QED
    BY <1>1, <1>5, <1>8, <1>11, <2>1, <2>2, <2>3, <2>4
<1>. QED
  BY <1>9, <1>10, <1>11 DEF LogIn, new, reset

-----------------------------------------------------------------------------
(* One lemma per action *)

\* The type invariant with the types named
LEMMA Types ==
    TypeOK <=>
      /\ now \in 0..MaxTime /\ swept \in 0..MaxTime /\ faults \in 0..MaxFaults
      /\ rows \in Seq(RowType) /\ ownerName \in Names1 /\ behind \in BOOLEAN
      /\ pending \subseteq LoginType /\ secrets \subseteq SecretType
      /\ chals \in Seq(ChalType) /\ tokens \in Seq(TokenType)
      /\ resets \subseteq [did : Users, at : Nat]
BY DEF TypeOK, RowType, Names1, LoginType, SecretType, ChalType, TokenType

LEMMA TypesNext ==
    ASSUME now' \in 0..MaxTime, swept' \in 0..MaxTime, faults' \in 0..MaxFaults,
           rows' \in Seq(RowType), ownerName' \in Names1, behind' \in BOOLEAN,
           pending' \subseteq LoginType, secrets' \subseteq SecretType,
           chals' \in Seq(ChalType), tokens' \in Seq(TokenType),
           resets' \subseteq [did : Users, at : Nat]
    PROVE  TypeOK'
BY DEF TypeOK, RowType, Names1, LoginType, SecretType, ChalType, TokenType

\* Handing out a challenge leaves the earlier ones and adds one made now
LEMMA NewChallenge ==
    ASSUME IInv, NEW c \in ChalType, c.at = now, chals' = Append(chals, c),
           Len(chals) < MaxChals, UNCHANGED <<now, db, tokens, swept>>
    PROVE  /\ chals' \in Seq(ChalType)
           /\ Len(chals) + 1 \in 1..MaxChals /\ Len(chals) + 1 \in DOMAIN chals'
           /\ chals'[Len(chals) + 1] = c /\ Len(chals) + 1 \notin DOMAIN chals
           /\ now' \in Nat /\ Grown /\ OneRowEach' /\ Past' /\ OwnerIsFresh'
           /\ TokensOk' /\ OneTokenPerLogin'
<1>1. chals \in Seq(ChalType) /\ now \in Nat
  BY Types, TimesAssumption DEF IInv
<1>2. /\ chals' \in Seq(ChalType) /\ DOMAIN chals = 1..Len(chals) /\ Len(chals) \in Nat
      /\ DOMAIN chals' = 1..(Len(chals) + 1) /\ chals'[Len(chals) + 1] = c
      /\ \A i \in 1..Len(chals) : chals'[i] = chals[i]
  BY <1>1
<1>3. Len(chals) + 1 \in 1..MaxChals /\ Len(chals) + 1 \in DOMAIN chals'
      /\ Len(chals) + 1 \notin DOMAIN chals
  BY <1>2, BoundsAssumption
<1>4. \A i \in DOMAIN chals : i \in DOMAIN chals' /\ chals'[i] = chals[i]
  BY <1>2
<1>5. \A i \in DOMAIN chals' : i \in DOMAIN chals \/ chals'[i] = c
  BY <1>2
<1>6. Grown
  BY <1>1, <1>4 DEF Grown, db
<1>7. Past'
  BY <1>1, <1>4, <1>5 DEF IInv, Past, db
<1>8. OneRowEach' /\ OwnerIsFresh'
  BY DEF IInv, OneRowEach, OwnerIsFresh, db
<1>9. TokensOk' /\ OneTokenPerLogin'
  BY <1>1, <1>6, NoNewToken
<1>. QED
  BY <1>1, <1>2, <1>3, <1>6, <1>7, <1>8, <1>9

\* The secrets of StandardAuth.cpp stay as they were made
LEMMA SecretsStay ==
    ASSUME IInv, Grown, secrets' \subseteq secrets
    PROVE  SecretsOk'
BY DEF IInv, SecretsOk, SecretOk, Grown

\* hdl_signin_req_chal_req
LEMMA RequestChallenge ==
    ASSUME IInv, NEW d \in Users, hdl_signin_req_chal_req(d)
    PROVE  IInv'
<1>. DEFINE c == [kind |-> "login", did |-> d, at |-> now]
            n == Len(chals) + 1
<1>1. now \in Nat /\ swept \in Nat /\ faults \in 0..MaxFaults /\ TypeOK /\ PendingOk
  BY Types, TimesAssumption DEF IInv
<1>2. c \in ChalType /\ c.at = now /\ c.kind = "login" /\ c.did = d
  BY <1>1 DEF ChalType
<1>3. /\ chals' = Append(chals, c) /\ Len(chals) < MaxChals
      /\ UNCHANGED <<now, db, secrets, tokens, swept>>
  BY DEF hdl_signin_req_chal_req
<1>4. PICK failed \in BOOLEAN : pending' = pending \cup {login_create(d, failed)}
  BY DEF hdl_signin_req_chal_req
<1>5. faults' \in 0..MaxFaults
  <2>1. Fault \/ NoFault
    BY DEF hdl_signin_req_chal_req
  <2>. QED
    BY <1>1, <2>1, BoundsAssumption DEF Fault, NoFault
<1>. HIDE DEF c
<1>6. /\ chals' \in Seq(ChalType) /\ n \in 1..MaxChals /\ n \in DOMAIN chals'
      /\ chals'[n] = c /\ n \notin DOMAIN chals /\ now' \in Nat /\ Grown
      /\ OneRowEach' /\ Past' /\ OwnerIsFresh' /\ TokensOk' /\ OneTokenPerLogin'
  BY <1>2, <1>3, NewChallenge
<1>. HIDE DEF n
<1>7. PICK l : l = login_create(d, failed)
  OBVIOUS
<1>8. (failed \/ db_need_upsert_user(d)) \in BOOLEAN
  BY DEF db_need_upsert_user
<1>9. /\ l \in LoginType /\ l.nonce = n /\ l.sub = d /\ l.expat = now + LoginTtl
      /\ l.vc_req = (failed \/ db_need_upsert_user(d))
  <2>1. l = [nonce |-> n, sub |-> d, expat |-> now + LoginTtl,
             vc_req |-> failed \/ db_need_upsert_user(d)]
    BY <1>7 DEF login_create, n
  <2>. QED
    BY <1>1, <1>6, <2>1, <1>8, TimesAssumption DEF LoginType
<1>10. LoginOk(l)'
  <2>1. \A i \in DOMAIN tokens' : tokens'[i].nonce # n
    BY <1>3, <1>6 DEF IInv, TokensOk, TokenOk
  <2>2. swept' <= l.expat
    BY <1>1, <1>3, <1>9, TimesAssumption DEF IInv, Past
  <2>3. ~l.vc_req => \E i \in DOMAIN rows' : rows'[i].did = d /\ rows'[i].name # "NA"
    BY <1>3, <1>9 DEF db, db_need_upsert_user
  <2>4. l.expat = chals'[n].at + LoginTtl
    BY <1>2, <1>6, <1>9
  <2>. QED
    BY <1>2, <1>6, <1>9, <2>1, <2>2, <2>3, <2>4 DEF LoginOk
<1>11. PendingOk'
  <2>1. \A m \in pending : m.nonce # n
    BY <1>1, <1>6 DEF PendingOk, LoginOk
  <2>2. \A m \in pending : LoginOk(m)'
    <3>1. ASSUME NEW m \in pending
          PROVE  swept' <= m.expat /\ \A i \in DOMAIN tokens' : tokens'[i].nonce # m.nonce
      BY <1>1, <1>3 DEF PendingOk, LoginOk
    <3>. QED
      BY <1>6, <3>1, LoginStays
  <2>3. pending' = pending \cup {l}
    BY <1>4, <1>7
  <2>. QED
    BY <1>1, <1>9, <1>10, <2>1, <2>2, <2>3 DEF PendingOk
<1>12. SecretsOk'
  BY <1>3, <1>6, SecretsStay
<1>13. TypeOK'
  <2>1. pending' \subseteq LoginType
    BY <1>1, <1>4, <1>7, <1>9, Types
  <2>. QED
    BY <1>1, <1>3, <1>5, <1>6, <2>1, Types, TypesNext DEF db
<1>. QED
  BY <1>6, <1>11, <1>12, <1>13 DEF IInv

\* Logins that stay in the table through a step without a sweep
LEMMA PendingStay ==
    ASSUME IInv, Grown, now' \in Nat, pending' \subseteq pending, UNCHANGED swept,
           \A m \in pending' : \A i \in DOMAIN tokens' :
              (i \in DOMAIN tokens /\ tokens'[i] = tokens[i]) \/ tokens'[i].nonce # m.nonce
    PROVE  PendingOk'
<1>1. ASSUME NEW m \in pending'
      PROVE  LoginOk(m)'
  <2>1. m \in pending /\ LoginOk(m)
    BY DEF IInv, PendingOk
  <2>2. swept' <= m.expat /\ \A i \in DOMAIN tokens' : tokens'[i].nonce # m.nonce
    BY <2>1 DEF LoginOk
  <2>. QED
    BY <2>1, <2>2, LoginStays
<1>. QED
  BY <1>1 DEF IInv, PendingOk

\* hdl_signin_conf_chal_req: the login is gone whatever happens, so no other
\* confirmation of it can follow
LEMMA ConfirmChallenge ==
    ASSUME IInv, NEW signer \in Users, NEW l \in pending, NEW vc \in Brought,
           hdl_signin_conf_chal_req(signer, l, vc)
    PROVE  IInv'
<1>1. /\ pending' = pending \ {l} /\ UNCHANGED <<now, secrets, chals, swept>>
  BY DEF hdl_signin_conf_chal_req, pending_login_remove
<1>2. /\ now \in Nat /\ now' \in Nat /\ swept \in Nat /\ TypeOK /\ l \in LoginType
      /\ LoginOk(l) /\ faults \in 0..MaxFaults /\ OneRowEach
      /\ l.nonce \in 1..MaxChals /\ l.sub \in Users /\ l.expat \in Nat
      /\ l.vc_req \in BOOLEAN /\ chals \in Seq(ChalType) /\ chals[l.nonce] \in ChalType
      /\ chals[l.nonce].at \in Nat
  <2>1. /\ now \in Nat /\ swept \in Nat /\ TypeOK /\ l \in LoginType /\ LoginOk(l)
        /\ faults \in 0..MaxFaults /\ OneRowEach /\ chals \in Seq(ChalType)
    BY Types, TimesAssumption DEF IInv, PendingOk
  <2>2. chals[l.nonce] \in ChalType
    BY <2>1 DEF LoginOk
  <2>. QED
    BY <1>1, <2>1, <2>2 DEF LoginType, ChalType
<1>3. \A m \in pending' : m \in pending /\ m.nonce # l.nonce
  BY <1>1 DEF IInv, PendingOk
<1>4. ASSUME Grown, OneRowEach', Past', OwnerIsFresh', tokens' \in Seq(TokenType),
             TokensOk', OneTokenPerLogin', faults' \in 0..MaxFaults,
             rows' \in Seq(RowType), ownerName' \in Names1, behind' \in BOOLEAN,
             resets' \subseteq [did : Users, at : Nat],
             \A i \in DOMAIN tokens' :
                (i \in DOMAIN tokens /\ tokens'[i] = tokens[i]) \/ tokens'[i].nonce = l.nonce
      PROVE  IInv'
  <2>1. PendingOk'
    BY <1>1, <1>2, <1>3, <1>4, PendingStay
  <2>2. SecretsOk'
    BY <1>1, <1>4, SecretsStay
  <2>3. TypeOK'
    BY <1>1, <1>2, <1>4, Types, TypesNext
  <2>. QED
    BY <1>4, <2>1, <2>2, <2>3 DEF IInv
<1>5. ASSUME UNCHANGED db, faults' \in 0..MaxFaults
      PROVE  /\ Grown /\ OneRowEach' /\ Past' /\ OwnerIsFresh'
             /\ rows' \in Seq(RowType) /\ ownerName' \in Names1 /\ behind' \in BOOLEAN
             /\ resets' \subseteq [did : Users, at : Nat]
  <2>1. Grown
    BY <1>1, <1>2, <1>5 DEF Grown, db
  <2>2. OneRowEach' /\ Past' /\ OwnerIsFresh'
    BY <1>1, <1>5 DEF IInv, OneRowEach, Past, OwnerIsFresh, db
  <2>. QED
    BY <1>2, <1>5, <2>1, <2>2, Types DEF db
<1>6. ASSUME UNCHANGED <<db, tokens>>, faults' \in 0..MaxFaults
      PROVE  IInv'
  <2>1. TokensOk' /\ OneTokenPerLogin' /\ tokens' \in Seq(TokenType)
    BY <1>2, <1>5, <1>6, NoNewToken, Types
  <2>. QED
    BY <1>4, <1>5, <1>6, <2>1
\* what any token of this confirmation has
<1>7. ASSUME NEW t \in TokenType, Grown, signer = l.sub, tokens' = Append(tokens, t),
             t.kind = "login", t.nonce = l.nonce, t.did = signer, t.at = now, t.swept = swept,
             t.uid \in DOMAIN rows', rows'[t.uid].did = signer,
             t.name = "NA" => ResetSince(l.sub, chals[l.nonce].at)
      PROVE  /\ tokens' \in Seq(TokenType) /\ TokensOk' /\ OneTokenPerLogin'
             /\ \A i \in DOMAIN tokens' :
                  (i \in DOMAIN tokens /\ tokens'[i] = tokens[i]) \/ tokens'[i].nonce = l.nonce
  <2>1. t.nonce \in DOMAIN chals' /\ t.at <= now' /\ chals'[t.nonce] = chals[l.nonce]
    BY <1>1, <1>2, <1>7 DEF LoginOk
  <2>2. t.kind = chals'[t.nonce].kind /\ t.did = chals'[t.nonce].did
    BY <1>2, <1>7, <2>1 DEF LoginOk
  <2>3. t.swept <= chals'[t.nonce].at + LoginTtl
    BY <1>2, <1>7, <2>1 DEF LoginOk
  <2>4. t.name = "NA" =>
          \E r \in resets' : r.did = t.did /\ chals'[t.nonce].at <= r.at /\ r.at <= t.at
    BY <1>7, <2>1 DEF ResetSince, Grown
  <2>5. TokenOk(t)'
    BY <1>7, <2>1, <2>2, <2>3, <2>4 DEF TokenOk
  <2>6. \A i \in DOMAIN tokens : tokens[i].nonce # t.nonce
    BY <1>2, <1>7 DEF LoginOk
  <2>. QED
    BY <1>2, <1>7, <2>5, <2>6, NewToken
<1>8. CASE NoFault /\ UNCHANGED <<db, tokens>>
  BY <1>2, <1>6, <1>8 DEF NoFault
<1>9. CASE SignerIsSubject(l, signer) /\ vc \in Names /\ LogIn("login", l.nonce, signer, vc)
  <2>1. vc \in Names1 /\ vc # "NA"
    BY <1>9, NamesAssumption DEF Names1
  <2>2. /\ rows' \in Seq(RowType) /\ ownerName' \in Names1 /\ behind' \in BOOLEAN
        /\ resets' \subseteq [did : Users, at : Nat] /\ faults' \in 0..MaxFaults
        /\ OneRowEach' /\ Past' /\ OwnerIsFresh' /\ Grown
        /\ \/ UNCHANGED tokens
           \/ \E t \in TokenType :
                /\ tokens' = Append(tokens, t)
                /\ t.kind = "login" /\ t.nonce = l.nonce /\ t.did = signer /\ t.name = vc
                /\ t.uid \in DOMAIN rows' /\ rows'[t.uid].did = signer
                /\ t.at = now /\ t.swept = swept
    BY <1>1, <1>2, <1>9, <2>1, LoggingIn
  <2>3. CASE UNCHANGED tokens
    <3>1. TokensOk' /\ OneTokenPerLogin' /\ tokens' \in Seq(TokenType)
      BY <1>2, <2>2, <2>3, NoNewToken, Types
    <3>. QED
      BY <1>4, <2>2, <2>3, <3>1
  <2>4. CASE \E t \in TokenType :
                /\ tokens' = Append(tokens, t)
                /\ t.kind = "login" /\ t.nonce = l.nonce /\ t.did = signer /\ t.name = vc
                /\ t.uid \in DOMAIN rows' /\ rows'[t.uid].did = signer
                /\ t.at = now /\ t.swept = swept
    BY <1>4, <1>7, <1>9, <2>1, <2>2, <2>4 DEF SignerIsSubject
  <2>. QED
    BY <2>2, <2>3, <2>4
<1>10. CASE /\ SignerIsSubject(l, signer) /\ ~l.vc_req /\ NoFault /\ UNCHANGED db
            /\ tokens' = Append(tokens, Token("login", l.nonce, l.sub, rows))
  <2>1. PICK k \in DOMAIN rows : /\ rows[k].did = l.sub
                                 /\ rows[k].name # "NA" \/ ResetSince(l.sub, chals[l.nonce].at)
    BY <1>2, <1>10 DEF LoginOk
  <2>2. UidOf(rows, l.sub) = k
    BY <1>2, <2>1, UidFound DEF OneRowEach
  <2>3. PICK t : t = Token("login", l.nonce, l.sub, rows)
    OBVIOUS
  <2>4. t = [kind |-> "login", nonce |-> l.nonce, did |-> l.sub, uid |-> k,
             name |-> rows[k].name, at |-> now, swept |-> swept]
    BY <2>2, <2>3 DEF Token
  <2>5. k \in Nat /\ rows[k].name \in Names1
    <3>1. rows \in Seq(RowType)
      BY <1>2, Types
    <3>2. k \in Nat /\ rows[k] \in RowType
      BY <3>1, <2>1
    <3>. QED
      BY <3>2 DEF RowType
  <2>6. /\ t \in TokenType /\ t.kind = "login" /\ t.nonce = l.nonce /\ t.did = l.sub
        /\ t.uid = k /\ t.name = rows[k].name /\ t.at = now /\ t.swept = swept
    BY <1>2, <2>4, <2>5 DEF TokenType
  <2>7. faults' \in 0..MaxFaults
    BY <1>2, <1>10 DEF NoFault
  <2>8. signer = l.sub /\ t.uid \in DOMAIN rows' /\ rows'[t.uid].did = signer
    BY <1>10, <2>1, <2>6 DEF SignerIsSubject, db
  <2>9. t.name = "NA" => ResetSince(l.sub, chals[l.nonce].at)
    BY <2>1, <2>6
  <2>10. tokens' = Append(tokens, t)
    BY <1>10, <2>3
  <2>11. Grown
    BY <1>5, <1>10, <2>7
  <2>12. /\ tokens' \in Seq(TokenType) /\ TokensOk' /\ OneTokenPerLogin'
         /\ \A i \in DOMAIN tokens' :
              (i \in DOMAIN tokens /\ tokens'[i] = tokens[i]) \/ tokens'[i].nonce = l.nonce
    BY <1>7, <2>6, <2>8, <2>9, <2>10, <2>11
  <2>. QED
    BY <1>4, <1>5, <1>10, <2>7, <2>12
<1>11. CASE Fault /\ UNCHANGED <<db, tokens>>
  <2>1. faults' \in 0..MaxFaults
    BY <1>2, <1>11, BoundsAssumption DEF Fault
  <2>. QED
    BY <1>6, <1>11, <2>1
<1>. QED
  BY <1>8, <1>9, <1>10, <1>11 DEF hdl_signin_conf_chal_req

\* auth_expire_login
LEMMA Sweep ==
    ASSUME IInv, auth_expire_login
    PROVE  IInv'
<1>1. /\ pending' = {l \in pending : ~Expired(l)} /\ swept' = now
      /\ UNCHANGED <<now, db, secrets, chals, tokens, faults>>
  BY DEF auth_expire_login
<1>2. now \in Nat /\ now' \in Nat /\ TypeOK /\ PendingOk /\ pending \subseteq LoginType
  BY <1>1, Types, TimesAssumption DEF IInv
<1>3. Grown
  BY <1>1, <1>2 DEF Grown, db
<1>4. OneRowEach' /\ Past' /\ OwnerIsFresh'
  BY <1>1, <1>2 DEF IInv, OneRowEach, Past, OwnerIsFresh, db
<1>5. PendingOk'
  <2>1. ASSUME NEW m \in pending'
        PROVE  LoginOk(m)'
    <3>1. m \in pending /\ ~Expired(m) /\ LoginOk(m) /\ m.expat \in Nat
      BY <1>1, <1>2 DEF PendingOk, LoginType
    <3>2. swept' <= m.expat
      BY <1>1, <1>2, <3>1 DEF Expired
    <3>3. \A i \in DOMAIN tokens' : tokens'[i].nonce # m.nonce
      BY <1>1, <3>1 DEF LoginOk
    <3>. QED
      BY <1>2, <1>3, <3>1, <3>2, <3>3, LoginStays
  <2>. QED
    BY <1>1, <1>2, <2>1 DEF PendingOk
<1>6. TokensOk' /\ OneTokenPerLogin' /\ SecretsOk'
  BY <1>1, <1>2, <1>3, NoNewToken, SecretsStay
<1>7. TypeOK'
  BY <1>1, <1>2, Types, TypesNext DEF db
<1>. QED
  BY <1>4, <1>5, <1>6, <1>7 DEF IInv

\* standard_sign_in
LEMMA StandardSignIn ==
    ASSUME IInv, NEW app \in Apps, onStandardSignIn(app)
    PROVE  IInv'
<1>. DEFINE c == [kind |-> "standard", did |-> app, at |-> now]
            n == Len(chals) + 1
<1>1. now \in Nat /\ TypeOK
  BY Types, TimesAssumption DEF IInv
<1>2. c \in ChalType /\ c.at = now /\ c.kind = "standard"
  BY <1>1 DEF ChalType
<1>3. /\ chals' = Append(chals, c) /\ Len(chals) < MaxChals
      /\ UNCHANGED <<now, db, pending, tokens, swept, faults>>
  BY DEF onStandardSignIn
<1>4. PICK s : s = [nonce |-> n, did |-> app, expiration |-> now + SecretTtl]
  OBVIOUS
<1>5. secrets' = secrets \cup {s}
  BY <1>4 DEF onStandardSignIn
<1>. HIDE DEF c
<1>6. /\ chals' \in Seq(ChalType) /\ n \in 1..MaxChals /\ n \in DOMAIN chals'
      /\ chals'[n] = c /\ now' \in Nat /\ Grown
      /\ OneRowEach' /\ Past' /\ OwnerIsFresh' /\ TokensOk' /\ OneTokenPerLogin'
  BY <1>2, <1>3, NewChallenge
<1>. HIDE DEF n
<1>7. s \in SecretType /\ s.nonce = n /\ s.expiration = now + SecretTtl
  BY <1>1, <1>4, <1>6, TimesAssumption DEF SecretType
<1>8. SecretsOk'
  <2>1. SecretOk(s)'
    BY <1>2, <1>6, <1>7 DEF SecretOk
  <2>2. \A x \in secrets : SecretOk(x)'
    BY <1>6 DEF IInv, SecretsOk, SecretOk, Grown
  <2>. QED
    BY <1>5, <2>1, <2>2 DEF SecretsOk
<1>9. PendingOk'
  BY <1>3, <1>6, PendingStay
<1>10. TypeOK'
  <2>1. secrets' \subseteq SecretType
    BY <1>1, <1>5, <1>7, Types
  <2>. QED
    BY <1>1, <1>3, <1>6, <2>1, Types, TypesNext DEF db
<1>. QED
  BY <1>6, <1>8, <1>9, <1>10 DEF IInv

\* standard_did_auth
LEMMA StandardDidAuth ==
    ASSUME IInv, NEW s \in secrets, NEW app \in Apps, NEW d \in Users,
           NEW name, UserName(name) \in Names1, onStandardDidAuth(s, app, d, name)
    PROVE  IInv'
<1>1. /\ UNCHANGED <<now, pending, secrets, chals, swept>>
      /\ LogIn("standard", s.nonce, d, UserName(name)) /\ s.expiration >= now
  BY DEF onStandardDidAuth, checkAuthToken
<1>2. /\ now \in Nat /\ now' \in Nat /\ TypeOK /\ SecretOk(s) /\ s.nonce \in 1..MaxChals
      /\ chals \in Seq(ChalType)
  <2>1. now \in Nat /\ TypeOK /\ SecretOk(s) /\ s \in SecretType /\ chals \in Seq(ChalType)
    BY Types, TimesAssumption DEF IInv, SecretsOk
  <2>. QED
    BY <1>1, <2>1 DEF SecretType
<1>3. PICK nonce \in 1..MaxChals, nm \in Names1 : nonce = s.nonce /\ nm = UserName(name)
  BY <1>2
<1>4. /\ rows' \in Seq(RowType) /\ ownerName' \in Names1 /\ behind' \in BOOLEAN
      /\ resets' \subseteq [did : Users, at : Nat] /\ faults' \in 0..MaxFaults
      /\ OneRowEach' /\ Past' /\ OwnerIsFresh' /\ Grown
      /\ \/ UNCHANGED tokens
         \/ \E t \in TokenType :
              /\ tokens' = Append(tokens, t)
              /\ t.kind = "standard" /\ t.nonce = s.nonce /\ t.did = d
              /\ t.uid \in DOMAIN rows' /\ rows'[t.uid].did = d
              /\ t.at = now /\ t.swept = swept
  <2>1. LogIn("standard", nonce, d, nm)
    BY <1>1, <1>3
  <2>. QED
    BY <1>1, <1>3, <2>1, LoggingIn
<1>5. SecretsOk'
  BY <1>1, <1>4, SecretsStay
<1>6. /\ tokens' \in Seq(TokenType) /\ TokensOk' /\ OneTokenPerLogin'
      /\ \A i \in DOMAIN tokens' :
           (i \in DOMAIN tokens /\ tokens'[i] = tokens[i]) \/ tokens'[i].nonce = s.nonce
  <2>1. CASE UNCHANGED tokens
    BY <1>2, <1>4, <2>1, NoNewToken, Types
  <2>2. CASE ~ UNCHANGED tokens
    <3>1. PICK t \in TokenType :
            /\ tokens' = Append(tokens, t)
            /\ t.kind = "standard" /\ t.nonce = s.nonce /\ t.did = d
            /\ t.uid \in DOMAIN rows' /\ rows'[t.uid].did = d
            /\ t.at = now /\ t.swept = swept
      BY <1>4, <2>2
    <3>2. TokenOk(t)'
      <4>1. t.nonce \in DOMAIN chals' /\ chals'[t.nonce].kind = "standard" /\ t.at <= now'
        BY <1>1, <1>2, <3>1 DEF SecretOk
      <4>2. t.at <= chals'[t.nonce].at + SecretTtl
        BY <1>1, <1>2, <3>1 DEF SecretOk
      <4>. QED
        BY <3>1, <4>1, <4>2 DEF TokenOk
    <3>. QED
      BY <1>2, <1>4, <3>1, <3>2, NewToken
  <2>. QED
    BY <2>1, <2>2
<1>7. PendingOk'
  <2>1. \A m \in pending : m.nonce # s.nonce
    BY <1>2 DEF IInv, PendingOk, LoginOk, SecretOk
  <2>. QED
    BY <1>1, <1>2, <1>4, <1>6, <2>1, PendingStay
<1>8. TypeOK'
  BY <1>1, <1>2, <1>4, <1>6, Types, TypesNext
<1>. QED
  BY <1>4, <1>5, <1>6, <1>7, <1>8 DEF IInv

\* Time passes
LEMMA TimePasses ==
    ASSUME IInv, Tick
    PROVE  IInv'
<1>1. /\ now < MaxTime /\ now' = now + 1
      /\ UNCHANGED <<db, pending, secrets, chals, tokens, swept, faults>>
  BY DEF Tick
<1>2. /\ now \in 0..MaxTime /\ now' \in Nat /\ now' \in 0..MaxTime /\ now <= now'
      /\ TypeOK /\ swept \in Nat
  BY <1>1, Types, TimesAssumption DEF IInv
<1>3. Grown
  BY <1>1, <1>2 DEF Grown, db
<1>4. Past'
  <2>1. chals \in Seq(ChalType) /\ resets \subseteq [did : Users, at : Nat] /\ Past
    BY <1>2, Types DEF IInv
  <2>2. \A i \in DOMAIN chals : chals[i].at \in Nat
    <3>1. \A i \in DOMAIN chals : chals[i] \in ChalType
      BY <2>1
    <3>. QED
      BY <3>1 DEF ChalType
  <2>3. \A r \in resets : r.at \in Nat
    BY <2>1
  <2>. QED
    BY <1>1, <1>2, <2>1, <2>2, <2>3 DEF Past, db
<1>5. OneRowEach' /\ OwnerIsFresh'
  BY <1>1 DEF IInv, OneRowEach, OwnerIsFresh, db
<1>6. TokensOk' /\ OneTokenPerLogin' /\ SecretsOk' /\ PendingOk'
  BY <1>1, <1>2, <1>3, NoNewToken, SecretsStay, PendingStay
<1>7. TypeOK'
  BY <1>1, <1>2, Types, TypesNext DEF db
<1>. QED
  BY <1>4, <1>5, <1>6, <1>7 DEF IInv

\* auth_init and did_init
LEMMA Restarting ==
    ASSUME IInv, Restart
    PROVE  IInv'
<1>1. /\ Fault /\ pending' = {} /\ secrets' = {} /\ ownerName' = rows[1].name
      /\ behind' = FALSE /\ UNCHANGED <<now, rows, resets, chals, tokens, swept>>
  BY DEF Restart
<1>2. now \in Nat /\ now' \in Nat /\ TypeOK /\ OneRowEach
  BY <1>1, Types, TimesAssumption DEF IInv
<1>3. Grown
  BY <1>1, <1>2 DEF Grown
<1>4. OneRowEach' /\ Past' /\ OwnerIsFresh'
  BY <1>1 DEF IInv, OneRowEach, Past, OwnerIsFresh
<1>5. TokensOk' /\ OneTokenPerLogin' /\ SecretsOk' /\ PendingOk'
  BY <1>1, <1>2, <1>3, NoNewToken, SecretsStay, PendingStay
<1>6. TypeOK'
  <2>1. rows \in Seq(RowType) /\ faults \in 0..MaxFaults
    BY <1>2, Types
  <2>2. rows[1] \in RowType
    BY <1>2, <2>1 DEF OneRowEach
  <2>3. ownerName' \in Names1 /\ behind' \in BOOLEAN
    BY <1>1, <2>2 DEF RowType
  <2>4. faults' \in 0..MaxFaults
    BY <1>1, <2>1, BoundsAssumption DEF Fault
  <2>. QED
    BY <1>1, <1>2, <2>3, <2>4, Types, TypesNext
<1>. QED
  BY <1>4, <1>5, <1>6 DEF IInv

-----------------------------------------------------------------------------
(* Theorems *)

\* A bound service without challenges satisfies the invariant
LEMMA Initially == Init => IInv
<1>. SUFFICES ASSUME Init
              PROVE  IInv
  OBVIOUS
<1>. DEFINE r == [did |-> Owner, name |-> "NA"]
<1>1. r \in RowType /\ r.did = Owner /\ r.name = "NA"
  BY OwnerAssumption DEF RowType, Names1
<1>2. rows = <<r>>
  BY DEF Init
<1>. HIDE DEF r
<1>3. rows \in Seq(RowType) /\ DOMAIN rows = {1} /\ rows[1] = r
  BY <1>1, <1>2
<1>4. OneRowEach
  BY <1>1, <1>3 DEF OneRowEach
<1>5. chals = <<>> /\ tokens = <<>> /\ DOMAIN chals = {} /\ DOMAIN tokens = {}
  BY DEF Init
<1>6. TypeOK
  <2>1. "NA" \in Names1 /\ FALSE \in BOOLEAN
    BY DEF Names1
  <2>. QED
    <3>1. now \in 0..MaxTime /\ swept \in 0..MaxTime /\ faults \in 0..MaxFaults
      BY TimesAssumption, BoundsAssumption DEF Init
    <3>2. /\ ownerName \in Names1 /\ behind \in BOOLEAN /\ pending \subseteq LoginType
          /\ secrets \subseteq SecretType /\ resets \subseteq [did : Users, at : Nat]
      BY <2>1 DEF Init
    <3>3. chals \in Seq(ChalType) /\ tokens \in Seq(TokenType)
      BY <1>5
    <3>. QED
      BY <1>3, <3>1, <3>2, <3>3, Types
<1>7. Past /\ PendingOk /\ SecretsOk
  BY <1>5 DEF Init, Past, PendingOk, SecretsOk
<1>8. TokensOk /\ OneTokenPerLogin
  BY <1>5 DEF TokensOk, OneTokenPerLogin, Logins
<1>9. OwnerIsFresh
  BY <1>1, <1>3 DEF Init, OwnerIsFresh
<1>. QED
  BY <1>4, <1>6, <1>7, <1>8, <1>9 DEF IInv

\* Every request of both ways to log in, the sweep and a restart keep the
\* invariant
THEOREM Invariant == Spec => []IInv
<1>1. IInv /\ [Next]_vars => IInv'
  <2>. SUFFICES ASSUME IInv, [Next]_vars
                PROVE  IInv'
    OBVIOUS
  <2>1. CASE \E d \in Users : hdl_signin_req_chal_req(d)
    BY <2>1, RequestChallenge
  <2>2. CASE \E d \in Users, l \in pending, vc \in Brought : hdl_signin_conf_chal_req(d, l, vc)
    BY <2>2, ConfirmChallenge
  <2>3. CASE \E a \in Apps : onStandardSignIn(a)
    BY <2>3, StandardSignIn
  <2>4. CASE \E s \in secrets, a \in Apps, d \in Users, n \in Names \cup {""} :
                onStandardDidAuth(s, a, d, n)
    <3>1. ASSUME NEW n \in Names \cup {""}
          PROVE  UserName(n) \in Names1
      BY Zenon DEF UserName, Names1
    <3>. QED
      BY <2>4, <3>1, StandardDidAuth, Zenon
  <2>5. CASE auth_expire_login
    BY <2>5, Sweep
  <2>6. CASE Tick
    BY <2>6, TimePasses
  <2>7. CASE Restart
    BY <2>7, Restarting
  <2>8. CASE UNCHANGED vars
    BY <2>8 DEF vars, IInv, TypeOK, OneRowEach, Past, PendingOk, LoginOk, ResetSince, SecretsOk,
                SecretOk, TokensOk, TokenOk, OneTokenPerLogin, Logins, OwnerIsFresh
  <2>. QED
    BY <2>1, <2>2, <2>3, <2>4, <2>5, <2>6, <2>7, <2>8 DEF Next
<1>. QED
  BY <1>1, Initially, PTL DEF Spec

\* A login of auth.c gives at most one token
THEOREM OneToken == Spec => []OneTokenPerLogin
BY Invariant, PTL DEF IInv

\* Tokens go to those who asked, in time, and carry the user_id of their row
THEOREM AskedFor == Spec => []TokensAreAskedFor
<1>1. IInv => TokensAreAskedFor
  BY DEF IInv, TokensAreAskedFor, TokensOk, TokenOk
<1>. QED
  BY <1>1, Invariant, PTL

\* A late confirmation is accepted only if no sweep came after its time
THEOREM LateBeforeSweep == Spec => []LateOnlyBeforeSweep
<1>1. IInv => LateOnlyBeforeSweep
  BY DEF IInv, LateOnlyBeforeSweep, Logins, TokensOk, TokenOk
<1>. QED
  BY <1>1, Invariant, PTL

\* The owner's name in memory is the one of the row but after a failed upsert
THEOREM FreshOwner == Spec => []OwnerIsFresh
BY Invariant, PTL DEF IInv

\* A login without a name needs a standard login that overwrote the name
THEOREM Nameless == Spec => []NamelessOnlyIfReset
<1>1. IInv => NamelessOnlyIfReset
  BY DEF IInv, NamelessOnlyIfReset, Logins, TokensOk, TokenOk
<1>. QED
  BY <1>1, Invariant, PTL

=============================================================================
