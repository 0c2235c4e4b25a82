----------------------------- MODULE VaultProofs -----------------------------
(* Proofs about the vault: the keys that open it (VaultKeys) and the          *)
(* decrypted secrets its clients keep (VaultSecrets).                         *)
EXTENDS VaultSecrets, VaultKeys, FiniteSetTheorems, TLAPS

USE DEF clientVars, edgeVars, callVars

(***************************************************************************)
(* The keys.                                                               *)
(***************************************************************************)

\* Every wrapping in new is of the organisation key org, for its own vault key.
WrapsOrg(new, org) == \A k \in new : k.wrapping = Wrapping(org, k.secret, k.id)

\* new has one primary key.
OnePrimary(new) == \E p : {k \in new : k.kind = "primary"} = {p}

\* The numbers of the model and the labels of a client.
KeyTypes ==
    /\ orgKey \in 0..MaxDraws /\ draws \in 0..MaxDraws
    /\ step \in [Clients -> {"idle", "fetch", "list", "put", "post"}]
    /\ calling \in [Clients -> {"none", "unlock", "update"}]
    /\ DOMAIN secret = Clients /\ DOMAIN fetched = Clients /\ DOMAIN material = Clients
    /\ DOMAIN undisturbed = Clients

\* The server's keys are of one vault, or there is none.
VaultInv ==
    /\ WrapsOrg(keys, orgKey)
    /\ IF orgKey = None THEN keys = {} ELSE OnePrimary(keys)

\* The keys a client initialises a vault with wrap one organisation key of its own;
\* the key it changes the password to wraps the one of the vault.
MaterialInv ==
    \A c \in Clients :
        /\ step[c] = "post" =>
              /\ OnePrimary(material[c])
              /\ \E org \in 1..MaxDraws : WrapsOrg(material[c], org)
        /\ step[c] = "put" =>
              /\ orgKey # None /\ WrapsOrg(material[c], orgKey)
              /\ \E p : material[c] = {p} /\ p.kind = "primary"

\* A fetched wrapping is of the organisation key, for the password it was asked with,
\* and still one of the server's unless a key was removed.
FetchedInv ==
    \A c \in Clients : step[c] = "list" =>
        /\ orgKey # None
        /\ fetched[c] = Wrapping(orgKey, secret[c], fetched[c].id)
        /\ undisturbed[c] => \E k \in keys : k.wrapping = fetched[c] /\ k.secret = secret[c]

\* A wrapping is made of an organisation key, a password and an id, and shows them.
LEMMA WrappingFields ==
    ASSUME NEW org, NEW s, NEW id
    PROVE  /\ Wrapping(org, s, id).org = org
           /\ Wrapping(org, s, id).secret = s
           /\ Wrapping(org, s, id).id = id
BY DEF Wrapping

\* The same of the material for a vault key.
LEMMA MaterialFields ==
    ASSUME NEW id, NEW kind, NEW s, NEW org
    PROVE  LET k == VaultKeyMaterial(id, kind, s, org) IN
           /\ k.id = id /\ k.kind = kind /\ k.secret = s
           /\ k.wrapping = Wrapping(org, k.secret, k.id)
BY DEF VaultKeyMaterial

\* Numbers that are drawn are numbers.
LEMMA Drawn == Cardinality(Codes) \in Nat /\ MaxDraws \in Nat
BY VaultKeysAssumption, FS_CardinalityType

\* The call of a client ends: nothing is left of it.
LEMMA EndsFacts ==
    ASSUME KeyTypes, NEW c \in Clients, Ends(c)
    PROVE  /\ step'[c] = "idle"
           /\ \A d \in Clients : d # c =>
                 /\ step'[d] = step[d] /\ secret'[d] = secret[d]
                 /\ fetched'[d] = fetched[d] /\ material'[d] = material[d]
           /\ step' \in [Clients -> {"idle", "fetch", "list", "put", "post"}]
           /\ calling' \in [Clients -> {"none", "unlock", "update"}]
           /\ DOMAIN secret' = Clients /\ DOMAIN fetched' = Clients
           /\ DOMAIN material' = Clients
BY DEF Ends, KeyTypes

\* A client that makes no request is not held to anything.
LEMMA EndsKeeps ==
    ASSUME KeyTypes, VaultInv, MaterialInv, FetchedInv, NEW c \in Clients, Ends(c),
           UNCHANGED <<keys, orgKey, draws, undisturbed>>
    PROVE  (KeyTypes /\ VaultInv /\ MaterialInv /\ FetchedInv)'
<1>1. KeyTypes'
  BY EndsFacts DEF KeyTypes
<1>2. VaultInv'
  BY DEF VaultInv
<1>3. MaterialInv'
  BY EndsFacts DEF MaterialInv
<1>4. FetchedInv'
  BY EndsFacts DEF FetchedInv
<1>5. QED
  BY <1>1, <1>2, <1>3, <1>4

\* The invariant of the keys.
KeysInv == KeyTypes /\ VaultInv /\ MaterialInv /\ FetchedInv

\* initialize makes keys of one organisation key, a primary one among them.
LEMMA InitializeKeeps ==
    ASSUME KeysInv, NEW c \in Clients, Initialize(c)
    PROVE  KeysInv'
<1> USE DEF KeysInv
<1>1. PICK p \in Passwords, ids \in [Codes -> draws + 3 .. draws + 2 + Cardinality(Codes)] :
          material' = [material EXCEPT ![c] =
                {VaultKeyMaterial(draws + 2, "primary", p, draws + 1)}
                \cup {VaultKeyMaterial(ids[r], "recovery", r, draws + 1) : r \in Codes}]
  BY DEF Initialize
<1> DEFINE primary == VaultKeyMaterial(draws + 2, "primary", p, draws + 1)
           new == {primary} \cup {VaultKeyMaterial(ids[r], "recovery", r, draws + 1) : r \in Codes}
<1>2. /\ UNCHANGED <<keys, orgKey, calling, secret, fetched, undisturbed>>
      /\ step' = [step EXCEPT ![c] = "post"] /\ draws' = draws + 2 + Cardinality(Codes)
      /\ draws + 2 + Cardinality(Codes) <= MaxDraws
  BY DEF Initialize
<1>3. material' = [material EXCEPT ![c] = new]
  BY <1>1
<1>4. draws + 1 \in 1..MaxDraws /\ draws' \in 0..MaxDraws
  BY <1>2, Drawn DEF KeyTypes
<1>5. WrapsOrg(new, draws + 1)
  <2>1. ASSUME NEW k \in new PROVE k.wrapping = Wrapping(draws + 1, k.secret, k.id)
    <3>1. \E id, kind, s : k = VaultKeyMaterial(id, kind, s, draws + 1)
      OBVIOUS
    <3>2. QED
      BY <3>1, MaterialFields
  <2>2. QED
    BY <2>1 DEF WrapsOrg
<1>6. OnePrimary(new)
  <2>1. primary.kind = "primary"
    BY MaterialFields
  <2>2. ASSUME NEW k \in new, k.kind = "primary" PROVE k = primary
    <3>1. ASSUME NEW r \in Codes, k = VaultKeyMaterial(ids[r], "recovery", r, draws + 1)
          PROVE FALSE
      BY <3>1, <2>2, MaterialFields
    <3>2. QED
      BY <3>1
  <2>3. {k \in new : k.kind = "primary"} = {primary}
    BY <2>1, <2>2
  <2>4. QED
    BY <2>3 DEF OnePrimary
<1> HIDE DEF new
<1>7. KeyTypes'
  BY <1>2, <1>3, <1>4 DEF KeyTypes
<1>8. VaultInv'
  BY <1>2 DEF VaultInv
<1>9. MaterialInv'
  <2>1. step'[c] = "post" /\ material'[c] = new
    BY <1>2, <1>3 DEF KeyTypes
  <2>2. \A d \in Clients : d # c => step'[d] = step[d] /\ material'[d] = material[d]
    BY <1>2, <1>3 DEF KeyTypes
  <2>3. QED
    BY <1>2, <1>4, <1>5, <1>6, <2>1, <2>2 DEF MaterialInv
<1>10. FetchedInv'
  BY <1>2 DEF FetchedInv, KeyTypes
<1>11. QED
  BY <1>7, <1>8, <1>9, <1>10

\* The server takes the first material that reaches it.
LEMMA PostKeeps ==
    ASSUME KeysInv, NEW c \in Clients, PostInitialize(c)
    PROVE  KeysInv'
<1> USE DEF KeysInv
<1>1. /\ orgKey = None /\ keys' = material[c] /\ draws' = draws
      /\ orgKey' = (CHOOSE k \in material[c] : TRUE).wrapping.org /\ Ends(c)
      /\ DOMAIN undisturbed' = Clients
  BY DEF PostInitialize, Store
<1>2. OnePrimary(material[c])
  BY DEF PostInitialize, MaterialInv
<1>3. PICK org \in 1..MaxDraws : WrapsOrg(material[c], org)
  BY DEF PostInitialize, MaterialInv
<1>4. orgKey' = org
  <2> DEFINE k == CHOOSE k \in material[c] : TRUE
  <2>1. \E k0 : k0 \in material[c]
    BY <1>2 DEF OnePrimary
  <2>2. k \in material[c]
    BY <2>1
  <2>3. k.wrapping.org = org
    BY <1>3, <2>2, WrappingFields DEF WrapsOrg
  <2>4. QED
    BY <1>1, <2>3
<1>5. KeyTypes'
  BY <1>1, <1>4, EndsFacts DEF KeyTypes
<1>6. org # None
  BY DEF None
<1>7. VaultInv'
  BY <1>1, <1>2, <1>3, <1>4, <1>6 DEF VaultInv
<1>8. \A d \in Clients : step'[d] # "list" /\ step'[d] # "put"
  BY <1>1, EndsFacts DEF FetchedInv, MaterialInv
<1>9. MaterialInv'
  BY <1>1, <1>8, EndsFacts DEF MaterialInv
<1>10. FetchedInv'
  BY <1>8 DEF FetchedInv
<1>11. QED
  BY <1>5, <1>7, <1>9, <1>10

\* What the server returns is the wrapping of one of its keys.
LEMMA FetchKeeps ==
    ASSUME KeysInv, NEW c \in Clients, FetchWrapping(c)
    PROVE  KeysInv'
<1> USE DEF KeysInv
<1>1. PICK k \in keys : k.secret = secret[c] /\ fetched' = [fetched EXCEPT ![c] = k.wrapping]
  BY DEF FetchWrapping
<1>2. /\ UNCHANGED <<keys, orgKey, draws, calling, secret, material>>
      /\ step' = [step EXCEPT ![c] = "list"]
      /\ undisturbed' = [undisturbed EXCEPT ![c] = TRUE]
  BY DEF FetchWrapping
<1>3. orgKey # None /\ k.wrapping = Wrapping(orgKey, secret[c], k.id)
  BY <1>1 DEF VaultInv, WrapsOrg
<1>4. KeyTypes' /\ VaultInv' /\ MaterialInv'
  BY <1>1, <1>2 DEF KeyTypes, VaultInv, MaterialInv
<1>5. fetched'[c] = Wrapping(orgKey, secret[c], fetched'[c].id)
  BY <1>1, <1>3, WrappingFields DEF KeyTypes
<1>6. FetchedInv'
  BY <1>1, <1>2, <1>3, <1>5 DEF FetchedInv, KeyTypes
<1>7. QED
  BY <1>4, <1>6

\* A new password wraps the organisation key that was fetched.
LEMMA RewrapKeeps ==
    ASSUME KeysInv, NEW c \in Clients, Rewrap(c)
    PROVE  KeysInv'
<1> USE DEF KeysInv
<1>1. PICK p \in Passwords : material' =
          [material EXCEPT ![c] = {VaultKeyMaterial(draws + 1, "primary", p, fetched[c].org)}]
  BY DEF Rewrap
<1> DEFINE k == VaultKeyMaterial(draws + 1, "primary", p, fetched[c].org)
<1>2. /\ UNCHANGED <<keys, orgKey, calling, secret, fetched, undisturbed>>
      /\ step[c] = "list" /\ draws' = draws + 1 /\ draws < MaxDraws
      /\ step' = [step EXCEPT ![c] = "put"]
  BY DEF Rewrap
<1>3. orgKey # None /\ fetched[c].org = orgKey
  BY <1>2, WrappingFields DEF FetchedInv
<1>4. k.kind = "primary" /\ k.wrapping = Wrapping(orgKey, k.secret, k.id)
  BY <1>3, MaterialFields
<1>5. KeyTypes'
  BY <1>1, <1>2, Drawn DEF KeyTypes
<1>6. VaultInv'
  BY <1>2 DEF VaultInv
<1>7. material'[c] = {k} /\ step'[c] = "put"
  BY <1>1, <1>2 DEF KeyTypes
<1>8. \A d \in Clients : d # c => step'[d] = step[d] /\ material'[d] = material[d]
  BY <1>1, <1>2 DEF KeyTypes
<1> HIDE DEF k
<1>9. WrapsOrg({k}, orgKey)
  BY <1>4 DEF WrapsOrg
<1>10. MaterialInv'
  BY <1>2, <1>3, <1>4, <1>7, <1>8, <1>9 DEF MaterialInv
<1>11. FetchedInv'
  BY <1>2 DEF FetchedInv, KeyTypes
<1>12. QED
  BY <1>5, <1>6, <1>10, <1>11

\* The server's keys become new, of the same vault.
LEMMA PublishKeeps ==
    ASSUME KeysInv, NEW new, Store(new), WrapsOrg(new, orgKey), OnePrimary(new), orgKey # None,
           UNCHANGED <<orgKey, draws>>, KeyTypes',
           \A c \in Clients : \/ step'[c] = "idle"
                              \/ /\ step'[c] = step[c] /\ secret'[c] = secret[c]
                                 /\ fetched'[c] = fetched[c] /\ material'[c] = material[c]
    PROVE  KeysInv'
<1> USE DEF KeysInv
<1>1. VaultInv'
  BY DEF VaultInv, Store
<1>2. MaterialInv'
  BY DEF MaterialInv
<1>3. keys' = new /\ \A c \in Clients : undisturbed'[c] => undisturbed[c] /\ keys \subseteq new
  BY DEF Store
<1>4. FetchedInv'
  BY <1>3 DEF FetchedInv
<1>5. QED
  BY <1>1, <1>2, <1>4

\* The primary key gives way to the one of the new password.
LEMMA PutKeeps ==
    ASSUME KeysInv, NEW c \in Clients, PutPrimary(c)
    PROVE  KeysInv'
<1> USE DEF KeysInv
<1> DEFINE new == {k \in keys : k.kind # "primary"} \cup material[c]
<1>1. /\ step[c] = "put" /\ Store(new) /\ Ends(c) /\ UNCHANGED <<orgKey, draws>>
  BY DEF PutPrimary
<1>2. orgKey # None /\ WrapsOrg(new, orgKey)
  BY <1>1 DEF MaterialInv, VaultInv, WrapsOrg
<1>3. OnePrimary(new)
  <2>1. PICK p : material[c] = {p} /\ p.kind = "primary"
    BY <1>1 DEF MaterialInv
  <2>2. {k \in new : k.kind = "primary"} = {p}
    BY <2>1
  <2>3. QED
    BY <2>2 DEF OnePrimary
<1>4. KeyTypes'
  BY <1>1, EndsFacts DEF KeyTypes, Store
<1> HIDE DEF new
<1>5. QED
  BY <1>1, <1>2, <1>3, <1>4, EndsFacts, PublishKeeps

\* A recovery key is removed.
LEMMA DeleteKeeps ==
    ASSUME KeysInv, NEW c \in Clients, DeleteKey(c)
    PROVE  KeysInv'
<1> USE DEF KeysInv
<1>1. PICK k \in keys : k.kind = "recovery" /\ Store(keys \ {k})
  BY DEF DeleteKey
<1>2. UNCHANGED <<orgKey, draws, step, calling, secret, fetched, material>>
  BY DEF DeleteKey
<1>3. orgKey # None /\ WrapsOrg(keys \ {k}, orgKey)
  BY <1>1 DEF VaultInv, WrapsOrg
<1>4. OnePrimary(keys \ {k})
  <2>1. {j \in keys \ {k} : j.kind = "primary"} = {j \in keys : j.kind = "primary"}
    BY <1>1
  <2>2. QED
    BY <1>3, <2>1 DEF OnePrimary, VaultInv
<1>5. KeyTypes'
  BY <1>1, <1>2 DEF KeyTypes, Store
<1>6. QED
  BY <1>1, <1>2, <1>3, <1>4, <1>5, PublishKeeps

\* A client asks for the wrapping of its password.
LEMMA OpenKeeps ==
    ASSUME KeysInv, NEW c \in Clients, Open(c)
    PROVE  KeysInv'
<1> USE DEF KeysInv
<1>1. /\ UNCHANGED <<keys, orgKey, draws, fetched, material, undisturbed>>
      /\ step' = [step EXCEPT ![c] = "fetch"]
      /\ calling' \in [Clients -> {"none", "unlock", "update"}]
      /\ DOMAIN secret' = Clients
      /\ \A d \in Clients : d # c => secret'[d] = secret[d]
  BY DEF Open, KeyTypes
<1>2. KeyTypes' /\ VaultInv' /\ MaterialInv'
  BY <1>1 DEF KeyTypes, VaultInv, MaterialInv
<1>3. FetchedInv'
  BY <1>1 DEF FetchedInv, KeyTypes
<1>4. QED
  BY <1>2, <1>3
-----------------------------------------------------------------------------
\* There is no vault yet.
LEMMA KeyStart == KeysInit => KeysInv
BY VaultKeysAssumption
DEF None, KeysInit, KeysInv, KeyTypes, VaultInv, WrapsOrg, MaterialInv, FetchedInv

\* Every step keeps the invariant.
LEMMA KeyStepKeeps == KeysInv /\ [KeysNext]_keyVars => KeysInv'
<1>1. ASSUME KeysInv, NEW c \in Clients,
             NoKeyMatched(c) \/ Unlocks(c) \/ UnwrapFails(c) \/ RequestFailed(c)
      PROVE  KeysInv'
  BY <1>1, EndsKeeps DEF KeysInv, NoKeyMatched, Unlocks, UnwrapFails, RequestFailed
<1>2. ASSUME KeysInv, NEW c \in Clients, KeyStep(c) PROVE KeysInv'
  BY <1>1, <1>2, InitializeKeeps, PostKeeps, OpenKeeps, FetchKeeps, RewrapKeeps, PutKeeps,
     DeleteKeeps DEF KeyStep
<1>3. ASSUME KeysInv, UNCHANGED keyVars PROVE KeysInv'
  BY <1>3 DEF keyVars, KeysInv, KeyTypes, VaultInv, MaterialInv, FetchedInv
<1>4. QED
  BY <1>2, <1>3 DEF KeysNext

\* One organisation key, wrapped by every vault key, whoever initialises the vault
\* at the same time and however often passwords change (initialize, update_key).
THEOREM VaultKeysOpen == KeysSpec => []EveryKeyOpens
<1>1. KeysInv => EveryKeyOpens
  BY DEF KeysInv, VaultInv, WrapsOrg, EveryKeyOpens
<1>2. QED
  BY <1>1, KeyStart, KeyStepKeeps, PTL DEF KeysSpec

\* The second response of unlock_with_any_key holds the id of the wrapping in the
\* first, unless a key was removed in between.
THEOREM UnwrapFindsKey == KeysSpec => []UnwrapsUnlessDisturbed
<1>1. ASSUME KeysInv, NEW c \in Clients, step[c] = "list", undisturbed[c] PROVE Unwraps(c)
  <2>1. PICK k \in keys : k.wrapping = fetched[c] /\ k.secret = secret[c]
    BY <1>1 DEF KeysInv, FetchedInv
  <2>2. k.wrapping = Wrapping(orgKey, secret[c], k.id)
    BY <1>1, <2>1 DEF VaultInv, WrapsOrg, KeysInv
  <2>3. fetched[c].org = orgKey
    BY <2>1, <2>2, WrappingFields
  <2>4. QED
    BY <2>1, <2>2, <2>3 DEF Unwraps
<1>2. KeysInv => UnwrapsUnlessDisturbed
  BY <1>1 DEF UnwrapsUnlessDisturbed
<1>3. QED
  BY <1>2, KeyStart, KeyStepKeeps, PTL DEF KeysSpec

\* There is one primary key once there is a vault.
THEOREM KeyTypesHold == KeysSpec => []KeysTypeOK
<1>1. OnePrimary(keys) => Cardinality({k \in keys : k.kind = "primary"}) = 1
  <2>1. ASSUME NEW p, {k \in keys : k.kind = "primary"} = {p}
        PROVE Cardinality({k \in keys : k.kind = "primary"}) = 1
    BY <2>1, FS_Singleton
  <2>2. QED
    BY <2>1 DEF OnePrimary
<1>2. KeysInv => KeysTypeOK
  BY <1>1 DEF KeysInv, KeyTypes, VaultInv, KeysTypeOK
<1>3. QED
  BY <1>2, KeyStart, KeyStepKeeps, PTL DEF KeysSpec

(***************************************************************************)
(* The decrypted secrets.                                                  *)
(***************************************************************************)

\* What a vault, a snapshot or a bundle may be: a secret it does not list is Absent.
Lists == {v \in Vaults : \A s \in Secrets : v[s].live \/ v[s] = Absent}

\* The requests of a call on a vault.
Calling == {"get", "check", "patch", "refresh", "delete", "post", "readback"}

\* TypeOK, by variable.
SecretTypes ==
    /\ server \in Vaults /\ clock \in Stamp /\ snapshot \in Lists \cup {NoVault}
    /\ pc \in [Threads -> Unlocking \cup {"idle"} \cup Calling]
    /\ op \in [Threads -> Ops \cup {"none", "unlock"}]
    /\ arg \in [Threads -> Secrets \cup {NoSecret}]
    /\ draft \in [Threads -> Stamp]
    /\ bundle \in [Threads -> Lists \cup {NoVault}]
    /\ vault \in [Threads -> Lists \cup {NoVault}] /\ facade \in [Threads -> BOOLEAN]
    /\ since \in [Threads -> Stamp] /\ stamp \in [Threads -> Stamp]
    /\ owed \in [Threads -> [Secrets -> Stamp]] /\ raced \in [Threads -> BOOLEAN]

\* A call has a vault and a secret to work on, an unlock its response.
Prepared(t) ==
    /\ pc[t] \in Calling => vault[t] # NoVault /\ arg[t] \in Secrets
    /\ pc[t] \in {"keys", "filter"} => bundle[t] # NoVault
    /\ pc[t] = "filter" => vault[t] # NoVault
    /\ pc[t] = "get" => op[t] = "totp"
    /\ pc[t] = "check" => op[t] \in {"payload", "totp"}
    /\ pc[t] = "patch" => op[t] \in {"rename", "payload", "totp"}

CallInv == \A t \in Threads : Prepared(t)

\* Stamps are of writes that were accepted, and the write of a call is one of the
\* writes of its secret.
Stamped(t) ==
    /\ since[t] <= clock
    /\ pc[t] \in {"refresh", "readback"} => stamp[t] <= server[arg[t]].ver

\* OwnWritesVisible, of one thread.
Visible(t) ==
    vault[t] # NoVault =>
        \A s \in Secrets : vault[t][s].live => vault[t][s].ver >= owed[t][s]

\* While nothing is written to its secret, a change of TOTP keeps the login it read.
DraftKept(t) ==
    pc[t] \in {"check", "patch"} /\ op[t] = "totp" /\ server[arg[t]].ver <= since[t]
        => draft[t] = server[arg[t]].login

\* What unlock has fetched is of the past, as the server has it up to the writes since
\* it began, and no older than the snapshot unless another was stored meanwhile.
Fetched(t) ==
    pc[t] = "keys" =>
        \A s \in Secrets :
            /\ server[s].ver <= since[t] => bundle[t][s] = Listing[s]
            /\ bundle[t][s].live => bundle[t][s].ver <= server[s].ver
            /\ /\ bundle[t][s].live /\ ~raced[t]
               /\ snapshot # NoVault /\ snapshot[s].live
               => bundle[t][s].ver >= snapshot[s].ver

\* The server's versions are of writes it accepted, and the snapshot is of the past.
ServerPast ==
    \A s \in Secrets :
        /\ server[s].ver <= clock
        /\ snapshot # NoVault /\ snapshot[s].live => snapshot[s].ver <= server[s].ver

Progress(t) == Stamped(t) /\ Visible(t) /\ DraftKept(t) /\ Fetched(t)

SecretInv == SecretTypes /\ CallInv /\ ServerPast /\ \A t \in Threads : Progress(t)

\* The kinds of data, and what changes of them.
LEMMA ListFacts ==
    /\ NoVault \notin Lists
    /\ MaxWrites \in Nat /\ Absent \in Content
    /\ \A v \in Lists : v \in Vaults
    /\ \A v \in Lists, s \in Secrets, c \in Content :
          c.live \/ c = Absent => [v EXCEPT ![s] = c] \in Lists
<1>1. MaxWrites \in Nat /\ Absent \in Content
  BY VaultAssumption DEF Absent, Content, Stamp
<1>2. NoVault \notin Vaults
  BY VaultAssumption DEF Vaults, Content, Stamp
<1>3. QED
  BY <1>1, <1>2 DEF Lists, Vaults

\* The listing of the server.
LEMMA ListingFacts ==
    ASSUME server \in Vaults
    PROVE  /\ Listing \in Lists
           /\ \A s \in Secrets : Listing[s].live => Listing[s] = server[s]
BY ListFacts DEF Listing, Lists, Vaults, Content, Absent

\* A write is the next one, of one secret.
LEMMA AcceptFacts ==
    ASSUME server \in Vaults, clock \in Stamp, NEW s \in Secrets,
           NEW c \in [live : BOOLEAN, ver : Nat, login : Nat], c.login \in Stamp, Accept(s, c)
    PROVE  /\ clock' = clock + 1 /\ clock' \in Stamp /\ server' \in Vaults
           /\ server'[s].ver = clock + 1 /\ server'[s].login = c.login
           /\ server'[s].live = c.live
           /\ \A x \in Secrets : x # s => server'[x] = server[x]
<1>1. clock + 1 \in Stamp /\ clock \in Nat
  BY ListFacts DEF Accept, Stamp
<1> DEFINE new == [c EXCEPT !.ver = clock + 1]
<1>2. new \in Content /\ new.ver = clock + 1 /\ new.login = c.login /\ new.live = c.live
  BY <1>1 DEF Content
<1>3. server' = [server EXCEPT ![s] = new] /\ clock' = clock + 1
  BY DEF Accept
<1> HIDE DEF new
<1>4. QED
  BY <1>1, <1>2, <1>3 DEF Vaults

\* A thread takes a vault, whose own writes are all to come, or drops it.
LEMMA ObtainFacts ==
    ASSUME SecretTypes, NEW t \in Threads, NEW v \in Lists \cup {NoVault}, Obtain(t, v)
    PROVE  /\ vault' \in [Threads -> Lists \cup {NoVault}] /\ vault'[t] = v
           /\ owed' \in [Threads -> [Secrets -> Stamp]]
           /\ \A s \in Secrets : owed'[t][s] = 0
           /\ \A u \in Threads : u # t => vault'[u] = vault[u] /\ owed'[u] = owed[u]
BY ListFacts DEF Obtain, NothingOwed, SecretTypes, Stamp

\* A vault the caller holds has reached write n of s; one that is dropped owes nothing.
LEMMA OweFacts ==
    ASSUME SecretTypes, NEW t \in Threads, NEW s \in Secrets, NEW n \in Stamp, Owe(t, s, n)
    PROVE  /\ owed' \in [Threads -> [Secrets -> Stamp]]
           /\ ~facade[t] => owed'[t][s] = n /\ \A x \in Secrets : x # s => owed'[t][x] = owed[t][x]
           /\ \A u \in Threads : u # t => owed'[u] = owed[u]
BY ListFacts DEF Owe, NothingOwed, SecretTypes, Stamp

\* A call that returns leaves its thread idle, the others as they are.
LEMMA ReturnFacts ==
    ASSUME SecretTypes, NEW t \in Threads, NEW v \in Lists \cup {NoVault}, Return(t, v)
    PROVE  /\ pc' \in [Threads -> Unlocking \cup {"idle"} \cup Calling] /\ pc'[t] = "idle"
           /\ op' \in [Threads -> Ops \cup {"none", "unlock"}]
           /\ arg' \in [Threads -> Secrets \cup {NoSecret}]
           /\ draft' \in [Threads -> Stamp]
           /\ bundle' \in [Threads -> Lists \cup {NoVault}]
           /\ vault' \in [Threads -> Lists \cup {NoVault}] /\ facade' \in [Threads -> BOOLEAN]
           /\ since' \in [Threads -> Stamp] /\ stamp' \in [Threads -> Stamp]
           /\ raced' \in [Threads -> BOOLEAN]
           /\ vault'[t] \in {NoVault, v} /\ (~facade[t] => vault'[t] = v)
           /\ (facade[t] => vault'[t] = NoVault)
           /\ since'[t] = 0
           /\ \A u \in Threads : u # t =>
                 /\ pc'[u] = pc[u] /\ op'[u] = op[u] /\ arg'[u] = arg[u] /\ draft'[u] = draft[u]
                 /\ bundle'[u] = bundle[u] /\ vault'[u] = vault[u] /\ facade'[u] = facade[u]
                 /\ since'[u] = since[u] /\ stamp'[u] = stamp[u] /\ raced'[u] = raced[u]
BY ListFacts DEF Return, Go, SecretTypes, Stamp
-----------------------------------------------------------------------------
(* The types, and what a call has.                                         *)

\* A step of thread t leaves the others alone, but for the note that a snapshot was
\* stored after they fetched.
Others(t) ==
    \A u \in Threads : u # t =>
        /\ pc'[u] = pc[u] /\ op'[u] = op[u] /\ arg'[u] = arg[u] /\ draft'[u] = draft[u]
        /\ bundle'[u] = bundle[u] /\ vault'[u] = vault[u] /\ facade'[u] = facade[u]
        /\ since'[u] = since[u] /\ stamp'[u] = stamp[u] /\ owed'[u] = owed[u]
        /\ raced[u] => raced'[u]
        /\ snapshot' # snapshot /\ pc[u] = "keys" => raced'[u]

\* What a secret may become: it is untouched or has a newer version.
Newer ==
    /\ clock' \in {clock, clock + 1}
    /\ \A s \in Secrets :
          \/ server'[s] = server[s]
          \/ clock' = clock + 1 /\ server'[s].ver = clock + 1

\* A step of unlock.
LEMMA UnlockTypes ==
    ASSUME SecretTypes, CallInv, NEW t \in Threads, UnlockStep(t)
    PROVE  SecretTypes' /\ Others(t) /\ UNCHANGED edgeVars
<1>1. CASE Unlock(t)
  BY <1>1 DEF Unlock, Go, SecretTypes, Others, Unlocking
<1>2. CASE FetchBundle(t)
  BY <1>2, ListingFacts DEF FetchBundle, Go, SecretTypes, Others, Unlocking
<1>3. CASE StoreSnapshot(t)
  <2>1. bundle[t] \in Lists
    BY <1>3 DEF StoreSnapshot, SecretTypes, CallInv, Prepared
  <2>2. /\ pc' \in [Threads -> Unlocking \cup {"idle"} \cup Calling]
        /\ op' \in [Threads -> Ops \cup {"none", "unlock"}]
        /\ bundle' \in [Threads -> Lists \cup {NoVault}] /\ since' \in [Threads -> Stamp]
        /\ \A u \in Threads : u # t => /\ pc'[u] = pc[u] /\ op'[u] = op[u]
                                       /\ bundle'[u] = bundle[u] /\ since'[u] = since[u]
    <3>1. CASE Go(t, "filter") /\ UNCHANGED <<op, bundle, since>>
      BY <3>1 DEF Go, SecretTypes, Unlocking
    <3>2. CASE /\ Go(t, "idle") /\ op' = [op EXCEPT ![t] = "none"]
               /\ bundle' = [bundle EXCEPT ![t] = NoVault] /\ since' = [since EXCEPT ![t] = 0]
      BY <3>2, ListFacts DEF Go, SecretTypes, Stamp
    <3>3. QED
      BY <1>3, <3>1, <3>2 DEF StoreSnapshot
  <2>3. /\ vault' \in [Threads -> Lists \cup {NoVault}]
        /\ owed' \in [Threads -> [Secrets -> Stamp]] /\ raced' \in [Threads -> BOOLEAN]
        /\ snapshot' \in Lists
        /\ \A u \in Threads : u # t => /\ vault'[u] = vault[u] /\ owed'[u] = owed[u]
                                       /\ raced'[u] = (raced[u] \/ pc[u] = "keys")
    BY <1>3, <2>1, ObtainFacts DEF StoreSnapshot, SecretTypes
  <2>4. UNCHANGED <<edgeVars, arg, draft, facade, stamp>>
    BY <1>3 DEF StoreSnapshot
  <2>5. QED
    BY <2>2, <2>3, <2>4 DEF SecretTypes, Others
<1>4. CASE Filter(t)
  <2> DEFINE s == CHOOSE x \in Secrets : bundle[t][x].live
  <2>1. s \in Secrets
    BY <1>4 DEF Filter
  <2>2. bundle[t] \in Lists /\ vault[t] \in Lists
    BY <1>4 DEF Filter, SecretTypes, CallInv, Prepared
  <2>3. /\ bundle' = [bundle EXCEPT ![t] = [bundle[t] EXCEPT ![s] = Absent]]
        /\ vault' \in {vault, [vault EXCEPT ![t] = [vault[t] EXCEPT ![s] = Absent]]}
    BY <1>4 DEF Filter, SecretTypes
  <2>4. [bundle[t] EXCEPT ![s] = Absent] \in Lists /\ [vault[t] EXCEPT ![s] = Absent] \in Lists
    BY <2>1, <2>2, ListFacts
  <2>5. UNCHANGED <<edgeVars, snapshot, pc, owed, op, arg, draft, facade, since, stamp, raced>>
    BY <1>4 DEF Filter
  <2> HIDE DEF s
  <2>6. QED
    BY <2>3, <2>4, <2>5, ZenonT(30) DEF SecretTypes, Others
<1>5. CASE FilterDone(t)
  <2>1. Return(t, vault[t]) /\ vault[t] \in Lists \cup {NoVault}
        /\ UNCHANGED <<edgeVars, snapshot, owed>>
    BY <1>5 DEF FilterDone, SecretTypes
  <2>2. QED
    BY <2>1, ReturnFacts DEF SecretTypes, Others
<1>6. CASE UnlockFails(t)
  <2>1. Return(t, NoVault) /\ UNCHANGED <<edgeVars, snapshot, owed>>
    BY <1>6 DEF UnlockFails
  <2>2. QED
    BY <2>1, ReturnFacts DEF SecretTypes, Others
<1>7. QED
  BY <1>1, <1>2, <1>3, <1>4, <1>5, <1>6 DEF UnlockStep

\* A step that begins a call, or takes or drops a vault.
LEMMA BeginTypes ==
    ASSUME SecretTypes, CallInv, NEW t \in Threads,
           Unlocked(t) \/ DropVault(t) \/ Call(t) \/ FacadeCall(t)
    PROVE  SecretTypes' /\ Others(t) /\ UNCHANGED edgeVars
<1>1. CASE Unlocked(t) \/ DropVault(t)
  <2>1. UNCHANGED <<edgeVars, snapshot, pc, callVars>>
        /\ \E v \in Lists \cup {NoVault} : Obtain(t, v)
    BY <1>1 DEF Unlocked, DropVault, SecretTypes
  <2>2. QED
    BY <2>1, ObtainFacts DEF SecretTypes, Others
<1>2. ASSUME NEW o \in Ops, Begin(t, o)
      PROVE  /\ pc' \in [Threads -> Unlocking \cup {"idle"} \cup Calling]
             /\ op' \in [Threads -> Ops \cup {"none", "unlock"}]
             /\ arg' \in [Threads -> Secrets \cup {NoSecret}]
             /\ since' \in [Threads -> Stamp]
             /\ \A u \in Threads : u # t =>
                   /\ pc'[u] = pc[u] /\ op'[u] = op[u]
                   /\ arg'[u] = arg[u] /\ since'[u] = since[u]
  <2>1. FirstRequest(o) \in Calling
    BY DEF FirstRequest, Ops, Calling
  <2>2. QED
    BY <1>2, <2>1 DEF Begin, Go, SecretTypes
<1>3. CASE Call(t)
  BY <1>2, <1>3 DEF Call, SecretTypes, Others
<1>4. CASE FacadeCall(t)
  <2>1. /\ UNCHANGED <<edgeVars, snapshot, draft, bundle, stamp, raced>>
        /\ facade' = [facade EXCEPT ![t] = TRUE] /\ Obtain(t, snapshot)
        /\ \E o \in Ops : Begin(t, o)
    BY <1>4 DEF FacadeCall, Ops
  <2>2. /\ vault' \in [Threads -> Lists \cup {NoVault}]
        /\ owed' \in [Threads -> [Secrets -> Stamp]]
        /\ \A u \in Threads : u # t => vault'[u] = vault[u] /\ owed'[u] = owed[u]
    BY <2>1, ObtainFacts DEF SecretTypes
  <2>3. QED
    BY <1>2, <2>1, <2>2 DEF SecretTypes, Others
<1>5. QED
  BY <1>1, <1>3, <1>4

\* What a call sends as the new version of its secret.
LEMMA WrittenFacts ==
    ASSUME SecretTypes, CallInv, NEW t \in Threads, NEW s \in Secrets, clock < MaxWrites
    PROVE  /\ pc[t] = "patch" => /\ Patched(t) \in [live : BOOLEAN, ver : Nat, login : Nat]
                                 /\ Patched(t).login \in Stamp
           /\ [server[s] EXCEPT !.live = FALSE] \in [live : BOOLEAN, ver : Nat, login : Nat]
           /\ [server[s] EXCEPT !.live = FALSE].login \in Stamp
           /\ New \in [live : BOOLEAN, ver : Nat, login : Nat]
           /\ New.login \in Stamp
<1>1. clock + 1 \in Stamp /\ \A n \in Stamp : n \in Nat
  BY ListFacts DEF SecretTypes, Stamp
<1>2. \A x \in Secrets : /\ server[x] \in [live : BOOLEAN, ver : Nat, login : Nat]
                         /\ server[x].login \in Stamp
  BY <1>1 DEF SecretTypes, Vaults, Content
<1>3. ASSUME pc[t] = "patch"
      PROVE  /\ Patched(t) \in [live : BOOLEAN, ver : Nat, login : Nat]
             /\ Patched(t).login \in Stamp
  <2>1. arg[t] \in Secrets /\ op[t] \in {"rename", "payload", "totp"} /\ draft[t] \in Stamp
    BY <1>3 DEF CallInv, Prepared, Calling, SecretTypes
  <2>2. QED
    BY <1>1, <1>2, <2>1 DEF Patched
<1>4. QED
  BY <1>1, <1>2, <1>3 DEF New

\* A step of a call that returns an error.
LEMMA ErrTypes ==
    ASSUME SecretTypes, NEW t \in Threads, Err(t),
           server' \in Vaults, clock' \in Stamp
    PROVE  SecretTypes' /\ Others(t) /\ UNCHANGED snapshot
<1>1. vault[t] \in Lists \cup {NoVault} /\ Return(t, vault[t]) /\ UNCHANGED <<snapshot, owed>>
  BY DEF Err, SecretTypes
<1>2. QED
  BY <1>1, ReturnFacts DEF SecretTypes, Others

\* A request of a call.
LEMMA RequestTypes ==
    ASSUME SecretTypes, CallInv, NEW t \in Threads,
           \/ Get(t) \/ Check(t) \/ Patch(t) \/ PatchLost(t) \/ Refresh(t) \/ RefreshFails(t)
           \/ Delete(t) \/ DeleteLost(t) \/ AdminDelete(t)
           \/ Post(t) \/ PostLost(t) \/ ReadBack(t) \/ ReadBackFails(t) \/ RequestFails(t)
    PROVE  SecretTypes' /\ Others(t) /\ Newer /\ UNCHANGED snapshot
<1>1. pc[t] \in Calling => /\ arg[t] \in Secrets /\ vault[t] \in Lists
                           /\ server[arg[t]] \in Content /\ server[arg[t]].login \in Stamp
  BY DEF CallInv, Prepared, SecretTypes, Vaults, Content
<1>2. server \in Vaults /\ clock \in Stamp
  BY DEF SecretTypes
<1>3. ASSUME NEW s \in Secrets, NEW c \in [live : BOOLEAN, ver : Nat, login : Nat],
             c.login \in Stamp, Accept(s, c)
      PROVE  server' \in Vaults /\ clock' \in Stamp /\ clock + 1 \in Stamp /\ Newer
  BY <1>2, <1>3, AcceptFacts DEF Newer
<1>4. UNCHANGED edgeVars => server' \in Vaults /\ clock' \in Stamp /\ Newer
  BY <1>2 DEF Newer
<1>5. CASE Get(t) \/ Check(t)
  <2>1. pc[t] \in Calling
    BY <1>5 DEF Get, Check, Calling
  <2>2. CASE Get(t)
    BY <1>1, <1>4, <2>1, <2>2 DEF Get, Go, SecretTypes, Others, Calling
  <2>3. CASE Check(t)
    BY <1>1, <1>4, <2>1, <2>3 DEF Check, Go, SecretTypes, Others, Calling
  <2>4. QED
    BY <1>5, <2>2, <2>3
<1>6. CASE Patch(t) \/ PatchLost(t)
  <2>1. pc[t] = "patch" /\ Accept(arg[t], Patched(t)) /\ clock < MaxWrites /\ arg[t] \in Secrets
    BY <1>1, <1>6 DEF Patch, PatchLost, Calling, Accept
  <2>2. server' \in Vaults /\ clock' \in Stamp /\ clock + 1 \in Stamp /\ Newer
    BY <1>3, <2>1, WrittenFacts
  <2>3. CASE Patch(t)
    BY <2>2, <2>3, ListFacts DEF Patch, Go, SecretTypes, Others, Calling, Stamp
  <2>4. CASE PatchLost(t)
    BY <2>2, <2>4, ErrTypes DEF PatchLost
  <2>5. QED
    BY <1>6, <2>3, <2>4
<1>7. CASE Post(t) \/ PostLost(t)
  <2>1. pc[t] = "post" /\ Accept(arg[t], New) /\ clock < MaxWrites /\ arg[t] \in Secrets
    BY <1>1, <1>7 DEF Post, PostLost, Calling, Accept
  <2>2. server' \in Vaults /\ clock' \in Stamp /\ clock + 1 \in Stamp /\ Newer
    BY <1>3, <2>1, WrittenFacts
  <2>3. CASE Post(t)
    BY <2>2, <2>3 DEF Post, Go, SecretTypes, Others, Calling
  <2>4. CASE PostLost(t)
    BY <2>2, <2>4, ErrTypes DEF PostLost
  <2>5. QED
    BY <1>7, <2>3, <2>4
<1>8. CASE Delete(t) \/ DeleteLost(t)
  <2>1. /\ pc[t] = "delete" /\ Accept(arg[t], [server[arg[t]] EXCEPT !.live = FALSE])
        /\ clock < MaxWrites /\ arg[t] \in Secrets /\ vault[t] \in Lists
    BY <1>1, <1>8 DEF Delete, DeleteLost, Calling, Accept
  <2>2. server' \in Vaults /\ clock' \in Stamp /\ clock + 1 \in Stamp /\ Newer
    BY <1>3, <2>1, WrittenFacts
  <2>3. CASE Delete(t)
    <3> DEFINE v == [vault[t] EXCEPT ![arg[t]] = Absent]
    <3>1. v \in Lists
      BY <2>1, ListFacts
    <3>2. Return(t, v) /\ Owe(t, arg[t], clock + 1) /\ UNCHANGED snapshot
      BY <2>3 DEF Delete
    <3> HIDE DEF v
    <3>3. QED
      BY <2>1, <2>2, <3>1, <3>2, ReturnFacts, OweFacts DEF SecretTypes, Others
  <2>4. CASE DeleteLost(t)
    BY <2>2, <2>4, ErrTypes DEF DeleteLost
  <2>5. QED
    BY <1>8, <2>3, <2>4
<1>9. CASE AdminDelete(t)
  <2>1. PICK s \in Secrets : Accept(s, [server[s] EXCEPT !.live = FALSE])
    BY <1>9 DEF AdminDelete
  <2>2. server' \in Vaults /\ clock' \in Stamp /\ Newer
    BY <1>3, <2>1, WrittenFacts DEF Accept
  <2>3. QED
    BY <1>9, <2>2 DEF AdminDelete, SecretTypes, Others
<1>10. CASE Refresh(t) \/ ReadBack(t)
  <2>1. pc[t] \in Calling /\ server[arg[t]].live /\ stamp[t] \in Stamp
    BY <1>10 DEF Refresh, ReadBack, Calling, SecretTypes
  <2>2. [vault[t] EXCEPT ![arg[t]] = server[arg[t]]] \in Lists
    BY <1>1, <2>1, ListFacts
  <2>3. PICK v \in Lists : Return(t, v)
    BY <1>1, <1>10, <2>1, <2>2 DEF Refresh, ReadBack
  <2>4. Owe(t, arg[t], stamp[t]) /\ UNCHANGED <<edgeVars, snapshot>>
    BY <1>10 DEF Refresh, ReadBack
  <2>5. QED
    BY <1>1, <1>4, <2>1, <2>3, <2>4, ReturnFacts, OweFacts DEF SecretTypes, Others
<1>11. CASE RefreshFails(t) \/ ReadBackFails(t) \/ RequestFails(t)
  BY <1>4, <1>11, ErrTypes DEF RefreshFails, ReadBackFails, RequestFails
<1>12. QED
  BY <1>5, <1>6, <1>7, <1>8, <1>9, <1>10, <1>11

\* Every step of thread t.
LEMMA StepTypes ==
    ASSUME SecretTypes, CallInv, NEW t \in Threads, UnlockStep(t) \/ CallStep(t)
    PROVE  SecretTypes' /\ Others(t) /\ Newer
<1>1. UNCHANGED edgeVars => Newer
  BY DEF Newer
<1>2. QED
  BY <1>1, UnlockTypes, BeginTypes, RequestTypes DEF CallStep
-----------------------------------------------------------------------------
(* What holds of each thread.                                              *)

\* Versions and stamps are numbers.
LEMMA StampNumbers ==
    ASSUME SecretTypes
    PROVE  /\ clock \in Nat
           /\ \A s \in Secrets : server[s].ver \in Nat /\ server[s].live \in BOOLEAN
           /\ \A v \in Lists, s \in Secrets : v[s].ver \in Nat /\ v[s].live \in BOOLEAN
           /\ \A t \in Threads : since[t] \in Nat /\ stamp[t] \in Nat
           /\ \A t \in Threads, s \in Secrets : owed[t][s] \in Nat
BY ListFacts DEF SecretTypes, Lists, Vaults, Content, Stamp

\* The writes of t leave what holds of another thread u.
LEMMA OtherThread ==
    ASSUME SecretTypes, SecretTypes', ServerPast, NEW t \in Threads, NEW u \in Threads, u # t,
           Prepared(u), Progress(u), Others(t), Newer
    PROVE  Prepared(u)' /\ Progress(u)'
<1>1. /\ pc'[u] = pc[u] /\ op'[u] = op[u] /\ arg'[u] = arg[u] /\ draft'[u] = draft[u]
      /\ bundle'[u] = bundle[u] /\ vault'[u] = vault[u]
      /\ since'[u] = since[u] /\ stamp'[u] = stamp[u] /\ owed'[u] = owed[u]
      /\ raced[u] => raced'[u]
      /\ snapshot' # snapshot /\ pc[u] = "keys" => raced'[u]
  BY DEF Others
<1>2. /\ clock <= clock' /\ since[u] <= clock /\ clock' \in Nat
      /\ \A s \in Secrets :
            /\ server[s].ver <= server'[s].ver /\ server'[s].ver \in Nat
            /\ server'[s].ver <= since[u] => server'[s] = server[s]
  BY StampNumbers DEF Newer, ServerPast, Progress, Stamped
<1>3. Prepared(u)'
  BY <1>1 DEF Prepared
<1>4. Stamped(u)'
  <2>1. since[u] <= clock'
    BY <1>2, StampNumbers
  <2>2. ASSUME pc[u] \in {"refresh", "readback"} PROVE stamp[u] <= server'[arg[u]].ver
    <3>1. arg[u] \in Secrets /\ stamp[u] <= server[arg[u]].ver
      BY <2>2 DEF Prepared, Calling, Progress, Stamped
    <3>2. QED
      BY <1>2, <3>1, StampNumbers
  <2>3. QED
    BY <1>1, <2>1, <2>2 DEF Stamped
<1>5. Visible(u)'
  BY <1>1 DEF Progress, Visible
<1>6. DraftKept(u)'
  <2>1. ASSUME pc[u] \in {"check", "patch"}, op[u] = "totp", server'[arg[u]].ver <= since[u]
        PROVE  draft[u] = server'[arg[u]].login
    <3>1. arg[u] \in Secrets
      BY <2>1 DEF Prepared, Calling
    <3>2. server'[arg[u]] = server[arg[u]]
      BY <1>2, <2>1, <3>1
    <3>3. QED
      BY <2>1, <3>2 DEF Progress, DraftKept
  <2>2. QED
    BY <1>1, <2>1 DEF DraftKept
<1>7. Fetched(u)'
  <2>1. ASSUME pc[u] = "keys", NEW s \in Secrets
        PROVE  /\ server'[s].ver <= since[u] => bundle[u][s] = Listing'[s]
               /\ bundle[u][s].live => bundle[u][s].ver <= server'[s].ver
               /\ /\ bundle[u][s].live /\ ~raced'[u]
                  /\ snapshot' # NoVault /\ snapshot'[s].live
                  => bundle[u][s].ver >= snapshot'[s].ver
    <3>1. bundle[u] \in Lists
      BY <2>1 DEF Prepared, SecretTypes
    <3>2. server'[s] = server[s] => Listing'[s] = Listing[s]
      BY DEF Listing
    <3>3. server'[s].ver <= since[u] => bundle[u][s] = Listing'[s]
      BY <1>2, <2>1, <3>2 DEF Progress, Fetched
    <3>4. bundle[u][s].live => bundle[u][s].ver <= server'[s].ver
      <4>1. bundle[u][s].ver \in Nat /\ server[s].ver \in Nat /\ server'[s].ver \in Nat
        BY <1>2, <3>1, StampNumbers
      <4>2. bundle[u][s].live => bundle[u][s].ver <= server[s].ver
        BY <2>1 DEF Progress, Fetched
      <4>3. QED
        BY <1>2, <4>1, <4>2
    <3>5. ~raced'[u] => snapshot' = snapshot /\ ~raced[u]
      BY <1>1, <2>1
    <3>6. QED
      BY <2>1, <3>3, <3>4, <3>5 DEF Progress, Fetched
  <2>2. QED
    BY <1>1, <2>1 DEF Fetched
<1>8. QED
  BY <1>3, <1>4, <1>5, <1>6, <1>7 DEF Progress

\* Nothing is asked of a thread between calls but that its vault is not behind it.
LEMMA IdleThread ==
    ASSUME NEW t \in Threads, pc'[t] = "idle", since'[t] <= clock', Visible(t)'
    PROVE  Prepared(t)' /\ Progress(t)'
BY DEF Prepared, Calling, Progress, Stamped, DraftKept, Fetched

\* A vault whose own writes are all to come is not behind them.
LEMMA ObtainedVisible ==
    ASSUME SecretTypes, NEW t \in Threads, NEW v \in Lists \cup {NoVault}, Obtain(t, v)
    PROVE  Visible(t)'
<1>1. vault'[t] = v /\ \A s \in Secrets : owed'[t][s] = 0
  BY ObtainFacts
<1>2. \A s \in Secrets : v # NoVault => v[s].ver \in Nat
  BY StampNumbers
<1>3. QED
  BY <1>1, <1>2 DEF Visible

\* A call that returns with the vault it had, or none.
LEMMA ReturnVisible ==
    ASSUME SecretTypes, NEW t \in Threads, Visible(t), UNCHANGED owed,
           Return(t, vault[t]) \/ Return(t, NoVault)
    PROVE  pc'[t] = "idle" /\ since'[t] = 0 /\ Visible(t)'
<1>1. vault[t] \in Lists \cup {NoVault}
  BY DEF SecretTypes
<1>2. pc'[t] = "idle" /\ since'[t] = 0 /\ vault'[t] \in {NoVault, vault[t]}
  BY <1>1, ReturnFacts
<1>3. QED
  BY <1>2 DEF Visible

\* A step of unlock, for its own thread.
LEMMA UnlockThread ==
    ASSUME SecretInv, NEW t \in Threads, UnlockStep(t)
    PROVE  Prepared(t)' /\ Progress(t)'
<1> USE DEF SecretInv
<1>1. Prepared(t) /\ Progress(t) /\ clock \in Nat /\ UNCHANGED edgeVars
  BY StampNumbers, UnlockTypes DEF CallInv
<1>2. CASE Unlock(t)
  <2>1. /\ pc'[t] = "unlock" /\ since'[t] = clock /\ UNCHANGED <<vault, owed>>
    BY <1>2 DEF Unlock, Go, SecretTypes
  <2>2. QED
    BY <1>1, <2>1 DEF Prepared, Calling, Progress, Stamped, Visible, DraftKept, Fetched
<1>3. CASE FetchBundle(t)
  <2>1. /\ pc'[t] = "keys" /\ bundle'[t] = Listing
        /\ UNCHANGED <<vault, owed, since, snapshot>> /\ Listing' = Listing
    BY <1>1, <1>3 DEF FetchBundle, Go, SecretTypes, Listing
  <2>2. Prepared(t)'
    BY <2>1, ListFacts, ListingFacts DEF Prepared, Calling, SecretTypes
  <2>3. Stamped(t)' /\ Visible(t)' /\ DraftKept(t)'
    BY <1>1, <2>1 DEF Progress, Stamped, Visible, DraftKept
  <2>4. ASSUME NEW s \in Secrets, Listing[s].live
        PROVE  /\ Listing[s].ver <= server[s].ver
               /\ snapshot # NoVault /\ snapshot[s].live => Listing[s].ver >= snapshot[s].ver
    <3>1. Listing[s] = server[s] /\ server[s].ver \in Nat
      BY <2>4, ListingFacts, StampNumbers DEF SecretTypes
    <3>2. snapshot # NoVault => snapshot[s].ver \in Nat
      BY StampNumbers DEF SecretTypes
    <3>3. QED
      BY <3>1, <3>2 DEF ServerPast
  <2>5. Fetched(t)'
    BY <1>1, <2>1, <2>4 DEF Fetched
  <2>6. QED
    BY <2>2, <2>3, <2>5 DEF Progress
<1>4. CASE StoreSnapshot(t)
  <2>1. /\ pc[t] = "keys" /\ bundle[t] \in Lists /\ Obtain(t, bundle[t])
    BY <1>1, <1>4 DEF StoreSnapshot, SecretTypes, Prepared
  <2>2. Visible(t)' /\ vault'[t] \in Lists
    BY <2>1, ObtainedVisible, ObtainFacts
  <2>3. CASE Go(t, "filter") /\ UNCHANGED <<op, bundle, since>>
    <3>1. pc'[t] = "filter" /\ bundle'[t] # NoVault /\ vault'[t] # NoVault
          /\ since'[t] <= clock'
      BY <1>1, <2>1, <2>2, <2>3, ListFacts DEF Go, SecretTypes, Progress, Stamped
    <3>2. QED
      BY <2>2, <3>1 DEF Prepared, Calling, Progress, Stamped, DraftKept, Fetched
  <2>4. CASE Go(t, "idle") /\ since' = [since EXCEPT ![t] = 0]
    <3>1. pc'[t] = "idle" /\ since'[t] <= clock'
      BY <1>1, <2>4 DEF Go, SecretTypes
    <3>2. QED
      BY <2>2, <3>1, IdleThread
  <2>5. QED
    BY <1>4, <2>3, <2>4 DEF StoreSnapshot
<1>5. CASE Filter(t)
  <2> DEFINE s == CHOOSE x \in Secrets : bundle[t][x].live
  <2>1. /\ s \in Secrets /\ bundle[t] \in Lists /\ vault[t] \in Lists /\ pc[t] = "filter"
        /\ UNCHANGED <<snapshot, pc, owed, op, since>>
    BY <1>1, <1>5 DEF Filter, SecretTypes, Prepared
  <2>2. /\ bundle'[t] = [bundle[t] EXCEPT ![s] = Absent]
        /\ vault'[t] = vault[t] \/ vault'[t] = [vault[t] EXCEPT ![s] = Absent]
    BY <1>5 DEF Filter, SecretTypes
  <2> HIDE DEF s
  <2>3. bundle'[t] # NoVault /\ vault'[t] # NoVault
    <3>1. [bundle[t] EXCEPT ![s] = Absent] \in Lists /\ [vault[t] EXCEPT ![s] = Absent] \in Lists
      BY <2>1, ListFacts
    <3>2. bundle'[t] \in Lists /\ vault'[t] \in Lists
      BY <2>1, <2>2, <3>1
    <3>3. QED
      BY <3>2, ListFacts
  <2>4. \A x \in Secrets : vault'[t][x].live => vault'[t][x] = vault[t][x]
    BY <2>1, <2>2 DEF Lists, Vaults, Absent
  <2>5. Visible(t)'
    BY <1>1, <2>1, <2>4, ListFacts DEF Progress, Visible
  <2>6. QED
    BY <1>1, <2>1, <2>3, <2>5
    DEF Prepared, Calling, Progress, Stamped, DraftKept, Fetched
<1>6. CASE FilterDone(t) \/ UnlockFails(t)
  <2>1. pc'[t] = "idle" /\ since'[t] = 0 /\ Visible(t)'
    BY <1>1, <1>6, ReturnVisible DEF FilterDone, UnlockFails, Progress
  <2>2. QED
    BY <1>1, <2>1, IdleThread
<1>7. QED
  BY <1>2, <1>3, <1>4, <1>5, <1>6 DEF UnlockStep

\* A step that begins a call, or takes or drops a vault, for its own thread.
LEMMA BeginThread ==
    ASSUME SecretInv, NEW t \in Threads,
           Unlocked(t) \/ DropVault(t) \/ Call(t) \/ FacadeCall(t)
    PROVE  Prepared(t)' /\ Progress(t)'
<1> USE DEF SecretInv
<1>1. Prepared(t) /\ Progress(t) /\ clock \in Nat /\ UNCHANGED edgeVars
  BY StampNumbers, BeginTypes DEF CallInv
<1>2. CASE Unlocked(t) \/ DropVault(t)
  <2>1. /\ pc'[t] = "idle" /\ since'[t] = since[t]
        /\ \E v \in Lists \cup {NoVault} : Obtain(t, v)
    BY <1>2 DEF Unlocked, DropVault, SecretTypes
  <2>2. QED
    BY <1>1, <2>1, ObtainedVisible, IdleThread DEF Progress, Stamped
<1>3. ASSUME NEW o \in Ops, Begin(t, o), vault'[t] # NoVault, Visible(t)'
      PROVE  Prepared(t)' /\ Progress(t)'
  <2>1. /\ pc'[t] = FirstRequest(o) /\ op'[t] = o /\ since'[t] = clock /\ arg'[t] \in Secrets
    BY <1>3 DEF Begin, Go, SecretTypes
  <2>2. /\ pc'[t] \in {"get", "check", "patch", "delete", "post"}
        /\ pc'[t] = "get" => o = "totp"
        /\ pc'[t] = "check" => o = "payload"
        /\ pc'[t] = "patch" => o = "rename"
    BY <2>1 DEF FirstRequest, Ops
  <2>3. QED
    BY <1>1, <1>3, <2>1, <2>2 DEF Prepared, Progress, Stamped, DraftKept, Fetched
<1>4. CASE Call(t)
  <2>1. vault[t] # NoVault /\ UNCHANGED <<vault, owed>> /\ \E o \in Ops : Begin(t, o)
    BY <1>4 DEF Call
  <2>2. vault'[t] # NoVault /\ Visible(t)'
    BY <1>1, <2>1 DEF Progress, Visible
  <2>3. QED
    BY <1>3, <2>1, <2>2
<1>5. CASE FacadeCall(t)
  <2>1. /\ snapshot \in Lists /\ Obtain(t, snapshot) /\ \E o \in Ops : Begin(t, o)
    BY <1>5 DEF FacadeCall, Ops, SecretTypes
  <2>2. vault'[t] # NoVault /\ Visible(t)'
    BY <2>1, ObtainFacts, ObtainedVisible, ListFacts
  <2>3. QED
    BY <1>3, <2>1, <2>2
<1>6. QED
  BY <1>2, <1>4, <1>5

\* A step of a call, for its own thread.
LEMMA RequestThread ==
    ASSUME SecretInv, NEW t \in Threads,
           \/ Get(t) \/ Check(t) \/ Patch(t) \/ PatchLost(t) \/ Refresh(t) \/ RefreshFails(t)
           \/ Delete(t) \/ DeleteLost(t) \/ AdminDelete(t)
           \/ Post(t) \/ PostLost(t) \/ ReadBack(t) \/ ReadBackFails(t) \/ RequestFails(t)
    PROVE  Prepared(t)' /\ Progress(t)'
<1> USE DEF SecretInv
<1>1. /\ Prepared(t) /\ Progress(t) /\ clock \in Nat /\ clock' \in Nat
      /\ clock <= clock' /\ Newer /\ since[t] <= clock' /\ Visible(t) /\ since[t] \in Nat
  BY StampNumbers, RequestTypes DEF CallInv, Newer, Progress, Stamped
<1>2. ASSUME Err(t) PROVE Prepared(t)' /\ Progress(t)'
  <2>1. pc'[t] = "idle" /\ since'[t] = 0 /\ Visible(t)'
    BY <1>1, <1>2, ReturnVisible DEF Err
  <2>2. QED
    BY <1>1, <2>1, IdleThread
<1>3. CASE Get(t)
  <2>1. /\ pc[t] = "get" /\ pc'[t] = "check" /\ draft'[t] = server[arg[t]].login
        /\ UNCHANGED <<server, clock, vault, owed, op, arg, since>>
    BY <1>3 DEF Get, Go, SecretTypes
  <2>2. QED
    BY <1>1, <2>1
    DEF Prepared, Calling, Progress, Stamped, Visible, DraftKept, Fetched
<1>4. CASE Check(t)
  <2>1. /\ pc[t] = "check" /\ pc'[t] = "patch"
        /\ UNCHANGED <<server, clock, vault, owed, op, arg, since, draft>>
    BY <1>4 DEF Check, Go, SecretTypes
  <2>2. QED
    BY <1>1, <2>1
    DEF Prepared, Calling, Progress, Stamped, Visible, DraftKept, Fetched
<1>5. CASE Patch(t) \/ Post(t)
  <2>1. /\ pc[t] \in Calling /\ pc'[t] \in {"refresh", "readback"}
        /\ UNCHANGED <<vault, owed, op, arg, since>> /\ stamp'[t] = clock + 1
    BY <1>5 DEF Patch, Post, Go, SecretTypes, Calling
  <2>2. arg[t] \in Secrets /\ vault[t] # NoVault
    BY <1>1, <2>1 DEF Prepared
  <2>3. server'[arg[t]].ver = clock + 1
    <3>1. clock < MaxWrites /\ server \in Vaults /\ clock \in Stamp
      BY <1>5 DEF Patch, Post, Accept, SecretTypes
    <3>2. QED
      BY <1>5, <2>2, <3>1, WrittenFacts, AcceptFacts DEF Patch, Post
  <2>4. QED
    BY <1>1, <2>1, <2>2, <2>3
    DEF Prepared, Calling, Progress, Stamped, Visible, DraftKept, Fetched
<1>6. CASE PatchLost(t) \/ RefreshFails(t) \/ DeleteLost(t) \/ PostLost(t)
           \/ ReadBackFails(t) \/ RequestFails(t)
  BY <1>2, <1>6
  DEF PatchLost, RefreshFails, DeleteLost, PostLost, ReadBackFails, RequestFails
<1>7. CASE AdminDelete(t)
  <2>1. pc[t] = "idle" /\ UNCHANGED <<pc, vault, owed, since>>
    BY <1>7 DEF AdminDelete
  <2>2. QED
    BY <1>1, <2>1, IdleThread DEF Visible
<1>8. ASSUME NEW v \in Lists, NEW n \in Stamp, arg[t] \in Secrets, vault[t] # NoVault,
             Return(t, v), Owe(t, arg[t], n),
             v[arg[t]].live => n <= v[arg[t]].ver,
             \A x \in Secrets : x # arg[t] => v[x] = vault[t][x]
      PROVE  Prepared(t)' /\ Progress(t)'
  <2>1. /\ pc'[t] = "idle" /\ since'[t] = 0
        /\ IF facade[t] THEN vault'[t] = NoVault ELSE vault'[t] = v
    BY <1>8, ReturnFacts
  <2>2. CASE ~facade[t]
    <3>1. /\ vault'[t] = v /\ owed'[t][arg[t]] = n
          /\ \A x \in Secrets : x # arg[t] => owed'[t][x] = owed[t][x]
      BY <1>8, <2>1, <2>2, OweFacts
    <3>2. v[arg[t]].ver \in Nat /\ n \in Nat
      BY <1>8, StampNumbers DEF Stamp
    <3>3. ASSUME NEW x \in Secrets, v[x].live PROVE v[x].ver >= owed'[t][x]
      BY <1>1, <1>8, <3>1, <3>2, <3>3 DEF Visible
    <3>4. Visible(t)'
      BY <3>1, <3>3 DEF Visible
    <3>5. QED
      BY <1>1, <2>1, <3>4, IdleThread
  <2>3. CASE facade[t]
    BY <1>1, <2>1, <2>3, IdleThread DEF Visible
  <2>4. QED
    BY <2>2, <2>3
<1>9. ASSUME pc[t] \in Calling
      PROVE  arg[t] \in Secrets /\ vault[t] \in Lists /\ vault[t] # NoVault
  BY <1>1, <1>9 DEF Prepared, SecretTypes
<1>10. CASE Refresh(t) \/ ReadBack(t)
  <2>1. /\ pc[t] \in {"refresh", "readback"} /\ server[arg[t]].live
        /\ Owe(t, arg[t], stamp[t]) /\ stamp[t] \in Stamp
        /\ pc[t] \in Calling
    BY <1>10 DEF Refresh, ReadBack, SecretTypes, Calling
  <2>2. server[arg[t]] \in Content /\ server[arg[t]].ver >= stamp[t]
    BY <1>1, <1>9, <2>1, StampNumbers DEF SecretTypes, Vaults, Progress, Stamped
  <2> DEFINE new == [vault[t] EXCEPT ![arg[t]] = server[arg[t]]]
  <2>3. /\ new \in Lists /\ new[arg[t]] = server[arg[t]]
        /\ \A x \in Secrets : x # arg[t] => new[x] = vault[t][x]
    BY <1>9, <2>1, <2>2, ListFacts DEF Lists, Vaults
  <2>4. Return(t, new) \/ (Return(t, vault[t]) /\ ~vault[t][arg[t]].live)
    BY <1>10 DEF Refresh, ReadBack
  <2> HIDE DEF new
  <2>5. CASE Return(t, new)
    <3>1. stamp[t] <= new[arg[t]].ver
      BY <1>9, <2>1, <2>2, <2>3, StampNumbers
    <3>2. QED
      BY <1>8, <1>9, <2>1, <2>3, <2>5, <3>1
  <2>6. CASE Return(t, vault[t]) /\ ~vault[t][arg[t]].live
    BY <1>8, <1>9, <2>1, <2>6
  <2>7. QED
    BY <2>4, <2>5, <2>6
<1>11. CASE Delete(t)
  <2> DEFINE new == [vault[t] EXCEPT ![arg[t]] = Absent]
  <2>1. /\ pc[t] \in Calling /\ Return(t, new) /\ Owe(t, arg[t], clock + 1)
        /\ clock < MaxWrites /\ clock \in Stamp
    BY <1>11 DEF Delete, Calling, Accept, SecretTypes
  <2>2. clock + 1 \in Stamp
    BY <2>1, ListFacts DEF Stamp
  <2>3. /\ new \in Lists /\ ~new[arg[t]].live
        /\ \A x \in Secrets : x # arg[t] => new[x] = vault[t][x]
    BY <1>9, <2>1, ListFacts DEF Lists, Vaults, Absent
  <2> HIDE DEF new
  <2>4. QED
    BY <1>8, <1>9, <2>1, <2>2, <2>3
<1>12. QED
  BY <1>3, <1>4, <1>5, <1>6, <1>7, <1>10, <1>11
-----------------------------------------------------------------------------
(* The invariant, and what follows from it.                                *)

\* The program starts without a snapshot and outside all calls.
LEMMA SecretStart == Init => SecretInv
<1> SUFFICES ASSUME Init PROVE SecretInv
  OBVIOUS
<1>1. /\ server \in Vaults /\ \A s \in Secrets : server[s].ver = 0
      /\ 0 \in Stamp
  <2>1. \A s \in Secrets : (s \in Existing) \in BOOLEAN
    OBVIOUS
  <2>2. 0 \in Stamp
    BY ListFacts DEF Stamp
  <2>3. ASSUME NEW b \in BOOLEAN
        PROVE  [Absent EXCEPT !.live = b] \in Content /\ [Absent EXCEPT !.live = b].ver = 0
    BY <2>2 DEF Absent, Content
  <2>4. QED
    BY <2>1, <2>2, <2>3 DEF Init, Vaults
<1>2. SecretTypes
  BY <1>1 DEF Init, SecretTypes
<1>3. CallInv /\ ServerPast
  BY <1>1 DEF Init, CallInv, Prepared, Calling, ServerPast
<1>4. ASSUME NEW t \in Threads PROVE Progress(t)
  <2>1. pc[t] = "idle" /\ vault[t] = NoVault /\ since[t] = 0 /\ clock = 0
    BY DEF Init
  <2>2. QED
    BY <2>1 DEF Progress, Stamped, Visible, DraftKept, Fetched
<1>5. QED
  BY <1>2, <1>3, <1>4 DEF SecretInv

\* The snapshot stays of the past.
LEMMA PastKept ==
    ASSUME SecretInv, NEW t \in Threads, UnlockStep(t) \/ CallStep(t), Newer
    PROVE  ServerPast'
<1> USE DEF SecretInv
<1>1. \A s \in Secrets : /\ server'[s].ver <= clock' /\ server[s].ver <= server'[s].ver
                         /\ server'[s].ver \in Nat
  BY StampNumbers DEF Newer, ServerPast
<1>2. snapshot' = snapshot \/ (pc[t] = "keys" /\ snapshot' = bundle[t])
  <2>1. UnlockStep(t) => snapshot' = snapshot \/ (pc[t] = "keys" /\ snapshot' = bundle[t])
    BY DEF UnlockStep, Unlock, FetchBundle, StoreSnapshot, Filter, FilterDone, UnlockFails
  <2>2. Unlocked(t) \/ DropVault(t) \/ Call(t) \/ FacadeCall(t) => snapshot' = snapshot
    BY DEF Unlocked, DropVault, Call, FacadeCall
  <2>3. QED
    BY <2>1, <2>2, RequestTypes DEF CallStep
<1>3. \A s \in Secrets : snapshot' # NoVault /\ snapshot'[s].live
        => snapshot'[s].ver <= server[s].ver /\ snapshot'[s].ver \in Nat
  <2>1. pc[t] = "keys" => bundle[t] \in Lists
    BY DEF CallInv, Prepared, SecretTypes
  <2>2. CASE snapshot' = snapshot
    BY <2>2, StampNumbers DEF ServerPast, SecretTypes
  <2>3. CASE pc[t] = "keys" /\ snapshot' = bundle[t]
    BY <2>1, <2>3, StampNumbers DEF Progress, Fetched
  <2>4. QED
    BY <1>2, <2>2, <2>3
<1>4. QED
  BY <1>1, <1>3, StampNumbers DEF ServerPast

\* Every step keeps the invariant.
LEMMA SecretStep == SecretInv /\ [Next]_vars => SecretInv'
<1> SUFFICES ASSUME SecretInv, [Next]_vars PROVE SecretInv'
  OBVIOUS
<1>1. ASSUME NEW t \in Threads, UnlockStep(t) \/ CallStep(t) PROVE SecretInv'
  <2>1. SecretTypes' /\ Others(t) /\ Newer
    BY <1>1, StepTypes DEF SecretInv
  <2>2. Prepared(t)' /\ Progress(t)'
    BY <1>1, UnlockThread, BeginThread, RequestThread DEF CallStep
  <2>3. \A u \in Threads : u # t => Prepared(u)' /\ Progress(u)'
    BY <2>1, OtherThread DEF SecretInv, CallInv
  <2>4. ServerPast'
    BY <1>1, <2>1, PastKept
  <2>5. QED
    BY <2>1, <2>2, <2>3, <2>4 DEF SecretInv, CallInv
<1>2. CASE UNCHANGED vars
  BY <1>2 DEF vars, SecretInv, SecretTypes, CallInv, Prepared, ServerPast, Progress, Stamped,
     Visible, DraftKept, Fetched, Listing
<1>3. QED
  BY <1>1, <1>2 DEF Next

\* The invariant holds always.
LEMMA SecretsHold == Spec => []SecretInv
BY SecretStart, SecretStep, PTL DEF Spec

\* The types: every list of secrets has the ids of the server, and nothing but Absent
\* where it lists nothing.
THEOREM SecretTypesHold == Spec => []TypeOK
<1>1. SecretInv => TypeOK
  BY DEF SecretInv, SecretTypes, TypeOK, Lists, Unlocking, Calling
<1>2. QED
  BY <1>1, SecretsHold, PTL

\* For any number of threads, vaults and secrets: a vault is never behind a write that
\* was made through it and read back (refresh_cached_secret, delete_secret,
\* create_secret).
THEOREM OwnWritesSeen == Spec => []OwnWritesVisible
<1>1. SecretInv => OwnWritesVisible
  BY DEF SecretInv, Progress, Visible, OwnWritesVisible
<1>2. QED
  BY <1>1, SecretsHold, PTL

\* Nothing a change of TOTP writes undoes the login another version of the payload
\* has, if none was written since the call began (set_totp, remove_totp).
THEOREM TotpChangeKeepsLogin == Spec => TotpKeepsLogin
<1> DEFINE A == \A t \in Threads :
          LET s == arg[t] IN
          /\ pc[t] = "patch" /\ pc'[t] # "patch" /\ op[t] = "totp"
          /\ server[s].ver <= since[t]
          => server'[s].login = server[s].login
<1>1. SecretInv /\ [Next]_vars => [A]_vars
  <2> SUFFICES ASSUME SecretInv, Next, NEW t \in Threads,
                      pc[t] = "patch", pc'[t] # "patch", op[t] = "totp",
                      server[arg[t]].ver <= since[t]
               PROVE  server'[arg[t]].login = server[arg[t]].login
    BY DEF Next
  <2>1. PICK u \in Threads : UnlockStep(u) \/ CallStep(u)
    BY DEF Next
  <2>2. u = t
    BY <2>1, StepTypes DEF SecretInv, Others
  <2>3. arg[t] \in Secrets /\ draft[t] = server[arg[t]].login
    BY DEF SecretInv, CallInv, Prepared, Calling, Progress, DraftKept
  <2>4. Patch(t) \/ PatchLost(t) \/ RequestFails(t)
    BY <2>1, <2>2
    DEF UnlockStep, Unlock, FetchBundle, StoreSnapshot, Filter, FilterDone, UnlockFails, Unlocking,
        CallStep, Unlocked, DropVault, Call, FacadeCall, Get, Check, Refresh, RefreshFails, Delete,
        DeleteLost, AdminDelete, Post, PostLost, ReadBack, ReadBackFails
  <2>5. CASE Patch(t) \/ PatchLost(t)
    <3>1. Accept(arg[t], Patched(t)) /\ clock < MaxWrites
      BY <2>5 DEF Patch, PatchLost, Accept
    <3>2. server'[arg[t]].login = Patched(t).login
      BY <2>3, <3>1, WrittenFacts, AcceptFacts DEF SecretInv, SecretTypes
    <3>3. Patched(t).login = draft[t]
      <4>1. server[arg[t]] \in Content
        BY <2>3 DEF SecretInv, SecretTypes, Vaults
      <4>2. QED
        BY <4>1 DEF Patched, Content
    <3>4. QED
      BY <2>3, <3>2, <3>3
  <2>6. CASE RequestFails(t)
    BY <2>6 DEF RequestFails
  <2>7. QED
    BY <2>4, <2>5, <2>6
<1>2. QED
  BY <1>1, SecretsHold, PTL DEF Spec, TotpKeepsLogin

\* A snapshot is as the server had it when unlock began, and gives way to an older one
\* only if two calls of unlock overlapped (unlock, VaultResource::unlocked).
THEOREM SnapshotRecent == Spec => SnapshotIsRecent
<1> DEFINE A == \A t \in Threads :
          pc[t] = "keys" /\ pc'[t] # "keys" /\ vault'[t] # NoVault =>
              \A s \in Secrets : server[s].ver <= since[t] => snapshot'[s] = Listing[s]
           B == snapshot # NoVault =>
          \/ \E t \in Threads : pc[t] = "keys" /\ pc'[t] # "keys" /\ raced[t]
          \/ \A s \in Secrets :
                snapshot[s].live /\ snapshot'[s].live => snapshot'[s].ver >= snapshot[s].ver
<1>1. ASSUME SecretInv, NEW t \in Threads, UnlockStep(t) \/ CallStep(t)
      PROVE  /\ pc[t] = "keys" => StoreSnapshot(t) \/ UnlockFails(t)
             /\ snapshot' # snapshot => StoreSnapshot(t)
  <2>1. UnlockStep(t) => /\ pc[t] = "keys" => StoreSnapshot(t) \/ UnlockFails(t)
                         /\ snapshot' # snapshot => StoreSnapshot(t)
    BY DEF UnlockStep, Unlock, FetchBundle, Filter, FilterDone, UnlockFails
  <2>2. CallStep(t) => pc[t] # "keys"
    BY DEF CallStep, Unlocked, DropVault, Call, FacadeCall, Get, Check, Patch, PatchLost, Refresh,
       RefreshFails, Delete, DeleteLost, AdminDelete, Post, PostLost, ReadBack, ReadBackFails,
       RequestFails
  <2>3. CallStep(t) => snapshot' = snapshot
    <3>1. Unlocked(t) \/ DropVault(t) \/ Call(t) \/ FacadeCall(t) => snapshot' = snapshot
      BY DEF Unlocked, DropVault, Call, FacadeCall
    <3>2. QED
      BY <1>1, <3>1, RequestTypes DEF CallStep, SecretInv
  <2>4. QED
    BY <1>1, <2>1, <2>2, <2>3
<1>2. ASSUME SecretInv, NEW t \in Threads, StoreSnapshot(t)
      PROVE  pc[t] = "keys" /\ pc'[t] # "keys" /\ snapshot' = bundle[t] /\ bundle[t] \in Lists
  BY <1>2 DEF StoreSnapshot, Go, SecretInv, SecretTypes, CallInv, Prepared
<1>3. SecretInv /\ [Next]_vars => [A]_vars
  <2> SUFFICES ASSUME SecretInv, Next, NEW t \in Threads, pc[t] = "keys", pc'[t] # "keys",
                      vault'[t] # NoVault, NEW s \in Secrets, server[s].ver <= since[t]
               PROVE  snapshot'[s] = Listing[s]
    BY DEF Next
  <2>1. PICK u \in Threads : UnlockStep(u) \/ CallStep(u)
    BY DEF Next
  <2>2. u = t
    BY <2>1, StepTypes DEF SecretInv, Others
  <2>3. ~UnlockFails(t)
    BY ListFacts DEF UnlockFails, Return, SecretInv, SecretTypes
  <2>4. QED
    BY <1>1, <1>2, <2>1, <2>2, <2>3 DEF SecretInv, Progress, Fetched
<1>4. SecretInv /\ [Next]_vars => [B]_vars
  <2> SUFFICES ASSUME SecretInv, Next, snapshot # NoVault PROVE B
    BY DEF Next
  <2>1. PICK t \in Threads : UnlockStep(t) \/ CallStep(t)
    BY DEF Next
  <2>2. CASE snapshot' = snapshot
    BY <2>2, StampNumbers DEF SecretInv, SecretTypes
  <2>3. CASE StoreSnapshot(t)
    BY <1>2, <2>3 DEF SecretInv, Progress, Fetched
  <2>4. QED
    BY <1>1, <2>1, <2>2, <2>3
<1>5. Spec => [][A]_vars /\ [][B]_vars
  BY <1>3, <1>4, SecretsHold, PTL DEF Spec
<1>6. QED
  BY <1>5 DEF SnapshotIsRecent, UnlockIsFresh, SnapshotNoOlder
=============================================================================
