------------------------------ MODULE VaultKeys ------------------------------
(***************************************************************************)
(* The keys of a vault (sdk/rust/src/vault/resources/vault.rs):            *)
(* initialize, update_key, delete_key and the first half of unlock.        *)
(*                                                                         *)
(* The secrets are encrypted with one organisation key, which the server   *)
(* never sees: it keeps a wrapping of it per vault key, made by the client *)
(* from a password and bound to the id of that vault key.  The server      *)
(* finds a wrapping by the hash of the password; to unwrap it a client     *)
(* needs the id as well, which it does not get with the wrapping, so it    *)
(* tries the ids of a second response, the list of keys.                   *)
(*                                                                         *)
(* A recovery code is a password that only initialize makes.  An id or an  *)
(* organisation key is a number, fresh when it is drawn.                   *)
(***************************************************************************)
EXTENDS Integers, FiniteSets

CONSTANTS
    Clients,     \* threads or programs that use the vault
    Passwords,   \* vault keys the users choose
    Codes,       \* recovery codes
    MaxDraws     \* bound on the ids and organisation keys drawn

ASSUME VaultKeysAssumption ==
    MaxDraws \in Nat /\ IsFiniteSet(Codes) /\ Passwords \cap Codes = {}

None == 0
Wrapping(org, secret, id) == [org |-> org, secret |-> secret, id |-> id]

VARIABLES
    keys,     \* the server's: [id, kind, secret, wrapping]
    orgKey,   \* the key the secrets are encrypted with, None: no vault
    draws,    \* numbers drawn
    step,     \* per client: idle, or the request it makes: fetch, list, put, post
    calling,  \* unlock or update
    secret,   \* the password or code the call is given
    fetched,  \* the wrapping the server returned
    material, \* the vault keys to send
    \* history
    undisturbed \* no key was removed since the wrapping was fetched

clientVars == <<step, calling, secret, fetched, material>>
keyVars    == <<keys, orgKey, draws, clientVars, undisturbed>>

NoWrapping == Wrapping(None, "none", None)

KeysInit ==
    /\ keys = {} /\ orgKey = None /\ draws = 0
    /\ step = [c \in Clients |-> "idle"] /\ calling = [c \in Clients |-> "none"]
    /\ secret = [c \in Clients |-> "none"] /\ fetched = [c \in Clients |-> NoWrapping]
    /\ material = [c \in Clients |-> {}] /\ undisturbed = [c \in Clients |-> TRUE]

\* The call returns.
Ends(c) ==
    /\ step' = [step EXCEPT ![c] = "idle"] /\ calling' = [calling EXCEPT ![c] = "none"]
    /\ secret' = [secret EXCEPT ![c] = "none"] /\ fetched' = [fetched EXCEPT ![c] = NoWrapping]
    /\ material' = [material EXCEPT ![c] = {}]

\* generate_vault_key_material: id number id, from password or code s.
VaultKeyMaterial(id, kind, s, org) ==
    [id |-> id, kind |-> kind, secret |-> s, wrapping |-> Wrapping(org, s, id)]

\* The server's keys become new; it keeps the organisation key as it is wrapped.
Store(new) ==
    /\ keys' = new
    /\ undisturbed' = [c \in Clients |-> undisturbed[c] /\ keys \subseteq new]

-----------------------------------------------------------------------------
(* initialize.                                                             *)

\* An organisation key, a primary key for the password, a key per code.
Initialize(c) ==
    /\ step[c] = "idle" /\ draws + 2 + Cardinality(Codes) <= MaxDraws
    /\ \E p \in Passwords, ids \in [Codes -> draws + 3 .. draws + 2 + Cardinality(Codes)] :
          /\ \A a, b \in Codes : ids[a] = ids[b] => a = b
          /\ material' = [material EXCEPT ![c] =
                {VaultKeyMaterial(draws + 2, "primary", p, draws + 1)}
                \cup {VaultKeyMaterial(ids[r], "recovery", r, draws + 1) : r \in Codes}]
    /\ draws' = draws + 2 + Cardinality(Codes)
    /\ step' = [step EXCEPT ![c] = "post"]
    /\ UNCHANGED <<keys, orgKey, calling, secret, fetched, undisturbed>>

\* POST /initialize, refused if there is a vault; its answer may be lost.
PostInitialize(c) ==
    /\ step[c] = "post" /\ orgKey = None
    /\ Store(material[c])
    /\ orgKey' = (CHOOSE k \in material[c] : TRUE).wrapping.org
    /\ Ends(c) /\ UNCHANGED draws

-----------------------------------------------------------------------------
(* unlock and update_key.                                                  *)

\* info: the vault exists.
Open(c) ==
    /\ step[c] = "idle" /\ orgKey # None
    /\ calling' = [calling EXCEPT ![c] = "unlock"] \/ calling' = [calling EXCEPT ![c] = "update"]
    /\ \E s \in Passwords \cup Codes : secret' = [secret EXCEPT ![c] = s]
    /\ step' = [step EXCEPT ![c] = "fetch"]
    /\ UNCHANGED <<keys, orgKey, draws, fetched, material, undisturbed>>

\* GET /unlock with the hash of the password.
FetchWrapping(c) ==
    /\ step[c] = "fetch"
    /\ \E k \in keys : k.secret = secret[c] /\ fetched' = [fetched EXCEPT ![c] = k.wrapping]
    /\ step' = [step EXCEPT ![c] = "list"]
    /\ undisturbed' = [undisturbed EXCEPT ![c] = TRUE]
    /\ UNCHANGED <<keys, orgKey, draws, calling, secret, material>>

NoKeyMatched(c) ==
    /\ step[c] = "fetch" /\ \A k \in keys : k.secret # secret[c]
    /\ Ends(c) /\ UNCHANGED <<keys, orgKey, draws, undisturbed>>

\* Mutant: only primary keys are tried.
UnwrapsPrimary(c) == \E k \in keys : k.kind = "primary" /\ fetched[c] = Wrapping(fetched[c].org, secret[c], k.id)

\* unwrap_with_any_key: GET /keys, and one of the ids fits the wrapping.
Unwraps(c) == \E k \in keys : fetched[c] = Wrapping(fetched[c].org, secret[c], k.id)

\* unlock goes on with the secrets of the first response (VaultSecrets).
Unlocks(c) ==
    /\ step[c] = "list" /\ calling[c] = "unlock" /\ Unwraps(c)
    /\ Ends(c) /\ UNCHANGED <<keys, orgKey, draws, undisturbed>>

\* Mutant: a change of the password draws a new organisation key.
RewrapNewOrg(c) ==
    /\ step[c] = "list" /\ calling[c] = "update" /\ Unwraps(c) /\ draws + 2 <= MaxDraws
    /\ \E p \in Passwords : material' =
          [material EXCEPT ![c] = {VaultKeyMaterial(draws + 1, "primary", p, draws + 2)}]
    /\ draws' = draws + 2
    /\ step' = [step EXCEPT ![c] = "put"]
    /\ UNCHANGED <<keys, orgKey, calling, secret, fetched, undisturbed>>

\* update_key wraps the same organisation key for the new password.
Rewrap(c) ==
    /\ step[c] = "list" /\ calling[c] = "update" /\ Unwraps(c) /\ draws < MaxDraws
    /\ \E p \in Passwords : material' =
          [material EXCEPT ![c] = {VaultKeyMaterial(draws + 1, "primary", p, fetched[c].org)}]
    /\ draws' = draws + 1
    /\ step' = [step EXCEPT ![c] = "put"]
    /\ UNCHANGED <<keys, orgKey, calling, secret, fetched, undisturbed>>

UnwrapFails(c) ==
    /\ step[c] = "list" /\ ~Unwraps(c)
    /\ Ends(c) /\ UNCHANGED <<keys, orgKey, draws, undisturbed>>

\* PUT /keys/primary, with the hash of the password or code that authenticates
\* it: the server replaces the primary key if that is still one of its keys.
PutPrimary(c) ==
    /\ step[c] = "put" /\ \E k \in keys : k.secret = secret[c]
    /\ Store({k \in keys : k.kind # "primary"} \cup material[c])
    /\ Ends(c) /\ UNCHANGED <<orgKey, draws>>

\* A request fails, or the server refuses it.
RequestFailed(c) ==
    /\ step[c] \in {"fetch", "list", "put", "post"}
    /\ Ends(c) /\ UNCHANGED <<keys, orgKey, draws, undisturbed>>

\* delete_key, of a recovery key.
DeleteKey(c) ==
    /\ step[c] = "idle"
    /\ \E k \in keys : k.kind = "recovery" /\ Store(keys \ {k})
    /\ UNCHANGED <<orgKey, draws, clientVars>>

KeyStep(c) ==
    \/ Initialize(c) \/ PostInitialize(c) \/ Open(c) \/ FetchWrapping(c) \/ NoKeyMatched(c)
    \/ Unlocks(c) \/ Rewrap(c) \/ UnwrapFails(c) \/ PutPrimary(c)
    \/ RequestFailed(c) \/ DeleteKey(c)

KeysNext == \E c \in Clients : KeyStep(c)

KeysSpec == KeysInit /\ [][KeysNext]_keyVars

-----------------------------------------------------------------------------
\* Every key of the vault opens it: its wrapping gives, with its password and
\* its id, the key the secrets are encrypted with; whoever initialises it at the
\* same time, however often the password is changed, and by whom at once.
EveryKeyOpens ==
    \A k \in keys : k.wrapping = Wrapping(orgKey, k.secret, k.id)

\* unlock and update_key find the id of the wrapping they were given unless a
\* key was removed between their two requests.
UnwrapsUnlessDisturbed ==
    \A c \in Clients : step[c] = "list" /\ undisturbed[c] => Unwraps(c)

\* There is a primary key once there is a vault.
KeysTypeOK ==
    /\ orgKey \in 0..MaxDraws /\ draws \in 0..MaxDraws
    /\ orgKey # None => Cardinality({k \in keys : k.kind = "primary"}) = 1
    /\ step \in [Clients -> {"idle", "fetch", "list", "put", "post"}]
    /\ calling \in [Clients -> {"none", "unlock", "update"}]
=============================================================================
