----------------------------- MODULE VaultSecrets -----------------------------
(***************************************************************************)
(* The decrypted secrets an unlocked vault keeps                           *)
(* (sdk/rust/src/vault/resources/vault.rs) and how AgentIdentity           *)
(* (sdk/rust/src/agent_identity.rs) uses them.                             *)
(*                                                                         *)
(* VaultResource shares one snapshot, stored by unlock; an UnlockedVault   *)
(* is a copy of it with requests of its own, held by a thread or made for  *)
(* one call of the identity facade and dropped when that returns.  Every   *)
(* request is a step and may fail, with or without its effect on the       *)
(* server.                                                                 *)
(*                                                                         *)
(* A secret is what the server holds for its id: the stamp of the write    *)
(* that made this version, and the stamp of the write the payload without  *)
(* its TOTP part (the login) comes from.  A vault lists the secrets it has *)
(* live.  The organisation key never changes, so ciphertext is not         *)
(* modelled; a key replaced while unlock is under way makes unlock fail.   *)
(***************************************************************************)
EXTENDS Integers

CONSTANTS
    Threads,   \* threads of the program, and of other programs
    Secrets,   \* ids
    Existing,  \* the secrets there are at first
    MaxWrites, \* bound on the writes the server accepts
    NoVault,   \* no vault, or no snapshot yet
    NoSecret   \* the argument of a thread in no call

ASSUME VaultAssumption ==
    /\ Existing \subseteq Secrets /\ MaxWrites \in Nat
    /\ NoSecret \notin Secrets
    /\ NoVault \notin [Secrets -> [live : BOOLEAN, ver : Nat, login : Nat]]

Stamp   == 0..MaxWrites
Content == [live : BOOLEAN, ver : Stamp, login : Stamp]
Absent  == [live |-> FALSE, ver |-> 0, login |-> 0]
Vaults  == [Secrets -> Content]
Ops     == {"rename", "payload", "totp", "delete", "create"}
Unlocking == {"unlock", "keys", "filter"}

VARIABLES
    server,    \* per id, its last version; deleted or not yet created: not live
    clock,     \* writes the server has accepted
    snapshot,  \* VaultResource::unlocked
    \* per thread
    pc,        \* the request it makes next, "idle" between calls
    op, arg,   \* the method called, and the secret it is about
    draft,     \* the login part of the payload read by a change of TOTP
    bundle,    \* the decrypted unlock response, in "filter" what is left of it
    vault,     \* the UnlockedVault in use
    facade,    \* it was cloned by the facade for this call
    \* history
    since,     \* clock when the call under way began
    stamp,     \* the stamp of the write of this call
    owed,      \* stamp the vault has reached for a secret, by its own writes
    raced      \* a snapshot was stored after bundle was fetched

edgeVars == <<server, clock>>
callVars == <<op, arg, draft, bundle, facade, since, stamp, raced>>
vars == <<edgeVars, snapshot, pc, vault, owed, callVars>>

Init ==
    /\ server = [s \in Secrets |-> [Absent EXCEPT !.live = s \in Existing]]
    /\ clock = 0 /\ snapshot = NoVault
    /\ pc = [t \in Threads |-> "idle"] /\ op = [t \in Threads |-> "none"]
    /\ arg = [t \in Threads |-> NoSecret]
    /\ draft = [t \in Threads |-> 0]
    /\ bundle = [t \in Threads |-> NoVault] /\ vault = [t \in Threads |-> NoVault]
    /\ facade = [t \in Threads |-> FALSE]
    /\ since = [t \in Threads |-> 0] /\ stamp = [t \in Threads |-> 0]
    /\ owed = [t \in Threads |-> [s \in Secrets |-> 0]]
    /\ raced = [t \in Threads |-> FALSE]

-----------------------------------------------------------------------------
(* The server.                                                             *)

\* Version c of s is accepted as write number clock + 1.
Accept(s, c) ==
    /\ clock < MaxWrites
    /\ clock' = clock + 1
    /\ server' = [server EXCEPT ![s] = [c EXCEPT !.ver = clock + 1]]

\* The secrets a response with all of them holds.
Listing == [s \in Secrets |-> IF server[s].live THEN server[s] ELSE Absent]

Go(t, step) == pc' = [pc EXCEPT ![t] = step]

NothingOwed == [s \in Secrets |-> 0]

\* The vault has reached write n of s.
Owe(t, s, n) ==
    owed' = [owed EXCEPT ![t] = IF facade[t] THEN NothingOwed ELSE [@ EXCEPT ![s] = n]]

\* The call returns; a vault the facade cloned for it is dropped.
Return(t, v) ==
    /\ Go(t, "idle")
    /\ op' = [op EXCEPT ![t] = "none"] /\ arg' = [arg EXCEPT ![t] = NoSecret]
    /\ draft' = [draft EXCEPT ![t] = 0] /\ stamp' = [stamp EXCEPT ![t] = 0]
    /\ bundle' = [bundle EXCEPT ![t] = NoVault]
    /\ facade' = [facade EXCEPT ![t] = FALSE]
    /\ vault' = [vault EXCEPT ![t] = IF facade[t] THEN NoVault ELSE v]
    /\ since' = [since EXCEPT ![t] = 0] /\ raced' = [raced EXCEPT ![t] = FALSE]

\* It returns an error before or after the request it failed at.
Err(t) == Return(t, vault[t]) /\ UNCHANGED <<snapshot, owed>>

-----------------------------------------------------------------------------
(* unlock.                                                                 *)

Unlock(t) ==
    /\ pc[t] = "idle" /\ vault[t] = NoVault
    /\ Go(t, "unlock")
    /\ op' = [op EXCEPT ![t] = "unlock"]
    /\ since' = [since EXCEPT ![t] = clock]
    /\ UNCHANGED <<edgeVars, snapshot, vault, owed, arg, draft, bundle, facade, stamp, raced>>

\* Mutant: the response of an earlier unlock is used again.
FetchBundleCached(t) ==
    /\ pc[t] = "unlock"
    /\ Go(t, "keys")
    /\ bundle' = [bundle EXCEPT ![t] = IF snapshot = NoVault THEN Listing ELSE snapshot]
    /\ UNCHANGED <<edgeVars, snapshot, vault, owed, op, arg, draft, facade, since, stamp, raced>>

\* GET /unlock: the wrapped key and every secret.
FetchBundle(t) ==
    /\ pc[t] = "unlock"
    /\ Go(t, "keys")
    /\ bundle' = [bundle EXCEPT ![t] = Listing]
    /\ UNCHANGED <<edgeVars, snapshot, vault, owed, op, arg, draft, facade, since, stamp, raced>>

\* A vault with the listing v, whose own writes are all to come.
Obtain(t, v) ==
    /\ vault' = [vault EXCEPT ![t] = v]
    /\ owed' = [owed EXCEPT ![t] = NothingOwed]

\* GET /keys, the key unwraps, the secrets are decrypted and stored unfiltered;
\* without an identity_id they are also what the caller gets.
StoreSnapshot(t) ==
    /\ pc[t] = "keys"
    /\ snapshot' = bundle[t]
    /\ Obtain(t, bundle[t])
    /\ raced' = [u \in Threads |-> u # t /\ (raced[u] \/ pc[u] = "keys")]
    /\ \/ Go(t, "filter") /\ UNCHANGED <<op, bundle, since>>
       \/ /\ Go(t, "idle") /\ op' = [op EXCEPT ![t] = "none"]
          /\ bundle' = [bundle EXCEPT ![t] = NoVault]
          /\ since' = [since EXCEPT ![t] = 0]
    /\ UNCHANGED <<edgeVars, arg, draft, facade, stamp>>

\* One GET of access rules: the secret is kept if the identity is among them.
Filter(t) ==
    /\ pc[t] = "filter" /\ \E s \in Secrets : bundle[t][s].live
    /\ LET s == CHOOSE x \in Secrets : bundle[t][x].live IN
          /\ bundle' = [bundle EXCEPT ![t][s] = Absent]
          /\ vault' \in {vault, [vault EXCEPT ![t][s] = Absent]}
    /\ UNCHANGED <<edgeVars, snapshot, pc, owed, op, arg, draft, facade, since, stamp, raced>>

FilterDone(t) ==
    /\ pc[t] = "filter" /\ \A s \in Secrets : ~bundle[t][s].live
    /\ Return(t, vault[t]) /\ UNCHANGED <<edgeVars, snapshot, owed>>

\* A request of unlock fails, or no key unwraps: no vault is returned, yet a
\* snapshot already stored stays.
UnlockFails(t) ==
    /\ pc[t] \in Unlocking
    /\ Return(t, NoVault) /\ UNCHANGED <<edgeVars, snapshot, owed>>

-----------------------------------------------------------------------------
(* Starting a call on an UnlockedVault.                                    *)

\* VaultResource::unlocked: a copy of the snapshot, with its cache.
Unlocked(t) ==
    /\ pc[t] = "idle" /\ vault[t] = NoVault /\ snapshot # NoVault
    /\ Obtain(t, snapshot)
    /\ UNCHANGED <<edgeVars, snapshot, pc, callVars>>

DropVault(t) ==
    /\ pc[t] = "idle" /\ vault[t] # NoVault
    /\ Obtain(t, NoVault)
    /\ UNCHANGED <<edgeVars, snapshot, pc, callVars>>

FirstRequest(o) ==
    CASE o = "totp"    -> "get"
      [] o = "payload" -> "check"
      [] o = "rename"  -> "patch"
      [] o = "delete"  -> "delete"
      [] o = "create"  -> "post"

\* A secret to work on is one the caller knows of, though it may be deleted; a
\* new one has a fresh id.
Known(s) == server[s].live \/ server[s].ver > 0

Begin(t, o) ==
    /\ op' = [op EXCEPT ![t] = o]
    /\ Go(t, FirstRequest(o))
    /\ since' = [since EXCEPT ![t] = clock]
    /\ \E s \in Secrets :
          /\ IF o = "create" THEN ~Known(s) /\ \A u \in Threads : ~(pc[u] = "post" /\ arg[u] = s)
                             ELSE Known(s)
          /\ arg' = [arg EXCEPT ![t] = s]

\* A call on a vault the thread holds.
Call(t) ==
    /\ pc[t] = "idle" /\ vault[t] # NoVault
    /\ \E o \in Ops : Begin(t, o)
    /\ UNCHANGED <<edgeVars, snapshot, vault, owed, draft, bundle, facade, stamp, raced>>

\* A call of the identity facade: on a clone of the snapshot.
FacadeCall(t) ==
    /\ pc[t] = "idle" /\ vault[t] = NoVault /\ snapshot # NoVault
    /\ Obtain(t, snapshot)
    /\ facade' = [facade EXCEPT ![t] = TRUE]
    /\ \E o \in {"totp", "delete", "create"} : Begin(t, o)
    /\ UNCHANGED <<edgeVars, snapshot, draft, bundle, stamp, raced>>

-----------------------------------------------------------------------------
(* update_secret; set_totp, set_totp_uri and remove_totp ("totp").          *)

\* Mutant: the payload to change is taken from the cache.
GetCached(t) ==
    /\ pc[t] = "get" /\ vault[t][arg[t]].live
    /\ draft' = [draft EXCEPT ![t] = vault[t][arg[t]].login]
    /\ Go(t, "check")
    /\ UNCHANGED <<edgeVars, snapshot, vault, owed, op, arg, bundle, facade, since, stamp, raced>>

\* get_secret: the payload to change.
Get(t) ==
    /\ pc[t] = "get" /\ server[arg[t]].live
    /\ draft' = [draft EXCEPT ![t] = server[arg[t]].login]
    /\ Go(t, "check")
    /\ UNCHANGED <<edgeVars, snapshot, vault, owed, op, arg, bundle, facade, since, stamp, raced>>

\* The secret is fetched again for its type, which never changes.
Check(t) ==
    /\ pc[t] = "check" /\ server[arg[t]].live
    /\ Go(t, "patch")
    /\ UNCHANGED <<edgeVars, snapshot, vault, owed, callVars>>

\* What PATCH makes of the secret: a payload replaces the whole payload.
Patched(t) ==
    LET now == server[arg[t]] IN
    CASE op[t] = "rename"  -> now
      [] op[t] = "payload" -> [now EXCEPT !.login = clock + 1]
      [] op[t] = "totp"    -> [now EXCEPT !.login = draft[t]]

Patch(t) ==
    /\ pc[t] = "patch" /\ server[arg[t]].live
    /\ Accept(arg[t], Patched(t))
    /\ Go(t, "refresh") /\ stamp' = [stamp EXCEPT ![t] = clock + 1]
    /\ draft' = [draft EXCEPT ![t] = 0]
    /\ UNCHANGED <<snapshot, vault, owed, op, arg, bundle, facade, since, raced>>

\* The write took effect and its answer is lost.
PatchLost(t) ==
    /\ pc[t] = "patch" /\ server[arg[t]].live
    /\ Accept(arg[t], Patched(t))
    /\ Err(t)

\* Mutant: only a payload is worth refreshing.
RefreshPayloadOnly(t) ==
    LET s == arg[t] IN
    /\ pc[t] = "refresh" /\ server[s].live
    /\ Return(t, IF vault[t][s].live /\ op[t] # "rename"
                 THEN [vault[t] EXCEPT ![s] = server[s]] ELSE vault[t])
    /\ Owe(t, s, stamp[t])
    /\ UNCHANGED <<edgeVars, snapshot>>

\* refresh_cached_secret: an entry the cache has is replaced, none is added.
Refresh(t) ==
    LET s == arg[t] IN
    /\ pc[t] = "refresh" /\ server[s].live
    /\ Return(t, IF vault[t][s].live THEN [vault[t] EXCEPT ![s] = server[s]] ELSE vault[t])
    /\ Owe(t, s, stamp[t])
    /\ UNCHANGED <<edgeVars, snapshot>>

\* It is best effort: the call succeeds all the same.
RefreshFails(t) == pc[t] = "refresh" /\ Err(t) /\ UNCHANGED edgeVars

-----------------------------------------------------------------------------
(* delete_secret and create_secret.                                        *)

\* Mutant: the entry stays in the cache, marked as deleted.
DeleteMarks(t) ==
    LET s == arg[t] IN
    /\ pc[t] = "delete" /\ server[s].live
    /\ Accept(s, [server[s] EXCEPT !.live = FALSE])
    /\ Return(t, [vault[t] EXCEPT ![s].live = FALSE])
    /\ Owe(t, s, clock + 1)
    /\ UNCHANGED snapshot

\* DELETE is accepted and the secret taken off the list.
Delete(t) ==
    LET s == arg[t] IN
    /\ pc[t] = "delete" /\ server[s].live
    /\ Accept(s, [server[s] EXCEPT !.live = FALSE])
    /\ Return(t, [vault[t] EXCEPT ![s] = Absent])
    /\ Owe(t, s, clock + 1)
    /\ UNCHANGED snapshot

DeleteLost(t) ==
    /\ pc[t] = "delete" /\ server[arg[t]].live
    /\ Accept(arg[t], [server[arg[t]] EXCEPT !.live = FALSE])
    /\ Err(t)

\* VaultResource::delete_secret touches no cache.
AdminDelete(t) ==
    /\ pc[t] = "idle"
    /\ \E s \in Secrets :
          server[s].live /\ Accept(s, [server[s] EXCEPT !.live = FALSE])
    /\ UNCHANGED <<snapshot, pc, vault, owed, callVars>>

New == [live |-> TRUE, ver |-> 0, login |-> clock + 1]

\* POST /secrets.
Post(t) ==
    /\ pc[t] = "post"
    /\ Accept(arg[t], New)
    /\ Go(t, "readback") /\ stamp' = [stamp EXCEPT ![t] = clock + 1]
    /\ UNCHANGED <<snapshot, vault, owed, op, arg, draft, bundle, facade, since, raced>>

PostLost(t) ==
    /\ pc[t] = "post"
    /\ Accept(arg[t], New)
    /\ Err(t)

\* The new secret is read back and listed.  The facade then grants the identity
\* access, which is the server's state alone.
ReadBack(t) ==
    LET s == arg[t] IN
    /\ pc[t] = "readback" /\ server[s].live
    /\ Return(t, [vault[t] EXCEPT ![s] = server[s]])
    /\ Owe(t, s, stamp[t])
    /\ UNCHANGED <<edgeVars, snapshot>>

ReadBackFails(t) == pc[t] = "readback" /\ Err(t) /\ UNCHANGED edgeVars

\* A request before the write fails, or the secret is of another type or gone
\* (404); a write is refused or does not reach the server.
RequestFails(t) == pc[t] \in {"get", "check", "patch", "delete", "post"} /\ Err(t) /\ UNCHANGED edgeVars

-----------------------------------------------------------------------------
UnlockStep(t) ==
    Unlock(t) \/ FetchBundle(t) \/ StoreSnapshot(t) \/ Filter(t) \/ FilterDone(t) \/ UnlockFails(t)

CallStep(t) ==
    \/ Unlocked(t) \/ DropVault(t) \/ Call(t) \/ FacadeCall(t)
    \/ Get(t) \/ Check(t) \/ Patch(t) \/ PatchLost(t) \/ Refresh(t) \/ RefreshFails(t)
    \/ Delete(t) \/ DeleteLost(t) \/ AdminDelete(t)
    \/ Post(t) \/ PostLost(t) \/ ReadBack(t) \/ ReadBackFails(t) \/ RequestFails(t)

Next == \E t \in Threads : UnlockStep(t) \/ CallStep(t)

Spec == Init /\ [][Next]_vars
-----------------------------------------------------------------------------
(* Properties.                                                             *)

\* The types; what a vault, a snapshot or a bundle does not list is Absent.
TypeOK ==
    /\ server \in Vaults /\ clock \in Stamp /\ snapshot \in Vaults \cup {NoVault}
    /\ pc \in [Threads -> Unlocking \cup {"idle", "get", "check", "patch", "refresh",
                                          "delete", "post", "readback"}]
    /\ op \in [Threads -> Ops \cup {"none", "unlock"}] /\ arg \in [Threads -> Secrets \cup {NoSecret}]
    /\ draft \in [Threads -> Stamp]
    /\ bundle \in [Threads -> Vaults \cup {NoVault}]
    /\ vault \in [Threads -> Vaults \cup {NoVault}] /\ facade \in [Threads -> BOOLEAN]
    /\ since \in [Threads -> Stamp] /\ stamp \in [Threads -> Stamp]
    /\ owed \in [Threads -> [Secrets -> Stamp]] /\ raced \in [Threads -> BOOLEAN]
    /\ \A t \in Threads, s \in Secrets : \A v \in {snapshot, bundle[t], vault[t]} \ {NoVault} :
          v[s].live \/ v[s] = Absent

\* A vault is never behind the writes made through it whose refresh, read-back or
\* removal took place: it lists no older version of the secret, and not the
\* secret it deleted, whatever other threads wrote and whichever later calls
\* failed.
OwnWritesVisible ==
    \A t \in Threads : vault[t] # NoVault =>
        \A s \in Secrets : vault[t][s].live => vault[t][s].ver >= owed[t][s]

\* set_totp and remove_totp change the TOTP part alone if nothing was written to
\* the secret since they were called, however old the cache of the vault is.
TotpKeepsLogin ==
    [][\A t \in Threads :
          LET s == arg[t] IN
          /\ pc[t] = "patch" /\ pc'[t] # "patch" /\ op[t] = "totp"
          /\ server[s].ver <= since[t]
          => server'[s].login = server[s].login]_vars

\* unlock stores every write to a secret that was finished when it was called:
\* what has not changed since is in the snapshot as the server has it.
UnlockIsFresh ==
    [][\A t \in Threads :
          pc[t] = "keys" /\ pc'[t] # "keys" /\ vault'[t] # NoVault =>
              \A s \in Secrets : server[s].ver <= since[t] => snapshot'[s] = Listing[s]]_vars

\* The snapshot gives way to an older one only if two calls of unlock overlap
\* and the one that fetched first stores last.
SnapshotNoOlder ==
    [][snapshot # NoVault =>
          \/ \E t \in Threads : pc[t] = "keys" /\ pc'[t] # "keys" /\ raced[t]
          \/ \A s \in Secrets :
                snapshot[s].live /\ snapshot'[s].live => snapshot'[s].ver >= snapshot[s].ver]_vars

\* The snapshot all later vaults are copied from is as recent as the calls that
\* made it allow.
SnapshotIsRecent == UnlockIsFresh /\ SnapshotNoOlder

\* What AgentIdentity::credentials says of the snapshot it reads: that it is
\* always consistent.  A secret the identity has deleted is not listed.
CredentialsConsistent ==
    [][\A t \in Threads :
          facade[t] /\ Delete(t) => ~snapshot'[arg[t]].live]_vars
=============================================================================
