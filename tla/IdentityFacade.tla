---------------------------- MODULE IdentityFacade ----------------------------
(***************************************************************************)
(* What AgentIdentity (sdk/rust/src/agent_identity.rs) remembers of its    *)
(* identity: the payload last received, and cells of its own for the       *)
(* phone number, the mailbox and the tunnel, which the guards of its       *)
(* methods read.  with_response_metadata runs a closure on a scoped copy   *)
(* of the facade, dropped when the closure returns; the caller's facade    *)
(* stays usable meanwhile.  Other programs change the identity too.        *)
(*                                                                         *)
(* A phone number is a number, fresh when it is provisioned, 0 for none.   *)
(* The mailbox and the tunnel live as long as the identity, and their      *)
(* cells never change.  A request is a step and its answer may be lost.    *)
(***************************************************************************)
EXTENDS Integers

CONSTANT MaxEdits  \* bound on the changes to the identity

ASSUME FacadeAssumption == MaxEdits \in Nat \ {0}

Copies   == {"caller", "scoped"}
Identity == [phone : 0..MaxEdits, imessage : BOOLEAN]

VARIABLES
    identity, live, \* the server's identity; not deleted
    edits,          \* changes so far
    open,           \* the copies there are
    data,           \* per copy, the payload last received
    phoneCell,      \* per copy, the phone number the guards read
    provisioning,   \* the copy whose provision_phone_number reads back, or none
    \* history
    current         \* per copy: nothing but returned calls on it changed the identity

cacheVars  == <<data, phoneCell>>
facadeVars == <<identity, live, edits, open, cacheVars, provisioning, current>>

FacadeInit ==
    /\ identity \in {i \in Identity : i.phone \in {0, 1}} /\ live = TRUE
    /\ edits = 1 /\ open = {"caller"} /\ provisioning = "none"
    /\ data = [c \in Copies |-> identity]
    /\ phoneCell = [c \in Copies |-> identity.phone]
    /\ current = [c \in Copies |-> TRUE]

-----------------------------------------------------------------------------
\* The identity becomes i.
Edit(i) == edits < MaxEdits /\ edits' = edits + 1 /\ identity' = i

\* Copy c has seen the change, the others have not.
OnlySeenBy(copies) == current' = [c \in Copies |-> c \in copies /\ current[c]]

\* refresh, update, update_filter_modes and set_contact_sharing_enabled store
\* the payload i and all of the cells.
Received(c, i) ==
    /\ data' = [data EXCEPT ![c] = i]
    /\ phoneCell' = [phoneCell EXCEPT ![c] = i.phone]

RefreshIdentity(c) ==
    /\ live /\ Received(c, identity)
    /\ current' = [current EXCEPT ![c] = TRUE]
    /\ UNCHANGED <<identity, live, edits, open, provisioning>>

\* What a PATCH may change; a filter mode is not told apart.
Updates == {identity, [identity EXCEPT !.imessage = ~@]}

UpdateIdentity(c) ==
    /\ live
    /\ \E i \in Updates :
          /\ Edit(i) /\ Received(c, i)
          /\ current' = [d \in Copies |-> d = c \/ (current[d] /\ i = identity)]
    /\ UNCHANGED <<live, open, provisioning>>

\* provision_phone_number: the number is provisioned, and read back.
Provision(c) ==
    /\ live /\ identity.phone = 0
    /\ Edit([identity EXCEPT !.phone = edits + 1])
    /\ provisioning' = c /\ OnlySeenBy({})
    /\ UNCHANGED <<live, open, cacheVars>>

\* The payload and the phone's cell are stored.
ReadBackPhone(c) ==
    /\ provisioning = c /\ live /\ provisioning' = "none"
    /\ data' = [data EXCEPT ![c] = identity]
    /\ phoneCell' = [phoneCell EXCEPT ![c] = identity.phone]
    /\ current' = [current EXCEPT ![c] = TRUE]
    /\ UNCHANGED <<identity, live, edits, open>>

ReadBackPhoneFails(c) ==
    /\ provisioning = c /\ provisioning' = "none"
    /\ UNCHANGED <<identity, live, edits, open, cacheVars, current>>

\* require_phone_number.
HasPhone(c) == phoneCell[c] # 0

\* release_phone_number clears the cell; the payload keeps the number.
ReleasePhone(c) ==
    /\ live /\ HasPhone(c) /\ identity.phone # 0
    /\ Edit([identity EXCEPT !.phone = 0]) /\ OnlySeenBy({c})
    /\ phoneCell' = [phoneCell EXCEPT ![c] = 0]
    /\ UNCHANGED <<live, open, data, provisioning>>

\* delete.  No cell changes.
DeleteIdentity(c) ==
    /\ live /\ live' = FALSE
    /\ UNCHANGED <<identity, edits, open, cacheVars, provisioning, current>>

\* A call takes effect and its answer is lost, or another program makes it.
ChangedElsewhere ==
    /\ live
    /\ \E i \in Updates \cup {[identity EXCEPT !.phone = IF @ = 0 THEN edits + 1 ELSE 0]} :
          i # identity /\ Edit(i)
    /\ OnlySeenBy({})
    /\ UNCHANGED <<live, open, cacheVars, provisioning>>

-----------------------------------------------------------------------------
\* Mutant: the scoped copy is built from the payload alone.
EnterScopeFromData ==
    /\ open = {"caller"} /\ open' = Copies
    /\ data' = [data EXCEPT !["scoped"] = data["caller"]]
    /\ phoneCell' = [phoneCell EXCEPT !["scoped"] = data["caller"].phone]
    /\ current' = [current EXCEPT !["scoped"] = current["caller"]]
    /\ UNCHANGED <<identity, live, edits, provisioning>>

\* with_response_metadata: built from the payload, then given the cells.
EnterScope ==
    /\ open = {"caller"} /\ open' = Copies
    /\ data' = [data EXCEPT !["scoped"] = data["caller"]]
    /\ phoneCell' = [phoneCell EXCEPT !["scoped"] = phoneCell["caller"]]
    /\ current' = [current EXCEPT !["scoped"] = current["caller"]]
    /\ UNCHANGED <<identity, live, edits, provisioning>>

LeaveScope ==
    /\ open = Copies /\ open' = {"caller"} /\ provisioning # "scoped"
    /\ UNCHANGED <<identity, live, edits, cacheVars, provisioning, current>>

\* A facade is used by one thread: a call ends before the next begins.
FacadeNext ==
    \/ \E c \in open :
          \/ provisioning = "none" /\ (\/ RefreshIdentity(c) \/ UpdateIdentity(c) \/ Provision(c)
                                       \/ ReleasePhone(c) \/ DeleteIdentity(c))
          \/ ReadBackPhone(c) \/ ReadBackPhoneFails(c)
    \/ ChangedElsewhere
    \/ provisioning = "none" /\ (EnterScope \/ LeaveScope)

FacadeSpec == FacadeInit /\ [][FacadeNext]_facadeVars

-----------------------------------------------------------------------------
FacadeTypeOK ==
    /\ identity \in Identity /\ live \in BOOLEAN /\ edits \in 0..MaxEdits
    /\ {"caller"} \subseteq open /\ open \subseteq Copies
    /\ data \in [Copies -> Identity] /\ phoneCell \in [Copies -> 0..MaxEdits]
    /\ provisioning \in Copies \cup {"none"} /\ current \in [Copies -> BOOLEAN]

\* The guards of a facade, or of a scoped copy of it, know every change made by
\* its own returned calls since it was last told of the whole identity: a number
\* it released is not used again, the one it provisioned is.
GuardsKnowOwnChanges ==
    \A c \in open : live /\ current[c] =>
        /\ phoneCell[c] = identity.phone
        /\ data[c].imessage = identity.imessage
=============================================================================
