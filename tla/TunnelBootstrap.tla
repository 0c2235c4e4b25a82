--------------------------- MODULE TunnelBootstrap ---------------------------
(***************************************************************************)
(* What connect_inner (sdk/rust/src/tunnels/resources/tunnels.rs) does for *)
(* a passthrough tunnel before it starts the runtime: find the tunnel,     *)
(* load or create the private key, have a CSR signed if the cached chain   *)
(* does not serve, and keep it all in the state directory (state.rs,       *)
(* cert.rs).  Every access to a file and every request is a step; a        *)
(* process may stop between any two of them, and processes that share the  *)
(* directory interleave.                                                   *)
(*                                                                         *)
(* A key is its identity, a chain is the key it was issued for.  A file is *)
(* "none", "torn" (created and not, or only partly, written) or complete.  *)
(***************************************************************************)
EXTENDS Integers

CONSTANTS
    Procs,       \* client processes using one state directory
    Keys,        \* private keys that can be generated
    MaxTrouble   \* bound on interruptions, exits and changes from outside

ASSUME BootstrapAssumption ==
    /\ MaxTrouble \in Nat
    /\ Keys \cap {"none", "torn"} = {}

Files == {"key", "chain"}

VARIABLES
    \* the state directory
    stateFile,  \* the tunnel id in state.json, 0 if it is missing
    disk,       \* private_key.pem and cert_chain.pem
    aged,       \* the chain on disk is within the renewal threshold
    \* the control plane
    live,       \* id of the tunnel of this name
    active,     \* it is ACTIVE (otherwise it awaits a certificate)
    \* one attempt of each process
    pc,
    id,         \* the tunnel it works with: 0, or the persisted or listed id
    seenActive, \* the status it has fetched
    mine,       \* its private key
    served,     \* the chain it serves with
    writing,    \* the file write_private_file writes
    alone,      \* history: no other attempt has overlapped this one
    trouble     \* interruptions and outside changes so far

dirVars  == <<stateFile, disk, aged>>
edgeVars == <<live, active>>
procVars == <<id, seenActive, mine, served, writing>>
vars == <<dirVars, edgeVars, pc, procVars, alone, trouble>>

Init ==
    /\ stateFile = 0 /\ disk = [f \in Files |-> "none"] /\ aged = FALSE
    /\ live = 1 /\ active = FALSE
    /\ pc = [p \in Procs |-> "idle"] /\ id = [p \in Procs |-> 0]
    /\ seenActive = [p \in Procs |-> FALSE]
    /\ mine = [p \in Procs |-> "none"] /\ served = [p \in Procs |-> "none"]
    /\ writing = [p \in Procs |-> "key"]
    /\ alone = [p \in Procs |-> TRUE] /\ trouble = 0

-----------------------------------------------------------------------------
(* One attempt.                                                            *)

\* p is inside connect_inner, before the runtime runs.
Busy(p) == pc[p] \notin {"idle", "serving"}

Goto(p, l) == pc' = [pc EXCEPT ![p] = l]

\* A step from label l to label m that leaves the process's locals alone.
Move(p, l, m) == pc[p] = l /\ Goto(p, m) /\ UNCHANGED <<procVars, alone, trouble>>

\* connect_inner returns, and with it go the locals.
Return(p) ==
    /\ Goto(p, "idle")
    /\ id' = [id EXCEPT ![p] = 0] /\ seenActive' = [seenActive EXCEPT ![p] = FALSE]
    /\ mine' = [mine EXCEPT ![p] = "none"] /\ served' = [served EXCEPT ![p] = "none"]
    /\ UNCHANGED <<writing, dirVars>>

Connect(p) ==
    /\ pc[p] = "idle" /\ Goto(p, "load")
    /\ alone' = [q \in Procs |-> IF q = p THEN \A r \in Procs \ {p} : ~Busy(r)
                                 ELSE alone[q] /\ ~Busy(q)]
    /\ UNCHANGED <<dirVars, edgeVars, procVars, trouble>>

\* load_state: a missing or unreadable state.json gives no id.
LoadState(p) ==
    /\ pc[p] = "load" /\ Goto(p, "fetch")
    /\ id' = [id EXCEPT ![p] = stateFile]
    /\ UNCHANGED <<dirVars, edgeVars, seenActive, mine, served, writing, alone, trouble>>

\* A persisted id is looked up by id (404 is TunnelRemoved), otherwise the
\* tunnel of this name is taken from the list.
Fetch(p) ==
    /\ pc[p] = "fetch"
    /\ \/ /\ id[p] \in {0, live}
          /\ id' = [id EXCEPT ![p] = live]
          /\ seenActive' = [seenActive EXCEPT ![p] = active]
          /\ Goto(p, "key") /\ UNCHANGED <<mine, served, writing, dirVars>>
       \/ id[p] \notin {0, live} /\ Return(p)
    /\ UNCHANGED <<edgeVars, alone, trouble>>

\* load_or_create_keypair: look for the key file, or generate a key.
FindKey(p) ==
    /\ pc[p] = "key"
    /\ \/ /\ disk["key"] # "none"
          /\ Goto(p, "readKey") /\ UNCHANGED <<mine, writing>>
       \/ /\ disk["key"] = "none"
          /\ \E k \in Keys :
                /\ k # disk["chain"] /\ \A q \in Procs : mine[q] # k
                /\ mine' = [mine EXCEPT ![p] = k]
          /\ writing' = [writing EXCEPT ![p] = "key"]
          /\ Goto(p, "test")
    /\ UNCHANGED <<dirVars, edgeVars, id, seenActive, served, alone, trouble>>

\* Mutant: whatever is in the file is taken for a key.
ReadKeyUnparsed(p) ==
    /\ pc[p] = "readKey" /\ Goto(p, "check")
    /\ mine' = [mine EXCEPT ![p] = disk["key"]]
    /\ UNCHANGED <<dirVars, edgeVars, id, seenActive, served, writing, alone, trouble>>

\* A key file that does not parse is an error.
ReadKey(p) ==
    /\ pc[p] = "readKey"
    /\ \/ /\ disk["key"] \in Keys
          /\ mine' = [mine EXCEPT ![p] = disk["key"]]
          /\ Goto(p, "check") /\ UNCHANGED <<id, seenActive, served, writing, dirVars>>
       \/ disk["key"] \notin Keys /\ Return(p)
    /\ UNCHANGED <<edgeVars, alone, trouble>>

\* Mutant: the chain is not compared with the key.
NeedsSignByAge(p) == disk["chain"] \in {"none", "torn"} \/ aged

\* cert_needs_sign: the chain is missing, unreadable, for another key or old.
NeedsSign(p) == disk["chain"] # mine[p] \/ aged

CheckChain(p) ==
    /\ Move(p, "check", IF ~seenActive[p] \/ NeedsSign(p) THEN "sign" ELSE "readChain")
    /\ UNCHANGED <<dirVars, edgeVars>>

ReadChain(p) ==
    /\ pc[p] = "readChain"
    /\ served' = [served EXCEPT ![p] = disk["chain"]]
    /\ Goto(p, "save")
    /\ UNCHANGED <<dirVars, edgeVars, id, seenActive, mine, writing, alone, trouble>>

\* sign_csr: the server issues the chain and the tunnel becomes ACTIVE.
Sign(p) ==
    /\ pc[p] = "sign"
    /\ \/ /\ id[p] = live
          /\ active' = TRUE
          /\ writing' = [writing EXCEPT ![p] = "chain"]
          /\ Goto(p, "test") /\ UNCHANGED <<id, seenActive, mine, served, dirVars>>
       \/ id[p] # live /\ Return(p) /\ UNCHANGED active
    /\ UNCHANGED <<live, alone, trouble>>

\* The tunnel is fetched again and must be ACTIVE; the chain is the signed one.
Refresh(p) ==
    /\ pc[p] = "refresh"
    /\ \/ /\ id[p] = live /\ active
          /\ served' = [served EXCEPT ![p] = mine[p]]
          /\ Goto(p, "save") /\ UNCHANGED <<id, seenActive, mine, writing, dirVars>>
       \/ ~(id[p] = live /\ active) /\ Return(p)
    /\ UNCHANGED <<edgeVars, alone, trouble>>

\* save_state replaces state.json by rename; a failure to do so is ignored.
SaveState(p) ==
    /\ stateFile' \in {id[p], stateFile}
    /\ Move(p, "save", "serving")
    /\ UNCHANGED <<disk, aged, edgeVars>>

-----------------------------------------------------------------------------
(* write_private_file.                                                     *)

\* What follows the write of the key, or of the chain.
Written(p) == IF writing[p] = "key" THEN "check" ELSE "refresh"

\* p's file now holds its key, or a new chain for it.
Put(p) ==
    /\ disk' = [disk EXCEPT ![writing[p]] = mine[p]]
    /\ aged' = (aged /\ writing[p] = "key")

\* Mutant: a file is always created anew, also when there is one.
TestFileAssumesNew(p) ==
    /\ Move(p, "test", "create")
    /\ UNCHANGED <<dirVars, edgeVars>>

TestFile(p) ==
    /\ Move(p, "test", IF disk[writing[p]] = "none" THEN "create" ELSE "replace")
    /\ UNCHANGED <<dirVars, edgeVars>>

\* create_new fails if the file has appeared meanwhile.
CreateFile(p) ==
    /\ pc[p] = "create"
    /\ \/ /\ disk[writing[p]] = "none"
          /\ disk' = [disk EXCEPT ![writing[p]] = "torn"]
          /\ Goto(p, "write") /\ UNCHANGED <<procVars, stateFile, aged>>
       \/ disk[writing[p]] # "none" /\ Return(p)
    /\ UNCHANGED <<edgeVars, alone, trouble>>

\* The write goes to the file p created, unless a rename has replaced it.
WriteFile(p) ==
    /\ IF disk[writing[p]] = "torn" THEN Put(p) ELSE UNCHANGED <<disk, aged>>
    /\ Move(p, "write", Written(p))
    /\ UNCHANGED <<stateFile, edgeVars>>

\* atomic_write: a temporary file is renamed over the old one.
ReplaceFile(p) ==
    /\ Put(p)
    /\ Move(p, "replace", Written(p))
    /\ UNCHANGED <<stateFile, edgeVars>>

-----------------------------------------------------------------------------
(* Interruptions and the outside world, at most MaxTrouble of them.        *)

Troubled == trouble < MaxTrouble /\ trouble' = trouble + 1

\* The process is killed, a local write fails, or a request or its answer is
\* lost; or a runtime that was started returns.
Stops(p) ==
    /\ pc[p] # "idle" /\ Troubled /\ Return(p) /\ UNCHANGED <<edgeVars, alone>>

\* The chain on disk comes within the renewal threshold.
ChainAges ==
    /\ disk["chain"] \in Keys /\ ~aged /\ aged' = TRUE /\ Troubled
    /\ UNCHANGED <<stateFile, disk, edgeVars, pc, procVars, alone>>

\* The tunnel is removed and provisioned again under the same name.
Reprovision ==
    /\ live' = live + 1 /\ active' = FALSE /\ Troubled
    /\ UNCHANGED <<dirVars, pc, procVars, alone>>

\* The user clears the directory, as the TunnelRemoved error tells them to.
ClearDirectory ==
    /\ \A p \in Procs : ~Busy(p)
    /\ Troubled
    /\ stateFile' = 0 /\ disk' = [f \in Files |-> "none"] /\ aged' = FALSE
    /\ UNCHANGED <<edgeVars, pc, procVars, alone>>

Work(p) ==
    \/ Connect(p) \/ LoadState(p) \/ Fetch(p) \/ FindKey(p) \/ ReadKey(p) \/ CheckChain(p)
    \/ ReadChain(p) \/ Sign(p) \/ Refresh(p) \/ SaveState(p)
    \/ TestFile(p) \/ CreateFile(p) \/ WriteFile(p) \/ ReplaceFile(p)

Outside == ChainAges \/ Reprovision \/ ClearDirectory

\* Every process serves: the runtime has taken over.
Serving == (\A p \in Procs : pc[p] = "serving") /\ UNCHANGED vars

Next == (\E p \in Procs : Work(p) \/ Stops(p)) \/ Outside \/ Serving

\* A process that is not interrupted gets on, and a failed connect is repeated.
Fairness == \A p \in Procs : WF_vars(Work(p))

Spec     == Init /\ [][Next]_vars
FairSpec == Spec /\ Fairness
-----------------------------------------------------------------------------
(* Properties.                                                             *)

TypeOK ==
    /\ stateFile \in Nat /\ aged \in BOOLEAN /\ live \in Nat /\ active \in BOOLEAN
    /\ disk \in [Files -> Keys \cup {"none", "torn"}]
    /\ pc \in [Procs -> {"idle", "load", "fetch", "key", "readKey", "check", "readChain",
                         "sign", "refresh", "save", "test", "create", "write", "replace",
                         "serving"}]
    /\ id \in [Procs -> Nat] /\ seenActive \in [Procs -> BOOLEAN]
    /\ mine \in [Procs -> Keys \cup {"none"}]
    /\ served \in [Procs -> Keys \cup {"none", "torn"}]
    /\ writing \in [Procs -> Files] /\ alone \in [Procs -> BOOLEAN] /\ trouble \in 0..MaxTrouble

\* An attempt that no other overlapped serves with a chain issued for its own
\* key, whatever earlier attempts, overlapping or interrupted anywhere, left in
\* the directory.
AloneServesPair ==
    \A p \in Procs : pc[p] = "serving" /\ alone[p] => served[p] = mine[p]

\* Nothing the client does gets past a torn key file or a removed tunnel.
NeedsUser == disk["key"] = "torn" \/ stateFile \notin {0, live}

\* Once interruptions cease every process comes to serve, unless the directory
\* needs the user's hand: a signed chain that was lost is signed for again.
EventuallyServes == <>[](NeedsUser \/ \A p \in Procs : pc[p] = "serving")

\* What write_private_file says of itself: a private file is written atomically,
\* so that no interruption leaves a part of one behind.
PrivateWritesAtomic ==
    (\A p \in Procs : ~Busy(p)) => \A f \in Files : disk[f] # "torn"
=============================================================================
