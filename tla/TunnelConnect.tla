---------------------------- MODULE TunnelConnect ----------------------------
(***************************************************************************)
(* What a client does to connect a tunnel and to stay connected: it makes  *)
(* the state directory hold a key and a certificate that match, as the     *)
(* Rust SDK does (TunnelBootstrap), and keeps one connection served while  *)
(* the edge drains, as the Python SDK does (WarmHandoff).                  *)
(*                                                                         *)
(* The two share no state, and a behaviour exercises one of them.          *)
(***************************************************************************)
EXTENDS TunnelBootstrap, WarmHandoff

VARIABLE part \* the part this behaviour exercises

connectVars == <<part, vars, handoffVars>>

ConnectInit == part \in {"bootstrap", "handoff"} /\ Init /\ HandoffInit

\* A step of one part, in the behaviours that exercise it.
Bootstrap(step) == part = "bootstrap" /\ step /\ UNCHANGED <<part, handoffVars>>
Runtime(step)   == part = "handoff" /\ step /\ UNCHANGED <<part, vars>>

ConnectNext == Bootstrap(Next) \/ Runtime(HandoffNext \/ Rests)

\* The processes of the bootstrap go on, and so do the tasks of the runtime
\* that nothing but a bounded wait holds up: the supervisor, the handoffs and
\* aclose.  The edge owes nothing.
ConnectFairness ==
    /\ \A p \in Procs : WF_connectVars(Bootstrap(Work(p)))
    /\ WF_connectVars(Runtime(Tasks))

ConnectSpec == ConnectInit /\ [][ConnectNext]_connectVars /\ ConnectFairness

-----------------------------------------------------------------------------
\* The part that is exercised keeps to its types.
ConnectTypeOK ==
    /\ part = "bootstrap" => TypeOK
    /\ part = "handoff" => HandoffTypeOK

\* EventuallyServes, where the bootstrap is exercised.
BootstrapServes == part = "bootstrap" => EventuallyServes
=============================================================================
