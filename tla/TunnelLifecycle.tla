--------------------------- MODULE TunnelLifecycle ---------------------------
(***************************************************************************)
(* What the tunnel runtime promises whoever observes it through on_status  *)
(* (sdk/rust/src/tunnels/client/runtime.rs and status.rs): every attempt   *)
(* is announced once, a lost connection is reported before the next        *)
(* attempt, a closed runtime starts no attempt, and the status with which  *)
(* it ends is the last.                                                    *)
(***************************************************************************)
EXTENDS Naturals

VARIABLES
    status,    \* the last status recorded, "none" before the first
    attempt,   \* connection attempts begun
    announced, \* the attempt last announced as "connected", 0 for none
    closing,   \* aclose was called
    ended      \* serve_forever has returned

vars == <<status, attempt, announced, closing, ended>>

Init ==
    /\ status = "none" /\ attempt = 0 /\ announced = 0
    /\ closing = FALSE /\ ended = FALSE

Connecting ==
    /\ ~ended /\ attempt = 0 /\ status \in {"none", "closed"}
    /\ status' = "connecting"
    /\ UNCHANGED <<attempt, announced, closing, ended>>

\* The first attempt follows "connecting", every other one "reconnecting".
Attempt ==
    /\ ~ended /\ ~closing
    /\ status = IF attempt = 0 THEN "connecting" ELSE "reconnecting"
    /\ attempt' = attempt + 1
    /\ UNCHANGED <<status, announced, closing, ended>>

\* An attempt is announced at most once.
Connected ==
    /\ ~ended /\ announced < attempt /\ status # "connected"
    /\ status' = "connected"
    /\ announced' = attempt
    /\ UNCHANGED <<attempt, closing, ended>>

\* An attempt failed, or the connection it made was lost.
Reconnecting ==
    /\ ~ended /\ attempt > 0 /\ status # "reconnecting"
    /\ status' = "reconnecting"
    /\ UNCHANGED <<attempt, announced, closing, ended>>

Close ==
    /\ ~closing /\ closing' = TRUE
    /\ UNCHANGED <<status, attempt, announced, ended>>

\* aclose reports the end it brings about, ahead of the supervisor.
CloseReported ==
    /\ closing /\ ~ended
    /\ status' = "closed"
    /\ UNCHANGED <<attempt, announced, closing, ended>>

\* The supervisor returns: stopped, refused by the edge, or superseded.
End(final) ==
    /\ ~ended /\ ended' = TRUE
    /\ closing \/ attempt > 0
    /\ status' = final
    /\ UNCHANGED <<attempt, announced, closing>>

Next ==
    \/ Connecting \/ Attempt \/ Connected \/ Reconnecting \/ Close \/ CloseReported
    \/ End("closed")
    \/ attempt > 0 /\ End("superseded")

Spec == Init /\ [][Next]_vars
=============================================================================
