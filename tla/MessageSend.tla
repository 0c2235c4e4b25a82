----------------------------- MODULE MessageSend -----------------------------
(***************************************************************************)
(* The sends that may be repeated: post_message (sdk/rust/src/http.rs) and *)
(* the send methods of mail, texts, iMessage and WhatsApp that use it.     *)
(*                                                                         *)
(* A request carries the key of its call and is repeated, under that key,  *)
(* when its answer is lost or says to try again; the network may deliver a *)
(* request long after its call has given it up.  The server sends one      *)
(* message per key: while it works on a request it answers others of the   *)
(* same key with idempotency_in_progress, afterwards with what it sent.    *)
(*                                                                         *)
(* The program may call again for a message it is not sure of, also after  *)
(* a crash.  A message is kept when the program has its key: one it        *)
(* supplied, or the one a failed WhatsApp send returned.  A key is a       *)
(* number of its message: 0 if kept, else generated by that call.          *)
(***************************************************************************)
EXTENDS Integers, HttpErrors

CONSTANTS
    Messages,  \* what the program wants to send
    MaxCalls   \* bound on the calls for one message

ASSUME MessageSendAssumption == MaxCalls \in Nat

\* for attempt in 0..3
LastAttempt == 2

Keys     == 0..MaxCalls
Requests == [msg : Messages, key : Keys, call : 1..MaxCalls, attempt : 0..LastAttempt]

\* Answers of the server.
Sent == Answer(200, "none", NoDelay, NoDelay)
Busy == Answer(409, "idempotency_in_progress", NoDelay, NoDelay)

\* Answers of a gateway or a limit, whatever became of the message: to try again,
\* now or in a long time, or not.
TurnedAway == {Answer(status, "none", header, NoDelay) : status \in {429, 503}, header \in {NoDelay, 1, 60}}
         \cup {Answer(502, "none", NoDelay, NoDelay), Answer(504, "none", NoDelay, 60)}
Refused    == {Answer(400, "none", NoDelay, NoDelay), Answer(500, "none", 1, NoDelay),
               Answer(403, "recipient_blocked", NoDelay, NoDelay),
               Answer(402, "storage_limit_exceeded", NoDelay, NoDelay)}

VARIABLES
    kept,      \* per message: the program has its key
    calls,     \* calls made for it
    phase,     \* idle, waiting for an answer, pausing; done or failed
    sendKey, attempt, \* locals of the call
    network,   \* requests under way
    working,   \* requests the server works on
    used,      \* per message, the keys it has been sent under
    delivered  \* per message, how often it was sent

attemptVars == <<calls, phase, sendKey, attempt>>
serverVars  == <<working, used, delivered>>
sendVars    == <<kept, attemptVars, network, serverVars>>

SendInit ==
    /\ kept \in [Messages -> BOOLEAN]
    /\ calls = [m \in Messages |-> 0] /\ phase = [m \in Messages |-> "idle"]
    /\ sendKey = [m \in Messages |-> 0] /\ attempt = [m \in Messages |-> 0]
    /\ network = {} /\ working = {}
    /\ used = [m \in Messages |-> {}] /\ delivered = [m \in Messages |-> 0]

-----------------------------------------------------------------------------
(* The call.                                                               *)

Request(m, key, call, try) == [msg |-> m, key |-> key, call |-> call, attempt |-> try]

\* The program calls: first, or again because it is not sure.
SendCall(m) ==
    /\ phase[m] \in {"idle", "failed"} /\ calls[m] < MaxCalls
    /\ LET key == IF kept[m] THEN 0 ELSE calls[m] + 1 IN
          /\ sendKey' = [sendKey EXCEPT ![m] = key]
          /\ network' = network \cup {Request(m, key, calls[m] + 1, 0)}
    /\ calls' = [calls EXCEPT ![m] = @ + 1] /\ attempt' = [attempt EXCEPT ![m] = 0]
    /\ phase' = [phase EXCEPT ![m] = "waiting"]
    /\ UNCHANGED <<kept, serverVars>>

\* Mutant: every request has a key of its own.
RetryNewKey(m) ==
    /\ phase[m] = "pausing" /\ sendKey[m] < MaxCalls
    /\ attempt' = [attempt EXCEPT ![m] = @ + 1]
    /\ sendKey' = [sendKey EXCEPT ![m] = @ + 1]
    /\ network' = network \cup {Request(m, sendKey[m] + 1, calls[m], attempt[m] + 1)}
    /\ phase' = [phase EXCEPT ![m] = "waiting"]
    /\ UNCHANGED <<kept, calls, serverVars>>

\* The pause is over.
Retry(m) ==
    /\ phase[m] = "pausing"
    /\ attempt' = [attempt EXCEPT ![m] = @ + 1]
    /\ network' = network \cup {Request(m, sendKey[m], calls[m], attempt[m] + 1)}
    /\ phase' = [phase EXCEPT ![m] = "waiting"]
    /\ UNCHANGED <<kept, calls, sendKey, serverVars>>

\* What becomes of the call.
Verdict(answer, try) ==
    IF RaiseForStatus(answer) = "none" THEN "done"
    ELSE IF Retryable(answer) /\ RetryAfterSeconds(answer) <= 5 /\ try < LastAttempt
         THEN "pausing" ELSE "failed"

\* Request r is answered: only the one its call waits for matters.
Answered(r, answer) ==
    phase' = IF phase[r.msg] = "waiting" /\ calls[r.msg] = r.call /\ attempt[r.msg] = r.attempt
             THEN [phase EXCEPT ![r.msg] = Verdict(answer, r.attempt)] ELSE phase

\* The connection breaks, the client's timer fires, or the answer cannot be decoded.
AnswerLost(m) ==
    /\ phase[m] = "waiting"
    /\ phase' = [phase EXCEPT ![m] = Verdict(NoAnswerAtAll, attempt[m])]
    /\ UNCHANGED <<kept, calls, sendKey, attempt, network, serverVars>>

\* The program stops in the middle of the call.
Crash(m) ==
    /\ phase[m] \in {"waiting", "pausing"}
    /\ phase' = [phase EXCEPT ![m] = "failed"]
    /\ UNCHANGED <<kept, calls, sendKey, attempt, network, serverVars>>

-----------------------------------------------------------------------------
(* The network and the server.                                             *)

RequestLost(r) ==
    /\ network' = network \ {r}
    /\ UNCHANGED <<kept, attemptVars, serverVars>>

InProgress(r) == \E w \in working : w.msg = r.msg /\ w.key = r.key

Deduplicate(r) ==
    /\ \/ r.key \in used[r.msg] /\ Answered(r, Sent)
       \/ InProgress(r) /\ Answered(r, Busy)
    /\ network' = network \ {r}
    /\ UNCHANGED <<kept, calls, sendKey, attempt, serverVars>>

StartWork(r) ==
    /\ r.key \notin used[r.msg] /\ ~InProgress(r)
    /\ network' = network \ {r} /\ working' = working \cup {r}
    /\ UNCHANGED <<kept, attemptVars, used, delivered>>

\* A gateway or a limit answers first, whatever became of the key.
TurnAway(r) ==
    /\ \E answer \in TurnedAway \cup Refused : Answered(r, answer)
    /\ network' = network \ {r}
    /\ UNCHANGED <<kept, calls, sendKey, attempt, serverVars>>

Deliver(r) ==
    /\ working' = working \ {r}
    /\ used' = [used EXCEPT ![r.msg] = @ \cup {r.key}]
    /\ delivered' = [delivered EXCEPT ![r.msg] = @ + 1]
    /\ Answered(r, Sent)
    /\ UNCHANGED <<kept, calls, sendKey, attempt, network>>

GiveUp(r) ==
    /\ working' = working \ {r}
    /\ \E answer \in TurnedAway \cup Refused : Answered(r, answer)
    /\ UNCHANGED <<kept, calls, sendKey, attempt, network, used, delivered>>

SendNext ==
    \/ \E m \in Messages : SendCall(m) \/ Retry(m) \/ AnswerLost(m) \/ Crash(m)
    \/ \E r \in network : RequestLost(r) \/ Deduplicate(r) \/ StartWork(r) \/ TurnAway(r)
    \/ \E r \in working : Deliver(r) \/ GiveUp(r)

SendSpec == SendInit /\ [][SendNext]_sendVars

-----------------------------------------------------------------------------
SendTypeOK ==
    /\ kept \in [Messages -> BOOLEAN] /\ calls \in [Messages -> 0..MaxCalls]
    /\ phase \in [Messages -> {"idle", "waiting", "pausing", "done", "failed"}]
    /\ sendKey \in [Messages -> Keys] /\ attempt \in [Messages -> 0..LastAttempt]
    /\ network \subseteq Requests /\ working \subseteq Requests
    /\ used \in [Messages -> SUBSET Keys] /\ delivered \in [Messages -> Nat]

\* A message is sent at most once, through all the requests, delays, crashes and
\* further calls, if one call was made for it or the program kept its key.
SentOnce == \A m \in Messages : kept[m] \/ calls[m] <= 1 => delivered[m] <= 1

\* A call that succeeded has sent its message: an answer about another request
\* that is still being worked on does not count.
SuccessIsDelivered == \A m \in Messages : phase[m] = "done" => delivered[m] >= 1

\* What a caller who keeps its key may rely on: after a success, exactly one
\* message was sent.
SentExactly == SentOnce /\ SuccessIsDelivered
=============================================================================
