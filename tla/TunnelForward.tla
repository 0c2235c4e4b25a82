---------------------------- MODULE TunnelForward ----------------------------
(***************************************************************************)
(* One forwarded HTTP request (sdk/rust/src/tunnels/client): dispatch_http *)
(* and materialize_body of runtime.rs, forward_envelope_to_url of          *)
(* url_forward.rs.  The body of the third party's request comes with the   *)
(* envelope or is fetched from the edge's store, the local upstream is     *)
(* asked, its answer is read piece by piece, and one reply goes back.      *)
(*                                                                         *)
(* Of a body only its size matters, in pieces.  Headers, which are         *)
(* filtered and rewritten one by one, are not modelled.  The HTTP client   *)
(* is reqwest's, built with a timeout of 30 s over the whole exchange and  *)
(* otherwise as it comes: it follows the redirects of an upstream.         *)
(***************************************************************************)
EXTENDS Integers, Sequences

CONSTANTS
    InCap,    \* max_inbound_body_bytes
    OutCap,   \* max_outbound_body_bytes
    MaxHops   \* redirects the HTTP client follows

ASSUME ForwardAssumption == InCap \in Nat /\ OutCap \in Nat /\ MaxHops \in Nat

\* Statuses of an upstream: an answer, and the two kinds of redirects, of which
\* the first (301, 302, 303) is followed with a GET without a body.
Redirects == {302, 307}
Statuses  == {200, 404} \cup Redirects
Ours      == {400, 413, 502}

NoReply == [status |-> 0, size |-> 0, reason |-> "none"]

VARIABLES
    request,  \* the third party's: [path, method, size, stored]
    at,       \* where the dispatch task is
    body,     \* size of the envelope's body
    asked,    \* sizes of the bodies the upstream was asked with
    status,   \* status of the answer that is read
    produced, \* what the upstream sent of that answer's body
    whole,    \* that was all
    buf,      \* what the task has read of it
    out,      \* the reply to post
    posted    \* the reply posted

envVars      == <<request, body>>
upstreamVars == <<asked, status, produced, whole>>
forwardVars  == <<envVars, at, upstreamVars, buf, out, posted>>

ForwardInit ==
    /\ request \in [path : {"valid", "refused"}, method : {"known", "unknown"},
                    size : 0..InCap + 1, stored : BOOLEAN]
    /\ at = "guard" /\ body = (IF request.stored THEN 0 ELSE request.size)
    /\ asked = <<>> /\ status = 0 /\ produced = 0 /\ whole = FALSE
    /\ buf = 0 /\ out = NoReply /\ posted = NoReply

-----------------------------------------------------------------------------
\* The reply the task goes on to post.
Reply(s, size, reason) ==
    /\ at' = "post" /\ out' = [status |-> s, size |-> size, reason |-> reason]
    /\ UNCHANGED posted

Go(next) == at' = next /\ UNCHANGED <<out, posted>>

\* validate_envelope_path, then the limit on a body that came along.
CheckEnvelope ==
    /\ at = "guard"
    /\ \/ request.path = "refused" /\ Reply(400, 0, "invalid-path")
       \/ /\ request.path = "valid"
          /\ \/ body > InCap /\ Reply(413, 0, "request-body-too-large")
             \/ body <= InCap /\ Go(IF request.stored THEN "fetch" ELSE "ask")
    /\ UNCHANGED <<envVars, upstreamVars, buf>>

FetchBody ==
    /\ at = "fetch"
    /\ \/ request.size > InCap /\ Reply(413, 0, "request-body-too-large") /\ UNCHANGED body
       \/ request.size <= InCap /\ body' = request.size /\ Go("ask")
    /\ UNCHANGED <<request, upstreamVars, buf>>

\* The store refuses, or the request fails or takes too long.
FetchFails ==
    /\ at = "fetch" /\ Reply(502, 0, "body-fetch-failed")
    /\ UNCHANGED <<envVars, upstreamVars, buf>>

Ask ==
    /\ at = "ask"
    /\ \/ request.method = "unknown" /\ Reply(502, 0, "upstream-error") /\ UNCHANGED asked
       \/ request.method = "known" /\ asked' = Append(asked, body) /\ Go("await")
    /\ UNCHANGED <<envVars, status, produced, whole, buf>>

\* The head of an answer that is not followed.
AnswerHead(s) ==
    /\ at = "await" /\ s \notin Redirects /\ status' = s /\ Go("body")
    /\ UNCHANGED <<envVars, asked, produced, whole, buf>>

\* The HTTP client asks again, where the redirect points.
Follow(s) ==
    /\ at = "await" /\ s \in Redirects /\ Len(asked) <= MaxHops
    /\ asked' = Append(asked, IF s = 302 THEN 0 ELSE asked[Len(asked)])
    /\ UNCHANGED <<envVars, at, status, produced, whole, buf, out, posted>>

\* A piece of the answer's body.
Chunk ==
    /\ at = "body" /\ ~whole
    /\ produced' = produced + 1
    /\ \/ buf + 1 > OutCap /\ Reply(502, 0, "response-too-large") /\ UNCHANGED buf
       \/ buf + 1 <= OutCap /\ buf' = buf + 1 /\ Go("body")
    /\ UNCHANGED <<envVars, asked, status, whole>>

ChunksEnd ==
    /\ at = "body" /\ whole' = TRUE /\ Reply(status, buf, "none")
    /\ UNCHANGED <<envVars, asked, status, produced, buf>>

\* Mutant: a body that breaks off is taken as it is.
AskFailsAsRead ==
    /\ \/ at = "await" /\ Reply(502, 0, "upstream-error")
       \/ at = "body" /\ Reply(status, buf, "none")
    /\ UNCHANGED <<envVars, upstreamVars, buf>>

\* The connection fails, or there are too many redirects.
AskFails ==
    /\ at \in {"await", "body"} /\ Reply(502, 0, "upstream-error")
    /\ UNCHANGED <<envVars, upstreamVars, buf>>

\* Mutant: the timeout is for the head of the answer alone.
TimesOutHead ==
    \/ at = "fetch" /\ FetchFails
    \/ at = "await" /\ Reply(502, 0, "upstream-error") /\ UNCHANGED <<envVars, upstreamVars, buf>>

\* 30 s are over.
TimesOut == FetchFails \/ AskFails

\* post_response; what happens to a reply on a closed connection is TunnelRuntime's.
Post ==
    /\ at = "post" /\ at' = "over" /\ (posted' = out \/ UNCHANGED posted)
    /\ UNCHANGED <<envVars, upstreamVars, buf, out>>

\* The runtime aborts the task.
ForwardAborted == at # "over" /\ Go("over") /\ UNCHANGED <<envVars, upstreamVars, buf>>

ForwardTask == CheckEnvelope \/ FetchBody \/ Ask \/ TimesOut \/ Post

ForwardNext ==
    \/ ForwardTask \/ ForwardAborted \/ Chunk \/ ChunksEnd
    \/ \E s \in Statuses : AnswerHead(s) \/ Follow(s)
    \/ at = "over" /\ UNCHANGED forwardVars

-----------------------------------------------------------------------------
\* The task never holds more of an answer than it is allowed to.
ForwardTypeOK ==
    /\ at \in {"guard", "fetch", "ask", "await", "body", "post", "over"}
    /\ body \in 0..InCap + 1 /\ buf \in 0..OutCap
    /\ status \in {0} \cup Statuses
    /\ out.status \in {0} \cup Statuses \cup Ours /\ posted \in {NoReply, out}

\* The upstream is asked only for a request that passed the checks, and with
\* the whole of its body, wherever that came from.
AskedWhole ==
    asked # <<>> =>
        /\ request.path = "valid" /\ request.size <= InCap
        /\ asked[1] = request.size

\* A reply with the upstream's status has all of the upstream's body: what broke
\* off or grew too large is replied as an error of ours, with a reason.
ReplyIsWhole ==
    posted.status # 0 /\ posted.reason = "none" =>
        /\ whole /\ posted.size = produced /\ posted.size <= OutCap
        /\ posted.status = status

\* No part of a body passes for the whole, in either direction.
ForwardedWhole == AskedWhole /\ ReplyIsWhole
=============================================================================
