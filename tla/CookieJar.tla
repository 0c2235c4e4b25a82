------------------------------ MODULE CookieJar ------------------------------
(***************************************************************************)
(* The cookie jar that all transports of a client share                    *)
(* (sdk/rust/src/cookies.rs, used by HttpTransport::send in http.rs).      *)
(*                                                                         *)
(* Threads make requests; each takes its Cookie header from the jar and    *)
(* puts the Set-Cookie of its answer into the jar, with the lock held for  *)
(* the one and for the other but not in between.  The answers of two       *)
(* requests can so be stored in another order than the server gave them,   *)
(* or be lost.                                                             *)
(*                                                                         *)
(* A URL path is a sequence of segments ("/" is <<"">>, "/a/" <<"a", "">>) *)
(* and there is one host, one cookie name and one scheme: a cookie is told *)
(* by its path.  A cookie's value is the number of the answer that set it. *)
(* The clock does not go back.                                             *)
(***************************************************************************)
EXTENDS Integers, Sequences, SequencesExt, FiniteSets

CONSTANTS
    Callers,    \* threads
    Paths,      \* paths of requests
    PathAttrs,  \* Path attributes that are no default, of Set-Cookie headers
    Ages,       \* Max-Age attributes, in ticks; one that is not positive removes
    Dates,      \* Expires attributes
    MaxAnswers, \* bound on answers that set a cookie
    MaxSecs     \* bound on the clock

ASSUME CookieJarAssumption ==
    /\ MaxAnswers \in Nat /\ MaxSecs \in Nat
    /\ Ages \subseteq Int /\ Dates \subseteq Nat
    /\ Paths \cup PathAttrs \subseteq Seq(STRING) \ {<<>>}

Never  == MaxSecs + 1000 \* expires_at of a session cookie
NoPath == <<>>

\* What says how long a cookie lives: the last attribute that does.
Lifetimes == {[kind |-> "session", val |-> 0]}
        \cup {[kind |-> "max-age", val |-> a] : a \in Ages}
        \cup {[kind |-> "expires", val |-> d] : d \in Dates}

SetCookies == [path : PathAttrs \cup {NoPath}, life : Lifetimes]

-----------------------------------------------------------------------------
(* Scopes.                                                                 *)

DefaultPath(path) == IF Len(path) = 1 THEN <<"">> ELSE Front(path)

\* A parent directory with or without its final slash, or the same path.
PathMatches(requested, path) ==
    \/ requested = path
    \/ /\ Len(requested) >= Len(path)
       /\ IF Last(path) = "" THEN IsPrefix(Front(path), requested)
                             ELSE IsStrictPrefix(path, requested)

CookiePaths == {DefaultPath(p) : p \in Paths} \cup PathAttrs

-----------------------------------------------------------------------------
VARIABLES
    nowSecs,
    jar,      \* cookie path -> [value, expires], for those in the jar
    stage,    \* per caller: idle, asking, answered, parsed
    path,     \* of its request, NoPath when it is parsed or there is none
    answer,   \* its answer: the value and the Set-Cookie header
    cookie,   \* the parsed header: [path, value, expires]
    \* Of the server
    answers,  \* answers that set a cookie so far
    lastSet   \* per cookie path, the last answer that set it: [value, life, at],
              \* Unknown if it was lost, or given while another answer that sets
              \* the same cookie was not yet stored

askVars   == <<stage, path, answer, cookie>>
siteVars == <<answers, lastSet>>
jarVars    == <<nowSecs, jar, askVars, siteVars>>

Session  == [kind |-> "session", val |-> 0]
NoAnswer == [value |-> 0, path |-> NoPath, life |-> Session]
NoCookie == [path |-> NoPath, value |-> 0, expires |-> 0]
Unknown  == [value |-> 0, life |-> Session, at |-> 0]

JarInit ==
    /\ nowSecs = 0 /\ jar = <<>>
    /\ stage = [c \in Callers |-> "idle"]
    /\ path = [c \in Callers |-> NoPath]
    /\ answer = [c \in Callers |-> NoAnswer] /\ cookie = [c \in Callers |-> NoCookie]
    /\ answers = 0 /\ lastSet = [p \in CookiePaths |-> Unknown]

SecondPasses == nowSecs < MaxSecs /\ nowSecs' = nowSecs + 1 /\ UNCHANGED <<jar, askVars, siteVars>>

-----------------------------------------------------------------------------
(* HttpTransport::send                                                     *)

Live(p) == jar[p].expires > nowSecs

\* The cookies of the header for a request.
HeaderForUrl(requested) ==
    {<<p, jar[p].value>> : p \in {q \in DOMAIN jar : Live(q) /\ PathMatches(requested, q)}}

\* header_for_url, which drops what has expired, and the request.
Ask(c) ==
    /\ stage[c] = "idle"
    /\ \E p \in Paths : path' = [path EXCEPT ![c] = p]
    /\ jar' = [p \in {q \in DOMAIN jar : Live(q)} |-> jar[p]]
    /\ stage' = [stage EXCEPT ![c] = "asking"]
    /\ UNCHANGED <<nowSecs, answer, cookie, siteVars>>

\* Where the answer of caller c would put its cookie.
CookiePath(requested, attr) == IF attr = NoPath THEN DefaultPath(requested) ELSE attr

ExpiresAt(life) ==
    CASE life.kind = "session" -> Never
      [] life.kind = "max-age" -> nowSecs + life.val
      [] life.kind = "expires" -> life.val

\* parse_set_cookie, which reads the clock.
Parse(c) ==
    /\ stage[c] = "answered"
    /\ cookie' = [cookie EXCEPT ![c] =
          [path |-> CookiePath(path[c], answer[c].path), value |-> answer[c].value,
           expires |-> ExpiresAt(answer[c].life)]]
    /\ stage' = [stage EXCEPT ![c] = "parsed"]
    /\ answer' = [answer EXCEPT ![c] = NoAnswer] /\ path' = [path EXCEPT ![c] = NoPath]
    /\ UNCHANGED <<nowSecs, jar, siteVars>>

\* Mutant: a cookie that has expired is not stored, and that is all.
StoreKeepsOld(c) ==
    /\ stage[c] = "parsed"
    /\ LET new == cookie[c]
           entry == [value |-> new.value, expires |-> new.expires] IN
          jar' = IF new.expires <= nowSecs THEN jar
                 ELSE [p \in DOMAIN jar \cup {new.path} |->
                          IF p = new.path THEN entry ELSE jar[p]]
    /\ stage' = [stage EXCEPT ![c] = "idle"]
    /\ cookie' = [cookie EXCEPT ![c] = NoCookie]
    /\ UNCHANGED <<nowSecs, path, answer, siteVars>>

\* The rest of store_from_headers: the clock is read once more; a cookie that
\* has expired by then removes, another replaces the one under its key.
StoreFromHeaders(c) ==
    /\ stage[c] = "parsed"
    /\ LET new == cookie[c]
           entry == [value |-> new.value, expires |-> new.expires]
           others == DOMAIN jar \ {new.path} IN
          jar' = IF new.expires <= nowSecs THEN [p \in others |-> jar[p]]
                 ELSE [p \in others \cup {new.path} |->
                          IF p = new.path THEN entry ELSE jar[p]]
    /\ stage' = [stage EXCEPT ![c] = "idle"]
    /\ cookie' = [cookie EXCEPT ![c] = NoCookie]
    /\ UNCHANGED <<nowSecs, path, answer, siteVars>>

-----------------------------------------------------------------------------
(* The server and the network.                                             *)

\* Answers under way that set the cookie of path p.
Pending(p) ==
    {c \in Callers : \/ stage[c] = "answered" /\ CookiePath(path[c], answer[c].path) = p
                     \/ stage[c] = "parsed" /\ cookie[c].path = p}

AnswerWithCookie(c) ==
    /\ stage[c] = "asking" /\ answers < MaxAnswers
    /\ answers' = answers + 1
    /\ \E set \in SetCookies :
          LET p == CookiePath(path[c], set.path) IN
             /\ answer' = [answer EXCEPT ![c] =
                              [value |-> answers', path |-> set.path, life |-> set.life]]
             /\ lastSet' = [lastSet EXCEPT ![p] =
                               IF Pending(p) # {} THEN Unknown
                               ELSE [value |-> answers', life |-> set.life, at |-> nowSecs]]
    /\ stage' = [stage EXCEPT ![c] = "answered"]
    /\ UNCHANGED <<nowSecs, jar, path, cookie>>

\* An answer without a cookie, or none.
AnswerPlainly(c) ==
    /\ stage[c] = "asking"
    /\ stage' = [stage EXCEPT ![c] = "idle"] /\ path' = [path EXCEPT ![c] = NoPath]
    /\ UNCHANGED <<nowSecs, jar, answer, cookie, siteVars>>

\* The answer does not arrive.
LoseAnswer(c) ==
    /\ stage[c] = "answered"
    /\ stage' = [stage EXCEPT ![c] = "idle"] /\ path' = [path EXCEPT ![c] = NoPath]
    /\ answer' = [answer EXCEPT ![c] = NoAnswer]
    /\ lastSet' = [lastSet EXCEPT ![CookiePath(path[c], answer[c].path)] = Unknown]
    /\ UNCHANGED <<nowSecs, jar, cookie, answers>>

JarNext ==
    \/ SecondPasses
    \/ \E c \in Callers :
          \/ Ask(c) \/ AnswerWithCookie(c) \/ AnswerPlainly(c) \/ LoseAnswer(c)
          \/ Parse(c) \/ StoreFromHeaders(c)

JarSpec == JarInit /\ [][JarNext]_jarVars

-----------------------------------------------------------------------------
JarTypeOK ==
    /\ nowSecs \in 0..MaxSecs /\ answers \in 0..MaxAnswers
    /\ DOMAIN jar \subseteq CookiePaths
    /\ \A p \in DOMAIN jar : jar[p].value \in 1..answers /\ jar[p].expires \in Nat \ {0}
    /\ stage \in [Callers -> {"idle", "asking", "answered", "parsed"}]
    /\ path \in [Callers -> Paths \cup {NoPath}]
    /\ \A c \in Callers :
          /\ answer[c].value \in 0..answers /\ answer[c].life \in Lifetimes
          /\ cookie[c].value \in 0..answers
    /\ \A p \in CookiePaths : lastSet[p].value \in 0..answers

\* The server set or removed the cookie of p, and its word has reached the jar.
Settled(p) == lastSet[p] # Unknown /\ Pending(p) = {}

\* The instant from which the server counts the cookie of p as expired.  A Max-Age
\* counts for the client from when it reads the answer, thus longer.
ServerExpiry(p) ==
    LET s == lastSet[p] IN
       CASE s.life.kind = "session" -> Never
         [] s.life.kind = "max-age" -> s.at + s.life.val
         [] s.life.kind = "expires" -> s.life.val

\* A request to a cookie's path carries the value the server set last, through
\* expiry, removal, renewal and other requests under way: one that the server
\* has removed or outdated is not sent, one that lives is.  The exceptions are
\* answers that are lost or overlap on the same cookie, for the jar keeps the
\* one that is stored last.
CarriesLastSet ==
    \A requested \in Paths : \A p \in CookiePaths :
       Settled(p) /\ PathMatches(requested, p) =>
          LET sent == {v \in 0..answers : <<p, v>> \in HeaderForUrl(requested)}
              removed == \/ lastSet[p].life.kind = "max-age" /\ lastSet[p].life.val <= 0
                         \/ lastSet[p].life.kind = "expires" /\ lastSet[p].life.val <= nowSecs IN
             /\ sent \subseteq {lastSet[p].value}
             /\ removed => sent = {}
             /\ nowSecs < ServerExpiry(p) => sent = {lastSet[p].value}
=============================================================================
