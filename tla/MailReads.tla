------------------------------ MODULE MailReads ------------------------------
(***************************************************************************)
(* The two loops of the mail resources (sdk/rust/src/mail/resources):      *)
(* MessagesResource::list_filtered collects the pages of a mailbox while   *)
(* mail arrives and is deleted; MailboxImportsResource::wait polls an      *)
(* import until it has ended.  ThreadsResource::list has the loop of the   *)
(* first, over a list whose order changes meanwhile, and                   *)
(* DraftsResource::list one that also ends without a cursor; neither is    *)
(* modelled.                                                               *)
(*                                                                         *)
(* A message is its number, newer ones have greater numbers.  The server   *)
(* lists the newest first; a cursor is the last message of a page, and a   *)
(* page may be shorter than asked for.  Time passes in ticks while wait    *)
(* sleeps or awaits an answer, and the code between takes none.            *)
(***************************************************************************)
EXTENDS Integers, Sequences, Functions

CONSTANTS
    ListLimit,     \* page_size
    MaxMail,       \* bound on the messages there ever are
    PollInterval,  \* poll_interval
    ClientTimeout, \* of the HTTP client, for a request that has none of its own
    MaxTime        \* bound on the time

ASSUME MailAssumption ==
    /\ MaxMail \in Nat /\ ListLimit \in Nat \ {0} /\ PollInterval \in Nat \ {0}
    /\ MaxTime \in Nat /\ ClientTimeout \in Nat \ {0}

Unlimited == MaxTime + 1 \* no timeout was given

VARIABLES
    mailbox,   \* the server's messages
    newest,    \* number of the newest there was
    listing,   \* idle, pages, returned or failed
    listCursor, \* 0 for the first page
    listed,    \* out
    there,     \* history: the messages there when list was called
    now,
    job,       \* the import: running or ended
    waiting,   \* poll, answer, sleep; returned, timed out or failed
    limit,     \* timeout
    until      \* when the sleep ends or the request times out

listingVars == <<mailbox, newest, listing, listCursor, listed, there>>
waitVars    == <<now, job, waiting, limit, until>>
mailVars    == <<listingVars, waitVars>>

MailInit ==
    /\ newest \in 0..MaxMail /\ mailbox = 1..newest
    /\ listing = "idle" /\ listCursor = 0 /\ listed = <<>> /\ there = {}
    /\ now = 0 /\ job = "running" /\ waiting = "poll" /\ until = 0
    /\ limit \in 0..MaxTime - 1 \cup {Unlimited}

-----------------------------------------------------------------------------
(* list.                                                                   *)

MailArrives ==
    /\ listing = "pages" /\ newest < MaxMail
    /\ newest' = newest + 1 /\ mailbox' = mailbox \cup {newest + 1}
    /\ UNCHANGED <<listing, listCursor, listed, there, waitVars>>

MailDeleted(m) ==
    /\ listing = "pages" /\ mailbox' = mailbox \ {m}
    /\ UNCHANGED <<newest, listing, listCursor, listed, there, waitVars>>

StartList ==
    /\ listing = "idle" /\ listing' = "pages" /\ there' = mailbox
    /\ UNCHANGED <<mailbox, newest, listCursor, listed, waitVars>>

\* What comes after the cursor, and the answers the server may give: the newest
\* of it, some of them if there are any, at most as many as asked for.
Remaining == {m \in mailbox : listCursor = 0 \/ m < listCursor}
IsPage(page) ==
    /\ \A i \in DOMAIN page : page[i] \in Remaining
    /\ \A i \in DOMAIN page : {m \in Remaining : m > page[i]} = {page[j] : j \in 1..i - 1}
    /\ Remaining # {} => page # <<>>
HasMore(page) == Range(page) # Remaining
Pages == UNION {[1..n -> 1..MaxMail] : n \in 0..ListLimit}

\* Mutant: a short page is taken for the last one.
NextPageShortEnds(page) ==
    /\ listing = "pages" /\ IsPage(page)
    /\ listed' = listed \o page
    /\ IF Len(page) = ListLimit
       THEN listCursor' = page[Len(page)] /\ UNCHANGED listing
       ELSE listing' = "returned" /\ UNCHANGED listCursor
    /\ UNCHANGED <<mailbox, newest, there, waitVars>>

NextPage(page) ==
    /\ listing = "pages" /\ IsPage(page)
    /\ listed' = listed \o page
    /\ IF HasMore(page)
       THEN listCursor' = page[Len(page)] /\ UNCHANGED listing
       ELSE listing' = "returned" /\ UNCHANGED listCursor
    /\ UNCHANGED <<mailbox, newest, there, waitVars>>

\* What was collected is dropped.
ListFails ==
    /\ listing = "pages" /\ listing' = "failed" /\ listed' = <<>>
    /\ UNCHANGED <<mailbox, newest, listCursor, there, waitVars>>

ListStep ==
    \/ MailArrives \/ StartList \/ ListFails
    \/ \E m \in mailbox : MailDeleted(m)
    \/ \E page \in Pages : NextPage(page)

-----------------------------------------------------------------------------
(* wait, called at time 0.                                                 *)

Soonest(a, b) == IF a < b THEN a ELSE b

Tick ==
    /\ waiting \in {"answer", "sleep"} /\ now < until /\ now < MaxTime
    /\ now' = now + 1
    /\ UNCHANGED <<job, waiting, limit, until, listingVars>>

JobEnds ==
    /\ waiting \in {"answer", "sleep"} /\ job = "running" /\ job' = "ended"
    /\ UNCHANGED <<now, waiting, limit, until, listingVars>>

\* Mutant: the request has the client's timeout.
PollClientTimeout ==
    /\ waiting = "poll" /\ now <= limit
    /\ waiting' = "answer" /\ until' = now + ClientTimeout
    /\ UNCHANGED <<now, job, limit, listingVars>>

\* The request has what is left of the timeout.
Poll ==
    /\ waiting = "poll" /\ now <= limit
    /\ waiting' = "answer"
    /\ until' = IF limit = Unlimited THEN now + ClientTimeout ELSE limit
    /\ UNCHANGED <<now, job, limit, listingVars>>

\* Nothing is left.
PollTooLate ==
    /\ waiting = "poll" /\ now >= limit /\ waiting' = "timed out"
    /\ UNCHANGED <<now, job, limit, until, listingVars>>

\* The answer comes in time; the sleep is no longer than what is left.
PollAnswered ==
    /\ waiting = "answer" /\ now <= until
    /\ IF job = "ended" THEN waiting' = "returned" /\ UNCHANGED until
       ELSE waiting' = "sleep" /\ until' = Soonest(now + PollInterval, limit)
    /\ UNCHANGED <<now, job, limit, listingVars>>

\* The request fails, or no answer comes in time.
PollFails ==
    /\ waiting = "answer"
    /\ \/ waiting' = "failed"
       \/ now = until /\ limit # Unlimited /\ waiting' = "timed out"
    /\ UNCHANGED <<now, job, limit, until, listingVars>>

WakeUp ==
    /\ waiting = "sleep" /\ now = until /\ waiting' = "poll"
    /\ UNCHANGED <<now, job, limit, until, listingVars>>

WaitStep == Tick \/ JobEnds \/ Poll \/ PollTooLate \/ PollAnswered \/ PollFails \/ WakeUp

MailNext == ListStep \/ WaitStep

MailSpec == MailInit /\ [][MailNext]_mailVars

-----------------------------------------------------------------------------
MailTypeOK ==
    /\ mailbox \subseteq 1..newest /\ newest \in 0..MaxMail
    /\ listing \in {"idle", "pages", "returned", "failed"} /\ listCursor \in 0..MaxMail
    /\ Range(listed) \subseteq 1..newest
    /\ now \in 0..MaxTime /\ job \in {"running", "ended"}
    /\ waiting \in {"poll", "answer", "sleep", "returned", "timed out", "failed"}

\* The messages that were there when list was called and have not been deleted
\* are listed, each once and the newest first, whatever arrives or is deleted
\* between the pages and however short they are.
ListedWhole ==
    listing = "returned" =>
        /\ there \cap mailbox \subseteq Range(listed)
        /\ \A i, j \in DOMAIN listed : i < j => listed[i] > listed[j]

\* wait with a timeout is not under way beyond it, neither in a request nor in
\* a sleep.
WaitBounded == waiting \in {"answer", "sleep"} => now <= limit
=============================================================================
