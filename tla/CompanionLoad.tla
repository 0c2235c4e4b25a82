---------------------------- MODULE CompanionLoad ----------------------------
(***************************************************************************)
(* load_initialization (sdk/rust/src/companion.rs): the history of a       *)
(* conversation is fetched page by page while the conversation goes on,    *)
(* and the first page once more at the end.                                *)
(*                                                                         *)
(* The server lists the history in one of two orders, a page at a time; a  *)
(* cursor is the entry after which the next page begins, or how many come  *)
(* before it.  New messages appear at one end, an entry may change (its    *)
(* version), and so may the scope a reply belongs to.  Sizes are not       *)
(* modelled: a load may exceed max_bytes at any page.                      *)
(***************************************************************************)
EXTENDS Integers, Sequences, Selection

CONSTANTS
    MaxEntries,  \* bound on the messages of the conversation
    MaxChanges,  \* bound on the changes of the scope and of entries
    PageSize,    \* limit
    MaxPages     \* max_pages

ASSUME CompanionAssumption ==
    MaxEntries \in Nat /\ MaxChanges \in Nat /\ PageSize \in Nat \ {0} /\ MaxPages \in Nat \ {0}

VARIABLES
    newestFirst, byOffset, \* the order of the list, the kind of its cursors
    history,     \* the server's list: entries [id, ver]
    scope,       \* version of scope_id, reply_context and the like
    changes,     \* changes so far
    loading,     \* idle, pages, verify, returned or failed
    pages,       \* pages fetched
    cursor,      \* 0: from the start
    seenCursors, \* the cursors used
    firstPage,   \* [items, scope, next]
    entries,     \* the entries collected
    whole, wholeScope \* history and scope when the last page was fetched

loadVars == <<newestFirst, byOffset, history, scope, changes, loading, pages, cursor, seenCursors,
              firstPage, entries, whole, wholeScope>>

NoPage == [items |-> <<>>, scope |-> 0, next |-> 0]

\* A conversation has its trigger at least.
LoadInit ==
    /\ newestFirst \in BOOLEAN /\ byOffset \in BOOLEAN /\ scope = 1 /\ changes = 0
    /\ \E n \in 1..MaxEntries : history = [i \in 1..n |-> [id |-> i, ver |-> 0]]
    /\ loading = "idle" /\ pages = 0 /\ cursor = 0 /\ seenCursors = {}
    /\ firstPage = NoPage /\ entries = <<>> /\ whole = <<>> /\ wholeScope = 0

-----------------------------------------------------------------------------
(* The server.                                                             *)

listVars == <<newestFirst, byOffset, history, scope, changes>>
localVars  == <<pages, cursor, seenCursors, firstPage, entries>>

NewMessage ==
    /\ loading \in {"pages", "verify"} /\ Len(history) < MaxEntries
    /\ LET new == [id |-> Len(history) + 1, ver |-> 0] IN
          history' = IF newestFirst THEN <<new>> \o history ELSE Append(history, new)
    /\ UNCHANGED <<newestFirst, byOffset, scope, changes, loading, localVars, whole, wholeScope>>

EntryChanges ==
    /\ loading \in {"pages", "verify"} /\ changes < MaxChanges
    /\ changes' = changes + 1
    /\ \E i \in DOMAIN history : history' = [history EXCEPT ![i].ver = changes + 1]
    /\ UNCHANGED <<newestFirst, byOffset, scope, loading, localVars, whole, wholeScope>>

ScopeChanges ==
    /\ loading \in {"pages", "verify"} /\ changes < MaxChanges
    /\ changes' = changes + 1 /\ scope' = scope + 1
    /\ UNCHANGED <<newestFirst, byOffset, history, loading, localVars, whole, wholeScope>>

\* The page after cursor c: next is 0 when the history is complete.
Page(c) ==
    LET skip == IF c = 0 \/ byOffset THEN c
                ELSE CHOOSE i \in DOMAIN history : history[i].id = c
        last == IF skip + PageSize < Len(history) THEN skip + PageSize ELSE Len(history)
    IN  [items |-> SubSeq(history, skip + 1, last), scope |-> scope,
         next  |-> IF last = Len(history) THEN 0
                   ELSE IF byOffset THEN last ELSE history[last].id]

-----------------------------------------------------------------------------
(* load_initialization.                                                    *)

Load ==
    /\ loading = "idle" /\ loading' = "pages"
    /\ UNCHANGED <<listVars, localVars, whole, wholeScope>>

Entry  == [id : 1..MaxEntries, ver : 0..MaxChanges]
Ids(s) == {s[i].id : i \in DOMAIN s}

Conflict(page) ==
    \E i \in DOMAIN page.items, j \in DOMAIN entries :
        page.items[i].id = entries[j].id /\ page.items[i] # entries[j]

\* The first scope is that of the load.
ScopeKept(page) == pages = 0 \/ page.scope = firstPage.scope

\* The entries of a page that are new.
Fresh(page) == Those(page.items, {e \in Entry : e.id \notin Ids(entries)})

\* One page.
FetchPage ==
    /\ loading = "pages" /\ pages < MaxPages
    /\ LET page == Page(cursor) IN
          /\ ScopeKept(page) /\ ~Conflict(page)
          /\ page.next \notin seenCursors
          /\ firstPage' = IF pages = 0 THEN page ELSE firstPage
          /\ entries' = entries \o Fresh(page)
          /\ pages' = pages + 1
          /\ \/ page.next = 0 /\ loading' = "verify" /\ whole' = history /\ wholeScope' = scope
                /\ UNCHANGED <<cursor, seenCursors>>
             \/ page.next # 0 /\ cursor' = page.next /\ seenCursors' = seenCursors \cup {page.next}
                /\ UNCHANGED <<loading, whole, wholeScope>>
    /\ UNCHANGED listVars

\* The request fails, the page is invalid, or with another scope or version of
\* an entry, or too large, or there are too many, or it names an old cursor.
LoadFails ==
    /\ loading \in {"pages", "verify"} /\ loading' = "failed"
    /\ UNCHANGED <<listVars, localVars, whole, wholeScope>>

\* Mutant: the first page is not fetched again.
VerifySkipped ==
    /\ loading = "verify" /\ loading' = "returned"
    /\ UNCHANGED <<listVars, localVars, whole, wholeScope>>

\* The first page is as it was.
Verify ==
    /\ loading = "verify" /\ Page(0) = firstPage
    /\ loading' = "returned"
    /\ UNCHANGED <<listVars, localVars, whole, wholeScope>>

LoadNext ==
    \/ NewMessage \/ EntryChanges \/ ScopeChanges
    \/ Load \/ FetchPage \/ LoadFails \/ Verify

LoadSpec == LoadInit /\ [][LoadNext]_loadVars

-----------------------------------------------------------------------------
\* What is returned has every message of the conversation, as long as it was
\* when the last page was fetched, once and in order, also if messages arrived
\* while the pages were fetched; and the scope was the same all the while.
LoadedWhole ==
    loading = "returned" =>
        /\ Len(entries) = Len(whole)
        /\ \A i \in DOMAIN entries : entries[i].id = whole[i].id
        /\ firstPage.scope = wholeScope

LoadTypeOK ==
    /\ loading \in {"idle", "pages", "verify", "returned", "failed"}
    /\ pages \in 0..MaxPages /\ cursor \in 0..MaxEntries /\ changes \in 0..MaxChanges
    /\ Ids(entries) \subseteq 1..MaxEntries
=============================================================================
